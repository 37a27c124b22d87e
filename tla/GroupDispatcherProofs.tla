----------------------- MODULE GroupDispatcherProofs -----------------------
(***************************************************************************)
(* Proofs about GroupDispatcher, for every set of sessions, every bound on *)
(* the inbound queue and every number of messages.                         *)
(*                                                                         *)
(* OneWorkerPerGroup is not inductive: it rests on _workers naming every   *)
(* live task while run is in its loop (EntryKnows), so that dispatch never *)
(* starts a second one, and on nobody being dispatched after cancel_all.   *)
(***************************************************************************)
EXTENDS GroupDispatcher, SequenceTheorems, TLAPS

\* Every task belongs to a group, only a busy one has a message, and only a
\* busy one asks.
TaskShape ==
    \A w \in Workers :
        /\ wk[w].pc # "free" => wk[w].grp \in Groups
        /\ wk[w].pc = "busy" <=> wk[w].msg # NoMessage
        /\ wk[w].ask # "none" => wk[w].pc = "busy"

\* _workers is about tasks of that group; while run is in its loop it names
\* every live one, and after cancel_all it is empty.
EntryKnows ==
    /\ \A g \in Groups : entry[g] # NoWorker =>
          wk[entry[g]].pc # "free" /\ wk[entry[g]].grp = g
    /\ running => \A w \in Workers : Alive(w) => entry[wk[w].grp] = w
    /\ ~running => \A g \in Groups : entry[g] = NoWorker

IInv == TypeOK /\ TaskShape /\ EntryKnows /\ OneWorkerPerGroup /\ QuestionOwned

LEMMA TaskType ==
    ASSUME NEW pc \in {"free", "created", "idle", "busy", "done"},
           NEW g \in Groups \cup {NoGroup}
    PROVE  Task(pc, g) \in WorkerState
BY DEF Task, WorkerState

LEMMA CancelledType ==
    ASSUME NEW t \in WorkerState
    PROVE  /\ Cancelled(t) \in WorkerState
           /\ Cancelled(t).pc = t.pc /\ Cancelled(t).grp = t.grp
           /\ Cancelled(t).msg = t.msg /\ Cancelled(t).cancel = TRUE
           /\ Cancelled(t).ask = IF t.ask = "pending" THEN "cancelled" ELSE t.ask
BY DEF Cancelled, WorkerState

THEOREM InitInv == Init => IInv
<1> SUFFICES ASSUME Init PROVE IInv
    OBVIOUS
<1> USE DEF Init
<1>1. TypeOK
  <2>1. <<>> \in Seq(Message) /\ Len(<<>>) = 0
    OBVIOUS
  <2>2. Task("free", NoGroup) \in WorkerState
    BY TaskType
  <2>3. 0 \in 0 .. MaxMessages /\ 0 <= MaxInbound
    BY BoundsAssumption
  <2> QED
    BY <2>1, <2>2, <2>3 DEF TypeOK
<1>2. TaskShape /\ OneWorkerPerGroup
    BY DEF TaskShape, OneWorkerPerGroup, Alive, Task
<1>3. EntryKnows /\ QuestionOwned
    BY DEF EntryKnows, QuestionOwned, Alive, Task
<1> QED
    BY <1>1, <1>2, <1>3 DEF IInv

\* run taking a message keeps the inbound queue a bounded queue of messages.
LEMMA ConsumeType ==
    ASSUME TypeOK, NEW m \in Message, Consume(m)
    PROVE  inbound' \in Seq(Message) /\ Len(inbound') <= MaxInbound
BY BoundsAssumption DEF TypeOK, Consume

\* What TakeNext does to the queue and the worker, both its cases.
LEMMA TakeNextStep ==
    ASSUME TypeOK, TaskShape, NEW w \in Workers, wk[w].grp \in Groups, TakeNext(w)
    PROVE  /\ queue' \in [Groups -> Seq(Message)]
           /\ wk' \in [Workers -> WorkerState]
           /\ \A x \in Workers \ {w} : wk'[x] = wk[x]
           /\ wk'[w].grp = wk[w].grp /\ wk'[w].cancel = wk[w].cancel
           /\ wk'[w].ask = wk[w].ask
           /\ wk'[w].pc \in {"idle", "busy"}
           /\ wk'[w].pc = "busy" <=> wk'[w].msg # NoMessage
<1> DEFINE g == wk[w].grp
<1>1. queue[g] \in Seq(Message) /\ wk[w] \in WorkerState
    BY DEF TypeOK
<1>2. CASE queue[g] # <<>>
  <2>1. Head(queue[g]) \in Message /\ Tail(queue[g]) \in Seq(Message)
      BY <1>1, <1>2
  <2>2. /\ wk' = [wk EXCEPT ![w] = [@ EXCEPT !.pc = "busy", !.msg = Head(queue[g])]]
        /\ queue' = [queue EXCEPT ![g] = Tail(@)]
      BY <1>2 DEF TakeNext, TypeOK, WorkerState
  <2>3. [wk[w] EXCEPT !.pc = "busy", !.msg = Head(queue[g])] \in WorkerState
      BY <1>1, <2>1 DEF WorkerState
  <2> QED
      BY <1>1, <2>1, <2>2, <2>3, NoMessageAssumption DEF TypeOK, WorkerState
<1>3. CASE queue[g] = <<>>
  <2>2. /\ wk' = [wk EXCEPT ![w] = [@ EXCEPT !.pc = "idle", !.msg = NoMessage]]
        /\ queue' = queue
      BY <1>3 DEF TakeNext, TypeOK, WorkerState
  <2>3. [wk[w] EXCEPT !.pc = "idle", !.msg = NoMessage] \in WorkerState
      BY <1>1 DEF WorkerState
  <2> QED
      BY <1>1, <2>2, <2>3 DEF TypeOK, WorkerState
<1> QED
    BY <1>2, <1>3

LEMMA ToldShape ==
    ASSUME TypeOK, NEW g \in Groups
    PROVE  /\ Told(g) \in [Workers -> WorkerState]
           /\ \A x \in Workers :
                 /\ Told(g)[x].pc = wk[x].pc /\ Told(g)[x].grp = wk[x].grp
                 /\ Told(g)[x].msg = wk[x].msg /\ Told(g)[x].cancel = wk[x].cancel
                 /\ Told(g)[x].ask = IF Waited(g) /\ x = asker[g] THEN "answered"
                                                                 ELSE wk[x].ask
<1>1. CASE Waited(g)
  <2>1. PICK w \in Workers : w = asker[g]
      BY <1>1 DEF Waited, TypeOK
  <2>2. [wk[w] EXCEPT !.ask = "answered"] \in WorkerState
      BY DEF TypeOK, WorkerState
  <2>3. Told(g) = [wk EXCEPT ![w] = [@ EXCEPT !.ask = "answered"]]
      BY <1>1, <2>1 DEF TypeOK, Told
  <2> QED
      BY <1>1, <2>1, <2>2, <2>3 DEF TypeOK, WorkerState
<1>2. CASE ~Waited(g)
    BY <1>2 DEF TypeOK, Told
<1> QED
    BY <1>1, <1>2

\* What setting an answer does to the questions that nobody waits for.
LEMMA SettledShape ==
    ASSUME TypeOK, NEW g \in Groups
    PROVE  /\ Settled(g) \in [Groups -> {"none", "pending", "done"}]
           /\ \A h \in Groups : Settled(g)[h] = "none" <=> stale[h] = "none"
BY DEF Settled, TypeOK

-----------------------------------------------------------------------------
(* What a step that leaves _workers, or the questions, alone preserves *)

LEMMA SameTasks ==
    ASSUME IInv, entry' = entry, running' = running,
           \A x \in Workers : /\ wk'[x].grp = wk[x].grp
                              /\ Alive(x)' <=> Alive(x)
                              /\ wk'[x].pc = "free" <=> wk[x].pc = "free"
    PROVE  EntryKnows' /\ OneWorkerPerGroup'
<1>1. \A g \in Groups : entry[g] # NoWorker => entry[g] \in Workers
    BY DEF IInv, TypeOK
<1>2. EntryKnows /\ OneWorkerPerGroup
    BY DEF IInv
<1>3. EntryKnows'
    BY <1>1, <1>2 DEF EntryKnows
<1>4. OneWorkerPerGroup'
    BY <1>2 DEF OneWorkerPerGroup
<1> QED
    BY <1>3, <1>4

LEMMA SameQuestions ==
    ASSUME IInv, asker' = asker, stale' = stale,
           \A x \in Workers : /\ wk'[x].grp = wk[x].grp /\ wk'[x].ask = wk[x].ask
                              /\ wk[x].ask # "none" => wk'[x].pc = wk[x].pc
                              /\ wk[x].ask = "pending" => wk'[x].cancel = wk[x].cancel
    PROVE  QuestionOwned'
<1>1. \A g \in Groups : asker[g] # NoWorker => asker[g] \in Workers
    BY DEF IInv, TypeOK
<1>2. QuestionOwned
    BY DEF IInv
<1> QED
    BY <1>1, <1>2 DEF QuestionOwned

-----------------------------------------------------------------------------
(* Every action preserves IInv *)

LEMMA PublishInv ==
    ASSUME IInv, NEW g \in Groups, NEW stop \in BOOLEAN, Publish(g, stop)
    PROVE  IInv'
<1> DEFINE m == [n |-> published + 1, grp |-> g, stop |-> stop]
           room == IF Len(inbound) = MaxInbound THEN Tail(inbound) ELSE inbound
<1>1. TypeOK /\ TaskShape
    BY DEF IInv
<1>2. m \in Message /\ published' \in 0 .. MaxMessages
    BY <1>1, BoundsAssumption DEF Publish, TypeOK, Message
<1>3. room \in Seq(Message) /\ Len(room) < MaxInbound
    BY <1>1, BoundsAssumption DEF TypeOK
<1>4. inbound' \in Seq(Message) /\ Len(inbound') <= MaxInbound
    BY <1>1, <1>2, <1>3, BoundsAssumption DEF Publish, TypeOK
<1>5. TypeOK'
    BY <1>1, <1>2, <1>4 DEF Publish, TypeOK
<1>6. /\ wk' = wk /\ entry' = entry /\ running' = running
      /\ asker' = asker /\ stale' = stale
    BY DEF Publish
<1>7. TaskShape' /\ EntryKnows' /\ OneWorkerPerGroup' /\ QuestionOwned'
    BY <1>1, <1>6, SameTasks, SameQuestions DEF TaskShape, Alive
<1> QED
    BY <1>5, <1>7 DEF IInv

LEMMA DispatchInv == ASSUME IInv, Dispatch PROVE IInv'
<1>1. PICK g \in Groups, m \in Message :
        /\ Consume(m) /\ m.grp = g /\ ~m.stop /\ ~Asking(g)
        /\ asker' = [asker EXCEPT ![g] = NoWorker]
        /\ stale' = [stale EXCEPT ![g] = "none"]
        /\ queue' = [queue EXCEPT ![g] = Append(@, m)]
        /\ \/ /\ Live(g)
              /\ UNCHANGED <<entry, wk>>
           \/ /\ ~Live(g)
              /\ \E w \in Workers :
                  /\ IF entry[g] = NoWorker THEN wk[w].pc = "free"
                                            ELSE w = entry[g]
                  /\ wk' = [wk EXCEPT ![w] = Task("created", g)]
                  /\ entry' = [entry EXCEPT ![g] = w]
        /\ UNCHANGED <<published, running, stopping, lastStop>>
    BY DEF Dispatch
<1>2. TypeOK /\ TaskShape /\ EntryKnows /\ OneWorkerPerGroup /\ QuestionOwned
    BY DEF IInv
<1>3. /\ inbound' \in Seq(Message) /\ Len(inbound') <= MaxInbound
      /\ queue' \in [Groups -> Seq(Message)]
      /\ asker' \in [Groups -> Workers \cup {NoWorker}]
      /\ stale' \in [Groups -> {"none", "pending", "done"}]
    BY <1>1, <1>2, ConsumeType DEF TypeOK
<1>4. /\ asker'[g] = NoWorker
      /\ \A h \in Groups \ {g} : asker'[h] = asker[h] /\ stale'[h] = stale[h]
    BY <1>1, <1>2 DEF TypeOK
<1>5. CASE Live(g) /\ UNCHANGED <<entry, wk>>
  <2>1. TypeOK'
      BY <1>1, <1>2, <1>3, <1>5 DEF TypeOK
  <2>2. TaskShape' /\ EntryKnows' /\ OneWorkerPerGroup'
      BY <1>1, <1>2, <1>5, SameTasks DEF TaskShape, Alive
  <2>3. \A x \in Workers : wk[x].ask = "pending" => wk[x].grp \in Groups \ {g}
      BY <1>1, <1>2, SentinelAssumption DEF TaskShape, QuestionOwned, Asking, Waited
  <2>4. QuestionOwned'
      BY <1>2, <1>4, <1>5, <2>3 DEF QuestionOwned
  <2> QED
      BY <2>1, <2>2, <2>4 DEF IInv
<1>6. ASSUME ~Live(g), NEW w \in Workers,
             IF entry[g] = NoWorker THEN wk[w].pc = "free" ELSE w = entry[g],
             wk' = [wk EXCEPT ![w] = Task("created", g)],
             entry' = [entry EXCEPT ![g] = w]
      PROVE IInv'
  <2>1. TypeOK'
    <3>1. Task("created", g) \in WorkerState
        BY TaskType
    <3> QED
        BY <1>1, <1>2, <1>3, <1>6, <3>1 DEF TypeOK
  <2>2. wk[w].pc \in {"free", "done"} /\ wk[w].ask = "none"
      BY <1>2, <1>6 DEF Live, Alive, EntryKnows, TypeOK, WorkerState, TaskShape
  <2>3. wk'[w] = Task("created", g) /\ \A x \in Workers \ {w} : wk'[x] = wk[x]
      BY <1>2, <1>6 DEF TypeOK
  <2>4. entry'[g] = w /\ \A h \in Groups \ {g} : entry'[h] = entry[h] /\ entry[h] # w
    <3>1. entry'[g] = w /\ \A h \in Groups \ {g} : entry'[h] = entry[h]
        BY <1>2, <1>6 DEF TypeOK
    <3>2. ASSUME NEW h \in Groups \ {g}, entry[h] = w PROVE FALSE
      <4>1. wk[w].pc # "free" /\ wk[w].grp = h
          BY <1>2, <3>2, SentinelAssumption DEF EntryKnows
      <4>2. entry[g] = w /\ w # NoWorker
          BY <1>6, <4>1, SentinelAssumption
      <4> QED
          BY <1>2, <4>1, <4>2 DEF EntryKnows
    <3> QED
        BY <3>1, <3>2
  <2>5. running /\ running'
      BY <1>1 DEF Consume
  <2>6. \A x \in Workers : Alive(x) => wk[x].grp \in Groups \ {g}
      BY <1>2, <1>6, <2>5, SentinelAssumption DEF Live, Alive, EntryKnows, TaskShape
  <2>7. TaskShape'
      BY <1>2, <2>3 DEF TaskShape, Task
  <2>8. EntryKnows'
    <3>1. \A h \in Groups : entry'[h] # NoWorker =>
             wk'[entry'[h]].pc # "free" /\ wk'[entry'[h]].grp = h
      <4>1. wk'[w].pc # "free" /\ wk'[w].grp = g
          BY <2>3 DEF Task
      <4>2. \A h \in Groups \ {g} : entry[h] # NoWorker => entry[h] \in Workers \ {w}
          BY <1>2, <2>4 DEF TypeOK
      <4> QED
          BY <1>2, <2>3, <2>4, <4>1, <4>2 DEF EntryKnows
    <3>2. \A x \in Workers : Alive(x)' => entry'[wk'[x].grp] = x
        BY <1>2, <2>3, <2>4, <2>5, <2>6 DEF EntryKnows, Task, Alive
    <3> QED
        BY <2>5, <3>1, <3>2 DEF EntryKnows
  <2>9. OneWorkerPerGroup'
      BY <1>2, <2>3, <2>6 DEF OneWorkerPerGroup, Alive, Task
  <2>10. QuestionOwned'
    <3>1. wk'[w].ask = "none"
        BY <2>3 DEF Task
    <3>2. \A h \in Groups : asker[h] # w
        BY <1>2, <2>2, SentinelAssumption DEF QuestionOwned
    <3>3. \A x \in Workers : wk'[x].ask = "pending" =>
              x # w /\ wk[x].grp \in Groups \ {g}
        BY <1>2, <2>3, <2>6, <3>1 DEF TaskShape, Alive
    <3>4. \A h \in Groups : asker[h] # NoWorker => asker[h] \in Workers \ {w}
        BY <1>2, <3>2 DEF TypeOK
    <3> QED
        BY <1>2, <1>4, <2>3, <3>1, <3>3, <3>4 DEF QuestionOwned
  <2> QED
      BY <2>1, <2>7, <2>8, <2>9, <2>10 DEF IInv
<1> QED
    BY <1>1, <1>5, <1>6

LEMMA AnswerInv == ASSUME IInv, Answer PROVE IInv'
<1>1. PICK g \in Groups, m \in Message :
        /\ Consume(m) /\ m.grp = g /\ ~m.stop /\ Asking(g)
        /\ wk' = Told(g) /\ stale' = Settled(g)
        /\ UNCHANGED <<published, running, stopping, queue, entry, asker, lastStop>>
    BY DEF Answer
<1>2. TypeOK /\ TaskShape /\ QuestionOwned
    BY DEF IInv
<1>3. /\ wk' \in [Workers -> WorkerState]
      /\ \A x \in Workers :
            /\ wk'[x].pc = wk[x].pc /\ wk'[x].grp = wk[x].grp
            /\ wk'[x].msg = wk[x].msg /\ wk'[x].cancel = wk[x].cancel
            /\ wk'[x].ask = IF Waited(g) /\ x = asker[g] THEN "answered" ELSE wk[x].ask
    BY <1>1, <1>2, ToldShape
<1>4. inbound' \in Seq(Message) /\ Len(inbound') <= MaxInbound
    BY <1>1, <1>2, ConsumeType
<1>a. /\ stale' \in [Groups -> {"none", "pending", "done"}]
      /\ \A h \in Groups : stale'[h] = "none" <=> stale[h] = "none"
    BY <1>1, <1>2, SettledShape
<1>5. TypeOK'
    BY <1>1, <1>2, <1>3, <1>4, <1>a DEF TypeOK
<1>6. Waited(g) => wk[asker[g]].ask = "pending" /\ asker[g] \in Workers
    BY <1>1, <1>2 DEF Waited, TypeOK
<1>7. TaskShape'
    BY <1>2, <1>3, <1>6 DEF TaskShape
<1>8. EntryKnows' /\ OneWorkerPerGroup'
    BY <1>1, <1>3, SameTasks DEF Alive
<1>9. QuestionOwned'
  <2>1. \A h \in Groups : asker[h] # NoWorker => asker[h] \in Workers
      BY <1>2 DEF TypeOK
  <2>2. \A x \in Workers : wk'[x].ask = "none" => wk[x].ask = "none"
      BY <1>3
  <2>3. \A x \in Workers : wk'[x].ask = "pending" => wk[x].ask = "pending"
      BY <1>3
  <2> QED
      BY <1>1, <1>2, <1>3, <1>a, <2>1, <2>2, <2>3 DEF QuestionOwned
<1> QED
    BY <1>5, <1>7, <1>8, <1>9 DEF IInv

LEMMA StopReturnsInv == ASSUME IInv, StopReturns PROVE IInv'
<1>1. TypeOK /\ TaskShape
    BY DEF IInv
<1>2. /\ wk' = wk /\ entry' = entry /\ running' = running
      /\ asker' = asker /\ stale' = stale
    BY DEF StopReturns
<1>3. TypeOK'
    BY <1>1 DEF StopReturns, TypeOK
<1>4. TaskShape' /\ EntryKnows' /\ OneWorkerPerGroup' /\ QuestionOwned'
    BY <1>1, <1>2, SameTasks, SameQuestions DEF TaskShape, Alive
<1> QED
    BY <1>3, <1>4 DEF IInv

LEMMA HandleStopInv == ASSUME IInv, HandleStop PROVE IInv'
<1>1. PICK g \in Groups, m \in Message :
        /\ Consume(m) /\ m.grp = g /\ m.stop
        /\ queue' = [queue EXCEPT ![g] = <<>>]
        /\ wk' = IF Live(g) THEN [Told(g) EXCEPT ![entry[g]] = Cancelled(@)]
                            ELSE Told(g)
        /\ IF Asking(g) THEN asker' = asker /\ stale' = Settled(g)
           ELSE /\ asker' = [asker EXCEPT ![g] = NoWorker]
                /\ stale' = [stale EXCEPT ![g] = "none"]
        /\ lastStop' = [lastStop EXCEPT ![g] = m.n]
        /\ stopping' \in BOOLEAN
        /\ UNCHANGED <<published, running, entry>>
    BY DEF HandleStop
<1>2. TypeOK /\ TaskShape /\ QuestionOwned
    BY DEF IInv
<1>3. /\ Told(g) \in [Workers -> WorkerState]
      /\ \A x \in Workers :
            /\ Told(g)[x].pc = wk[x].pc /\ Told(g)[x].grp = wk[x].grp
            /\ Told(g)[x].msg = wk[x].msg /\ Told(g)[x].cancel = wk[x].cancel
            /\ Told(g)[x].ask = IF Waited(g) /\ x = asker[g] THEN "answered"
                                                            ELSE wk[x].ask
    BY <1>2, ToldShape
<1>a. /\ stale' \in [Groups -> {"none", "pending", "done"}]
      /\ \A h \in Groups : stale[h] = "none" => stale'[h] = "none"
  <2>1. CASE Asking(g)
      BY <1>1, <1>2, <2>1, SettledShape
  <2>2. CASE ~Asking(g)
      BY <1>1, <1>2, <2>2 DEF TypeOK
  <2> QED
      BY <2>1, <2>2
<1>4. /\ wk' \in [Workers -> WorkerState]
      /\ \A x \in Workers : wk'[x] = IF Live(g) /\ x = entry[g]
                                     THEN Cancelled(Told(g)[x]) ELSE Told(g)[x]
  <2>1. CASE Live(g)
    <3>1. entry[g] \in Workers
        BY <1>2, <2>1 DEF Live, TypeOK
    <3>2. Cancelled(Told(g)[entry[g]]) \in WorkerState
        BY <1>3, <3>1, CancelledType
    <3> QED
        BY <1>1, <1>3, <2>1, <3>1, <3>2
  <2>2. CASE ~Live(g)
      BY <1>1, <1>3, <2>2
  <2> QED
      BY <2>1, <2>2
<1>5. \A x \in Workers :
         /\ wk'[x].pc = wk[x].pc /\ wk'[x].grp = wk[x].grp /\ wk'[x].msg = wk[x].msg
         /\ wk'[x].ask = "none" <=> wk[x].ask = "none"
  <2> TAKE x \in Workers
  <2>1. /\ Told(g)[x] \in WorkerState
        /\ Told(g)[x].pc = wk[x].pc /\ Told(g)[x].grp = wk[x].grp
        /\ Told(g)[x].msg = wk[x].msg
        /\ Told(g)[x].ask = "none" <=> wk[x].ask = "none"
      BY <1>3 DEF Waited
  <2>2. CASE Live(g) /\ x = entry[g]
      BY <1>4, <2>1, <2>2, CancelledType
  <2>3. CASE ~(Live(g) /\ x = entry[g])
      BY <1>4, <2>1, <2>3
  <2> QED
      BY <2>2, <2>3
<1>6. TypeOK'
  <2>1. <<>> \in Seq(Message) /\ m.n \in 0 .. MaxMessages
      BY DEF Message
  <2>2. queue' \in [Groups -> Seq(Message)] /\ lastStop' \in [Groups -> 0 .. MaxMessages]
      BY <1>1, <1>2, <2>1 DEF TypeOK
  <2>3. inbound' \in Seq(Message) /\ Len(inbound') <= MaxInbound
      BY <1>1, <1>2, ConsumeType
  <2>4. asker' \in [Groups -> Workers \cup {NoWorker}]
      BY <1>1, <1>2 DEF TypeOK
  <2> QED
      BY <1>1, <1>2, <1>4, <1>a, <2>2, <2>3, <2>4 DEF TypeOK
<1>7. TaskShape'
    BY <1>2, <1>5 DEF TaskShape
<1>8. EntryKnows' /\ OneWorkerPerGroup'
    BY <1>1, <1>5, SameTasks DEF Alive
<1>9. QuestionOwned'
  <2>1. \A h \in Groups : asker'[h] = IF h = g /\ ~Asking(g) THEN NoWorker
                                                            ELSE asker[h]
      BY <1>1, <1>2 DEF TypeOK
  <2>2. \A h \in Groups : asker[h] # NoWorker => asker[h] \in Workers
      BY <1>2 DEF TypeOK
  <2>3. \A h \in Groups : asker'[h] # NoWorker =>
           /\ wk'[asker'[h]].pc = "busy" /\ wk'[asker'[h]].grp = h
           /\ wk'[asker'[h]].ask # "none" /\ stale'[h] = "none"
      BY <1>2, <1>5, <1>a, <2>1, <2>2 DEF QuestionOwned
  <2>4. ASSUME NEW x \in Workers, wk'[x].ask = "pending"
        PROVE  asker'[wk'[x].grp] = x /\ ~wk'[x].cancel
    <3>1. ~(Live(g) /\ x = entry[g])
      <4>1. SUFFICES ASSUME Live(g) /\ x = entry[g] PROVE FALSE
          OBVIOUS
      <4>2. wk'[x].ask = IF Told(g)[x].ask = "pending" THEN "cancelled"
                                                       ELSE Told(g)[x].ask
        <5>1. Told(g)[x] \in WorkerState
            BY <1>3
        <5> QED
            BY <1>4, <4>1, <5>1, CancelledType
      <4> QED
          BY <2>4, <4>2
    <3>2. wk'[x] = Told(g)[x]
        BY <1>4, <3>1
    <3>3. /\ wk[x].ask = "pending" /\ ~(Waited(g) /\ x = asker[g])
          /\ wk'[x].cancel = wk[x].cancel
        BY <1>3, <2>4, <3>2
    <3>4. asker[wk[x].grp] = x /\ ~wk[x].cancel /\ wk[x].grp \in Groups
        BY <1>2, <3>3 DEF QuestionOwned, TaskShape
    <3>5. wk[x].grp # g
        BY <3>3, <3>4, SentinelAssumption DEF Waited
    <3> QED
        BY <1>5, <2>1, <3>3, <3>4, <3>5
  <2> QED
      BY <2>3, <2>4 DEF QuestionOwned
<1> QED
    BY <1>6, <1>7, <1>8, <1>9 DEF IInv

LEMMA ShutdownInv == ASSUME IInv, Shutdown PROVE IInv'
<1>1. TypeOK /\ TaskShape /\ EntryKnows /\ OneWorkerPerGroup /\ QuestionOwned
    BY DEF IInv
<1> DEFINE named(x) == \E g \in Groups : entry[g] = x
<1>2. \A x \in Workers :
         wk'[x] = IF named(x)
                  THEN IF Alive(x) THEN Cancelled(wk[x]) ELSE Task("free", NoGroup)
                  ELSE wk[x]
    BY DEF Shutdown
<1>3. wk' \in [Workers -> WorkerState]
  <2>1. \A x \in Workers : /\ wk[x] \in WorkerState
                           /\ Cancelled(wk[x]) \in WorkerState
                           /\ Task("free", NoGroup) \in WorkerState
      BY <1>1, TaskType, CancelledType DEF TypeOK
  <2> QED
      BY <2>1 DEF Shutdown
<1>4. \A x \in Workers : Alive(x) => named(x)
    BY <1>1 DEF Shutdown, EntryKnows, TaskShape, Alive
<1>5. TypeOK'
    BY <1>1, <1>3 DEF Shutdown, TypeOK
<1>6. \A x \in Workers :
        \/ /\ Alive(x) /\ wk'[x].cancel = TRUE
           /\ wk'[x].pc = wk[x].pc /\ wk'[x].grp = wk[x].grp /\ wk'[x].msg = wk[x].msg
           /\ wk'[x].ask = IF wk[x].ask = "pending" THEN "cancelled" ELSE wk[x].ask
        \/ /\ ~Alive(x) /\ wk'[x] = wk[x]
        \/ /\ ~Alive(x) /\ wk'[x] = Task("free", NoGroup)
  <2> TAKE x \in Workers
  <2>1. wk[x] \in WorkerState
      BY <1>1 DEF TypeOK
  <2>2. CASE Alive(x)
      BY <1>2, <1>4, <2>1, <2>2, CancelledType
  <2>3. CASE ~Alive(x)
      BY <1>2, <2>3
  <2> QED
      BY <2>2, <2>3
<1>7. TaskShape'
    BY <1>1, <1>6 DEF TaskShape, Task, Alive
<1>8. EntryKnows'
    BY DEF Shutdown, EntryKnows
<1>9. OneWorkerPerGroup'
    BY <1>1, <1>6 DEF OneWorkerPerGroup, Alive, Task
<1>10. QuestionOwned'
  <2>1. /\ asker' = asker /\ stale' = stale
        /\ \A g \in Groups : asker[g] # NoWorker => asker[g] \in Workers
      BY <1>1 DEF Shutdown, TypeOK
  <2>2. \A x \in Workers : wk'[x].ask # "pending"
      BY <1>1, <1>6 DEF TaskShape, Task, Alive
  <2>3. \A x \in Workers : wk[x].pc = "busy" =>
           /\ wk'[x].pc = "busy" /\ wk'[x].grp = wk[x].grp
           /\ wk[x].ask # "none" => wk'[x].ask # "none"
      BY <1>6 DEF Alive
  <2> QED
      BY <1>1, <2>1, <2>2, <2>3 DEF QuestionOwned
<1> QED
    BY <1>5, <1>7, <1>8, <1>9, <1>10 DEF IInv

\* WorkerStart, WorkerWake and ProcessDone: a live task that is not asking goes
\* on to the next message, or waits for one.
LEMMA TakeNextInv ==
    ASSUME IInv, NEW w \in Workers, Alive(w), wk[w].ask = "none", TakeNext(w),
           UNCHANGED <<published, inbound, running, stopping, entry, asker, stale, lastStop>>
    PROVE  IInv'
<1>1. TypeOK /\ TaskShape
    BY DEF IInv
<1>2. wk[w].grp \in Groups
    BY <1>1 DEF TaskShape, Alive
<1>3. /\ queue' \in [Groups -> Seq(Message)]
      /\ wk' \in [Workers -> WorkerState]
      /\ \A x \in Workers \ {w} : wk'[x] = wk[x]
      /\ wk'[w].grp = wk[w].grp /\ wk'[w].cancel = wk[w].cancel
      /\ wk'[w].ask = wk[w].ask
      /\ wk'[w].pc \in {"idle", "busy"}
      /\ wk'[w].pc = "busy" <=> wk'[w].msg # NoMessage
    BY <1>1, <1>2, TakeNextStep
<1>4. TypeOK'
    BY <1>1, <1>3 DEF TypeOK
<1>5. TaskShape'
    BY <1>1, <1>2, <1>3 DEF TaskShape
<1>6. EntryKnows' /\ OneWorkerPerGroup' /\ QuestionOwned'
    BY <1>3, SameTasks, SameQuestions DEF Alive
<1> QED
    BY <1>4, <1>5, <1>6 DEF IInv

LEMMA WorkerNeverRanInv ==
    ASSUME IInv, NEW w \in Workers, WorkerNeverRan(w)
    PROVE  IInv'
<1>1. TypeOK /\ TaskShape /\ EntryKnows /\ OneWorkerPerGroup /\ QuestionOwned
    BY DEF IInv
<1> DEFINE t == IF entry[wk[w].grp] = w THEN Task("done", wk[w].grp)
                                        ELSE Task("free", NoGroup)
<1>2. wk[w].pc = "created" /\ wk[w].grp \in Groups /\ wk[w].ask = "none"
    BY <1>1 DEF WorkerNeverRan, TaskShape
<1>3. t \in WorkerState
    BY <1>2, TaskType
<1>4. wk' = [wk EXCEPT ![w] = t]
    BY DEF WorkerNeverRan
<1>5. wk'[w] = t /\ \A x \in Workers \ {w} : wk'[x] = wk[x]
    BY <1>1, <1>4 DEF TypeOK
<1>6. /\ t.pc \in {"done", "free"} /\ t.msg = NoMessage /\ t.ask = "none"
      /\ t.pc # "free" => t.grp \in Groups
      /\ entry[wk[w].grp] = w => t.pc = "done" /\ t.grp = wk[w].grp
    BY <1>2 DEF Task
<1> HIDE DEF t
<1>7. TypeOK'
    BY <1>1, <1>3, <1>4 DEF TypeOK, WorkerNeverRan
<1>8. TaskShape'
    BY <1>1, <1>5, <1>6 DEF TaskShape
<1>9. EntryKnows'
  <2>1. entry' = entry /\ running' = running
      BY DEF WorkerNeverRan
  <2>2. ASSUME NEW g \in Groups, entry[g] # NoWorker
        PROVE  wk'[entry[g]].pc # "free" /\ wk'[entry[g]].grp = g
    <3>1. entry[g] \in Workers /\ wk[entry[g]].pc # "free" /\ wk[entry[g]].grp = g
        BY <1>1, <2>2 DEF EntryKnows, TypeOK
    <3> QED
        BY <1>5, <1>6, <3>1
  <2>3. \A x \in Workers : Alive(x)' => x # w /\ Alive(x)
      BY <1>5, <1>6 DEF Alive
  <2> QED
      BY <1>1, <1>5, <2>1, <2>2, <2>3 DEF EntryKnows
<1>10. OneWorkerPerGroup'
    BY <1>1, <1>5, <1>6 DEF OneWorkerPerGroup, Alive
<1>11. QuestionOwned'
  <2>1. /\ asker' = asker /\ stale' = stale
        /\ \A g \in Groups : asker[g] # NoWorker => asker[g] \in Workers \ {w}
      BY <1>1, <1>2, SentinelAssumption DEF WorkerNeverRan, TypeOK, QuestionOwned
  <2> QED
      BY <1>1, <1>5, <1>6, <2>1 DEF QuestionOwned
<1> QED
    BY <1>7, <1>8, <1>9, <1>10, <1>11 DEF IInv

\* IdleExit and ProcessCancelled: the task ends and pops the entry of its group.
LEMMA ExitInv ==
    ASSUME IInv, NEW w \in Workers, Alive(w), Exit(w),
           IF wk[w].ask = "none" THEN UNCHANGED asker ELSE Forget(w)
    PROVE  IInv'
<1>1. TypeOK /\ TaskShape /\ EntryKnows /\ OneWorkerPerGroup /\ QuestionOwned
    BY DEF IInv
<1> DEFINE g == wk[w].grp
<1>2. g \in Groups
    BY <1>1 DEF TaskShape, Alive
<1>3. wk'[w] = Task("free", NoGroup) /\ \A x \in Workers \ {w} : wk'[x] = wk[x]
    BY <1>1 DEF Exit, TypeOK
<1>4. entry'[g] = NoWorker /\ \A h \in Groups \ {g} : entry'[h] = entry[h]
    BY <1>1, <1>2 DEF Exit, TypeOK
<1>5. \A h \in Groups : asker'[h] = IF asker[h] = w THEN NoWorker ELSE asker[h]
  <2>1. CASE wk[w].ask = "none"
      BY <1>1, <2>1, SentinelAssumption DEF QuestionOwned
  <2>2. CASE wk[w].ask # "none"
      BY <2>2 DEF Forget
  <2> QED
      BY <2>1, <2>2
<1>6. TypeOK'
  <2>1. Task("free", NoGroup) \in WorkerState
      BY TaskType
  <2>2. asker' \in [Groups -> Workers \cup {NoWorker}]
      BY <1>1 DEF TypeOK, Forget
  <2> QED
      BY <1>1, <1>2, <2>1, <2>2 DEF TypeOK, Exit
<1>7. TaskShape'
    BY <1>1, <1>3 DEF TaskShape, Task
<1>8. EntryKnows'
  <2>1. \A h \in Groups \ {g} : entry[h] # NoWorker => entry[h] \in Workers \ {w}
      BY <1>1, SentinelAssumption DEF TypeOK, EntryKnows
  <2>2. \A x \in Workers : Alive(x)' =>
           x # w /\ Alive(x) /\ (running => wk[x].grp \in Groups \ {g})
      BY <1>1, <1>3 DEF Alive, Task, OneWorkerPerGroup, TaskShape
  <2>3. running' = running
      BY DEF Exit
  <2>4. running => \A x \in Workers : Alive(x)' => entry'[wk'[x].grp] = x
      BY <1>1, <1>3, <1>4, <2>2 DEF EntryKnows
  <2>5. ~running => \A h \in Groups : entry'[h] = NoWorker
      BY <1>1, <1>4 DEF EntryKnows
  <2>6. \A h \in Groups : entry'[h] # NoWorker =>
           wk'[entry'[h]].pc # "free" /\ wk'[entry'[h]].grp = h
      BY <1>1, <1>3, <1>4, <2>1 DEF EntryKnows
  <2> QED
      BY <2>3, <2>4, <2>5, <2>6 DEF EntryKnows
<1>9. OneWorkerPerGroup'
    BY <1>1, <1>3 DEF OneWorkerPerGroup, Alive, Task
<1>10. QuestionOwned'
  <2>1. \A h \in Groups : asker'[h] # NoWorker =>
           asker'[h] = asker[h] /\ asker[h] \in Workers \ {w}
      BY <1>1, <1>5 DEF TypeOK
  <2>2. ASSUME NEW x \in Workers, wk'[x].ask = "pending"
        PROVE  asker'[wk'[x].grp] = x /\ ~wk'[x].cancel
    <3>1. x # w /\ wk'[x] = wk[x]
        BY <1>3, <2>2 DEF Task
    <3>2. asker[wk[x].grp] = x /\ wk[x].grp \in Groups /\ ~wk[x].cancel
        BY <1>1, <2>2, <3>1 DEF QuestionOwned, TaskShape
    <3> QED
        BY <1>5, <3>1, <3>2
  <2>3. stale' = stale
      BY DEF Exit
  <2> QED
      BY <1>1, <1>3, <2>1, <2>2, <2>3 DEF QuestionOwned
<1> QED
    BY <1>6, <1>7, <1>8, <1>9, <1>10 DEF IInv

\* IdleTimer and ProcessSwallows touch one flag of one task that is not asking.
LEMMA FlagInv ==
    ASSUME IInv, NEW w \in Workers, IdleTimer(w) \/ ProcessSwallows(w)
    PROVE  IInv'
<1>1. TypeOK /\ TaskShape
    BY DEF IInv
<1>2. wk[w].ask = "none"
    BY <1>1 DEF IdleTimer, ProcessSwallows, TaskShape
<1>3. wk[w] \in WorkerState
    BY <1>1 DEF TypeOK
<1>4. PICK t \in WorkerState :
         /\ wk' = [wk EXCEPT ![w] = t]
         /\ t.pc = wk[w].pc /\ t.grp = wk[w].grp /\ t.msg = wk[w].msg
         /\ t.ask = wk[w].ask
  <2>1. CASE IdleTimer(w)
    <3>1. [wk[w] EXCEPT !.expired = TRUE] \in WorkerState
        BY <1>3 DEF WorkerState
    <3> QED
        BY <1>3, <2>1, <3>1 DEF IdleTimer, WorkerState
  <2>2. CASE ProcessSwallows(w)
    <3>1. [wk[w] EXCEPT !.cancel = FALSE] \in WorkerState
        BY <1>3 DEF WorkerState
    <3> QED
        BY <1>3, <2>2, <3>1 DEF ProcessSwallows, WorkerState
  <2> QED
      BY <2>1, <2>2
<1>5. UNCHANGED <<published, inbound, running, stopping, queue, entry, asker, stale,
                lastStop>>
    BY DEF IdleTimer, ProcessSwallows
<1>6. wk'[w] = t /\ \A x \in Workers \ {w} : wk'[x] = wk[x]
    BY <1>1, <1>4 DEF TypeOK
<1>7. TypeOK'
    BY <1>1, <1>4, <1>5 DEF TypeOK
<1>8. TaskShape'
    BY <1>1, <1>4, <1>6 DEF TaskShape
<1>9. EntryKnows' /\ OneWorkerPerGroup' /\ QuestionOwned'
    BY <1>2, <1>4, <1>5, <1>6, SameTasks, SameQuestions DEF Alive
<1> QED
    BY <1>7, <1>8, <1>9 DEF IInv

LEMMA AskUserInv ==
    ASSUME IInv, NEW w \in Workers, AskUser(w)
    PROVE  IInv'
<1>1. TypeOK /\ TaskShape /\ EntryKnows /\ OneWorkerPerGroup /\ QuestionOwned
    BY DEF IInv
<1> DEFINE g == wk[w].grp
<1>2. g \in Groups /\ wk[w].pc = "busy" /\ ~wk[w].cancel /\ wk[w] \in WorkerState
    BY <1>1 DEF AskUser, TaskShape, TypeOK
<1>3. [wk[w] EXCEPT !.ask = "pending"] \in WorkerState
    BY <1>2 DEF WorkerState
<1>4. wk' = [wk EXCEPT ![w] = [@ EXCEPT !.ask = "pending"]]
    BY DEF AskUser
<1>5. /\ \A x \in Workers \ {w} : wk'[x] = wk[x]
      /\ wk'[w].pc = wk[w].pc /\ wk'[w].grp = g /\ wk'[w].msg = wk[w].msg
      /\ wk'[w].cancel = wk[w].cancel /\ wk'[w].ask = "pending"
    BY <1>1, <1>2, <1>4 DEF TypeOK, WorkerState
<1>6. /\ asker'[g] = w /\ stale'[g] = "none"
      /\ \A h \in Groups \ {g} : asker'[h] = asker[h] /\ stale'[h] = stale[h]
    BY <1>1, <1>2 DEF AskUser, TypeOK
<1>7. TypeOK'
    BY <1>1, <1>2, <1>3, <1>4 DEF AskUser, TypeOK
<1>8. TaskShape'
    BY <1>1, <1>2, <1>5 DEF TaskShape
<1>9. EntryKnows' /\ OneWorkerPerGroup'
    BY <1>5, SameTasks DEF Alive, AskUser
<1>10. QuestionOwned'
  <2>1. \A h \in Groups \ {g} : asker[h] # NoWorker => asker[h] \in Workers \ {w}
      BY <1>1, SentinelAssumption DEF TypeOK, QuestionOwned
  <2>2. ASSUME NEW x \in Workers \ {w}, wk[x].ask = "pending"
        PROVE  asker'[wk[x].grp] = x /\ ~wk[x].cancel
    <3>1. wk[x].pc = "busy" /\ wk[x].grp \in Groups
        BY <1>1, <2>2 DEF TaskShape
    <3>2. wk[x].grp # g
        BY <1>1, <1>2, <3>1 DEF OneWorkerPerGroup, Alive
    <3> QED
        BY <1>1, <1>6, <2>2, <3>1, <3>2 DEF QuestionOwned
  <2> QED
      BY <1>1, <1>2, <1>5, <1>6, <2>1, <2>2 DEF QuestionOwned
<1> QED
    BY <1>7, <1>8, <1>9, <1>10 DEF IInv

LEMMA AskFailsInv ==
    ASSUME IInv, NEW w \in Workers, AskFails(w)
    PROVE  IInv'
<1>1. TypeOK /\ TaskShape /\ OneWorkerPerGroup /\ QuestionOwned
    BY DEF IInv
<1> DEFINE g == wk[w].grp
<1>2. g \in Groups /\ wk[w].pc = "busy" /\ wk[w].ask = "none"
    BY <1>1 DEF AskFails, TaskShape
<1>3. /\ wk' = wk /\ entry' = entry /\ running' = running
      /\ asker'[g] = NoWorker
      /\ \A h \in Groups \ {g} : asker'[h] = asker[h] /\ stale'[h] = stale[h]
    BY <1>1, <1>2 DEF AskFails, TypeOK
<1>4. TypeOK'
    BY <1>1, <1>2 DEF AskFails, TypeOK
<1>5. TaskShape' /\ EntryKnows' /\ OneWorkerPerGroup'
    BY <1>1, <1>3, SameTasks DEF TaskShape, Alive
<1>6. QuestionOwned'
  <2>1. ASSUME NEW x \in Workers, wk[x].ask = "pending"
        PROVE  asker'[wk[x].grp] = x /\ ~wk[x].cancel
    <3>1. wk[x].pc = "busy" /\ wk[x].grp \in Groups /\ x # w
        BY <1>1, <1>2, <2>1 DEF TaskShape
    <3>2. wk[x].grp # g
        BY <1>1, <1>2, <3>1 DEF OneWorkerPerGroup, Alive
    <3> QED
        BY <1>1, <1>3, <2>1, <3>1, <3>2 DEF QuestionOwned
  <2> QED
      BY <1>1, <1>3, <2>1 DEF QuestionOwned
<1> QED
    BY <1>4, <1>5, <1>6 DEF IInv

LEMMA AskReturnsInv ==
    ASSUME IInv, NEW w \in Workers, AskReturns(w)
    PROVE  IInv'
<1>1. TypeOK /\ TaskShape /\ QuestionOwned
    BY DEF IInv
<1>2. wk[w] \in WorkerState
    BY <1>1 DEF TypeOK
<1>3. [wk[w] EXCEPT !.ask = "none"] \in WorkerState
    BY <1>2 DEF WorkerState
<1>4. wk' = [wk EXCEPT ![w] = [@ EXCEPT !.ask = "none"]]
    BY DEF AskReturns
<1>5. /\ \A x \in Workers \ {w} : wk'[x] = wk[x]
      /\ wk'[w].pc = wk[w].pc /\ wk'[w].grp = wk[w].grp /\ wk'[w].msg = wk[w].msg
      /\ wk'[w].cancel = wk[w].cancel /\ wk'[w].ask = "none"
    BY <1>1, <1>2, <1>4 DEF TypeOK, WorkerState
<1>6. stale' = stale
      /\ \A h \in Groups : asker'[h] = IF asker[h] = w THEN NoWorker ELSE asker[h]
    BY DEF AskReturns, Forget
<1>7. TypeOK'
    BY <1>1, <1>3, <1>4 DEF AskReturns, Forget, TypeOK
<1>8. TaskShape'
    BY <1>1, <1>5 DEF TaskShape
<1>9. EntryKnows' /\ OneWorkerPerGroup'
    BY <1>5, SameTasks DEF Alive, AskReturns
<1>10. QuestionOwned'
  <2>1. \A h \in Groups : asker'[h] # NoWorker =>
           asker'[h] = asker[h] /\ asker[h] \in Workers \ {w}
      BY <1>1, <1>6 DEF TypeOK
  <2>2. \A x \in Workers : wk'[x].ask = "pending" =>
           x # w /\ asker[wk[x].grp] = x /\ wk[x].grp \in Groups
      BY <1>1, <1>5 DEF QuestionOwned, TaskShape
  <2> QED
      BY <1>1, <1>5, <1>6, <2>1, <2>2 DEF QuestionOwned
<1> QED
    BY <1>7, <1>8, <1>9, <1>10 DEF IInv

THEOREM StepInv == IInv /\ [Next]_vars => IInv'
<1> SUFFICES ASSUME IInv, [Next]_vars PROVE IInv'
    OBVIOUS
<1>1. CASE \E g \in Groups, stop \in BOOLEAN : Publish(g, stop)
    BY <1>1, PublishInv
<1>2. CASE Dispatch \/ Answer \/ HandleStop \/ StopReturns \/ Shutdown
    BY <1>2, DispatchInv, AnswerInv, HandleStopInv, StopReturnsInv, ShutdownInv
<1>3. ASSUME NEW w \in Workers, WorkerStart(w) \/ WorkerWake(w) \/ ProcessDone(w)
      PROVE  IInv'
  <2>1. wk[w].ask = "none"
      BY <1>3 DEF IInv, TaskShape, WorkerStart, WorkerWake, ProcessDone
  <2> QED
      BY <1>3, <2>1, TakeNextInv DEF WorkerStart, WorkerWake, ProcessDone, Alive
<1>4. ASSUME NEW w \in Workers, IdleExit(w) \/ ProcessCancelled(w)
      PROVE  IInv'
  <2>1. wk[w].pc = "idle" => wk[w].ask = "none"
      BY DEF IInv, TaskShape
  <2> QED
      BY <1>4, <2>1, ExitInv DEF IdleExit, ProcessCancelled, Alive
<1>5. ASSUME NEW w \in Workers,
             \/ WorkerNeverRan(w) \/ AskReturns(w) \/ AskUser(w) \/ AskFails(w)
             \/ IdleTimer(w) \/ ProcessSwallows(w)
      PROVE  IInv'
    BY <1>5, WorkerNeverRanInv, AskReturnsInv, AskUserInv, AskFailsInv, FlagInv
<1>6. CASE UNCHANGED vars
    BY <1>6 DEF vars, IInv, TypeOK, TaskShape, EntryKnows, OneWorkerPerGroup,
                QuestionOwned, Alive
<1> QED
    BY <1>1, <1>2, <1>3, <1>4, <1>5, <1>6 DEF Next, WorkerStep

-----------------------------------------------------------------------------
(* The theorems *)

\* IInv holds in every reachable state.
THEOREM Invariance == Spec => []IInv
BY InitInv, StepInv, PTL DEF Spec

\* Every variable keeps its type, and the inbound queue its bound
\* (MessageBus._publish_with_drop_oldest).
THEOREM TypeCorrect == Spec => []TypeOK
<1>1. IInv => TypeOK
    BY DEF IInv
<1> QED
    BY <1>1, Invariance, PTL

\* The messages of one session are never processed by two live worker tasks
\* (PerGroupDispatcher.dispatch, cancel_group, cancel_all and _worker).
THEOREM OneWorker == Spec => []OneWorkerPerGroup
<1>1. IInv => OneWorkerPerGroup
    BY DEF IInv
<1> QED
    BY <1>1, Invariance, PTL

\* A turn that waits for the answer to its question is the one that run hands
\* the answer to, also beside questions that were registered in vain because
\* their checkpoint failed (LoopGenVer.ask_user, AgentLoop.run).
THEOREM Questions == Spec => []QuestionOwned
<1>1. IInv => QuestionOwned
    BY DEF IInv
<1> QED
    BY <1>1, Invariance, PTL

-----------------------------------------------------------------------------
(* A /stop discards what came before it *)

\* Messages leave the bus in the order of publication, so whatever is still
\* there is younger than every /stop handled, and so is what was queued since.
Ordered ==
    /\ \A i, j \in 1 .. Len(inbound) : i < j => inbound[i].n < inbound[j].n
    /\ \A i \in 1 .. Len(inbound) :
          inbound[i].n <= published /\ \A g \in Groups : lastStop[g] < inbound[i].n
    /\ \A g \in Groups : lastStop[g] <= published
    /\ \A g \in Groups : \A i \in 1 .. Len(queue[g]) : queue[g][i].n > lastStop[g]

LEMMA OrderedInit == Init => Ordered
BY BoundsAssumption DEF Init, Ordered

\* Numbers of the messages of a sequence, of its tail and of an extension.
LEMMA TailNumbers ==
    ASSUME NEW s \in Seq(Message), s # <<>>
    PROVE  /\ Len(Tail(s)) = Len(s) - 1 /\ Len(s) >= 1 /\ Head(s) = s[1]
           /\ \A i \in 1 .. Len(Tail(s)) : i + 1 \in 1 .. Len(s) /\ Tail(s)[i] = s[i + 1]
           /\ Tail(s) \in Seq(Message)
OBVIOUS

LEMMA AppendNumbers ==
    ASSUME NEW s \in Seq(Message), NEW m \in Message
    PROVE  /\ Len(Append(s, m)) = Len(s) + 1
           /\ \A i \in 1 .. Len(Append(s, m)) :
                 Append(s, m)[i] = IF i = Len(s) + 1 THEN m ELSE s[i]
OBVIOUS

LEMMA ConsumeOrdered ==
    ASSUME TypeOK, Ordered, NEW m \in Message, Consume(m)
    PROVE  /\ m.n <= published /\ \A g \in Groups : lastStop[g] < m.n
           /\ \A i \in 1 .. Len(inbound') :
                 inbound'[i].n <= published /\ m.n < inbound'[i].n
                 /\ \A g \in Groups : lastStop[g] < inbound'[i].n
           /\ \A i, j \in 1 .. Len(inbound') : i < j => inbound'[i].n < inbound'[j].n
<1>1. inbound \in Seq(Message) /\ inbound # <<>> /\ m = inbound[1]
      /\ inbound' = Tail(inbound)
    BY TailNumbers DEF TypeOK, Consume
<1>2. /\ Len(Tail(inbound)) = Len(inbound) - 1 /\ Len(inbound) >= 1
      /\ \A i \in 1 .. Len(Tail(inbound)) :
            i + 1 \in 1 .. Len(inbound) /\ Tail(inbound)[i] = inbound[i + 1]
    BY <1>1, TailNumbers
<1>3. Len(inbound) \in Nat /\ 1 \in 1 .. Len(inbound)
    BY <1>1, <1>2
<1> QED
    BY <1>1, <1>2, <1>3 DEF Ordered

LEMMA OrderedStep == IInv /\ Ordered /\ [Next]_vars => Ordered'
<1> SUFFICES ASSUME IInv, Ordered, [Next]_vars PROVE Ordered'
    OBVIOUS
<1>1. TypeOK /\ TaskShape
    BY DEF IInv
<1>2. ASSUME NEW g \in Groups, NEW stop \in BOOLEAN, Publish(g, stop)
      PROVE  Ordered'
  <2> DEFINE m == [n |-> published + 1, grp |-> g, stop |-> stop]
             room == IF Len(inbound) = MaxInbound THEN Tail(inbound) ELSE inbound
  <2>1. /\ m \in Message /\ m.n = published + 1 /\ published \in Nat
        /\ published' = published + 1 /\ inbound' = Append(room, m)
        /\ queue' = queue /\ lastStop' = lastStop
      BY <1>1, <1>2, BoundsAssumption DEF Publish, TypeOK, Message
  <2>2. /\ room \in Seq(Message)
        /\ \A i \in 1 .. Len(room) :
              room[i].n <= published /\ \A h \in Groups : lastStop[h] < room[i].n
        /\ \A i, j \in 1 .. Len(room) : i < j => room[i].n < room[j].n
    <3>1. CASE Len(inbound) = MaxInbound
      <4>1. inbound \in Seq(Message) /\ inbound # <<>> /\ room = Tail(inbound)
          BY <1>1, <3>1, BoundsAssumption DEF TypeOK
      <4>2. /\ Len(Tail(inbound)) = Len(inbound) - 1
            /\ \A i \in 1 .. Len(Tail(inbound)) :
                  i + 1 \in 1 .. Len(inbound) /\ Tail(inbound)[i] = inbound[i + 1]
          BY <4>1, TailNumbers
      <4>3. room \in Seq(Message) /\ Len(room) \in Nat /\ Len(inbound) \in Nat
          BY <4>1, TailNumbers
      <4> HIDE DEF room
      <4> QED
          BY <4>1, <4>2, <4>3 DEF Ordered
    <3>2. CASE Len(inbound) # MaxInbound
        BY <1>1, <3>2 DEF TypeOK, Ordered
    <3> QED
        BY <3>1, <3>2
  <2> HIDE DEF m, room
  <2>3. /\ Len(inbound') = Len(room) + 1 /\ Len(room) \in Nat
        /\ \A i \in 1 .. Len(inbound') :
              inbound'[i] = IF i = Len(room) + 1 THEN m ELSE room[i]
      BY <2>1, <2>2, AppendNumbers
  <2>4. \A i \in 1 .. Len(room) : room[i].n \in Nat
    <3>1. \A i \in 1 .. Len(room) : room[i] \in Message
        BY <2>2
    <3> QED
        BY <3>1 DEF Message
  <2>5. \A h \in Groups : lastStop[h] <= published /\ lastStop[h] \in Nat
      BY <1>1 DEF TypeOK, Ordered
  <2>6. \A i \in 1 .. Len(inbound') : i = Len(room) + 1 \/ i \in 1 .. Len(room)
      BY <2>3
  <2>7. \A i \in 1 .. Len(inbound') :
           inbound'[i].n <= published' /\ \A h \in Groups : lastStop'[h] < inbound'[i].n
      BY <2>1, <2>2, <2>3, <2>4, <2>5, <2>6
  <2>8. \A i, j \in 1 .. Len(inbound') : i < j => inbound'[i].n < inbound'[j].n
      BY <2>1, <2>2, <2>3, <2>4, <2>6
  <2>9. \A h \in Groups : lastStop'[h] <= published'
      BY <2>1, <2>5
  <2> QED
      BY <2>1, <2>7, <2>8, <2>9 DEF Ordered
<1>3. ASSUME Dispatch PROVE Ordered'
  <2>1. PICK g \in Groups, m \in Message :
          /\ Consume(m) /\ m.grp = g
          /\ queue' = [queue EXCEPT ![g] = Append(@, m)]
          /\ UNCHANGED <<published, lastStop>>
      BY <1>3 DEF Dispatch
  <2>2. /\ m.n <= published /\ \A h \in Groups : lastStop[h] < m.n
        /\ \A i \in 1 .. Len(inbound') :
              inbound'[i].n <= published /\ \A h \in Groups : lastStop[h] < inbound'[i].n
        /\ \A i, j \in 1 .. Len(inbound') : i < j => inbound'[i].n < inbound'[j].n
      BY <1>1, <2>1, ConsumeOrdered
  <2>3. queue[g] \in Seq(Message) /\ queue'[g] = Append(queue[g], m)
        /\ \A h \in Groups \ {g} : queue'[h] = queue[h]
      BY <1>1, <2>1 DEF TypeOK
  <2>4. \A i \in 1 .. Len(queue'[g]) : queue'[g][i].n > lastStop[g]
    <3>1. /\ Len(queue'[g]) = Len(queue[g]) + 1 /\ Len(queue[g]) \in Nat
          /\ \A i \in 1 .. Len(queue'[g]) :
                queue'[g][i] = IF i = Len(queue[g]) + 1 THEN m ELSE queue[g][i]
        BY <2>3, AppendNumbers
    <3>2. m.n \in Nat /\ lastStop[g] \in Nat
        BY <1>1 DEF TypeOK, Message
    <3> QED
        BY <2>2, <3>1, <3>2 DEF Ordered
  <2> QED
      BY <2>1, <2>2, <2>3, <2>4 DEF Ordered
<1>4. ASSUME Answer PROVE Ordered'
  <2>1. PICK m \in Message : Consume(m) /\ UNCHANGED <<published, queue, lastStop>>
      BY <1>4 DEF Answer
  <2>2. /\ \A i \in 1 .. Len(inbound') :
              inbound'[i].n <= published /\ \A h \in Groups : lastStop[h] < inbound'[i].n
        /\ \A i, j \in 1 .. Len(inbound') : i < j => inbound'[i].n < inbound'[j].n
      BY <1>1, <2>1, ConsumeOrdered
  <2> QED
      BY <2>1, <2>2 DEF Ordered
<1>5. ASSUME HandleStop PROVE Ordered'
  <2>1. PICK g \in Groups, m \in Message :
          /\ Consume(m) /\ m.grp = g
          /\ queue' = [queue EXCEPT ![g] = <<>>]
          /\ lastStop' = [lastStop EXCEPT ![g] = m.n]
          /\ UNCHANGED published
      BY <1>5 DEF HandleStop
  <2>2. /\ m.n <= published
        /\ \A i \in 1 .. Len(inbound') :
              inbound'[i].n <= published /\ m.n < inbound'[i].n
              /\ \A h \in Groups : lastStop[h] < inbound'[i].n
        /\ \A i, j \in 1 .. Len(inbound') : i < j => inbound'[i].n < inbound'[j].n
      BY <1>1, <2>1, ConsumeOrdered
  <2>3. /\ queue'[g] = <<>> /\ \A h \in Groups \ {g} : queue'[h] = queue[h]
        /\ lastStop'[g] = m.n /\ \A h \in Groups \ {g} : lastStop'[h] = lastStop[h]
      BY <1>1, <2>1 DEF TypeOK
  <2> QED
      BY <2>1, <2>2, <2>3 DEF Ordered
<1>6. ASSUME NEW w \in Workers, wk[w].grp \in Groups, TakeNext(w),
             UNCHANGED <<published, inbound, lastStop>>
      PROVE  Ordered'
  <2> DEFINE g == wk[w].grp
  <2>1. CASE queue[g] # <<>>
    <3>1. /\ queue[g] \in Seq(Message) /\ queue'[g] = Tail(queue[g])
          /\ \A h \in Groups \ {g} : queue'[h] = queue[h]
        BY <1>1, <1>6, <2>1 DEF TypeOK, TakeNext
    <3>2. \A i \in 1 .. Len(queue'[g]) : i + 1 \in 1 .. Len(queue[g])
                                       /\ queue'[g][i] = queue[g][i + 1]
        BY <2>1, <3>1, TailNumbers
    <3> QED
        BY <1>6, <3>1, <3>2 DEF Ordered
  <2>2. CASE queue[g] = <<>>
      BY <1>6, <2>2 DEF TakeNext, Ordered
  <2> QED
      BY <2>1, <2>2
<1>7. ASSUME NEW w \in Workers, WorkerStart(w) \/ WorkerWake(w) \/ ProcessDone(w)
      PROVE  Ordered'
  <2>1. wk[w].grp \in Groups
      BY <1>1, <1>7 DEF TaskShape, WorkerStart, WorkerWake, ProcessDone
  <2> QED
      BY <1>6, <1>7, <2>1 DEF WorkerStart, WorkerWake, ProcessDone
<1>8. CASE UNCHANGED <<published, inbound, queue, lastStop>>
    BY <1>8 DEF Ordered
<1> QED
  <2>1. StopReturns \/ Shutdown => UNCHANGED <<published, inbound, queue, lastStop>>
      BY DEF StopReturns, Shutdown
  <2>2. ASSUME NEW w \in Workers,
               \/ WorkerNeverRan(w) \/ IdleExit(w) \/ ProcessCancelled(w) \/ AskReturns(w)
               \/ IdleTimer(w) \/ ProcessSwallows(w) \/ AskUser(w) \/ AskFails(w)
        PROVE  UNCHANGED <<published, inbound, queue, lastStop>>
      BY <2>2 DEF WorkerNeverRan, IdleExit, ProcessCancelled, AskReturns, IdleTimer,
                  ProcessSwallows, AskUser, AskFails, Exit
  <2>3. UNCHANGED vars => UNCHANGED <<published, inbound, queue, lastStop>>
      BY DEF vars
  <2> QED
      BY <1>2, <1>3, <1>4, <1>5, <1>7, <1>8, <2>1, <2>2, <2>3 DEF Next, WorkerStep

\* What an action does to the messages being processed: TakeNext(w) gives w a
\* message, no other action gives any task one.
LEMMA OnlyTakeNextStarts ==
    ASSUME IInv, [Next]_vars, NEW w \in Workers, wk'[w].msg \notin {NoMessage, wk[w].msg}
    PROVE  \E x \in Workers : /\ wk[x].grp \in Groups /\ Alive(x) /\ TakeNext(x)
                              /\ UNCHANGED lastStop
<1>1. TypeOK /\ TaskShape
    BY DEF IInv
<1>2. ASSUME NEW x \in Workers, NEW t \in WorkerState, t.msg \in {NoMessage, wk[x].msg},
             wk' = [wk EXCEPT ![x] = t]
      PROVE  FALSE
    BY <1>1, <1>2 DEF TypeOK
<1>3. \A x \in Workers : wk[x] \in WorkerState
    BY <1>1 DEF TypeOK
<1>4. ASSUME wk' = wk PROVE FALSE
    BY <1>4
<1>5. ~(\E g \in Groups, stop \in BOOLEAN : Publish(g, stop))
    BY <1>4 DEF Publish
<1>6. ~(UNCHANGED vars) /\ ~StopReturns
    BY <1>4 DEF vars, StopReturns
<1>7. ~Dispatch
  <2>1. \A g \in Groups : Task("created", g) \in WorkerState /\ Task("created", g).msg = NoMessage
      BY TaskType DEF Task
  <2> QED
      BY <1>2, <1>4, <2>1 DEF Dispatch
<1>8. ~Answer
    BY <1>1, ToldShape DEF Answer
<1>9. ~HandleStop
  <2>1. SUFFICES ASSUME NEW g \in Groups,
                        wk' = IF Live(g) THEN [Told(g) EXCEPT ![entry[g]] = Cancelled(@)]
                                         ELSE Told(g)
                 PROVE  FALSE
      BY DEF HandleStop
  <2>2. Told(g) \in [Workers -> WorkerState] /\ \A x \in Workers : Told(g)[x].msg = wk[x].msg
      BY <1>1, ToldShape
  <2>3. \A x \in Workers : Cancelled(Told(g)[x]).msg = wk[x].msg
      BY <2>2, CancelledType
  <2>4. wk'[w] = Told(g)[w] \/ wk'[w] = Cancelled(Told(g)[w])
      BY <2>1, <2>2
  <2> QED
      BY <2>2, <2>3, <2>4
<1>10. ~Shutdown
  <2>1. SUFFICES ASSUME Shutdown PROVE FALSE
      OBVIOUS
  <2>2. wk'[w] \in {wk[w], Cancelled(wk[w]), Task("free", NoGroup)}
      BY <2>1 DEF Shutdown
  <2>3. Cancelled(wk[w]).msg = wk[w].msg /\ Task("free", NoGroup).msg = NoMessage
      BY <1>3, CancelledType DEF Task
  <2> QED
      BY <2>2, <2>3
<1>11. ASSUME NEW x \in Workers,
              \/ WorkerNeverRan(x) \/ IdleExit(x) \/ ProcessCancelled(x) \/ AskReturns(x)
              \/ IdleTimer(x) \/ ProcessSwallows(x) \/ AskUser(x) \/ AskFails(x)
       PROVE  FALSE
  <2>1. CASE WorkerNeverRan(x)
    <3>1. wk[x].grp \in Groups
        BY <1>1, <2>1 DEF WorkerNeverRan, TaskShape
    <3>2. /\ Task("done", wk[x].grp) \in WorkerState /\ Task("free", NoGroup) \in WorkerState
          /\ Task("done", wk[x].grp).msg = NoMessage /\ Task("free", NoGroup).msg = NoMessage
        BY <3>1, TaskType DEF Task
    <3> QED
        BY <1>2, <2>1, <3>2 DEF WorkerNeverRan
  <2>2. CASE IdleExit(x) \/ ProcessCancelled(x)
    <3>1. Task("free", NoGroup) \in WorkerState /\ Task("free", NoGroup).msg = NoMessage
        BY TaskType DEF Task
    <3> QED
        BY <1>2, <2>2, <3>1 DEF IdleExit, ProcessCancelled, Exit
  <2>3. CASE AskReturns(x)
      BY <1>1, <1>3, <2>3 DEF AskReturns, TypeOK, WorkerState
  <2>4. CASE AskUser(x)
      BY <1>1, <1>3, <2>4 DEF AskUser, TypeOK, WorkerState
  <2>5. CASE IdleTimer(x)
      BY <1>1, <1>3, <2>5 DEF IdleTimer, TypeOK, WorkerState
  <2>6. CASE ProcessSwallows(x)
      BY <1>1, <1>3, <2>6 DEF ProcessSwallows, TypeOK, WorkerState
  <2>7. CASE AskFails(x)
      BY <2>7 DEF AskFails
  <2> QED
      BY <1>11, <2>1, <2>2, <2>3, <2>4, <2>5, <2>6, <2>7
<1>12. PICK x \in Workers : WorkerStart(x) \/ WorkerWake(x) \/ ProcessDone(x)
    BY <1>5, <1>6, <1>7, <1>8, <1>9, <1>10, <1>11 DEF Next, WorkerStep
<1>13. Alive(x) /\ TakeNext(x) /\ UNCHANGED lastStop
    BY <1>12 DEF WorkerStart, WorkerWake, ProcessDone, Alive
<1>14. wk[x].grp \in Groups
    BY <1>1, <1>13 DEF TaskShape, Alive
<1> QED
    BY <1>13, <1>14

\* A message that starts was published after every /stop its session has had
\* handled (cancel_group drains the queue before anything else can be queued).
THEOREM StopDiscards == Spec => StopDiscardsEarlier
<1> DEFINE A == \A w \in Workers : wk'[w].msg \notin {NoMessage, wk[w].msg}
                                      => wk'[w].msg.n > lastStop[wk'[w].grp]
<1>1. IInv /\ Ordered /\ [Next]_vars => A
  <2> SUFFICES ASSUME IInv, Ordered, [Next]_vars,
                      NEW w \in Workers, wk'[w].msg \notin {NoMessage, wk[w].msg}
               PROVE  wk'[w].msg.n > lastStop[wk'[w].grp]
      OBVIOUS
  <2>1. TypeOK /\ TaskShape
      BY DEF IInv
  <2>2. PICK x \in Workers : wk[x].grp \in Groups /\ Alive(x) /\ TakeNext(x)
      BY OnlyTakeNextStarts
  <2> DEFINE g == wk[x].grp
  <2>3. CASE queue[g] # <<>>
    <3>1. wk' = [wk EXCEPT ![x].pc = "busy", ![x].msg = Head(queue[g])]
        BY <2>2, <2>3 DEF TakeNext
    <3>2. w = x /\ wk'[w].msg = Head(queue[g]) /\ wk'[w].grp = g
        BY <2>1, <3>1 DEF TypeOK, WorkerState
    <3>3. Head(queue[g]) = queue[g][1] /\ 1 \in 1 .. Len(queue[g])
        BY <2>1, <2>2, <2>3 DEF TypeOK
    <3> QED
        BY <2>2, <3>2, <3>3 DEF Ordered
  <2>4. CASE queue[g] = <<>>
    <3>1. wk' = [wk EXCEPT ![x].pc = "idle", ![x].msg = NoMessage]
        BY <2>2, <2>4 DEF TakeNext
    <3> QED
        BY <2>1, <3>1 DEF TypeOK, WorkerState
  <2> QED
      BY <2>3, <2>4
<1> QED
    BY <1>1, OrderedInit, OrderedStep, Invariance, PTL DEF Spec, StopDiscardsEarlier

-----------------------------------------------------------------------------
(* The dispatcher implements SerialGroups *)

\* What Processed is, in terms of the tasks: well defined because a group has
\* one live worker.
ProcessedFacts ==
    \A g \in Groups :
        /\ \A w \in Workers : wk[w].pc = "busy" /\ wk[w].grp = g => Processed[g] = wk[w].msg
        /\ (\A w \in Workers : ~(wk[w].pc = "busy" /\ wk[w].grp = g)) => Processed[g] = NoMessage

LEMMA ProcessedIs == IInv => ProcessedFacts
<1> SUFFICES ASSUME IInv, NEW g \in Groups
             PROVE  /\ \A w \in Workers : wk[w].pc = "busy" /\ wk[w].grp = g
                                            => Processed[g] = wk[w].msg
                    /\ (\A w \in Workers : ~(wk[w].pc = "busy" /\ wk[w].grp = g))
                           => Processed[g] = NoMessage
    BY DEF ProcessedFacts
<1>1. Processed[g] = IF Busy(g) = {} THEN NoMessage ELSE wk[CHOOSE w \in Busy(g) : TRUE].msg
    BY DEF Processed
<1>2. ASSUME NEW w \in Workers, wk[w].pc = "busy", wk[w].grp = g
      PROVE  Processed[g] = wk[w].msg
  <2>1. Busy(g) = {w}
      BY <1>2 DEF Busy, IInv, OneWorkerPerGroup, Alive
  <2> QED
      BY <1>1, <2>1
<1>3. (\A w \in Workers : ~(wk[w].pc = "busy" /\ wk[w].grp = g)) => Busy(g) = {}
    BY DEF Busy
<1> QED
    BY <1>1, <1>2, <1>3

\* A group whose busy worker and message stay the same keeps its Processed.
LEMMA ProcessedSame ==
    ASSUME ProcessedFacts, ProcessedFacts', NEW g \in Groups,
           \A w \in Workers :
              /\ (wk'[w].pc = "busy" /\ wk'[w].grp = g) <=> (wk[w].pc = "busy" /\ wk[w].grp = g)
              /\ wk[w].pc = "busy" /\ wk[w].grp = g => wk'[w].msg = wk[w].msg
    PROVE  Processed'[g] = Processed[g]
BY DEF ProcessedFacts

LEMMA ProcessedExt ==
    ASSUME \A g \in Groups : Processed'[g] = Processed[g]
    PROVE  Processed' = Processed
BY DEF Processed

LEMMA ProcessedExcept ==
    ASSUME NEW g \in Groups, NEW v, Processed'[g] = v,
           \A h \in Groups \ {g} : Processed'[h] = Processed[h]
    PROVE  Processed' = [Processed EXCEPT ![g] = v]
<1>1. Processed = [h \in Groups |-> Processed[h]]
    BY DEF Processed
<1>2. Processed' = [h \in Groups |-> Processed'[h]]
    BY DEF Processed
<1> QED
    BY <1>1, <1>2

LEMMA InitMaps == Init => Serial!SInit
<1> SUFFICES ASSUME Init PROVE Serial!SInit
    OBVIOUS
<1>1. \A g \in Groups : Busy(g) = {}
    BY DEF Init, Busy, Task
<1>2. Processed = [g \in Groups |-> NoMessage]
    BY <1>1 DEF Processed
<1> QED
    BY <1>2 DEF Init, Serial!SInit

LEMMA TakeNextMaps ==
    ASSUME IInv, ProcessedFacts, ProcessedFacts', NEW w \in Workers, Alive(w), TakeNext(w)
    PROVE  [Serial!SNext]_(Serial!svars)
<1>1. TypeOK /\ TaskShape /\ OneWorkerPerGroup
    BY DEF IInv
<1> DEFINE g == wk[w].grp
<1>2. g \in Groups
    BY <1>1 DEF TaskShape, Alive
<1>3. /\ \A x \in Workers \ {w} : wk'[x] = wk[x]
      /\ wk'[w].grp = g
    BY <1>1, <1>2, TakeNextStep
<1>4. \A x \in Workers \ {w} : ~(wk[x].pc = "busy" /\ wk[x].grp = g)
    BY <1>1 DEF OneWorkerPerGroup, Alive
<1>5. \A h \in Groups \ {g} : Processed'[h] = Processed[h]
    BY <1>3, ProcessedSame
<1>6. Processed[g] = IF wk[w].pc = "busy" THEN wk[w].msg ELSE NoMessage
    BY <1>2, <1>4 DEF ProcessedFacts
<1>7. Processed[g] # NoMessage <=> wk[w].pc = "busy"
    BY <1>1, <1>6 DEF TaskShape
<1>8. CASE queue[g] # <<>>
  <2>1. /\ wk' = [wk EXCEPT ![w].pc = "busy", ![w].msg = Head(queue[g])]
        /\ queue' = [queue EXCEPT ![g] = Tail(@)]
      BY <1>8 DEF TakeNext
  <2>2. wk'[w].pc = "busy" /\ wk'[w].msg = Head(queue[g])
      BY <1>1, <2>1 DEF TypeOK, WorkerState
  <2>3. Processed'[g] = Head(queue[g])
      BY <1>2, <1>3, <2>2 DEF ProcessedFacts
  <2>4. Processed' = [Processed EXCEPT ![g] = Head(queue[g])]
      BY <1>2, <1>5, <2>3, ProcessedExcept
  <2>5. Serial!Start(g) \/ Serial!FinishAndStart(g)
      BY <1>8, <2>1, <2>4 DEF Serial!Start, Serial!FinishAndStart
  <2> QED
      BY <1>2, <2>5 DEF Serial!SNext
<1>9. CASE queue[g] = <<>>
  <2>1. wk' = [wk EXCEPT ![w].pc = "idle", ![w].msg = NoMessage] /\ queue' = queue
      BY <1>9 DEF TakeNext
  <2>2. wk'[w].pc = "idle"
      BY <1>1, <2>1 DEF TypeOK, WorkerState
  <2>3. Processed'[g] = NoMessage
      BY <1>2, <1>3, <1>4, <2>2 DEF ProcessedFacts
  <2>4. Processed' = [Processed EXCEPT ![g] = NoMessage]
      BY <1>2, <1>5, <2>3, ProcessedExcept
  <2>5. CASE wk[w].pc = "busy"
      BY <1>2, <1>7, <2>1, <2>4, <2>5 DEF Serial!Finish, Serial!SNext
  <2>6. CASE wk[w].pc # "busy"
    <3>1. Processed' = Processed
        BY <1>5, <1>7, <2>3, <2>6, ProcessedExt
    <3> QED
        BY <2>1, <3>1 DEF Serial!svars
  <2> QED
      BY <2>5, <2>6
<1> QED
    BY <1>8, <1>9

LEMMA ExitMaps ==
    ASSUME IInv, ProcessedFacts, ProcessedFacts', NEW w \in Workers, Alive(w), Exit(w)
    PROVE  [Serial!SNext]_(Serial!svars)
<1>1. TypeOK /\ TaskShape /\ OneWorkerPerGroup
    BY DEF IInv
<1> DEFINE g == wk[w].grp
<1>2. g \in Groups
    BY <1>1 DEF TaskShape, Alive
<1>3. wk'[w].pc = "free" /\ \A x \in Workers \ {w} : wk'[x] = wk[x]
    BY <1>1 DEF Exit, TypeOK, Task
<1>4. \A x \in Workers \ {w} : ~(wk[x].pc = "busy" /\ wk[x].grp = g)
    BY <1>1 DEF OneWorkerPerGroup, Alive
<1>5. \A h \in Groups \ {g} : Processed'[h] = Processed[h]
    BY <1>3, ProcessedSame
<1>6. Processed'[g] = NoMessage
    BY <1>2, <1>3, <1>4 DEF ProcessedFacts
<1>7. queue' = queue
    BY DEF Exit
<1>8. CASE wk[w].pc = "busy"
  <2>1. Processed[g] # NoMessage
      BY <1>1, <1>2, <1>8 DEF ProcessedFacts, TaskShape
  <2>2. Processed' = [Processed EXCEPT ![g] = NoMessage]
      BY <1>2, <1>5, <1>6, ProcessedExcept
  <2> QED
      BY <1>2, <1>7, <2>1, <2>2 DEF Serial!Finish, Serial!SNext
<1>9. CASE wk[w].pc # "busy"
  <2>1. Processed[g] = NoMessage
      BY <1>2, <1>4, <1>9 DEF ProcessedFacts
  <2>2. Processed' = Processed
      BY <1>5, <1>6, <2>1, ProcessedExt
  <2> QED
      BY <1>7, <2>2 DEF Serial!svars
<1> QED
    BY <1>8, <1>9

\* The steps that neither start nor end a turn.
LEMMA StutterMaps ==
    ASSUME ProcessedFacts, ProcessedFacts', queue' = queue,
           \A w \in Workers :
              /\ wk'[w].pc = "busy" <=> wk[w].pc = "busy"
              /\ wk[w].pc = "busy" => wk'[w].grp = wk[w].grp /\ wk'[w].msg = wk[w].msg
    PROVE  UNCHANGED Serial!svars
<1>1. \A g \in Groups : Processed'[g] = Processed[g]
    BY ProcessedSame
<1> QED
    BY <1>1, ProcessedExt DEF Serial!svars

LEMMA RunMaps ==
    ASSUME IInv, ProcessedFacts, ProcessedFacts', Dispatch \/ Answer \/ HandleStop \/ Shutdown
    PROVE  [Serial!SNext]_(Serial!svars)
<1>1. TypeOK /\ TaskShape /\ EntryKnows
    BY DEF IInv
<1>2. CASE Dispatch
  <2>1. PICK g \in Groups, m \in Message :
          /\ queue' = [queue EXCEPT ![g] = Append(@, m)]
          /\ \/ UNCHANGED wk
             \/ \E w \in Workers :
                  /\ ~Live(g)
                  /\ IF entry[g] = NoWorker THEN wk[w].pc = "free" ELSE w = entry[g]
                  /\ wk' = [wk EXCEPT ![w] = Task("created", g)]
      BY <1>2 DEF Dispatch
  <2>2. \A w \in Workers :
          /\ wk'[w].pc = "busy" <=> wk[w].pc = "busy"
          /\ wk[w].pc = "busy" => wk'[w].grp = wk[w].grp /\ wk'[w].msg = wk[w].msg
    <3>1. ASSUME NEW x \in Workers, ~Live(g),
                 IF entry[g] = NoWorker THEN wk[x].pc = "free" ELSE x = entry[g],
                 wk' = [wk EXCEPT ![x] = Task("created", g)]
          PROVE  /\ wk[x].pc # "busy" /\ wk'[x].pc # "busy"
                 /\ \A w \in Workers \ {x} : wk'[w] = wk[w]
        BY <1>1, <3>1 DEF Live, Alive, Task, TypeOK
    <3> QED
        BY <2>1, <3>1
  <2>3. Processed' = Processed
      BY <2>2, ProcessedSame, ProcessedExt
  <2> QED
      BY <2>1, <2>3 DEF Serial!Accept, Serial!SNext
<1>3. CASE Answer
  <2>1. queue' = queue /\ \E g \in Groups : wk' = Told(g)
      BY <1>3 DEF Answer
  <2>2. \A w \in Workers : wk'[w].pc = wk[w].pc /\ wk'[w].grp = wk[w].grp
                           /\ wk'[w].msg = wk[w].msg
      BY <1>1, <2>1, ToldShape
  <2> QED
      BY <2>1, <2>2, StutterMaps
<1>4. CASE HandleStop
  <2>1. PICK g \in Groups :
          /\ queue' = [queue EXCEPT ![g] = <<>>]
          /\ wk' = IF Live(g) THEN [Told(g) EXCEPT ![entry[g]] = Cancelled(@)] ELSE Told(g)
      BY <1>4 DEF HandleStop
  <2>2. Told(g) \in [Workers -> WorkerState]
        /\ \A w \in Workers : Told(g)[w].pc = wk[w].pc /\ Told(g)[w].grp = wk[w].grp
                              /\ Told(g)[w].msg = wk[w].msg
      BY <1>1, ToldShape
  <2>3. \A w \in Workers : wk'[w] \in {Told(g)[w], Cancelled(Told(g)[w])}
      BY <2>1, <2>2
  <2>4. \A w \in Workers : wk'[w].pc = wk[w].pc /\ wk'[w].grp = wk[w].grp
                           /\ wk'[w].msg = wk[w].msg
    <3> TAKE w \in Workers
    <3>1. Told(g)[w] \in WorkerState
        BY <2>2
    <3> QED
      <4>1. Told(g)[w].pc = wk[w].pc /\ Told(g)[w].grp = wk[w].grp
            /\ Told(g)[w].msg = wk[w].msg
          BY <2>2
      <4>2. CASE wk'[w] = Told(g)[w]
          BY <4>1, <4>2
      <4>3. CASE wk'[w] = Cancelled(Told(g)[w])
          BY <3>1, <4>1, <4>3, CancelledType
      <4> QED
          BY <2>3, <4>2, <4>3
  <2>5. Processed' = Processed
      BY <2>4, ProcessedSame, ProcessedExt
  <2> QED
      BY <2>1, <2>5 DEF Serial!Discard, Serial!SNext
<1>5. CASE Shutdown
  <2>1. queue' = queue /\ \A w \in Workers :
          \/ wk'[w] = wk[w]
          \/ wk'[w] = Cancelled(wk[w])
          \/ ~Alive(w) /\ wk'[w] = Task("free", NoGroup)
      BY <1>5 DEF Shutdown
  <2>2. \A w \in Workers :
          /\ wk'[w].pc = "busy" <=> wk[w].pc = "busy"
          /\ wk[w].pc = "busy" => wk'[w].grp = wk[w].grp /\ wk'[w].msg = wk[w].msg
    <3> TAKE w \in Workers
    <3>1. wk[w] \in WorkerState
        BY <1>1 DEF TypeOK
    <3> QED
      <4>1. CASE wk'[w] \in {wk[w], Cancelled(wk[w])}
          BY <3>1, <4>1, CancelledType
      <4>2. CASE ~Alive(w) /\ wk'[w] = Task("free", NoGroup)
          BY <4>2 DEF Alive, Task
      <4> QED
          BY <2>1, <4>1, <4>2
  <2> QED
      BY <2>1, <2>2, StutterMaps
<1> QED
    BY <1>2, <1>3, <1>4, <1>5

LEMMA StepMaps ==
    ASSUME IInv, IInv', [Next]_vars, ProcessedFacts, ProcessedFacts'
    PROVE  [Serial!SNext]_(Serial!svars)
<1>1. TypeOK /\ TaskShape
    BY DEF IInv
<1>2. ASSUME NEW w \in Workers, WorkerStart(w) \/ WorkerWake(w) \/ ProcessDone(w)
      PROVE  [Serial!SNext]_(Serial!svars)
    BY <1>2, TakeNextMaps DEF WorkerStart, WorkerWake, ProcessDone, Alive
<1>3. ASSUME NEW w \in Workers, IdleExit(w) \/ ProcessCancelled(w)
      PROVE  [Serial!SNext]_(Serial!svars)
    BY <1>3, ExitMaps DEF IdleExit, ProcessCancelled, Alive
<1>4. ASSUME queue' = queue, wk' = wk PROVE UNCHANGED Serial!svars
    BY <1>4, StutterMaps
<1>5. ASSUME (\E g \in Groups, stop \in BOOLEAN : Publish(g, stop)) \/ StopReturns
             \/ (\E w \in Workers : AskFails(w)) \/ UNCHANGED vars
      PROVE  UNCHANGED Serial!svars
    BY <1>4, <1>5 DEF Publish, StopReturns, AskFails, vars
<1>6. ASSUME NEW w \in Workers, WorkerNeverRan(w)
      PROVE  UNCHANGED Serial!svars
  <2>1. queue' = queue /\ wk[w].pc = "created" /\ wk'[w].pc # "busy"
        /\ \A x \in Workers \ {w} : wk'[x] = wk[x]
      BY <1>1, <1>6 DEF WorkerNeverRan, TypeOK, Task
  <2> QED
      BY <2>1, StutterMaps
<1>7. ASSUME NEW w \in Workers, AskReturns(w) \/ AskUser(w) \/ IdleTimer(w) \/ ProcessSwallows(w)
      PROVE  UNCHANGED Serial!svars
  <2>1. queue' = queue /\ \A x \in Workers : wk'[x].pc = wk[x].pc /\ wk'[x].grp = wk[x].grp
                                             /\ wk'[x].msg = wk[x].msg
    <3>1. wk \in [Workers -> WorkerState] /\ wk[w] \in WorkerState
        BY <1>1 DEF TypeOK
    <3>2. CASE AskReturns(w)
        BY <3>1, <3>2 DEF AskReturns, WorkerState
    <3>3. CASE AskUser(w)
        BY <3>1, <3>3 DEF AskUser, WorkerState
    <3>4. CASE IdleTimer(w)
        BY <3>1, <3>4 DEF IdleTimer, WorkerState
    <3>5. CASE ProcessSwallows(w)
        BY <3>1, <3>5 DEF ProcessSwallows, WorkerState
    <3> QED
        BY <1>7, <3>2, <3>3, <3>4, <3>5
  <2> QED
      BY <2>1, StutterMaps
<1> QED
    BY <1>2, <1>3, <1>5, <1>6, <1>7, RunMaps DEF Next, WorkerStep

\* PerGroupDispatcher, with its tasks, timers and cancellations, is the serial
\* queue per session that its docstring promises.
THEOREM Refinement == Spec => ImplementsSerial
<1>1. IInv /\ IInv' /\ [Next]_vars => [Serial!SNext]_(Serial!svars)
  <2>1. IInv => ProcessedFacts
      BY ProcessedIs
  <2>2. IInv' => ProcessedFacts'
      BY ProcessedIs, PTL
  <2> QED
      BY <2>1, <2>2, StepMaps
<1> QED
    BY <1>1, InitMaps, Invariance, PTL DEF Spec, ImplementsSerial, Serial!SSpec
-----------------------------------------------------------------------------
(* What the stranded messages come from *)

\* A worker that will exit at its next step, whatever its queue holds by then.
Leaving(w) == wk[w].cancel \/ wk[w].expired

\* Nothing is dispatched to a worker that leaves, and the idle timer does not fire on a
\* worker that has a message.
NobodyMissed ==
    /\ \A g \in Groups : Len(queue'[g]) > Len(queue[g]) => ~(Live(g) /\ Leaving(entry[g]))
    /\ \A w \in Workers : IdleTimer(w) => queue[wk[w].grp] = <<>>

\* Then a worker that leaves has nothing left to do.
Served ==
    running => \A g \in Groups : queue[g] # <<>> => Live(g) /\ ~Leaving(entry[g])

\* A step that adds no message, and makes no worker with messages leave.
LEMMA ServedKept ==
    ASSUME Served, running' => running,
           \A g \in Groups : queue'[g] # <<>> =>
               /\ queue[g] # <<>> /\ entry'[g] = entry[g]
               /\ Live(g) /\ ~Leaving(entry[g]) =>
                     Alive(entry[g])' /\ ~Leaving(entry[g])'
    PROVE  Served'
BY DEF Served, Live, Alive, Leaving

\* The entries of the dispatcher are tasks, each of its own group.
LEMMA EntryGroup ==
    ASSUME IInv, NEW g \in Groups, entry[g] # NoWorker
    PROVE  entry[g] \in Workers /\ wk[entry[g]].grp = g
BY DEF IInv, TypeOK, EntryKnows

\* A step that touches no queue and no entry, and makes no worker leave.
LEMMA ServedByOthers ==
    ASSUME IInv, Served, UNCHANGED <<queue, entry, running>>,
           \A x \in Workers : wk'[x].pc = wk[x].pc /\ (Leaving(x)' => Leaving(x))
    PROVE  Served'
<1>1. \A g \in Groups : Live(g) => entry[g] \in Workers
    BY EntryGroup DEF Live
<1>2. \A x \in Workers : Alive(x) /\ ~Leaving(x) => Alive(x)' /\ ~Leaving(x)'
    BY DEF Alive
<1>3. ASSUME NEW g \in Groups, queue'[g] # <<>>
      PROVE  /\ queue[g] # <<>> /\ entry'[g] = entry[g]
             /\ Live(g) /\ ~Leaving(entry[g]) => Alive(entry[g])' /\ ~Leaving(entry[g])'
  <2>1. /\ queue[g] # <<>> /\ entry' = entry /\ entry'[g] = entry[g]
      BY <1>3
  <2>2. ASSUME Live(g), ~Leaving(entry[g])
        PROVE  Alive(entry[g])' /\ ~Leaving(entry[g])'
    <3>1. entry[g] \in Workers /\ Alive(entry[g])
        BY <1>1, <2>2 DEF Live
    <3>2. /\ wk'[entry[g]].pc = wk[entry[g]].pc
          /\ Leaving(entry[g])' => Leaving(entry[g])
        BY <2>1, <3>1 DEF Leaving
    <3> QED
        BY <2>1, <2>2, <3>1, <3>2 DEF Alive
  <2> QED
      BY <2>1, <2>2
<1> QED
    BY <1>3, ServedKept

\* A worker that leaves has nothing left to do, so that its exit strands nobody.
LEMMA ServedByExit ==
    ASSUME IInv, Served, NEW w \in Workers, Alive(w), Leaving(w),
           UNCHANGED <<queue, running>>,
           \A h \in Groups \ {wk[w].grp} : entry'[h] = entry[h],
           \A x \in Workers \ {w} : wk'[x] = wk[x]
    PROVE  Served'
<1>1. running => entry[wk[w].grp] = w /\ wk[w].grp \in Groups
    BY DEF IInv, EntryKnows, TaskShape, Alive
<1>2. ASSUME running', NEW g \in Groups, queue'[g] # <<>>
      PROVE  Live(g)' /\ ~Leaving(entry[g])'
  <2>1. Live(g) /\ ~Leaving(entry[g])
      BY <1>2 DEF Served
  <2>2. g # wk[w].grp
      BY <1>1, <1>2, <2>1
  <2>3. entry[g] \in Workers \ {w} /\ entry'[g] = entry[g]
      BY <2>1, <2>2, EntryGroup DEF Live
  <2> QED
      BY <2>1, <2>3 DEF Live, Alive, Leaving
<1> QED
    BY <1>2 DEF Served

\* An answer lets its turn go on, and changes nothing else of any task.
LEMMA ToldKeeps ==
    ASSUME IInv, NEW g \in Groups, NEW x \in Workers
    PROVE  /\ Told(g)[x].pc = wk[x].pc /\ Told(g)[x].cancel = wk[x].cancel
           /\ Told(g)[x].expired = wk[x].expired
<1>1. /\ wk \in [Workers -> WorkerState] /\ \A y \in Workers : wk[y] \in WorkerState
      /\ asker[g] \in Workers \cup {NoWorker}
    BY DEF IInv, TypeOK
<1>2. CASE Waited(g)
  <2>1. Told(g) = [wk EXCEPT ![asker[g]] = [@ EXCEPT !.ask = "answered"]]
        /\ asker[g] \in Workers
      BY <1>1, <1>2 DEF Told, Waited
  <2>2. CASE x = asker[g]
      BY <1>1, <2>1, <2>2 DEF WorkerState
  <2>3. CASE x # asker[g]
      BY <1>1, <2>1, <2>3
  <2> QED
      BY <2>2, <2>3
<1> QED
    BY <1>2 DEF Told

LEMMA ServedStep ==
    ASSUME IInv, Served, [Next]_vars, NobodyMissed
    PROVE  Served'
<1>a. /\ wk \in [Workers -> WorkerState] /\ \A x \in Workers : wk[x] \in WorkerState
      /\ queue \in [Groups -> Seq(Message)] /\ entry \in [Groups -> Workers \cup {NoWorker}]
      /\ TaskShape /\ EntryKnows /\ TypeOK
    BY DEF IInv, TypeOK
<1>1. CASE (\E g \in Groups, stop \in BOOLEAN : Publish(g, stop)) \/ StopReturns
           \/ (\E w \in Workers : AskFails(w)) \/ UNCHANGED vars
    BY <1>1, ServedByOthers DEF Publish, StopReturns, AskFails, vars, Leaving
<1>2. CASE Dispatch
  <2>1. PICK g \in Groups, m \in Message :
          /\ queue' = [queue EXCEPT ![g] = Append(@, m)]
          /\ running' = running
          /\ \/ Live(g) /\ UNCHANGED <<entry, wk>>
             \/ /\ ~Live(g)
                /\ \E w \in Workers :
                      /\ IF entry[g] = NoWorker THEN wk[w].pc = "free" ELSE w = entry[g]
                      /\ wk' = [wk EXCEPT ![w] = Task("created", g)]
                      /\ entry' = [entry EXCEPT ![g] = w]
      BY <1>2 DEF Dispatch
  <2>2. \A h \in Groups \ {g} : queue'[h] = queue[h]
      BY <1>a, <2>1
  <2>3. CASE Live(g) /\ UNCHANGED <<entry, wk>>
    <3>1. Len(queue'[g]) > Len(queue[g])
        BY <1>a, <2>1
    <3>2. ~Leaving(entry[g])
        BY <2>3, <3>1 DEF NobodyMissed
    <3> QED
        BY <2>1, <2>2, <2>3, <3>2 DEF Served, Live, Alive, Leaving
  <2>4. ASSUME NEW w \in Workers, ~Live(g),
               IF entry[g] = NoWorker THEN wk[w].pc = "free" ELSE w = entry[g],
               wk' = [wk EXCEPT ![w] = Task("created", g)], entry' = [entry EXCEPT ![g] = w]
        PROVE  Served'
    <3>1. /\ entry'[g] = w /\ wk'[w] = Task("created", g) /\ w # NoWorker /\ ~Alive(w)
          /\ \A h \in Groups \ {g} : entry'[h] = entry[h]
          /\ \A x \in Workers \ {w} : wk'[x] = wk[x]
        BY <1>a, <2>4, SentinelAssumption DEF Live, Alive
    <3>2. Live(g)' /\ ~Leaving(entry[g])'
        BY <3>1 DEF Live, Alive, Leaving, Task
    <3>3. ASSUME running, NEW h \in Groups \ {g}, queue'[h] # <<>>
          PROVE  Live(h)' /\ ~Leaving(entry[h])'
      <4>1. Live(h) /\ ~Leaving(entry[h])
          BY <2>2, <3>3 DEF Served
      <4>2. entry[h] \in Workers \ {w}
          BY <3>1, <4>1, EntryGroup DEF Live
      <4> QED
          BY <3>1, <4>1, <4>2 DEF Live, Alive, Leaving
    <3> QED
        BY <2>1, <3>2, <3>3 DEF Served
  <2> QED
      BY <2>1, <2>3, <2>4
<1>3. CASE Answer
  <2>1. PICK g \in Groups : wk' = Told(g) /\ UNCHANGED <<queue, entry, running>>
      BY <1>3 DEF Answer
  <2>2. ASSUME NEW x \in Workers
        PROVE  wk'[x].pc = wk[x].pc /\ (Leaving(x)' => Leaving(x))
      BY <2>1, ToldKeeps DEF Leaving
  <2> QED
      BY <2>1, <2>2, ServedByOthers DEF Leaving
<1>4. CASE HandleStop
  <2>1. PICK g \in Groups :
          /\ queue' = [queue EXCEPT ![g] = <<>>]
          /\ wk' = IF Live(g) THEN [Told(g) EXCEPT ![entry[g]] = Cancelled(@)] ELSE Told(g)
          /\ UNCHANGED <<entry, running>>
      BY <1>4 DEF HandleStop
  <2>2. ASSUME NEW x \in Workers, ~(Live(g) /\ x = entry[g])
        PROVE  wk'[x].pc = wk[x].pc /\ wk'[x].cancel = wk[x].cancel
               /\ wk'[x].expired = wk[x].expired
    <3>1. Told(g) \in [Workers -> WorkerState]
        BY <1>a, ToldShape
    <3>2. wk'[x] = Told(g)[x]
        BY <2>1, <2>2, <3>1
    <3> QED
        BY <3>2, ToldKeeps
  <2>3. ASSUME NEW h \in Groups, queue'[h] # <<>>
        PROVE  h # g /\ queue[h] # <<>> /\ entry'[h] = entry[h]
      BY <1>a, <2>1, <2>3
  <2>4. ASSUME NEW h \in Groups, queue'[h] # <<>>, Live(h), ~Leaving(entry[h])
        PROVE  Alive(entry[h])' /\ ~Leaving(entry[h])'
    <3>1. /\ entry[h] \in Workers /\ wk[entry[h]].grp = h /\ Alive(entry[h])
          /\ entry'[h] = entry[h]
        BY <2>3, <2>4, EntryGroup DEF Live
    <3>2. Live(g) => entry[g] \in Workers /\ wk[entry[g]].grp = g
        BY EntryGroup DEF Live
    <3>3. ~(Live(g) /\ entry[h] = entry[g])
        BY <2>3, <2>4, <3>1, <3>2
    <3>4. /\ wk'[entry[h]].pc = wk[entry[h]].pc
          /\ wk'[entry[h]].cancel = wk[entry[h]].cancel
          /\ wk'[entry[h]].expired = wk[entry[h]].expired
        BY <2>2, <3>1, <3>3
    <3> QED
        BY <2>4, <3>1, <3>4 DEF Alive, Leaving
  <2> QED
      BY <2>1, <2>3, <2>4, ServedKept
<1>5. CASE Shutdown
    BY <1>5 DEF Shutdown, Served
<1>6. ASSUME NEW w \in Workers, WorkerStart(w) \/ WorkerWake(w) \/ ProcessDone(w)
      PROVE  Served'
  <2>1. /\ wk[w].grp \in Groups /\ Alive(w) /\ TakeNext(w) /\ UNCHANGED <<entry, running>>
      BY <1>6, <1>a DEF WorkerStart, WorkerWake, ProcessDone, TaskShape, Alive
  <2>2. /\ \A x \in Workers \ {w} : wk'[x] = wk[x]
        /\ Alive(w)' /\ wk'[w].cancel = wk[w].cancel
      BY <1>a, <2>1, TakeNextStep DEF Alive
  <2>3. wk'[w].expired = wk[w].expired
    <3>1. CASE queue[wk[w].grp] # <<>>
        BY <1>a, <2>1, <3>1 DEF TakeNext, WorkerState
    <3>2. CASE queue[wk[w].grp] = <<>>
        BY <1>a, <2>1, <3>2 DEF TakeNext, WorkerState
    <3> QED
        BY <3>1, <3>2
  <2>4. \A h \in Groups : queue'[h] # <<>> => queue[h] # <<>>
    <3>1. CASE queue[wk[w].grp] # <<>>
        BY <1>a, <2>1, <3>1 DEF TakeNext
    <3>2. CASE queue[wk[w].grp] = <<>>
        BY <1>a, <2>1, <3>2 DEF TakeNext
    <3> QED
        BY <3>1, <3>2
  <2>5. \A h \in Groups : Live(h) => entry[h] \in Workers
      BY EntryGroup DEF Live
  <2>6. \A x \in Workers : Alive(x) /\ ~Leaving(x) => Alive(x)' /\ ~Leaving(x)'
      BY <2>2, <2>3 DEF Alive, Leaving
  <2>7. ASSUME NEW h \in Groups, queue'[h] # <<>>
        PROVE  /\ queue[h] # <<>> /\ entry'[h] = entry[h]
               /\ Live(h) /\ ~Leaving(entry[h]) => Alive(entry[h])' /\ ~Leaving(entry[h])'
      BY <2>1, <2>4, <2>5, <2>6, <2>7 DEF Live
  <2> QED
      BY <2>1, <2>7, ServedKept
<1>7. ASSUME NEW w \in Workers, IdleExit(w) \/ ProcessCancelled(w)
      PROVE  Served'
  <2>1. Alive(w) /\ Leaving(w) /\ Exit(w)
      BY <1>7 DEF IdleExit, ProcessCancelled, Alive, Leaving
  <2>2. /\ UNCHANGED <<queue, running>> /\ \A x \in Workers \ {w} : wk'[x] = wk[x]
        /\ \A h \in Groups \ {wk[w].grp} : entry'[h] = entry[h]
      BY <2>1, <1>a DEF Exit
  <2> QED
      BY <2>1, <2>2, ServedByExit
<1>8. ASSUME NEW w \in Workers, WorkerNeverRan(w)
      PROVE  Served'
  <2>1. /\ Alive(w) /\ Leaving(w) /\ UNCHANGED <<queue, running, entry>>
        /\ \A x \in Workers \ {w} : wk'[x] = wk[x]
      BY <1>8, <1>a DEF WorkerNeverRan, Alive, Leaving
  <2> QED
      BY <2>1, ServedByExit
<1>9. ASSUME NEW w \in Workers, IdleTimer(w)
      PROVE  Served'
  <2>1. /\ queue[wk[w].grp] = <<>> /\ UNCHANGED <<queue, running, entry>>
        /\ \A x \in Workers \ {w} : wk'[x] = wk[x]
      BY <1>9, <1>a DEF IdleTimer, NobodyMissed
  <2>2. \A h \in Groups : queue[h] # <<>> /\ Live(h) => entry[h] \in Workers \ {w}
      BY <2>1, EntryGroup DEF Live
  <2>3. ASSUME NEW h \in Groups, queue'[h] # <<>>, Live(h), ~Leaving(entry[h])
        PROVE  Alive(entry[h])' /\ ~Leaving(entry[h])'
    <3>1. entry[h] \in Workers \ {w} /\ entry'[h] = entry[h] /\ entry' = entry
        BY <2>1, <2>2, <2>3
    <3>2. wk'[entry[h]] = wk[entry[h]] /\ Alive(entry[h])
        BY <2>1, <2>3, <3>1 DEF Live
    <3> QED
        BY <2>3, <3>1, <3>2 DEF Alive, Leaving
  <2> QED
      BY <2>1, <2>3, ServedKept
<1>10. ASSUME NEW w \in Workers, ProcessSwallows(w) \/ AskUser(w) \/ AskReturns(w)
       PROVE  Served'
  <2>1. UNCHANGED <<queue, entry, running>>
      BY <1>10 DEF ProcessSwallows, AskUser, AskReturns
  <2>2. \A x \in Workers \ {w} : wk'[x] = wk[x]
      BY <1>10, <1>a DEF ProcessSwallows, AskUser, AskReturns
  <2>3. /\ wk'[w].pc = wk[w].pc /\ wk'[w].expired = wk[w].expired
        /\ wk'[w].cancel => wk[w].cancel
    <3>1. CASE ProcessSwallows(w)
        BY <1>a, <3>1 DEF ProcessSwallows, WorkerState
    <3>2. CASE AskUser(w)
        BY <1>a, <3>2 DEF AskUser, WorkerState
    <3>3. CASE AskReturns(w)
        BY <1>a, <3>3 DEF AskReturns, WorkerState
    <3> QED
        BY <1>10, <3>1, <3>2, <3>3
  <2>4. \A x \in Workers : wk'[x].pc = wk[x].pc /\ (Leaving(x)' => Leaving(x))
      BY <2>2, <2>3 DEF Leaving
  <2> QED
      BY <2>1, <2>4, ServedByOthers
<1> QED
    BY <1>1, <1>2, <1>3, <1>4, <1>5, <1>6, <1>7, <1>8, <1>9, <1>10 DEF Next, WorkerStep

\* A message waits without a worker only because it was dispatched to one that was
\* cancelled, or whose idle timer had fired, or because that timer fired when the message
\* was there: PerGroupDispatcher.dispatch asks task.done() and nothing else.
THEOREM QueuedServed ==
    Init /\ [][Next /\ NobodyMissed]_vars => []QueuedHasWorker
<1>1. Init => Served
    BY DEF Init, Served
<1>2. IInv /\ Served /\ [Next /\ NobodyMissed]_vars => Served'
  <2>1. IInv /\ Served /\ UNCHANGED vars => Served'
      BY ServedByOthers DEF vars, Leaving
  <2> QED
      BY <2>1, ServedStep
<1>3. Served => QueuedHasWorker
    BY DEF Served, QueuedHasWorker
<1>4. [Next /\ NobodyMissed]_vars => [Next]_vars
    OBVIOUS
<1> QED
    BY <1>1, <1>2, <1>3, <1>4, InitInv, StepInv, PTL
=============================================================================

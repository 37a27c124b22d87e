-------------------------- MODULE GroupDispatcher --------------------------
(***************************************************************************)
(* The inbound half of the message bus, AgentLoop.run and                  *)
(* PerGroupDispatcher: src/src/bus/queue.py, src/src/agent/loop.py,        *)
(* src/src/session/group_dispatcher.py.                                    *)
(*                                                                         *)
(* Channels publish into a bounded queue that drops its oldest entry when  *)
(* full.  One consumer, AgentLoop.run, takes messages in order; a chat     *)
(* message is put in the queue of its group and a worker task is created   *)
(* when the group has none, and /stop empties that queue and cancels the   *)
(* worker.  Workers are asyncio tasks: one is created, runs when the event *)
(* loop gets to it, and a cancel() or a timer that fires only takes effect *)
(* at the worker's next step.  Each action is the code between two awaits. *)
(*                                                                         *)
(* A turn that runs the GenVer loop may ask its user a question            *)
(* (src/src/agent/loop_genver.py): run then hands the next message of the  *)
(* session to the waiting turn instead of dispatching it.  The question is *)
(* registered before its checkpoint is written: when that write fails, the *)
(* turn goes on without waiting and the question stays.                    *)
(*                                                                         *)
(* Worker ids are reused: an id stands for the task while the task exists, *)
(* and _workers may still hold the id of a task that is done.              *)
(***************************************************************************)
EXTENDS Naturals, Sequences

CONSTANTS
    Groups,       \* session keys
    Workers,      \* ids for worker tasks
    NoWorker,     \* _workers has no entry for the group
    NoGroup,      \* the group of an id no task has
    NoMessage,    \* the worker is not processing
    MaxInbound,   \* _MAX_QUEUE_SIZE, the bus's inbound bound
    MaxMessages   \* bound of the model: how many messages channels publish

ASSUME SentinelAssumption == NoWorker \notin Workers /\ NoGroup \notin Groups
ASSUME BoundsAssumption ==
    /\ MaxInbound \in Nat \ {0}
    /\ MaxMessages \in Nat

\* A message is its place in the order of publication, its group, and
\* whether its text is /stop.
Message == [n : 1 .. MaxMessages, grp : Groups, stop : BOOLEAN]

ASSUME NoMessageAssumption == NoMessage \notin Message

VARIABLES
    published,    \* messages published so far
    inbound,      \* MessageBus.inbound
    running,      \* AgentLoop.run has not left its loop
    stopping,     \* run is suspended in _handle_stop (subagents being cancelled)
    queue,        \* PerGroupDispatcher._queues
    entry,        \* PerGroupDispatcher._workers
    wk,           \* the worker tasks
    asker,        \* LoopGenVer._pending_questions: the worker whose turn asked
    stale,        \* or a question there that no turn waits for, and its future
    lastStop      \* history: the last /stop handled for each group

vars == <<published, inbound, running, stopping, queue, entry, wk, asker, stale,
          lastStop>>

\* pc: "free" (no such task), "created" (not yet run), "idle" (in queue.get
\* under wait_for), "busy" (in self._process(msg)), "done" (task over).
\* cancel: cancel() was called, the CancelledError is not yet delivered.
\* expired: the idle timer fired, wait_for has not yet raised.
\* ask: the future a question of this turn waits for ("none", pending,
\* resolved with an answer, or cancelled with the task).
WorkerState ==
    [pc : {"free", "created", "idle", "busy", "done"}, grp : Groups \cup {NoGroup},
     msg : Message \cup {NoMessage}, cancel : BOOLEAN, expired : BOOLEAN,
     ask : {"none", "pending", "answered", "cancelled"}]

TypeOK ==
    /\ published \in 0 .. MaxMessages
    /\ inbound \in Seq(Message)
    /\ Len(inbound) <= MaxInbound
    /\ running \in BOOLEAN
    /\ stopping \in BOOLEAN
    /\ queue \in [Groups -> Seq(Message)]
    /\ entry \in [Groups -> Workers \cup {NoWorker}]
    /\ wk \in [Workers -> WorkerState]
    /\ asker \in [Groups -> Workers \cup {NoWorker}]
    /\ stale \in [Groups -> {"none", "pending", "done"}]
    /\ lastStop \in [Groups -> 0 .. MaxMessages]

-----------------------------------------------------------------------------
Alive(w)  == wk[w].pc \in {"created", "idle", "busy"}     \* not task.done()
Live(g)   == entry[g] # NoWorker /\ Alive(entry[g])

Task(pc, g) ==
    [pc |-> pc, grp |-> g, msg |-> NoMessage, cancel |-> FALSE,
     expired |-> FALSE, ask |-> "none"]

Init ==
    /\ published = 0
    /\ inbound = <<>>
    /\ running = TRUE
    /\ stopping = FALSE
    /\ queue = [g \in Groups |-> <<>>]
    /\ entry = [g \in Groups |-> NoWorker]
    /\ wk = [w \in Workers |-> Task("free", NoGroup)]
    /\ asker = [g \in Groups |-> NoWorker]
    /\ stale = [g \in Groups |-> "none"]
    /\ lastStop = [g \in Groups |-> 0]

-----------------------------------------------------------------------------
(* MessageBus *)

\* mutant: a full queue takes one more message.
PublishOverFull(g, stop) ==
    /\ published < MaxMessages
    /\ published' = published + 1
    /\ inbound' = Append(inbound, [n |-> published + 1, grp |-> g, stop |-> stop])
    /\ UNCHANGED <<running, stopping, queue, entry, wk, asker, stale, lastStop>>

\* publish_inbound: a full queue gives up its oldest message, never the new one.
Publish(g, stop) ==
    LET m == [n |-> published + 1, grp |-> g, stop |-> stop] IN
    /\ published < MaxMessages
    /\ published' = published + 1
    /\ inbound' = Append(IF Len(inbound) = MaxInbound THEN Tail(inbound)
                         ELSE inbound, m)
    /\ UNCHANGED <<running, stopping, queue, entry, wk, asker, stale, lastStop>>

-----------------------------------------------------------------------------
(* AgentLoop.run and PerGroupDispatcher.dispatch, cancel_group, cancel_all *)

\* task.cancel(): an unresolved future the task waits for is cancelled with it.
Cancelled(t) ==
    [t EXCEPT !.cancel = TRUE, !.ask = IF @ = "pending" THEN "cancelled" ELSE @]

\* The question run finds for the session still waits for its answer, and so
\* does a turn.
Waited(g) == asker[g] # NoWorker /\ wk[asker[g]].ask = "pending"

\* The future of the question run finds for the session is not done.
Asking(g) == Waited(g) \/ stale[g] = "pending"

\* The tasks, and the question nobody waits for, once the answer is set.
Told(g) == IF Waited(g) THEN [wk EXCEPT ![asker[g]].ask = "answered"] ELSE wk

Settled(g) == [stale EXCEPT ![g] = IF @ = "pending" THEN "done" ELSE @]

\* run takes the next message.
Consume(m) ==
    /\ running /\ ~stopping
    /\ inbound # <<>> /\ m = Head(inbound)
    /\ inbound' = Tail(inbound)

\* A chat message goes to its group's queue, and a group without a live task
\* gets one.  No await here suspends: the group's queue is unbounded.  A
\* question that is no longer pending is forgotten.
Dispatch ==
    \E g \in Groups, m \in Message :
        /\ Consume(m) /\ m.grp = g /\ ~m.stop /\ ~Asking(g)
        /\ asker' = [asker EXCEPT ![g] = NoWorker]
        /\ stale' = [stale EXCEPT ![g] = "none"]
        /\ queue' = [queue EXCEPT ![g] = Append(@, m)]
        /\ \/ /\ Live(g)
              /\ UNCHANGED <<entry, wk>>
           \/ /\ ~Live(g)
              /\ \E w \in Workers :
                    /\ IF entry[g] = NoWorker THEN wk[w].pc = "free"
                                              ELSE w = entry[g]
                    /\ wk' = [wk EXCEPT ![w] = Task("created", g)]
                    /\ entry' = [entry EXCEPT ![g] = w]
        /\ UNCHANGED <<published, running, stopping, lastStop>>

\* A chat message that finds a pending question is its answer, also when no turn
\* waits for it.
Answer ==
    \E g \in Groups, m \in Message :
        /\ Consume(m) /\ m.grp = g /\ ~m.stop /\ Asking(g)
        /\ wk' = Told(g) /\ stale' = Settled(g)
        /\ UNCHANGED <<published, running, stopping, queue, entry, asker, lastStop>>

\* mutant: cancel_group pops the entry of the worker it cancels.
HandleStopPops ==
    \E g \in Groups, m \in Message :
        /\ Consume(m) /\ m.grp = g /\ m.stop
        /\ queue' = [queue EXCEPT ![g] = <<>>]
        /\ wk' = IF Live(g) THEN [wk EXCEPT ![entry[g]] = Cancelled(@)] ELSE wk
        /\ entry' = [entry EXCEPT ![g] = NoWorker]
        /\ lastStop' = [lastStop EXCEPT ![g] = m.n]
        /\ UNCHANGED <<published, running, stopping, asker, stale>>

\* mutant: cancel_group does not drain the queue.
HandleStopKeepsQueue ==
    \E g \in Groups, m \in Message :
        /\ Consume(m) /\ m.grp = g /\ m.stop
        /\ wk' = IF Live(g) THEN [wk EXCEPT ![entry[g]] = Cancelled(@)] ELSE wk
        /\ lastStop' = [lastStop EXCEPT ![g] = m.n]
        /\ UNCHANGED <<published, running, stopping, queue, entry, asker, stale>>

\* /stop answers a pending question with "abort" and then, like any /stop,
\* runs _handle_stop: cancel_group drains the queue and cancels the worker,
\* which keeps its entry; cancel_by_session suspends run when the session has
\* subagent tasks to wait for.
HandleStop ==
    \E g \in Groups, m \in Message :
        /\ Consume(m) /\ m.grp = g /\ m.stop
        /\ queue' = [queue EXCEPT ![g] = <<>>]
        /\ wk' = IF Live(g) THEN [Told(g) EXCEPT ![entry[g]] = Cancelled(@)]
                            ELSE Told(g)
        /\ IF Asking(g) THEN asker' = asker /\ stale' = Settled(g)
           ELSE /\ asker' = [asker EXCEPT ![g] = NoWorker]
                /\ stale' = [stale EXCEPT ![g] = "none"]
        /\ lastStop' = [lastStop EXCEPT ![g] = m.n]
        /\ stopping' \in BOOLEAN
        /\ UNCHANGED <<published, running, entry>>

StopReturns ==
    /\ stopping
    /\ stopping' = FALSE
    /\ UNCHANGED <<published, inbound, running, queue, entry, wk, asker,
                   stale, lastStop>>

\* run leaves its loop (stop(), its task is cancelled, or the reply to a question
\* cannot be stored); its finally clause calls cancel_all, which also forgets
\* every worker.
Shutdown ==
    /\ running
    /\ running' = FALSE
    /\ stopping' = FALSE
    /\ wk' = [x \in Workers |->
                IF \E g \in Groups : entry[g] = x
                THEN IF Alive(x) THEN Cancelled(wk[x]) ELSE Task("free", NoGroup)
                ELSE wk[x]]
    /\ entry' = [g \in Groups |-> NoWorker]
    /\ UNCHANGED <<published, inbound, queue, asker, stale, lastStop>>

-----------------------------------------------------------------------------
(* PerGroupDispatcher._worker *)

\* mutant: a LifoQueue.
TakeLast(w) ==
    LET g == wk[w].grp  k == Len(queue[g]) IN
    \/ /\ queue[g] # <<>>
       /\ wk' = [wk EXCEPT ![w].pc = "busy", ![w].msg = queue[g][k]]
       /\ queue' = [queue EXCEPT ![g] = SubSeq(@, 1, k - 1)]
    \/ /\ queue[g] = <<>>
       /\ wk' = [wk EXCEPT ![w].pc = "idle", ![w].msg = NoMessage]
       /\ UNCHANGED queue

\* The head of the loop: take the next message at once, or wait for one.
TakeNext(w) ==
    LET g == wk[w].grp IN
    \/ /\ queue[g] # <<>>
       /\ wk' = [wk EXCEPT ![w].pc = "busy", ![w].msg = Head(queue[g])]
       /\ queue' = [queue EXCEPT ![g] = Tail(@)]
    \/ /\ queue[g] = <<>>
       /\ wk' = [wk EXCEPT ![w].pc = "idle", ![w].msg = NoMessage]
       /\ UNCHANGED queue

\* mutant: ask_user without its finally.
ForgetNothing(w) == w \in Workers /\ UNCHANGED asker

\* ask_user's finally: forget the question unless another replaced it.
Forget(w) ==
    asker' = [g \in Groups |-> IF asker[g] = w THEN NoWorker ELSE asker[g]]

\* The outer finally: the entry of the group is popped, whoever it names.
Exit(w) ==
    /\ entry' = [entry EXCEPT ![wk[w].grp] = NoWorker]
    /\ wk' = [wk EXCEPT ![w] = Task("free", NoGroup)]
    /\ UNCHANGED <<published, inbound, running, stopping, queue, stale, lastStop>>

\* The task runs for the first time.
WorkerStart(w) ==
    /\ wk[w].pc = "created" /\ ~wk[w].cancel
    /\ TakeNext(w)
    /\ UNCHANGED <<published, inbound, running, stopping, entry, asker,
                   stale, lastStop>>

\* Cancelled before it ever ran: the coroutine's finally is never entered, and
\* _workers keeps a task that is done (or nothing, after cancel_all).
WorkerNeverRan(w) ==
    /\ wk[w].pc = "created" /\ wk[w].cancel
    /\ wk' = [wk EXCEPT ![w] = IF entry[@.grp] = w THEN Task("done", @.grp)
                                                   ELSE Task("free", NoGroup)]
    /\ UNCHANGED <<published, inbound, running, stopping, queue, entry, asker,
                   stale, lastStop>>

\* A message arrived while the worker was waiting.
WorkerWake(w) ==
    /\ wk[w].pc = "idle" /\ ~wk[w].cancel /\ ~wk[w].expired
    /\ queue[wk[w].grp] # <<>>
    /\ TakeNext(w)
    /\ UNCHANGED <<published, inbound, running, stopping, entry, asker,
                   stale, lastStop>>

\* WORKER_IDLE_TIMEOUT passes: the timer cancels the pending get.
IdleTimer(w) ==
    /\ wk[w].pc = "idle" /\ ~wk[w].expired
    /\ wk' = [wk EXCEPT ![w].expired = TRUE]
    /\ UNCHANGED <<published, inbound, running, stopping, queue, entry, asker,
                   stale, lastStop>>

\* wait_for raises TimeoutError (the worker breaks) or CancelledError: the
\* worker exits, whatever was queued since the timer or the cancel.
IdleExit(w) ==
    /\ wk[w].pc = "idle" /\ (wk[w].expired \/ wk[w].cancel)
    /\ Exit(w)
    /\ UNCHANGED asker

\* mutant: an error in self._process ends the worker.
ProcessDoneExits(w) ==
    /\ wk[w].pc = "busy" /\ wk[w].ask = "none" /\ ~wk[w].cancel
    /\ Exit(w)
    /\ UNCHANGED asker

\* self._process returns or raises an Exception, which is logged.
ProcessDone(w) ==
    /\ wk[w].pc = "busy" /\ wk[w].ask = "none" /\ ~wk[w].cancel
    /\ TakeNext(w)
    /\ UNCHANGED <<published, inbound, running, stopping, entry, asker,
                   stale, lastStop>>

\* The CancelledError leaves self._process, through ask_user if it is there.
ProcessCancelled(w) ==
    /\ wk[w].pc = "busy" /\ wk[w].cancel
    /\ Exit(w)
    /\ IF wk[w].ask = "none" THEN UNCHANGED asker ELSE Forget(w)

\* The turn was inside SubagentExecutor.wait or kill, which swallow the
\* CancelledError: the turn goes on as if it had not been cancelled.
ProcessSwallows(w) ==
    /\ wk[w].pc = "busy" /\ wk[w].ask = "none" /\ wk[w].cancel
    /\ wk' = [wk EXCEPT ![w].cancel = FALSE]
    /\ UNCHANGED <<published, inbound, running, stopping, queue, entry, asker,
                   stale, lastStop>>

\* ask_user registers a future under the session, in the place of any other,
\* and waits for it.
AskUser(w) ==
    /\ wk[w].pc = "busy" /\ wk[w].ask = "none" /\ ~wk[w].cancel
    /\ wk' = [wk EXCEPT ![w].ask = "pending"]
    /\ asker' = [asker EXCEPT ![wk[w].grp] = w]
    /\ stale' = [stale EXCEPT ![wk[w].grp] = "none"]
    /\ UNCHANGED <<published, inbound, running, stopping, queue, entry, lastStop>>

\* The checkpoint after the registration cannot be written: ask_user raises
\* outside its try, and the turn goes on or ends.
AskFails(w) ==
    /\ wk[w].pc = "busy" /\ wk[w].ask = "none" /\ ~wk[w].cancel
    /\ asker' = [asker EXCEPT ![wk[w].grp] = NoWorker]
    /\ stale' = [stale EXCEPT ![wk[w].grp] = "pending"]
    /\ UNCHANGED <<published, inbound, running, stopping, queue, entry, wk, lastStop>>

\* ask_user returns the answer, or "abort" after five minutes without one.
AskReturns(w) ==
    /\ wk[w].pc = "busy" /\ wk[w].ask \in {"pending", "answered"} /\ ~wk[w].cancel
    /\ wk' = [wk EXCEPT ![w].ask = "none"]
    /\ Forget(w)
    /\ UNCHANGED <<published, inbound, running, stopping, queue, entry,
                   stale, lastStop>>

WorkerStep(w) ==
    \/ WorkerStart(w) \/ WorkerNeverRan(w) \/ WorkerWake(w) \/ IdleExit(w)
    \/ ProcessDone(w) \/ ProcessCancelled(w) \/ AskReturns(w)

Next ==
    \/ \E g \in Groups, stop \in BOOLEAN : Publish(g, stop)
    \/ Dispatch \/ Answer \/ HandleStop \/ StopReturns \/ Shutdown
    \/ \E w \in Workers :
          \/ WorkerStep(w) \/ IdleTimer(w) \/ ProcessSwallows(w)
          \/ AskUser(w) \/ AskFails(w)

Spec == Init /\ [][Next]_vars

\* The event loop runs every task that is ready; run keeps consuming; a turn
\* ends, however often it asks (TurnLifecycle catches its failures, provider
\* calls and questions time out, loops are capped).  Users, timers and
\* shutdown owe nothing.
Fairness ==
    /\ WF_vars(Dispatch \/ Answer \/ HandleStop) /\ WF_vars(StopReturns)
    /\ \A w \in Workers : WF_vars(WorkerStep(w)) /\ SF_vars(ProcessDone(w))

FairSpec == Spec /\ Fairness
-----------------------------------------------------------------------------
(* What must hold *)

\* At most one live worker task per session: the messages of one session are
\* never processed concurrently (PerGroupDispatcher's reason to exist), although
\* _workers is written by dispatch, by cancel_all and by every worker that ends.
OneWorkerPerGroup ==
    \A v, w \in Workers :
        Alive(v) /\ Alive(w) /\ wk[v].grp = wk[w].grp => v = w

\* What the user sent before a /stop never starts after that /stop was handled
\* (cancel_group), even when the turn that was running ignores its cancellation.
StopDiscardsEarlier ==
    [][\A w \in Workers :
          wk'[w].msg \notin {NoMessage, wk[w].msg}
             => wk'[w].msg.n > lastStop[wk'[w].grp]]_vars

\* A registered question that a turn waits for belongs to the turn its session
\* is running now, and is pending only while that turn can still take the
\* answer; a turn that waits for an answer is always the registered one.  So no
\* turn waits for a reply that run would dispatch, or give to another question.
\* The exception is a question whose checkpoint failed (AskFails): no turn waits
\* for it, and it is never registered beside one that a turn waits for
\* (ask_user, run).
QuestionOwned ==
    /\ \A g \in Groups : asker[g] # NoWorker =>
          LET t == wk[asker[g]] IN
          /\ t.pc = "busy" /\ t.grp = g /\ t.ask # "none"
          /\ stale[g] = "none"
    /\ \A w \in Workers : wk[w].ask = "pending" =>
          asker[wk[w].grp] = w /\ ~wk[w].cancel

\* The dispatcher implements SerialGroups: per session a FIFO queue, one active
\* message, the next one only after it; workers, their births, idle exits and
\* cancellations are invisible.
Busy(g) == {w \in Workers : wk[w].pc = "busy" /\ wk[w].grp = g}

Processed ==
    [g \in Groups |-> IF Busy(g) = {} THEN NoMessage
                      ELSE wk[CHOOSE w \in Busy(g) : TRUE].msg]

Serial == INSTANCE SerialGroups WITH
    Messages <- Message, pending <- queue, active <- Processed

ImplementsSerial == Serial!SSpec

\* A message that is queued behind a turn (or a worker about to start) that has
\* not been cancelled is eventually started or discarded, unless run shuts down:
\* a failing or swallowing turn never costs the session its queue.
Queued(g, n) == \E i \in 1 .. Len(queue[g]) : queue[g][i].n = n

HealthyDelivery ==
    \A g \in Groups, n \in 1 .. MaxMessages :
        (/\ Queued(g, n) /\ Live(g)
         /\ wk[entry[g]].pc \in {"created", "busy"} /\ ~wk[entry[g]].cancel)
            ~> (~Queued(g, n) \/ ~running)

\* Refuted: the worker that is there drains the queue (the docstring of _worker).
\* A message dispatched while a cancelled or timed-out worker has not exited yet
\* waits, with no worker, for the next message of its session.
QueuedHasWorker ==
    running => \A g \in Groups : queue[g] # <<>> => Live(g)
=============================================================================

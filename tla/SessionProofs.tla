---------------------------- MODULE SessionProofs ----------------------------
(***************************************************************************)
(* Proofs about SessionLog, for any number of objects, consolidations and  *)
(* messages, and any thresholds.                                           *)
(*                                                                         *)
(* SessionManager counts in one number what it has written for a session,  *)
(* whichever object it writes.  That is right as long as the objects in    *)
(* use hold the same messages (Agree): then what is appended is what the   *)
(* file lacks.  The count itself never goes wrong, even when objects       *)
(* diverged (Counted); but then it says nothing about what was written.    *)
(***************************************************************************)
EXTENDS SessionLog, FiniteSetTheorems, SequenceTheorems, TLAPS

Messages == 1 .. MaxMessages
Session == [msgs : Seq(Messages), cursor : Nat]
SessionFile == [msgs : Seq(Messages), cursor : Nat, torn : BOOLEAN]
TurnState == [at : {"idle", "begun", "inferring", "waiting", "archiving"},
              obj : Objects \cup {NoObject}, lock : Locks \cup {Nobody}, old : SUBSET Messages]
JobState == [at : {"none", "waiting", "calling"}, obj : Objects \cup {NoObject},
             lock : Locks \cup {Nobody}, old : SUBSET Messages, target : Nat]
ExitState == [at : {"none", "calling", "done"}, obj : Objects \cup {NoObject},
              old : SUBSET Messages]

\* What is stored.
StoreTypes ==
    /\ up \in BOOLEAN /\ heap \in [Objects -> Session] /\ cached \in Objects \cup {NoObject}
    /\ file \in SessionFile /\ persisted \in Nat /\ appended \in 0 .. Compact
    /\ archived \subseteq Messages /\ next \in 1 .. MaxMessages + 1 /\ forked \in BOOLEAN

\* Who is at work.
ControlTypes ==
    /\ turn \in TurnState /\ jobs \in [Jobs -> JobState] /\ exit \in ExitState
    /\ flag \in BOOLEAN /\ dict \in Locks \cup {Nobody}
    /\ holder \in [Locks -> Jobs \cup {Nobody, "new"}]

\* Nothing is longer than the messages there were.
Sized ==
    /\ \A o \in Objects : Len(heap[o].msgs) < next
    /\ Len(file.msgs) < next /\ persisted < next

\* Who works has an object, who needs the lock has asked for it, and the
\* command line exits between turns.
Placed ==
    /\ turn.at = "idle" <=> turn.obj = NoObject
    /\ turn.at \in {"waiting", "archiving"} <=> turn.lock # Nobody
    /\ \A j \in Jobs : /\ jobs[j].at = "none" <=> jobs[j].obj = NoObject
                       /\ jobs[j].at = "none" <=> jobs[j].lock = Nobody
    /\ exit.at = "calling" <=> exit.obj # NoObject
    /\ turn.at = "idle" \/ exit.at = "none"

\* A lock is held by who archives under it, and by nobody else.
Locked ==
    /\ \A j \in Jobs : jobs[j].at = "calling" => holder[jobs[j].lock] = j
    /\ \A l \in Locks :
          /\ holder[l] \in Jobs => /\ jobs[holder[l]].at = "calling"
                                   /\ jobs[holder[l]].lock = l
          /\ holder[l] = "new" <=> turn.at = "archiving" /\ turn.lock = l

\* What a reader of the file gets.
Present == IF file.torn THEN <<>> ELSE file.msgs

\* The count of persisted messages is right while an object is in use.
Counted ==
    /\ file.torn => persisted = 0
    /\ Writers # {} => persisted = Len(Present)

\* The messages before the cursor of s are in the archive a.
Summarised(s, a) ==
    s.cursor <= Len(s.msgs) /\ \A i \in 1 .. s.cursor : s.msgs[i] \in a

\* The objects in use hold what the file holds.
Agree ==
    /\ \A o \in Writers : heap[o].msgs = Present /\ Summarised(heap[o], archived)
    /\ Summarised(file, archived)

\* What a consolidation will move the cursor past is what it archives.
Planned ==
    \A j \in Jobs : jobs[j].at = "calling" /\ jobs[j].obj \in Writers =>
        /\ jobs[j].target <= Len(heap[jobs[j].obj].msgs)
        /\ \A i \in 1 .. jobs[j].target :
              heap[jobs[j].obj].msgs[i] \in archived \cup jobs[j].old

\* What /new will clear is what it archives.
Promised ==
    turn.at = "archiving" =>
        \A i \in 1 .. Len(heap[turn.obj].msgs) :
            heap[turn.obj].msgs[i] \in archived \cup turn.old

LogInv ==
    /\ StoreTypes /\ ControlTypes /\ Sized /\ Placed /\ Locked /\ Counted
    /\ ~forked => Agree /\ Planned /\ Promised
-----------------------------------------------------------------------------
(* What is stored *)

\* s is a beginning of t.
Begins(s, t) == Len(s) <= Len(t) /\ \A i \in 1 .. Len(s) : t[i] = s[i]

\* One message more.
LEMMA AppendedFacts ==
    ASSUME NEW s \in Seq(Messages), NEW x \in Messages
    PROVE  /\ Append(s, x) \in Seq(Messages) /\ Len(Append(s, x)) = Len(s) + 1
           /\ Begins(s, Append(s, x)) /\ Append(s, x) # s
<1>1. Append(s, x) \in Seq(Messages) /\ Len(Append(s, x)) = Len(s) + 1
      /\ \A i \in 1 .. Len(s) : Append(s, x)[i] = s[i]
    OBVIOUS
<1>2. Len(s) \in Nat
    OBVIOUS
<1> QED
    BY <1>1, <1>2 DEF Begins

\* What the file lacks is the messages beyond its length.
LEMMA CompletedFacts ==
    ASSUME NEW s \in Seq(Messages), NEW t \in Seq(Messages), Len(s) <= Len(t)
    PROVE  LET u == s \o SubSeq(t, Len(s) + 1, Len(t))
           IN  u \in Seq(Messages) /\ Len(u) = Len(t) /\ (Begins(s, t) => u = t)
<1> DEFINE d == SubSeq(t, Len(s) + 1, Len(t))
           u == s \o d
<1>1. Len(s) \in Nat /\ Len(t) \in Nat
    OBVIOUS
<1>2. d \in Seq(Messages) /\ Len(d) = Len(t) - Len(s)
      /\ \A i \in 1 .. Len(t) - Len(s) : d[i] = t[Len(s) + i]
  <2>1. Len(s) + 1 \in 1 .. Len(t) + 1 /\ Len(t) \in Len(s) .. Len(t)
      BY <1>1
  <2>2. d \in Seq(Messages)
      BY <1>1
  <2>3. Len(d) = Len(t) - Len(s)
      BY <1>1
  <2>4. ASSUME NEW i \in 1 .. Len(t) - Len(s) PROVE d[i] = t[Len(s) + i]
      BY <1>1
  <2> QED
      BY <2>2, <2>3, <2>4
<1>3. u \in Seq(Messages) /\ Len(u) = Len(t)
  <2> HIDE DEF d
  <2> QED
      BY <1>1, <1>2
<1>4. ASSUME Begins(s, t) PROVE u = t
  <2>1. ASSUME NEW i \in 1 .. Len(t) PROVE u[i] = t[i]
    <3> HIDE DEF d
    <3>1. CASE i <= Len(s)
      <4>1. u[i] = s[i]
          BY <1>1, <1>2, <3>1
      <4> QED
          BY <4>1, <3>1, <1>1, <1>4 DEF Begins
    <3>2. CASE i > Len(s)
      <4>1. i - Len(s) \in 1 .. Len(t) - Len(s)
          BY <1>1, <3>2
      <4>2. u[i] = d[i - Len(s)]
          BY <1>1, <1>2, <3>2
      <4>3. d[i - Len(s)] = t[Len(s) + (i - Len(s))]
          BY <4>1, <1>2
      <4> QED
          BY <4>2, <4>3, <1>1
    <3>3. i <= Len(s) \/ i > Len(s)
        BY <1>1
    <3> HIDE DEF u
    <3> QED
        BY <3>1, <3>2, <3>3
  <2> HIDE DEF u
  <2> QED
      BY <2>1, <1>3, SeqEqual
<1> QED
    BY <1>3, <1>4

\* The messages of a slice of a log.
LEMMA IdsFacts ==
    ASSUME NEW s \in Seq(Messages), NEW m \in Nat, NEW n \in Nat, n <= Len(s)
    PROVE  /\ IdsOf(SubSeq(s, m + 1, n)) \subseteq Messages
           /\ \A i \in 1 .. n : i > m => s[i] \in IdsOf(SubSeq(s, m + 1, n))
<1> DEFINE d == SubSeq(s, m + 1, n)
<1>1. Len(s) \in Nat
    OBVIOUS
<1>2. d \in Seq(Messages)
    BY <1>1
<1>3. IdsOf(d) = {d[i] : i \in DOMAIN d}
    BY DEF IdsOf, ToSet
<1>4. \A i \in DOMAIN d : d[i] \in Messages
  <2> HIDE DEF d
  <2> QED
      BY <1>2
<1>5. ASSUME NEW i \in 1 .. n, i > m PROVE s[i] \in IdsOf(d)
  <2>1. i - m \in 1 .. Len(d) /\ d[i - m] = s[i]
      BY <1>1, <1>5
  <2>2. i - m \in DOMAIN d
    <3> HIDE DEF d
    <3> QED
        BY <2>1, <1>2
  <2> HIDE DEF d
  <2> QED
      BY <2>1, <2>2, <1>3
<1> HIDE DEF d
<1> QED
    BY <1>3, <1>4, <1>5 DEF d

\* The messages of a log.
LEMMA AllIdsFacts ==
    ASSUME NEW s \in Seq(Messages)
    PROVE  /\ IdsOf(s) = {s[i] : i \in 1 .. Len(s)} /\ IdsOf(s) \subseteq Messages
<1>1. IdsOf(s) = {s[i] : i \in DOMAIN s} /\ DOMAIN s = 1 .. Len(s)
    BY DEF IdsOf, ToSet
<1> QED
    BY <1>1

\* What the archive holds, a larger one holds.
LEMMA SummarisedKept ==
    ASSUME NEW s \in Session, NEW a, NEW b, Summarised(s, a), a \subseteq b
    PROVE  Summarised(s, b)
BY DEF Summarised

\* get_or_create returns an object of its own, which holds what the file holds.
LEMMA OpenedFacts ==
    ASSUME LogInv, CanOpen
    PROVE  /\ Opened.obj \in Objects /\ Opened.rec \in Session
           /\ Len(Opened.rec.msgs) < next /\ Opened.per \in Nat /\ Opened.per < next
           /\ Opened.app \in 0 .. Compact
           /\ Opened.per = Len(Present)
           /\ cached = NoObject \/ Opened.rec = heap[cached]
           /\ IF cached = NoObject THEN Opened.obj \in Unused ELSE Opened.obj = cached
           /\ ~forked => Opened.rec.msgs = Present /\ Summarised(Opened.rec, archived)
<1>1. StoreTypes /\ Sized /\ Counted
    BY DEF LogInv
<1>2. CASE cached # NoObject
  <2>1. Opened = [obj |-> cached, rec |-> heap[cached], per |-> persisted, app |-> appended]
      BY <1>2 DEF Opened
  <2>2. cached \in Objects /\ cached \in Writers
      BY <1>1, <1>2 DEF StoreTypes, Writers
  <2>3. heap[cached] \in Session /\ Len(heap[cached].msgs) < next
      BY <1>1, <2>2 DEF StoreTypes, Sized
  <2>4. persisted \in Nat /\ persisted < next /\ persisted = Len(Present)
        /\ appended \in 0 .. Compact
      BY <1>1, <2>2 DEF StoreTypes, Sized, Counted
  <2>5. ~forked => heap[cached].msgs = Present /\ Summarised(heap[cached], archived)
      BY <2>2 DEF LogInv, Agree
  <2> QED
      BY <1>2, <2>1, <2>2, <2>3, <2>4, <2>5
<1>3. CASE cached = NoObject
  <2> DEFINE o == CHOOSE x \in Unused : TRUE
             r == IF file.torn THEN Empty ELSE [msgs |-> file.msgs, cursor |-> file.cursor]
  <2>1. /\ Opened.obj = o /\ Opened.rec = r
        /\ Opened.per = IF file.torn THEN persisted ELSE Len(file.msgs)
        /\ Opened.app = IF file.torn THEN appended ELSE 0
      BY <1>3 DEF Opened
  <2>2. o \in Unused /\ Unused \subseteq Objects
      BY <1>3 DEF CanOpen, Unused
  <2>3. /\ file.msgs \in Seq(Messages) /\ file.cursor \in Nat /\ Len(file.msgs) < next
        /\ persisted \in Nat /\ persisted < next /\ appended \in 0 .. Compact
        /\ next \in 1 .. MaxMessages + 1 /\ Compact \in Nat /\ MaxMessages \in Nat
        /\ Len(file.msgs) \in Nat
      BY <1>1, SessionAssumption DEF StoreTypes, Sized, SessionFile
  <2>4. Empty \in Session /\ Len(Empty.msgs) = 0 /\ Empty.msgs = <<>> /\ Empty.cursor = 0
      BY DEF Empty, Session
  <2>5. r \in Session /\ r.msgs = Present /\ r.cursor = IF file.torn THEN 0 ELSE file.cursor
      BY <2>3, <2>4 DEF Session, Present
  <2>6. Len(r.msgs) < next
      BY <2>3, <2>4
  <2>7. Opened.per = Len(Present)
    <3>1. CASE file.torn
        BY <3>1, <1>1, <2>1 DEF Counted, Present
    <3>2. CASE ~file.torn
        BY <3>2, <2>1 DEF Present
    <3> QED
        BY <3>1, <3>2
  <2>8. ~forked => Summarised(r, archived)
    <3>1. ~forked => Summarised(file, archived)
        BY DEF LogInv, Agree
    <3>2. CASE file.torn
        BY <3>2, <2>4 DEF Summarised
    <3>3. CASE ~file.torn
        BY <3>3, <3>1 DEF Summarised
    <3> QED
        BY <3>2, <3>3
  <2>9. Opened.per \in Nat /\ Opened.per < next /\ Opened.app \in 0 .. Compact
      BY <2>1, <2>3
  <2> HIDE DEF o, r
  <2> QED
      BY <1>3, <2>1, <2>2, <2>5, <2>6, <2>7, <2>8, <2>9
<1> QED
    BY <1>2, <1>3

\* A save makes the file as long as the object; and equal to it, when it held
\* a beginning of it.
LEMMA SavesFacts ==
    ASSUME StoreTypes, Counted,
           NEW rec \in Session, NEW per \in Nat, NEW app \in 0 .. Compact,
           per = Len(Present), Saves(rec, per, app)
    PROVE  /\ file' \in SessionFile /\ persisted' = Len(rec.msgs)
           /\ appended' \in 0 .. Compact
           /\ ~file'.torn /\ Len(file'.msgs) = Len(rec.msgs) /\ file'.cursor = rec.cursor
           /\ Begins(Present, rec.msgs) => file'.msgs = rec.msgs
<1>1. /\ rec.msgs \in Seq(Messages) /\ rec.cursor \in Nat /\ Len(rec.msgs) \in Nat
      /\ file \in SessionFile /\ file.msgs \in Seq(Messages) /\ Len(file.msgs) \in Nat
      /\ Compact \in Nat /\ app \in Nat /\ file.torn \in BOOLEAN
    BY SessionAssumption DEF StoreTypes, Session, SessionFile
<1>2. /\ file' = FileAfter(rec, per, app) /\ persisted' = Len(rec.msgs)
      /\ appended' = IF Rewrites(Len(rec.msgs), per, app) THEN 0
                     ELSE app + (Len(rec.msgs) - per) + 1
    BY DEF Saves
<1>3. CASE Rewrites(Len(rec.msgs), per, app)
  <2>1. file' = [msgs |-> rec.msgs, cursor |-> rec.cursor, torn |-> FALSE] /\ appended' = 0
      BY <1>2, <1>3 DEF FileAfter
  <2> QED
      BY <2>1, <1>1, <1>2 DEF SessionFile
<1>4. CASE ~Rewrites(Len(rec.msgs), per, app)
  <2> DEFINE d == SubSeq(rec.msgs, per + 1, Len(rec.msgs))
  <2>1. per # 0 /\ per <= Len(rec.msgs) /\ app + (Len(rec.msgs) - per) + 1 < Compact
      BY <1>1, <1>4 DEF Rewrites
  <2>2. ~file.torn /\ per = Len(file.msgs) /\ Present = file.msgs
    <3>1. Len(<<>>) = 0
        OBVIOUS
    <3> QED
        BY <3>1, <2>1, <1>1 DEF Present
  <2>3. /\ file' = [file EXCEPT !.msgs = @ \o d, !.cursor = rec.cursor]
        /\ appended' = app + (Len(rec.msgs) - per) + 1
      BY <1>2, <1>4 DEF FileAfter
  <2>4. appended' \in 0 .. Compact
      BY <2>1, <2>3, <1>1
  <2>5. /\ file.msgs \o d \in Seq(Messages) /\ Len(file.msgs \o d) = Len(rec.msgs)
        /\ Begins(file.msgs, rec.msgs) => file.msgs \o d = rec.msgs
    <3>1. Len(file.msgs) <= Len(rec.msgs)
        BY <2>1, <2>2
    <3> QED
        BY <3>1, <2>2, <1>1, CompletedFacts
  <2> HIDE DEF d
  <2>6. file'.msgs = file.msgs \o d /\ file'.cursor = rec.cursor /\ ~file'.torn
        /\ file' \in SessionFile
      BY <2>2, <2>3, <2>5, <1>1 DEF SessionFile
  <2> QED
      BY <2>2, <2>4, <2>5, <2>6, <1>2
<1> QED
    BY <1>3, <1>4
-----------------------------------------------------------------------------
(* What a step does to what is stored *)

\* After every step the file, the count and the objects in use go together
\* again, and no object in use lost a message.
Moved ==
    /\ StoreTypes' /\ Sized' /\ Counted' /\ (~forked' => Agree')
    /\ archived \subseteq archived' /\ (forked => forked')
    /\ \A o \in Writers' : o \in Writers \/ o \in Unused
    /\ ~forked' => \A o \in Writers' : o \in Writers =>
                      /\ Begins(heap[o].msgs, heap'[o].msgs)
                      /\ next' = next => heap'[o].msgs = heap[o].msgs

\* What is collected is nobody's.
LEMMA KeepsFacts ==
    ASSUME NEW h \in [Objects -> Session], Keeps(h), NEW n \in Nat, 0 < n,
           \A o \in Objects : Len(h[o].msgs) < n
    PROVE  /\ heap' \in [Objects -> Session] /\ \A o \in Objects : Len(heap'[o].msgs) < n
           /\ \A o \in Writers' : o \in Objects => heap'[o] = h[o]
<1>1. Empty \in Session /\ Len(Empty.msgs) = 0
    BY DEF Empty, Session
<1>2. heap' = [o \in Objects |-> IF o \in Live' THEN h[o] ELSE Empty]
    BY DEF Keeps
<1>3. Writers' \subseteq Live'
    BY DEF Live
<1> HIDE DEF Live
<1> QED
    BY <1>1, <1>2, <1>3

\* The objects in use are objects, and nobody's are not in use.
LEMMA WritersFacts ==
    ASSUME LogInv
    PROVE  /\ Writers \subseteq Objects /\ Unused \subseteq Objects
           /\ \A o \in Unused : o \notin Writers /\ \A j \in Jobs : jobs[j].obj # o
           /\ \A o \in Writers : heap[o] \in Session /\ Begins(heap[o].msgs, heap[o].msgs)
           /\ next \in Nat /\ 0 < next
<1>1. turn.obj \in Objects \cup {NoObject} /\ exit.obj \in Objects \cup {NoObject}
      /\ cached \in Objects \cup {NoObject} /\ heap \in [Objects -> Session]
      /\ next \in 1 .. MaxMessages + 1 /\ MaxMessages \in Nat
    BY SessionAssumption DEF LogInv, ControlTypes, StoreTypes, TurnState, ExitState
<1>2. Writers \subseteq Objects
    BY <1>1 DEF Writers
<1>3. \A o \in Unused : o \in Objects /\ o \notin Writers /\ \A j \in Jobs : jobs[j].obj # o
    BY SessionAssumption DEF Unused, Live
<1>4. \A o \in Writers : heap[o] \in Session /\ Begins(heap[o].msgs, heap[o].msgs)
    BY <1>1, <1>2 DEF Begins, Session
<1> QED
    BY <1>1, <1>2, <1>3, <1>4

\* A step that writes nothing, though it may move a cursor.
LEMMA StillMoves ==
    ASSUME LogInv, LogUnchanged, up' \in BOOLEAN,
           archived \subseteq archived', archived' \subseteq Messages,
           heap' \in [Objects -> Session], \A o \in Objects : Len(heap'[o].msgs) < next,
           \A o \in Writers' : o \in Writers /\ heap'[o].msgs = heap[o].msgs
                               /\ (~forked => Summarised(heap'[o], archived'))
    PROVE  Moved
<1>1. /\ cached' = cached /\ file' = file /\ persisted' = persisted /\ appended' = appended
      /\ next' = next /\ forked' = forked /\ Present' = Present
    BY DEF LogUnchanged, Present
<1>2. StoreTypes'
    BY <1>1 DEF LogInv, StoreTypes
<1>3. Sized'
    BY <1>1 DEF LogInv, Sized
<1>4. Counted'
    BY <1>1 DEF LogInv, Counted
<1>5. ASSUME ~forked' PROVE Agree'
  <2>1. Agree /\ ~forked
      BY <1>1, <1>5 DEF LogInv
  <2>2. Summarised(file, archived')
      BY <2>1, SummarisedKept DEF Agree, Summarised
  <2> QED
      BY <1>1, <2>1, <2>2 DEF Agree
<1>6. \A o \in Writers' : o \in Writers => /\ Begins(heap[o].msgs, heap'[o].msgs)
                                           /\ heap'[o].msgs = heap[o].msgs
    BY WritersFacts
<1> QED
    BY <1>1, <1>2, <1>3, <1>4, <1>5, <1>6 DEF Moved

\* A step that opens the session.
LEMMA OpensMoves ==
    ASSUME LogInv, CanOpen, Opens, UNCHANGED <<up, file, archived, next, forked>>,
           Writers' \subseteq Writers \cup {Opened.obj}
    PROVE  Moved
<1> DEFINE o == Opened.obj
           h == [heap EXCEPT ![o] = Opened.rec]
<1>1. /\ o \in Objects /\ Opened.rec \in Session /\ Len(Opened.rec.msgs) < next
      /\ Opened.per \in Nat /\ Opened.per < next /\ Opened.app \in 0 .. Compact
      /\ Opened.per = Len(Present)
      /\ ~forked => Opened.rec.msgs = Present /\ Summarised(Opened.rec, archived)
    BY OpenedFacts
<1>2. o \in Unused \/ (o \in Writers /\ Opened.rec = heap[o])
    BY OpenedFacts, WritersFacts DEF Writers
<1>3. cached' = o /\ persisted' = Opened.per /\ appended' = Opened.app /\ Keeps(h)
    BY DEF Opens
<1>4. heap \in [Objects -> Session] /\ \A x \in Objects : Len(heap[x].msgs) < next
    BY DEF LogInv, StoreTypes, Sized
<1>5. /\ h \in [Objects -> Session] /\ \A x \in Objects : Len(h[x].msgs) < next
      /\ h[o] = Opened.rec /\ \A x \in Objects \ {o} : h[x] = heap[x]
    BY <1>1, <1>4
<1>6. /\ heap' \in [Objects -> Session] /\ \A x \in Objects : Len(heap'[x].msgs) < next
      /\ \A x \in Writers' : heap'[x] = h[x]
  <2>1. Writers' \subseteq Objects
      BY <1>1, WritersFacts
  <2> HIDE DEF h
  <2> QED
      BY <2>1, <1>3, <1>5, WritersFacts, KeepsFacts
<1>7. \A x \in Writers' : (x \in Writers /\ heap'[x] = heap[x]) \/ (x = o /\ heap'[x] = Opened.rec)
  <2> HIDE DEF h
  <2> QED
      BY <1>2, <1>5, <1>6, WritersFacts
<1>8. Present' = Present
    BY DEF Present
<1>9. StoreTypes'
    BY <1>1, <1>3, <1>6 DEF LogInv, StoreTypes
<1>10. Sized'
    BY <1>1, <1>3, <1>6 DEF LogInv, Sized
<1>11. Counted'
  <2>1. Len(<<>>) = 0
      OBVIOUS
  <2> QED
      BY <2>1, <1>1, <1>3, <1>8 DEF LogInv, Counted, Present
<1>12. ~forked' => Agree'
    BY <1>1, <1>7, <1>8 DEF LogInv, Agree
<1>13. \A x \in Writers' : x \in Writers \/ x \in Unused
    BY <1>2
<1>14. \A x \in Writers' : x \in Writers => /\ Begins(heap[x].msgs, heap'[x].msgs)
                                            /\ heap'[x].msgs = heap[x].msgs
    BY <1>2, <1>7, WritersFacts
<1> HIDE DEF o, h
<1> QED
    BY <1>9, <1>10, <1>11, <1>12, <1>13, <1>14 DEF Moved

\* A step that adds a message.
LEMMA GrowsMoves ==
    ASSUME LogInv, NEW h, Grows(h), UNCHANGED <<up, archived>>,
           h.obj \in Writers \cup Unused, h.rec \in Session, Len(h.rec.msgs) < next,
           h.obj \in Writers => h.rec = heap[h.obj],
           h.per \in Nat, h.per = Len(Present), h.app \in 0 .. Compact,
           ~forked => h.rec.msgs = Present /\ Summarised(h.rec, archived),
           Writers' \subseteq Writers \cup {h.obj}
    PROVE  Moved
<1> DEFINE rec == [h.rec EXCEPT !.msgs = Append(@, next)]
           g == [heap EXCEPT ![h.obj] = rec]
<1>1. /\ next \in Messages /\ next' = next + 1 /\ cached' = h.obj
      /\ Saves(rec, h.per, h.app) /\ Keeps(g)
      /\ forked' = (forked \/ Writers \ {h.obj} # {})
    BY WritersFacts, SessionAssumption DEF Grows, Messages
<1>2. /\ rec \in Session /\ rec.msgs = Append(h.rec.msgs, next) /\ rec.cursor = h.rec.cursor
      /\ Len(rec.msgs) = Len(h.rec.msgs) + 1 /\ Begins(h.rec.msgs, rec.msgs)
      /\ Len(h.rec.msgs) \in Nat
  <2>1. h.rec.msgs \in Seq(Messages) /\ h.rec.cursor \in Nat
      BY DEF Session
  <2>2. Append(h.rec.msgs, next) \in Seq(Messages) /\ Begins(h.rec.msgs, Append(h.rec.msgs, next))
        /\ Len(Append(h.rec.msgs, next)) = Len(h.rec.msgs) + 1
      BY <2>1, <1>1, AppendedFacts
  <2>3. rec.msgs = Append(h.rec.msgs, next) /\ rec.cursor = h.rec.cursor /\ rec \in Session
      BY <2>1, <2>2 DEF Session
  <2> HIDE DEF rec
  <2> QED
      BY <2>1, <2>2, <2>3
<1> HIDE DEF rec
<1>3. /\ file' \in SessionFile /\ persisted' = Len(rec.msgs) /\ appended' \in 0 .. Compact
      /\ ~file'.torn /\ Len(file'.msgs) = Len(rec.msgs) /\ file'.cursor = rec.cursor
      /\ Begins(Present, rec.msgs) => file'.msgs = rec.msgs
    BY <1>1, <1>2, SavesFacts DEF LogInv
<1>4. h.obj \in Objects
    BY WritersFacts
<1>5. /\ heap \in [Objects -> Session] /\ \A x \in Objects : Len(heap[x].msgs) < next
      /\ next \in 1 .. MaxMessages + 1 /\ MaxMessages \in Nat /\ forked \in BOOLEAN
      /\ archived \subseteq Messages /\ up \in BOOLEAN
    BY SessionAssumption DEF LogInv, StoreTypes, Sized
<1>6. next' \in 1 .. MaxMessages + 1 /\ next' \in Nat /\ 0 < next' /\ Len(rec.msgs) < next'
    BY <1>1, <1>2, <1>5 DEF Messages
<1>7. g \in [Objects -> Session] /\ g[h.obj] = rec
      /\ \A x \in Objects \ {h.obj} : g[x] = heap[x]
    BY <1>2, <1>4, <1>5
<1> HIDE DEF g
<1>8. \A x \in Objects : Len(g[x].msgs) < next'
  <2>1. \A x \in Objects : Len(heap[x].msgs) \in Nat
      BY <1>5 DEF Session
  <2> QED
      BY <2>1, <1>1, <1>5, <1>6, <1>7
<1>9. /\ heap' \in [Objects -> Session] /\ \A x \in Objects : Len(heap'[x].msgs) < next'
      /\ \A x \in Writers' : heap'[x] = g[x]
  <2>1. Writers' \subseteq Objects
      BY <1>4, WritersFacts
  <2> QED
      BY <2>1, <1>1, <1>6, <1>7, <1>8, KeepsFacts
<1>10. Present' = file'.msgs /\ persisted' \in Nat /\ Len(file'.msgs) < next' /\ persisted' < next'
    BY <1>2, <1>3, <1>6 DEF Present
<1>11. StoreTypes'
    BY <1>1, <1>3, <1>4, <1>5, <1>6, <1>9, <1>10 DEF StoreTypes
<1>12. Sized'
    BY <1>9, <1>10 DEF Sized
<1>13. Counted'
    BY <1>3, <1>10 DEF Counted
<1>14. ASSUME ~forked'
       PROVE  /\ Agree' /\ Writers' \subseteq {h.obj}
              /\ h.obj \in Writers => Begins(heap[h.obj].msgs, rec.msgs)
  <2>1. ~forked /\ Writers \subseteq {h.obj}
      BY <1>1, <1>14
  <2>2. Begins(Present, rec.msgs) /\ file'.msgs = rec.msgs
      BY <2>1, <1>2, <1>3
  <2>3. Summarised(rec, archived)
    <3>1. Summarised(h.rec, archived) /\ h.rec.cursor \in Nat
        BY <2>1 DEF Session
    <3>2. rec.cursor <= Len(rec.msgs)
        BY <3>1, <1>2 DEF Summarised
    <3>3. ASSUME NEW i \in 1 .. rec.cursor PROVE rec.msgs[i] \in archived
      <4>1. i \in 1 .. h.rec.cursor /\ i \in 1 .. Len(h.rec.msgs)
          BY <3>1, <1>2 DEF Summarised
      <4> QED
          BY <4>1, <3>1, <1>2 DEF Summarised, Begins
    <3> QED
        BY <3>2, <3>3 DEF Summarised
  <2>4. Summarised(file', archived')
      BY <2>2, <2>3, <1>3 DEF Summarised
  <2>5. \A x \in Writers' : heap'[x] = rec
      BY <2>1, <1>7, <1>9
  <2>6. Agree'
      BY <2>2, <2>3, <2>4, <2>5, <1>10 DEF Agree
  <2> QED
      BY <2>1, <2>6, <1>2
<1>15. \A x \in Writers' : x \in Writers \/ x \in Unused
    OBVIOUS
<1>16. /\ ~forked' => \A x \in Writers' : x \in Writers => Begins(heap[x].msgs, heap'[x].msgs)
       /\ next' # next
    BY <1>1, <1>5, <1>14, <1>7, <1>9
<1> QED
    BY <1>1, <1>11, <1>12, <1>13, <1>14, <1>15, <1>16 DEF Moved

\* A step that saves an object, whose messages the file already holds.
LEMMA SavesMoves ==
    ASSUME LogInv, NEW o \in Writers, NEW rec \in Session, rec.msgs = heap[o].msgs,
           Saves(rec, persisted, appended), Keeps([heap EXCEPT ![o] = rec]),
           UNCHANGED <<up, next, forked>>, cached' \in Objects \cup {NoObject},
           archived \subseteq archived', archived' \subseteq Messages,
           ~forked => Summarised(rec, archived'), Writers' \subseteq Writers
    PROVE  Moved
<1> DEFINE h == [heap EXCEPT ![o] = rec]
<1>1. /\ StoreTypes /\ Sized /\ Counted /\ heap \in [Objects -> Session]
      /\ persisted \in Nat /\ appended \in 0 .. Compact /\ persisted = Len(Present)
      /\ \A x \in Objects : Len(heap[x].msgs) < next
    BY DEF LogInv, StoreTypes, Counted, Sized
<1>2. o \in Objects /\ Writers' \subseteq Objects /\ next \in Nat /\ 0 < next
    BY WritersFacts
<1>3. h \in [Objects -> Session] /\ h[o] = rec /\ \A x \in Objects \ {o} : h[x] = heap[x]
    BY <1>1, <1>2
<1>4. \A x \in Objects : Len(h[x].msgs) < next
    BY <1>1, <1>3
<1>5. /\ heap' \in [Objects -> Session] /\ \A x \in Objects : Len(heap'[x].msgs) < next
      /\ \A x \in Writers' : heap'[x] = h[x]
  <2> HIDE DEF h
  <2>1. Keeps(h)
      BY DEF h
  <2> QED
      BY <2>1, <1>2, <1>3, <1>4, KeepsFacts
<1> HIDE DEF h
<1>6. /\ file' \in SessionFile /\ persisted' = Len(rec.msgs) /\ appended' \in 0 .. Compact
      /\ ~file'.torn /\ Len(file'.msgs) = Len(rec.msgs) /\ file'.cursor = rec.cursor
      /\ Begins(Present, rec.msgs) => file'.msgs = rec.msgs
    BY <1>1, SavesFacts
<1>7. Present' = file'.msgs /\ Len(rec.msgs) < next /\ Len(rec.msgs) \in Nat
    BY <1>1, <1>2, <1>6 DEF Present, Session
<1>8. StoreTypes'
    BY <1>1, <1>5, <1>6, <1>7 DEF StoreTypes
<1>9. Sized'
    BY <1>5, <1>6, <1>7 DEF Sized
<1>10. Counted'
    BY <1>6, <1>7 DEF Counted
<1>11. ASSUME ~forked' PROVE Agree'
  <2>1. Agree /\ ~forked /\ rec.msgs = Present /\ Begins(rec.msgs, rec.msgs)
      BY <1>11, WritersFacts DEF LogInv, Agree
  <2>2. file'.msgs = rec.msgs /\ Summarised(file', archived')
      BY <2>1, <1>6 DEF Summarised
  <2>3. ASSUME NEW x \in Writers'
        PROVE  heap'[x].msgs = rec.msgs /\ Summarised(heap'[x], archived')
    <3>1. CASE x = o
        BY <3>1, <2>1, <1>3, <1>5
    <3>2. CASE x # o
      <4>1. x \in Writers /\ heap'[x] = heap[x] /\ heap[x] \in Session
          BY <3>2, <1>1, <1>2, <1>3, <1>5
      <4>2. heap[x].msgs = Present /\ Summarised(heap[x], archived)
          BY <4>1, <2>1 DEF Agree
      <4> QED
          BY <4>1, <4>2, <2>1, SummarisedKept
    <3> QED
        BY <3>1, <3>2
  <2> QED
      BY <2>2, <2>3, <1>7 DEF Agree
<1>12. \A x \in Writers' : x \in Writers => /\ Begins(heap[x].msgs, heap'[x].msgs)
                                            /\ heap'[x].msgs = heap[x].msgs
    BY <1>2, <1>3, <1>5, WritersFacts
<1> QED
    BY <1>8, <1>9, <1>10, <1>11, <1>12 DEF Moved

\* A step that clears the log.
LEMMA ClearsMoves ==
    ASSUME LogInv, Clears, turn.at # "idle", UNCHANGED <<up, exit, next, forked>>,
           archived \subseteq archived', archived' \subseteq Messages
    PROVE  /\ Moved
           /\ file' = [msgs |-> <<>>, cursor |-> 0, torn |-> FALSE] /\ Writers' = {}
<1> DEFINE h == [heap EXCEPT ![turn.obj] = Empty]
<1>1. /\ cached' = NoObject /\ turn' = NoTurnYet /\ persisted' = 0 /\ appended' = 0
      /\ file' = FileAfter(Empty, persisted, appended) /\ Keeps(h)
    BY DEF Clears
<1>2. exit.obj = NoObject
    BY DEF LogInv, Placed
<1>3. Writers' = {}
    BY <1>1, <1>2 DEF Writers, NoTurnYet
<1>4. Empty \in Session /\ Len(Empty.msgs) = 0 /\ Empty = [msgs |-> <<>>, cursor |-> 0]
    BY DEF Empty, Session
<1>5. Rewrites(Len(Empty.msgs), persisted, appended)
    BY <1>4 DEF LogInv, StoreTypes, Rewrites
<1>6. file' = [msgs |-> <<>>, cursor |-> 0, torn |-> FALSE]
    BY <1>1, <1>4, <1>5 DEF FileAfter
<1>7. /\ heap \in [Objects -> Session] /\ \A x \in Objects : Len(heap[x].msgs) < next
      /\ next \in Nat /\ 0 < next /\ Compact \in Nat
    BY WritersFacts, SessionAssumption DEF LogInv, StoreTypes, Sized
<1>8. h \in [Objects -> Session] /\ \A x \in Objects : Len(h[x].msgs) < next
    BY <1>4, <1>7
<1>9. heap' \in [Objects -> Session] /\ \A x \in Objects : Len(heap'[x].msgs) < next
  <2> HIDE DEF h
  <2> QED
      BY <1>1, <1>7, <1>8, KeepsFacts
<1>10. file' \in SessionFile /\ Len(file'.msgs) = 0 /\ file'.cursor = 0 /\ ~file'.torn
    BY <1>6 DEF SessionFile
<1> HIDE DEF h
<1>11. StoreTypes'
    BY <1>1, <1>7, <1>9, <1>10 DEF LogInv, StoreTypes
<1>12. Sized'
    BY <1>1, <1>7, <1>9, <1>10 DEF Sized
<1>13. Counted'
    BY <1>3, <1>10 DEF Counted
<1>14. Agree'
    BY <1>3, <1>10 DEF Agree, Summarised
<1> QED
    BY <1>3, <1>6, <1>11, <1>12, <1>13, <1>14 DEF Moved

\* The end of the process.
LEMMA DieMoves ==
    ASSUME LogInv, Die
    PROVE  Moved /\ Writers' = {}
<1>1. /\ up' = FALSE /\ cached' = NoObject /\ persisted' = 0 /\ appended' = 0
      /\ turn' = NoTurnYet /\ exit' = NoExit /\ archived' = archived
      /\ heap' = [o \in Objects |-> Empty] /\ file' \in Interrupted
      /\ next' = IF file'.msgs = file.msgs THEN next ELSE next + 1
      /\ forked' = (forked \/ (file'.msgs # file.msgs /\ Writers \ {turn.obj} # {}))
    BY DEF Die
<1>2. Writers' = {}
    BY <1>1 DEF Writers, NoTurnYet, NoExit
<1>3. /\ file \in SessionFile /\ file.msgs \in Seq(Messages) /\ Len(file.msgs) < next
      /\ Len(file.msgs) \in Nat /\ next \in 1 .. MaxMessages + 1 /\ MaxMessages \in Nat
      /\ Compact \in Nat /\ archived \subseteq Messages /\ forked \in BOOLEAN
    BY SessionAssumption DEF LogInv, StoreTypes, Sized, SessionFile
<1>4. heap' \in [Objects -> Session] /\ \A o \in Objects : Len(heap'[o].msgs) = 0
    BY <1>1 DEF Empty, Session
<1>5. /\ file' \in SessionFile /\ file'.cursor = file.cursor /\ Begins(file.msgs, file'.msgs)
      /\ \/ file'.msgs = file.msgs
         \/ next <= MaxMessages /\ file'.msgs # file.msgs /\ Len(file'.msgs) = Len(file.msgs) + 1
  <2>1. CASE file' = file
      BY <2>1, <1>3 DEF Begins
  <2>2. CASE file' = [file EXCEPT !.torn = TRUE]
    <3>1. file'.msgs = file.msgs /\ file'.cursor = file.cursor /\ file' \in SessionFile
        BY <2>2, <1>3 DEF SessionFile
    <3> QED
        BY <3>1, <1>3 DEF Begins
  <2>3. CASE next <= MaxMessages /\ file' = [file EXCEPT !.msgs = Append(@, next)]
    <3>1. next \in Messages
        BY <2>3, <1>3 DEF Messages
    <3>2. /\ Append(file.msgs, next) \in Seq(Messages) /\ Append(file.msgs, next) # file.msgs
          /\ Len(Append(file.msgs, next)) = Len(file.msgs) + 1
          /\ Begins(file.msgs, Append(file.msgs, next))
        BY <3>1, <1>3, AppendedFacts
    <3>3. file'.msgs = Append(file.msgs, next) /\ file'.cursor = file.cursor
          /\ file' \in SessionFile
        BY <3>2, <2>3, <1>3 DEF SessionFile
    <3> QED
        BY <3>2, <3>3, <2>3
  <2> QED
      BY <2>1, <2>2, <2>3, <1>1 DEF Interrupted
<1>6. next' \in 1 .. MaxMessages + 1 /\ Len(file'.msgs) < next'
    BY <1>1, <1>3, <1>5
<1>7. StoreTypes'
  <2>1. 0 \in 0 .. Compact /\ forked' \in BOOLEAN
      BY <1>1, <1>3
  <2> QED
      BY <2>1, <1>1, <1>3, <1>4, <1>5, <1>6 DEF StoreTypes
<1>8. Sized'
    BY <1>1, <1>3, <1>4, <1>6 DEF Sized
<1>9. Counted'
    BY <1>1, <1>2 DEF Counted
<1>10. ASSUME ~forked' PROVE Agree'
  <2>1. Summarised(file, archived) /\ file.cursor \in Nat
      BY <1>1, <1>3, <1>10 DEF LogInv, Agree, SessionFile
  <2>2. Len(file'.msgs) \in Nat
      BY <1>5, <1>3
  <2>3. \A i \in 1 .. file.cursor : i \in 1 .. Len(file.msgs)
      BY <2>1, <1>3 DEF Summarised
  <2>4. Summarised(file', archived')
      BY <2>1, <2>2, <2>3, <1>1, <1>3, <1>5 DEF Summarised, Begins
  <2> QED
      BY <2>4, <1>2 DEF Agree
<1> QED
    BY <1>1, <1>2, <1>7, <1>8, <1>9, <1>10 DEF Moved

\* A step that writes nothing and moves no cursor.
LEMMA RestMoves ==
    ASSUME LogInv, LogUnchanged, Keeps(heap) \/ heap' = heap, up' \in BOOLEAN,
           archived' = archived, Writers' \subseteq Writers
    PROVE  Moved
<1>1. /\ heap \in [Objects -> Session] /\ \A o \in Objects : Len(heap[o].msgs) < next
      /\ archived \subseteq Messages
    BY DEF LogInv, StoreTypes, Sized
<1>2. Writers' \subseteq Objects /\ next \in Nat /\ 0 < next
    BY WritersFacts
<1>3. /\ heap' \in [Objects -> Session] /\ \A o \in Objects : Len(heap'[o].msgs) < next
      /\ \A o \in Writers' : heap'[o] = heap[o]
    BY <1>1, <1>2, KeepsFacts
<1>4. \A o \in Writers' : o \in Writers /\ heap'[o].msgs = heap[o].msgs
                          /\ (~forked => Summarised(heap'[o], archived'))
    BY <1>3 DEF LogInv, Agree
<1> QED
    BY <1>1, <1>3, <1>4, StillMoves

\* The object of the turn is in use.
LEMMA HeldFacts ==
    ASSUME LogInv, turn.at # "idle"
    PROVE  /\ turn.obj \in Writers /\ Held.obj = turn.obj /\ Held.rec = heap[turn.obj]
           /\ Held.rec \in Session /\ Len(Held.rec.msgs) < next
           /\ Held.per \in Nat /\ Held.per = Len(Present) /\ Held.app \in 0 .. Compact
           /\ ~forked => Held.rec.msgs = Present /\ Summarised(Held.rec, archived)
<1>1. Held = [obj |-> turn.obj, rec |-> heap[turn.obj], per |-> persisted, app |-> appended]
    BY DEF Held
<1>2. turn.obj \in Writers /\ turn.obj \in Objects
    BY WritersFacts DEF LogInv, Placed, Writers
<1>3. /\ heap[turn.obj] \in Session /\ Len(heap[turn.obj].msgs) < next
      /\ persisted \in Nat /\ persisted = Len(Present) /\ appended \in 0 .. Compact
    BY <1>2 DEF LogInv, StoreTypes, Sized, Counted
<1>4. ~forked => heap[turn.obj].msgs = Present /\ Summarised(heap[turn.obj], archived)
    BY <1>2 DEF LogInv, Agree
<1> QED
    BY <1>1, <1>2, <1>3, <1>4

\* The steps of a turn.
LEMMA TurnsMove ==
    ASSUME LogInv, TurnBegins \/ TurnMoves \/ Reply
    PROVE  Moved
<1>t. up \in BOOLEAN /\ archived \subseteq Messages
    BY DEF LogInv, StoreTypes
<1>1. CASE TurnBegins
  <2>1. CanOpen /\ Opens /\ UNCHANGED <<up, file, archived, next, forked>>
        /\ exit' = exit /\ turn'.obj = Opened.obj
      BY <1>1 DEF TurnBegins, NoTurnYet
  <2>2. Writers' \subseteq Writers \cup {Opened.obj}
      BY <2>1 DEF Opens, Writers
  <2> QED
      BY <2>1, <2>2, OpensMoves
<1>2. CASE Chat
  <2>1. turn.at # "idle" /\ Grows(Held) /\ exit' = exit /\ UNCHANGED <<up, archived>>
      BY <1>2 DEF Chat
  <2>2. turn'.obj = turn.obj
      BY <1>2 DEF Chat, LogInv, ControlTypes, TurnState
  <2>3. Writers' \subseteq Writers \cup {Held.obj}
      BY <2>1, <2>2 DEF Writers, Grows
  <2> QED
      BY <2>1, <2>3, HeldFacts, GrowsMoves
<1>3. CASE Blocked
  <2>1. LogUnchanged /\ Keeps(heap) /\ up' = up /\ archived' = archived
        /\ turn' = NoTurnYet /\ exit' = exit
      BY <1>3 DEF Blocked
  <2>2. Writers' \subseteq Writers
      BY <2>1 DEF Writers, NoTurnYet, LogUnchanged
  <2> QED
      BY <2>1, <2>2, <1>t, RestMoves
<1>4. CASE Reply
  <2>1. CanOpen /\ Grows(Opened) /\ UNCHANGED <<turn, exit, up, archived>>
      BY <1>4 DEF Reply
  <2>2. Writers' \subseteq Writers \cup {Opened.obj}
      BY <2>1 DEF Writers, Grows
  <2>3. Opened.obj \in Writers \cup Unused
        /\ (Opened.obj \in Writers => Opened.rec = heap[Opened.obj])
    <3>1. CASE cached = NoObject
        BY <3>1, <2>1, OpenedFacts, WritersFacts
    <3>2. CASE cached # NoObject
        BY <3>2, <2>1, OpenedFacts DEF Writers
    <3> QED
        BY <3>1, <3>2
  <2> QED
      BY <2>1, <2>2, <2>3, OpenedFacts, GrowsMoves
<1>5. CASE Finalize
  <2>1. turn.at # "idle" /\ Grows(Held) /\ exit' = exit /\ UNCHANGED <<up, archived>>
        /\ turn'.obj = NoObject
      BY <1>5 DEF Finalize, NoTurnYet
  <2>2. Writers' \subseteq Writers \cup {Held.obj}
      BY <2>1 DEF Writers, Grows
  <2> QED
      BY <2>1, <2>2, HeldFacts, GrowsMoves
<1>6. CASE TurnStops
  <2>1. LogUnchanged /\ Keeps(heap) /\ up' = up /\ archived' = archived
        /\ turn' = NoTurnYet /\ exit' = exit
      BY <1>6 DEF TurnStops
  <2>2. Writers' \subseteq Writers
      BY <2>1 DEF Writers, NoTurnYet, LogUnchanged
  <2> QED
      BY <2>1, <2>2, <1>t, RestMoves
<1>7. CASE Reboot
  <2>1. Clears /\ turn.at # "idle" /\ UNCHANGED <<up, exit, next, forked>>
        /\ archived' = archived
      BY <1>7 DEF Reboot
  <2> QED
      BY <2>1, <1>t, ClearsMoves
<1>8. CASE NewBegins
  <2>1. LogUnchanged /\ heap' = heap /\ up' = up /\ archived' = archived /\ exit' = exit
      BY <1>8 DEF NewBegins
  <2>2. turn'.obj = turn.obj
      BY <1>8 DEF NewBegins, LogInv, ControlTypes, TurnState
  <2>3. Writers' \subseteq Writers
      BY <2>1, <2>2 DEF Writers, LogUnchanged
  <2> QED
      BY <2>1, <2>3, <1>t, RestMoves
<1>9. CASE NewAcquires
  <2>1. turn.at # "idle" /\ UNCHANGED <<exit, up, archived, next, forked>>
      BY <1>9 DEF NewAcquires
  <2>2. CASE Clears
      BY <2>1, <2>2, <1>t, ClearsMoves
  <2>3. CASE /\ \E old : turn' = [turn EXCEPT !.at = "archiving", !.old = old]
             /\ UNCHANGED <<heap, cached, file, persisted, appended>>
    <3>1. turn'.obj = turn.obj
        BY <2>3 DEF LogInv, ControlTypes, TurnState
    <3>2. Writers' \subseteq Writers /\ LogUnchanged
        BY <2>1, <2>3, <3>1 DEF Writers, LogUnchanged
    <3> QED
        BY <2>1, <2>3, <3>2, <1>t, RestMoves
  <2> QED
      BY <1>9, <2>2, <2>3 DEF NewAcquires
<1>10. CASE NewArchives
  <2>1. Clears /\ turn.at # "idle" /\ UNCHANGED <<up, exit, next, forked>>
        /\ archived' = archived \cup turn.old
      BY <1>10 DEF NewArchives
  <2>2. turn.old \subseteq Messages
      BY DEF LogInv, ControlTypes, TurnState
  <2> QED
      BY <2>1, <2>2, <1>t, ClearsMoves
<1>11. CASE NewFails
  <2>1. LogUnchanged /\ Keeps(heap) /\ up' = up /\ archived' = archived
        /\ turn' = NoTurnYet /\ exit' = exit
      BY <1>11 DEF NewFails
  <2>2. Writers' \subseteq Writers
      BY <2>1 DEF Writers, NoTurnYet, LogUnchanged
  <2> QED
      BY <2>1, <2>2, <1>t, RestMoves
<1> QED
    BY <1>1, <1>2, <1>3, <1>4, <1>5, <1>6, <1>7, <1>8, <1>9, <1>10, <1>11 DEF TurnMoves

\* A consolidation that ends: if its object is still in use, the cursor goes past
\* messages that are in the archive now.
LEMMA ArchivesMove ==
    ASSUME LogInv, NEW j \in Jobs, JobArchives(j)
    PROVE  Moved
<1> DEFINE o == jobs[j].obj
           h == [heap EXCEPT ![o].cursor = jobs[j].target]
<1>1. /\ jobs[j].at = "calling" /\ archived' = archived \cup jobs[j].old
      /\ turn' = turn /\ exit' = exit /\ up' = up /\ LogUnchanged /\ Keeps(h)
    BY DEF JobArchives
<1>2. /\ jobs[j] \in JobState /\ heap \in [Objects -> Session]
      /\ \A x \in Objects : Len(heap[x].msgs) < next
      /\ up \in BOOLEAN /\ archived \subseteq Messages
    BY DEF LogInv, ControlTypes, StoreTypes, Sized
<1>3. o \in Objects /\ jobs[j].target \in Nat /\ jobs[j].old \subseteq Messages
    BY <1>1, <1>2 DEF LogInv, Placed, JobState
<1>4. heap[o] \in Session /\ [heap[o] EXCEPT !.cursor = jobs[j].target] \in Session
      /\ [heap[o] EXCEPT !.cursor = jobs[j].target].msgs = heap[o].msgs
      /\ [heap[o] EXCEPT !.cursor = jobs[j].target].cursor = jobs[j].target
    BY <1>2, <1>3 DEF Session
<1>5. /\ h \in [Objects -> Session] /\ h[o].msgs = heap[o].msgs
      /\ h[o].cursor = jobs[j].target /\ \A x \in Objects \ {o} : h[x] = heap[x]
    BY <1>2, <1>3, <1>4
<1> HIDE DEF h
<1>6. Writers' \subseteq Writers /\ Writers' \subseteq Objects /\ next \in Nat /\ 0 < next
    BY <1>1, WritersFacts DEF Writers, LogUnchanged
<1>7. \A x \in Objects : Len(h[x].msgs) < next
    BY <1>2, <1>5
<1>8. /\ heap' \in [Objects -> Session] /\ \A x \in Objects : Len(heap'[x].msgs) < next
      /\ \A x \in Writers' : heap'[x] = h[x]
    BY <1>1, <1>5, <1>6, <1>7, KeepsFacts
<1>9. ASSUME NEW x \in Writers'
      PROVE  x \in Writers /\ heap'[x].msgs = heap[x].msgs
             /\ (~forked => Summarised(heap'[x], archived'))
  <2>1. CASE x = o
    <3>1. ~forked => /\ jobs[j].target <= Len(heap[o].msgs)
                     /\ \A i \in 1 .. jobs[j].target : heap[o].msgs[i] \in archived'
        BY <2>1, <1>1, <1>6 DEF LogInv, Planned
    <3> QED
        BY <3>1, <2>1, <1>5, <1>6, <1>8 DEF Summarised
  <2>2. CASE x # o
    <3>1. heap'[x] = heap[x] /\ heap[x] \in Session
        BY <2>2, <1>2, <1>5, <1>6, <1>8
    <3>2. ~forked => Summarised(heap[x], archived)
        BY <1>6 DEF LogInv, Agree
    <3> QED
        BY <3>1, <3>2, <1>1, <1>6, SummarisedKept
  <2> QED
      BY <2>1, <2>2
<1> QED
    BY <1>1, <1>2, <1>3, <1>8, <1>9, StillMoves

\* Every step.
LEMMA StoreStep ==
    ASSUME LogInv, [LogNext]_logVars
    PROVE  Moved
<1>t. up \in BOOLEAN /\ archived \subseteq Messages /\ heap \in [Objects -> Session]
    BY DEF LogInv, StoreTypes
<1>1. CASE TurnBegins \/ TurnMoves \/ Reply
    BY <1>1, TurnsMove
<1>2. CASE Peek
  <2>1. CanOpen /\ Opens /\ UNCHANGED <<up, file, archived, next, forked>>
        /\ UNCHANGED <<turn, exit>>
      BY <1>2 DEF Peek
  <2>2. Writers' \subseteq Writers \cup {Opened.obj}
      BY <2>1 DEF Opens, Writers
  <2> QED
      BY <2>1, <2>2, OpensMoves
<1>3. CASE Evict
  <2>1. /\ cached # NoObject /\ cached' = NoObject /\ UNCHANGED <<turn, exit>>
        /\ Saves(heap[cached], persisted, appended) /\ Keeps(heap)
        /\ UNCHANGED <<up, next, forked>> /\ archived' = archived
      BY <1>3 DEF Evict
  <2>2. cached \in Writers /\ Writers' \subseteq Writers
      BY <2>1 DEF Writers
  <2>3. heap[cached] \in Session /\ heap = [heap EXCEPT ![cached] = heap[cached]]
      BY <2>2, <1>t, WritersFacts
  <2>4. ~forked => Summarised(heap[cached], archived)
      BY <2>2 DEF LogInv, Agree
  <2> QED
      BY <2>1, <2>2, <2>3, <2>4, <1>t, SavesMoves
<1>4. ASSUME NEW j \in Jobs, JobMoves(j) PROVE Moved
  <2>1. CASE JobArchives(j)
      BY <2>1, ArchivesMove
  <2>2. CASE JobAcquires(j) \/ JobFails(j)
    <3>1. LogUnchanged /\ Keeps(heap) /\ UNCHANGED <<up, archived, turn, exit>>
        BY <2>2 DEF JobAcquires, JobFails
    <3>2. Writers' \subseteq Writers
        BY <3>1 DEF Writers, LogUnchanged
    <3> QED
        BY <3>1, <3>2, <1>t, RestMoves
  <2> QED
      BY <1>4, <2>1, <2>2 DEF JobMoves
<1>5. CASE DrainBegins
  <2>1. CanOpen /\ Opens /\ UNCHANGED <<up, file, archived, next, forked>>
        /\ turn' = turn /\ exit'.obj = Opened.obj
      BY <1>5 DEF DrainBegins
  <2>2. Writers' \subseteq Writers \cup {Opened.obj}
      BY <2>1 DEF Opens, Writers
  <2> QED
      BY <2>1, <2>2, OpensMoves
<1>6. CASE DrainEnds
  <2>1. exit.at = "calling" /\ turn' = turn /\ cached' = exit.obj /\ exit'.obj = NoObject
        /\ UNCHANGED <<up, next, forked>>
      BY <1>6 DEF DrainEnds, NoExit
  <2>2. exit.obj \in Writers /\ Writers' \subseteq Writers
      BY <2>1 DEF LogInv, Placed, Writers
  <2>3. PICK done \in BOOLEAN :
          LET rec == IF done THEN [heap[exit.obj] EXCEPT !.cursor = 0] ELSE heap[exit.obj]
          IN /\ archived' = IF done THEN archived \cup exit.old ELSE archived
             /\ Saves(rec, persisted, appended)
             /\ Keeps([heap EXCEPT ![exit.obj] = rec])
      BY <1>6 DEF DrainEnds
  <2> DEFINE rec == IF done THEN [heap[exit.obj] EXCEPT !.cursor = 0] ELSE heap[exit.obj]
  <2>4. heap[exit.obj] \in Session /\ exit.obj \in Objects
      BY <2>2, WritersFacts
  <2>5. rec \in Session /\ rec.msgs = heap[exit.obj].msgs
        /\ (done => rec.cursor = 0) /\ (~done => rec = heap[exit.obj])
      BY <2>4 DEF Session
  <2>6. archived \subseteq archived' /\ archived' \subseteq Messages
      BY <2>3, <1>t DEF LogInv, ControlTypes, ExitState
  <2>7. Saves(rec, persisted, appended) /\ Keeps([heap EXCEPT ![exit.obj] = rec])
      BY <2>3
  <2> HIDE DEF rec
  <2>8. ~forked => Summarised(rec, archived')
    <3>1. CASE done
      <4>1. Len(rec.msgs) \in Nat
          BY <2>5 DEF Session
      <4> QED
          BY <3>1, <4>1, <2>5 DEF Summarised
    <3>2. CASE ~done
        BY <3>2, <2>2, <2>5, <2>6, <2>4, SummarisedKept DEF LogInv, Agree
    <3> QED
        BY <3>1, <3>2
  <2>9. cached' \in Objects \cup {NoObject}
      BY <2>1, <2>4
  <2> QED
      BY <2>1, <2>2, <2>5, <2>6, <2>7, <2>8, <2>9, SavesMoves
<1>7. CASE Die
    BY <1>7, DieMoves
<1>8. CASE Restart \/ UNCHANGED logVars
  <2>1. LogUnchanged /\ heap' = heap /\ UNCHANGED <<archived, turn, exit>> /\ up' \in BOOLEAN
      BY <1>8, <1>t DEF Restart, logVars, LogUnchanged
  <2>2. Writers' \subseteq Writers
      BY <2>1 DEF Writers, LogUnchanged
  <2> QED
      BY <2>1, <2>2, RestMoves
<1> QED
    BY <1>1, <1>2, <1>3, <1>4, <1>5, <1>6, <1>7, <1>8 DEF LogNext
-----------------------------------------------------------------------------
(* Who is at work *)

Control == ControlTypes /\ Placed /\ Locked

\* There is a lock to be had: each consolidation uses one.
LEMMA LockOfFacts ==
    ASSUME LogInv, turn.at = "begun"
    PROVE  LockOf \in Locks
<1> DEFINE f == [j \in Jobs |-> jobs[j].lock]
           T == {jobs[j].lock : j \in Jobs}
<1>1. CASE dict # Nobody
    BY <1>1 DEF LockOf, LogInv, ControlTypes
<1>2. CASE dict = Nobody
  <2>1. f \in Surjection(Jobs, T)
      BY DEF Surjection
  <2>2. IsFiniteSet(T) /\ Cardinality(T) <= Cardinality(Jobs)
    <3> HIDE DEF f, T
    <3> QED
        BY <2>1, LocksAssumption, FS_Surjection
  <2>3. turn.lock = Nobody /\ Nobody \notin Locks
      BY SessionAssumption DEF LogInv, Placed
  <2>4. FreeLocks # {}
    <3> SUFFICES ASSUME FreeLocks = {} PROVE FALSE
        OBVIOUS
    <3>1. Locks \subseteq T
        BY <2>3 DEF FreeLocks
    <3>2. Cardinality(Locks) <= Cardinality(T)
      <4> HIDE DEF T
      <4> QED
          BY <3>1, <2>2, FS_Subset
    <3>3. Cardinality(T) \in Nat /\ Cardinality(Jobs) \in Nat /\ Cardinality(Locks) \in Nat
      <4> HIDE DEF T
      <4> QED
          BY <2>2, LocksAssumption, FS_CardinalityType
    <3> QED
        BY <2>2, <3>2, <3>3, LocksAssumption
  <2>5. LockOf = CHOOSE l \in FreeLocks : TRUE
      BY <1>2 DEF LockOf
  <2>6. FreeLocks \subseteq Locks
      BY DEF FreeLocks
  <2> HIDE DEF T
  <2> QED
      BY <2>4, <2>5, <2>6
<1> QED
    BY <1>1, <1>2

\* The threshold check may add a consolidation that waits.
LEMMA ChecksFacts ==
    ASSUME LogInv, turn.at = "begun", Checks
    PROVE  /\ jobs' \in [Jobs -> JobState] /\ flag' \in BOOLEAN
           /\ dict' \in Locks \cup {Nobody}
           /\ \A j \in Jobs : \/ jobs'[j] = jobs[j]
                              \/ /\ jobs[j] = NoJob /\ jobs'[j].at = "waiting"
                                 /\ jobs'[j].obj = turn.obj /\ jobs'[j].lock \in Locks
<1> DEFINE new == [NoJob EXCEPT !.at = "waiting", !.obj = turn.obj, !.lock = LockOf]
<1>1. LockOf \in Locks /\ jobs \in [Jobs -> JobState] /\ turn.obj \in Objects \cup {NoObject}
      /\ flag \in BOOLEAN /\ dict \in Locks \cup {Nobody}
    BY LockOfFacts DEF LogInv, ControlTypes, TurnState
<1>2. new \in JobState /\ new.at = "waiting" /\ new.obj = turn.obj /\ new.lock = LockOf
    BY <1>1 DEF NoJob, JobState
<1>3. \/ UNCHANGED <<jobs, flag, dict>>
      \/ \E j \in Jobs : /\ jobs[j] = NoJob /\ jobs' = [jobs EXCEPT ![j] = new]
                         /\ flag' = TRUE /\ dict' = LockOf
    BY DEF Checks
<1> HIDE DEF new
<1>4. CASE UNCHANGED <<jobs, flag, dict>>
    BY <1>1, <1>4
<1>5. ASSUME NEW j \in Jobs, jobs[j] = NoJob, jobs' = [jobs EXCEPT ![j] = new],
             flag' = TRUE, dict' = LockOf
      PROVE  /\ jobs' \in [Jobs -> JobState] /\ flag' \in BOOLEAN
             /\ dict' \in Locks \cup {Nobody}
             /\ \A i \in Jobs : i # j => jobs'[i] = jobs[i]
             /\ jobs'[j] = new
    BY <1>1, <1>2, <1>5
<1> QED
    BY <1>1, <1>2, <1>3, <1>4, <1>5

\* The end of a consolidation, or of /new, that holds a lock or does not.
LEMMA FinishedFacts ==
    ASSUME LogInv, NEW held \in [Locks -> Jobs \cup {Nobody, "new"}], Finished(held)
    PROVE  flag' \in BOOLEAN /\ dict' \in Locks \cup {Nobody} /\ holder' = held
BY DEF Finished, LogInv, ControlTypes

\* A step that neither takes nor gives back a lock.
LEMMA LocksKept ==
    ASSUME LogInv, ControlTypes', holder' = holder,
           turn'.at = "archiving" <=> turn.at = "archiving",
           turn.at = "archiving" => turn'.lock = turn.lock,
           \A j \in Jobs : \/ jobs'[j] = jobs[j]
                           \/ jobs[j].at # "calling" /\ jobs'[j].at # "calling"
    PROVE  Locked'
<1>1. Locked
    BY DEF LogInv
<1>2. \A j \in Jobs : jobs'[j].at = "calling" => jobs'[j] = jobs[j]
    OBVIOUS
<1>3. \A j \in Jobs : jobs[j].at = "calling" => jobs'[j] = jobs[j]
    OBVIOUS
<1>4. \A j \in Jobs : jobs'[j].at = "calling" => holder'[jobs'[j].lock] = j
    BY <1>1, <1>2 DEF Locked
<1>5. ASSUME NEW l \in Locks
      PROVE  /\ holder'[l] \in Jobs => /\ jobs'[holder'[l]].at = "calling"
                                       /\ jobs'[holder'[l]].lock = l
             /\ holder'[l] = "new" <=> turn'.at = "archiving" /\ turn'.lock = l
    BY <1>1, <1>3 DEF Locked
<1> QED
    BY <1>4, <1>5 DEF Locked

\* A consolidation that gives its lock back.
LEMMA JobReleases ==
    ASSUME LogInv, NEW j \in Jobs, jobs[j].at = "calling",
           jobs' = [jobs EXCEPT ![j] = NoJob], turn' = turn,
           Finished([holder EXCEPT ![jobs[j].lock] = Nobody]), exit' = exit
    PROVE  Control'
<1> DEFINE l0 == jobs[j].lock
           held == [holder EXCEPT ![l0] = Nobody]
<1>1. ControlTypes /\ Placed /\ Locked /\ jobs \in [Jobs -> JobState]
      /\ holder \in [Locks -> Jobs \cup {Nobody, "new"}]
    BY DEF LogInv, ControlTypes
<1>2. l0 \in Locks /\ holder[l0] = j
    BY <1>1 DEF Placed, Locked, JobState
<1>3. held \in [Locks -> Jobs \cup {Nobody, "new"}] /\ held[l0] = Nobody
      /\ \A l \in Locks \ {l0} : held[l] = holder[l]
    BY <1>1, <1>2
<1> HIDE DEF held
<1>4. flag' \in BOOLEAN /\ dict' \in Locks \cup {Nobody} /\ holder' = held
    BY <1>3, FinishedFacts DEF held
<1>5. NoJob \in JobState /\ NoJob.at = "none" /\ NoJob.obj = NoObject /\ NoJob.lock = Nobody
    BY DEF NoJob, JobState
<1>6. jobs' \in [Jobs -> JobState] /\ jobs'[j] = NoJob /\ \A i \in Jobs \ {j} : jobs'[i] = jobs[i]
    BY <1>1, <1>5
<1>7. ControlTypes'
    BY <1>1, <1>3, <1>4, <1>6 DEF ControlTypes
<1>8. Placed'
    BY <1>1, <1>5, <1>6 DEF Placed
<1>9. ASSUME NEW i \in Jobs, jobs'[i].at = "calling" PROVE holder'[jobs'[i].lock] = i
  <2>1. i # j /\ jobs'[i] = jobs[i] /\ jobs[i].at = "calling"
      BY <1>5, <1>6, <1>9
  <2>2. holder[jobs[i].lock] = i /\ jobs[i].lock \in Locks
      BY <2>1, <1>1 DEF Locked, Placed, JobState
  <2> QED
      BY <2>1, <2>2, <1>2, <1>3, <1>4
<1>10. ASSUME NEW l \in Locks
       PROVE  /\ holder'[l] \in Jobs => /\ jobs'[holder'[l]].at = "calling"
                                        /\ jobs'[holder'[l]].lock = l
              /\ holder'[l] = "new" <=> turn'.at = "archiving" /\ turn'.lock = l
  <2>1. CASE l = l0
    <3>1. holder'[l] = Nobody /\ Nobody \notin Jobs /\ Nobody # "new" /\ "new" \notin Jobs
        BY <2>1, <1>3, <1>4, SessionAssumption
    <3>2. holder[l] # "new"
        BY <2>1, <1>2, <3>1
    <3> QED
        BY <3>1, <3>2, <1>1 DEF Locked
  <2>2. CASE l # l0
    <3>1. holder'[l] = holder[l]
        BY <2>2, <1>3, <1>4
    <3>2. holder[l] \in Jobs => holder[l] # j
        BY <2>2, <1>1 DEF Locked
    <3> QED
        BY <3>1, <3>2, <1>1, <1>6 DEF Locked
  <2> QED
      BY <2>1, <2>2
<1> QED
    BY <1>7, <1>8, <1>9, <1>10 DEF Control, Locked

\* A consolidation that gets its lock.
LEMMA JobTakes ==
    ASSUME LogInv, NEW j \in Jobs, jobs[j].at = "waiting", holder[jobs[j].lock] = Nobody,
           NEW old \in SUBSET Messages, NEW end \in Nat,
           jobs' = [jobs EXCEPT ![j].at = "calling", ![j].old = old, ![j].target = end],
           holder' = [holder EXCEPT ![jobs[j].lock] = j],
           UNCHANGED <<turn, exit, flag, dict>>
    PROVE  /\ Control' /\ jobs'[j].old = old /\ jobs'[j].target = end
           /\ jobs'[j].obj = jobs[j].obj /\ \A i \in Jobs \ {j} : jobs'[i] = jobs[i]
<1> DEFINE l0 == jobs[j].lock
           taken == [jobs[j] EXCEPT !.at = "calling", !.old = old, !.target = end]
<1>1. ControlTypes /\ Placed /\ Locked /\ jobs \in [Jobs -> JobState]
      /\ holder \in [Locks -> Jobs \cup {Nobody, "new"}]
    BY DEF LogInv, ControlTypes
<1>2. l0 \in Locks /\ jobs[j] \in JobState
    BY <1>1 DEF Placed, JobState
<1>3. taken \in JobState /\ taken.at = "calling" /\ taken.lock = l0 /\ taken.obj = jobs[j].obj
      /\ taken.old = old /\ taken.target = end
    BY <1>2 DEF JobState
<1>4. jobs' \in [Jobs -> JobState] /\ jobs'[j] = taken /\ \A i \in Jobs \ {j} : jobs'[i] = jobs[i]
    BY <1>1, <1>3
<1> HIDE DEF taken
<1>5. /\ holder' \in [Locks -> Jobs \cup {Nobody, "new"}] /\ holder'[l0] = j
      /\ \A l \in Locks \ {l0} : holder'[l] = holder[l]
    BY <1>1, <1>2
<1>6. ControlTypes'
    BY <1>1, <1>4, <1>5 DEF ControlTypes
<1>7. Placed'
    BY <1>1, <1>2, <1>3, <1>4 DEF Placed
<1>8. ASSUME NEW i \in Jobs, jobs'[i].at = "calling" PROVE holder'[jobs'[i].lock] = i
  <2>1. CASE i = j
      BY <2>1, <1>3, <1>4, <1>5
  <2>2. CASE i # j
    <3>1. jobs'[i] = jobs[i] /\ holder[jobs[i].lock] = i /\ jobs[i].lock \in Locks
        BY <2>2, <1>1, <1>4, <1>8 DEF Locked, Placed, JobState
    <3>2. jobs[i].lock # l0
        BY <3>1, SessionAssumption
    <3> QED
        BY <3>1, <3>2, <1>5
  <2> QED
      BY <2>1, <2>2
<1>9. ASSUME NEW l \in Locks
      PROVE  /\ holder'[l] \in Jobs => /\ jobs'[holder'[l]].at = "calling"
                                       /\ jobs'[holder'[l]].lock = l
             /\ holder'[l] = "new" <=> turn'.at = "archiving" /\ turn'.lock = l
  <2>1. CASE l = l0
    <3>1. holder'[l] = j /\ j # "new" /\ holder[l] # "new"
        BY <2>1, <1>5, SessionAssumption
    <3> QED
        BY <2>1, <3>1, <1>1, <1>3, <1>4 DEF Locked
  <2>2. CASE l # l0
    <3>1. holder'[l] = holder[l]
        BY <2>2, <1>5
    <3>2. holder[l] \in Jobs => holder[l] # j
        BY <1>1 DEF Locked
    <3> QED
        BY <3>1, <3>2, <1>1, <1>4 DEF Locked
  <2> QED
      BY <2>1, <2>2
<1> QED
    BY <1>3, <1>4, <1>6, <1>7, <1>8, <1>9 DEF Control, Locked

\* /new gets the lock.
LEMMA NewTakes ==
    ASSUME LogInv, turn.at = "waiting", holder[turn.lock] = Nobody,
           NEW old \in SUBSET Messages,
           turn' = [turn EXCEPT !.at = "archiving", !.old = old],
           holder' = [holder EXCEPT ![turn.lock] = "new"],
           UNCHANGED <<jobs, exit, flag, dict>>
    PROVE  Control' /\ turn'.old = old /\ turn'.obj = turn.obj
<1>1. ControlTypes /\ Placed /\ Locked /\ turn \in TurnState
      /\ holder \in [Locks -> Jobs \cup {Nobody, "new"}]
    BY DEF LogInv, ControlTypes
<1>2. turn.lock \in Locks
    BY <1>1 DEF Placed, TurnState
<1>3. /\ turn' \in TurnState /\ turn'.at = "archiving" /\ turn'.lock = turn.lock
      /\ turn'.obj = turn.obj /\ turn'.old = old
    BY <1>1 DEF TurnState
<1>4. /\ holder' \in [Locks -> Jobs \cup {Nobody, "new"}] /\ holder'[turn.lock] = "new"
      /\ \A l \in Locks \ {turn.lock} : holder'[l] = holder[l]
    BY <1>1, <1>2
<1>5. ControlTypes'
    BY <1>1, <1>3, <1>4 DEF ControlTypes
<1>6. Placed'
    BY <1>1, <1>3 DEF Placed
<1>7. ASSUME NEW i \in Jobs, jobs'[i].at = "calling" PROVE holder'[jobs'[i].lock] = i
  <2>1. holder[jobs[i].lock] = i /\ jobs[i].lock \in Locks /\ i # Nobody
      BY <1>1, <1>7, SessionAssumption DEF Locked, Placed, ControlTypes, JobState
  <2> QED
      BY <2>1, <1>4
<1>8. ASSUME NEW l \in Locks
      PROVE  /\ holder'[l] \in Jobs => /\ jobs'[holder'[l]].at = "calling"
                                       /\ jobs'[holder'[l]].lock = l
             /\ holder'[l] = "new" <=> turn'.at = "archiving" /\ turn'.lock = l
  <2>1. CASE l = turn.lock
      BY <2>1, <1>3, <1>4, SessionAssumption
  <2>2. CASE l # turn.lock
    <3>1. holder'[l] = holder[l] /\ holder[l] # "new"
        BY <2>2, <1>1, <1>4 DEF Locked
    <3> QED
        BY <2>2, <3>1, <1>1, <1>3 DEF Locked
  <2> QED
      BY <2>1, <2>2
<1> QED
    BY <1>3, <1>5, <1>6, <1>7, <1>8 DEF Control, Locked

\* /new is over, and gives back the lock if it has it.
LEMMA NewReleases ==
    ASSUME LogInv, turn.at \in {"waiting", "archiving"}, turn' = NoTurnYet,
           UNCHANGED <<jobs, exit>>,
           Finished(IF turn.at = "archiving" THEN [holder EXCEPT ![turn.lock] = Nobody]
                                             ELSE holder)
    PROVE  Control'
<1> DEFINE held == IF turn.at = "archiving" THEN [holder EXCEPT ![turn.lock] = Nobody]
                                            ELSE holder
<1>1. ControlTypes /\ Placed /\ Locked /\ turn \in TurnState
      /\ holder \in [Locks -> Jobs \cup {Nobody, "new"}]
    BY DEF LogInv, ControlTypes
<1>2. turn.lock \in Locks
    BY <1>1 DEF Placed, TurnState
<1>3. /\ held \in [Locks -> Jobs \cup {Nobody, "new"}]
      /\ turn.at = "archiving" => held[turn.lock] = Nobody
      /\ \A l \in Locks : l # turn.lock \/ turn.at # "archiving" => held[l] = holder[l]
    BY <1>1, <1>2
<1> HIDE DEF held
<1>4. flag' \in BOOLEAN /\ dict' \in Locks \cup {Nobody} /\ holder' = held
    BY <1>3, FinishedFacts DEF held
<1>5. turn' \in TurnState /\ turn'.at = "idle" /\ turn'.obj = NoObject /\ turn'.lock = Nobody
    BY DEF NoTurnYet, TurnState
<1>6. ControlTypes'
    BY <1>1, <1>3, <1>4, <1>5 DEF ControlTypes
<1>7. Placed'
    BY <1>1, <1>5 DEF Placed
<1>8. ASSUME NEW l \in Locks
      PROVE  /\ holder'[l] \in Jobs => holder[l] = holder'[l]
             /\ holder[l] \in Jobs => holder'[l] = holder[l]
             /\ holder'[l] # "new"
  <2>1. CASE l = turn.lock /\ turn.at = "archiving"
    <3>1. holder'[l] = Nobody /\ holder[l] = "new"
        BY <2>1, <1>1, <1>3, <1>4 DEF Locked
    <3> QED
        BY <3>1, SessionAssumption
  <2>2. CASE l # turn.lock \/ turn.at # "archiving"
    <3>1. holder'[l] = holder[l]
        BY <2>2, <1>3, <1>4
    <3>2. holder[l] # "new"
        BY <2>2, <1>1 DEF Locked
    <3> QED
        BY <3>1, <3>2
  <2> QED
      BY <2>1, <2>2
<1>9. \A j \in Jobs : jobs[j].at = "calling" => jobs[j].lock \in Locks /\ holder[jobs[j].lock] = j
    BY <1>1 DEF Locked, Placed, ControlTypes, JobState
<1>10. \A j \in Jobs : jobs'[j].at = "calling" => holder'[jobs'[j].lock] = j
    BY <1>8, <1>9
<1>11. \A l \in Locks : /\ holder'[l] \in Jobs => /\ jobs'[holder'[l]].at = "calling"
                                                  /\ jobs'[holder'[l]].lock = l
                        /\ holder'[l] = "new" <=> turn'.at = "archiving" /\ turn'.lock = l
    BY <1>1, <1>5, <1>8 DEF Locked
<1> QED
    BY <1>6, <1>7, <1>10, <1>11 DEF Control, Locked

\* What is archived of s: everything from its cursor to the end.
Covers(s, old, end) ==
    /\ old \subseteq Messages /\ end \in Nat /\ end <= Len(s.msgs)
    /\ \A i \in 1 .. end : i > s.cursor => s.msgs[i] \in old

\* What a plan covers.
LEMMA PlanFacts ==
    ASSUME NEW s \in Session, NEW end \in Nat, end <= Len(s.msgs)
    PROVE  Covers(s, IdsOf(SubSeq(s.msgs, s.cursor + 1, end)), end)
<1>1. s.msgs \in Seq(Messages) /\ s.cursor \in Nat
    BY DEF Session
<1> QED
    BY <1>1, IdsFacts DEF Covers

\* A consolidation that begins to archive covers what it plans to move past.
NewPlans ==
    \A j \in Jobs : jobs'[j].at = "calling" =>
        \/ jobs'[j] = jobs[j]
        \/ /\ jobs[j].at = "waiting" /\ jobs'[j].obj = jobs[j].obj
           /\ Covers(heap[jobs[j].obj], jobs'[j].old, jobs'[j].target)

\* So does /new, and while it archives nothing is added to the log.
NewPromises ==
    turn'.at = "archiving" =>
        /\ turn'.obj = turn.obj /\ next' = next /\ turn.obj \in Objects
        /\ \/ turn' = turn
           \/ Covers(heap[turn.obj], turn'.old, Len(heap[turn.obj].msgs))

\* The steps of the consolidations.
LEMMA JobsControl ==
    ASSUME LogInv, NEW j \in Jobs, JobMoves(j)
    PROVE  Control' /\ NewPlans /\ NewPromises
<1>1. /\ ControlTypes /\ Placed /\ Locked /\ jobs \in [Jobs -> JobState] /\ turn \in TurnState
      /\ holder \in [Locks -> Jobs \cup {Nobody, "new"}] /\ heap \in [Objects -> Session]
      /\ exit \in ExitState
    BY DEF LogInv, ControlTypes, StoreTypes
<1>2. turn' = turn /\ exit' = exit /\ next' = next
    BY DEF JobMoves, JobAcquires, JobArchives, JobFails, LogUnchanged
<1>3. NewPromises
    BY <1>1, <1>2 DEF NewPromises, Placed, TurnState
<1>4. NoJob \in JobState /\ NoJob.at = "none" /\ NoJob.obj = NoObject /\ NoJob.lock = Nobody
    BY DEF NoJob, JobState
<1>5. CASE JobArchives(j) \/ JobFails(j)
  <2>1. jobs[j].at = "calling" /\ jobs' = [jobs EXCEPT ![j] = NoJob]
        /\ Finished([holder EXCEPT ![jobs[j].lock] = Nobody])
      BY <1>5 DEF JobArchives, JobFails
  <2>2. Control'
      BY <2>1, <1>2, JobReleases
  <2>3. NewPlans
      BY <2>1, <1>1, <1>4 DEF NewPlans
  <2> QED
      BY <2>2, <2>3, <1>3
<1>6. CASE JobAcquires(j)
  <2> DEFINE s == heap[jobs[j].obj]
             end == IF Len(s.msgs) > Keep THEN Len(s.msgs) - Keep ELSE 0
             old == IdsOf(SubSeq(s.msgs, s.cursor + 1, end))
  <2>1. /\ jobs[j].at = "waiting" /\ holder[jobs[j].lock] = Nobody
        /\ IF old = {}
           THEN jobs' = [jobs EXCEPT ![j] = NoJob] /\ Finished(holder)
           ELSE /\ jobs' = [jobs EXCEPT ![j].at = "calling", ![j].old = old, ![j].target = end]
                /\ holder' = [holder EXCEPT ![jobs[j].lock] = j]
                /\ UNCHANGED <<flag, dict>>
      BY <1>6 DEF JobAcquires
  <2>2. s \in Session /\ Len(s.msgs) \in Nat
      BY <2>1, <1>1 DEF Placed, JobState, Session
  <2>3. end \in Nat /\ end <= Len(s.msgs)
    <3> HIDE DEF s
    <3> QED
        BY <2>2, SessionAssumption
  <2>4. Covers(s, old, end)
    <3> HIDE DEF s, end
    <3> QED
        BY <2>2, <2>3, PlanFacts
  <2> HIDE DEF s, end, old
  <2>5. CASE old = {}
    <3>1. jobs' = [jobs EXCEPT ![j] = NoJob] /\ Finished(holder)
        BY <2>1, <2>5
    <3>2. flag' \in BOOLEAN /\ dict' \in Locks \cup {Nobody} /\ holder' = holder
        BY <3>1, <1>1, FinishedFacts
    <3>3. jobs' \in [Jobs -> JobState] /\ jobs'[j] = NoJob
          /\ \A i \in Jobs \ {j} : jobs'[i] = jobs[i]
        BY <3>1, <1>1, <1>4
    <3>4. ControlTypes'
        BY <3>2, <3>3, <1>1, <1>2 DEF ControlTypes
    <3>5. Placed'
        BY <3>3, <1>1, <1>2, <1>4 DEF Placed
    <3>6. Locked'
        BY <3>2, <3>3, <3>4, <2>1, <1>2, <1>4, LocksKept
    <3>7. NewPlans
        BY <3>3, <1>4 DEF NewPlans
    <3> QED
        BY <3>4, <3>5, <3>6, <3>7, <1>3 DEF Control
  <2>6. CASE old # {}
    <3>1. /\ jobs' = [jobs EXCEPT ![j].at = "calling", ![j].old = old, ![j].target = end]
          /\ holder' = [holder EXCEPT ![jobs[j].lock] = j] /\ UNCHANGED <<flag, dict>>
        BY <2>1, <2>6
    <3>2. old \in SUBSET Messages
        BY <2>4 DEF Covers
    <3>3. /\ Control' /\ jobs'[j].old = old /\ jobs'[j].target = end
          /\ jobs'[j].obj = jobs[j].obj /\ \A i \in Jobs \ {j} : jobs'[i] = jobs[i]
        BY <3>1, <3>2, <2>1, <2>3, <1>2, JobTakes
    <3>4. NewPlans
        BY <3>3, <2>1, <2>4 DEF NewPlans, s
    <3> QED
        BY <3>3, <3>4, <1>3
  <2> QED
      BY <2>5, <2>6
<1> QED
    BY <1>5, <1>6 DEF JobMoves

\* The steps of a turn.
LEMMA TurnsControl ==
    ASSUME LogInv, TurnBegins \/ TurnMoves \/ Reply
    PROVE  Control' /\ NewPlans /\ NewPromises
<1>1. /\ ControlTypes /\ Placed /\ Locked /\ jobs \in [Jobs -> JobState] /\ turn \in TurnState
      /\ holder \in [Locks -> Jobs \cup {Nobody, "new"}] /\ heap \in [Objects -> Session]
      /\ exit \in ExitState
    BY DEF LogInv, ControlTypes, StoreTypes
<1>2. NoTurnYet \in TurnState /\ NoTurnYet.at = "idle" /\ NoTurnYet.obj = NoObject
      /\ NoTurnYet.lock = Nobody
    BY DEF NoTurnYet, TurnState
<1>3. CASE TurnBegins
  <2>1. /\ turn.at = "idle" /\ exit.at = "none" /\ UNCHANGED <<jobs, exit, flag, dict, holder>>
        /\ turn' = [NoTurnYet EXCEPT !.at = "begun", !.obj = Opened.obj] /\ CanOpen
      BY <1>3 DEF TurnBegins
  <2>2. turn' \in TurnState /\ turn'.at = "begun" /\ turn'.obj \in Objects /\ turn'.lock = Nobody
      BY <2>1, <1>2, OpenedFacts DEF NoTurnYet, TurnState
  <2>3. ControlTypes'
      BY <2>1, <2>2, <1>1 DEF ControlTypes
  <2>4. Placed'
      BY <2>1, <2>2, <1>1, SessionAssumption DEF Placed
  <2>5. Locked'
      BY <2>1, <2>2, <2>3, LocksKept
  <2> QED
      BY <2>1, <2>2, <2>3, <2>4, <2>5 DEF Control, NewPlans, NewPromises
<1>4. CASE Chat \/ Blocked
  <2>1. /\ turn.at = "begun" /\ UNCHANGED <<exit, holder>> /\ Checks
        /\ turn' = NoTurnYet \/ turn' = [turn EXCEPT !.at = "inferring"]
      BY <1>4 DEF Chat, Blocked
  <2>2. /\ jobs' \in [Jobs -> JobState] /\ flag' \in BOOLEAN /\ dict' \in Locks \cup {Nobody}
        /\ \A j \in Jobs : \/ jobs'[j] = jobs[j]
                           \/ /\ jobs[j] = NoJob /\ jobs'[j].at = "waiting"
                              /\ jobs'[j].obj = turn.obj /\ jobs'[j].lock \in Locks
      BY <2>1, ChecksFacts
  <2>3. /\ turn' \in TurnState /\ turn'.lock = Nobody
        /\ \/ turn'.at = "idle" /\ turn'.obj = NoObject
           \/ turn'.at = "inferring" /\ turn'.obj = turn.obj
      BY <2>1, <1>1, <1>2 DEF TurnState, Placed
  <2>4. turn.obj \in Objects /\ turn.lock = Nobody
      BY <2>1, <1>1 DEF Placed, TurnState
  <2>5. ControlTypes'
      BY <2>1, <2>2, <2>3, <1>1 DEF ControlTypes
  <2>6. Placed'
    <3>1. \A j \in Jobs : /\ jobs'[j].at = "none" <=> jobs'[j].obj = NoObject
                          /\ jobs'[j].at = "none" <=> jobs'[j].lock = Nobody
        BY <2>2, <2>4, <1>1, SessionAssumption DEF Placed
    <3> QED
        BY <3>1, <2>1, <2>3, <2>4, <1>1, SessionAssumption DEF Placed
  <2>7. Locked'
    <3>1. \A j \in Jobs : \/ jobs'[j] = jobs[j]
                          \/ jobs[j].at # "calling" /\ jobs'[j].at # "calling"
        BY <2>2 DEF NoJob
    <3> QED
        BY <3>1, <2>1, <2>3, <2>5, LocksKept
  <2>8. NewPlans /\ NewPromises
      BY <2>2, <2>3 DEF NewPlans, NewPromises
  <2> QED
      BY <2>5, <2>6, <2>7, <2>8 DEF Control
<1>5. CASE Reply
  <2>1. turn.at = "inferring" /\ UNCHANGED <<turn, jobs, exit, flag, dict, holder>>
      BY <1>5 DEF Reply
  <2>2. ControlTypes'
      BY <2>1, <1>1 DEF ControlTypes
  <2>3. Placed'
      BY <2>1, <1>1 DEF Placed
  <2>4. Locked'
      BY <2>1, <2>2, LocksKept
  <2> QED
      BY <2>1, <2>2, <2>3, <2>4 DEF Control, NewPlans, NewPromises
<1>6. CASE Finalize \/ TurnStops \/ Reboot
  <2>1. /\ turn.at \in {"begun", "inferring"} /\ turn' = NoTurnYet
        /\ UNCHANGED <<jobs, exit, flag, dict, holder>>
      BY <1>6 DEF Finalize, TurnStops, Reboot, Clears
  <2>2. ControlTypes'
      BY <2>1, <1>1, <1>2 DEF ControlTypes
  <2>3. Placed'
      BY <2>1, <1>1, <1>2 DEF Placed
  <2>4. Locked'
      BY <2>1, <2>2, <1>2, LocksKept
  <2> QED
      BY <2>1, <2>2, <2>3, <2>4, <1>2 DEF Control, NewPlans, NewPromises
<1>7. CASE NewBegins
  <2>1. /\ turn.at = "begun" /\ flag' = TRUE /\ dict' = LockOf
        /\ turn' = [turn EXCEPT !.at = "waiting", !.lock = LockOf]
        /\ UNCHANGED <<jobs, exit, holder>>
      BY <1>7 DEF NewBegins
  <2>2. LockOf \in Locks
      BY <2>1, LockOfFacts
  <2>3. /\ turn' \in TurnState /\ turn'.at = "waiting" /\ turn'.lock \in Locks
        /\ turn'.obj = turn.obj
      BY <2>1, <2>2, <1>1 DEF TurnState
  <2>4. ControlTypes'
      BY <2>1, <2>2, <2>3, <1>1 DEF ControlTypes
  <2>5. Placed'
      BY <2>1, <2>3, <1>1, SessionAssumption DEF Placed
  <2>6. Locked'
      BY <2>1, <2>3, <2>4, LocksKept
  <2> QED
      BY <2>1, <2>3, <2>4, <2>5, <2>6 DEF Control, NewPlans, NewPromises
<1>8. CASE NewAcquires
  <2> DEFINE s == heap[turn.obj]
             old == IdsOf(SubSeq(s.msgs, s.cursor + 1, Len(s.msgs)))
  <2>1. /\ turn.at = "waiting" /\ holder[turn.lock] = Nobody
        /\ UNCHANGED <<jobs, exit, next>>
        /\ IF old = {}
           THEN Finished(holder) /\ Clears
           ELSE /\ turn' = [turn EXCEPT !.at = "archiving", !.old = old]
                /\ holder' = [holder EXCEPT ![turn.lock] = "new"]
                /\ UNCHANGED <<flag, dict>>
      BY <1>8 DEF NewAcquires
  <2>2. turn.obj \in Objects /\ s \in Session /\ Len(s.msgs) \in Nat
      BY <2>1, <1>1 DEF Placed, TurnState, Session
  <2>3. Covers(s, old, Len(s.msgs))
    <3> HIDE DEF s
    <3> QED
        BY <2>2, PlanFacts
  <2> HIDE DEF s, old
  <2>4. NewPlans
      BY <2>1 DEF NewPlans
  <2>5. CASE old = {}
    <3>1. turn' = NoTurnYet /\ Finished(holder) /\ turn.at # "archiving"
        BY <2>1, <2>5 DEF Clears
    <3>2. Control'
        BY <3>1, <2>1, NewReleases
    <3> QED
        BY <3>1, <3>2, <2>4, <1>2 DEF NewPromises
  <2>6. CASE old # {}
    <3>1. /\ turn' = [turn EXCEPT !.at = "archiving", !.old = old]
          /\ holder' = [holder EXCEPT ![turn.lock] = "new"] /\ UNCHANGED <<flag, dict>>
        BY <2>1, <2>6
    <3>2. old \in SUBSET Messages
        BY <2>3 DEF Covers
    <3>3. Control' /\ turn'.old = old /\ turn'.obj = turn.obj
        BY <3>1, <3>2, <2>1, NewTakes
    <3>4. NewPromises
        BY <3>3, <2>1, <2>2, <2>3 DEF NewPromises, s
    <3> QED
        BY <3>3, <3>4, <2>4
  <2> QED
      BY <2>5, <2>6
<1>9. CASE NewArchives \/ NewFails
  <2>1. /\ turn.at \in {"waiting", "archiving"} /\ turn' = NoTurnYet /\ UNCHANGED <<jobs, exit>>
        /\ Finished(IF turn.at = "archiving" THEN [holder EXCEPT ![turn.lock] = Nobody]
                                             ELSE holder)
    <3>1. CASE NewArchives
        BY <3>1 DEF NewArchives, Clears
    <3>2. CASE NewFails
        BY <3>2 DEF NewFails
    <3> QED
        BY <3>1, <3>2, <1>9
  <2>2. Control'
      BY <2>1, NewReleases
  <2> QED
      BY <2>1, <2>2, <1>2 DEF NewPlans, NewPromises
<1> QED
    BY <1>3, <1>4, <1>5, <1>6, <1>7, <1>8, <1>9 DEF TurnMoves

\* Every step.
LEMMA ControlStep ==
    ASSUME LogInv, [LogNext]_logVars
    PROVE  Control' /\ NewPlans /\ NewPromises
<1>1. /\ ControlTypes /\ Placed /\ Locked /\ jobs \in [Jobs -> JobState] /\ turn \in TurnState
      /\ holder \in [Locks -> Jobs \cup {Nobody, "new"}] /\ exit \in ExitState
    BY DEF LogInv, ControlTypes
<1>2. CASE TurnBegins \/ TurnMoves \/ Reply
    BY <1>2, TurnsControl
<1>3. ASSUME NEW j \in Jobs, JobMoves(j) PROVE Control' /\ NewPlans /\ NewPromises
    BY <1>3, JobsControl
<1>4. CASE Peek \/ Evict \/ Restart \/ UNCHANGED logVars
  <2>1. UNCHANGED <<turn, jobs, exit, flag, dict, holder, next>>
      BY <1>4 DEF Peek, Evict, Restart, logVars
  <2>2. ControlTypes'
      BY <2>1, <1>1 DEF ControlTypes
  <2>3. Placed'
      BY <2>1, <1>1 DEF Placed
  <2>4. Locked'
      BY <2>1, <2>2, LocksKept
  <2>5. NewPlans /\ NewPromises
      BY <2>1, <1>1 DEF NewPlans, NewPromises, Placed, TurnState
  <2> QED
      BY <2>2, <2>3, <2>4, <2>5 DEF Control
<1>5. CASE DrainBegins
  <2>1. /\ CanOpen /\ turn.at = "idle" /\ UNCHANGED <<turn, jobs, flag, dict, holder>>
        /\ exit' = [at |-> "calling", obj |-> Opened.obj, old |-> IdsOf(Opened.rec.msgs)]
      BY <1>5 DEF DrainBegins
  <2>2. Opened.obj \in Objects /\ Opened.rec.msgs \in Seq(Messages)
      BY <2>1, OpenedFacts DEF Session
  <2>3. IdsOf(Opened.rec.msgs) \subseteq Messages
      BY <2>2, AllIdsFacts
  <2>4. exit' \in ExitState /\ exit'.at = "calling" /\ exit'.obj \in Objects
      BY <2>1, <2>2, <2>3 DEF ExitState
  <2>5. ControlTypes'
      BY <2>1, <2>4, <1>1 DEF ControlTypes
  <2>6. Placed'
      BY <2>1, <2>4, <1>1, SessionAssumption DEF Placed
  <2>7. Locked'
      BY <2>1, <2>5, LocksKept
  <2> QED
      BY <2>1, <2>5, <2>6, <2>7 DEF Control, NewPlans, NewPromises
<1>6. CASE DrainEnds
  <2>1. /\ exit.at = "calling" /\ exit' = [NoExit EXCEPT !.at = "done"]
        /\ UNCHANGED <<turn, jobs, flag, dict, holder, next>>
      BY <1>6 DEF DrainEnds
  <2>2. exit' \in ExitState /\ exit'.at = "done" /\ exit'.obj = NoObject
      BY <2>1 DEF NoExit, ExitState
  <2>3. ControlTypes'
      BY <2>1, <2>2, <1>1 DEF ControlTypes
  <2>4. Placed'
      BY <2>1, <2>2, <1>1 DEF Placed
  <2>5. Locked'
      BY <2>1, <2>3, LocksKept
  <2>6. turn.at # "archiving"
      BY <2>1, <1>1 DEF Placed
  <2> QED
      BY <2>1, <2>3, <2>4, <2>5, <2>6 DEF Control, NewPlans, NewPromises
<1>7. CASE Die
  <2>1. /\ turn' = NoTurnYet /\ jobs' = [j \in Jobs |-> NoJob] /\ exit' = NoExit
        /\ flag' = FALSE /\ dict' = Nobody /\ holder' = [l \in Locks |-> Nobody]
      BY <1>7 DEF Die
  <2>2. ControlTypes'
      BY <2>1 DEF ControlTypes, NoTurnYet, NoJob, NoExit, TurnState, JobState, ExitState
  <2>3. Placed'
      BY <2>1 DEF Placed, NoTurnYet, NoJob, NoExit
  <2>4. Locked'
      BY <2>1, SessionAssumption DEF Locked, NoTurnYet, NoJob
  <2>5. NewPlans /\ NewPromises
      BY <2>1 DEF NewPlans, NewPromises, NoTurnYet, NoJob
  <2> QED
      BY <2>2, <2>3, <2>4, <2>5 DEF Control
<1> QED
    BY <1>2, <1>3, <1>4, <1>5, <1>6, <1>7 DEF LogNext
-----------------------------------------------------------------------------
(* The invariant *)

\* Who archives, archives what the cursor will pass, or what will be cleared.
LEMMA PlannedStep ==
    ASSUME LogInv, [LogNext]_logVars, ~forked'
    PROVE  Planned' /\ Promised'
<1>1. Moved /\ Control' /\ NewPlans /\ NewPromises
    BY StoreStep, ControlStep
<1>2. ~forked /\ Agree /\ Planned /\ Promised /\ archived \subseteq archived'
    BY <1>1 DEF Moved, LogInv
<1>3. /\ Writers \subseteq Objects /\ \A o \in Writers : heap[o] \in Session
      /\ \A o \in Unused : \A j \in Jobs : jobs[j].obj # o
    BY WritersFacts
<1>4. /\ \A o \in Writers' : o \in Writers \/ o \in Unused
      /\ \A o \in Writers' : o \in Writers => /\ Begins(heap[o].msgs, heap'[o].msgs)
                                              /\ next' = next => heap'[o].msgs = heap[o].msgs
    BY <1>1 DEF Moved
<1>5. heap' \in [Objects -> Session]
    BY <1>1 DEF Moved, StoreTypes
\* What covers the rest of a log, with what was archived covers all of it.
<1>6. ASSUME NEW o \in Writers, NEW old, NEW end, Covers(heap[o], old, end)
      PROVE  end \in Nat /\ end <= Len(heap[o].msgs)
             /\ \A i \in 1 .. end : heap[o].msgs[i] \in archived \cup old
  <2>1. Summarised(heap[o], archived) /\ heap[o].cursor \in Nat
      BY <1>2, <1>3 DEF Agree, Session
  <2>2. ASSUME NEW i \in 1 .. end PROVE heap[o].msgs[i] \in archived \cup old
    <3>1. CASE i <= heap[o].cursor
        BY <3>1, <2>1 DEF Summarised
    <3>2. CASE i > heap[o].cursor
        BY <3>2, <1>6 DEF Covers
    <3> QED
        BY <3>1, <3>2, <2>1, <1>6 DEF Covers
  <2> QED
      BY <2>2, <1>6 DEF Covers
<1>7. ASSUME NEW j \in Jobs, jobs'[j].at = "calling", jobs'[j].obj \in Writers'
      PROVE  /\ jobs'[j].target <= Len(heap'[jobs'[j].obj].msgs)
             /\ \A i \in 1 .. jobs'[j].target :
                   heap'[jobs'[j].obj].msgs[i] \in archived' \cup jobs'[j].old
  <2> DEFINE o == jobs'[j].obj
             end == jobs'[j].target
  <2>1. jobs[j].obj = o /\ (jobs'[j] = jobs[j] \/ Covers(heap[o], jobs'[j].old, end))
      BY <1>1, <1>7 DEF NewPlans
  <2>2. o \in Writers
      BY <2>1, <1>3, <1>4, <1>7
  <2>3. jobs'[j] \in JobState
      BY <1>1 DEF Control, ControlTypes
  <2>4. end \in Nat /\ end <= Len(heap[o].msgs)
        /\ \A i \in 1 .. end : heap[o].msgs[i] \in archived \cup jobs'[j].old
    <3>1. CASE jobs'[j] = jobs[j]
        BY <3>1, <2>2, <2>3, <1>2, <1>7 DEF Planned, JobState
    <3>2. CASE Covers(heap[o], jobs'[j].old, end)
        BY <3>2, <2>2, <1>6
    <3> QED
        BY <3>1, <3>2, <2>1
  <2>5. /\ Len(heap[o].msgs) <= Len(heap'[o].msgs)
        /\ \A i \in 1 .. Len(heap[o].msgs) : heap'[o].msgs[i] = heap[o].msgs[i]
      BY <2>2, <1>4, <1>7 DEF Begins
  <2>6. Len(heap[o].msgs) \in Nat /\ Len(heap'[o].msgs) \in Nat
      BY <2>2, <1>3, <1>5 DEF Session
  <2> HIDE DEF o, end
  <2>7. end <= Len(heap'[o].msgs)
      BY <2>4, <2>5, <2>6
  <2>8. ASSUME NEW i \in 1 .. end PROVE heap'[o].msgs[i] \in archived' \cup jobs'[j].old
    <3>1. i \in 1 .. Len(heap[o].msgs)
        BY <2>4, <2>6
    <3> QED
        BY <3>1, <2>4, <2>5, <1>2
  <2> QED
      BY <2>7, <2>8 DEF o, end
<1>8. ASSUME turn'.at = "archiving"
      PROVE  \A i \in 1 .. Len(heap'[turn'.obj].msgs) :
                heap'[turn'.obj].msgs[i] \in archived' \cup turn'.old
  <2>1. /\ turn'.obj = turn.obj /\ next' = next /\ turn.obj \in Objects
        /\ turn' = turn \/ Covers(heap[turn.obj], turn'.old, Len(heap[turn.obj].msgs))
      BY <1>1, <1>8 DEF NewPromises
  <2>2. turn.obj \in Writers /\ turn.obj \in Writers'
      BY <2>1, SessionAssumption DEF Writers
  <2>3. heap'[turn.obj].msgs = heap[turn.obj].msgs
      BY <2>1, <2>2, <1>4
  <2>4. \A i \in 1 .. Len(heap[turn.obj].msgs) : heap[turn.obj].msgs[i] \in archived \cup turn'.old
    <3>1. CASE turn' = turn
        BY <3>1, <1>2, <1>8 DEF Promised
    <3>2. CASE Covers(heap[turn.obj], turn'.old, Len(heap[turn.obj].msgs))
        BY <3>2, <2>2, <1>6
    <3> QED
        BY <3>1, <3>2, <2>1
  <2> QED
      BY <2>1, <2>3, <2>4, <1>2
<1> QED
    BY <1>7, <1>8 DEF Planned, Promised

\* Nothing is stored and nobody is at work.
LEMMA InitInv ==
    ASSUME LogInit
    PROVE  LogInv
<1>1. /\ up = TRUE /\ heap = [o \in Objects |-> Empty] /\ cached = NoObject
      /\ file = [msgs |-> <<>>, cursor |-> 0, torn |-> FALSE] /\ persisted = 0 /\ appended = 0
      /\ turn = NoTurnYet /\ jobs = [j \in Jobs |-> NoJob] /\ exit = NoExit
      /\ flag = FALSE /\ dict = Nobody /\ holder = [l \in Locks |-> Nobody]
      /\ archived = {} /\ next = 1 /\ forked = FALSE
    BY DEF LogInit
<1>2. Empty \in Session /\ Len(Empty.msgs) = 0
    BY DEF Empty, Session
<1>3. file \in SessionFile /\ Len(file.msgs) = 0 /\ file.cursor = 0 /\ ~file.torn
    BY <1>1 DEF SessionFile
<1>4. 0 \in 0 .. Compact /\ 1 \in 1 .. MaxMessages + 1
    BY SessionAssumption
<1>5. StoreTypes /\ Sized
  <2>1. heap \in [Objects -> Session] /\ \A o \in Objects : Len(heap[o].msgs) = 0
      BY <1>1, <1>2
  <2>2. /\ up \in BOOLEAN /\ cached \in Objects \cup {NoObject} /\ forked \in BOOLEAN
        /\ persisted = 0 /\ appended = 0 /\ archived = {} /\ next = 1
      BY <1>1
  <2> QED
      BY <2>1, <2>2, <1>3, <1>4 DEF StoreTypes, Sized
<1>6. ControlTypes
    BY <1>1 DEF ControlTypes, NoTurnYet, NoJob, NoExit, TurnState, JobState, ExitState
<1>7. Placed
    BY <1>1 DEF Placed, NoTurnYet, NoJob, NoExit
<1>8. Locked
    BY <1>1, SessionAssumption DEF Locked, NoTurnYet, NoJob
<1>9. Writers = {}
    BY <1>1 DEF Writers, NoTurnYet, NoExit
<1>10. Counted /\ Agree
    BY <1>3, <1>9 DEF Counted, Agree, Summarised
<1>11. Planned /\ Promised
    BY <1>1 DEF Planned, Promised, NoTurnYet, NoJob
<1> QED
    BY <1>5, <1>6, <1>7, <1>8, <1>10, <1>11 DEF LogInv

\* The invariant is preserved by every step.
LEMMA StepInv ==
    ASSUME LogInv, [LogNext]_logVars
    PROVE  LogInv'
<1>1. Moved /\ Control'
    BY StoreStep, ControlStep
<1>2. ~forked' => Planned' /\ Promised'
    BY PlannedStep
<1> QED
    BY <1>1, <1>2 DEF LogInv, Moved, Control

\* The invariant holds: the file, the objects in use, the locks and what is being
\* archived go together in every state (session/manager.py, memory/consolidation.py).
THEOREM SessionInvariant == LogSpec => []LogInv
<1>1. LogInit => LogInv
    BY InitInv
<1>2. LogInv /\ [LogNext]_logVars => LogInv'
    BY StepInv
<1> QED
    BY <1>1, <1>2, PTL DEF LogSpec
-----------------------------------------------------------------------------
(* The properties *)

\* The state has its type, and a lock is held by the consolidation that is
\* calling the model (get_consolidation_lock, pop_consolidation_lock).
THEOREM SessionTypes == LogSpec => []SessionTypeOK
<1>1. LogInv => SessionTypeOK
  <2> SUFFICES ASSUME LogInv PROVE SessionTypeOK
      OBVIOUS
  <2>1. StoreTypes /\ ControlTypes /\ Sized /\ Locked
      BY DEF LogInv
  <2>2. /\ up \in BOOLEAN /\ cached \in Objects \cup {NoObject} /\ forked \in BOOLEAN
        /\ \A o \in Objects : heap[o].msgs \in Seq(1 .. MaxMessages) /\ heap[o].cursor \in Nat
        /\ file.msgs \in Seq(1 .. MaxMessages) /\ file.cursor \in Nat /\ file.torn \in BOOLEAN
        /\ appended \in 0 .. Compact /\ archived \subseteq 1 .. MaxMessages
        /\ next \in 1 .. MaxMessages + 1
      BY <2>1 DEF StoreTypes, Session, SessionFile, Messages
  <2>3. persisted \in 0 .. MaxMessages
      BY <2>1, <2>2, SessionAssumption DEF StoreTypes, Sized
  <2>4. /\ turn.at \in {"idle", "begun", "inferring", "waiting", "archiving"}
        /\ exit.at \in {"none", "calling", "done"}
        /\ \A j \in Jobs : jobs[j].at \in {"none", "waiting", "calling"}
        /\ flag \in BOOLEAN /\ dict \in Locks \cup {Nobody}
      BY <2>1 DEF ControlTypes, TurnState, JobState, ExitState
  <2>5. \A l \in Locks :
           /\ holder[l] \in Jobs => jobs[holder[l]].at = "calling"
           /\ holder[l] = "new" <=> turn.at = "archiving" /\ turn.lock = l
      BY <2>1 DEF Locked
  <2> QED
      BY <2>2, <2>3, <2>4, <2>5 DEF SessionTypeOK
<1> QED
    BY <1>1, SessionInvariant, PTL

\* The file holds what the objects in use hold, and the count of persisted
\* messages is its length, unless objects diverged or a line is torn
\* (_save_to_disk, get_or_create, _put_cache).
THEOREM SessionFileAgrees == LogSpec => []FileAgrees
<1>1. ASSUME LogInv, ~forked, ~file.torn, NEW o \in Writers
      PROVE  IsPrefix(file.msgs, heap[o].msgs) /\ persisted = Len(file.msgs)
  <2>1. heap[o].msgs = file.msgs /\ persisted = Len(file.msgs)
      BY <1>1 DEF LogInv, Agree, Counted, Present
  <2>2. file.msgs \in Seq(Messages)
      BY <1>1 DEF LogInv, StoreTypes, SessionFile
  <2>3. IsPrefix(file.msgs, file.msgs)
      BY <2>2 DEF IsPrefix
  <2> QED
      BY <2>1, <2>3
<1>2. LogInv => FileAgrees
    BY <1>1 DEF FileAgrees
<1> QED
    BY <1>2, SessionInvariant, PTL

\* A message before the cursor is in the archive: what the model no longer reads
\* was summarised (_consolidation_plan, _persist_consolidation_result).
THEOREM SessionNeverSkipped == LogSpec => []NeverSkipped
<1>1. ASSUME LogInv, ~forked
      PROVE  /\ \A o \in Writers : \A i \in 1 .. Len(heap[o].msgs) :
                   i <= heap[o].cursor => heap[o].msgs[i] \in archived
             /\ \A i \in 1 .. Len(file.msgs) : i <= file.cursor => file.msgs[i] \in archived
  <2>1. /\ \A o \in Writers : Summarised(heap[o], archived) /\ heap[o].cursor \in Nat
        /\ Summarised(file, archived) /\ file.cursor \in Nat
      BY <1>1, WritersFacts DEF LogInv, Agree, StoreTypes, Session, SessionFile
  <2> QED
      BY <2>1 DEF Summarised
<1>2. LogInv => NeverSkipped
    BY <1>1 DEF NeverSkipped
<1> QED
    BY <1>2, SessionInvariant, PTL

\* /new clears nothing that is not in the archive, whatever ran before it and
\* however it ends, unless the file could not be read or objects diverged (the
\* /new branch of _handle_slash_commands).
THEOREM SessionNewKeepsAll == LogSpec => NewKeepsAll
<1> DEFINE Kept == turn.at \in {"waiting", "archiving"} /\ up' /\ ~forked /\ ~file.torn =>
                      IdsOf(file.msgs) \subseteq IdsOf(file'.msgs) \cup archived'
<1>1. LogInv /\ [LogNext]_logVars => Kept
  <2> SUFFICES ASSUME LogInv, [LogNext]_logVars,
                      turn.at \in {"waiting", "archiving"}, up', ~forked, ~file.torn
               PROVE  IdsOf(file.msgs) \subseteq IdsOf(file'.msgs) \cup archived'
      OBVIOUS
  <2>1. /\ Agree /\ Promised /\ Present = file.msgs /\ turn.at # "idle" /\ exit.at = "none"
        /\ turn.obj \in Writers /\ heap[turn.obj].msgs = file.msgs
      BY HeldFacts DEF LogInv, Agree, Present, Placed
  <2>2. file.msgs \in Seq(Messages) /\ heap[turn.obj] \in Session
      BY <2>1, WritersFacts DEF LogInv, StoreTypes, SessionFile
  <2>3. IdsOf(file.msgs) = {file.msgs[i] : i \in 1 .. Len(file.msgs)}
      BY <2>2, AllIdsFacts
  <2>4. CASE file' = file
      BY <2>4
  <2>5. CASE Evict
    <3>1. cached \in Writers /\ Saves(heap[cached], persisted, appended)
        BY <2>5 DEF Evict, Writers
    <3>2. heap[cached] \in Session /\ heap[cached].msgs = file.msgs
          /\ Begins(heap[cached].msgs, heap[cached].msgs)
        BY <3>1, <2>1, WritersFacts DEF Agree
    <3>3. StoreTypes /\ Counted /\ persisted \in Nat /\ appended \in 0 .. Compact
          /\ persisted = Len(Present)
        BY <2>1 DEF LogInv, StoreTypes, Counted
    <3>4. file'.msgs = file.msgs
        BY <3>1, <3>2, <3>3, <2>1, SavesFacts
    <3> QED
        BY <3>4
  <2>6. CASE NewAcquires /\ Clears
    <3> DEFINE s == heap[turn.obj]
               old == IdsOf(SubSeq(s.msgs, s.cursor + 1, Len(s.msgs)))
    <3>1. old = {}
      <4>1. old # {} => turn' = [turn EXCEPT !.at = "archiving", !.old = old]
          BY <2>6 DEF NewAcquires
      <4>2. turn' = NoTurnYet /\ turn \in TurnState
          BY <2>6 DEF Clears, LogInv, ControlTypes
      <4> HIDE DEF old
      <4> QED
          BY <4>1, <4>2 DEF NoTurnYet, TurnState
    <3>2. Covers(s, old, Len(s.msgs))
      <4>1. Len(s.msgs) \in Nat
          BY <2>2 DEF Session
      <4> HIDE DEF s
      <4> QED
          BY <4>1, <2>2, PlanFacts DEF s
    <3>3. Summarised(s, archived) /\ s.cursor \in Nat
        BY <2>1, <2>2 DEF Agree, Session
    <3>4. \A i \in 1 .. Len(s.msgs) : s.msgs[i] \in archived
      <4> HIDE DEF s, old
      <4> QED
          BY <3>1, <3>2, <3>3 DEF Covers, Summarised
    <3>5. archived' = archived
        BY <2>6 DEF NewAcquires
    <3> QED
        BY <3>4, <3>5, <2>1, <2>3
  <2>7. CASE NewArchives
    <3>1. turn.at = "archiving" /\ archived' = archived \cup turn.old
        BY <2>7 DEF NewArchives
    <3> QED
        BY <3>1, <2>1, <2>3 DEF Promised
  <2>8. \/ file' = file \/ Evict \/ (NewAcquires /\ Clears) \/ NewArchives
    <3>1. CASE TurnBegins \/ Reply \/ DrainEnds
        BY <3>1, <2>1 DEF TurnBegins, Reply, DrainEnds
    <3>2. CASE Chat \/ Blocked \/ Finalize \/ TurnStops \/ Reboot \/ NewBegins
        BY <3>2 DEF Chat, Blocked, Finalize, TurnStops, Reboot, NewBegins
    <3>3. CASE NewAcquires
        BY <3>3 DEF NewAcquires
    <3>4. CASE NewFails
        BY <3>4 DEF NewFails, LogUnchanged
    <3>5. ASSUME NEW j \in Jobs, JobMoves(j) PROVE file' = file
        BY <3>5 DEF JobMoves, JobAcquires, JobArchives, JobFails, LogUnchanged
    <3>6. CASE Die
        BY <3>6 DEF Die
    <3>7. CASE Peek \/ DrainBegins \/ Restart \/ UNCHANGED logVars
        BY <3>7 DEF Peek, DrainBegins, Restart, logVars
    <3> QED
        BY <3>1, <3>2, <3>3, <3>4, <3>5, <3>6, <3>7 DEF LogNext, TurnMoves
  <2> QED
      BY <2>4, <2>5, <2>6, <2>7, <2>8
<1>2. LogInv /\ [LogNext]_logVars => [Kept]_logVars
    BY <1>1
<1> QED
    BY <1>2, SessionInvariant, PTL DEF LogSpec, NewKeepsAll
-----------------------------------------------------------------------------
(* What the exception of all three comes from *)

\* An object in use is not evicted.
EvictsUnused == Evict => turn.at = "idle" /\ exit.at # "calling"

\* Then the object in use is the cached one.
OneObject ==
    /\ turn.obj # NoObject => cached = turn.obj
    /\ exit.obj # NoObject => cached = exit.obj
    /\ ~forked

LEMMA OneObjectStep ==
    ASSUME LogInv, OneObject, [LogNext]_logVars, EvictsUnused
    PROVE  OneObject'
<1>a. /\ turn.at = "idle" <=> turn.obj = NoObject
      /\ exit.at = "calling" <=> exit.obj # NoObject
      /\ turn.at = "idle" \/ exit.at = "none"
      /\ turn \in TurnState
    BY DEF LogInv, Placed, ControlTypes
<1>b. OneObject /\ Writers = {cached, turn.obj, exit.obj} \ {NoObject}
    BY DEF Writers
<1>c. ASSUME NEW h, Grows(h), cached = NoObject \/ h.obj = cached,
             turn.obj # NoObject \/ exit.obj # NoObject => h.obj = cached
      PROVE  cached' = h.obj /\ ~forked'
    BY <1>b, <1>c DEF Grows, OneObject
<1>1. CASE TurnBegins
  <2>1. /\ cached' = Opened.obj /\ turn'.obj = Opened.obj /\ exit' = exit
        /\ exit.at = "none" /\ forked' = forked
      BY <1>1 DEF TurnBegins, Opens, NoTurnYet
  <2> QED
      BY <2>1, <1>a, <1>b DEF OneObject
<1>2. CASE Chat \/ Finalize
  <2>1. turn.at # "idle" /\ Grows(Held) /\ exit' = exit /\ turn'.obj \in {turn.obj, NoObject}
      BY <1>2, <1>a DEF Chat, Finalize, NoTurnYet, TurnState
  <2>2. Held.obj = turn.obj
      BY DEF Held
  <2>3. cached' = turn.obj /\ ~forked'
      BY <2>1, <2>2, <1>a, <1>b, <1>c DEF OneObject
  <2> QED
      BY <2>1, <2>3, <1>a DEF OneObject
<1>3. CASE Reply
  <2>1. turn.at # "idle" /\ CanOpen /\ Grows(Opened) /\ exit' = exit /\ turn' = turn
      BY <1>3 DEF Reply
  <2>2. cached = turn.obj /\ cached # NoObject
      BY <2>1, <1>a, <1>b DEF OneObject
  <2>3. Opened.obj = cached
      BY <2>1, <2>2, OpenedFacts
  <2>4. cached' = cached /\ ~forked'
      BY <2>1, <2>2, <2>3, <1>c
  <2> QED
      BY <2>1, <2>4, <1>b DEF OneObject
<1>4. CASE Blocked \/ TurnStops \/ NewFails
  <2>1. turn'.obj = NoObject /\ UNCHANGED <<exit, cached, forked>>
      BY <1>4 DEF Blocked, TurnStops, NewFails, LogUnchanged, NoTurnYet
  <2> QED
      BY <2>1, <1>b DEF OneObject
<1>5. ASSUME Clears, turn.at # "idle", UNCHANGED <<exit, forked>>
      PROVE  OneObject'
  <2>1. turn'.obj = NoObject
      BY <1>5 DEF Clears, NoTurnYet
  <2> QED
      BY <2>1, <1>5, <1>a, <1>b DEF OneObject
<1>6. CASE Reboot \/ NewArchives
    BY <1>5, <1>6 DEF Reboot, NewArchives
<1>7. CASE NewBegins
  <2>1. turn'.obj = turn.obj /\ UNCHANGED <<exit, cached, forked>>
      BY <1>7, <1>a DEF NewBegins, TurnState, LogUnchanged
  <2> QED
      BY <2>1, <1>b DEF OneObject
<1>8. CASE NewAcquires
  <2>1. turn.at # "idle" /\ UNCHANGED <<exit, forked>>
      BY <1>8 DEF NewAcquires
  <2>2. CASE Clears
      BY <2>1, <2>2, <1>5
  <2>3. CASE /\ \E old : turn' = [turn EXCEPT !.at = "archiving", !.old = old]
             /\ UNCHANGED <<heap, cached, file, persisted, appended>>
    <3>1. turn'.obj = turn.obj
        BY <2>3, <1>a DEF TurnState
    <3> QED
        BY <2>1, <2>3, <3>1, <1>b DEF OneObject
  <2> QED
      BY <1>8, <2>2, <2>3 DEF NewAcquires
<1>9. CASE Peek
  <2>1. cached = NoObject /\ UNCHANGED <<turn, exit, forked>>
      BY <1>9 DEF Peek
  <2> QED
      BY <2>1, <1>b DEF OneObject
<1>10. CASE Evict
  <2>1. turn.at = "idle" /\ exit.at # "calling" /\ UNCHANGED <<turn, exit, forked>>
      BY <1>10 DEF Evict, EvictsUnused
  <2> QED
      BY <2>1, <1>a, <1>b DEF OneObject
<1>11. ASSUME NEW j \in Jobs, JobMoves(j)
       PROVE  OneObject'
    BY <1>11, <1>b DEF JobMoves, JobAcquires, JobArchives, JobFails, LogUnchanged, OneObject
<1>12. CASE DrainBegins
  <2>1. /\ turn.at = "idle" /\ cached' = Opened.obj /\ exit'.obj = Opened.obj
        /\ UNCHANGED <<turn, forked>>
      BY <1>12 DEF DrainBegins, Opens
  <2> QED
      BY <2>1, <1>a, <1>b DEF OneObject
<1>13. CASE DrainEnds
  <2>1. exit.at = "calling" /\ exit'.obj = NoObject /\ UNCHANGED <<turn, forked>>
      BY <1>13 DEF DrainEnds, NoExit
  <2> QED
      BY <2>1, <1>a, <1>b DEF OneObject
<1>14. CASE Die
  <2>1. /\ turn'.obj = NoObject /\ exit'.obj = NoObject /\ file' \in Interrupted
        /\ forked' = (forked \/ (file'.msgs # file.msgs /\ Writers \ {turn.obj} # {}))
      BY <1>14 DEF Die, NoTurnYet, NoExit
  <2>2. turn.at # "idle" => Writers \ {turn.obj} = {}
      BY <1>a, <1>b DEF OneObject
  <2>3. turn.at = "idle" => file'.msgs = file.msgs
    <3>1. turn.at = "idle" => file' \in {file, [file EXCEPT !.torn = TRUE]}
        BY <2>1 DEF Interrupted
    <3> QED
        BY <3>1 DEF LogInv, StoreTypes, SessionFile
  <2> QED
      BY <2>1, <2>2, <2>3, <1>b DEF OneObject
<1>15. CASE Restart \/ UNCHANGED logVars
    BY <1>15, <1>b DEF Restart, logVars, OneObject
<1> QED
    BY <1>1, <1>2, <1>3, <1>4, <1>6, <1>7, <1>8, <1>9, <1>10, <1>11, <1>12, <1>13, <1>14,
       <1>15 DEF LogNext, TurnMoves

\* Were no object evicted while a turn or the exit holds it, no two objects would ever
\* diverge, and the file would hold what the one in use holds: _put_cache, which evicts
\* the least recently used session whoever works on it, is all that can part them.
THEOREM SessionOneObject ==
    LogInit /\ [][LogNext /\ EvictsUnused]_logVars =>
        [](~forked /\ \A o \in Writers : o = cached /\ heap[o].msgs = Present)
<1>1. LogInit => OneObject
    BY DEF LogInit, OneObject, NoTurnYet, NoExit
<1>2. LogInv /\ OneObject /\ [LogNext /\ EvictsUnused]_logVars => OneObject'
  <2>1. OneObject /\ UNCHANGED logVars => OneObject'
      BY DEF OneObject, logVars
  <2> QED
      BY <2>1, OneObjectStep
<1>3. LogInv /\ OneObject => ~forked /\ \A o \in Writers : o = cached /\ heap[o].msgs = Present
    BY DEF LogInv, OneObject, Agree, Writers
<1>4. [LogNext /\ EvictsUnused]_logVars => [LogNext]_logVars
    OBVIOUS
<1>5. LogInv /\ [LogNext]_logVars => LogInv'
    BY StepInv
<1> QED
    BY <1>1, <1>2, <1>3, <1>4, <1>5, InitInv, PTL
=============================================================================

----------------------------- MODULE TurnProofs -----------------------------
(***************************************************************************)
(* Proofs about TurnLifecycle, for every set of turns and every limit on   *)
(* retries.                                                                *)
(*                                                                         *)
(* The safety properties are about three records of the same turn that are *)
(* written at different moments: the task, the log and the checkpoints.    *)
(* What makes them inductive is where the turn is when they differ         *)
(* (Placed, Stored, Rows), and that a turn that has not begun has left no  *)
(* trace in any of them (Untouched).                                       *)
(***************************************************************************)
EXTENDS TurnLifecycle, FiniteSetTheorems, SequenceTheorems, TLAPS

\* A turn in progress has the worker, and nobody else is being answered.
Placed ==
    /\ at = "idle" <=> turn = NoTurn
    /\ turn # NoTurn => fate[turn] = "running"
    /\ ~running => turn = NoTurn /\ question = NoTurn

Requests(l, t) == {i \in DOMAIN l : l[i] = <<t, "user">>}
Followed(l) ==
    \A t \in Turns : \A i \in DOMAIN l :
        l[i] = <<t, "assistant">> => \E k \in 1 .. i - 1 : l[k] = <<t, "user">>

\* An attempt that did not store the request may still store it, once.
Stored ==
    /\ Followed(log)
    /\ mine => Holds(turn) /\ at \notin {"idle", "starting"}
    /\ \A t \in Turns : Cardinality(Requests(log, t)) <= attempts[t]
    /\ turn # NoTurn => attempts[turn] >= 1
    /\ at \in {"starting", "stored", "building", "inferring", "asking"} /\ ~mine =>
          Cardinality(Requests(log, turn)) < attempts[turn]

\* A turn that has not begun.
Untouched ==
    \A t \in Turns :
        fate[t] = "waiting" => latest[1] # t /\ question # t /\ ~Holds(t)

\* What the last row says of the turn it names, unless a row of that turn was
\* lost; and what it says of the turn in progress.
Rows ==
    /\ latest[1] = NoTurn => latest[2] = "completed"
    /\ latest[2] \notin Terminal /\ latest[1] \notin blind => fate[latest[1]] \notin Told
    /\ at \in {"starting", "stored"} /\ latest[1] = turn /\ turn \notin blind =>
          latest[2] \in Terminal
    /\ at = "publishing" /\ turn \notin blind => latest = <<turn, "completed">>
    /\ at \in Recording /\ turn \notin blind =>
          latest[1] = turn /\ latest[2] \notin {"completed", "failed"}
    /\ ~running /\ lost[1] \notin blind \cup {NoTurn} =>
          /\ lost[2] \in Recording =>
                latest[1] = lost[1] /\ latest[2] \notin {"completed", "failed"}
          /\ lost[2] = "publishing" => latest = <<lost[1], "completed">>

\* A question that is not being waited for belongs to a turn with a lost row.
Asked ==
    question # NoTurn => question \in blind \/ (at = "asking" /\ question = turn)

TurnInv == TurnTypeOK /\ Placed /\ TaskTells /\ Stored /\ Untouched /\ Rows /\ Asked
-----------------------------------------------------------------------------
\* What a checkpoint write leaves behind: a row of the turn, or a turn with a
\* lost row.
LEMMA RecordedFacts ==
    ASSUME TurnTypeOK, NEW t \in Turns, NEW s \in Status, Recorded(t, s)
    PROVE  /\ latest' \in (Turns \cup {NoTurn}) \X Status
           /\ torn' \in BOOLEAN /\ blind' \subseteq Turns
           /\ \/ latest' = <<t, s>> /\ blind' = blind
              \/ latest' = latest /\ blind' = blind \cup {t}
<1>1. latest \in (Turns \cup {NoTurn}) \X Status /\ torn \in BOOLEAN /\ blind \subseteq Turns
    BY DEF TurnTypeOK
<1>2. <<t, s>> \in (Turns \cup {NoTurn}) \X Status
    OBVIOUS
<1>3. CASE Appended(t, s)
    BY <1>1, <1>2, <1>3 DEF Appended
<1>4. CASE blind' = blind \cup {t} /\ UNCHANGED <<latest, torn>>
    BY <1>1, <1>4
<1> QED
    BY <1>3, <1>4 DEF Recorded

\* What the start of a process does to the rows.
LEMMA MarkFacts ==
    ASSUME TurnTypeOK, Rows, MarkInterrupted
    PROVE  /\ latest' \in (Turns \cup {NoTurn}) \X Status
           /\ torn' \in BOOLEAN /\ blind' \subseteq Turns
           /\ \/ latest' = latest /\ blind' = blind /\ (torn' = torn)
                 /\ latest[2] \in Terminal
              \/ latest' = <<latest[1], "interrupted">> /\ blind' = blind /\ ~torn
                 /\ latest[2] \notin Terminal
              \/ latest' = latest /\ blind' = blind \cup {latest[1]} /\ torn
                 /\ latest[2] \notin Terminal
<1>1. latest[1] \in Turns \cup {NoTurn} /\ latest[2] \in Status
    BY DEF TurnTypeOK
<1>2. latest[2] \notin Terminal => latest[1] \in Turns
    BY <1>1 DEF Rows, Terminal
<1>3. latest \in (Turns \cup {NoTurn}) \X Status /\ torn \in BOOLEAN /\ blind \subseteq Turns
    BY DEF TurnTypeOK
<1> QED
  <2>1. CASE latest[2] \in Terminal
    BY <1>3, <2>1 DEF MarkInterrupted
  <2>2. CASE latest[2] \notin Terminal
    <3>1. latest[1] \in Turns /\ Appended(latest[1], "interrupted")
        BY <1>2, <2>2 DEF MarkInterrupted
    <3>2. <<latest[1], "interrupted">> \in (Turns \cup {NoTurn}) \X Status
        BY <3>1 DEF Status, Terminal
    <3> QED
        BY <1>3, <2>2, <3>1, <3>2 DEF Appended
  <2> QED
    BY <2>1, <2>2

\* A turn that is being executed is one of the turns.
LEMMA InTurn ==
    ASSUME TurnTypeOK, Placed
    PROVE  at # "idle" => turn \in Turns /\ turn # NoTurn /\ fate[turn] = "running"
BY DEF TurnTypeOK, Placed

-----------------------------------------------------------------------------
\* A failed attempt starts another one, within the limits, or ends the turn: types.
LEMMA FailsType ==
    ASSUME TurnTypeOK, NEW t \in Turns, Fails(t), turn = t
    PROVE  /\ turn' \in Turns \cup {NoTurn} /\ mine' \in BOOLEAN
           /\ at' \in {"idle", "starting"}
           /\ attempts' \in [Turns -> 0 .. MaxAttempts]
           /\ task' \in [Turns -> TaskState \cup {"none"}]
           /\ retries' \in [Turns -> 0 .. TaskRetries]
           /\ active' \subseteq Turns
           /\ fate' \in [Turns -> {"waiting", "running"} \cup Over]
<1>1. /\ attempts[t] \in 0 .. MaxAttempts /\ retries[t] \in 0 .. TaskRetries
      /\ MaxAttempts \in Nat /\ TaskRetries \in Nat
    BY TurnsAssumption DEF TurnTypeOK
<1>2. CASE attempts[t] < MaxAttempts /\ t \in active /\ retries[t] < TaskRetries
    <2>1. retries[t] + 1 \in 0 .. TaskRetries /\ attempts[t] + 1 \in 0 .. MaxAttempts
        BY <1>1, <1>2
    <2> QED
        BY <1>2, <2>1 DEF Fails, TurnTypeOK
<1>3. CASE ~(attempts[t] < MaxAttempts /\ t \in active /\ retries[t] < TaskRetries)
    BY <1>3 DEF Fails, Ends, TurnTypeOK, TaskState, Over, Told
<1> QED
    BY <1>2, <1>3

\* An attempt that succeeded ends the turn: types.
LEMMA SucceedsType ==
    ASSUME TurnTypeOK, NEW t \in Turns, Succeeds(t)
    PROVE  /\ turn' = NoTurn /\ mine' = FALSE /\ at' = "idle"
           /\ task' \in [Turns -> TaskState \cup {"none"}]
           /\ active' \subseteq Turns
           /\ fate' \in [Turns -> {"waiting", "running"} \cup Over]
BY DEF Succeeds, Ends, TurnTypeOK, TaskState, Over, Told

\* Every step keeps the types.
LEMMA TypeStep ==
    ASSUME TurnTypeOK, Placed, Rows, [TurnNext]_turnVars
    PROVE  TurnTypeOK'
<1> USE DEF TurnTypeOK, Place
<1>a. /\ {"waiting_user", "building_context", "inferring", "finalizing", "completed",
           "failed", "interrupted"} \subseteq Status
      /\ {"running", "refused", "cancelled", "crashed"} \subseteq
              {"waiting", "running"} \cup Over
    BY DEF Status, Terminal, Over
<1>b. at # "idle" => turn \in Turns
    BY InTurn
<1>c. 1 \in 0 .. MaxAttempts
    BY TurnsAssumption
<1>1. ASSUME NEW t \in Turns, Begin(t) PROVE TurnTypeOK'
    BY <1>1, <1>a, <1>c DEF Begin, TaskState
<1>2. ASSUME NEW t \in Turns, Refused(t) PROVE TurnTypeOK'
    BY <1>2, <1>a DEF Refused
<1>3. CASE Reply
    <2>1. question \in Turns
        BY <1>3 DEF Reply
    <2>2. latest' \in (Turns \cup {NoTurn}) \X Status /\ blind' \subseteq Turns
        BY <1>3, <2>1, <1>a DEF Reply
    <2> QED
        BY <1>3, <2>2 DEF Reply
<1>4. CASE Shortcut
    <2>1. turn \in Turns /\ Succeeds(turn)
        BY <1>4, <1>b DEF Shortcut
    <2> QED
        BY <1>4, <2>1, SucceedsType DEF Shortcut
<1>5. CASE Accept
    <2>1. turn \in Turns /\ Recorded(turn, "building_context")
        BY <1>5, <1>b DEF Accept
    <2> QED
        BY <1>5, <2>1, <1>a, RecordedFacts DEF Accept
<1>18. CASE Persist
    <2>1. turn \in Turns
        BY <1>18, <1>b DEF Persist
    <2>2. log' \in Seq(Turns \X {"user", "assistant"}) /\ mine' \in BOOLEAN
        BY <1>18, <2>1 DEF Persist
    <2> QED
        BY <1>18, <2>1, <2>2 DEF Persist
<1>6. CASE Infer
    <2>1. turn \in Turns /\ Recorded(turn, "inferring")
        BY <1>6, <1>b DEF Infer
    <2> QED
        BY <1>6, <2>1, <1>a, RecordedFacts DEF Infer
<1>7. CASE Ask
    <2>1. turn \in Turns
        BY <1>7, <1>b DEF Ask
    <2>2. latest' \in (Turns \cup {NoTurn}) \X Status /\ blind' \subseteq Turns
          /\ torn' \in BOOLEAN /\ at' \in {"asking", "inferring"}
      <3>1. <<turn, "waiting_user">> \in (Turns \cup {NoTurn}) \X Status
        BY <2>1, <1>a
      <3>2. CASE Appended(turn, "waiting_user") /\ at' = "asking"
        BY <2>1, <3>1, <3>2 DEF Appended
      <3>3. CASE blind' = blind \cup {turn} /\ UNCHANGED <<latest, torn, at>>
        BY <1>7, <2>1, <3>3 DEF Ask
      <3> QED
        BY <1>7, <3>2, <3>3 DEF Ask
    <2> QED
        BY <1>7, <2>1, <2>2 DEF Ask
<1>8. CASE QuestionTimesOut
    BY <1>8 DEF QuestionTimesOut
<1>9. CASE Complete
    <2>1. turn \in Turns /\ Recorded(turn, "completed")
        BY <1>9, <1>b DEF Complete
    <2> QED
        BY <1>9, <2>1, <1>a, RecordedFacts DEF Complete
<1>10. CASE PublishAnswer
    <2>1. turn \in Turns /\ Succeeds(turn)
        BY <1>10, <1>b DEF PublishAnswer
    <2> QED
        BY <1>10, <2>1, SucceedsType DEF PublishAnswer
<1>11. CASE Finalize
    <2>1. turn \in Turns /\ Recorded(turn, "finalizing")
        BY <1>11, <1>b DEF Finalize
    <2>2. log' \in Seq(Turns \X {"user", "assistant"})
      <3>1. <<>> \in Seq(Turns \X {"user", "assistant"})
            /\ <<<<turn, "user">>>> \in Seq(Turns \X {"user", "assistant"})
            /\ <<<<turn, "assistant">>>> \in Seq(Turns \X {"user", "assistant"})
        BY <2>1
      <3>2. \A a, b, c \in Seq(Turns \X {"user", "assistant"}) :
                (a \o b) \o c \in Seq(Turns \X {"user", "assistant"})
        OBVIOUS
      <3>3. log' = (log \o (IF mine THEN <<>> ELSE <<<<turn, "user">>>>))
                    \o <<<<turn, "assistant">>>>
        BY <1>11 DEF Finalize
      <3> QED
        BY <3>1, <3>2, <3>3
    <2> QED
        BY <1>11, <2>1, <2>2, <1>a, RecordedFacts DEF Finalize
<1>12. CASE AttemptFails
    <2>1. turn \in Turns /\ Fails(turn)
        BY <1>12, <1>b DEF AttemptFails
    <2>2. Unrecorded \/ Recorded(turn, "failed")
        BY <1>12 DEF AttemptFails
    <2>3. latest' \in (Turns \cup {NoTurn}) \X Status /\ blind' \subseteq Turns
          /\ torn' \in BOOLEAN
        BY <2>1, <2>2, <1>a, RecordedFacts DEF Unrecorded
    <2> QED
        BY <1>12, <2>1, <2>3, FailsType DEF AttemptFails
<1>13. CASE Cancel
    <2>1. turn \in Turns /\ Ends(turn, "cancelled")
        BY <1>13, <1>b DEF Cancel
    <2>2. Unrecorded \/ Recorded(turn, "interrupted")
        BY <1>13 DEF Cancel
    <2>3. latest' \in (Turns \cup {NoTurn}) \X Status /\ blind' \subseteq Turns
          /\ torn' \in BOOLEAN
        BY <2>1, <2>2, <1>a, RecordedFacts DEF Unrecorded
    <2> QED
        BY <1>13, <2>1, <2>3, <1>a DEF Cancel, Ends
<1>14. CASE Die
    <2>1. /\ running' = FALSE /\ db' = "closed" /\ turn' = NoTurn /\ at' = "idle"
          /\ mine' = FALSE /\ active' = {} /\ question' = NoTurn
          /\ torn' \in BOOLEAN
          /\ UNCHANGED <<attempts, replies, log, latest, blind>>
        BY <1>14 DEF Die
    <2>2. task' \in [Turns -> TaskState \cup {"none"}]
        BY <1>14 DEF Die
    <2>3. retries' \in [Turns -> 0 .. TaskRetries]
        BY <1>14, TurnsAssumption DEF Die
    <2>4. fate' \in [Turns -> {"waiting", "running"} \cup Over]
        BY <1>14, <1>a DEF Die
    <2>5. lost' \in (Turns \cup {NoTurn}) \X Place
        BY <1>14 DEF Die
    <2> QED
        BY <2>1, <2>2, <2>3, <2>4, <2>5
<1>15. CASE Restart
    BY <1>15, MarkFacts DEF Restart
<1>16. CASE OtherProcess
    BY <1>16, MarkFacts DEF OtherProcess
<1>17. CASE UNCHANGED turnVars
    BY <1>17 DEF turnVars
<1> QED
    BY <1>1, <1>2, <1>3, <1>4, <1>5, <1>6, <1>7, <1>8, <1>9, <1>10, <1>11, <1>12, <1>13,
       <1>14, <1>15, <1>16, <1>17, <1>18 DEF TurnNext, TurnStep, InferenceEnds
-----------------------------------------------------------------------------
\* The worker, the tasks and what the user was told.

\* An attempt that failed is followed by another one, or ends the turn.
LEMMA FailsFacts ==
    ASSUME TurnTypeOK, NEW t \in Turns, Fails(t)
    PROVE  \/ /\ at' = "starting" /\ mine' = FALSE
              /\ attempts' = [attempts EXCEPT ![t] = @ + 1]
              /\ UNCHANGED <<turn, task, active, fate>>
           \/ /\ at' = "idle" /\ turn' = NoTurn /\ mine' = FALSE
              /\ task' = [task EXCEPT ![t] = "failed"]
              /\ active' = active \ {t}
              /\ fate' = [fate EXCEPT ![t] = "failed"]
              /\ UNCHANGED attempts
BY DEF Fails, Ends

\* The turn in progress keeps the worker in these steps.
WithinTurn == Reply \/ Persist \/ Accept \/ Infer \/ Ask \/ QuestionTimesOut \/ Finalize \/ Complete

\* These leave the worker alone.
BesideTurn == Restart \/ OtherProcess \/ UNCHANGED turnVars

\* The worker belongs to the turn in progress after every step.
LEMMA PlacedStep ==
    ASSUME TurnTypeOK, Placed, [TurnNext]_turnVars
    PROVE  Placed'
<1>a. at # "idle" => turn \in Turns /\ turn # NoTurn /\ fate[turn] = "running" /\ running
    BY InTurn DEF Placed
<1>b. fate \in [Turns -> {"waiting", "running"} \cup Over] /\ NoTurn \notin Turns
    BY TurnsAssumption DEF TurnTypeOK
<1>1. ASSUME NEW t \in Turns, Begin(t) PROVE Placed'
    BY <1>1, <1>b DEF Begin, Placed
<1>2. ASSUME NEW t \in Turns, Refused(t) PROVE Placed'
    BY <1>2, <1>b DEF Refused, Placed
<1>3. CASE WithinTurn
    BY <1>3, <1>a DEF WithinTurn, Placed, Reply, Persist, Accept, Infer, Ask, QuestionTimesOut,
                      Finalize, Complete
<1>4. CASE Shortcut \/ PublishAnswer
    BY <1>4, <1>a DEF Shortcut, PublishAnswer, Succeeds, Ends, Placed
<1>5. CASE AttemptFails
    <2>1. /\ turn \in Turns /\ Fails(turn) /\ running' = running /\ running
          /\ turn # NoTurn /\ fate[turn] = "running"
        BY <1>5, <1>a DEF AttemptFails
    <2>2. CASE at' = "starting" /\ UNCHANGED <<turn, fate>>
        BY <2>1, <2>2 DEF Placed
    <2>3. CASE at' = "idle" /\ turn' = NoTurn
        BY <2>1, <2>3 DEF Placed
    <2> QED
        BY <2>1, <2>2, <2>3, FailsFacts
<1>6. CASE Cancel
    BY <1>6, <1>a DEF Cancel, Ends, Placed
<1>7. CASE Die
    BY <1>7 DEF Die, Placed
<1>8. CASE BesideTurn
    BY <1>8 DEF BesideTurn, Restart, OtherProcess, turnVars, Placed
<1> QED
    BY <1>1, <1>2, <1>3, <1>4, <1>5, <1>6, <1>7, <1>8
    DEF TurnNext, TurnStep, InferenceEnds, WithinTurn, BesideTurn

\* The registry follows what the user is told.
LEMMA TellsStep ==
    ASSUME TurnTypeOK, Placed, TaskTells, [TurnNext]_turnVars
    PROVE  TaskTells'
<1>a. at # "idle" => turn \in Turns /\ turn # NoTurn /\ fate[turn] = "running"
    BY InTurn
<1>b. /\ fate \in [Turns -> {"waiting", "running"} \cup Over] /\ NoTurn \notin Turns
      /\ task \in [Turns -> TaskState \cup {"none"}] /\ active \subseteq Turns
    BY TurnsAssumption DEF TurnTypeOK
<1>1. ASSUME NEW t \in Turns, Begin(t) PROVE TaskTells'
    BY <1>1, <1>b DEF Begin, TaskTells
<1>2. ASSUME NEW t \in Turns, Refused(t) PROVE TaskTells'
    BY <1>2, <1>b DEF Refused, TaskTells
<1>3. CASE WithinTurn \/ BesideTurn
    <2>1. UNCHANGED <<turn, task, active, fate>>
        BY <1>3 DEF WithinTurn, Reply, Persist, Accept, Infer, Ask, QuestionTimesOut, Finalize,
                    Complete, BesideTurn, Restart, OtherProcess, turnVars
    <2> QED
        BY <2>1 DEF TaskTells
<1>4. CASE Shortcut \/ PublishAnswer
    <2>1. turn \in Turns /\ Succeeds(turn)
        BY <1>4, <1>a DEF Shortcut, PublishAnswer
    <2> QED
        BY <2>1, <1>b DEF Succeeds, Ends, TaskTells
<1>5. CASE AttemptFails
    <2>1. turn \in Turns /\ Fails(turn)
        BY <1>5, <1>a DEF AttemptFails
    <2> QED
        BY <2>1, <1>b, FailsFacts DEF TaskTells
<1>6. CASE Cancel
    <2>1. turn \in Turns /\ Ends(turn, "cancelled") /\ UNCHANGED <<task, active>>
          /\ fate[turn] = "running"
        BY <1>6, <1>a DEF Cancel
    <2> QED
        BY <2>1, <1>b DEF Ends, TaskTells
<1>7. CASE Die
    BY <1>7 DEF Die, TaskTells
<1> QED
    BY <1>1, <1>2, <1>3, <1>4, <1>5, <1>6, <1>7
    DEF TurnNext, TurnStep, InferenceEnds, WithinTurn, BesideTurn

-----------------------------------------------------------------------------
\* The log.

\* What Append does to the places of a log.
LEMMA AppendFacts ==
    ASSUME NEW S, NEW l \in Seq(S), NEW e \in S
    PROVE  /\ Append(l, e) \in Seq(S) /\ Len(l) \in Nat
           /\ DOMAIN l = 1 .. Len(l) /\ DOMAIN Append(l, e) = 1 .. Len(l) + 1
           /\ Append(l, e)[Len(l) + 1] = e
           /\ \A i \in 1 .. Len(l) : Append(l, e)[i] = l[i]
OBVIOUS

\* m is l with one more entry.
Extends(m, l, e) ==
    /\ DOMAIN l = 1 .. Len(l) /\ Len(l) \in Nat /\ DOMAIN m = 1 .. Len(l) + 1
    /\ m[Len(l) + 1] = e
    /\ \A i \in 1 .. Len(l) : m[i] = l[i]

\* Another request: what was followed stays so, and it is counted.
LEMMA AppendRequest ==
    ASSUME NEW l, NEW m, NEW t \in Turns, Followed(l), Extends(m, l, <<t, "user">>)
    PROVE  /\ Followed(m)
           /\ \E i \in DOMAIN m : m[i] = <<t, "user">>
           /\ Requests(m, t) = Requests(l, t) \cup {Len(l) + 1}
           /\ \A u \in Turns : u # t => Requests(m, u) = Requests(l, u)
<1>1. /\ DOMAIN m = 1 .. Len(l) + 1 /\ DOMAIN l = 1 .. Len(l) /\ Len(l) \in Nat
      /\ m[Len(l) + 1] = <<t, "user">>
      /\ \A i \in 1 .. Len(l) : m[i] = l[i]
    BY DEF Extends
<1>2. Followed(m)
  <2> SUFFICES ASSUME NEW u \in Turns, NEW i \in DOMAIN m, m[i] = <<u, "assistant">>
               PROVE  \E k \in 1 .. i - 1 : m[k] = <<u, "user">>
      BY DEF Followed
  <2>1. i \in 1 .. Len(l) /\ l[i] = <<u, "assistant">>
      BY <1>1
  <2>2. PICK k \in 1 .. i - 1 : l[k] = <<u, "user">>
      BY <2>1, <1>1 DEF Followed
  <2> QED
      BY <2>1, <2>2, <1>1
<1>3. Requests(m, t) = Requests(l, t) \cup {Len(l) + 1}
    BY <1>1 DEF Requests
<1>4. ASSUME NEW u \in Turns, u # t PROVE Requests(m, u) = Requests(l, u)
    BY <1>1, <1>4 DEF Requests
<1>5. Len(l) + 1 \in DOMAIN m
    BY <1>1
<1> QED
    BY <1>1, <1>2, <1>3, <1>4, <1>5

\* Another answer, after its request.
LEMMA AppendAnswer ==
    ASSUME NEW l, NEW m, NEW t \in Turns, Followed(l), Extends(m, l, <<t, "assistant">>),
           \E k \in DOMAIN l : l[k] = <<t, "user">>
    PROVE  /\ Followed(m)
           /\ \E k \in DOMAIN m : m[k] = <<t, "user">>
           /\ \A u \in Turns : Requests(m, u) = Requests(l, u)
<1>1. /\ DOMAIN m = 1 .. Len(l) + 1 /\ DOMAIN l = 1 .. Len(l) /\ Len(l) \in Nat
      /\ m[Len(l) + 1] = <<t, "assistant">>
      /\ \A i \in 1 .. Len(l) : m[i] = l[i]
    BY DEF Extends
<1>2. PICK q \in 1 .. Len(l) : l[q] = <<t, "user">>
    BY <1>1
<1>3. Followed(m)
  <2> SUFFICES ASSUME NEW u \in Turns, NEW i \in DOMAIN m, m[i] = <<u, "assistant">>
               PROVE  \E k \in 1 .. i - 1 : m[k] = <<u, "user">>
      BY DEF Followed
  <2>1. CASE i = Len(l) + 1
    <3>1. u = t
        BY <2>1, <1>1
    <3>2. q \in 1 .. i - 1 /\ m[q] = <<t, "user">>
        BY <2>1, <1>1, <1>2
    <3> QED
        BY <3>1, <3>2
  <2>2. CASE i \in 1 .. Len(l)
    <3>1. l[i] = <<u, "assistant">>
        BY <2>2, <1>1
    <3>2. PICK k \in 1 .. i - 1 : l[k] = <<u, "user">>
        BY <2>2, <3>1, <1>1 DEF Followed
    <3> QED
        BY <3>2, <2>2, <1>1
  <2> QED
      BY <2>1, <2>2, <1>1
<1>4. q \in DOMAIN m /\ m[q] = <<t, "user">>
    BY <1>1, <1>2
<1>5. ASSUME NEW u \in Turns PROVE Requests(m, u) = Requests(l, u)
    BY <1>1 DEF Requests
<1> QED
    BY <1>3, <1>4, <1>5

\* The requests of a turn in a log are finitely many, and one more when one is
\* appended.
LEMMA RequestsCount ==
    ASSUME NEW l \in Seq(Turns \X {"user", "assistant"}), NEW t \in Turns
    PROVE  /\ IsFiniteSet(Requests(l, t)) /\ Cardinality(Requests(l, t)) \in Nat
           /\ Cardinality(Requests(l, t) \cup {Len(l) + 1}) = Cardinality(Requests(l, t)) + 1
           /\ (\A i \in DOMAIN l : l[i] # <<t, "user">>) => Cardinality(Requests(l, t)) = 0
<1>1. DOMAIN l = 1 .. Len(l) /\ Len(l) \in Nat
    OBVIOUS
<1>2. IsFiniteSet(1 .. Len(l))
    BY <1>1, FS_Interval
<1>3. Requests(l, t) \subseteq 1 .. Len(l) /\ Len(l) + 1 \notin Requests(l, t)
    BY <1>1 DEF Requests
<1>4. IsFiniteSet(Requests(l, t))
    BY <1>2, <1>3, FS_Subset
<1>5. Cardinality(Requests(l, t)) \in Nat
    BY <1>4, FS_CardinalityType
<1>6. Cardinality(Requests(l, t) \cup {Len(l) + 1}) = Cardinality(Requests(l, t)) + 1
    BY <1>3, <1>4, FS_AddElement
<1>7. ASSUME \A i \in DOMAIN l : l[i] # <<t, "user">>
      PROVE  Cardinality(Requests(l, t)) = 0
    BY <1>7, FS_EmptySet DEF Requests
<1> QED
    BY <1>4, <1>5, <1>6, <1>7
\* The log stays in order, with at most one request per attempt.
LEMMA StoredStep ==
    ASSUME TurnTypeOK, Placed, Stored, Untouched, [TurnNext]_turnVars
    PROVE  Stored'
<1>a. at # "idle" => turn \in Turns /\ turn # NoTurn /\ fate[turn] = "running" /\ running
    BY InTurn DEF Placed
<1>b. /\ log \in Seq(Turns \X {"user", "assistant"}) /\ attempts \in [Turns -> 0 .. MaxAttempts]
      /\ NoTurn \notin Turns /\ mine \in BOOLEAN /\ turn \in Turns \cup {NoTurn}
      /\ MaxAttempts \in Nat
    BY TurnsAssumption DEF TurnTypeOK
<1>c. \A t \in Turns : Cardinality(Requests(log, t)) \in Nat /\ attempts[t] \in Nat
  <2> SUFFICES ASSUME NEW t \in Turns
               PROVE  Cardinality(Requests(log, t)) \in Nat /\ attempts[t] \in Nat
      OBVIOUS
  <2>1. attempts[t] \in 0 .. MaxAttempts
      BY <1>b
  <2>2. Cardinality(Requests(log, t)) \in Nat
      BY <1>b, RequestsCount
  <2> QED
      BY <2>1, <2>2, <1>b
<1>d. \A t \in Turns : ~Holds(t) => Cardinality(Requests(log, t)) = 0
  <2> SUFFICES ASSUME NEW t \in Turns, ~Holds(t)
               PROVE  Cardinality(Requests(log, t)) = 0
      OBVIOUS
  <2>1. \A i \in DOMAIN log : log[i] # <<t, "user">>
      BY DEF Holds
  <2> QED
      BY <2>1, <1>b, RequestsCount
<1>e. at = "idle" <=> turn = NoTurn
    BY DEF Placed
<1> DEFINE Asking == {"stored", "building", "inferring", "asking"}
<1>1. ASSUME NEW t \in Turns, Begin(t) PROVE Stored'
    <2>1. /\ turn' = t /\ at' = "starting" /\ UNCHANGED <<log, mine>>
          /\ attempts' = [attempts EXCEPT ![t] = 1] /\ fate[t] = "waiting"
          /\ turn = NoTurn
        BY <1>1 DEF Begin
    <2>2. ~Holds(t) /\ Cardinality(Requests(log, t)) = 0
        BY <2>1, <1>d DEF Untouched
    <2>3. mine = FALSE \/ Holds(turn)
        BY <1>b DEF Stored
    <2>4. mine = FALSE
        BY <2>1, <2>3, <1>b, <1>e DEF Stored
    <2> QED
      <3>1. attempts'[t] = 1 /\ \A u \in Turns : u # t => attempts'[u] = attempts[u]
        BY <2>1, <1>b
      <3>2. Followed(log) /\ \A u \in Turns : Cardinality(Requests(log, u)) <= attempts[u]
        BY DEF Stored
      <3>3. \A u \in Turns : Cardinality(Requests(log', u)) <= attempts'[u]
        BY <2>1, <2>2, <3>1, <3>2
      <3>4. Cardinality(Requests(log', turn')) < attempts'[turn'] /\ attempts'[turn'] >= 1
        BY <2>1, <2>2, <3>1
      <3>5. mine' = FALSE /\ turn' = t /\ log' = log
        BY <2>1, <2>4
      <3>6. Followed(log')
        BY <3>2, <3>5
      <3> QED
        BY <3>3, <3>4, <3>5, <3>6 DEF Stored
<1>2. CASE \/ \E t \in Turns : Refused(t)
           \/ Reply \/ Accept \/ Infer \/ Ask \/ QuestionTimesOut \/ BesideTurn
    <2>1. /\ UNCHANGED <<log, mine, turn, attempts>>
          /\ at' = at \/ (at \in Asking /\ at' \in Asking)
        BY <1>2 DEF Refused, Reply, Accept, Infer, Ask, QuestionTimesOut, BesideTurn, Restart,
                    OtherProcess, turnVars
    <2> QED
        BY <2>1 DEF Stored, Holds
<1>3. CASE Persist
    <2>1. /\ at = "starting" /\ at' = "stored" /\ UNCHANGED <<turn, attempts>>
          /\ mine' = ~Holds(turn) /\ turn \in Turns
          /\ log' = IF Holds(turn) THEN log ELSE Append(log, <<turn, "user">>)
        BY <1>3, <1>a DEF Persist
    <2>2. Followed(log) /\ attempts[turn] >= 1
          /\ \A t \in Turns : Cardinality(Requests(log, t)) <= attempts[t]
        BY <2>1, <1>b DEF Stored
    <2>3. CASE Holds(turn)
        <3>1. mine = FALSE => Cardinality(Requests(log, turn)) < attempts[turn]
            BY <2>1 DEF Stored
        <3>2. mine = FALSE
            BY <1>b, <2>1 DEF Stored
        <3> QED
            BY <2>1, <2>2, <2>3, <3>1, <3>2 DEF Stored
    <2>4. CASE ~Holds(turn)
        <3>1. log' = Append(log, <<turn, "user">>) /\ mine' = TRUE
            BY <2>1, <2>4
        <3>a. Extends(log', log, <<turn, "user">>)
            BY <2>1, <3>1, <1>b, AppendFacts DEF Extends
        <3>2. /\ Followed(log')
              /\ Requests(log', turn) = Requests(log, turn) \cup {Len(log) + 1}
              /\ \A u \in Turns : u # turn => Requests(log', u) = Requests(log, u)
              /\ \E i \in DOMAIN log' : log'[i] = <<turn, "user">>
            BY <2>1, <2>2, <3>a, AppendRequest
        <3>b. /\ Cardinality(Requests(log, turn)) = 0
              /\ Cardinality(Requests(log, turn) \cup {Len(log) + 1})
                    = Cardinality(Requests(log, turn)) + 1
            BY <2>1, <2>4, <1>b, <1>d, RequestsCount
        <3>3. Cardinality(Requests(log', turn)) = 1
            BY <3>2, <3>b
        <3>4. Holds(turn)'
            BY <2>1, <3>2 DEF Holds
        <3>5. \A t \in Turns : Cardinality(Requests(log', t)) <= attempts[t]
            BY <2>1, <2>2, <3>2, <3>3
        <3> QED
            BY <2>1, <2>2, <3>1, <3>2, <3>4, <3>5 DEF Stored
    <2> QED
        BY <2>3, <2>4
<1>4. CASE Finalize
    <2>1. /\ at = "inferring" /\ at' = "persisting" /\ UNCHANGED <<turn, attempts, mine>>
          /\ turn \in Turns
          /\ log' = log \o (IF mine THEN <<>> ELSE <<<<turn, "user">>>>)
                        \o <<<<turn, "assistant">>>>
        BY <1>4, <1>a DEF Finalize
    <2> DEFINE Entries == Turns \X {"user", "assistant"}
               l == IF mine THEN log ELSE Append(log, <<turn, "user">>)
    <2>2. Followed(log) /\ attempts[turn] >= 1
          /\ \A t \in Turns : Cardinality(Requests(log, t)) <= attempts[t]
        BY <2>1, <1>b DEF Stored
    <2>3. <<turn, "user">> \in Entries /\ <<turn, "assistant">> \in Entries /\ log \in Seq(Entries)
        BY <2>1, <1>b
    <2>4. (mine => l = log) /\ (~mine => l = Append(log, <<turn, "user">>))
        OBVIOUS
    <2>5. log' = Append(l, <<turn, "assistant">>) /\ l \in Seq(Entries)
      <3>1. CASE mine
        BY <2>1, <2>3, <3>1
      <3>2. CASE ~mine
        <4>1. log \o <<<<turn, "user">>>> = Append(log, <<turn, "user">>)
            BY <2>3
        <4>2. l \in Seq(Entries) /\ l = log \o <<<<turn, "user">>>>
            BY <2>3, <2>4, <3>2, <4>1
        <4>3. l \o <<<<turn, "assistant">>>> = Append(l, <<turn, "assistant">>)
            BY <4>2, <2>3
        <4> QED
            BY <2>1, <3>2, <4>2, <4>3
      <3> QED
        BY <3>1, <3>2
    <2> HIDE DEF l, Entries
    <2>6. /\ Followed(l)
          /\ \E k \in DOMAIN l : l[k] = <<turn, "user">>
          /\ \A t \in Turns : Cardinality(Requests(l, t)) <= attempts[t]
      <3>1. CASE mine
        <4>1. Holds(turn) /\ l = log
            BY <2>4, <3>1 DEF Stored
        <4> QED
            BY <4>1, <2>2 DEF Holds
      <3>2. CASE ~mine
        <4>1. Extends(l, log, <<turn, "user">>)
            BY <2>3, <2>4, <3>2, AppendFacts DEF Extends
        <4>2. /\ Followed(l)
              /\ Requests(l, turn) = Requests(log, turn) \cup {Len(log) + 1}
              /\ \A u \in Turns : u # turn => Requests(l, u) = Requests(log, u)
              /\ \E i \in DOMAIN l : l[i] = <<turn, "user">>
            BY <2>1, <2>2, <4>1, AppendRequest
        <4>3. Cardinality(Requests(log, turn)) < attempts[turn]
            BY <2>1, <3>2 DEF Stored
        <4>4. Cardinality(Requests(log, turn) \cup {Len(log) + 1})
                = Cardinality(Requests(log, turn)) + 1
            BY <2>1, <1>b, RequestsCount
        <4>5. Cardinality(Requests(l, turn)) <= attempts[turn]
            BY <2>1, <4>2, <4>3, <4>4, <1>c
        <4>6. \A t \in Turns : Cardinality(Requests(l, t)) <= attempts[t]
            BY <4>2, <4>5, <2>2
        <4> QED
            BY <4>2, <4>6
      <3> QED
        BY <3>1, <3>2
    <2>a. Extends(log', l, <<turn, "assistant">>)
        BY <2>3, <2>5, AppendFacts DEF Extends
    <2>b. /\ Followed(log')
          /\ \E k \in DOMAIN log' : log'[k] = <<turn, "user">>
          /\ \A u \in Turns : Requests(log', u) = Requests(l, u)
      <3>1. turn \in Turns
        BY <2>1
      <3> QED
        BY <3>1, <2>6, <2>a, AppendAnswer
    <2>c. Holds(turn)'
        BY <2>1, <2>b DEF Holds
    <2>7. \A t \in Turns : Cardinality(Requests(log', t)) <= attempts'[t]
        BY <2>1, <2>6, <2>b
    <2> QED
        BY <2>1, <2>2, <2>b, <2>c, <2>7 DEF Stored
<1>5. CASE Complete
    BY <1>5 DEF Complete, Stored, Holds
<1>6. CASE Shortcut \/ PublishAnswer \/ Cancel
    <2>1. UNCHANGED <<log, attempts>> /\ turn' = NoTurn /\ at' = "idle" /\ mine' = FALSE
        BY <1>6 DEF Shortcut, PublishAnswer, Succeeds, Cancel, Ends
    <2> QED
        BY <2>1 DEF Stored
<1>7. CASE AttemptFails
    <2>1. turn \in Turns /\ Fails(turn) /\ log' = log
        BY <1>7, <1>a DEF AttemptFails
    <2>2. Followed(log) /\ attempts[turn] >= 1
          /\ \A t \in Turns : Cardinality(Requests(log, t)) <= attempts[t]
        BY <2>1, <1>b DEF Stored
    <2>3. CASE /\ at' = "starting" /\ mine' = FALSE
               /\ attempts' = [attempts EXCEPT ![turn] = @ + 1] /\ turn' = turn
        <3>1. /\ attempts'[turn] = attempts[turn] + 1
              /\ \A t \in Turns : attempts'[t] >= attempts[t] /\ attempts'[t] \in Nat
            BY <2>1, <2>3, <1>b, <1>c
        <3>2. \A t \in Turns : Cardinality(Requests(log', t)) <= attempts'[t]
            BY <2>1, <2>2, <3>1, <1>c
        <3>3. Cardinality(Requests(log', turn)) < attempts'[turn]
            BY <2>1, <2>2, <3>1, <1>c
        <3>4. attempts'[turn] >= 1
            BY <2>1, <2>2, <3>1, <1>c
        <3> QED
            BY <2>1, <2>2, <2>3, <3>2, <3>3, <3>4 DEF Stored
    <2>4. CASE at' = "idle" /\ turn' = NoTurn /\ mine' = FALSE /\ attempts' = attempts
        BY <2>1, <2>2, <2>4 DEF Stored
    <2> QED
        BY <2>1, <2>3, <2>4, FailsFacts DEF TurnTypeOK
<1>8. CASE Die
    BY <1>8 DEF Die, Stored
<1> QED
    BY <1>1, <1>2, <1>3, <1>4, <1>5, <1>6, <1>7, <1>8
    DEF TurnNext, TurnStep, InferenceEnds, BesideTurn
-----------------------------------------------------------------------------
\* The checkpoints.

\* Every log entry of a step is about the turn in progress.
LEMMA LogStep ==
    ASSUME TurnTypeOK, Placed, [TurnNext]_turnVars, NEW t \in Turns, t # turn, ~Holds(t)
    PROVE  ~Holds(t)'
<1>a. at # "idle" => turn \in Turns
    BY InTurn
<1>b. log \in Seq(Turns \X {"user", "assistant"})
    BY DEF TurnTypeOK
<1> DEFINE Entries == Turns \X {"user", "assistant"}
<1>c. ASSUME NEW l \in Seq(Entries), NEW r \in {"user", "assistant"}, turn \in Turns,
             \A i \in DOMAIN l : l[i] # <<t, "user">>
      PROVE  /\ Append(l, <<turn, r>>) \in Seq(Entries)
             /\ \A i \in DOMAIN Append(l, <<turn, r>>) : Append(l, <<turn, r>>)[i] # <<t, "user">>
  <2>1. <<turn, r>> \in Entries /\ <<turn, r>> # <<t, "user">>
      BY <1>c
  <2> QED
      BY <1>c, <2>1, AppendFacts
<1>1. CASE log' = log
    BY <1>1 DEF Holds
<1>2. CASE Persist
    <2>1. log' = log \/ log' = Append(log, <<turn, "user">>)
        BY <1>2 DEF Persist
    <2> QED
        BY <1>a, <1>b, <1>c, <1>2, <2>1 DEF Persist, Holds
<1>3. CASE Finalize
    <2>1. turn \in Turns /\ <<turn, "user">> \in Entries /\ <<turn, "assistant">> \in Entries
        BY <1>3, <1>a DEF Finalize
    <2>2. PICK l \in Seq(Entries) : /\ \A i \in DOMAIN l : l[i] # <<t, "user">>
                                   /\ log' = l \o <<<<turn, "assistant">>>>
      <3>1. CASE mine
        <4>1. log' = log \o <<<<turn, "assistant">>>>
            BY <1>3, <1>b, <3>1, <2>1 DEF Finalize
        <4> QED
            BY <4>1, <1>b DEF Holds
      <3>2. CASE ~mine
        <4>1. log' = (log \o <<<<turn, "user">>>>) \o <<<<turn, "assistant">>>>
            BY <1>3, <3>2 DEF Finalize
        <4>2. log \o <<<<turn, "user">>>> = Append(log, <<turn, "user">>)
            BY <1>b, <2>1
        <4>3. /\ Append(log, <<turn, "user">>) \in Seq(Entries)
              /\ \A i \in DOMAIN Append(log, <<turn, "user">>) :
                    Append(log, <<turn, "user">>)[i] # <<t, "user">>
            BY <1>b, <1>c, <2>1 DEF Holds
        <4> QED
            BY <4>1, <4>2, <4>3
      <3> QED
        BY <3>1, <3>2
    <2>3. log' = Append(l, <<turn, "assistant">>)
        BY <2>1, <2>2
    <2> QED
        BY <1>c, <2>1, <2>2, <2>3 DEF Holds
<1> QED
    BY <1>1, <1>2, <1>3
    DEF TurnNext, TurnStep, InferenceEnds, turnVars, Begin, Refused, Reply, Shortcut, Accept, Infer, Ask,
        QuestionTimesOut, Complete, PublishAnswer, AttemptFails, Cancel, Die, Restart,
        OtherProcess

\* A turn leaves its traces only after it began.
LEMMA UntouchedStep ==
    ASSUME TurnTypeOK, Placed, Untouched, Rows, [TurnNext]_turnVars
    PROVE  Untouched'
<1>a. at # "idle" => turn \in Turns /\ turn # NoTurn /\ fate[turn] = "running"
    BY InTurn
<1>b. /\ fate \in [Turns -> {"waiting", "running"} \cup Over] /\ NoTurn \notin Turns
      /\ turn # NoTurn => fate[turn] = "running"
      /\ turn \in Turns \cup {NoTurn}
    BY TurnsAssumption DEF TurnTypeOK, Placed
<1>c. {"building_context", "inferring", "waiting_user", "finalizing", "completed", "failed",
       "interrupted"} \subseteq Status
    BY DEF Status, Terminal
<1>1. \A t \in Turns : fate'[t] = "waiting" => fate[t] = "waiting"
  <2>1. CASE UNCHANGED fate
      BY <2>1
  <2>2. ASSUME NEW t \in Turns, Begin(t) \/ Refused(t)
        PROVE  \A u \in Turns : fate'[u] = "waiting" => fate[u] = "waiting"
      BY <2>2, <1>b DEF Begin, Refused
  <2>3. CASE Shortcut \/ PublishAnswer \/ Cancel
      BY <2>3, <1>a, <1>b DEF Shortcut, PublishAnswer, Cancel, Succeeds, Ends
  <2>4. CASE AttemptFails
      <3>1. turn \in Turns /\ Fails(turn)
          BY <2>4, <1>a DEF AttemptFails
      <3> QED
          BY <3>1, <1>b, FailsFacts
  <2>5. CASE Die
      BY <2>5, <1>b DEF Die
  <2> QED
      BY <2>1, <2>2, <2>3, <2>4, <2>5
      DEF TurnNext, TurnStep, InferenceEnds, turnVars, Reply, Persist, Accept, Infer, Ask,
          QuestionTimesOut, Complete, Finalize, Restart, OtherProcess
<1>2. latest'[1] \in {latest[1], question, turn}
  <2>1. CASE UNCHANGED latest
      BY <2>1
  <2>2. CASE Reply
      BY <2>2 DEF Reply
  <2>3. CASE Accept \/ Infer \/ Complete \/ Finalize \/ AttemptFails \/ Cancel
      <3>1. turn \in Turns
          BY <2>3, <1>a DEF Accept, Infer, Complete, Finalize, AttemptFails, Cancel
      <3>2. (\E s \in Status : Recorded(turn, s)) \/ latest' = latest
          BY <2>3, <1>c DEF Accept, Infer, Complete, Finalize, AttemptFails, Cancel, Unrecorded
      <3> QED
          BY <3>1, <3>2, RecordedFacts
  <2>4. CASE Ask
      BY <2>4, <1>a DEF Ask, Appended
  <2>5. CASE Restart \/ OtherProcess
      <3>1. latest' = latest \/ latest' = <<latest[1], "interrupted">>
          BY <2>5, MarkFacts DEF Restart, OtherProcess
      <3> QED
          BY <3>1
  <2> QED
      BY <2>1, <2>2, <2>3, <2>4, <2>5
      DEF TurnNext, TurnStep, InferenceEnds, turnVars, Begin, Refused, Shortcut, Persist,
          QuestionTimesOut, PublishAnswer, Die
<1>3. question' \in {question, turn, NoTurn}
    BY DEF TurnNext, TurnStep, InferenceEnds, turnVars, Begin, Refused, Reply, Shortcut, Persist,
           Accept, Infer, Ask, QuestionTimesOut, Complete, PublishAnswer, Finalize, AttemptFails, Cancel,
           Die, Restart, OtherProcess
<1> SUFFICES ASSUME NEW t \in Turns, fate'[t] = "waiting"
             PROVE  latest'[1] # t /\ question' # t /\ ~Holds(t)'
    BY DEF Untouched, Holds
<1>4. fate[t] = "waiting" /\ t # turn /\ t # NoTurn
    BY <1>1, <1>b
<1>5. latest[1] # t /\ question # t /\ ~Holds(t)
    BY <1>4 DEF Untouched
<1> QED
    BY <1>2, <1>3, <1>4, <1>5, LogStep

\* A question waits, or its turn has lost a row.
LEMMA AskedStep ==
    ASSUME TurnTypeOK, Placed, Rows, Asked, [TurnNext]_turnVars
    PROVE  Asked'
<1>a. at # "idle" => turn \in Turns
    BY InTurn
<1>c. {"building_context", "inferring", "waiting_user", "finalizing", "completed", "failed",
       "interrupted"} \subseteq Status
    BY DEF Status, Terminal
<1>1. CASE Reply \/ QuestionTimesOut \/ Die
    BY <1>1 DEF Reply, QuestionTimesOut, Die, Asked
<1>2. CASE Ask
    <2>1. turn \in Turns
        BY <1>2, <1>a DEF Ask
    <2> QED
        BY <1>2, <2>1 DEF Ask, Asked
<1>7. CASE Persist
    BY <1>7 DEF Persist, Asked
<1>3. CASE Accept \/ Infer \/ Complete \/ Finalize \/ AttemptFails
    <2>1. at # "asking" /\ turn \in Turns /\ question' = question
        BY <1>3, <1>a DEF Accept, Infer, Complete, Finalize, AttemptFails
    <2>2. (\E s \in Status : Recorded(turn, s)) \/ blind' = blind
        BY <1>3, <1>c DEF Accept, Infer, Complete, Finalize, AttemptFails, Unrecorded
    <2>3. blind \subseteq blind'
        BY <2>1, <2>2, RecordedFacts
    <2> QED
        BY <2>1, <2>3 DEF Asked
<1>4. CASE Cancel
    <2>1. turn \in Turns /\ question' = IF at = "asking" THEN NoTurn ELSE question
        BY <1>4, <1>a DEF Cancel
    <2>2. Recorded(turn, "interrupted") \/ blind' = blind
        BY <1>4 DEF Cancel, Unrecorded
    <2>3. blind \subseteq blind'
        BY <1>c, <2>1, <2>2, RecordedFacts
    <2> QED
        BY <2>1, <2>3 DEF Asked
<1>5. CASE (\E t \in Turns : Begin(t) \/ Refused(t)) \/ Shortcut \/ PublishAnswer
           \/ UNCHANGED turnVars
    BY <1>5 DEF Begin, Refused, Shortcut, PublishAnswer, turnVars, Asked, Placed
<1>6. CASE Restart \/ OtherProcess
    <2>1. UNCHANGED <<question, at, turn>>
        BY <1>6 DEF Restart, OtherProcess
    <2>2. blind \subseteq blind'
        BY <1>6, MarkFacts DEF Restart, OtherProcess
    <2> QED
        BY <2>1, <2>2 DEF Asked
<1> QED
    BY <1>1, <1>2, <1>3, <1>4, <1>5, <1>6, <1>7 DEF TurnNext, TurnStep, InferenceEnds

\* A row of the turn in progress that is not its last.
LEMMA RowWritten ==
    ASSUME TurnTypeOK, Placed, Rows, at # "idle",
           NEW s \in {"building_context", "inferring", "waiting_user", "finalizing"},
           Recorded(turn, s),
           at' \in Recording,
           UNCHANGED <<turn, fate, running, lost>>
    PROVE  Rows'
<1>1. turn \in Turns /\ turn # NoTurn /\ fate[turn] = "running" /\ running
    BY InTurn DEF Placed
<1>2. s \in Status /\ s \notin Terminal
    BY DEF Status, Terminal
<1>3. \/ latest' = <<turn, s>> /\ blind' = blind
      \/ latest' = latest /\ blind' = blind \cup {turn}
    BY <1>1, <1>2, RecordedFacts
<1>4. latest'[1] = NoTurn => latest'[2] = "completed"
    BY <1>1, <1>3 DEF Rows
<1>5. latest'[2] \notin Terminal /\ latest'[1] \notin blind' => fate[latest'[1]] \notin Told
    BY <1>1, <1>3 DEF Rows, Told
<1>6. turn \notin blind' => latest'[1] = turn /\ latest'[2] \notin {"completed", "failed"}
    BY <1>1, <1>2, <1>3 DEF Terminal
<1> QED
    BY <1>1, <1>4, <1>5, <1>6 DEF Rows, Recording

\* The last row keeps telling the truth about its turn, or the turn is blind.
LEMMA RowsStep ==
    ASSUME TurnTypeOK, Placed, Untouched, Rows, Asked, [TurnNext]_turnVars
    PROVE  Rows'
<1>a. at # "idle" => turn \in Turns /\ turn # NoTurn /\ fate[turn] = "running" /\ running
    BY InTurn DEF Placed
<1>b. /\ fate \in [Turns -> {"waiting", "running"} \cup Over] /\ NoTurn \notin Turns
      /\ latest[1] \in Turns \cup {NoTurn} /\ turn \in Turns \cup {NoTurn}
      /\ question \in Turns \cup {NoTurn}
    BY TurnsAssumption DEF TurnTypeOK
<1>c. /\ latest[1] = NoTurn => latest[2] = "completed"
      /\ latest[2] \notin Terminal /\ latest[1] \notin blind => fate[latest[1]] \notin Told
      /\ latest[2] \notin Terminal => latest[1] \in Turns
    BY <1>b DEF Rows, Terminal
<1>d. "completed" \in Terminal /\ "failed" \in Terminal /\ "interrupted" \in Terminal
      /\ Terminal \subseteq Status
    BY DEF Terminal, Status
<1>1. ASSUME NEW t \in Turns, Begin(t) PROVE Rows'
    <2>1. /\ UNCHANGED <<latest, blind, lost, running>> /\ running /\ turn' = t
          /\ at' = "starting" /\ fate' = [fate EXCEPT ![t] = "running"]
          /\ latest[1] # t
        BY <1>1 DEF Begin, Untouched
    <2> QED
        BY <2>1, <1>b, <1>c DEF Rows, Told, Recording
<1>2. ASSUME NEW t \in Turns, Refused(t) PROVE Rows'
    BY <1>2, <1>b, <1>c DEF Refused, Rows, Placed, Told
<1>3. CASE Reply
    <2>1. /\ running' = running /\ running /\ question \in Turns /\ question # NoTurn
          /\ UNCHANGED <<turn, fate>>
          /\ at' = IF at = "asking" THEN "inferring" ELSE at
          /\ \/ /\ ~torn /\ latest' = <<question, "inferring">>
                /\ blind' = blind \cup (IF turn \in {question, NoTurn} THEN {} ELSE {turn})
             \/ /\ torn /\ latest' = latest
                /\ blind' = blind \cup {question}
                                 \cup (IF turn \in {question, NoTurn} THEN {} ELSE {turn})
        BY <1>3, <1>b DEF Reply
    <2>2. question \in blind \/ (at = "asking" /\ question = turn)
        BY <2>1 DEF Asked
    <2>3. latest'[1] = NoTurn => latest'[2] = "completed"
        BY <2>1, <1>c
    <2>4. latest'[2] \notin Terminal /\ latest'[1] \notin blind' => fate[latest'[1]] \notin Told
        BY <2>1, <2>2, <1>a, <1>c DEF Told
    <2>5. at' \in {"starting", "stored"} /\ latest'[1] = turn /\ turn \notin blind' =>
              latest'[2] \in Terminal
        BY <2>1, <2>2 DEF Rows
    <2>a. at' = "publishing" => turn \in blind'
      <3> SUFFICES ASSUME at' = "publishing"
                   PROVE  turn \in blind'
          OBVIOUS
      <3>1. at = "publishing" /\ turn # NoTurn
          BY <2>1, <1>a
      <3> QED
          BY <2>1, <2>2, <3>1
    <2>6. at' \in Recording /\ turn \notin blind' =>
              latest'[1] = turn /\ latest'[2] \notin {"completed", "failed"}
      <3> SUFFICES ASSUME at' \in Recording,
                          turn \notin blind'
                   PROVE  latest'[1] = turn /\ latest'[2] \notin {"completed", "failed"}
          OBVIOUS
      <3>1. at # "idle" /\ turn # NoTurn
          BY <2>1, <1>a DEF Recording
      <3>2. turn = question /\ ~torn
          BY <2>1, <3>1
      <3> QED
          BY <2>1, <3>2
    <2> QED
        BY <2>1, <2>3, <2>4, <2>5, <2>a, <2>6 DEF Rows
<1>4. CASE Accept \/ Infer \/ Ask \/ Finalize
    <2>1. /\ at # "idle" /\ UNCHANGED <<turn, fate, running, lost>>
          /\ at' \in Recording
        BY <1>4 DEF Accept, Infer, Ask, Finalize, Recording
    <2>2. \E s \in {"building_context", "inferring", "waiting_user", "finalizing"} :
              Recorded(turn, s)
        BY <1>4 DEF Accept, Infer, Ask, Finalize, Recorded
    <2> QED
        BY <2>1, <2>2, RowWritten
<1>5. CASE QuestionTimesOut
    BY <1>5 DEF QuestionTimesOut, Rows, Recording
<1>14. CASE Persist
    <2>1. at = "starting" /\ at' = "stored" /\ running
          /\ UNCHANGED <<latest, blind, turn, fate, running>>
        BY <1>14, <1>a DEF Persist
    <2> QED
        BY <2>1 DEF Rows, Recording
<1>6. CASE Complete
    <2>1. /\ turn \in Turns /\ turn # NoTurn /\ running /\ fate[turn] = "running"
          /\ UNCHANGED <<turn, fate, running, lost>> /\ at' = "publishing"
          /\ Recorded(turn, "completed")
        BY <1>6, <1>a DEF Complete
    <2>2. \/ latest' = <<turn, "completed">> /\ blind' = blind
          \/ latest' = latest /\ blind' = blind \cup {turn}
        BY <2>1, <1>d, RecordedFacts
    <2> QED
        BY <2>1, <2>2, <1>c, <1>d DEF Rows, Recording
<1>7. CASE Shortcut \/ PublishAnswer
    <2>1. /\ at \in {"starting", "publishing"} /\ turn \in Turns /\ running
          /\ fate' = [fate EXCEPT ![turn] = "answered"] /\ at' = "idle"
          /\ UNCHANGED <<latest, blind, running, lost>>
        BY <1>7, <1>a DEF Shortcut, PublishAnswer, Succeeds, Ends
    <2>2. latest[1] = turn /\ turn \notin blind => latest[2] \in Terminal
        BY <2>1, <1>d DEF Rows
    <2> QED
        BY <2>1, <2>2, <1>b, <1>c DEF Rows, Recording
<1>8. CASE AttemptFails
    <2>1. /\ turn \in Turns /\ turn # NoTurn /\ running /\ Fails(turn)
          /\ UNCHANGED <<running, lost>>
        BY <1>8, <1>a DEF AttemptFails
    <2>2. \/ at \in {"starting", "stored"} /\ latest' = latest /\ blind' = blind
          \/ latest' = <<turn, "failed">> /\ blind' = blind
          \/ latest' = latest /\ blind' = blind \cup {turn}
        BY <1>8, <2>1, <1>d, RecordedFacts DEF AttemptFails, Unrecorded
    <2>3. latest'[1] = NoTurn => latest'[2] = "completed"
        BY <2>1, <2>2, <1>c
    <2>4. latest'[1] = turn /\ turn \notin blind' => latest'[2] \in Terminal
        BY <2>2, <1>d DEF Rows
    <2>5. \A t \in Turns : t # turn => fate'[t] = fate[t]
        BY <2>1, <1>b, FailsFacts
    <2>6. latest'[2] \notin Terminal /\ latest'[1] \notin blind' => fate'[latest'[1]] \notin Told
        BY <2>2, <2>4, <2>5, <1>c, <1>d
    <2>7. at' \in {"starting", "idle"} /\ (at' = "starting" => turn' = turn)
        BY <2>1, FailsFacts
    <2> QED
        BY <2>1, <2>3, <2>4, <2>6, <2>7 DEF Rows, Recording
<1>9. CASE Cancel
    <2>1. /\ turn \in Turns /\ turn # NoTurn /\ running /\ at' = "idle"
          /\ fate' = [fate EXCEPT ![turn] = "cancelled"] /\ UNCHANGED <<running, lost>>
        BY <1>9, <1>a DEF Cancel, Ends
    <2>2. \/ latest' = latest /\ blind' = blind
          \/ latest' = <<turn, "interrupted">> /\ blind' = blind
          \/ latest' = latest /\ blind' = blind \cup {turn}
        BY <1>9, <2>1, <1>d, RecordedFacts DEF Cancel, Unrecorded
    <2> QED
        BY <2>1, <2>2, <1>b, <1>c, <1>d DEF Rows, Told, Recording
<1>10. CASE Die
    <2>1. /\ at' = "idle" /\ UNCHANGED <<latest, blind>>
          /\ fate' = [t \in Turns |-> IF t = turn THEN "crashed" ELSE fate[t]]
          /\ lost' = <<turn, at>>
        BY <1>10 DEF Die
    <2>2. latest[2] \notin Terminal /\ latest[1] \notin blind => fate'[latest[1]] \notin Told
        BY <2>1, <1>c DEF Told
    <2>3. turn \notin blind =>
              /\ at \in Recording =>
                    latest[1] = turn /\ latest[2] \notin {"completed", "failed"}
              /\ at = "publishing" => latest = <<turn, "completed">>
        BY DEF Rows
    <2>4. lost'[1] = turn /\ lost'[2] = at
        BY <2>1
    <2>5. at' \notin Recording \cup {"starting", "stored", "publishing"}
        BY <2>1 DEF Recording
    <2> QED
        BY <2>1, <2>2, <2>3, <2>4, <2>5, <1>c DEF Rows
<1>11. CASE Restart
    <2>1. /\ at' = "idle" /\ UNCHANGED fate /\ running'
          /\ \/ latest' = latest /\ blind' = blind
             \/ latest' = <<latest[1], "interrupted">> /\ blind' = blind /\ latest[1] \in Turns
             \/ latest' = latest /\ blind' = blind \cup {latest[1]}
        BY <1>11, <1>c, MarkFacts DEF Restart, Placed
    <2> QED
        BY <2>1, <1>b, <1>c, <1>d DEF Rows, Recording
<1>12. CASE OtherProcess
    <2>1. /\ running' = running /\ running /\ UNCHANGED <<turn, at, fate, lost>>
          /\ \/ latest' = latest /\ blind' = blind
             \/ /\ latest' = <<latest[1], "interrupted">> /\ blind' = blind
                /\ latest[1] \in Turns /\ latest[2] \notin Terminal
             \/ latest' = latest /\ blind' = blind \cup {latest[1]}
        BY <1>12, <1>c, MarkFacts DEF OtherProcess
    <2> QED
        BY <2>1, <1>b, <1>c, <1>d DEF Rows, Recording
<1>13. CASE UNCHANGED turnVars
    BY <1>13 DEF turnVars, Rows
<1> QED
    BY <1>1, <1>2, <1>3, <1>4, <1>5, <1>6, <1>7, <1>8, <1>9, <1>10, <1>11, <1>12, <1>13,
       <1>14
    DEF TurnNext, TurnStep, InferenceEnds

-----------------------------------------------------------------------------
\* Before the first message nothing is stored, told or recorded.
LEMMA TurnInitInv == TurnInit => TurnInv
<1> SUFFICES ASSUME TurnInit PROVE TurnInv
    OBVIOUS
<1> USE TurnsAssumption DEF TurnInit
<1>1. /\ log = <<>> /\ latest = <<NoTurn, "completed">>
      /\ \A t \in Turns : attempts[t] = 0 /\ task[t] = "none" /\ fate[t] = "waiting"
    BY DEF NoRow
<1>2. TurnTypeOK
    <2>1. <<NoTurn, "completed">> \in (Turns \cup {NoTurn}) \X Status
        BY DEF Status, Terminal
    <2>2. <<>> \in Seq(Turns \X {"user", "assistant"})
        OBVIOUS
    <2>3. attempts \in [Turns -> 0 .. MaxAttempts] /\ retries \in [Turns -> 0 .. TaskRetries]
        OBVIOUS
    <2> QED
        BY <1>1, <2>1, <2>2, <2>3 DEF TurnTypeOK, Place
<1>3. Placed /\ TaskTells /\ Asked
    BY <1>1 DEF Placed, TaskTells, Asked
<1>4. DOMAIN log = {}
    BY <1>1
<1>5. \A t \in Turns : Requests(log, t) = {} /\ ~Holds(t)
    BY <1>4 DEF Requests, Holds
<1>6. Stored
    BY <1>1, <1>4, <1>5, FS_EmptySet DEF Stored, Followed
<1>7. Untouched /\ Rows
    BY <1>1, <1>5 DEF Untouched, Rows, Terminal, Recording
<1> QED
    BY <1>2, <1>3, <1>6, <1>7 DEF TurnInv

\* Every step keeps every part.
LEMMA TurnInvStep == TurnInv /\ [TurnNext]_turnVars => TurnInv'
BY TypeStep, PlacedStep, TellsStep, StoredStep, UntouchedStep, RowsStep, AskedStep DEF TurnInv

\* The three records of a turn (task, log, checkpoints) stay related in every
\* reachable state.
THEOREM TurnInvariant == TurnSpec => []TurnInv
BY TurnInitInv, TurnInvStep, PTL DEF TurnSpec

\* The types of a session's turns (TurnLifecycle, OrchestratorPolicy).
THEOREM TurnTypes == TurnSpec => []TurnTypeOK
<1>1. TurnInv => TurnTypeOK
    BY DEF TurnInv
<1> QED
    BY <1>1, TurnInvariant, PTL

\* The task registry and what the user was told agree (after_success,
\* after_failure).
THEOREM TurnTasksTell == TurnSpec => []TaskTells
<1>1. TurnInv => TaskTells
    BY DEF TurnInv
<1> QED
    BY <1>1, TurnInvariant, PTL

\* In the history an answer follows its request, and a request is stored at
\* most once by each attempt (persist_user_message, save_turn).
THEOREM TurnLogFollows == TurnSpec => []LogFollows
<1>1. TurnInv => LogFollows
    BY DEF TurnInv, Stored, Followed, Requests, LogFollows
<1> QED
    BY <1>1, TurnInvariant, PTL

\* Nobody is told that an answered turn was interrupted, unless one of its rows
\* was lost (mark_interrupted_inflight).
THEOREM TurnNoFalseInterruption == TurnSpec => NoFalseInterruption
<1>1. TurnInv /\ [TurnNext]_turnVars =>
        [latest' # latest /\ latest'[2] = "interrupted" =>
            fate[latest'[1]] \notin Told \/ latest'[1] \in blind]_turnVars
  <2> SUFFICES ASSUME TurnInv, TurnNext, latest' # latest, latest'[2] = "interrupted"
               PROVE  fate[latest'[1]] \notin Told \/ latest'[1] \in blind
      BY DEF turnVars
  <2>a. TurnTypeOK /\ Placed /\ Rows
      BY DEF TurnInv
  <2>b. at # "idle" => turn \in Turns /\ fate[turn] = "running"
      BY <2>a, InTurn
  <2>c. {"building_context", "inferring", "waiting_user", "finalizing", "completed", "failed",
         "interrupted"} \subseteq Status
      BY DEF Status, Terminal
  <2>1. CASE Reply
      BY <2>1 DEF Reply
  <2>2. CASE Accept \/ Infer \/ Ask \/ Complete \/ Finalize \/ AttemptFails \/ Cancel
      <3>1. turn \in Turns /\ fate[turn] = "running"
          BY <2>2, <2>b DEF Accept, Infer, Ask, Complete, Finalize, AttemptFails, Cancel
      <3>2. \E s \in Status : Recorded(turn, s)
          BY <2>2, <2>c DEF Accept, Infer, Ask, Complete, Finalize, AttemptFails, Cancel,
                            Unrecorded, Recorded
      <3>3. latest'[1] = turn
          BY <2>a, <3>1, <3>2, RecordedFacts
      <3> QED
          BY <3>1, <3>3 DEF Told
  <2>3. CASE Restart \/ OtherProcess
      <3>1. latest' = <<latest[1], "interrupted">> /\ latest[2] \notin Terminal
          BY <2>3, <2>a, MarkFacts DEF Restart, OtherProcess
      <3> QED
          BY <3>1, <2>a DEF Rows
  <2> QED
      BY <2>1, <2>2, <2>3
      DEF TurnNext, TurnStep, InferenceEnds, Begin, Refused, Shortcut, Persist,
          QuestionTimesOut, PublishAnswer, Die
<1> QED
    BY <1>1, TurnInvariant, PTL DEF TurnSpec, NoFalseInterruption

\* A process that starts reports the turn the last one died in between two of
\* its rows, unless one of them was lost or the file ends in half a row; a turn
\* whose answer was not published yet it leaves completed
\* (mark_interrupted_inflight).
THEOREM TurnInterruptedReported == TurnSpec => InterruptedReported
<1>1. TurnInv /\ [TurnNext]_turnVars =>
        [~running /\ running' /\ lost[1] \notin blind \cup {NoTurn} /\ ~torn =>
            /\ lost[2] \in Recording => latest' = <<lost[1], "interrupted">>
            /\ lost[2] = "publishing" => latest' = <<lost[1], "completed">>]_turnVars
  <2> SUFFICES ASSUME TurnInv, TurnNext, ~running, running',
                      lost[1] \notin blind \cup {NoTurn}, ~torn
               PROVE  /\ lost[2] \in Recording => latest' = <<lost[1], "interrupted">>
                      /\ lost[2] = "publishing" => latest' = <<lost[1], "completed">>
      BY DEF turnVars
  <2>a. TurnTypeOK /\ Placed /\ Rows
      BY DEF TurnInv
  <2>1. /\ lost[2] \in Recording =>
              latest[1] = lost[1] /\ latest[2] \notin {"completed", "failed"}
        /\ lost[2] = "publishing" => latest = <<lost[1], "completed">>
      BY <2>a DEF Rows
  <2>2. Restart
      BY <2>a DEF TurnNext, TurnStep, InferenceEnds, Begin, Refused, Reply, Shortcut, Persist,
                  Accept, Infer, Ask, QuestionTimesOut, Complete, PublishAnswer, Finalize,
                  AttemptFails, Cancel, Die, OtherProcess, Placed
  <2>3. \/ latest' = latest /\ latest[2] \in Terminal
        \/ latest' = <<latest[1], "interrupted">> /\ latest[2] \notin Terminal
      BY <2>2, <2>a, MarkFacts DEF Restart
  <2>4. latest = <<latest[1], latest[2]>>
      BY <2>a DEF TurnTypeOK
  <2>5. CASE lost[2] \in Recording
      BY <2>1, <2>3, <2>4, <2>5 DEF Terminal, Recording
  <2>6. CASE lost[2] = "publishing"
      BY <2>1, <2>3, <2>6 DEF Terminal, Recording
  <2> QED
      BY <2>5, <2>6
<1> QED
    BY <1>1, TurnInvariant, PTL DEF TurnSpec, InterruptedReported
=============================================================================

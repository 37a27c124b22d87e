----------------------------- MODULE ToolProofs -----------------------------
(***************************************************************************)
(* Proofs about ToolLoop over ProviderRecovery, for every number of        *)
(* providers, retries, iterations and tool calls.                          *)
(*                                                                         *)
(* What is not inductive by itself: that no call runs twice rests on every *)
(* call that was started while the response arrived being a preflight      *)
(* task, and on nothing being started in an attempt that is retried        *)
(* (Quiet); that no tool is left running rests on where the executions of  *)
(* each branch are (Whereabouts).                                          *)
(***************************************************************************)
EXTENDS ToolLoop, FiniteSetTheorems, SequenceTheorems, TLAPS

CallsType == calls \in Seq(CallKinds)

\* An attempt that may still be retried has shown and started nothing.
Quiet ==
    phase = "model" =>
        /\ ask.st = "backoff" => ~ask.yielded
        /\ ~ask.yielded =>
              /\ calls = <<>> /\ preflight = {} /\ speakers = {}
              /\ \A i \in Places : exec[i] = "none"

\* All that was heard of a response came from one attempt, which is the
\* current one while the response arrives.
Speaking ==
    /\ \E p : speakers \subseteq {p}
    /\ phase = "model" => speakers \subseteq {<<ask.provider, ask.attempt>>}

\* A call was started once or not at all.
Counted ==
    \A i \in Places : launches[i] = (IF exec[i] = "none" THEN 0 ELSE 1)

\* Which calls may be executing, and which must be over.
Whereabouts ==
    /\ phase = "model" => \A i \in Places : exec[i] # "none" => i \in preflight
    /\ phase = "parallel" =>
          \A i \in Places : exec[i] = "on" => i \in Unique(calls) \cup preflight
    /\ phase = "sequential" =>
          /\ cur \in 1 .. Len(calls) + 1
          /\ \A i \in Places :
                exec[i] = "on" => i \in preflight \/ (i = cur /\ cur \in Unique(calls))
          /\ \A i \in Unique(calls) : i < cur => exec[i] = "over"

\* A loop that was not cancelled leaves no tool running.
NothingLeft ==
    phase = "over" /\ outcome # "cancelled" => \A i \in Places : exec[i] # "on"

ToolInv == ToolTypeOK /\ CallsType /\ Quiet /\ Speaking /\ Counted /\ Whereabouts /\ NothingLeft

-----------------------------------------------------------------------------
\* The request below the loop.
LEMMA NewRequestType ==
    ASSUME NEW b \in BOOLEAN
    PROVE  /\ NewRequest(b) \in Request /\ NewRequest(b).st = "calling"
           /\ NewRequest(b).yielded = FALSE
BY ProvidersAssumption DEF NewRequest, Request

\* A retry or failover is another attempt of the same request.
LEMMA RecoversType ==
    ASSUME ask \in Request, NEW f \in Failures, Recovers(f)
    PROVE  ask' \in Request /\ ask'.yielded = FALSE /\ ask.yielded = FALSE
<1>1. ask.st = "calling" /\ ask.yielded = FALSE
    BY DEF Recovers, Request
<1>2. CASE Decision(f) = "retry"
  <2>1. ask' = [ask EXCEPT !.st = "backoff", !.attempt = ask.attempt + 1]
    BY <1>2 DEF Recovers
  <2>2. ask.attempt < MaxRetries
    BY <1>2 DEF Decision
  <2>3. ask.attempt + 1 \in 0 .. MaxRetries
    BY <2>2, ProvidersAssumption DEF Request
  <2>4. ask' \in Request
    BY <2>1, <2>3 DEF Request
  <2>5. ask'.yielded = FALSE
    BY <1>1, <2>1 DEF Request
  <2> QED
    BY <1>1, <2>4, <2>5
<1>3. CASE Decision(f) = "failover"
  <2>1. ask' = [ask EXCEPT !.provider = ask.provider + 1, !.attempt = 0]
    BY <1>3 DEF Recovers
  <2>2. ask.provider < NProviders
    BY <1>3 DEF Decision
  <2>3. ask.provider + 1 \in 1 .. NProviders /\ 0 \in 0 .. MaxRetries
    BY <2>2, ProvidersAssumption DEF Request
  <2>4. ask' \in Request
    BY <2>1, <2>3 DEF Request
  <2>5. ask'.yielded = FALSE
    BY <1>1, <2>1 DEF Request
  <2> QED
    BY <1>1, <2>4, <2>5
<1> QED
    BY <1>2, <1>3 DEF Recovers

\* What each other step does to the request.
LEMMA AskMoves ==
    ASSUME ask \in Request
    PROVE  /\ Completes => ask' \in Request
           /\ BreaksOff => ask' \in Request
           /\ \A f \in Failures : GivesUp(f) => ask' \in Request
           /\ PauseEnds => /\ ask' \in Request /\ ask.st = "backoff" /\ ask'.st = "calling"
                           /\ ask'.yielded = ask.yielded /\ ask'.provider = ask.provider
                           /\ ask'.attempt = ask.attempt
           /\ Yields => /\ ask' \in Request /\ ask.st = "calling" /\ ask'.st = "calling"
                        /\ ask'.yielded = TRUE /\ ask'.provider = ask.provider
                        /\ ask'.attempt = ask.attempt
BY DEF Completes, BreaksOff, GivesUp, PauseEnds, Yields, Request

-----------------------------------------------------------------------------
\* The loop is left and cancels what runs, or is cancelled itself.
LEMMA LeavesKeeps ==
    ASSUME ToolInv, NEW o \in {"answer", "limit", "auth", "cancelled"}, NEW S, Leaves(o, S),
           ask' \in Request,
           o # "cancelled" => \A i \in Places : exec[i] = "on" => i \in S
    PROVE  ToolInv'
<1>1. /\ phase' = "over" /\ outcome' = o /\ preflight' = {}
      /\ UNCHANGED <<iteration, calls, cur, launches, speakers>>
      /\ exec' = [i \in Places |-> IF i \in S /\ exec[i] = "on" THEN "cancelled" ELSE exec[i]]
    BY DEF Leaves, Cancels
<1>2. /\ exec \in [Places -> {"none", "on", "over", "cancelled"}]
      /\ exec' \in [Places -> {"none", "on", "over", "cancelled"}]
      /\ \A i \in Places : exec'[i] = "none" <=> exec[i] = "none"
    BY <1>1 DEF ToolInv, ToolTypeOK
<1>3. ToolTypeOK' /\ CallsType'
    BY <1>1, <1>2 DEF ToolInv, ToolTypeOK, CallsType
<1>4. Quiet' /\ Speaking' /\ Whereabouts'
    BY <1>1 DEF ToolInv, Quiet, Speaking, Whereabouts
<1>5. Counted'
    BY <1>1, <1>2 DEF ToolInv, Counted
<1>6. NothingLeft'
    BY <1>1 DEF NothingLeft
<1> QED
    BY <1>3, <1>4, <1>5, <1>6 DEF ToolInv

\* What was started for a response that is not complete is preflighted.
LEMMA ModelOn ==
    ASSUME ToolInv, phase = "model" PROVE \A i \in Places : exec[i] = "on" => i \in preflight
BY DEF ToolInv, Whereabouts

\* The loop ends with an answer or an error.
LEMMA LeaveSteps ==
    ASSUME ToolInv, ModelFails \/ ModelBreaksOff \/ ModelAnswers PROVE ToolInv'
<1>1. ask \in Request
    BY DEF ToolInv, ToolTypeOK
<1>2. phase = "model" /\ ask' \in Request
    BY <1>1, AskMoves DEF ModelFails, ModelBreaksOff, ModelAnswers
<1>3. \E o \in {"answer", "auth"} : Leaves(o, preflight)
    BY DEF ModelFails, ModelBreaksOff, ModelAnswers
<1> QED
    BY <1>2, <1>3, ModelOn, LeavesKeeps

\* The loop is cancelled.
LEMMA CancelStep == ASSUME ToolInv, TurnCancelled PROVE ToolInv'
<1>1. ask' \in Request
    BY DEF TurnCancelled, ToolInv, ToolTypeOK, Request
<1>2. PICK S : Leaves("cancelled", S)
    BY DEF TurnCancelled
<1> QED
    BY <1>1, <1>2, LeavesKeeps

\* The next iteration starts from nothing.
LEMMA NextKeeps ==
    ASSUME ToolInv, NextIteration, \A i \in Places : exec[i] = "on" => i \in preflight
    PROVE  ToolInv'
<1>1. ask \in Request /\ ask.stream \in BOOLEAN
    BY DEF ToolInv, ToolTypeOK, Request
<1>2. CASE iteration = MaxIterations
    BY <1>1, <1>2, LeavesKeeps DEF NextIteration
<1>3. CASE iteration # MaxIterations
  <2>1. /\ phase' = "model" /\ iteration' = iteration + 1
        /\ ask' = NewRequest(ask.stream)
        /\ calls' = <<>> /\ preflight' = {} /\ exec' = Idle /\ cur' = 0
        /\ launches' = Never /\ speakers' = {} /\ outcome' = outcome
    BY <1>3 DEF NextIteration
  <2>2. /\ ask' \in Request /\ ask'.st = "calling" /\ ask'.yielded = FALSE
    BY <1>1, <2>1, NewRequestType
  <2>3. calls' \in Seq(CallKinds) /\ Len(calls') = 0
    BY <2>1, EmptySeq
  <2>4. /\ exec' \in [Places -> {"none", "on", "over", "cancelled"}]
        /\ launches' \in [Places -> Nat]
        /\ \A i \in Places : exec'[i] = "none" /\ launches'[i] = 0
    BY <2>1 DEF Idle, Never
  <2>5. iteration' \in 1 .. MaxIterations /\ cur' \in 0 .. MaxCalls + 1
    <3>1. iteration \in 1 .. MaxIterations
      BY DEF ToolInv, ToolTypeOK
    <3>2. iteration' = iteration + 1 /\ cur' = 0
      BY <2>1
    <3> QED
      BY <1>3, <3>1, <3>2, LoopAssumption
  <2>6. /\ outcome' \in {"", "answer", "limit", "auth", "cancelled"}
        /\ phase' \in {"model", "parallel", "sequential", "over"}
        /\ preflight' \subseteq DOMAIN calls'
    BY <2>1 DEF ToolInv, ToolTypeOK
  <2>7. Len(calls') <= MaxCalls /\ \A i \in DOMAIN calls' : calls'[i] \in CallKinds
    <3>1. calls' = <<>> /\ DOMAIN <<>> = {}
      BY <2>1
    <3> QED
      BY <2>3, <3>1, LoopAssumption
  <2>8. ToolTypeOK' /\ CallsType'
    BY <2>2, <2>3, <2>4, <2>5, <2>6, <2>7 DEF ToolTypeOK, CallsType
  <2>9. Quiet' /\ Speaking'
    BY <2>1, <2>2, <2>4 DEF Quiet, Speaking
  <2>10. Counted' /\ Whereabouts'
    BY <2>1, <2>4 DEF Counted, Whereabouts
  <2>11. NothingLeft'
    BY <2>1 DEF NothingLeft
  <2> QED
    BY <2>8, <2>9, <2>10, <2>11 DEF ToolInv
<1> QED
    BY <1>2, <1>3

-----------------------------------------------------------------------------
\* While the response arrives.
LEMMA RecoverStep == ASSUME ToolInv, ModelRecovers PROVE ToolInv'
<1>1. phase = "model" /\ phase' = "model" /\ calls' = <<>>
      /\ UNCHANGED <<outcome, iteration, preflight, exec, cur, launches, speakers>>
    BY DEF ModelRecovers
<1>2. ask' \in Request /\ ask'.yielded = FALSE /\ ask.yielded = FALSE
    BY RecoversType DEF ModelRecovers, ToolInv, ToolTypeOK
<1>3. calls = <<>> /\ preflight = {} /\ speakers = {} /\ \A i \in Places : exec[i] = "none"
    BY <1>1, <1>2 DEF ToolInv, Quiet
<1>4. ToolTypeOK' /\ CallsType'
    BY <1>1, <1>2, <1>3 DEF ToolInv, ToolTypeOK, CallsType
<1>5. Quiet' /\ Speaking' /\ Counted' /\ Whereabouts' /\ NothingLeft'
    BY <1>1, <1>2, <1>3 DEF ToolInv, Quiet, Speaking, Counted, Whereabouts, NothingLeft
<1> QED
    BY <1>4, <1>5 DEF ToolInv

\* The pause before a retry ends.
LEMMA RetryStep == ASSUME ToolInv, ModelRetried PROVE ToolInv'
<1>1. phase = "model" /\ UNCHANGED <<phase, outcome, iteration, calls, preflight, exec, cur,
                                    launches, speakers>>
    BY DEF ModelRetried
<1>2. /\ ask' \in Request /\ ask'.st = "calling" /\ ask'.yielded = ask.yielded
      /\ ask'.provider = ask.provider /\ ask'.attempt = ask.attempt
    BY AskMoves DEF ModelRetried, ToolInv, ToolTypeOK
<1>3. ToolTypeOK' /\ CallsType'
    BY <1>1, <1>2 DEF ToolInv, ToolTypeOK, CallsType
<1>4. Quiet' /\ Speaking' /\ Counted' /\ Whereabouts' /\ NothingLeft'
    BY <1>1, <1>2 DEF ToolInv, Quiet, Speaking, Counted, Whereabouts, NothingLeft
<1> QED
    BY <1>3, <1>4 DEF ToolInv

\* Text of the response arrives.
LEMMA TextStep == ASSUME ToolInv, ModelText PROVE ToolInv'
<1>1. phase = "model" /\ UNCHANGED <<phase, outcome, iteration, calls, preflight, exec, cur,
                                    launches>>
      /\ speakers' = speakers \cup {<<ask.provider, ask.attempt>>}
    BY DEF ModelText, Heard
<1>2. /\ ask' \in Request /\ ask'.st = "calling" /\ ask'.yielded = TRUE
      /\ ask'.provider = ask.provider /\ ask'.attempt = ask.attempt
    BY AskMoves DEF ModelText, ToolInv, ToolTypeOK
<1>3. ToolTypeOK' /\ CallsType'
    BY <1>1, <1>2 DEF ToolInv, ToolTypeOK, CallsType
<1>4. speakers' \subseteq {<<ask'.provider, ask'.attempt>>}
    BY <1>1, <1>2 DEF ToolInv, Speaking
<1>5. Speaking'
    BY <1>4 DEF Speaking
<1>6. Quiet' /\ Counted' /\ Whereabouts' /\ NothingLeft'
    BY <1>1, <1>2 DEF ToolInv, Quiet, Counted, Whereabouts, NothingLeft
<1> QED
    BY <1>3, <1>5, <1>6 DEF ToolInv

\* What a longer sequence of calls says of its places.
LEMMA AppendCall ==
    ASSUME calls \in Seq(CallKinds), NEW k \in CallKinds
    PROVE  /\ Append(calls, k) \in Seq(CallKinds)
           /\ Len(Append(calls, k)) = Len(calls) + 1
           /\ \A i \in DOMAIN Append(calls, k) : Append(calls, k)[i] \in CallKinds
           /\ DOMAIN calls = 1 .. Len(calls) /\ Len(calls) \in Nat
           /\ DOMAIN Append(calls, k) = 1 .. Len(calls) + 1
<1>1. /\ Append(calls, k) \in Seq(CallKinds) /\ Len(Append(calls, k)) = Len(calls) + 1
    BY AppendProperties
<1>2. DOMAIN calls = 1 .. Len(calls) /\ Len(calls) \in Nat
    BY LenProperties
<1>3. DOMAIN Append(calls, k) = 1 .. Len(calls) + 1
    BY <1>1, LenProperties
<1>4. \A i \in 1 .. Len(Append(calls, k)) : Append(calls, k)[i] \in CallKinds
    BY <1>1, ElementOfSeq
<1> QED
    BY <1>1, <1>2, <1>3, <1>4

\* A tool call of the response arrives.
LEMMA ReadyStep == ASSUME ToolInv, ModelReady PROVE ToolInv'
<1> DEFINE j == Len(calls) + 1
<1>1. /\ phase = "model" /\ phase' = "model" /\ Len(calls) < MaxCalls
      /\ UNCHANGED <<outcome, iteration, cur>>
      /\ speakers' = speakers \cup {<<ask.provider, ask.attempt>>}
    BY DEF ModelReady, Heard
<1>2. /\ ask' \in Request /\ ask'.st = "calling" /\ ask'.yielded = TRUE
      /\ ask'.provider = ask.provider /\ ask'.attempt = ask.attempt
    BY AskMoves DEF ModelReady, ToolInv, ToolTypeOK
<1>3. PICK k \in CallKinds :
         /\ calls' = Append(calls, k)
         /\ IF k = "unsafe" THEN UNCHANGED <<preflight, exec, launches>>
            ELSE preflight' = preflight \cup {j} /\ Launched({j})
    BY DEF ModelReady
<1>4. /\ calls' \in Seq(CallKinds) /\ Len(calls') = j
      /\ \A i \in DOMAIN calls' : calls'[i] \in CallKinds
      /\ DOMAIN calls = 1 .. Len(calls) /\ DOMAIN calls' = 1 .. j /\ Len(calls) \in Nat
    BY <1>3, AppendCall DEF ToolInv, CallsType
<1>5. j \in Places /\ j \notin preflight /\ preflight \subseteq DOMAIN calls
  <2>1. preflight \subseteq DOMAIN calls
    BY DEF ToolInv, ToolTypeOK
  <2> QED
    BY <2>1, <1>1, <1>4, LoopAssumption DEF Places
<1>6. exec[j] = "none" /\ launches[j] = 0
  <2>1. exec[j] = "none"
    BY <1>1, <1>5 DEF ToolInv, Whereabouts
  <2> QED
    BY <2>1, <1>5 DEF ToolInv, Counted
<1>7. /\ exec \in [Places -> {"none", "on", "over", "cancelled"}]
      /\ launches \in [Places -> Nat]
    BY DEF ToolInv, ToolTypeOK
<1>8. /\ \/ UNCHANGED <<exec, launches, preflight>>
         \/ /\ preflight' = preflight \cup {j}
            /\ exec' = [exec EXCEPT ![j] = "on"]
            /\ launches' = [launches EXCEPT ![j] = 1]
  <2>1. CASE k = "unsafe"
    BY <1>3, <2>1
  <2>2. CASE k # "unsafe"
    <3>1. Launched({j}) /\ preflight' = preflight \cup {j}
      BY <1>3, <2>2
    <3>2. exec' = [exec EXCEPT ![j] = "on"]
      BY <3>1, <1>7 DEF Launched
    <3>3. launches' = [launches EXCEPT ![j] = launches[j] + 1]
      BY <3>1, <1>7 DEF Launched
    <3> QED
      BY <3>1, <3>2, <3>3, <1>6
  <2> QED
    BY <2>1, <2>2
<1> HIDE DEF j
<1>9. /\ exec' \in [Places -> {"none", "on", "over", "cancelled"}]
      /\ launches' \in [Places -> Nat]
    BY <1>7, <1>8
<1>10. preflight' \subseteq DOMAIN calls' /\ preflight \subseteq preflight'
  <2>1. DOMAIN calls \subseteq DOMAIN calls' /\ j \in DOMAIN calls'
    BY <1>4 DEF j
  <2> QED
    BY <2>1, <1>5, <1>8
<1>11. Len(calls') <= MaxCalls
    BY <1>1, <1>4, LoopAssumption DEF j
<1>12. ToolTypeOK' /\ CallsType'
    BY <1>1, <1>2, <1>4, <1>9, <1>10, <1>11 DEF ToolInv, ToolTypeOK, CallsType
<1>13. Quiet' /\ NothingLeft'
    BY <1>1, <1>2 DEF Quiet, NothingLeft
<1>14. Speaking'
  <2>1. speakers' \subseteq {<<ask'.provider, ask'.attempt>>}
    BY <1>1, <1>2 DEF ToolInv, Speaking
  <2> QED
    BY <2>1 DEF Speaking
<1>15. Counted'
  <2>1. \A i \in Places : launches[i] = (IF exec[i] = "none" THEN 0 ELSE 1)
    BY DEF ToolInv, Counted
  <2>2. \A i \in Places : launches'[i] = (IF exec'[i] = "none" THEN 0 ELSE 1)
    BY <2>1, <1>7, <1>8
  <2> QED
    BY <2>2 DEF Counted
<1>16. Whereabouts'
  <2>1. \A i \in Places : exec[i] # "none" => i \in preflight
    BY <1>1 DEF ToolInv, Whereabouts
  <2>2. \A i \in Places : exec'[i] # "none" => i \in preflight'
    BY <2>1, <1>7, <1>8
  <2> QED
    BY <2>2, <1>1 DEF Whereabouts
<1> QED
    BY <1>12, <1>13, <1>14, <1>15, <1>16 DEF ToolInv

\* The response is complete: its calls are executed together, or one by one.
LEMMA CallsStep == ASSUME ToolInv, ModelCalls PROVE ToolInv'
<1>1. /\ phase = "model" /\ ask' \in Request
      /\ UNCHANGED <<outcome, iteration, preflight, speakers>>
    BY AskMoves DEF ModelCalls, ToolInv, ToolTypeOK
<1>2. PICK n \in Places : \E cs \in [1 .. n -> CallKinds] :
         /\ Len(calls) <= n /\ calls' = cs
         /\ IF AllParallel(cs)
            THEN phase' = "parallel" /\ cur' = 0 /\ Launched(Unique(cs) \ preflight)
            ELSE phase' = "sequential" /\ cur' = 1 /\ UNCHANGED <<exec, launches>>
    BY DEF ModelCalls
<1>3. PICK cs \in [1 .. n -> CallKinds] :
         /\ Len(calls) <= n /\ calls' = cs
         /\ IF AllParallel(cs)
            THEN phase' = "parallel" /\ cur' = 0 /\ Launched(Unique(cs) \ preflight)
            ELSE phase' = "sequential" /\ cur' = 1 /\ UNCHANGED <<exec, launches>>
    BY <1>2
<1>4. /\ calls' \in Seq(CallKinds) /\ Len(calls') = n /\ DOMAIN calls' = 1 .. n
      /\ \A i \in DOMAIN calls' : calls'[i] \in CallKinds
  <2>1. n \in Nat
    BY LoopAssumption DEF Places
  <2>2. cs \in Seq(CallKinds) /\ Len(cs) = n
    BY <2>1, SeqDef, LenProperties
  <2> QED
    BY <1>3, <2>1, <2>2
<1>5. /\ exec \in [Places -> {"none", "on", "over", "cancelled"}]
      /\ launches \in [Places -> Nat] /\ preflight \subseteq DOMAIN calls
    BY DEF ToolInv, ToolTypeOK
<1>6. n \in Nat /\ n <= MaxCalls /\ preflight \subseteq DOMAIN calls'
  <2>1. DOMAIN calls = 1 .. Len(calls) /\ Len(calls) \in Nat
    BY LenProperties DEF ToolInv, CallsType
  <2>2. n \in Nat /\ n <= MaxCalls
    BY LoopAssumption DEF Places
  <2> QED
    BY <2>1, <2>2, <1>3, <1>4, <1>5
<1>7. /\ phase' \in {"parallel", "sequential"} /\ cur' \in 0 .. MaxCalls + 1
      /\ phase' = "sequential" => cur' = 1
    BY <1>3, LoopAssumption
<1>8. \A i \in Places : exec[i] # "none" => i \in preflight
    BY <1>1 DEF ToolInv, Whereabouts
<1>9. \A i \in Places : launches[i] = (IF exec[i] = "none" THEN 0 ELSE 1)
    BY DEF ToolInv, Counted
<1>10. /\ exec' \in [Places -> {"none", "on", "over", "cancelled"}]
       /\ launches' \in [Places -> Nat]
       /\ \A i \in Places : launches'[i] = (IF exec'[i] = "none" THEN 0 ELSE 1)
       /\ \A i \in Places : exec'[i] = "on" =>
            i \in preflight \/ (phase' = "parallel" /\ i \in Unique(calls'))
  <2>1. CASE AllParallel(cs)
    <3>1. /\ exec' = [i \in Places |-> IF i \in Unique(cs) \ preflight THEN "on" ELSE exec[i]]
          /\ launches' = [i \in Places |->
                IF i \in Unique(cs) \ preflight THEN launches[i] + 1 ELSE launches[i]]
          /\ phase' = "parallel" /\ calls' = cs
      BY <1>3, <2>1 DEF Launched
    <3>2. \A i \in Places : i \in Unique(cs) \ preflight => exec[i] = "none" /\ launches[i] = 0
      BY <1>8, <1>9
    <3>3. \A i \in Places : launches[i] + 1 \in Nat
      BY <1>5
    <3>4. exec' \in [Places -> {"none", "on", "over", "cancelled"}] /\ launches' \in [Places -> Nat]
      BY <1>5, <3>1, <3>3
    <3>5. \A i \in Places : launches'[i] = (IF exec'[i] = "none" THEN 0 ELSE 1)
      BY <3>1, <3>2, <1>9
    <3>6. \A i \in Places : exec'[i] = "on" =>
            i \in preflight \/ (phase' = "parallel" /\ i \in Unique(calls'))
      BY <3>1, <1>8
    <3> QED
      BY <3>4, <3>5, <3>6
  <2>2. CASE ~AllParallel(cs)
    <3>1. UNCHANGED <<exec, launches>>
      BY <1>3, <2>2
    <3> QED
      BY <3>1, <1>5, <1>8, <1>9
  <2> QED
    BY <2>1, <2>2
<1>11. ToolTypeOK' /\ CallsType'
    BY <1>1, <1>4, <1>6, <1>7, <1>10 DEF ToolInv, ToolTypeOK, CallsType
<1>12. Quiet' /\ NothingLeft' /\ Counted'
    BY <1>7, <1>10 DEF Quiet, NothingLeft, Counted
<1>13. Speaking'
    BY <1>1, <1>7 DEF ToolInv, Speaking
<1>14. Whereabouts'
  <2>1. \A i \in Unique(calls') : ~(i < 1)
    BY <1>4 DEF Unique
  <2>2. phase' = "sequential" => cur' = 1 /\ cur' \in 1 .. Len(calls') + 1
    BY <1>4, <1>6, <1>7
  <2>3. phase' # "model"
    BY <1>7
  <2>4. phase' = "parallel" =>
          \A i \in Places : exec'[i] = "on" => i \in Unique(calls') \cup preflight'
    BY <1>1, <1>10
  <2>5. phase' = "sequential" => \A i \in Places : exec'[i] = "on" => i \in preflight'
    BY <1>1, <1>10
  <2> QED
    BY <2>1, <2>2, <2>3, <2>4, <2>5 DEF Whereabouts
<1> QED
    BY <1>11, <1>12, <1>13, <1>14 DEF ToolInv

-----------------------------------------------------------------------------
\* While the calls are executed.
LEMMA EndStep == ASSUME ToolInv, ToolEnds PROVE ToolInv'
<1>1. PICK j \in Places : exec[j] = "on" /\ exec' = [exec EXCEPT ![j] = "over"]
    BY DEF ToolEnds
<1>2. UNCHANGED <<ask, phase, outcome, iteration, calls, preflight, cur, launches, speakers>>
    BY DEF ToolEnds
<1>3. exec \in [Places -> {"none", "on", "over", "cancelled"}]
    BY DEF ToolInv, ToolTypeOK
<1>4. /\ exec' \in [Places -> {"none", "on", "over", "cancelled"}]
      /\ \A i \in Places : exec'[i] = "none" <=> exec[i] = "none"
      /\ \A i \in Places : exec'[i] = "on" => exec[i] = "on"
      /\ \A i \in Places : exec[i] = "over" => exec'[i] = "over"
    BY <1>1, <1>3
<1>5. ToolTypeOK' /\ CallsType' /\ Speaking'
    BY <1>2, <1>4 DEF ToolInv, ToolTypeOK, CallsType, Speaking
<1>6. Quiet' /\ Counted' /\ NothingLeft'
    BY <1>2, <1>4 DEF ToolInv, Quiet, Counted, NothingLeft
<1>7. Whereabouts'
  <2>1. \A i \in Unique(calls) : phase = "sequential" => i \in Places
    <3>1. DOMAIN calls = 1 .. Len(calls) /\ Len(calls) \in Nat /\ Len(calls) <= MaxCalls
      BY LenProperties DEF ToolInv, CallsType, ToolTypeOK
    <3> QED
      BY <3>1, LoopAssumption DEF Unique, Places
  <2> QED
    BY <1>2, <1>4, <2>1 DEF ToolInv, Whereabouts
<1> QED
    BY <1>5, <1>6, <1>7 DEF ToolInv

\* gather returned.
LEMMA ParallelStep == ASSUME ToolInv, ParallelEnds PROVE ToolInv'
<1>1. \A i \in Places : exec[i] = "on" => i \in preflight
    BY DEF ParallelEnds, ToolInv, Whereabouts
<1> QED
    BY <1>1, NextKeeps DEF ParallelEnds

\* The last call of the sequential branch is over.
LEMMA SequentialStep == ASSUME ToolInv, SequentialEnds PROVE ToolInv'
<1>1. cur \notin Unique(calls)
  <2>1. DOMAIN calls = 1 .. Len(calls) /\ Len(calls) \in Nat /\ cur = Len(calls) + 1
    BY LenProperties DEF ToolInv, CallsType, SequentialEnds
  <2> QED
    BY <2>1 DEF Unique
<1>2. \A i \in Places : exec[i] = "on" => i \in preflight
    BY <1>1 DEF SequentialEnds, ToolInv, Whereabouts
<1> QED
    BY <1>2, NextKeeps DEF SequentialEnds

\* The sequential branch starts a call.
LEMMA StartStep == ASSUME ToolInv, CallStarts PROVE ToolInv'
<1>1. /\ phase = "sequential" /\ cur \in Unique(calls) /\ exec[cur] = "none"
      /\ UNCHANGED <<ask, phase, outcome, iteration, calls, preflight, cur, speakers>>
      /\ exec' = [i \in Places |-> IF i \in {cur} THEN "on" ELSE exec[i]]
      /\ launches' = [i \in Places |-> IF i \in {cur} THEN launches[i] + 1 ELSE launches[i]]
    BY DEF CallStarts, Launched
<1>2. /\ exec \in [Places -> {"none", "on", "over", "cancelled"}]
      /\ launches \in [Places -> Nat]
      /\ \A i \in Places : launches[i] = (IF exec[i] = "none" THEN 0 ELSE 1)
    BY DEF ToolInv, ToolTypeOK, Counted
<1>3. Unique(calls) \subseteq Places
  <2>1. DOMAIN calls = 1 .. Len(calls) /\ Len(calls) \in Nat /\ Len(calls) <= MaxCalls
    BY LenProperties DEF ToolInv, CallsType, ToolTypeOK
  <2> QED
    BY <2>1, LoopAssumption DEF Unique, Places
<1>4. \A i \in Places : launches[i] + 1 \in Nat
    BY <1>2
<1>5. /\ exec' \in [Places -> {"none", "on", "over", "cancelled"}]
      /\ launches' \in [Places -> Nat]
    BY <1>1, <1>2, <1>4
<1>6. \A i \in Places : launches'[i] = (IF exec'[i] = "none" THEN 0 ELSE 1)
    BY <1>1, <1>2
<1>7. ToolTypeOK' /\ CallsType' /\ Speaking'
    BY <1>1, <1>5 DEF ToolInv, ToolTypeOK, CallsType, Speaking
<1>8. Quiet' /\ Counted' /\ NothingLeft'
    BY <1>1, <1>6 DEF Quiet, Counted, NothingLeft
<1>9. Whereabouts'
  <2>1. /\ cur \in 1 .. Len(calls) + 1
        /\ \A i \in Places :
              exec[i] = "on" => i \in preflight \/ (i = cur /\ cur \in Unique(calls))
        /\ \A i \in Unique(calls) : i < cur => exec[i] = "over"
    BY <1>1 DEF ToolInv, Whereabouts
  <2>2. \A i \in Places :
           exec'[i] = "on" => i \in preflight \/ (i = cur /\ cur \in Unique(calls))
    BY <1>1, <2>1
  <2>3. \A i \in Unique(calls) : i < cur => exec'[i] = "over"
    <3>1. TAKE i \in Unique(calls)
    <3>2. HAVE i < cur
    <3>3. i # cur /\ exec[i] = "over" /\ i \in Places
      BY <1>1, <1>3, <2>1, <3>2
    <3> QED
      BY <1>1, <3>3
  <2> QED
    BY <1>1, <2>1, <2>2, <2>3 DEF Whereabouts
<1> QED
    BY <1>7, <1>8, <1>9 DEF ToolInv

\* The sequential branch goes on to the next call.
LEMMA OverStep == ASSUME ToolInv, CallEnds PROVE ToolInv'
<1>1. /\ phase = "sequential" /\ cur \in DOMAIN calls
      /\ cur \in Unique(calls) => exec[cur] = "over"
      /\ cur' = cur + 1
      /\ preflight' = IF cur \in Unique(calls) THEN preflight \ {cur} ELSE preflight
      /\ UNCHANGED <<ask, phase, outcome, iteration, calls, exec, launches, speakers>>
    BY DEF CallEnds
<1>2. DOMAIN calls = 1 .. Len(calls) /\ Len(calls) \in Nat /\ Len(calls) <= MaxCalls
    BY LenProperties DEF ToolInv, CallsType, ToolTypeOK
<1>3. cur' \in 0 .. MaxCalls + 1 /\ cur' \in 1 .. Len(calls) + 1 /\ preflight' \subseteq preflight
    BY <1>1, <1>2, LoopAssumption
<1>4. ToolTypeOK' /\ CallsType' /\ Speaking'
    BY <1>1, <1>3 DEF ToolInv, ToolTypeOK, CallsType, Speaking
<1>5. Quiet' /\ Counted' /\ NothingLeft'
    BY <1>1 DEF ToolInv, Quiet, Counted, NothingLeft
<1>6. Whereabouts'
  <2>1. /\ \A i \in Places :
              exec[i] = "on" => i \in preflight \/ (i = cur /\ cur \in Unique(calls))
        /\ \A i \in Unique(calls) : i < cur => exec[i] = "over"
    BY <1>1 DEF ToolInv, Whereabouts
  <2>2. \A i \in Places : exec[i] = "on" => i \in preflight'
    BY <1>1, <2>1
  <2>3. \A i \in Unique(calls) : i < cur + 1 => exec[i] = "over"
    <3>1. TAKE i \in Unique(calls)
    <3>2. HAVE i < cur + 1
    <3>3. i < cur \/ i = cur
      BY <3>2, <1>1, <1>2 DEF Unique
    <3> QED
      BY <1>1, <2>1, <3>3
  <2> QED
    BY <1>1, <1>3, <2>2, <2>3 DEF Whereabouts
<1> QED
    BY <1>4, <1>5, <1>6 DEF ToolInv

-----------------------------------------------------------------------------
\* The invariant holds initially.
LEMMA ToolInitial == ToolInit => ToolInv
<1> SUFFICES ASSUME ToolInit PROVE ToolInv
    OBVIOUS
<1>1. /\ phase = "model" /\ outcome = "" /\ iteration = 1
      /\ calls = <<>> /\ preflight = {} /\ exec = Idle /\ cur = 0
      /\ launches = Never /\ speakers = {}
    BY DEF ToolInit
<1>2. ask \in Request /\ ask.st = "calling" /\ ask.yielded = FALSE
    BY NewRequestType DEF ToolInit
<1>3. calls \in Seq(CallKinds) /\ Len(calls) = 0 /\ DOMAIN calls = {}
  <2>1. <<>> \in Seq(CallKinds) /\ Len(<<>>) = 0
    BY EmptySeq
  <2>2. calls = <<>>
    BY <1>1
  <2>3. DOMAIN <<>> = {}
    OBVIOUS
  <2> QED
    BY <2>1, <2>2, <2>3
<1>4. /\ exec \in [Places -> {"none", "on", "over", "cancelled"}]
      /\ launches \in [Places -> Nat]
      /\ \A i \in Places : exec[i] = "none" /\ launches[i] = 0
    BY <1>1 DEF Idle, Never
<1>5. /\ iteration \in 1 .. MaxIterations /\ cur \in 0 .. MaxCalls + 1
      /\ Len(calls) <= MaxCalls
  <2>1. iteration = 1 /\ cur = 0
    BY <1>1
  <2> QED
    BY <2>1, <1>3, LoopAssumption
<1>6. ToolTypeOK /\ CallsType
    BY <1>1, <1>2, <1>3, <1>4, <1>5 DEF ToolTypeOK, CallsType
<1>7. Quiet /\ Speaking
    BY <1>1, <1>2, <1>4 DEF Quiet, Speaking
<1>8. Counted /\ Whereabouts /\ NothingLeft
    BY <1>1, <1>4 DEF Counted, Whereabouts, NothingLeft
<1> QED
    BY <1>6, <1>7, <1>8 DEF ToolInv

\* Every step keeps the invariant.
LEMMA ToolStep == ToolInv /\ [ToolNext]_toolVars => ToolInv'
<1> SUFFICES ASSUME ToolInv, [ToolNext]_toolVars PROVE ToolInv'
    OBVIOUS
<1>1. CASE ModelStep
    BY <1>1, RecoverStep, RetryStep, LeaveSteps, CallsStep DEF ModelStep
<1>2. CASE ModelText
    BY <1>2, TextStep
<1>3. CASE ModelReady
    BY <1>3, ReadyStep
<1>4. CASE ToolEnds
    BY <1>4, EndStep
<1>5. CASE LoopStep
    BY <1>5, ParallelStep, StartStep, OverStep, SequentialStep DEF LoopStep
<1>6. CASE TurnCancelled
    BY <1>6, CancelStep
<1>7. CASE UNCHANGED toolVars
    BY <1>7 DEF toolVars, ToolInv, ToolTypeOK, CallsType, Quiet, Speaking, Counted,
                Whereabouts, NothingLeft
<1> QED
    BY <1>1, <1>2, <1>3, <1>4, <1>5, <1>6, <1>7 DEF ToolNext

\* The inductive invariant of the tool loop.
THEOREM ToolInvariant == ToolSpec => []ToolInv
    BY ToolInitial, ToolStep, PTL DEF ToolSpec

\* The types of the loop and of the request below it.
THEOREM ToolTypes == ToolSpec => []ToolTypeOK
<1>1. ToolInv => ToolTypeOK
    BY DEF ToolInv
<1> QED
    BY <1>1, ToolInvariant, PTL

\* What the user saw of a response came from one attempt of one provider.
THEOREM ToolOneSpeaker == ToolSpec => []OneSpeaker
<1>1. ASSUME ToolInv PROVE OneSpeaker
  <2>1. PICK p : speakers \subseteq {p}
    BY <1>1 DEF ToolInv, Speaking
  <2>2. IsFiniteSet({p}) /\ Cardinality({p}) = 1
    BY FS_Singleton
  <2>3. Cardinality(speakers) <= Cardinality({p})
    BY <2>1, <2>2, FS_Subset
  <2> QED
    BY <2>2, <2>3 DEF OneSpeaker
<1> QED
    BY <1>1, ToolInvariant, PTL

\* No tool call of a response is executed twice.
THEOREM ToolLaunchedOnce == ToolSpec => []LaunchedOnce
<1>1. ToolInv => LaunchedOnce
    BY DEF ToolInv, Counted, LaunchedOnce
<1> QED
    BY <1>1, ToolInvariant, PTL

-----------------------------------------------------------------------------
\* What was started while the response arrived is parallel_safe, and a loop that is
\* over has left nothing else running.
Preflighted ==
    /\ \A i \in preflight : calls[i] # "unsafe"
    /\ phase = "over" => \A i \in Places : exec[i] = "on" => calls[i] # "unsafe"

\* Leaving the loop cancels all that is not preflighted.
LEMMA LeavesPreflighted ==
    ASSUME ToolInv, Preflighted, NEW o, NEW S, Leaves(o, S),
           \A i \in Places : exec[i] = "on" => i \in S \cup preflight
    PROVE  Preflighted'
<1>1. /\ preflight' = {} /\ calls' = calls
      /\ \A i \in Places : exec'[i] = "on" => exec[i] = "on" /\ i \notin S
    BY DEF Leaves, Cancels
<1> QED
    BY <1>1 DEF Preflighted

LEMMA PreflightedStep ==
    ASSUME ToolInv, Preflighted, [ToolNext]_toolVars
    PROVE  Preflighted'
<1>1. CASE ModelFails \/ ModelBreaksOff \/ ModelAnswers
  <2>1. PICK o \in {"answer", "auth"} : Leaves(o, preflight)
    BY <1>1 DEF ModelFails, ModelBreaksOff, ModelAnswers
  <2>2. phase = "model"
    BY <1>1 DEF ModelFails, ModelBreaksOff, ModelAnswers
  <2> QED
    BY <2>1, <2>2, ModelOn, LeavesPreflighted
<1>2. CASE TurnCancelled
  <2>1. CASE phase = "model"
    <3>1. Leaves("cancelled", {})
      BY <1>2, <2>1 DEF TurnCancelled
    <3> QED
      BY <2>1, <3>1, ModelOn, LeavesPreflighted
  <2>2. CASE phase = "parallel"
    <3>1. Leaves("cancelled", Unique(calls))
      BY <1>2, <2>2 DEF TurnCancelled
    <3> QED
      BY <2>2, <3>1, LeavesPreflighted DEF ToolInv, Whereabouts
  <2>3. CASE phase = "sequential"
    <3>1. Leaves("cancelled", {cur})
      BY <1>2, <2>3 DEF TurnCancelled
    <3> QED
      BY <2>3, <3>1, LeavesPreflighted DEF ToolInv, Whereabouts
  <2> QED
    BY <1>2, <2>1, <2>2, <2>3 DEF TurnCancelled, ToolInv, ToolTypeOK
<1>3. CASE ModelReady
  <2>1. PICK k \in CallKinds :
           /\ calls' = Append(calls, k)
           /\ preflight' = IF k = "unsafe" THEN preflight ELSE preflight \cup {Len(calls) + 1}
    BY <1>3 DEF ModelReady
  <2>2. /\ \A i \in 1 .. Len(calls) : Append(calls, k)[i] = calls[i]
        /\ Append(calls, k)[Len(calls) + 1] = k
        /\ preflight \subseteq 1 .. Len(calls)
    <3>1. calls \in Seq(CallKinds) /\ preflight \subseteq DOMAIN calls
      BY DEF ToolInv, CallsType, ToolTypeOK
    <3> QED
      BY <3>1, AppendProperties, LenProperties
  <2>3. phase' = "model"
    BY <1>3 DEF ModelReady
  <2> QED
    BY <2>1, <2>2, <2>3 DEF Preflighted
<1>4. CASE ModelCalls
  <2>1. PICK n \in Places : \E cs \in [1 .. n -> CallKinds] :
           Len(calls) <= n /\ SubSeq(cs, 1, Len(calls)) = calls /\ calls' = cs
    BY <1>4 DEF ModelCalls
  <2>2. PICK cs \in [1 .. n -> CallKinds] :
           Len(calls) <= n /\ SubSeq(cs, 1, Len(calls)) = calls /\ calls' = cs
    BY <2>1
  <2>3. preflight' = preflight /\ phase' # "over"
    BY <1>4 DEF ModelCalls
  <2>4. /\ Len(calls) \in Nat /\ preflight \subseteq 1 .. Len(calls)
        /\ n \in Nat
    <3>1. calls \in Seq(CallKinds) /\ preflight \subseteq DOMAIN calls
      BY DEF ToolInv, CallsType, ToolTypeOK
    <3>2. n \in Nat
      BY LoopAssumption DEF Places
    <3> QED
      BY <3>1, <3>2, LenProperties
  <2>5. \A i \in 1 .. Len(calls) : calls[i] = cs[i]
    <3>1. cs \in Seq(CallKinds) /\ Len(cs) = n
      BY <2>2, <2>4
    <3>2. \A i \in 1 .. Len(calls) : SubSeq(cs, 1, Len(calls))[i] = cs[i]
      BY <2>2, <2>4, <3>1
    <3> QED
      BY <2>2, <3>2
  <2> QED
    BY <2>2, <2>3, <2>4, <2>5 DEF Preflighted
<1>5. CASE ParallelEnds \/ SequentialEnds
  <2>1. NextIteration /\ \A i \in Places : exec[i] = "on" => i \in preflight
    <3>1. CASE ParallelEnds
      BY <3>1 DEF ParallelEnds, ToolInv, Whereabouts
    <3>2. CASE SequentialEnds
      <4>1. cur \notin Unique(calls)
        <5>1. DOMAIN calls = 1 .. Len(calls) /\ Len(calls) \in Nat /\ cur = Len(calls) + 1
          BY <3>2, LenProperties DEF ToolInv, CallsType, SequentialEnds
        <5> QED
          BY <5>1 DEF Unique
      <4> QED
        BY <3>2, <4>1 DEF SequentialEnds, ToolInv, Whereabouts
    <3> QED
      BY <1>5, <3>1, <3>2
  <2>2. CASE Leaves("limit", preflight)
    BY <2>1, <2>2, LeavesPreflighted
  <2>3. CASE preflight' = {} /\ phase' = "model"
    BY <2>3 DEF Preflighted
  <2> QED
    BY <2>1, <2>2, <2>3 DEF NextIteration
<1>6. CASE ModelRecovers
  <2>1. phase' = "model" /\ preflight' = preflight /\ preflight = {}
    <3>1. ask.yielded = FALSE
      BY <1>6, RecoversType DEF ModelRecovers, ToolInv, ToolTypeOK
    <3> QED
      BY <1>6, <3>1 DEF ModelRecovers, ToolInv, Quiet
  <2> QED
    BY <2>1 DEF Preflighted
<1>7. CASE ToolEnds
  <2>1. UNCHANGED <<phase, calls, preflight>>
        /\ \A i \in Places : exec'[i] = "on" => exec[i] = "on"
    BY <1>7 DEF ToolEnds, ToolInv, ToolTypeOK
  <2> QED
    BY <2>1 DEF Preflighted
<1>8. CASE CallStarts \/ CallEnds \/ ModelRetried \/ ModelText
  <2>1. phase' # "over" /\ calls' = calls /\ preflight' \subseteq preflight
    BY <1>8 DEF CallStarts, CallEnds, ModelRetried, ModelText
  <2> QED
    BY <2>1 DEF Preflighted
<1>9. CASE UNCHANGED toolVars
    BY <1>9 DEF toolVars, Preflighted
<1> QED
    BY <1>1, <1>2, <1>3, <1>4, <1>5, <1>6, <1>7, <1>8, <1>9 DEF ToolNext, ModelStep, LoopStep

\* The loop leaves no tool running; if its turn was cancelled, none that is not
\* parallel_safe.
THEOREM ToolNoOrphans == ToolSpec => []NoOrphanTools
<1>1. ToolInit => Preflighted
    BY DEF ToolInit, Preflighted
<1>2. ToolInv /\ Preflighted /\ [ToolNext]_toolVars => Preflighted'
    BY PreflightedStep
<1>3. ToolInv /\ Preflighted => NoOrphanTools
    BY DEF ToolInv, NothingLeft, Preflighted, NoOrphanTools
<1> QED
    BY <1>1, <1>2, <1>3, ToolInvariant, PTL DEF ToolSpec

-----------------------------------------------------------------------------
\* A start is a preflight, a call of an all-parallel response, or the turn of
\* a call in the sequential branch: only the last is of an unsafe tool.
Ordered(i) ==
    launches'[i] > launches[i] /\ calls'[i] = "unsafe" =>
        \A k \in 1 .. i - 1 : k \in Unique(calls) => exec[k] = "over"

\* A step that leaves the counters as they are, or sets them to 0, starts nothing.
LEMMA NothingStarted ==
    ASSUME ToolInv, NEW i \in Places, launches'[i] = launches[i] \/ launches'[i] = 0
    PROVE  Ordered(i)
<1>1. launches[i] \in Nat
    BY DEF ToolInv, ToolTypeOK
<1>2. ~(launches'[i] > launches[i])
    BY <1>1
<1> QED
    BY <1>2 DEF Ordered

\* Only calls of parallel_safe tools are started while the response arrives.
LEMMA ReadyOrdered ==
    ASSUME ToolInv, ModelReady, NEW i \in Places
    PROVE  Ordered(i)
<1>1. PICK k \in CallKinds :
         /\ calls' = Append(calls, k)
         /\ IF k = "unsafe" THEN UNCHANGED <<preflight, exec, launches>>
            ELSE Launched({Len(calls) + 1})
    BY DEF ModelReady
<1>2. Len(calls) \in Nat /\ calls'[Len(calls) + 1] = k
    BY <1>1, AppendProperties, LenProperties DEF ToolInv, CallsType
<1>3. CASE k = "unsafe" \/ i # Len(calls) + 1
  <2>1. launches'[i] = launches[i]
    BY <1>1, <1>3 DEF Launched
  <2> QED
    BY <2>1, NothingStarted
<1>4. CASE k # "unsafe" /\ i = Len(calls) + 1
    BY <1>2, <1>4 DEF Ordered
<1> QED
    BY <1>3, <1>4

\* No call of an all-parallel response is unsafe.
LEMMA CallsOrdered ==
    ASSUME ToolInv, ModelCalls, NEW i \in Places
    PROVE  Ordered(i)
<1>1. CASE AllParallel(calls') /\ i \in Unique(calls')
    BY <1>1 DEF AllParallel, Ordered
<1>2. CASE ~(AllParallel(calls') /\ i \in Unique(calls'))
  <2>1. launches'[i] = launches[i]
    BY <1>2 DEF ModelCalls, Launched
  <2> QED
    BY <2>1, NothingStarted
<1> QED
    BY <1>1, <1>2

\* The sequential branch starts a call when those before it are over.
LEMMA StartOrdered ==
    ASSUME ToolInv, CallStarts, NEW i \in Places
    PROVE  Ordered(i)
<1>1. CASE i = cur
  <2>1. \A k \in Unique(calls) : k < cur => exec[k] = "over"
    BY DEF CallStarts, ToolInv, Whereabouts
  <2>2. cur \in Nat
    <3>1. cur \in 0 .. MaxCalls + 1
      BY DEF ToolInv, ToolTypeOK
    <3> QED
      BY <3>1, LoopAssumption
  <2>3. \A k \in 1 .. cur - 1 : k < cur
    BY <2>2
  <2> QED
    BY <1>1, <2>1, <2>3 DEF Ordered
<1>2. CASE i # cur
  <2>1. launches'[i] = launches[i]
    BY <1>2 DEF CallStarts, Launched
  <2> QED
    BY <2>1, NothingStarted
<1> QED
    BY <1>1, <1>2

\* An unsafe tool starts only when every earlier call of its response is over.
THEOREM ToolUnsafeInOrder == ToolSpec => UnsafeInOrder
<1>1. ASSUME ToolInv, ToolNext, NEW i \in Places PROVE Ordered(i)
  <2>1. CASE ModelReady
    BY <1>1, <2>1, ReadyOrdered
  <2>2. CASE ModelCalls
    BY <1>1, <2>2, CallsOrdered
  <2>3. CASE CallStarts
    BY <1>1, <2>3, StartOrdered
  <2>4. CASE NextIteration
    <3>1. launches' = launches \/ launches' = Never
      BY <2>4 DEF NextIteration, Leaves
    <3>2. launches'[i] = launches[i] \/ launches'[i] = 0
      BY <1>1, <3>1 DEF Never
    <3> QED
      BY <1>1, <3>2, NothingStarted
  <2>5. CASE \/ ModelRecovers \/ ModelRetried \/ ModelText \/ ModelFails \/ ModelBreaksOff
             \/ ModelAnswers \/ ToolEnds \/ CallEnds \/ TurnCancelled
    <3>1. launches' = launches
      BY <2>5 DEF ModelRecovers, ModelRetried, ModelText, ModelFails, ModelBreaksOff,
                  ModelAnswers, ToolEnds, CallEnds, TurnCancelled, Leaves
    <3> QED
      BY <1>1, <3>1, NothingStarted
  <2> QED
    BY <1>1, <2>1, <2>2, <2>3, <2>4, <2>5
       DEF ToolNext, ModelStep, LoopStep, ParallelEnds, SequentialEnds
<1>2. ToolInv /\ [ToolNext]_toolVars => [\A i \in Places : Ordered(i)]_toolVars
    BY <1>1
<1>3. ToolSpec => [][\A i \in Places : Ordered(i)]_toolVars
    BY <1>2, ToolInvariant, PTL DEF ToolSpec
<1> QED
    BY <1>3 DEF Ordered, UnsafeInOrder
=============================================================================

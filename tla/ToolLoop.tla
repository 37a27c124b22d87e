------------------------------ MODULE ToolLoop ------------------------------
(***************************************************************************)
(* run_tool_loop: src/src/agent/loop_core.py, with the provider below it.  *)
(*                                                                         *)
(* Each iteration asks the model; a response with tool calls is executed,  *)
(* concurrently when every call is parallel_safe and one after another     *)
(* otherwise, and the results go into the next request; a response without *)
(* tool calls ends the loop.  While a response is streamed, a complete     *)
(* call of a parallel_safe tool is started at once as a preflight task,    *)
(* which the execution of the response then awaits.  The turn may be       *)
(* cancelled at every await.                                               *)
(*                                                                         *)
(* A call is what the loop tells apart: "unsafe" (not parallel_safe),      *)
(* "safe", and "dup" (parallel_safe and dedupe_within_turn, all with the   *)
(* same arguments).                                                        *)
(***************************************************************************)
EXTENDS ProviderRecovery, Sequences, FiniteSets

CONSTANTS
    MaxIterations,   \* max_iterations
    MaxCalls         \* bound of the model: tool calls of one response

ASSUME LoopAssumption == MaxIterations \in Nat \ {0} /\ MaxCalls \in Nat

CallKinds == {"unsafe", "safe", "dup"}
Places == 1 .. MaxCalls

VARIABLES
    phase,       \* "model", "parallel", "sequential", "over"
    outcome,     \* how the loop ended: "", "answer", "limit", "auth", "cancelled"
    iteration,
    calls,       \* the tool calls of the response, as far as received
    preflight,   \* keys of _preflight_tasks
    exec,        \* execution of each call: "none", "on", "over", "cancelled"
    cur,         \* sequential branch: place in unique_indices
    launches,    \* history: how often each call of the response was started
    speakers     \* history: attempts of which the caller saw something

toolVars == <<ask, phase, outcome, iteration, calls, preflight, exec, cur,
              launches, speakers>>

Idle == [i \in Places |-> "none"]
Never == [i \in Places |-> 0]

ToolInit ==
    /\ \E s \in BOOLEAN : ask = NewRequest(s)
    /\ phase = "model" /\ outcome = ""
    /\ iteration = 1
    /\ calls = <<>> /\ preflight = {} /\ exec = Idle /\ cur = 0
    /\ launches = Never /\ speakers = {}

-----------------------------------------------------------------------------
\* _plan_unique_tool_calls: the first of identical calls stands for all.
Unique(cs) ==
    {i \in DOMAIN cs : cs[i] = "dup" => \A k \in 1 .. i - 1 : cs[k] # "dup"}

\* _all_parallel_safe
AllParallel(cs) ==
    Cardinality(Unique(cs)) > 1 /\ \A i \in Unique(cs) : cs[i] # "unsafe"

\* tools.execute is started for the calls S.
Launched(S) ==
    /\ exec' = [i \in Places |-> IF i \in S THEN "on" ELSE exec[i]]
    /\ launches' = [i \in Places |-> IF i \in S THEN launches[i] + 1 ELSE launches[i]]

\* Mutant: nothing is cancelled.
CancelsNone(S) == S \subseteq Places /\ UNCHANGED exec

\* task.cancel() for the executions of the calls S.
Cancels(S) ==
    exec' = [i \in Places |-> IF i \in S /\ exec[i] = "on" THEN "cancelled" ELSE exec[i]]

\* The loop is left; S are the executions that are cancelled on the way.
Leaves(o, S) ==
    /\ phase' = "over" /\ outcome' = o
    /\ Cancels(S)
    /\ preflight' = {}
    /\ UNCHANGED <<iteration, calls, cur, launches, speakers>>

-----------------------------------------------------------------------------
\* Below the first await: the provider.
ModelRecovers ==
    /\ phase = "model"
    /\ \E f \in Failures : Recovers(f)
    /\ calls' = <<>>
    /\ UNCHANGED <<phase, outcome, iteration, preflight, exec, cur, launches, speakers>>

ModelRetried ==
    /\ phase = "model"
    /\ PauseEnds
    /\ UNCHANGED <<phase, outcome, iteration, calls, preflight, exec, cur, launches,
                   speakers>>

Heard == speakers' = speakers \cup {<<ask.provider, ask.attempt>>}

\* on_content_delta is called.
ModelText ==
    /\ phase = "model"
    /\ Yields /\ Heard
    /\ UNCHANGED <<phase, outcome, iteration, calls, preflight, exec, cur, launches>>

\* tool_ready: the next call of the response is complete.
ModelReady ==
    /\ phase = "model" /\ Len(calls) < MaxCalls
    /\ Yields /\ Heard
    /\ \E k \in CallKinds :
          /\ calls' = Append(calls, k)
          /\ LET i == Len(calls) + 1
             IN IF k = "unsafe" THEN UNCHANGED <<preflight, exec, launches>>
                ELSE /\ preflight' = preflight \cup {i}
                     /\ Launched({i})
    /\ UNCHANGED <<phase, outcome, iteration, cur>>

\* An authentication error is raised; any other error is the answer.
ModelFails ==
    /\ phase = "model"
    /\ \E f \in Failures :
          /\ GivesUp(f)
          /\ Leaves(IF f = "auth" THEN "auth" ELSE "answer", preflight)

ModelBreaksOff ==
    /\ phase = "model"
    /\ BreaksOff
    /\ Leaves("answer", preflight)

\* The final chunk, or the return of chat, brings all calls of the response.
ModelAnswers ==
    /\ phase = "model" /\ calls = <<>>
    /\ Completes
    /\ Leaves("answer", preflight)

\* Mutant: the parallel branch starts every call, preflighted or not.
ModelCallsAgain ==
    /\ phase = "model"
    /\ Completes
    /\ \E n \in Places : \E cs \in [1 .. n -> CallKinds] :
          /\ Len(calls) <= n /\ SubSeq(cs, 1, Len(calls)) = calls
          /\ calls' = cs
          /\ IF AllParallel(cs)
             THEN /\ phase' = "parallel" /\ cur' = 0
                  /\ Launched(Unique(cs))
             ELSE /\ phase' = "sequential" /\ cur' = 1
                  /\ UNCHANGED <<exec, launches>>
    /\ UNCHANGED <<outcome, iteration, preflight, speakers>>

ModelCalls ==
    /\ phase = "model"
    /\ Completes
    /\ \E n \in Places : \E cs \in [1 .. n -> CallKinds] :
          /\ Len(calls) <= n /\ SubSeq(cs, 1, Len(calls)) = calls
          /\ calls' = cs
          /\ IF AllParallel(cs)
             THEN /\ phase' = "parallel" /\ cur' = 0
                  /\ Launched(Unique(cs) \ preflight)
             ELSE /\ phase' = "sequential" /\ cur' = 1
                  /\ UNCHANGED <<exec, launches>>
    /\ UNCHANGED <<outcome, iteration, preflight, speakers>>

-----------------------------------------------------------------------------
ToolEnds ==
    /\ \E i \in Places : exec[i] = "on" /\ exec' = [exec EXCEPT ![i] = "over"]
    /\ UNCHANGED <<ask, phase, outcome, iteration, calls, preflight, cur, launches,
                   speakers>>

\* Mutant: the limit is compared one too late.
OneMoreIteration ==
    IF iteration > MaxIterations
    THEN Leaves("limit", preflight) /\ UNCHANGED ask
    ELSE /\ phase' = "model" /\ iteration' = iteration + 1
         /\ ask' = NewRequest(ask.stream)
         /\ calls' = <<>> /\ preflight' = {} /\ exec' = Idle /\ cur' = 0
         /\ launches' = Never /\ speakers' = {}
         /\ UNCHANGED outcome

\* Leftover preflight tasks are cancelled, the results are appended, and the
\* model is asked again.
NextIteration ==
    IF iteration = MaxIterations
    THEN Leaves("limit", preflight) /\ UNCHANGED ask
    ELSE /\ phase' = "model" /\ iteration' = iteration + 1
         /\ ask' = NewRequest(ask.stream)
         /\ calls' = <<>> /\ preflight' = {} /\ exec' = Idle /\ cur' = 0
         /\ launches' = Never /\ speakers' = {}
         /\ UNCHANGED outcome

\* gather returned.
ParallelEnds ==
    /\ phase = "parallel"
    /\ \A i \in Unique(calls) : exec[i] = "over"
    /\ NextIteration

\* Mutant: the sequential branch goes on as soon as a call has started.
CallLeft ==
    /\ phase = "sequential" /\ cur \in DOMAIN calls
    /\ cur \in Unique(calls) => exec[cur] # "none"
    /\ cur' = cur + 1
    /\ preflight' = IF cur \in Unique(calls) THEN preflight \ {cur} ELSE preflight
    /\ UNCHANGED <<ask, phase, outcome, iteration, calls, exec, launches, speakers>>

\* The sequential branch at call cur: await its preflight task or execute it.
CallStarts ==
    /\ phase = "sequential" /\ cur \in Unique(calls)
    /\ exec[cur] = "none"
    /\ Launched({cur})
    /\ UNCHANGED <<ask, phase, outcome, iteration, calls, preflight, cur, speakers>>

CallEnds ==
    /\ phase = "sequential" /\ cur \in DOMAIN calls
    /\ cur \in Unique(calls) => exec[cur] = "over"
    /\ cur' = cur + 1
    /\ preflight' = IF cur \in Unique(calls) THEN preflight \ {cur} ELSE preflight
    /\ UNCHANGED <<ask, phase, outcome, iteration, calls, exec, launches, speakers>>

SequentialEnds ==
    /\ phase = "sequential" /\ cur = Len(calls) + 1
    /\ NextIteration

\* The turn is cancelled: the await it is in passes the cancellation on.
TurnCancelled ==
    /\ phase # "over"
    /\ Leaves("cancelled", CASE phase = "model" -> {}
                             [] phase = "parallel" -> Unique(calls)
                             [] phase = "sequential" -> {cur})
    /\ ask' = [ask EXCEPT !.st = "closed"]

-----------------------------------------------------------------------------
ModelStep == ModelRecovers \/ ModelRetried \/ ModelFails \/ ModelBreaksOff
             \/ ModelAnswers \/ ModelCalls
LoopStep == ParallelEnds \/ CallStarts \/ CallEnds \/ SequentialEnds

ToolNext == ModelStep \/ ModelText \/ ModelReady \/ ToolEnds \/ LoopStep \/ TurnCancelled

\* A request to a provider ends (clients have timeouts), a tool ends, and the
\* event loop runs what is ready; a stream need not say anything.
ToolFairness ==
    WF_toolVars(ModelStep) /\ WF_toolVars(ToolEnds) /\ WF_toolVars(LoopStep)

ToolSpec == ToolInit /\ [][ToolNext]_toolVars /\ ToolFairness

-----------------------------------------------------------------------------
\* The types of the loop's state and of the request below it.
ToolTypeOK ==
    /\ ask \in Request
    /\ phase \in {"model", "parallel", "sequential", "over"}
    /\ outcome \in {"", "answer", "limit", "auth", "cancelled"}
    /\ iteration \in 1 .. MaxIterations
    /\ Len(calls) <= MaxCalls /\ \A i \in DOMAIN calls : calls[i] \in CallKinds
    /\ preflight \subseteq DOMAIN calls
    /\ exec \in [Places -> {"none", "on", "over", "cancelled"}]
    /\ cur \in 0 .. MaxCalls + 1
    /\ launches \in [Places -> Nat]

\* What the user saw of a response, and the tools started for it, come from one
\* attempt of one provider: nothing is retried after it (chat_stream).
OneSpeaker == Cardinality(speakers) <= 1

\* No call of a response is executed twice, by its preflight task and by the
\* loop, or by two attempts at the response (run_tool_loop).
LaunchedOnce == \A i \in Places : launches[i] <= 1

\* A tool that is not parallel_safe starts only when every earlier call of the
\* response that is executed is over (run_tool_loop, sequential branch).
UnsafeInOrder ==
    [][\A i \in Places :
         launches'[i] > launches[i] /\ calls'[i] = "unsafe" =>
             \A k \in 1 .. i - 1 : k \in Unique(calls) => exec[k] = "over"]_toolVars

\* The loop leaves no tool running: an error after some calls were received cancels
\* what was started for them (_cancel_preflight_tasks).  A turn that is cancelled leaves
\* preflight tasks at most, so nothing that is not parallel_safe acts after its turn.
NoOrphanTools ==
    phase = "over" => \A i \in Places :
        exec[i] = "on" => outcome = "cancelled" /\ calls[i] # "unsafe"

\* The loop ends, however often it is retried and whatever tools it calls.
LoopEnds == <>(phase = "over")
=============================================================================

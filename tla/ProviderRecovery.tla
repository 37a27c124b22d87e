-------------------------- MODULE ProviderRecovery --------------------------
(***************************************************************************)
(* One request to the models: RecoveryProvider.chat and chat_stream with   *)
(* decide_recovery (src/src/providers/recovery_provider.py, recovery.py).  *)
(*                                                                         *)
(* The primary provider and its fallbacks are tried in order.  A transient *)
(* failure is retried after a pause, others fail over, until something     *)
(* was yielded to the caller: from then on a failure is final.  The module *)
(* gives the steps of a request; the caller (ToolLoop) runs them together  *)
(* with what it does with each chunk, as an asynchronous generator does.   *)
(***************************************************************************)
EXTENDS Naturals

CONSTANTS
    NProviders,   \* the primary and its fallbacks
    MaxRetries    \* MAX_RETRIES

ASSUME ProvidersAssumption == NProviders \in Nat \ {0} /\ MaxRetries \in Nat

\* FailureClass: RATE_LIMIT and RETRYABLE; MODEL_NOT_FOUND and
\* CONTEXT_EXCEEDED; AUTH; NON_RETRYABLE.
Failures == {"transient", "permanent", "auth", "fatal"}

VARIABLE ask    \* the request: where it is, and the locals of the generator

Request == [st : {"calling", "backoff", "closed"}, stream : BOOLEAN,
            provider : 1 .. NProviders, attempt : 0 .. MaxRetries,
            yielded : BOOLEAN]

\* decide_recovery
Decision(f) ==
    CASE f = "fatal" -> "stop"
      [] f = "transient" /\ ask.attempt < MaxRetries -> "retry"
      [] OTHER -> IF ask.provider < NProviders THEN "failover" ELSE "stop"

NewRequest(stream) ==
    [st |-> "calling", stream |-> stream, provider |-> 1, attempt |-> 0,
     yielded |-> FALSE]

\* Mutant: what was already passed on does not matter.
RecoversAlways(f) ==
    /\ ask.st = "calling"
    /\ CASE Decision(f) = "retry" ->
                ask' = [ask EXCEPT !.st = "backoff", !.attempt = @ + 1]
         [] Decision(f) = "failover" ->
                ask' = [ask EXCEPT !.provider = @ + 1, !.attempt = 0]
         [] OTHER -> FALSE

\* Mutant: retries are not counted.
RecoversUncounted(f) ==
    /\ ask.st = "calling" /\ ~ask.yielded
    /\ CASE Decision(f) = "retry" -> ask' = [ask EXCEPT !.st = "backoff"]
         [] Decision(f) = "failover" ->
                ask' = [ask EXCEPT !.provider = @ + 1, !.attempt = 0]
         [] OTHER -> FALSE

\* A failure before anything was yielded: pause and retry, or next provider.
Recovers(f) ==
    /\ ask.st = "calling" /\ ~ask.yielded
    /\ CASE Decision(f) = "retry" ->
                ask' = [ask EXCEPT !.st = "backoff", !.attempt = @ + 1]
         [] Decision(f) = "failover" ->
                ask' = [ask EXCEPT !.provider = @ + 1, !.attempt = 0]
         [] OTHER -> FALSE

\* A failure the caller gets to see.
GivesUp(f) ==
    /\ ask.st = "calling"
    /\ ask.yielded \/ Decision(f) = "stop"
    /\ ask' = [ask EXCEPT !.st = "closed"]

PauseEnds == ask.st = "backoff" /\ ask' = [ask EXCEPT !.st = "calling"]

\* A chunk with text or with a complete tool call is passed on.
Yields ==
    /\ ask.st = "calling" /\ ask.stream
    /\ ask' = [ask EXCEPT !.yielded = TRUE]

\* The response is complete.
Completes == ask.st = "calling" /\ ask' = [ask EXCEPT !.st = "closed"]

\* The provider's stream ends without a final chunk.
BreaksOff == ask.stream /\ Completes
=============================================================================

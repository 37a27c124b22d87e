----------------------------- MODULE MC_Turns -----------------------------
(* What a turn rests on, one part at a time: the lifecycle of two requests   *)
(* of a session, each of which may be retried once; two runs of the GenVer   *)
(* pipeline in a workspace; and the credential of a provider that two        *)
(* processes use.  They share nothing: each is checked while the others rest.*)
EXTENDS TurnLifecycle, GenVerPipeline, OAuthTokens, TLC

CONSTANTS t1, t2, c1, c2, e1

VARIABLE part    \* the part that runs

vars == <<part, turnVars, genverVars, oauthVars>>

MCTurns == {t1, t2}
MCClients == {c1, c2}
MCEditors == {e1}
MCConfigured == <<"SPEC", "EXECUTE", "REPORT", "REVIEW">>

(* Turns differ in their names only: the first to come is t1.                *)
FirstComesT1 == fate[t2] # "waiting" => fate[t1] # "waiting"

Init == part \in {"turn", "genver", "oauth"} /\ TurnInit /\ GenVerInit /\ OAuthInit

Next ==
    \/ part = "turn" /\ TurnNext /\ FirstComesT1' /\ UNCHANGED <<part, genverVars, oauthVars>>
    \/ part = "genver" /\ GenVerNext /\ UNCHANGED <<part, turnVars, oauthVars>>
    \/ part = "oauth" /\ OAuthNext /\ UNCHANGED <<part, turnVars, genverVars>>

(* A part that rests has no step that fairness speaks of enabled.           *)
Spec == Init /\ [][Next]_vars /\ TurnFairness /\ GenVerFairness
=============================================================================

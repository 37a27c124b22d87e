------------------------------ MODULE TaskPool ------------------------------
(***************************************************************************)
(* What SubagentExecutor promises, without asyncio: a task is begun below a*)
(* root turn or another task, never twice, while fewer than Most tasks     *)
(* execute and fewer than MostBelow below the same task; it ends once, with*)
(* an outcome that stays and whose result is kept for whoever asks, or     *)
(* without one; and results are forgotten only when more than Keep have    *)
(* piled up.                                                               *)
(***************************************************************************)
EXTENDS Naturals, FiniteSets

CONSTANTS
    Tasks,
    Roots,      \* root turns
    Outcomes,
    Nothing,    \* no outcome; no parent yet
    Most, MostBelow, Keep

VARIABLES
    stage,      \* [Tasks -> {"unused", "executing", "over"}]
    parent,     \* [Tasks -> Tasks \cup Roots \cup {Nothing}]
    outcome,    \* [Tasks -> Outcomes \cup {Nothing}]
    results     \* tasks whose result is kept

pvars == <<stage, parent, outcome, results>>

PInit ==
    /\ stage = [t \in Tasks |-> "unused"]
    /\ parent = [t \in Tasks |-> Nothing]
    /\ outcome = [t \in Tasks |-> Nothing]
    /\ results = {}

Executes == {t \in Tasks : stage[t] = "executing"}

Begin(t, p) ==
    /\ stage[t] = "unused"
    /\ Cardinality(Executes) < Most
    /\ p \in Tasks => /\ stage[p] # "unused"
                      /\ Cardinality({u \in Executes : parent[u] = p}) < MostBelow
    /\ stage' = [stage EXCEPT ![t] = "executing"]
    /\ parent' = [parent EXCEPT ![t] = p]
    /\ UNCHANGED <<outcome, results>>

\* From the results in all some are forgotten, of which Keep are not.
Forget(all) ==
    /\ results' \subseteq all
    /\ results' # all => Cardinality(results') >= Keep

End(t, o) ==
    /\ stage[t] = "executing"
    /\ stage' = [stage EXCEPT ![t] = "over"]
    /\ outcome' = [outcome EXCEPT ![t] = o]
    /\ Forget(results \cup {t})
    /\ UNCHANGED parent

EndWithout(t) ==
    /\ stage[t] = "executing"
    /\ stage' = [stage EXCEPT ![t] = "over"]
    /\ UNCHANGED <<parent, outcome, results>>

ForgetSome ==
    /\ Forget(results)
    /\ UNCHANGED <<stage, parent, outcome>>

PNext ==
    \/ \E t \in Tasks :
          \/ \E p \in Tasks \cup Roots : Begin(t, p)
          \/ \E o \in Outcomes : End(t, o)
          \/ EndWithout(t)
    \/ ForgetSome

PSpec == PInit /\ [][PNext]_pvars
=============================================================================

---------------------------- MODULE MC_Sessions ----------------------------
(* What is stored of one session: its log with the consolidation of it, and  *)
(* the short-term tier of its memory.  They share nothing: each is checked   *)
(* while the other rests.                                                    *)
EXTENDS SessionLog, MemoryTiers, TLC

CONSTANTS o1, o2, j1, l1, l2

VARIABLE stored    \* the part that runs

vars == <<stored, logVars, tierVars>>

MCObjects == {o1, o2}
MCJobs == {j1}
MCLocks == {l1, l2}

Init == stored \in {"log", "tiers"} /\ LogInit /\ TierInit

Next == \/ stored = "log" /\ LogNext /\ UNCHANGED <<stored, tierVars>>
        \/ stored = "tiers" /\ TierNext /\ UNCHANGED <<stored, logVars>>

(* A log that rests has no step enabled that fairness speaks of.             *)
Spec == Init /\ [][Next]_vars /\ LogFairness
=============================================================================

------------------------ MODULE MC_GroupDispatcher ------------------------
(* Two sessions, and the worker ids they can need at the same time.          *)
EXTENDS GroupDispatcher, TLC

CONSTANTS g1, g2, w1, w2

MCGroups  == {g1, g2}
MCWorkers == {w1, w2}

Symmetry == Permutations(MCGroups) \cup Permutations(MCWorkers)
=============================================================================

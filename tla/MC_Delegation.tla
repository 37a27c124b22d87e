--------------------------- MODULE MC_Delegation ---------------------------
EXTENDS Delegation, TLC

CONSTANTS t1, t2, t3, s1

MCTwo      == {t1, t2}
MCThree    == {t1, t2, t3}
MCSessions == {s1}

NoWorktrees   == {"no"}
WithWorktrees == {"no", "wanted"}
OnlyCascade   == {TRUE}
EitherCascade == BOOLEAN

SymTwo   == Permutations(MCTwo)
SymThree == Permutations(MCThree)
=============================================================================

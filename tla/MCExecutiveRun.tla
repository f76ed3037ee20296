--------------------------- MODULE MCExecutiveRun ---------------------------
EXTENDS ExecutiveRun, TLC
Sym == Permutations(Runs)
=============================================================================

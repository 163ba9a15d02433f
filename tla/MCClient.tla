------------------------------ MODULE MCClient ------------------------------
EXTENDS ClientProps, TLC
Symmetry == Permutations(Tids) \cup Permutations(Outer)
=============================================================================

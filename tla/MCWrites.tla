------------------------------ MODULE MCWrites ------------------------------
EXTENDS WritesProps, TLC
Symmetry == Permutations(Calls)
=============================================================================

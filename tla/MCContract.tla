------------------------------- MODULE MCContract -------------------------------
EXTENDS Contract, TLC
Symmetry == Permutations(Contractors)
=============================================================================

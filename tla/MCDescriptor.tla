------------------------------ MODULE MCDescriptor ------------------------------
EXTENDS Descriptor, TLC
Symmetry == Permutations(Instances)
=============================================================================

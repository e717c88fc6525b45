------------------------------ MODULE MCEntity ------------------------------
EXTENDS Entity, TLC

Symmetry == Permutations(Controllers)
=============================================================================

---------------------------- MODULE MCAdpManager ----------------------------
EXTENDS AdpManager, TLC

Symmetry == Permutations(GrandMasters)
=============================================================================

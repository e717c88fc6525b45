---- MODULE MCEntityIdPool ----
EXTENDS EntityIdPool, TLC
MCSymmetry == Permutations(Machines)
====

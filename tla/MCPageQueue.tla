---------------------------- MODULE MCPageQueue ----------------------------
EXTENDS PageQueue, TLC
CONSTANTS p1, p2, p3
Perm == Permutations({p1, p2, p3})
=============================================================================

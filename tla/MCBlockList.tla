----------------------------- MODULE MCBlockList -----------------------------
(* BlockList on small instances *)
EXTENDS BlockList, TLC

CONSTANTS o, t1, t2, b1, b2, b3

Sym == Permutations({t1, t2}) \cup Permutations(Block)
=============================================================================

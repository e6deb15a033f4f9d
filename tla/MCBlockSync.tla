----------------------------- MODULE MCBlockSync -----------------------------
(* Small instances of BlockSync.                                           *)
EXTENDS BlockSync, TLC

Interchangeable ==
  Permutations(Batch) \cup Permutations(Block) \cup Permutations(Node)
=============================================================================

--------------------------- MODULE MCBlockPartition ---------------------------
(* Small instances of BlockPartition.                                      *)
EXTENDS BlockPartition, TLC

Interchangeable ==
  Permutations(Batch) \cup Permutations(Block) \cup Permutations(Compactor)
=============================================================================

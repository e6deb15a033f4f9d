---------------------------- MODULE MCControlDoc ----------------------------
(* Small instances of ControlDoc: a node with readers, where at most one   *)
(* of the changes is made by another node.                                 *)
EXTENDS ControlDoc, TLC

CONSTANTS n1, n2

Setup(s, sealed, flaky) == [store |-> s, sealed |-> sealed, flaky |-> flaky]

MCConfig ==
  {Setup("s3", TRUE, TRUE), Setup("s3", FALSE, FALSE), Setup("fs", FALSE, FALSE)}

MCPlacement ==
  {f \in [Task \cup Reader -> Node] :
     Cardinality({t \in Task : f[t] = n2}) <= 1 /\ \A r \in Reader : f[r] = n1}

Interchangeable == Permutations(Task) \cup Permutations(Reader)
=============================================================================

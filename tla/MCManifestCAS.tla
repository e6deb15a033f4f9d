---------------------------- MODULE MCManifestCAS ----------------------------
(* Small instances of ManifestCAS.  A manifest is a set of ids here: a     *)
(* push of an id that is there already, which lists it twice, is in        *)
(* BlockSync.tla.                                                          *)
EXTENDS ManifestCAS, TLC

CONSTANTS b1, b2

Req(k, r, a) == [kind |-> k, remove |-> r, add |-> a]

(* A query, an append or upload, a puller's removal and a compaction.      *)
MCOffered ==
  {Req("load", {}, {}), Req("update", {}, {b1}), Req("update", {b2}, {}),
   Req("guarded", {b1}, {b2})}

Tasks == Permutations(Writer)
=============================================================================

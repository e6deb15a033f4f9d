---------------------------- MODULE MCSourcePull ----------------------------
(* Small instances of SourcePull.                                          *)
EXTENDS SourcePull

CONSTANTS u1, u2, f1, f2
=============================================================================

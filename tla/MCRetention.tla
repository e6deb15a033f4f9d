----------------------------- MODULE MCRetention -----------------------------
(* A small instance of Retention.  It checks liveness, so no symmetry.     *)
EXTENDS Retention
=============================================================================

---------------------------- MODULE MCMonitorRun ----------------------------
(* A small instance of MonitorRun.                                         *)
EXTENDS MonitorRun, TLC
=============================================================================

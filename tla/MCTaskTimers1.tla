---------------------------- MODULE MCTaskTimers1 ---------------------------
(* TaskTimers for TLC without symmetry, for the liveness runs.              *)
EXTENDS TaskTimers
=============================================================================

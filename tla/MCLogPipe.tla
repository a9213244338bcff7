----------------------------- MODULE MCLogPipe ------------------------------
(* LogPipe for TLC. *)
EXTENDS LogPipe
=============================================================================

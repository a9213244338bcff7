-------------------------- MODULE MCIoWorkerGroup ---------------------------
(* IoWorkerGroup for TLC.                                                   *)
EXTENDS IoWorkerGroup
=============================================================================

----------------------------- MODULE MCIoPoller -----------------------------
(* IoPoller for TLC: two senders; two messages, one exit request, one io.   *)
EXTENDS IoPoller
=============================================================================

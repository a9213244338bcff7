----------------------------- MODULE MCSocketIo -----------------------------
(* SocketIo for TLC.                                                        *)
EXTENDS SocketIo
=============================================================================

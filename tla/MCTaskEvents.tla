---------------------------- MODULE MCTaskEvents ----------------------------
(* TaskEvents for TLC: three tasks.  The first has a client in front of a    *)
(* server, the second a server in front of a client, the third a client,    *)
(* with which it ends.                                                      *)
EXTENDS TaskEvents

CONSTANTS t1, t2, t3, c1, s1, c2, s2, c3

TflThree == [t \in {t1, t2, t3} |-> CASE t = t1 -> <<c1, s1>>
                                      [] t = t2 -> <<s2, c2>>
                                      [] t = t3 -> <<c3>>]

OpsThree == [f \in {c1, c2, c3} |-> CASE f = c1 -> 2 [] f = c2 -> 1 [] f = c3 -> 0]
=============================================================================

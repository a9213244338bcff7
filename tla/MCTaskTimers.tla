---------------------------- MODULE MCTaskTimers ----------------------------
(* TaskTimers for TLC.                                                      *)
EXTENDS TaskTimers, TLC

CONSTANTS f1, f2, t1, t2

\* Fibers are interchangeable, and so are timers.
Symmetry == Permutations({f1, f2}) \cup Permutations({t1, t2})
=============================================================================

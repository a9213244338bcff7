---------------------------- MODULE MCFiberSched ----------------------------
(* FiberSched for TLC: three fibers, two names.                             *)
EXTENDS FiberSched, TLC

CONSTANTS f1, f2, f3, n1, n2

\* Fibers are interchangeable, and so are names.
Symmetry == Permutations({f1, f2, f3}) \cup Permutations({n1, n2})
=============================================================================

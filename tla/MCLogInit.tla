------------------------------ MODULE MCLogInit -----------------------------
(* LogInit with two builders, a setter and a caller. *)
EXTENDS LogInit, TLC

CONSTANTS b1, b2, s1, c1

Symmetry == Permutations({b1, b2})
=============================================================================

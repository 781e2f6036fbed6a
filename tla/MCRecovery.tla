----------------------------- MODULE MCRecovery -----------------------------
(* Instances of Recovery for TLC. *)
EXTENDS Recovery, TLC

CONSTANTS r1, r2, r3

Symmetric == Permutations({r1, r2, r3})
=============================================================================

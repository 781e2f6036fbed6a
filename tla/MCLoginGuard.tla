---------------------------- MODULE MCLoginGuard ----------------------------
(* An instance of LoginGuard for TLC. *)
EXTENDS LoginGuard

CONSTANTS n1, n2, g1, g2, g3, g4, g5
=============================================================================

------------------------------ MODULE MCSignIn ------------------------------
(* Instances of SignIn for TLC. *)
EXTENDS SignIn, TLC

CONSTANTS adm, oth, stu, t1, t2, r1, r2

Symmetric == Permutations({t1, t2}) \cup Permutations({r1, r2})
=============================================================================

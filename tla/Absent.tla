------------------------------- MODULE Absent -------------------------------
(* The value that stands for what is not there: nil, NULL, no file. *)
CONSTANT None
=============================================================================

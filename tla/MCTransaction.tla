--------------------------- MODULE MCTransaction ---------------------------
(* Small instances of Transaction for TLC. *)
EXTENDS Transaction, TLC

\* The tasks run the same code.
TaskSymmetry == Permutations(Tasks)
=============================================================================

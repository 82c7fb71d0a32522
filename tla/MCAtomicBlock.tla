---------------------------- MODULE MCAtomicBlock ----------------------------
(* Small instances of AtomicBlock for TLC. *)
EXTENDS AtomicBlock, TLC
=============================================================================

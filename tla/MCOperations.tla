---------------------------- MODULE MCOperations ----------------------------
(* Model values for OperationSwitch. *)
EXTENDS OperationSwitch, TLC

Symmetry == Permutations(Operations)
=============================================================================

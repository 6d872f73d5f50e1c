---------------------------- MODULE MCIPXReplay -----------------------------
(* Small instances of IPXReplay for TLC. *)
EXTENDS IPXReplay
=============================================================================

------------------------------- MODULE MCSpawn -------------------------------
(* One spawn for TLC. *)
EXTENDS Spawn

CONSTANT v1
=============================================================================

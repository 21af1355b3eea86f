------------------------------ MODULE MCReclaim ------------------------------
(* One VM, two sessions and what cleans up between them. *)
EXTENDS Reclaim

CONSTANT v1
=============================================================================

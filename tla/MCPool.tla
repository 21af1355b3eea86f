------------------------------- MODULE MCPool -------------------------------
(* A small pool for TLC. *)
EXTENDS Pool, TLC

CONSTANTS s1, s2, s3, r1, r2

Symmetry == Permutations(Slots)
=============================================================================

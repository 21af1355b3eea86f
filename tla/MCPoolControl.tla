---------------------------- MODULE MCPoolControl ----------------------------
(* Two CLIs and a small pool for TLC. *)
EXTENDS PoolControl, TLC

CONSTANTS s1, s2, s3, r1, r2

Symmetry == Permutations(Slots)
=============================================================================

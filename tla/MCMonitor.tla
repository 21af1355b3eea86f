------------------------------ MODULE MCMonitor ------------------------------
(* Slots of a small pool.                                                     *)
EXTENDS Monitor

CONSTANTS s1, s2
=============================================================================

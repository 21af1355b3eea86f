------------------------------- MODULE MCHost -------------------------------
(* One host whose configuration is changed between two starts. *)
EXTENDS Host

CONSTANTS ref1, ref2, v1, v2, p1

TheConfigs == {[base |-> ref1, version |-> v1], [base |-> ref2, version |-> v2]}
=============================================================================

--------------------------- MODULE MCHostCredential ---------------------------
(* A goroutine of an agent, and CLIs, one at a time, that are configured for  *)
(* the agent's runner group or for another.                                   *)
EXTENDS HostCredential, TLC

CONSTANTS a1, c1, agent, cli, group1, group2

TheProcesses == (a1 :> agent) @@ (c1 :> cli)
TheTargets == (a1 :> {group1}) @@ (c1 :> {group1, group2})
=============================================================================

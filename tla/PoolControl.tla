----------------------------- MODULE PoolControl -----------------------------
(***************************************************************************)
(* The pool together with the CLIs that control it:                        *)
(* src/cmd/utsusemi/drain.go (`utsusemi drain`, `utsusemi stop`) talking   *)
(* to the agent through drain.request and drain.status.  One request is    *)
(* one run of a CLI; its clock may pass a limit at any poll.               *)
(***************************************************************************)
EXTENDS Pool

VARIABLES
  cli,        \* where each CLI is, or how it ended
  cliAgent    \* the session it read from agent.json

cliVars == <<cli, cliAgent>>

CliEnds == {"complete", "error", "rejected", "busy", "stopped", "timeout"}

CliInit ==
  /\ Init
  /\ cli = [r \in Requests |-> "start"]
  /\ cliAgent = [r \in Requests |-> 0]

becomes(r, step) == cli' = [cli EXCEPT ![r] = step]

agentAlive == ~at(Loop, "dead")

(* runPoolControl before the request: the agent must hold its lock, and no   *)
(* drain of its session may be running.                                      *)
Check(r) ==
  /\ cli[r] = "start"
  /\ \/ ~agentAlive /\ becomes(r, "stopped") /\ UNCHANGED cliAgent
     \/ /\ agentAlive
        /\ cliAgent' = [cliAgent EXCEPT ![r] = session]
        /\ becomes(r, IF status.state = "running" /\ status.agent = session
                      THEN "busy" ELSE "checked")
  /\ UNCHANGED vars

(* drainctl.WriteRequest: the exclusive create refuses a second request.     *)
Write(r) ==
  /\ cli[r] = "checked"
  /\ IF request = NoRequest
     THEN PostRequest(r, cliAgent[r]) /\ becomes(r, "waiting")
     ELSE becomes(r, "busy") /\ UNCHANGED vars
  /\ UNCHANGED cliAgent

(* One poll of waitDrainStatus.  A drain always has a deadline to give up    *)
(* at; a stop without one gives up only while no status mentions it.         *)
limited(r) == r \notin StopRequests \/ r \in ForceRequests \cup LimitedRequests

Poll(r) ==
  /\ cli[r] = "waiting"
  /\ \/ /\ ~agentAlive \/ session # cliAgent[r]
        /\ becomes(r, "stopped")
     \/ /\ agentAlive /\ session = cliAgent[r]
        /\ \/ status.rejected = r /\ becomes(r, "rejected")
           \/ status.rejected # r /\ status.req # r /\ becomes(r, "timeout")
           \/ /\ status.rejected # r /\ status.req = r
              /\ \/ status.state = "running" /\ limited(r) /\ becomes(r, "timeout")
                 \/ status.state \in {"complete", "error"} /\ becomes(r, status.state)
  /\ UNCHANGED <<vars, cliAgent>>

CliNext == \E r \in Requests : Check(r) \/ Write(r) \/ Poll(r)

ControlNext == (AgentNext /\ UNCHANGED cliVars) \/ CliNext

controlVars == <<vars, cliVars>>

ControlSpec == CliInit /\ [][ControlNext]_controlVars

-----------------------------------------------------------------------------
CliTypeOK ==
  /\ cli \in [Requests -> {"start", "checked", "waiting"} \cup CliEnds]
  /\ cliAgent \in [Requests -> 0..MaxSessions]

(* status.Collect of one moment: what it prints of a stop on file.  (What a   *)
(* dead agent left is printed for two minutes more.)                         *)
isTerminal == status.state \in {"complete", "error"}
live       == agentAlive /\ status.agent = session

loadPoolStop ==
  CASE ~status.stop                       -> "absent"
    [] status.stop /\ live /\ isTerminal  -> "held"
    [] OTHER                              -> status.state

accepted(r) ==
  \/ drain.req = r
  \/ work.req = r /\ pc[Loop] \in {"acceptRemove", "abandon"}

(* A CLI that was told its request is refused never sees it carried out.      *)
RefusedIsNeverApplied ==
  \A r \in Requests : cli[r] \in {"rejected", "busy"} => ~accepted(r)

(* A request reaches only the session its CLI looked at: one left behind by a *)
(* crash is not applied by the next agent.                                    *)
RequestReachesItsSession ==
  \A r \in Requests : accepted(r) => cliAgent[r] = session

(* `stop complete ... (pool held empty; restart agent to refill)`: the CLI of *)
(* a stop reports success only when that session's pool is held or ending,    *)
(* and status.go:360 "Held stays visible for this process, including force-   *)
(* grace errors" of no other pool.                                            *)
StopCompleteMeansHeld ==
  /\ \A r \in StopRequests :
       cli[r] = "complete" /\ agentAlive /\ session = cliAgent[r] => phase \in {"held", "shutdown"}
  /\ loadPoolStop = "held" => phase \in {"held", "shutdown"}

-----------------------------------------------------------------------------
(* pool_drain.go:331 "Preserve a concurrent busy rejection until the rejected *)
(* CLI observes it."                                                          *)
RejectionReachesCli ==
  [][\A r \in Requests :
       (status.rejected = r /\ cli[r] = "waiting" /\ session = cliAgent[r] /\ agentAlive')
          => status'.rejected = r]_controlVars

(* pool_drain.go:102 "fails any new request that is not the in-flight drain": *)
(* a request on file is accepted or refused, never dropped without a word.    *)
RequestIsAnswered ==
  \A r \in Requests :
    cli[r] = "waiting" /\ session = cliAgent[r] /\ quiet =>
      \/ request.id = r
      \/ status.req = r
      \/ status.rejected = r
=============================================================================

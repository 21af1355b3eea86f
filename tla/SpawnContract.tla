---------------------------- MODULE SpawnContract ----------------------------
(***************************************************************************)
(* What Spawner.Run promises the pool for each VM name                     *)
(* (src/internal/spawn/spawn.go:78 and control.go): the actions of a slot  *)
(* in module Pool are those of this specification.                         *)
(*                                                                         *)
(* onIdleReady is called at most once, and only once the runner was        *)
(* started; a job whose claim was seen is only given up for Force, for the *)
(* agent's context or for an error; an unauthorized credential is only met *)
(* before the runner starts.                                               *)
(***************************************************************************)
CONSTANTS VMs

VARIABLES stage,      \* of each spawn
          result,     \* what it returned
          idle,       \* spawns whose onIdleReady was called
          signals,    \* what each SlotControl was told
          ctxDone     \* the agent's context is cancelled

vars == <<stage, result, idle, signals, ctxDone>>

Results == {"claimed", "unclaimed", "canceled", "failed", "unauthorized"}

Init ==
  /\ stage = [v \in VMs |-> "new"]
  /\ result = [v \in VMs |-> "none"]
  /\ idle = {}
  /\ signals = [v \in VMs |-> {}]
  /\ ctxDone = FALSE

Move(v, from, to) == stage[v] = from /\ stage' = [stage EXCEPT ![v] = to]

Begin(v) == Move(v, "new", "boot")  /\ UNCHANGED <<result, idle, signals, ctxDone>>
Exec(v)  == Move(v, "boot", "exec") /\ UNCHANGED <<result, idle, signals, ctxDone>>
Claim(v) == Move(v, "exec", "job")  /\ UNCHANGED <<result, idle, signals, ctxDone>>

(* The runner's output may still arrive while Run is ending. *)
IdleReady(v) ==
  /\ stage[v] \in {"exec", "job", "ending"}
  /\ v \notin idle
  /\ idle' = idle \cup {v}
  /\ UNCHANGED <<stage, result, signals, ctxDone>>

mayReturn(v, res) ==
  CASE res = "canceled"     -> \/ ctxDone
                               \/ "force" \in signals[v]
                               \/ "abandon" \in signals[v] /\ stage[v] # "job"
    [] res = "unauthorized" -> stage[v] = "boot"
    [] res = "claimed"      -> stage[v] \in {"exec", "job"}
    [] res = "unclaimed"    -> stage[v] = "exec"
    [] res = "failed"       -> TRUE

Return(v, res) ==
  /\ stage[v] \in {"boot", "exec", "job"}
  /\ mayReturn(v, res)
  /\ stage' = [stage EXCEPT ![v] = IF @ = "boot" THEN "over" ELSE "ending"]
  /\ result' = [result EXCEPT ![v] = res]
  /\ UNCHANGED <<idle, signals, ctxDone>>

Tell(v, s) ==
  /\ signals' = [signals EXCEPT ![v] = @ \cup {s}]
  /\ UNCHANGED <<stage, result, idle, ctxDone>>

Interrupt == ctxDone' = TRUE /\ UNCHANGED <<stage, result, idle, signals>>

Next ==
  \/ \E v \in VMs : Begin(v) \/ Exec(v) \/ Claim(v) \/ IdleReady(v)
  \/ \E v \in VMs, res \in Results : Return(v, res)
  \/ \E v \in VMs, s \in {"abandon", "force"} : Tell(v, s)
  \/ Interrupt

Spec == Init /\ [][Next]_vars
=============================================================================

------------------------------- MODULE Reclaim -------------------------------
(***************************************************************************)
(* Who cleans up after a spawn that did not: reclaim at the start of a     *)
(* session and during it (src/internal/pool/reclaim.go), the purge that    *)
(* ends a session or is `utsusemi clean` (purge.go, managed_vm.go), the    *)
(* leases that tell one session's VMs from another's                       *)
(* (src/internal/lease/lease.go), and the crash that makes them necessary. *)
(*                                                                         *)
(* The pool's loop runs reclaim beside the spawns of module Spawn.  It     *)
(* looks at four things one after the other, then acts on what it saw:     *)
(* the VMs in flight, GitHub's runners, the hypervisor's VMs, the leases.  *)
(***************************************************************************)
EXTENDS Spawn

CONSTANTS
  MaxConcurrent,  \* provider.Capabilities: VMs that may run at once
  MaxOthers,      \* bound: managed VMs that run besides those of VMs
  MaxSessions     \* bound: starts of the agent process

ASSUME ReclaimAssumption == MaxConcurrent \in Nat /\ MaxOthers \in Nat /\ MaxSessions \in Nat \ {0}

VARIABLES
  policy,   \* cfg.ReclaimPolicy
  rec       \* locals of reclaim and purgeAllManaged, and where the loop is

recVars == <<vars, policy, rec>>

Policies == {"soft", "grace", "hard"}

RecSteps == {"dead", "idle", "snapshot", "listRunners", "listVMs", "leases", "vms",
             "stopVM", "deleteVM", "dropLease", "runners",
             "wait", "purgeVMs", "purgeRunners", "purge", "purgeStop", "purgeDelete",
             "purgeRunner", "clear", "exit"}

(* hard: startup under reclaim_policy hard.  inFlight, runners, vms, leases:  *)
(* what the lists said.  running: runningVMs.  todo, cur: the range loops.    *)
(* clean: the last process to end purged everything.                          *)
NoRec == [step |-> "idle", hard |-> FALSE, startup |-> FALSE, inFlight |-> {},
          runners |-> {}, vms |-> {}, running |-> {}, atCap |-> FALSE,
          leases |-> [v \in VMs |-> NoLease], todo |-> {}, cur |-> {}, clean |-> FALSE]

(* Pool.Run has published its session and starts with a reclaim. *)
Starting(p) == [NoRec EXCEPT !.step = "snapshot", !.startup = TRUE, !.hard = (p = "hard")]

RecInit ==
  /\ Init
  /\ policy \in Policies
  /\ rec = Starting(policy)

-----------------------------------------------------------------------------
(* Helpers. *)

loopAt(step) == rec.step = step

alive == ~loopAt("dead")

recGoto(step) == rec' = [rec EXCEPT !.step = step]

idleRec == rec' = NoRec

spawnUntouched == UNCHANGED <<env, run, tap, policy>>

(* Mutant: a nil lease is not stale. *)
mutIsStale(l) == l.kind = "lease" /\ l.agent # session

(* lease.IsStale, of a lease that LeaseMap returned or nil. *)
IsStale(l) == l.kind # "lease" \/ l.agent # session

hasLease(v) == rec.leases[v].kind = "lease"

(* Mutant: reclaim_grace is not waited for. *)
mutShouldReclaimRunning(l) == policy # "soft" /\ IsStale(l)

ShouldReclaimRunning(l) ==
  CASE policy = "hard"  -> IsStale(l)
    [] policy = "grace" -> l.kind # "lease" \/ (IsStale(l) /\ l.aged)
    [] policy = "soft"  -> FALSE

sparesVM(v) ==
  \/ v \in rec.inFlight
  \/ /\ v \in rec.running
     /\ ~rec.hard
     /\ ~(rec.atCap /\ hasLease(v) /\ IsStale(rec.leases[v]))
     /\ ~ShouldReclaimRunning(rec.leases[v])

(* Mutant: a runner is spared for being in flight only. *)
mutSparesRunner(v) == v \in rec.inFlight

sparesRunner(v) ==
  \/ v \in rec.inFlight
  \/ v \in rec.running
  \/ hasLease(v) /\ ~IsStale(rec.leases[v]) /\ policy = "soft"

-----------------------------------------------------------------------------
(* reclaim. *)

(* The reconciliation ticker fires. *)
Reconcile ==
  /\ loopAt("idle")
  /\ recGoto("snapshot")
  /\ spawnUntouched /\ UNCHANGED <<vm, gh, lease, faults>>

(* A call fails: once by a fault, always when the context has ended. *)
callFails == \/ fault("reclaim")
             \/ ctxDone /\ UNCHANGED faults

(* The in-flight VMs are copied under Pool.mu; a pool in shutdown is left alone. *)
Snapshot ==
  /\ loopAt("snapshot")
  /\ \/ rec' = [rec EXCEPT !.step = "listRunners", !.inFlight = inFlight] /\ UNCHANGED faults
     \/ ctxDone /\ idleRec /\ UNCHANGED faults
     \/ fault("reclaim") /\ idleRec
  /\ spawnUntouched /\ UNCHANGED <<vm, gh, lease>>

registered == {v \in VMs : runner[v] = "registered"}
existing   == {v \in VMs : vm[v] # "absent"}
running    == {v \in VMs : vm[v] = "running"}

ListRunners ==
  /\ loopAt("listRunners")
  /\ \/ ~ctxDone /\ rec' = [rec EXCEPT !.step = "listVMs", !.runners = registered]
        /\ UNCHANGED faults
     \/ callFails /\ idleRec
  /\ spawnUntouched /\ UNCHANGED <<vm, gh, lease>>

ListVMs ==
  /\ loopAt("listVMs")
  /\ \/ /\ ~ctxDone
        /\ \E others \in 0..MaxOthers :
             rec' = [rec EXCEPT
               !.step = "leases", !.vms = existing, !.running = running,
               !.atCap = MaxConcurrent > 0 /\ Cardinality(running) + others >= MaxConcurrent]
        /\ UNCHANGED faults
     \/ callFails /\ idleRec
  /\ spawnUntouched /\ UNCHANGED <<vm, gh, lease>>

(* The loop over the VMs is followed by one over the runners; locals that no *)
(* step reads any more are dropped.                                          *)
afterVM(r) ==
  IF r.todo # {} THEN [r EXCEPT !.step = "vms"]
  ELSE IF r.runners = {} THEN NoRec
  ELSE [r EXCEPT !.step = "runners", !.todo = r.runners, !.runners = {}, !.atCap = FALSE]

(* A file that cannot be read or parsed is skipped; without the directory    *)
(* reclaim goes on as if there were no leases.                               *)
LeaseMap ==
  /\ loopAt("leases")
  /\ \E readable \in SUBSET VMs :
       /\ \/ readable = {v \in rec.vms \cup rec.runners : lease[v].kind = "lease"} /\ UNCHANGED faults
          \/ fault("reclaim") /\ readable = {}
       /\ rec' = afterVM([rec EXCEPT
                    !.todo = rec.vms, !.vms = {},
                    !.leases = [v \in VMs |-> IF v \in readable THEN lease[v] ELSE NoLease]])
  /\ spawnUntouched /\ UNCHANGED <<vm, gh, lease>>

NextVM ==
  /\ loopAt("vms")
  /\ \E v \in rec.todo :
       rec' = IF sparesVM(v) THEN afterVM([rec EXCEPT !.todo = @ \ {v}])
              ELSE [rec EXCEPT !.todo = @ \ {v}, !.cur = {v},
                      !.step = IF v \in rec.running THEN "stopVM" ELSE "deleteVM"]
  /\ spawnUntouched /\ UNCHANGED <<vm, gh, lease, faults>>

(* stopAndDeleteManagedVM: a failed stop is only logged; an absent VM counts *)
(* as deleted; the hypervisor does not delete a VM that runs.                *)
stopManaged(v) ==
  \/ /\ vm' = [vm EXCEPT ![v] = IF @ = "running" THEN "stopped" ELSE @]
     /\ guest' = [guest EXCEPT ![v] = "down"]
     /\ UNCHANGED faults
  \/ callFails /\ UNCHANGED <<vm, guest>>

ReclaimStop ==
  /\ loopAt("stopVM")
  /\ \E v \in rec.cur : stopManaged(v)
  /\ recGoto("deleteVM")
  /\ spawnUntouched /\ UNCHANGED <<printed, runner, lease>>

(* Mutant: the lease goes even if the VM stayed. *)
mutReclaimDelete ==
  /\ loopAt("deleteVM")
  /\ \E v \in rec.cur :
       \/ vm[v] # "running" /\ vm' = [vm EXCEPT ![v] = "absent"] /\ recGoto("dropLease")
       \/ vm[v] = "running" /\ recGoto("dropLease") /\ UNCHANGED vm
  /\ spawnUntouched /\ UNCHANGED <<gh, lease, faults>>

ReclaimDelete ==
  /\ loopAt("deleteVM")
  /\ \E v \in rec.cur :
       \/ vm[v] # "running" /\ vm' = [vm EXCEPT ![v] = "absent"] /\ recGoto("dropLease")
          /\ UNCHANGED faults
       \/ vm[v] = "running" /\ rec' = afterVM([rec EXCEPT !.cur = {}])
          /\ UNCHANGED <<vm, faults>>
       \/ callFails /\ rec' = afterVM([rec EXCEPT !.cur = {}]) /\ UNCHANGED vm
  /\ spawnUntouched /\ UNCHANGED <<gh, lease>>

DropLease ==
  /\ loopAt("dropLease")
  /\ \/ lease' = [v \in VMs |-> IF v \in rec.cur THEN NoLease ELSE lease[v]] /\ UNCHANGED faults
     \/ fault("reclaim") /\ UNCHANGED lease
  /\ rec' = afterVM([rec EXCEPT !.running = @ \ rec.cur, !.cur = {}])
  /\ spawnUntouched /\ UNCHANGED <<vm, gh>>

NextRunner ==
  /\ loopAt("runners")
  /\ \E v \in rec.todo :
       /\ rec' = IF rec.todo = {v} THEN NoRec ELSE [rec EXCEPT !.todo = @ \ {v}]
       /\ \/ sparesRunner(v) /\ UNCHANGED <<runner, faults>>
          \/ /\ ~sparesRunner(v)
             /\ \/ ~ctxDone /\ runner' = [runner EXCEPT ![v] = "absent"] /\ UNCHANGED faults
                \/ callFails /\ UNCHANGED runner
  /\ spawnUntouched /\ UNCHANGED <<vm, guest, printed, lease>>

-----------------------------------------------------------------------------
(* purgeAllManaged: at the end of a session once no spawn is in flight, and  *)
(* as `utsusemi clean` while no agent runs.  Its context does not end with   *)
(* the agent's.                                                              *)

BeginShutdown ==
  /\ loopAt("idle") /\ ctxDone
  /\ recGoto("wait")
  /\ spawnUntouched /\ UNCHANGED <<vm, gh, lease, faults>>

(* Mutant: the purge does not wait for the spawns. *)
mutWait ==
  /\ loopAt("wait")
  /\ recGoto("purgeVMs")
  /\ spawnUntouched /\ UNCHANGED <<vm, gh, lease, faults>>

Wait ==
  /\ loopAt("wait") /\ inFlight = {}
  /\ recGoto("purgeVMs")
  /\ spawnUntouched /\ UNCHANGED <<vm, gh, lease, faults>>

CleanCommand ==
  /\ loopAt("dead")
  /\ rec' = [NoRec EXCEPT !.step = "purgeVMs"]
  /\ spawnUntouched /\ UNCHANGED <<vm, gh, lease, faults>>

(* clean is what purgeAllManaged returns: no error so far. *)
PurgeListVMs ==
  /\ loopAt("purgeVMs")
  /\ \/ /\ rec' = [rec EXCEPT !.step = "purgeRunners", !.vms = existing, !.running = running,
                              !.clean = TRUE]
        /\ UNCHANGED faults
     \/ fault("reclaim") /\ rec' = [NoRec EXCEPT !.step = "exit"]
  /\ spawnUntouched /\ UNCHANGED <<vm, gh, lease>>

PurgeListRunners ==
  /\ loopAt("purgeRunners")
  /\ \/ /\ rec' = [rec EXCEPT !.step = "purge", !.todo = rec.vms, !.vms = {},
                              !.runners = registered]
        /\ UNCHANGED faults
     \/ fault("reclaim") /\ rec' = [NoRec EXCEPT !.step = "exit"]
  /\ spawnUntouched /\ UNCHANGED <<vm, gh, lease>>

PurgeNextVM ==
  /\ loopAt("purge")
  /\ IF rec.todo = {} THEN rec' = [rec EXCEPT !.step = "purgeRunner", !.todo = rec.runners,
                                       !.runners = {}, !.running = {}, !.cur = {}]
     ELSE \E v \in rec.todo :
            rec' = [rec EXCEPT !.todo = @ \ {v}, !.cur = {v},
                      !.step = IF v \in rec.running THEN "purgeStop" ELSE "purgeDelete"]
  /\ spawnUntouched /\ UNCHANGED <<vm, gh, lease, faults>>

PurgeStop ==
  /\ loopAt("purgeStop")
  /\ \E v \in rec.cur :
       \/ /\ vm' = [vm EXCEPT ![v] = IF @ = "running" THEN "stopped" ELSE @]
          /\ guest' = [guest EXCEPT ![v] = "down"]
          /\ UNCHANGED faults
       \/ fault("reclaim") /\ UNCHANGED <<vm, guest>>
  /\ recGoto("purgeDelete")
  /\ spawnUntouched /\ UNCHANGED <<printed, runner, lease>>

PurgeDelete ==
  /\ loopAt("purgeDelete")
  /\ \E v \in rec.cur :
       \/ /\ vm[v] # "running" /\ vm' = [vm EXCEPT ![v] = "absent"]
          /\ recGoto("purge") /\ UNCHANGED faults
       \/ /\ \/ vm[v] = "running" /\ UNCHANGED faults
             \/ fault("reclaim")
          /\ rec' = [rec EXCEPT !.step = "purge", !.clean = FALSE]
          /\ UNCHANGED vm
  /\ spawnUntouched /\ UNCHANGED <<gh, lease>>

PurgeNextRunner ==
  /\ loopAt("purgeRunner")
  /\ \/ rec.todo = {} /\ recGoto("clear") /\ UNCHANGED <<runner, faults>>
     \/ \E v \in rec.todo :
          \/ /\ runner' = [runner EXCEPT ![v] = "absent"]
             /\ rec' = [rec EXCEPT !.todo = @ \ {v}]
             /\ UNCHANGED faults
          \/ /\ fault("reclaim")
             /\ rec' = [rec EXCEPT !.todo = @ \ {v}, !.clean = FALSE]
             /\ UNCHANGED runner
  /\ spawnUntouched /\ UNCHANGED <<vm, guest, printed, lease>>

ClearLeases ==
  /\ loopAt("clear")
  /\ \/ lease' = [v \in VMs |-> NoLease] /\ recGoto("exit") /\ UNCHANGED faults
     \/ fault("reclaim") /\ rec' = [rec EXCEPT !.step = "exit", !.clean = FALSE]
          /\ UNCHANGED lease
  /\ spawnUntouched /\ UNCHANGED <<vm, gh>>

-----------------------------------------------------------------------------
(* The process. *)

(* A process that ends takes its goroutines along; VMs and guests go on.  Of *)
(* a spawn only its result is kept, as history.                              *)
processEnds ==
  /\ inFlight' = {} /\ ctxDone' = FALSE
  /\ signals' = [v \in VMs |-> {}]
  /\ run' = [v \in VMs |-> IF at(v, "unused") THEN NewRun
                           ELSE [NewRun EXCEPT !.step = "done", !.result = run[v].result]]
  /\ exec' = [v \in VMs |-> IF at(v, "unused") THEN "none" ELSE "err"]
  /\ scan' = [v \in VMs |-> {}]
  /\ idle' = {}

Exit ==
  /\ loopAt("exit")
  /\ rec' = [NoRec EXCEPT !.step = "dead", !.clean = rec.clean]
  /\ processEnds
  /\ UNCHANGED <<session, vm, gh, lease, faults, policy>>

Crash ==
  /\ "crash" \in Faults
  /\ alive
  /\ rec' = [NoRec EXCEPT !.step = "dead"]
  /\ processEnds
  /\ UNCHANGED <<session, vm, gh, lease, faults, policy>>

(* WriteAgentSession, then startupReclaim. *)
AgentStart ==
  /\ loopAt("dead") /\ session < MaxSessions
  /\ session' = session + 1
  /\ rec' = Starting(policy)
  /\ UNCHANGED <<inFlight, signals, ctxDone, run, tap, vm, gh, lease, faults, policy>>

-----------------------------------------------------------------------------
(* Specification. *)

Purging == {"wait", "purgeVMs", "purgeRunners", "purge", "purgeStop", "purgeDelete",
            "purgeRunner", "clear", "exit"}

(* tick runs once the startup reclaim is over and until the pool shuts down. *)
SpawnBegins(v) == alive /\ ~rec.startup /\ rec.step \notin Purging /\ Begin(v)

Signalled == alive /\ rec.step \notin Purging /\ Interrupt

SpawnStep(v) ==
  \/ SpawnBegins(v) \/ Done(v) \/ Watch(v) \/ Timeout(v)
  \/ \E s \in Tells : Tell(v, s)
  \/ Boot(v) \/ Select(v) \/ Grace(v) \/ CleanUp(v)
  \/ ExecStarts(v) \/ ExecEnds(v) \/ Observe(v) \/ Notify(v)
  \/ Guest(v)

ReclaimStep ==
  \/ Snapshot \/ ListRunners \/ ListVMs \/ LeaseMap
  \/ NextVM \/ ReclaimStop \/ ReclaimDelete \/ DropLease \/ NextRunner

PurgeStep ==
  \/ Wait \/ PurgeListVMs \/ PurgeListRunners \/ PurgeNextVM \/ PurgeStop \/ PurgeDelete
  \/ PurgeNextRunner \/ ClearLeases \/ Exit

(* StartedAt of a lease comes to lie reclaim_grace in the past.  It is looked *)
(* at once the lease is stale, so it need not age before.                     *)
Age(v) ==
  /\ policy = "grace"
  /\ lease[v].kind = "lease" /\ IsStale(lease[v]) /\ ~lease[v].aged
  /\ lease' = [lease EXCEPT ![v].aged = TRUE]
  /\ UNCHANGED <<env, run, tap, vm, gh, faults, policy, rec>>

RecNext ==
  \/ \E v \in VMs : SpawnStep(v) /\ UNCHANGED <<policy, rec>>
  \/ Signalled /\ UNCHANGED <<policy, rec>>
  \/ Reconcile \/ ReclaimStep
  \/ BeginShutdown \/ CleanCommand \/ PurgeStep
  \/ Crash \/ AgentStart
  \/ \E v \in VMs : Age(v)

RecSpec == RecInit /\ [][RecNext]_recVars

(* The loop keeps running and its ticker fires; time passes.  Run's select   *)
(* picks at random among what is ready, so it comes to see ctx.Done.         *)
RecFairSpec ==
  /\ RecSpec
  /\ WF_recVars(Reconcile) /\ WF_recVars(ReclaimStep)
  /\ SF_recVars(BeginShutdown) /\ WF_recVars(PurgeStep)
  /\ \A v \in VMs : WF_recVars(Age(v))

-----------------------------------------------------------------------------
(* Types. *)

Recs == [step : RecSteps, hard : BOOLEAN, startup : BOOLEAN, inFlight : SUBSET VMs,
         runners : SUBSET VMs, vms : SUBSET VMs, running : SUBSET VMs, atCap : BOOLEAN,
         leases : [VMs -> Leases], todo : SUBSET VMs, cur : SUBSET VMs, clean : BOOLEAN]

(* Every variable has its type; a crash leaves no spawn of its session.      *)
RecTypeOK == TypeOK /\ policy \in Policies /\ rec \in Recs

-----------------------------------------------------------------------------
(* Safety. *)

(* A lease-less running VM may be reclaimed without grace (lease.go:204):    *)
(* across crashes, a job that GitHub still runs and no spawn has given up    *)
(* has its lease on file.  (A purge clears the leases whatever it could      *)
(* delete: this takes it to fail at most at one of the VM and its runner.)   *)
JobHasLease ==
  \A v \in VMs : guest[v] = "job" /\ runner[v] = "registered" /\ run[v].result = "none"
    => lease[v].kind = "lease"

(* ListRunners before ListManaged: the runner of a VM that is in flight and  *)
(* running is never taken from it by reclaim, though the snapshot of the     *)
(* in-flight VMs is older than both lists.                                   *)
RunningRunnerSpared ==
  [][\A v \in VMs : loopAt("runners") /\ runner'[v] # runner[v] /\ v \in rec.todo \ rec'.todo
       => ~(v \in inFlight /\ vm[v] = "running")]_recVars

(* reclaim_policy: of the VMs that a crash left running, reclaim stops under *)
(* grace one whose lease has aged or could not be read, and under soft none, *)
(* unless the hypervisor was full.                                           *)
PolicyRespected ==
  \A v \in rec.cur \ inFlight : loopAt("stopVM") /\ vm[v] = "running" =>
    /\ policy = "soft" => rec.atCap
    /\ policy = "grace" /\ hasLease(v) /\ ~rec.atCap => lease[v].aged

(* A session that ended without an error from its purge, and `utsusemi       *)
(* clean`, leave no managed VM, runner or lease, whatever crashed before.    *)
CleanExitLeavesNothing ==
  loopAt("dead") /\ rec.clean => existing = {} /\ registered = {} /\ \A v \in VMs : lease[v] = NoLease

(* pool_test.go:362 "in-flight vm should remain": reclaim does not stop or   *)
(* delete the VM of a spawn in progress.                                     *)
ReclaimSparesInFlight ==
  \A v \in rec.cur : rec.step \in {"stopVM", "deleteVM"} => v \notin inFlight

-----------------------------------------------------------------------------
(* Liveness. *)

orphan(v) == at(v, "done") /\ alive

(* What a crash or a failed clean-up left behind goes while an agent runs,   *)
(* unless reclaim_policy is soft.  Then a VM that runs is spared, and so is a *)
(* runner that this session's lease names, but no other one whose VM is gone *)
(* or stopped.                                                               *)
OrphansGo ==
  \A v \in VMs :
    /\ (orphan(v) /\ vm[v] # "absent" /\ (policy = "soft" => vm[v] = "stopped"))
         ~> (vm[v] = "absent" \/ ~alive)
    /\ (/\ orphan(v) /\ runner[v] = "registered" /\ vm[v] # "running"
        /\ policy = "soft" => IsStale(lease[v]))
         ~> (runner[v] = "absent" \/ ~alive)
=============================================================================

-------------------------------- MODULE Spawn --------------------------------
(***************************************************************************)
(* One VM's life: Spawner.Run of src/internal/spawn/spawn.go with its      *)
(* SlotControl (control.go), its claimScanner (claim.go) and its lease     *)
(* (src/internal/lease/lease.go), against a hypervisor, GitHub and a guest *)
(* that work beside it.                                                    *)
(*                                                                         *)
(* One action per call that has an effect outside the goroutine, and one   *)
(* per case of the select loop.  The watcher of the SlotControl, the       *)
(* goroutine of ExecStdin and the scanner it writes to are actions of      *)
(* their own.  Timers may fire at any step that waits for one.             *)
(***************************************************************************)
EXTENDS Integers, FiniteSets

CONSTANTS
  VMs,                \* names given by Pool.newVMName, each used once
  teardownAttempts,   \* stop and delete are tried this often
  deleteRunnerTries,  \* and the runner's removal this often
  Tells,              \* bound: the signals that the pool may give
  Marks,              \* bound: the markers that a runner may print
  Faults,             \* bound: the kinds of failure that may happen
  MaxFaults           \* bound: failures in one behaviour

(* What may fail; "drift" is a runner whose log lines changed, "reclaim" and *)
(* "crash" are used by module Reclaim.                                       *)
AllFaults == {"disk", "clone", "lease", "start", "ready", "jit", "unauthorized",
              "exec", "vmStops", "teardown", "rmLease", "drift", "timeout",
              "reclaim", "crash"}

Signals == {"abandon", "force"}
Markers == {"Listening", "Running"}

ASSUME SpawnAssumption ==
  /\ IsFiniteSet(VMs)
  /\ Tells \subseteq Signals
  /\ Marks \subseteq Markers
  /\ teardownAttempts \in Nat \ {0}
  /\ deleteRunnerTries \in Nat \ {0}
  /\ Faults \subseteq AllFaults
  /\ MaxFaults \in Nat

VARIABLES
  inFlight,   \* Pool.inFlightVMs
  signals,    \* closed channels of each SlotControl
  ctxDone,    \* the agent's context is cancelled
  run,        \* the goroutine of Spawner.Run
  exec,       \* the goroutine of ExecStdin, and what it sends to execDone
  scan,       \* markers the claimScanner has seen
  idle,       \* VMs whose onIdleReady was called
  vm,         \* each VM at the hypervisor
  guest,      \* the runner inside the guest
  printed,    \* markers it has printed
  runner,     \* its registration at GitHub
  lease,      \* the file leases/<vm>.json
  session,    \* id of the agent process's session
  faults      \* failures so far

env  == <<inFlight, signals, ctxDone, session>>
gh   == <<guest, printed, runner>>
tap  == <<exec, scan, idle>>
vars == <<env, run, tap, vm, gh, lease, faults>>

-----------------------------------------------------------------------------
(* Values. *)

Steps == {"unused", "disk", "clone", "cloning", "lease", "leaseWrite", "start",
          "ready", "jit", "jitSent", "lease2", "lease2Write", "enter", "exec",
          "abandon", "stopped", "delRunner", "rmLease", "stop", "delete", "returned", "done"}
PreJob   == {"clone", "cloning", "lease", "leaseWrite", "start", "ready", "jit",
             "jitSent", "lease2", "lease2Write", "enter"}
JobLoop  == {"exec", "abandon", "stopped"}
Teardown == {"delRunner", "rmLease", "stop", "delete"}
Over     == {"returned", "done"}

Results == {"none", "claimed", "unclaimed", "canceled", "failed", "unauthorized"}

(* ctx: of the context the goroutine waits with, preJobCtx and then jobCtx.  *)
(* pushed: deferred clean-ups.  seen: SlotControl channels set to nil.       *)
NewRun == [step |-> "unused", ctx |-> "live", pushed |-> {}, seen |-> {},
           cancelReason |-> "none", result |-> "none", tries |-> 0]

(* A lease file: absent, truncated, or of a session; aged once StartedAt is  *)
(* reclaim_grace ago.                                                        *)
NoLease   == [kind |-> "none", agent |-> 0, aged |-> FALSE]
TornLease == [NoLease EXCEPT !.kind = "torn"]

Init ==
  /\ inFlight = {}
  /\ signals = [v \in VMs |-> {}]
  /\ ctxDone = FALSE
  /\ session = 1
  /\ run = [v \in VMs |-> NewRun]
  /\ exec = [v \in VMs |-> "none"]
  /\ scan = [v \in VMs |-> {}]
  /\ idle = {}
  /\ vm = [v \in VMs |-> "absent"]
  /\ guest = [v \in VMs |-> "down"]
  /\ printed = [v \in VMs |-> {}]
  /\ runner = [v \in VMs |-> "absent"]
  /\ lease = [v \in VMs |-> NoLease]
  /\ faults = 0

-----------------------------------------------------------------------------
(* Helpers. *)

at(v, step) == run[v].step = step

live(v) == run[v].ctx = "live"

goto(v, step) == run' = [run EXCEPT ![v].step = step]

(* One more failure of this kind. *)
fault(kind) == kind \in Faults /\ faults < MaxFaults /\ faults' = faults + 1

(* errors.Is(ctx.Err(), context.Canceled), or a deadline. *)
ctxResult(v) == IF run[v].ctx = "canceled" THEN "canceled" ELSE "failed"

(* Mutant: nothing deletes the runner. *)
mutFirstDeferred(pushed) == IF "vm" \in pushed THEN "rmLease" ELSE "returned"

(* Deferred calls run last in first out: delete the runner, remove the lease, *)
(* stop and delete the VM.  Before the clone none is pushed.                  *)
firstDeferred(pushed) ==
  IF "runner" \in pushed THEN "delRunner"
  ELSE IF "vm" \in pushed THEN "rmLease" ELSE "returned"

returnWith(v, res) ==
  run' = [run EXCEPT ![v].result = res, ![v].step = firstDeferred(run[v].pushed)]

(* exec ended well: GitHub dropped the runner with its job. *)
returnGood(v) ==
  run' = [run EXCEPT
    ![v].result = IF "Running" \in scan[v] THEN "claimed" ELSE "unclaimed",
    ![v].pushed = @ \ {"runner"},
    ![v].step = firstDeferred(run[v].pushed \ {"runner"})]

-----------------------------------------------------------------------------
(* The pool and the operator. *)

Begin(v) ==
  /\ at(v, "unused")
  /\ inFlight' = inFlight \cup {v}
  /\ goto(v, "disk")
  /\ UNCHANGED <<signals, ctxDone, session, tap, vm, gh, lease, faults>>

Tell(v, s) ==
  /\ v \in inFlight
  /\ s \notin signals[v]
  /\ signals' = [signals EXCEPT ![v] = @ \cup {s}]
  /\ UNCHANGED <<inFlight, ctxDone, session, run, tap, vm, gh, lease, faults>>

(* SIGINT or SIGTERM: every context derived from the agent's ends. *)
Interrupt ==
  /\ ~ctxDone
  /\ ctxDone' = TRUE
  /\ run' = [v \in VMs |-> IF live(v) THEN [run[v] EXCEPT !.ctx = "canceled"] ELSE run[v]]
  /\ UNCHANGED <<inFlight, signals, session, tap, vm, gh, lease, faults>>

Done(v) ==
  /\ at(v, "returned")
  /\ inFlight' = inFlight \ {v}
  /\ goto(v, "done")
  /\ UNCHANGED <<signals, ctxDone, session, tap, vm, gh, lease, faults>>

-----------------------------------------------------------------------------
(* Contexts: the watcher of preJobCtx, and the timers of spawn and job. *)

Watch(v) ==
  /\ run[v].step \in PreJob
  /\ signals[v] # {}
  /\ live(v)
  /\ run' = [run EXCEPT ![v].ctx = "canceled"]
  /\ UNCHANGED <<env, tap, vm, gh, lease, faults>>

(* Mutant: job_timeout is not applied. *)
mutTimeout(v) ==
  /\ "timeout" \in Faults
  /\ run[v].step \in PreJob
  /\ live(v)
  /\ run' = [run EXCEPT ![v].ctx = "timeout"]
  /\ UNCHANGED <<env, tap, vm, gh, lease, faults>>

Timeout(v) ==
  /\ "timeout" \in Faults
  /\ run[v].step \in PreJob \cup JobLoop
  /\ live(v)
  /\ run' = [run EXCEPT ![v].ctx = "timeout"]
  /\ UNCHANGED <<env, tap, vm, gh, lease, faults>>

-----------------------------------------------------------------------------
(* Clone, first lease, boot. *)

CheckDisk(v) ==
  /\ at(v, "disk")
  /\ \/ goto(v, "clone") /\ UNCHANGED faults
     \/ fault("disk") /\ returnWith(v, "failed")
  /\ UNCHANGED <<env, tap, vm, gh, lease>>

CloneStart(v) ==
  /\ at(v, "clone")
  /\ IF live(v) THEN goto(v, "cloning") ELSE returnWith(v, ctxResult(v))
  /\ UNCHANGED <<env, tap, vm, gh, lease, faults>>

CloneOk(v) ==
  /\ at(v, "cloning")
  /\ vm' = [vm EXCEPT ![v] = "stopped"]
  /\ run' = [run EXCEPT ![v].step = "lease", ![v].pushed = {"vm"}]
  /\ UNCHANGED <<env, tap, gh, lease, faults>>

CloneFails(v) ==
  /\ at(v, "cloning")
  /\ fault("clone")
  /\ returnWith(v, "failed")
  /\ UNCHANGED <<env, tap, vm, gh, lease>>

(* exec.CommandContext kills the tart clone of a cancelled spawn.  Its error *)
(* is "signal: killed" unless it ended well just then; the VM may exist.     *)
CloneKilled(v) ==
  /\ at(v, "cloning")
  /\ ~live(v)
  /\ \/ returnWith(v, "failed") /\ vm' \in {vm, [vm EXCEPT ![v] = "stopped"]}
     \/ returnWith(v, ctxResult(v)) /\ vm' = [vm EXCEPT ![v] = "stopped"]
  /\ UNCHANGED <<env, tap, gh, lease, faults>>

(* os.WriteFile truncates, then writes; a failure is only logged. *)
truncateLease(v, from, written, after) ==
  /\ at(v, from)
  /\ \/ lease' = [lease EXCEPT ![v] = TornLease] /\ goto(v, written) /\ UNCHANGED faults
     \/ fault("lease") /\ goto(v, after) /\ UNCHANGED lease
  /\ UNCHANGED <<env, tap, vm, gh>>

writeLease(v, written, after) ==
  /\ at(v, written)
  /\ \/ /\ lease' = [lease EXCEPT ![v] =
                       [kind |-> "lease", agent |-> session, aged |-> FALSE]]
        /\ UNCHANGED faults
     \/ fault("lease") /\ UNCHANGED lease
  /\ goto(v, after)
  /\ UNCHANGED <<env, tap, vm, gh>>

WriteLease(v) ==
  \/ truncateLease(v, "lease", "leaseWrite", "start")
  \/ writeLease(v, "leaseWrite", "start")

(* tart run is detached: it outlives the context, which guards the start only. *)
StartVM(v) ==
  /\ at(v, "start")
  /\ \/ live(v) /\ vm[v] = "stopped"
        /\ vm' = [vm EXCEPT ![v] = "running"] /\ goto(v, "ready") /\ UNCHANGED faults
     \/ live(v) /\ fault("start") /\ returnWith(v, "failed") /\ UNCHANGED vm
     \/ live(v) /\ vm[v] # "stopped" /\ returnWith(v, "failed") /\ UNCHANGED <<vm, faults>>
     \/ ~live(v) /\ returnWith(v, ctxResult(v)) /\ UNCHANGED <<vm, faults>>
  /\ UNCHANGED <<env, tap, gh, lease>>

(* The guest agent answers, stays away until readyTimeout, or the VM is not  *)
(* running for notRunningBudget.                                             *)
waitUntilReady(v) ==
  /\ at(v, "ready")
  /\ \/ live(v) /\ vm[v] = "running" /\ goto(v, "jit") /\ UNCHANGED faults
     \/ live(v) /\ fault("ready") /\ returnWith(v, "failed")
     \/ live(v) /\ vm[v] # "running" /\ returnWith(v, "failed") /\ UNCHANGED faults
     \/ ~live(v) /\ returnWith(v, ctxResult(v)) /\ UNCHANGED faults
  /\ UNCHANGED <<env, tap, vm, gh, lease>>

-----------------------------------------------------------------------------
(* Registration, second lease. *)

SendJIT(v) ==
  /\ at(v, "jit")
  /\ IF live(v) THEN goto(v, "jitSent") ELSE returnWith(v, ctxResult(v))
  /\ UNCHANGED <<env, tap, vm, gh, lease, faults>>

JITAnswered(v) ==
  /\ at(v, "jitSent")
  /\ runner' = [runner EXCEPT ![v] = "registered"]
  /\ run' = [run EXCEPT ![v].step = "lease2", ![v].pushed = @ \cup {"runner"}]
  /\ UNCHANGED <<env, tap, vm, guest, printed, lease, faults>>

(* Refused, or the answer is lost after GitHub made the runner. *)
JITFails(v) ==
  /\ at(v, "jitSent")
  /\ \/ fault("unauthorized") /\ returnWith(v, "unauthorized") /\ UNCHANGED runner
     \/ /\ \/ fault("jit") /\ returnWith(v, "failed")
           \/ ~live(v) /\ returnWith(v, ctxResult(v)) /\ UNCHANGED faults
        /\ runner' \in {runner, [runner EXCEPT ![v] = "registered"]}
  /\ UNCHANGED <<env, tap, vm, guest, printed, lease>>

WriteLease2(v) ==
  \/ truncateLease(v, "lease2", "lease2Write", "enter")
  \/ writeLease(v, "lease2Write", "enter")

-----------------------------------------------------------------------------
(* The job: the select loop, the goroutine of ExecStdin, the guest. *)

(* jobCtx derives from the agent's context; Force and AbandonIdle are read   *)
(* from their channels by the loop.                                          *)
EnterJob(v) ==
  /\ at(v, "enter")
  /\ run' = [run EXCEPT ![v].step = "exec",
                        ![v].ctx = IF ctxDone THEN "canceled" ELSE "live"]
  /\ UNCHANGED <<env, tap, vm, gh, lease, faults>>

ExecStarts(v) ==
  /\ run[v].step \in JobLoop \cup Teardown \cup Over
  /\ exec[v] = "none" /\ "runner" \in run[v].pushed
  /\ \/ /\ run[v].ctx = "canceled"
        /\ exec' = [exec EXCEPT ![v] = "canceled"]
        /\ UNCHANGED guest
     \/ /\ run[v].ctx = "timeout" \/ (live(v) /\ vm[v] # "running")
        /\ exec' = [exec EXCEPT ![v] = "err"]
        /\ UNCHANGED guest
     \/ /\ live(v) /\ vm[v] = "running"
        /\ exec' = [exec EXCEPT ![v] = "running"]
        /\ guest' = [guest EXCEPT ![v] = "bootstrap"]
  /\ UNCHANGED <<env, run, scan, idle, vm, printed, runner, lease, faults>>

(* A guest's lines, unless the runner's wording changed. *)
prints(v, m) ==
  \/ printed' = [printed EXCEPT ![v] = @ \cup ({m} \cap Marks)]
  \/ "drift" \in Faults /\ UNCHANGED printed

GuestListens(v) ==
  /\ guest[v] = "bootstrap" /\ vm[v] = "running"
  /\ guest' = [guest EXCEPT ![v] = "listening"]
  /\ prints(v, "Listening")
  /\ UNCHANGED <<env, run, tap, vm, runner, lease, faults>>

GitHubAssigns(v) ==
  /\ guest[v] = "listening" /\ vm[v] = "running" /\ runner[v] = "registered"
  /\ guest' = [guest EXCEPT ![v] = "job"]
  /\ prints(v, "Running")
  /\ UNCHANGED <<env, run, tap, vm, runner, lease, faults>>

(* The job is over, and with it the registration; or nobody gave a job. *)
GuestExits(v) ==
  /\ \/ guest[v] = "job" /\ runner' = [runner EXCEPT ![v] = "absent"]
     \/ guest[v] = "listening" /\ runner' \in {runner, [runner EXCEPT ![v] = "absent"]}
  /\ vm[v] = "running"
  /\ guest' = [guest EXCEPT ![v] = "exited"]
  /\ UNCHANGED <<env, run, tap, vm, printed, lease, faults>>

GuestFails(v) ==
  /\ guest[v] \in {"bootstrap", "listening", "job"}
  /\ fault("exec")
  /\ guest' = [guest EXCEPT ![v] = "failed"]
  /\ UNCHANGED <<env, run, tap, vm, printed, runner, lease>>

VMStops(v) ==
  /\ vm[v] = "running"
  /\ fault("vmStops")
  /\ vm' = [vm EXCEPT ![v] = "stopped"]
  /\ guest' = [guest EXCEPT ![v] = "down"]
  /\ UNCHANGED <<env, run, tap, printed, runner, lease>>

(* runCommandStreaming returns once every line has reached the tap; a killed *)
(* command loses what it had not printed yet, and its error is the signal's. *)
ExecEnds(v) ==
  /\ exec[v] = "running"
  /\ scan[v] = {} \/ v \in idle
  /\ \/ guest[v] = "exited" /\ scan[v] = printed[v] /\ exec' = [exec EXCEPT ![v] = "ok"]
     \/ guest[v] \in {"failed", "down"} /\ exec' = [exec EXCEPT ![v] = "err"]
     \/ ~live(v) /\ exec' = [exec EXCEPT ![v] = "err"]
  /\ UNCHANGED <<env, run, scan, idle, vm, gh, lease, faults>>

(* claimScanner.observe; a line without its newline is one that Flush sees.  *)
Observe(v) ==
  /\ exec[v] = "running"
  /\ \E m \in printed[v] \ scan[v] : scan' = [scan EXCEPT ![v] = @ \cup {m}]
  /\ UNCHANGED <<env, run, exec, idle, vm, gh, lease, faults>>

(* Write calls onIdleReady after it has released claimScanner.mu. *)
Notify(v) ==
  /\ exec[v] = "running"
  /\ scan[v] # {} /\ v \notin idle
  /\ idle' = idle \cup {v}
  /\ UNCHANGED <<env, run, exec, scan, vm, gh, lease, faults>>

(* Mutant: the timer is armed by the first marker. *)
mutGrace(v) ==
  /\ at(v, "exec")
  /\ scan[v] # {} /\ v \notin idle
  /\ idle' = idle \cup {v}
  /\ UNCHANGED <<env, run, exec, scan, vm, gh, lease, faults>>

(* listeningGrace: no marker came. *)
Grace(v) ==
  /\ at(v, "exec")
  /\ scan[v] = {} /\ v \notin idle
  /\ idle' = idle \cup {v}
  /\ UNCHANGED <<env, run, exec, scan, vm, gh, lease, faults>>

JobCtxDone(v) ==
  /\ at(v, "exec")
  /\ ~live(v)
  /\ returnWith(v, ctxResult(v))
  /\ UNCHANGED <<env, tap, vm, gh, lease, faults>>

(* jobCancel: a context that ended already keeps its error. *)
cancelled(v) == IF live(v) THEN "canceled" ELSE run[v].ctx

(* Mutant: the job is not cancelled. *)
mutSeeForce(v) ==
  /\ at(v, "exec")
  /\ "force" \in signals[v] \ run[v].seen
  /\ run' = [run EXCEPT ![v].seen = @ \cup {"force"}, ![v].cancelReason = "force"]
  /\ UNCHANGED <<env, tap, vm, gh, lease, faults>>

SeeForce(v) ==
  /\ at(v, "exec")
  /\ "force" \in signals[v] \ run[v].seen
  /\ run' = [run EXCEPT ![v].seen = @ \cup {"force"}, ![v].cancelReason = "force",
                        ![v].ctx = cancelled(v)]
  /\ UNCHANGED <<env, tap, vm, gh, lease, faults>>

(* Mutant: the loop does not look for a claim. *)
mutSeeAbandon(v) ==
  /\ at(v, "exec")
  /\ "abandon" \in signals[v] \ run[v].seen
  /\ run' = [run EXCEPT ![v].seen = @ \cup {"abandon"}, ![v].step = "abandon"]
  /\ UNCHANGED <<env, tap, vm, gh, lease, faults>>

(* The claim is looked for here and the job cancelled in a second step. *)
SeeAbandon(v) ==
  /\ at(v, "exec")
  /\ "abandon" \in signals[v] \ run[v].seen
  /\ run' = [run EXCEPT ![v].seen = @ \cup {"abandon"},
                        ![v].step = IF "Running" \in scan[v] THEN @ ELSE "abandon"]
  /\ UNCHANGED <<env, tap, vm, gh, lease, faults>>

AbandonIdle(v) ==
  /\ at(v, "abandon")
  /\ run' = [run EXCEPT ![v].step = "exec", ![v].cancelReason = "pool_drain",
                        ![v].ctx = cancelled(v)]
  /\ UNCHANGED <<env, tap, vm, gh, lease, faults>>

ExecDone(v) ==
  /\ at(v, "exec")
  /\ \/ exec[v] = "ok" /\ returnGood(v)
     \/ exec[v] = "err" /\ returnWith(v, "failed")
     \/ exec[v] = "canceled" /\ returnWith(v, "canceled")
  /\ UNCHANGED <<env, tap, vm, gh, lease, faults>>

(* The ticker finds the VM stopped. *)
SeeStopped(v) ==
  /\ at(v, "exec")
  /\ live(v) /\ vm[v] # "running"
  /\ goto(v, "stopped")
  /\ UNCHANGED <<env, tap, vm, gh, lease, faults>>

(* Here a cancelled exec counts as a finished one; 30 s are the limit. *)
Stopped(v) ==
  /\ at(v, "stopped")
  /\ \/ exec[v] \in {"ok", "canceled"} /\ returnGood(v)
     \/ exec[v] = "err" /\ returnWith(v, "failed")
     \/ exec[v] \in {"none", "running"} /\ returnWith(v, "failed")
     \/ ~live(v) /\ returnWith(v, ctxResult(v))
  /\ UNCHANGED <<env, tap, vm, gh, lease, faults>>

-----------------------------------------------------------------------------
(* Deferred clean-up, with contexts of its own. *)

DeleteRunner(v) ==
  /\ at(v, "delRunner")
  /\ \/ /\ runner' = [runner EXCEPT ![v] = "absent"]
        /\ run' = [run EXCEPT ![v].step = "rmLease", ![v].tries = 0]
        /\ UNCHANGED faults
     \/ /\ fault("teardown")
        /\ run' = [run EXCEPT
             ![v].step = IF run[v].tries + 1 < deleteRunnerTries THEN @ ELSE "rmLease",
             ![v].tries = IF run[v].tries + 1 < deleteRunnerTries THEN @ + 1 ELSE 0]
        /\ UNCHANGED runner
  /\ UNCHANGED <<env, tap, vm, guest, printed, lease>>

RemoveLease(v) ==
  /\ at(v, "rmLease")
  /\ \/ lease' = [lease EXCEPT ![v] = NoLease] /\ UNCHANGED faults
     \/ fault("rmLease") /\ UNCHANGED lease
  /\ goto(v, "stop")
  /\ UNCHANGED <<env, tap, vm, gh>>

StopVM(v) ==
  /\ at(v, "stop")
  /\ \/ /\ vm' = [vm EXCEPT ![v] = IF @ = "running" THEN "stopped" ELSE @]
        /\ guest' = [guest EXCEPT ![v] = "down"]
        /\ UNCHANGED faults
     \/ fault("teardown") /\ UNCHANGED <<vm, guest>>
  /\ goto(v, "delete")
  /\ UNCHANGED <<env, tap, printed, runner, lease>>

(* Mutant: one attempt only. *)
mutDeleteVM(v) ==
  /\ at(v, "delete")
  /\ \/ vm[v] # "running" /\ vm' = [vm EXCEPT ![v] = "absent"] /\ UNCHANGED faults
     \/ vm[v] = "running" /\ UNCHANGED <<vm, faults>>
     \/ fault("teardown") /\ UNCHANGED vm
  /\ goto(v, "returned")
  /\ UNCHANGED <<env, tap, gh, lease>>

(* The hypervisor does not delete a VM that runs. *)
DeleteVM(v) ==
  /\ at(v, "delete")
  /\ \/ /\ vm[v] # "running"
        /\ vm' = [vm EXCEPT ![v] = "absent"]
        /\ goto(v, "returned")
        /\ UNCHANGED faults
     \/ /\ \/ vm[v] = "running" /\ UNCHANGED faults
           \/ fault("teardown")
        /\ run' = [run EXCEPT
             ![v].step = IF run[v].tries + 1 < teardownAttempts THEN "stop" ELSE "returned",
             ![v].tries = @ + 1]
        /\ UNCHANGED vm
  /\ UNCHANGED <<env, tap, gh, lease>>

-----------------------------------------------------------------------------
(* Specification. *)

(* What Run does by itself, step by step. *)
Boot(v) == CheckDisk(v) \/ CloneStart(v) \/ CloneOk(v) \/ CloneFails(v) \/ CloneKilled(v)
             \/ WriteLease(v) \/ StartVM(v) \/ waitUntilReady(v)
             \/ SendJIT(v) \/ JITAnswered(v) \/ JITFails(v) \/ WriteLease2(v) \/ EnterJob(v)

Select(v) == JobCtxDone(v) \/ SeeForce(v) \/ SeeAbandon(v) \/ AbandonIdle(v)
               \/ ExecDone(v) \/ SeeStopped(v) \/ Stopped(v)

CleanUp(v) == DeleteRunner(v) \/ RemoveLease(v) \/ StopVM(v) \/ DeleteVM(v)

Guest(v) == GuestListens(v) \/ GitHubAssigns(v) \/ GuestExits(v) \/ GuestFails(v) \/ VMStops(v)

SpawnNext(v) ==
  \/ Begin(v) \/ Done(v) \/ Watch(v) \/ Timeout(v)
  \/ \E s \in Tells : Tell(v, s)
  \/ Boot(v) \/ Select(v) \/ Grace(v) \/ CleanUp(v)
  \/ ExecStarts(v) \/ ExecEnds(v) \/ Observe(v) \/ Notify(v)
  \/ Guest(v)

Next == Interrupt \/ \E v \in VMs : SpawnNext(v)

Spec == Init /\ [][Next]_vars

(* Calls of Run end: each has a context or a timeout of its own.  The guest, *)
(* GitHub and the job's own timers are under no fairness.                    *)
Fairness ==
  \A v \in VMs : /\ WF_vars(Boot(v)) /\ WF_vars(Select(v)) /\ WF_vars(CleanUp(v))
                 /\ WF_vars(Done(v)) /\ WF_vars(Watch(v)) /\ WF_vars(Grace(v))
                 /\ WF_vars(ExecStarts(v)) /\ WF_vars(ExecEnds(v)) /\ WF_vars(Notify(v))

FairSpec == Spec /\ Fairness

-----------------------------------------------------------------------------
(* Types. *)

Runs == [step : Steps, ctx : {"live", "canceled", "timeout"},
         pushed : SUBSET {"vm", "runner"}, seen : SUBSET Signals,
         cancelReason : {"none", "force", "pool_drain"}, result : Results,
         tries : Nat]

Leases == [kind : {"none", "torn", "lease"}, agent : Nat, aged : BOOLEAN]

(* Every variable has its type, and the retries their bound. *)
TypeOK ==
  /\ inFlight \subseteq VMs
  /\ signals \in [VMs -> SUBSET Signals]
  /\ ctxDone \in BOOLEAN
  /\ session \in Nat
  /\ run \in [VMs -> Runs]
  /\ \A v \in VMs :
       /\ at(v, "delRunner") => run[v].tries < deleteRunnerTries
       /\ run[v].step \in {"stop", "delete"} => run[v].tries < teardownAttempts
  /\ exec \in [VMs -> {"none", "running", "ok", "err", "canceled"}]
  /\ scan \in [VMs -> SUBSET Markers]
  /\ idle \subseteq VMs
  /\ vm \in [VMs -> {"absent", "stopped", "running"}]
  /\ guest \in [VMs -> {"down", "bootstrap", "listening", "job", "exited", "failed"}]
  /\ printed \in [VMs -> SUBSET Markers]
  /\ runner \in [VMs -> {"absent", "registered"}]
  /\ lease \in [VMs -> Leases]
  /\ faults \in 0..MaxFaults

-----------------------------------------------------------------------------
(* Safety. *)

over(v) == run[v].step \in Over

(* Whatever ends a spawn, and though single attempts of its clean-up fail:   *)
(* when Run returns nothing of it runs, no lease names it, and if its runner *)
(* was started the VM is gone.                                               *)
ReturnLeavesNothing ==
  \A v \in VMs : over(v) =>
    /\ vm[v] # "running"
    /\ lease[v] = NoLease
    /\ exec[v] # "none" => vm[v] = "absent"

(* The deferred calls remove the runner before they stop its VM: GitHub is   *)
(* not left with a runner to which it could give a job that dies at once.    *)
NoJobForDyingVM ==
  \A v \in VMs : run[v].step \in {"stop", "delete"} =>
    ~(guest[v] = "listening" /\ runner[v] = "registered")

(* pool.go:304 "Cancel is always intentional (shutdown, poolDrain, or        *)
(* SlotControl). Do not backoff": a spawn that only a cancel ended, without  *)
(* a failure and without a timeout, does not return an ordinary error.       *)
CancelIsNotFailure ==
  \A v \in VMs : run[v].result = "failed" => faults > 0 \/ run[v].ctx = "timeout"

(* control.go:22 "After Claimed, the spawn ignores this signal": no job is    *)
(* cancelled for AbandonIdle once the scanner has seen it.                   *)
ClaimedIgnoresAbandon ==
  [][\A v \in VMs : live(v) /\ run'[v].cancelReason = "pool_drain" /\ run'[v].ctx = "canceled"
       => "Running" \notin scan[v]]_vars

-----------------------------------------------------------------------------
(* Liveness. *)

(* Force and the agent's context end a spawn in every phase of it, a claimed *)
(* job included, though its runner never ends and no timer helps.            *)
(* AbandonIdle ends it, or a job was claimed.                                *)
TellEnds ==
  \A v \in VMs :
    /\ (v \in inFlight /\ ("force" \in signals[v] \/ ctxDone)) ~> at(v, "done")
    /\ (v \in inFlight /\ "abandon" \in signals[v]) ~> (at(v, "done") \/ "Running" \in scan[v])

(* The fill gate's signal comes while the runner waits, markers or none. *)
IdleReadyComes == \A v \in VMs : at(v, "exec") ~> (v \in idle \/ at(v, "done"))

(* If spawn_timeout and job_timeout fire, every spawn returns, though its    *)
(* guest hangs or its VM stops.                                              *)
RunReturns ==
  \A v \in VMs : WF_vars(Timeout(v)) => (v \in inFlight ~> at(v, "done"))

-----------------------------------------------------------------------------
(* Run keeps its promise to the pool.  A claim that comes between the look   *)
(* for it and the cancel (ClaimedIgnoresAbandon) is not counted as seen.      *)

doomed(v) == at(v, "abandon") \/ run[v].cancelReason = "pool_drain"

stageOf(v) ==
  CASE at(v, "unused") -> "new"
    [] run[v].result # "none" ->
         IF exec[v] # "none" \/ "runner" \in run[v].pushed THEN "ending" ELSE "over"
    [] run[v].step \in PreJob \cup {"disk"} -> "boot"
    [] OTHER -> IF "Running" \in scan[v] /\ ~doomed(v) THEN "job" ELSE "exec"

Contract == INSTANCE SpawnContract WITH
  stage <- [v \in VMs |-> stageOf(v)],
  result <- [v \in VMs |-> run[v].result]

(* Run implements SpawnContract: one idle-ready signal, and whatever races in *)
(* select, watcher and scanner, a result that fits what was told and seen.    *)
ContractSpec == Contract!Spec
=============================================================================

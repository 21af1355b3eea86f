----------------------------- MODULE SpawnProofs -----------------------------
(***************************************************************************)
(* A spawn leaves nothing behind and keeps its promise to the pool: for    *)
(* any number of spawns at once, any failures and any number of retries.   *)
(*                                                                         *)
(* First come the values that a step gives to the variables of its spawn;  *)
(* the invariants are then proved action by action from them.              *)
(***************************************************************************)
EXTENDS Spawn, TLAPS

Guests == {"down", "bootstrap", "listening", "job", "exited", "failed"}

(* TypeOK without the bounds of the retries. *)
Types ==
  /\ inFlight \subseteq VMs
  /\ signals \in [VMs -> SUBSET Signals]
  /\ ctxDone \in BOOLEAN
  /\ session \in Nat
  /\ run \in [VMs -> Runs]
  /\ exec \in [VMs -> {"none", "running", "ok", "err", "canceled"}]
  /\ scan \in [VMs -> SUBSET Markers]
  /\ idle \subseteq VMs
  /\ vm \in [VMs -> {"absent", "stopped", "running"}]
  /\ guest \in [VMs -> Guests]
  /\ printed \in [VMs -> SUBSET Markers]
  /\ runner \in [VMs -> {"absent", "registered"}]
  /\ lease \in [VMs -> Leases]
  /\ faults \in 0..MaxFaults

-----------------------------------------------------------------------------
(* The goroutine of Run. *)

OtherRuns(v) == \A w \in VMs \ {v} : run'[w] = run[w]

(* The step of v gives its goroutine these fields and leaves the others alone. *)
RunIs(v, step, ctx, pushed, seen, reason, result, tries) ==
  /\ run' \in [VMs -> Runs] /\ OtherRuns(v)
  /\ run'[v].step = step /\ run'[v].ctx = ctx /\ run'[v].pushed = pushed
  /\ run'[v].seen = seen /\ run'[v].cancelReason = reason /\ run'[v].result = result
  /\ run'[v].tries = tries

LEMMA RunFields ==
  ASSUME Types, NEW v \in VMs
  PROVE  /\ run[v] \in Runs
         /\ run[v].step \in Steps /\ run[v].ctx \in {"live", "canceled", "timeout"}
         /\ run[v].pushed \in SUBSET {"vm", "runner"} /\ run[v].seen \in SUBSET Signals
         /\ run[v].cancelReason \in {"none", "force", "pool_drain"}
         /\ run[v].result \in Results /\ run[v].tries \in Nat
  BY DEF Types, Runs

LEMMA RunSet ==
  ASSUME Types, NEW v \in VMs, NEW r \in Runs, run' = [run EXCEPT ![v] = r]
  PROVE  RunIs(v, r.step, r.ctx, r.pushed, r.seen, r.cancelReason, r.result, r.tries)
  BY DEF Types, OtherRuns, RunIs

LEMMA Goto ==
  ASSUME Types, NEW v \in VMs, NEW step \in Steps,
         goto(v, step)
  PROVE  RunIs(v, step, run[v].ctx, run[v].pushed, run[v].seen, run[v].cancelReason,
               run[v].result, run[v].tries)
<1> DEFINE r == [run[v] EXCEPT !.step = step]
<1>1. run[v] \in Runs
  BY RunFields
<1>2. r \in Runs /\ r.step = step /\ r.ctx = run[v].ctx
      /\ r.pushed = run[v].pushed /\ r.seen = run[v].seen
      /\ r.cancelReason = run[v].cancelReason /\ r.result = run[v].result
      /\ r.tries = run[v].tries
  BY <1>1 DEF Runs
<1>3. run' = [run EXCEPT ![v] = r]
  BY DEF goto
<1> HIDE DEF r
<1>4. RunIs(v, r.step, r.ctx, r.pushed, r.seen, r.cancelReason, r.result, r.tries)
  BY <1>2, <1>3, RunSet
<1> QED
  BY <1>2, <1>4

LEMMA CtxEnds ==
  ASSUME Types, NEW v \in VMs, NEW ctx \in {"live", "canceled", "timeout"},
         run' = [run EXCEPT ![v].ctx = ctx]
  PROVE  RunIs(v, run[v].step, ctx, run[v].pushed, run[v].seen, run[v].cancelReason,
               run[v].result, run[v].tries)
<1> DEFINE r == [run[v] EXCEPT !.ctx = ctx]
<1>1. run[v] \in Runs
  BY RunFields
<1>2. r \in Runs /\ r.step = run[v].step /\ r.ctx = ctx
      /\ r.pushed = run[v].pushed /\ r.seen = run[v].seen
      /\ r.cancelReason = run[v].cancelReason /\ r.result = run[v].result
      /\ r.tries = run[v].tries
  BY <1>1 DEF Runs
<1>3. run' = [run EXCEPT ![v] = r]
  OBVIOUS
<1> HIDE DEF r
<1>4. RunIs(v, r.step, r.ctx, r.pushed, r.seen, r.cancelReason, r.result, r.tries)
  BY <1>2, <1>3, RunSet
<1> QED
  BY <1>2, <1>4

LEMMA Enters ==
  ASSUME Types, NEW v \in VMs, NEW step \in Steps, NEW ctx \in {"live", "canceled", "timeout"},
         run' = [run EXCEPT ![v].step = step, ![v].ctx = ctx]
  PROVE  RunIs(v, step, ctx, run[v].pushed, run[v].seen, run[v].cancelReason,
               run[v].result, run[v].tries)
<1> DEFINE r == [run[v] EXCEPT !.step = step, !.ctx = ctx]
<1>1. run[v] \in Runs
  BY RunFields
<1>2. r \in Runs /\ r.step = step /\ r.ctx = ctx
      /\ r.pushed = run[v].pushed /\ r.seen = run[v].seen
      /\ r.cancelReason = run[v].cancelReason /\ r.result = run[v].result
      /\ r.tries = run[v].tries
  BY <1>1 DEF Runs
<1>3. run' = [run EXCEPT ![v] = r]
  OBVIOUS
<1> HIDE DEF r
<1>4. RunIs(v, r.step, r.ctx, r.pushed, r.seen, r.cancelReason, r.result, r.tries)
  BY <1>2, <1>3, RunSet
<1> QED
  BY <1>2, <1>4

LEMMA Pushes ==
  ASSUME Types, NEW v \in VMs, NEW step \in Steps, NEW pushed \in SUBSET {"vm", "runner"},
         run' = [run EXCEPT ![v].step = step, ![v].pushed = pushed]
  PROVE  RunIs(v, step, run[v].ctx, pushed, run[v].seen, run[v].cancelReason,
               run[v].result, run[v].tries)
<1> DEFINE r == [run[v] EXCEPT !.step = step, !.pushed = pushed]
<1>1. run[v] \in Runs
  BY RunFields
<1>2. r \in Runs /\ r.step = step /\ r.ctx = run[v].ctx
      /\ r.pushed = pushed /\ r.seen = run[v].seen
      /\ r.cancelReason = run[v].cancelReason /\ r.result = run[v].result
      /\ r.tries = run[v].tries
  BY <1>1 DEF Runs
<1>3. run' = [run EXCEPT ![v] = r]
  OBVIOUS
<1> HIDE DEF r
<1>4. RunIs(v, r.step, r.ctx, r.pushed, r.seen, r.cancelReason, r.result, r.tries)
  BY <1>2, <1>3, RunSet
<1> QED
  BY <1>2, <1>4

LEMMA Tries ==
  ASSUME Types, NEW v \in VMs, NEW step \in Steps, NEW tries \in Nat,
         run' = [run EXCEPT ![v].step = step, ![v].tries = tries]
  PROVE  RunIs(v, step, run[v].ctx, run[v].pushed, run[v].seen, run[v].cancelReason,
               run[v].result, tries)
<1> DEFINE r == [run[v] EXCEPT !.step = step, !.tries = tries]
<1>1. run[v] \in Runs
  BY RunFields
<1>2. r \in Runs /\ r.step = step /\ r.ctx = run[v].ctx
      /\ r.pushed = run[v].pushed /\ r.seen = run[v].seen
      /\ r.cancelReason = run[v].cancelReason /\ r.result = run[v].result
      /\ r.tries = tries
  BY <1>1 DEF Runs
<1>3. run' = [run EXCEPT ![v] = r]
  OBVIOUS
<1> HIDE DEF r
<1>4. RunIs(v, r.step, r.ctx, r.pushed, r.seen, r.cancelReason, r.result, r.tries)
  BY <1>2, <1>3, RunSet
<1> QED
  BY <1>2, <1>4

LEMMA Sees ==
  ASSUME Types, NEW v \in VMs, NEW step \in Steps, NEW seen \in SUBSET Signals,
         run' = [run EXCEPT ![v].seen = seen, ![v].step = step]
  PROVE  RunIs(v, step, run[v].ctx, run[v].pushed, seen, run[v].cancelReason,
               run[v].result, run[v].tries)
<1> DEFINE r == [run[v] EXCEPT !.seen = seen, !.step = step]
<1>1. run[v] \in Runs
  BY RunFields
<1>2. r \in Runs /\ r.step = step /\ r.ctx = run[v].ctx
      /\ r.pushed = run[v].pushed /\ r.seen = seen
      /\ r.cancelReason = run[v].cancelReason /\ r.result = run[v].result
      /\ r.tries = run[v].tries
  BY <1>1 DEF Runs
<1>3. run' = [run EXCEPT ![v] = r]
  OBVIOUS
<1> HIDE DEF r
<1>4. RunIs(v, r.step, r.ctx, r.pushed, r.seen, r.cancelReason, r.result, r.tries)
  BY <1>2, <1>3, RunSet
<1> QED
  BY <1>2, <1>4

LEMMA Forced ==
  ASSUME Types, NEW v \in VMs, NEW ctx \in {"live", "canceled", "timeout"},
         NEW seen \in SUBSET Signals,
         run' = [run EXCEPT ![v].seen = seen, ![v].cancelReason = "force", ![v].ctx = ctx]
  PROVE  RunIs(v, run[v].step, ctx, run[v].pushed, seen, "force", run[v].result,
               run[v].tries)
<1> DEFINE r == [run[v] EXCEPT !.seen = seen, !.cancelReason = "force", !.ctx = ctx]
<1>1. run[v] \in Runs
  BY RunFields
<1>2. r \in Runs /\ r.step = run[v].step /\ r.ctx = ctx
      /\ r.pushed = run[v].pushed /\ r.seen = seen
      /\ r.cancelReason = "force" /\ r.result = run[v].result
      /\ r.tries = run[v].tries
  BY <1>1 DEF Runs
<1>3. run' = [run EXCEPT ![v] = r]
  OBVIOUS
<1> HIDE DEF r
<1>4. RunIs(v, r.step, r.ctx, r.pushed, r.seen, r.cancelReason, r.result, r.tries)
  BY <1>2, <1>3, RunSet
<1> QED
  BY <1>2, <1>4

LEMMA Abandoned ==
  ASSUME Types, NEW v \in VMs, NEW ctx \in {"live", "canceled", "timeout"},
         run' = [run EXCEPT ![v].step = "exec", ![v].cancelReason = "pool_drain", ![v].ctx = ctx]
  PROVE  RunIs(v, "exec", ctx, run[v].pushed, run[v].seen, "pool_drain", run[v].result,
               run[v].tries)
<1> DEFINE r == [run[v] EXCEPT !.step = "exec", !.cancelReason = "pool_drain", !.ctx = ctx]
<1>1. run[v] \in Runs
  BY RunFields
<1>2. r \in Runs /\ r.step = "exec" /\ r.ctx = ctx
      /\ r.pushed = run[v].pushed /\ r.seen = run[v].seen
      /\ r.cancelReason = "pool_drain" /\ r.result = run[v].result
      /\ r.tries = run[v].tries
  BY <1>1 DEF Runs, Steps
<1>3. run' = [run EXCEPT ![v] = r]
  OBVIOUS
<1> HIDE DEF r
<1>4. RunIs(v, r.step, r.ctx, r.pushed, r.seen, r.cancelReason, r.result, r.tries)
  BY <1>2, <1>3, RunSet
<1> QED
  BY <1>2, <1>4

LEMMA FirstDeferred ==
  ASSUME NEW pushed
  PROVE  firstDeferred(pushed) \in Steps
  BY DEF firstDeferred, Steps

LEMMA ReturnWith ==
  ASSUME Types, NEW v \in VMs, NEW res \in Results,
         returnWith(v, res)
  PROVE  RunIs(v, firstDeferred(run[v].pushed),
               run[v].ctx, run[v].pushed, run[v].seen, run[v].cancelReason, res, run[v].tries)
<1> DEFINE first == firstDeferred(run[v].pushed)
<1>0. first \in Steps
  BY FirstDeferred
<1> DEFINE r == [run[v] EXCEPT !.result = res, !.step = first]
<1>1. run[v] \in Runs
  BY RunFields
<1> HIDE DEF first
<1>2. r \in Runs /\ r.step = first /\ r.ctx = run[v].ctx
      /\ r.pushed = run[v].pushed /\ r.seen = run[v].seen
      /\ r.cancelReason = run[v].cancelReason /\ r.result = res
      /\ r.tries = run[v].tries
  BY <1>0, <1>1 DEF Runs
<1>3. run' = [run EXCEPT ![v] = r]
  BY DEF returnWith, first
<1> HIDE DEF r
<1>4. RunIs(v, r.step, r.ctx, r.pushed, r.seen, r.cancelReason, r.result, r.tries)
  BY <1>2, <1>3, RunSet
<1> QED
  BY <1>2, <1>4 DEF first

LEMMA ReturnGood ==
  ASSUME Types, NEW v \in VMs, returnGood(v)
  PROVE  RunIs(v, firstDeferred(run[v].pushed \ {"runner"}), run[v].ctx,
               run[v].pushed \ {"runner"}, run[v].seen, run[v].cancelReason,
               IF "Running" \in scan[v] THEN "claimed" ELSE "unclaimed", run[v].tries)
<1> DEFINE first == firstDeferred(run[v].pushed \ {"runner"})
           res == IF "Running" \in scan[v] THEN "claimed" ELSE "unclaimed"
           rest == run[v].pushed \ {"runner"}
<1>0. first \in Steps /\ res \in Results /\ rest \in SUBSET {"vm", "runner"}
  BY FirstDeferred, RunFields DEF Results
<1> DEFINE r == [run[v] EXCEPT !.result = res, !.pushed = rest, !.step = first]
<1>1. run[v] \in Runs
  BY RunFields
<1> HIDE DEF first, res, rest
<1>2. r \in Runs /\ r.step = first /\ r.ctx = run[v].ctx
      /\ r.pushed = rest /\ r.seen = run[v].seen
      /\ r.cancelReason = run[v].cancelReason /\ r.result = res
      /\ r.tries = run[v].tries
  BY <1>0, <1>1 DEF Runs
<1>3. run' = [run EXCEPT ![v] = r]
  BY DEF returnGood, first, res, rest
<1> HIDE DEF r
<1>4. RunIs(v, r.step, r.ctx, r.pushed, r.seen, r.cancelReason, r.result, r.tries)
  BY <1>2, <1>3, RunSet
<1> QED
  BY <1>2, <1>4 DEF first, res, rest

-----------------------------------------------------------------------------
(* The inductive invariant. *)

Fresh      == {"unused", "disk", "clone", "cloning"}
Cloned     == {"lease", "leaseWrite", "start", "ready", "jit", "jitSent"}
WithRunner == {"lease2", "lease2Write", "enter", "delRunner"} \cup JobLoop
After      == Teardown \cup Over

(* The deferred clean-ups go with what was made, and run once there is a     *)
(* result.                                                                   *)
PushedInv(v) ==
  /\ run[v].step \in Fresh => run[v].pushed = {}
  /\ run[v].step \in Cloned => run[v].pushed = {"vm"}
  /\ run[v].step \in WithRunner => run[v].pushed = {"vm", "runner"}
  /\ run[v].step \in {"rmLease", "stop", "delete"} => "vm" \in run[v].pushed
  /\ "runner" \in run[v].pushed => "vm" \in run[v].pushed
  /\ run[v].result # "none" <=> run[v].step \in After

(* A guest that runs is one whose exec was started, and unless it ended well *)
(* its runner is still to be deleted.                                        *)
ExecInv(v) ==
  /\ exec[v] # "none" => run[v].step \in JobLoop \cup After /\ "vm" \in run[v].pushed
  /\ exec[v] = "none" => scan[v] = {} /\ guest[v] = "down"
  /\ exec[v] = "ok" => guest[v] \in {"exited", "down"}
  /\ exec[v] = "canceled" => guest[v] = "down" /\ run[v].ctx = "canceled"
  /\ guest[v] \notin {"exited", "down"} => "runner" \in run[v].pushed

(* Each attempt of a clean-up but the first follows a failure of its own.    *)
TriesInv(v) ==
  /\ run[v].step \notin {"delRunner", "stop", "delete"} \cup Over => run[v].tries = 0
  /\ at(v, "delRunner") => run[v].tries < deleteRunnerTries /\ run[v].tries <= faults
  /\ at(v, "stop") => run[v].tries < teardownAttempts /\ run[v].tries <= faults
  /\ at(v, "delete") => /\ run[v].tries < teardownAttempts /\ run[v].tries <= faults
                        /\ vm[v] = "running" => run[v].tries < faults

(* What is left once its clean-up is over took as many failures as there     *)
(* are attempts.                                                             *)
LeftInv(v) ==
  /\ "vm" \notin run[v].pushed => vm[v] # "running" /\ lease[v] = NoLease
  /\ run[v].step \in {"stop", "delete"} \cup Over /\ lease[v] # NoLease => "rmLease" \in Faults
  /\ run[v].step \in Over /\ "vm" \in run[v].pushed /\ vm[v] # "absent"
       => teardownAttempts <= faults
  /\ run[v].step \in {"rmLease", "stop", "delete"} \cup Over /\ runner[v] = "registered"
       => "runner" \notin run[v].pushed \/ deleteRunnerTries <= faults

(* A context is cancelled for a reason. *)
CancelInv(v) ==
  /\ run[v].cancelReason = "force" => "force" \in signals[v]
  /\ run[v].cancelReason = "pool_drain" \/ at(v, "abandon") => "abandon" \in signals[v]
  /\ run[v].ctx = "canceled" =>
       \/ ctxDone
       \/ "force" \in signals[v]
       \/ /\ "abandon" \in signals[v]
          /\ run[v].step \in PreJob \cup After \/ run[v].cancelReason = "pool_drain"

Inv(v) == PushedInv(v) /\ ExecInv(v) /\ TriesInv(v) /\ LeftInv(v) /\ CancelInv(v)

IInv == Types /\ \A v \in VMs : Inv(v)

-----------------------------------------------------------------------------
(* What the actions of one spawn do to its goroutine, and that they leave the *)
(* other spawns alone.                                                        *)

Moves(v, step) ==
  RunIs(v, step, run[v].ctx, run[v].pushed, run[v].seen, run[v].cancelReason,
        run[v].result, run[v].tries)

Returns(v, res) ==
  RunIs(v, firstDeferred(run[v].pushed), run[v].ctx, run[v].pushed, run[v].seen,
        run[v].cancelReason, res, run[v].tries)

ReturnsGood(v) ==
  RunIs(v, firstDeferred(run[v].pushed \ {"runner"}), run[v].ctx,
        run[v].pushed \ {"runner"}, run[v].seen, run[v].cancelReason,
        IF "Running" \in scan[v] THEN "claimed" ELSE "unclaimed", run[v].tries)

Others(v) ==
  /\ \A w \in VMs \ {v} :
       /\ run'[w] = run[w] /\ exec'[w] = exec[w] /\ scan'[w] = scan[w] /\ vm'[w] = vm[w]
       /\ guest'[w] = guest[w] /\ printed'[w] = printed[w] /\ runner'[w] = runner[w]
       /\ lease'[w] = lease[w] /\ signals'[w] = signals[w]
       /\ w \in idle' <=> w \in idle
       /\ w \in inFlight' <=> w \in inFlight
  /\ ctxDone' = ctxDone /\ session' = session
  /\ faults' \in {faults, faults + 1}

Frame(v) == Types' /\ Others(v)

LEMMA Fault ==
  ASSUME Types, NEW kind, fault(kind)
  PROVE  faults' = faults + 1 /\ faults' \in 0..MaxFaults /\ kind \in Faults
  BY SpawnAssumption DEF Types, fault

LEMMA LeaseTypes ==
  /\ NoLease \in Leases /\ TornLease \in Leases
  /\ \A n \in Nat : [kind |-> "lease", agent |-> n, aged |-> FALSE] \in Leases
  BY DEF NoLease, TornLease, Leases

LEMMA BeginDoes ==
  ASSUME Types, NEW v \in VMs, Begin(v)
  PROVE  Frame(v) /\ Moves(v, "disk")
<1>1. Moves(v, "disk")
  BY Goto DEF Begin, Moves, Steps, Results
<1>2. Frame(v)
  BY <1>1, Fault, RunFields
  DEF Frame, Types, Others, Moves, Returns, ReturnsGood, RunIs, OtherRuns, Begin, env,
      tap, gh
<1> QED
  BY <1>1, <1>2

LEMMA DoneDoes ==
  ASSUME Types, NEW v \in VMs, Done(v)
  PROVE  Frame(v) /\ (Moves(v, "done"))
<1>1. Moves(v, "done")
  BY Goto DEF Done, Moves, Steps, Results
<1>2. Frame(v)
  BY <1>1, Fault, RunFields
  DEF Frame, Types, Others, Moves, Returns, ReturnsGood, RunIs, OtherRuns, Done, env,
      tap, gh
<1> QED
  BY <1>1, <1>2

LEMMA WatchDoes ==
  ASSUME Types, NEW v \in VMs, Watch(v)
  PROVE  /\ Frame(v)
         /\ (RunIs(v, run[v].step, "canceled", run[v].pushed, run[v].seen, run[v].cancelReason,
                 run[v].result, run[v].tries))
         /\ run[v].step \in PreJob /\ signals[v] # {} /\ live(v)
         /\ UNCHANGED <<env, tap, vm, gh, lease, faults>>
<1>1. RunIs(v, run[v].step, "canceled", run[v].pushed, run[v].seen, run[v].cancelReason,
               run[v].result, run[v].tries)
  BY CtxEnds DEF Watch, Steps, Results
<1>2. Frame(v)
  BY <1>1, Fault, RunFields
  DEF Frame, Types, Others, Moves, Returns, ReturnsGood, RunIs, OtherRuns, Watch, env, tap, gh
<1>3. /\ run[v].step \in PreJob /\ signals[v] # {} /\ live(v)
      /\ UNCHANGED <<env, tap, vm, gh, lease, faults>>
  BY DEF Watch
<1> QED
  BY <1>1, <1>2, <1>3

LEMMA TimeoutDoes ==
  ASSUME Types, NEW v \in VMs, Timeout(v)
  PROVE  /\ Frame(v)
         /\ (RunIs(v, run[v].step, "timeout", run[v].pushed, run[v].seen, run[v].cancelReason,
                 run[v].result, run[v].tries))
         /\ run[v].step \in PreJob \cup JobLoop /\ live(v)
         /\ UNCHANGED <<env, tap, vm, gh, lease, faults>>
<1>1. RunIs(v, run[v].step, "timeout", run[v].pushed, run[v].seen, run[v].cancelReason,
               run[v].result, run[v].tries)
  BY CtxEnds DEF Timeout, Steps, Results
<1>2. Frame(v)
  BY <1>1, Fault, RunFields
  DEF Frame, Types, Others, Moves, Returns, ReturnsGood, RunIs, OtherRuns, Timeout,
      env, tap, gh
<1>3. /\ run[v].step \in PreJob \cup JobLoop /\ live(v)
      /\ UNCHANGED <<env, tap, vm, gh, lease, faults>>
  BY DEF Timeout
<1> QED
  BY <1>1, <1>2, <1>3

LEMMA TellDoes ==
  ASSUME Types, NEW v \in VMs, NEW x \in Tells, Tell(v, x)
  PROVE  Frame(v) /\ (run' = run)
<1>1. run' = run
  BY Goto DEF Tell, Steps, Results
<1>2. Frame(v)
  BY <1>1, SpawnAssumption
  DEF Frame, Types, Others, Moves, Returns, ReturnsGood, RunIs, OtherRuns, Tell, env, tap, gh
<1> QED
  BY <1>1, <1>2

LEMMA CheckDiskDoes ==
  ASSUME Types, NEW v \in VMs, CheckDisk(v)
  PROVE  Frame(v) /\ (Moves(v, "clone") \/ Returns(v, "failed"))
<1>1. Moves(v, "clone") \/ Returns(v, "failed")
  BY Goto, ReturnWith DEF CheckDisk, Moves, Returns, Steps, Results
<1>2. Frame(v)
  BY <1>1, Fault, RunFields
  DEF Frame, Types, Others, Moves, Returns, ReturnsGood, RunIs, OtherRuns, CheckDisk,
      env, tap, gh
<1> QED
  BY <1>1, <1>2

LEMMA CloneStartDoes ==
  ASSUME Types, NEW v \in VMs, CloneStart(v)
  PROVE  Frame(v) /\ (Moves(v, "cloning") \/ Returns(v, ctxResult(v)))
<1>1. Moves(v, "cloning") \/ Returns(v, ctxResult(v))
  BY Goto, ReturnWith DEF CloneStart, Moves, Returns, ctxResult, Steps, Results
<1>2. Frame(v)
  BY <1>1, Fault, RunFields
  DEF Frame, Types, Others, Moves, Returns, ReturnsGood, RunIs, OtherRuns, CloneStart,
      ctxResult, env, tap, gh
<1> QED
  BY <1>1, <1>2

LEMMA CloneOkDoes ==
  ASSUME Types, NEW v \in VMs, CloneOk(v)
  PROVE  /\ Frame(v)
         /\ (RunIs(v, "lease", run[v].ctx, {"vm"}, run[v].seen, run[v].cancelReason,
                 run[v].result, run[v].tries))
         /\ at(v, "cloning") /\ vm' = [vm EXCEPT ![v] = "stopped"]
         /\ UNCHANGED <<env, tap, gh, lease, faults>>
<1>1. RunIs(v, "lease", run[v].ctx, {"vm"}, run[v].seen, run[v].cancelReason,
               run[v].result, run[v].tries)
  BY Pushes DEF CloneOk, Steps, Results
<1>2. Frame(v)
  BY <1>1, Fault, RunFields
  DEF Frame, Types, Others, Moves, Returns, ReturnsGood, RunIs, OtherRuns, CloneOk,
      env, tap, gh
<1>3. /\ at(v, "cloning") /\ vm' = [vm EXCEPT ![v] = "stopped"]
      /\ UNCHANGED <<env, tap, gh, lease, faults>>
  BY DEF CloneOk
<1> QED
  BY <1>1, <1>2, <1>3

LEMMA CloneFailsDoes ==
  ASSUME Types, NEW v \in VMs, CloneFails(v)
  PROVE  Frame(v) /\ (Returns(v, "failed"))
<1>1. Returns(v, "failed")
  BY ReturnWith DEF CloneFails, Returns, Steps, Results
<1>2. Frame(v)
  BY <1>1, Fault, RunFields
  DEF Frame, Types, Others, Moves, Returns, ReturnsGood, RunIs, OtherRuns, CloneFails,
      env, tap, gh
<1> QED
  BY <1>1, <1>2

LEMMA CloneKilledDoes ==
  ASSUME Types, NEW v \in VMs, CloneKilled(v)
  PROVE  Frame(v) /\ (Returns(v, "failed") \/ Returns(v, ctxResult(v)))
<1>1. Returns(v, "failed") \/ Returns(v, ctxResult(v))
  BY ReturnWith DEF CloneKilled, Returns, ctxResult, Steps, Results
<1>2. Frame(v)
  BY <1>1, Fault, RunFields
  DEF Frame, Types, Others, Moves, Returns, ReturnsGood, RunIs, OtherRuns, CloneKilled,
      ctxResult, env, tap, gh
<1> QED
  BY <1>1, <1>2

LEMMA WriteLeaseDoes ==
  ASSUME Types, NEW v \in VMs, WriteLease(v)
  PROVE  Frame(v) /\ (Moves(v, "leaseWrite") \/ Moves(v, "start"))
<1>1. Moves(v, "leaseWrite") \/ Moves(v, "start")
  BY Goto DEF WriteLease, truncateLease, writeLease, Moves, Steps, Results
<1>2. Frame(v)
  BY <1>1, Fault, RunFields, LeaseTypes
  DEF Frame, Types, Others, Moves, Returns, ReturnsGood, RunIs, OtherRuns, WriteLease,
      truncateLease, writeLease, env, tap, gh
<1> QED
  BY <1>1, <1>2

LEMMA StartVMDoes ==
  ASSUME Types, NEW v \in VMs, StartVM(v)
  PROVE  Frame(v) /\ (Moves(v, "ready") \/ Returns(v, "failed") \/ Returns(v, ctxResult(v)))
<1>1. Moves(v, "ready") \/ Returns(v, "failed") \/ Returns(v, ctxResult(v))
  BY Goto, ReturnWith DEF StartVM, Moves, Returns, ctxResult, Steps, Results
<1>2. Frame(v)
  BY <1>1, Fault, RunFields
  DEF Frame, Types, Others, Moves, Returns, ReturnsGood, RunIs, OtherRuns, StartVM,
      ctxResult, env, tap, gh
<1> QED
  BY <1>1, <1>2

LEMMA WaitDoes ==
  ASSUME Types, NEW v \in VMs, waitUntilReady(v)
  PROVE  Frame(v) /\ (Moves(v, "jit") \/ Returns(v, "failed") \/ Returns(v, ctxResult(v)))
<1>1. Moves(v, "jit") \/ Returns(v, "failed") \/ Returns(v, ctxResult(v))
  BY Goto, ReturnWith DEF waitUntilReady, Moves, Returns, ctxResult, Steps, Results
<1>2. Frame(v)
  BY <1>1, Fault, RunFields
  DEF Frame, Types, Others, Moves, Returns, ReturnsGood, RunIs, OtherRuns,
      waitUntilReady, ctxResult, env, tap, gh
<1> QED
  BY <1>1, <1>2

LEMMA SendJITDoes ==
  ASSUME Types, NEW v \in VMs, SendJIT(v)
  PROVE  Frame(v) /\ (Moves(v, "jitSent") \/ Returns(v, ctxResult(v)))
<1>1. Moves(v, "jitSent") \/ Returns(v, ctxResult(v))
  BY Goto, ReturnWith DEF SendJIT, Moves, Returns, ctxResult, Steps, Results
<1>2. Frame(v)
  BY <1>1, Fault, RunFields
  DEF Frame, Types, Others, Moves, Returns, ReturnsGood, RunIs, OtherRuns, SendJIT,
      ctxResult, env, tap, gh
<1> QED
  BY <1>1, <1>2

LEMMA JITAnsweredDoes ==
  ASSUME Types, NEW v \in VMs, JITAnswered(v)
  PROVE  /\ Frame(v)
         /\ (RunIs(v, "lease2",
                   run[v].ctx, run[v].pushed \cup {"runner"}, run[v].seen, run[v].cancelReason,
                   run[v].result, run[v].tries))
         /\ at(v, "jitSent") /\ runner' = [runner EXCEPT ![v] = "registered"]
         /\ UNCHANGED <<env, tap, vm, guest, printed, lease, faults>>
<1>1. RunIs(v, "lease2",
            run[v].ctx, run[v].pushed \cup {"runner"}, run[v].seen, run[v].cancelReason,
            run[v].result, run[v].tries)
  BY Pushes, RunFields DEF JITAnswered, Steps, Results
<1>2. Frame(v)
  BY <1>1, Fault, RunFields
  DEF Frame, Types, Others, Moves, Returns, ReturnsGood, RunIs, OtherRuns, JITAnswered,
      env, tap, gh
<1>3. /\ at(v, "jitSent") /\ runner' = [runner EXCEPT ![v] = "registered"]
      /\ UNCHANGED <<env, tap, vm, guest, printed, lease, faults>>
  BY DEF JITAnswered
<1> QED
  BY <1>1, <1>2, <1>3

LEMMA JITFailsDoes ==
  ASSUME Types, NEW v \in VMs, JITFails(v)
  PROVE  Frame(v) /\ (Returns(v, "unauthorized") \/ Returns(v, "failed") \/ Returns(v, ctxResult(v)))
<1>1. Returns(v, "unauthorized") \/ Returns(v, "failed") \/ Returns(v, ctxResult(v))
  BY ReturnWith DEF JITFails, Returns, ctxResult, Steps, Results
<1>2. Frame(v)
  BY <1>1, Fault, RunFields
  DEF Frame, Types, Others, Moves, Returns, ReturnsGood, RunIs, OtherRuns, JITFails,
      ctxResult, env, tap, gh
<1> QED
  BY <1>1, <1>2

LEMMA WriteLease2Does ==
  ASSUME Types, NEW v \in VMs, WriteLease2(v)
  PROVE  Frame(v) /\ (Moves(v, "lease2Write") \/ Moves(v, "enter"))
<1>1. Moves(v, "lease2Write") \/ Moves(v, "enter")
  BY Goto DEF WriteLease2, truncateLease, writeLease, Moves, Steps, Results
<1>2. Frame(v)
  BY <1>1, Fault, RunFields, LeaseTypes
  DEF Frame, Types, Others, Moves, Returns, ReturnsGood, RunIs, OtherRuns, WriteLease2,
      truncateLease, writeLease, env, tap, gh
<1> QED
  BY <1>1, <1>2

LEMMA EnterJobDoes ==
  ASSUME Types, NEW v \in VMs, EnterJob(v)
  PROVE  /\ Frame(v)
         /\ (RunIs(v, "exec", IF ctxDone THEN "canceled" ELSE "live",
                   run[v].pushed, run[v].seen, run[v].cancelReason, run[v].result, run[v].tries))
         /\ at(v, "enter") /\ UNCHANGED <<env, tap, vm, gh, lease, faults>>
<1>1. RunIs(v, "exec", IF ctxDone THEN "canceled" ELSE "live",
            run[v].pushed, run[v].seen, run[v].cancelReason, run[v].result, run[v].tries)
  BY Enters DEF EnterJob, Steps, Results
<1>2. Frame(v)
  BY <1>1, Fault, RunFields
  DEF Frame, Types, Others, Moves, Returns, ReturnsGood, RunIs, OtherRuns, EnterJob,
      env, tap, gh
<1>3. /\ at(v, "enter") /\ UNCHANGED <<env, tap, vm, gh, lease, faults>>
  BY DEF EnterJob
<1> QED
  BY <1>1, <1>2, <1>3

LEMMA ExecStartsDoes ==
  ASSUME Types, NEW v \in VMs, ExecStarts(v)
  PROVE  Frame(v) /\ run' = run
  BY Fault, SpawnAssumption
  DEF Types, Frame, Others, Guests, ExecStarts, env, tap, gh

LEMMA GuestListensDoes ==
  ASSUME Types, NEW v \in VMs, GuestListens(v)
  PROVE  Frame(v) /\ run' = run
  BY Fault, SpawnAssumption
  DEF Types, Frame, Others, Guests, GuestListens, prints, env, tap, gh

LEMMA GitHubAssignsDoes ==
  ASSUME Types, NEW v \in VMs, GitHubAssigns(v)
  PROVE  Frame(v) /\ run' = run
  BY Fault, SpawnAssumption
  DEF Types, Frame, Others, Guests, GitHubAssigns, prints, env, tap, gh

LEMMA GuestExitsDoes ==
  ASSUME Types, NEW v \in VMs, GuestExits(v)
  PROVE  Frame(v) /\ run' = run
  BY Fault, SpawnAssumption
  DEF Types, Frame, Others, Guests, GuestExits, env, tap, gh

LEMMA GuestFailsDoes ==
  ASSUME Types, NEW v \in VMs, GuestFails(v)
  PROVE  Frame(v) /\ run' = run
  BY Fault, SpawnAssumption
  DEF Types, Frame, Others, Guests, GuestFails, env, tap, gh

LEMMA VMStopsDoes ==
  ASSUME Types, NEW v \in VMs, VMStops(v)
  PROVE  Frame(v) /\ run' = run
  BY Fault, SpawnAssumption
  DEF Types, Frame, Others, Guests, VMStops, env, tap, gh

LEMMA ExecEndsDoes ==
  ASSUME Types, NEW v \in VMs, ExecEnds(v)
  PROVE  Frame(v) /\ run' = run
  BY Fault, SpawnAssumption
  DEF Types, Frame, Others, Guests, ExecEnds, env, tap, gh

LEMMA ObserveDoes ==
  ASSUME Types, NEW v \in VMs, Observe(v)
  PROVE  Frame(v) /\ run' = run
  BY Fault, SpawnAssumption
  DEF Types, Frame, Others, Guests, Observe, env, tap, gh

LEMMA NotifyDoes ==
  ASSUME Types, NEW v \in VMs, Notify(v)
  PROVE  Frame(v) /\ run' = run
  BY Fault, SpawnAssumption
  DEF Types, Frame, Others, Guests, Notify, env, tap, gh

LEMMA GraceDoes ==
  ASSUME Types, NEW v \in VMs, Grace(v)
  PROVE  Frame(v) /\ run' = run
  BY Fault, SpawnAssumption
  DEF Types, Frame, Others, Guests, Grace, env, tap, gh

LEMMA JobCtxDoneDoes ==
  ASSUME Types, NEW v \in VMs, JobCtxDone(v)
  PROVE  Frame(v) /\ (Returns(v, ctxResult(v)))
<1>1. Returns(v, ctxResult(v))
  BY ReturnWith DEF JobCtxDone, Returns, ctxResult, Steps, Results
<1>2. Frame(v)
  BY <1>1, Fault, RunFields
  DEF Frame, Types, Others, Moves, Returns, ReturnsGood, RunIs, OtherRuns, JobCtxDone,
      ctxResult, env, tap, gh
<1> QED
  BY <1>1, <1>2

LEMMA SeeForceDoes ==
  ASSUME Types, NEW v \in VMs, SeeForce(v)
  PROVE  /\ Frame(v)
         /\ (RunIs(v, run[v].step, cancelled(v), run[v].pushed, run[v].seen \cup {"force"}, "force",
                 run[v].result, run[v].tries))
         /\ at(v, "exec") /\ "force" \in signals[v]
         /\ UNCHANGED <<env, tap, vm, gh, lease, faults>>
<1>1. RunIs(v, run[v].step, cancelled(v), run[v].pushed, run[v].seen \cup {"force"}, "force",
               run[v].result, run[v].tries)
  BY Forced, RunFields DEF SeeForce, cancelled, Signals, Steps, Results
<1>2. Frame(v)
  BY <1>1, Fault, RunFields
  DEF Frame, Types, Others, Moves, Returns, ReturnsGood, RunIs, OtherRuns, SeeForce,
      cancelled, Signals, env, tap, gh
<1>3. /\ at(v, "exec") /\ "force" \in signals[v]
      /\ UNCHANGED <<env, tap, vm, gh, lease, faults>>
  BY DEF SeeForce
<1> QED
  BY <1>1, <1>2, <1>3

LEMMA SeeAbandonDoes ==
  ASSUME Types, NEW v \in VMs, SeeAbandon(v)
  PROVE  /\ Frame(v)
         /\ (RunIs(v, IF "Running" \in scan[v] THEN run[v].step ELSE "abandon",
                   run[v].ctx, run[v].pushed, run[v].seen \cup {"abandon"}, run[v].cancelReason,
                   run[v].result, run[v].tries))
         /\ at(v, "exec") /\ "abandon" \in signals[v]
         /\ UNCHANGED <<env, tap, vm, gh, lease, faults>>
<1>1. RunIs(v, IF "Running" \in scan[v] THEN run[v].step ELSE "abandon",
            run[v].ctx, run[v].pushed, run[v].seen \cup {"abandon"}, run[v].cancelReason,
            run[v].result, run[v].tries)
  BY Sees, RunFields DEF SeeAbandon, Signals, Steps, Results
<1>2. Frame(v)
  BY <1>1, Fault, RunFields
  DEF Frame, Types, Others, Moves, Returns, ReturnsGood, RunIs, OtherRuns, SeeAbandon,
      Signals, env, tap, gh
<1>3. /\ at(v, "exec") /\ "abandon" \in signals[v]
      /\ UNCHANGED <<env, tap, vm, gh, lease, faults>>
  BY DEF SeeAbandon
<1> QED
  BY <1>1, <1>2, <1>3

LEMMA AbandonIdleDoes ==
  ASSUME Types, NEW v \in VMs, AbandonIdle(v)
  PROVE  /\ Frame(v)
         /\ (RunIs(v, "exec", cancelled(v), run[v].pushed, run[v].seen, "pool_drain",
                 run[v].result, run[v].tries))
         /\ at(v, "abandon") /\ UNCHANGED <<env, tap, vm, gh, lease, faults>>
<1>1. RunIs(v, "exec", cancelled(v), run[v].pushed, run[v].seen, "pool_drain",
               run[v].result, run[v].tries)
  BY Abandoned, RunFields DEF AbandonIdle, cancelled, Steps, Results
<1>2. Frame(v)
  BY <1>1, Fault, RunFields
  DEF Frame, Types, Others, Moves, Returns, ReturnsGood, RunIs, OtherRuns, AbandonIdle,
      cancelled, env, tap, gh
<1>3. /\ at(v, "abandon") /\ UNCHANGED <<env, tap, vm, gh, lease, faults>>
  BY DEF AbandonIdle
<1> QED
  BY <1>1, <1>2, <1>3

LEMMA ExecDoneDoes ==
  ASSUME Types, NEW v \in VMs, ExecDone(v)
  PROVE  Frame(v) /\ ((exec[v] = "ok" /\ ReturnsGood(v)) \/ Returns(v, "failed")
            \/ (exec[v] = "canceled" /\ Returns(v, "canceled")))
<1>1. (exec[v] = "ok" /\ ReturnsGood(v)) \/ Returns(v, "failed")
            \/ (exec[v] = "canceled" /\ Returns(v, "canceled"))
  BY ReturnWith, ReturnGood DEF ExecDone, Returns, ReturnsGood, Steps, Results
<1>2. Frame(v)
  BY <1>1, Fault, RunFields
  DEF Frame, Types, Others, Moves, Returns, ReturnsGood, RunIs, OtherRuns, ExecDone,
      env, tap, gh
<1> QED
  BY <1>1, <1>2

LEMMA SeeStoppedDoes ==
  ASSUME Types, NEW v \in VMs, SeeStopped(v)
  PROVE  Frame(v) /\ (Moves(v, "stopped"))
<1>1. Moves(v, "stopped")
  BY Goto DEF SeeStopped, Moves, Steps, Results
<1>2. Frame(v)
  BY <1>1, Fault, RunFields
  DEF Frame, Types, Others, Moves, Returns, ReturnsGood, RunIs, OtherRuns, SeeStopped,
      env, tap, gh
<1> QED
  BY <1>1, <1>2

LEMMA StoppedDoes ==
  ASSUME Types, NEW v \in VMs, Stopped(v)
  PROVE  Frame(v) /\ ((exec[v] \in {"ok", "canceled"} /\ ReturnsGood(v))
                      \/ Returns(v, "failed") \/ Returns(v, ctxResult(v)))
<1>1. (exec[v] \in {"ok", "canceled"} /\ ReturnsGood(v))
      \/ Returns(v, "failed") \/ Returns(v, ctxResult(v))
  BY ReturnWith, ReturnGood DEF Stopped, Returns, ReturnsGood, ctxResult, Steps, Results
<1>2. Frame(v)
  BY <1>1, Fault, RunFields
  DEF Frame, Types, Others, Moves, Returns, ReturnsGood, RunIs, OtherRuns, Stopped,
      ctxResult, env, tap, gh
<1> QED
  BY <1>1, <1>2

LEMMA DeleteRunnerDoes ==
  ASSUME Types, NEW v \in VMs, DeleteRunner(v)
  PROVE  /\ Frame(v)
         /\ at(v, "delRunner") /\ UNCHANGED <<env, tap, vm, guest, printed, lease>>
         /\ \/ /\ runner'[v] = "absent" \/ (faults' = faults + 1 /\ runner' = runner
                                            /\ run[v].tries + 1 >= deleteRunnerTries)
               /\ RunIs(v, "rmLease", run[v].ctx, run[v].pushed, run[v].seen,
                        run[v].cancelReason, run[v].result, 0)
            \/ /\ faults' = faults + 1 /\ run[v].tries + 1 < deleteRunnerTries /\ runner' = runner
               /\ RunIs(v, "delRunner", run[v].ctx, run[v].pushed, run[v].seen,
                        run[v].cancelReason, run[v].result, run[v].tries + 1)
<1> DEFINE tries == run[v].tries + 1
<1>1. tries \in Nat /\ 0 \in Nat
  BY RunFields
<1>2. \/ /\ runner' = [runner EXCEPT ![v] = "absent"]
         /\ run' = [run EXCEPT ![v].step = "rmLease", ![v].tries = 0]
         /\ UNCHANGED faults
      \/ /\ fault("teardown") /\ tries < deleteRunnerTries /\ UNCHANGED runner
         /\ run' = [run EXCEPT ![v].step = "delRunner", ![v].tries = tries]
      \/ /\ fault("teardown") /\ ~(tries < deleteRunnerTries) /\ UNCHANGED runner
         /\ run' = [run EXCEPT ![v].step = "rmLease", ![v].tries = 0]
  BY DEF DeleteRunner, at
<1>3. at(v, "delRunner") /\ UNCHANGED <<env, tap, vm, guest, printed, lease>>
  BY DEF DeleteRunner
<1> HIDE DEF tries
<1>4. ASSUME run' = [run EXCEPT ![v].step = "rmLease", ![v].tries = 0]
      PROVE  RunIs(v, "rmLease", run[v].ctx, run[v].pushed, run[v].seen,
                   run[v].cancelReason, run[v].result, 0)
  BY <1>1, <1>4, Tries DEF Steps
<1>5. ASSUME run' = [run EXCEPT ![v].step = "delRunner", ![v].tries = tries]
      PROVE  RunIs(v, "delRunner", run[v].ctx, run[v].pushed, run[v].seen,
                   run[v].cancelReason, run[v].result, tries)
  BY <1>1, <1>5, Tries DEF Steps
<1>6. run' \in [VMs -> Runs] /\ OtherRuns(v)
  BY <1>2, <1>4, <1>5 DEF RunIs
<1>7. Frame(v)
  BY <1>2, <1>3, <1>6, Fault DEF Frame, Types, Others, OtherRuns, env, tap
<1> QED
  BY <1>1, <1>2, <1>3, <1>4, <1>5, <1>7, Fault, SpawnAssumption DEF Types, tries

LEMMA RemoveLeaseDoes ==
  ASSUME Types, NEW v \in VMs, RemoveLease(v)
  PROVE  Frame(v) /\ (Moves(v, "stop"))
<1>1. Moves(v, "stop")
  BY Goto DEF RemoveLease, Moves, Steps, Results
<1>2. Frame(v)
  BY <1>1, Fault, RunFields, LeaseTypes
  DEF Frame, Types, Others, Moves, Returns, ReturnsGood, RunIs, OtherRuns, RemoveLease,
      env, tap, gh
<1> QED
  BY <1>1, <1>2

LEMMA StopVMDoes ==
  ASSUME Types, NEW v \in VMs, StopVM(v)
  PROVE  Frame(v) /\ (Moves(v, "delete"))
<1>1. Moves(v, "delete")
  BY Goto DEF StopVM, Moves, Steps, Results
<1>2. Frame(v)
  BY <1>1, Fault, RunFields
  DEF Frame, Types, Others, Moves, Returns, ReturnsGood, RunIs, OtherRuns, Guests,
      StopVM, env, tap, gh
<1> QED
  BY <1>1, <1>2

LEMMA DeleteVMDoes ==
  ASSUME Types, NEW v \in VMs, DeleteVM(v)
  PROVE  /\ Frame(v)
         /\ at(v, "delete") /\ UNCHANGED <<env, tap, gh, lease>>
         /\ \/ vm[v] # "running" /\ vm'[v] = "absent" /\ Moves(v, "returned")
            \/ /\ vm' = vm /\ (vm[v] = "running" \/ faults' = faults + 1)
               /\ RunIs(v, IF run[v].tries + 1 < teardownAttempts THEN "stop" ELSE "returned",
                        run[v].ctx, run[v].pushed, run[v].seen, run[v].cancelReason,
                        run[v].result, run[v].tries + 1)
<1> DEFINE step == IF run[v].tries + 1 < teardownAttempts THEN "stop" ELSE "returned"
           tries == run[v].tries + 1
<1>1. step \in Steps /\ tries \in Nat
  BY RunFields DEF Steps
<1>2. \/ /\ vm[v] # "running" /\ vm' = [vm EXCEPT ![v] = "absent"] /\ goto(v, "returned")
         /\ UNCHANGED faults
      \/ /\ (vm[v] = "running" /\ UNCHANGED faults) \/ fault("teardown")
         /\ vm' = vm
         /\ run' = [run EXCEPT ![v].step = step, ![v].tries = tries]
  BY DEF DeleteVM
<1>3. at(v, "delete") /\ UNCHANGED <<env, tap, gh, lease>>
  BY DEF DeleteVM
<1> HIDE DEF step, tries
<1>4. ASSUME goto(v, "returned") PROVE Moves(v, "returned")
  BY <1>4, Goto DEF Moves, Steps
<1>5. ASSUME run' = [run EXCEPT ![v].step = step, ![v].tries = tries]
      PROVE  RunIs(v, step, run[v].ctx, run[v].pushed, run[v].seen,
                   run[v].cancelReason, run[v].result, tries)
  BY <1>1, <1>5, Tries
<1>6. run' \in [VMs -> Runs] /\ OtherRuns(v)
  BY <1>2, <1>4, <1>5 DEF RunIs, Moves
<1>7. Frame(v)
  BY <1>2, <1>3, <1>6, Fault DEF Frame, Types, Others, OtherRuns, env, tap, gh
<1> QED
  BY <1>2, <1>3, <1>4, <1>5, <1>7, Fault DEF Types, step, tries

-----------------------------------------------------------------------------
(* Each action keeps the invariant of its spawn. *)

LEMMA StepFrame ==
  ASSUME Types, NEW v \in VMs, SpawnNext(v)
  PROVE  Frame(v)
<1>1. CASE Begin(v) \/ Done(v) \/ Watch(v) \/ Timeout(v) \/ (\E x \in Tells : Tell(v, x))
  BY <1>1, BeginDoes, DoneDoes, WatchDoes, TimeoutDoes, TellDoes
<1>2. CASE Boot(v)
  BY <1>2, CheckDiskDoes, CloneStartDoes, CloneOkDoes, CloneFailsDoes, CloneKilledDoes,
     WriteLeaseDoes, StartVMDoes, WaitDoes, SendJITDoes, JITAnsweredDoes, JITFailsDoes,
     WriteLease2Does, EnterJobDoes DEF Boot
<1>3. CASE Select(v)
  BY <1>3, JobCtxDoneDoes, SeeForceDoes, SeeAbandonDoes, AbandonIdleDoes, ExecDoneDoes,
     SeeStoppedDoes, StoppedDoes DEF Select
<1>4. CASE CleanUp(v)
  BY <1>4, DeleteRunnerDoes, RemoveLeaseDoes, StopVMDoes, DeleteVMDoes DEF CleanUp
<1>5. CASE Guest(v)
  BY <1>5, GuestListensDoes, GitHubAssignsDoes, GuestExitsDoes, GuestFailsDoes,
     VMStopsDoes DEF Guest
<1>6. CASE ExecStarts(v) \/ ExecEnds(v) \/ Observe(v) \/ Notify(v) \/ Grace(v)
  BY <1>6, ExecStartsDoes, ExecEndsDoes, ObserveDoes, NotifyDoes, GraceDoes
<1> QED
  BY <1>1, <1>2, <1>3, <1>4, <1>5, <1>6 DEF SpawnNext

LEMMA PushedKept ==
  ASSUME Types, NEW v \in VMs, Inv(v), SpawnNext(v)
  PROVE  PushedInv(v)'
<1> USE RunFields, Fault, SpawnAssumption
    DEF Inv, PushedInv, Frame, Others, Types, RunIs, Moves, Returns, ReturnsGood,
        firstDeferred,
        at, live, cancelled, env, tap, gh, Fresh, Cloned, WithRunner, After, Teardown, Over,
        JobLoop, PreJob
<1>1. CASE Begin(v)
  BY <1>1, BeginDoes DEF Begin
<1>2. CASE Done(v)
  BY <1>2, DoneDoes DEF Done
<1>3. CASE Watch(v)
  BY <1>3, WatchDoes
<1>4. CASE Timeout(v)
  BY <1>4, TimeoutDoes
<1>5. CASE \E x \in Tells : Tell(v, x)
  BY <1>5, TellDoes DEF Tell
<1>6. CASE CheckDisk(v)
  BY <1>6, CheckDiskDoes DEF CheckDisk
<1>7. CASE CloneStart(v)
  BY <1>7, CloneStartDoes DEF CloneStart, ctxResult
<1>8. CASE CloneOk(v)
  BY <1>8, CloneOkDoes
<1>9. CASE CloneFails(v)
  BY <1>9, CloneFailsDoes DEF CloneFails
<1>10. CASE CloneKilled(v)
  BY <1>10, CloneKilledDoes DEF CloneKilled, ctxResult
<1>11. CASE WriteLease(v)
  BY <1>11, WriteLeaseDoes DEF WriteLease, truncateLease, writeLease
<1>12. CASE StartVM(v)
  BY <1>12, StartVMDoes DEF StartVM, ctxResult
<1>13. CASE waitUntilReady(v)
  BY <1>13, WaitDoes DEF waitUntilReady, ctxResult
<1>14. CASE SendJIT(v)
  BY <1>14, SendJITDoes DEF SendJIT, ctxResult
<1>15. CASE JITAnswered(v)
  BY <1>15, JITAnsweredDoes
<1>16. CASE JITFails(v)
  BY <1>16, JITFailsDoes DEF JITFails, ctxResult
<1>17. CASE WriteLease2(v)
  BY <1>17, WriteLease2Does DEF WriteLease2, truncateLease, writeLease
<1>18. CASE EnterJob(v)
  BY <1>18, EnterJobDoes
<1>19. CASE JobCtxDone(v)
  BY <1>19, JobCtxDoneDoes DEF JobCtxDone, ctxResult
<1>20. CASE SeeForce(v)
  BY <1>20, SeeForceDoes
<1>21. CASE SeeAbandon(v)
  BY <1>21, SeeAbandonDoes
<1>22. CASE AbandonIdle(v)
  BY <1>22, AbandonIdleDoes
<1>23. CASE ExecDone(v)
  BY <1>23, ExecDoneDoes DEF ExecDone
<1>24. CASE SeeStopped(v)
  BY <1>24, SeeStoppedDoes DEF SeeStopped
<1>25. CASE Stopped(v)
  BY <1>25, StoppedDoes DEF Stopped, ctxResult
<1>26. CASE DeleteRunner(v)
  BY <1>26, DeleteRunnerDoes
<1>27. CASE RemoveLease(v)
  BY <1>27, RemoveLeaseDoes DEF RemoveLease
<1>28. CASE StopVM(v)
  BY <1>28, StopVMDoes DEF StopVM
<1>29. CASE DeleteVM(v)
  BY <1>29, DeleteVMDoes
<1>30. CASE GuestListens(v)
  BY <1>30, GuestListensDoes DEF GuestListens
<1>31. CASE GitHubAssigns(v)
  BY <1>31, GitHubAssignsDoes DEF GitHubAssigns
<1>32. CASE GuestExits(v)
  BY <1>32, GuestExitsDoes DEF GuestExits
<1>33. CASE GuestFails(v)
  BY <1>33, GuestFailsDoes DEF GuestFails
<1>34. CASE VMStops(v)
  BY <1>34, VMStopsDoes DEF VMStops
<1>35. CASE ExecStarts(v)
  BY <1>35, ExecStartsDoes DEF ExecStarts
<1>36. CASE ExecEnds(v)
  BY <1>36, ExecEndsDoes DEF ExecEnds
<1>37. CASE Observe(v)
  BY <1>37, ObserveDoes DEF Observe
<1>38. CASE Notify(v)
  BY <1>38, NotifyDoes DEF Notify
<1>39. CASE Grace(v)
  BY <1>39, GraceDoes DEF Grace
<1> QED
  BY <1>1, <1>2, <1>3, <1>4, <1>5, <1>6, <1>7, <1>8, <1>9, <1>10, <1>11, <1>12, <1>13,
     <1>14, <1>15, <1>16, <1>17, <1>18, <1>19, <1>20, <1>21, <1>22, <1>23, <1>24, <1>25,
     <1>26, <1>27, <1>28, <1>29, <1>30, <1>31, <1>32, <1>33, <1>34, <1>35, <1>36, <1>37,
     <1>38, <1>39
  DEF SpawnNext, Boot, Select, CleanUp, Guest

LEMMA ExecKept ==
  ASSUME Types, NEW v \in VMs, Inv(v), SpawnNext(v)
  PROVE  ExecInv(v)'
<1> USE RunFields, Fault, SpawnAssumption
    DEF Inv, PushedInv, ExecInv, Frame, Others, Types, RunIs, Moves, Returns,
        ReturnsGood, firstDeferred,
        at, live, cancelled, env, tap, gh, Fresh, Cloned, WithRunner, After, Teardown, Over,
        JobLoop, PreJob
<1>1. CASE Begin(v)
  BY <1>1, BeginDoes DEF Begin
<1>2. CASE Done(v)
  BY <1>2, DoneDoes DEF Done
<1>3. CASE Watch(v)
  BY <1>3, WatchDoes
<1>4. CASE Timeout(v)
  BY <1>4, TimeoutDoes
<1>5. CASE \E x \in Tells : Tell(v, x)
  BY <1>5, TellDoes DEF Tell
<1>6. CASE CheckDisk(v)
  BY <1>6, CheckDiskDoes DEF CheckDisk
<1>7. CASE CloneStart(v)
  BY <1>7, CloneStartDoes DEF CloneStart, ctxResult
<1>8. CASE CloneOk(v)
  BY <1>8, CloneOkDoes
<1>9. CASE CloneFails(v)
  BY <1>9, CloneFailsDoes DEF CloneFails
<1>10. CASE CloneKilled(v)
  BY <1>10, CloneKilledDoes DEF CloneKilled, ctxResult
<1>11. CASE WriteLease(v)
  BY <1>11, WriteLeaseDoes DEF WriteLease, truncateLease, writeLease
<1>12. CASE StartVM(v)
  BY <1>12, StartVMDoes DEF StartVM, ctxResult
<1>13. CASE waitUntilReady(v)
  BY <1>13, WaitDoes DEF waitUntilReady, ctxResult
<1>14. CASE SendJIT(v)
  BY <1>14, SendJITDoes DEF SendJIT, ctxResult
<1>15. CASE JITAnswered(v)
  BY <1>15, JITAnsweredDoes
<1>16. CASE JITFails(v)
  BY <1>16, JITFailsDoes DEF JITFails, ctxResult
<1>17. CASE WriteLease2(v)
  BY <1>17, WriteLease2Does DEF WriteLease2, truncateLease, writeLease
<1>18. CASE EnterJob(v)
  BY <1>18, EnterJobDoes
<1>19. CASE JobCtxDone(v)
  BY <1>19, JobCtxDoneDoes DEF JobCtxDone, ctxResult
<1>20. CASE SeeForce(v)
  BY <1>20, SeeForceDoes
<1>21. CASE SeeAbandon(v)
  BY <1>21, SeeAbandonDoes
<1>22. CASE AbandonIdle(v)
  BY <1>22, AbandonIdleDoes
<1>23. CASE ExecDone(v)
  BY <1>23, ExecDoneDoes DEF ExecDone
<1>24. CASE SeeStopped(v)
  BY <1>24, SeeStoppedDoes DEF SeeStopped
<1>25. CASE Stopped(v)
  BY <1>25, StoppedDoes DEF Stopped, ctxResult
<1>26. CASE DeleteRunner(v)
  BY <1>26, DeleteRunnerDoes
<1>27. CASE RemoveLease(v)
  BY <1>27, RemoveLeaseDoes DEF RemoveLease
<1>28. CASE StopVM(v)
  BY <1>28, StopVMDoes DEF StopVM
<1>29. CASE DeleteVM(v)
  BY <1>29, DeleteVMDoes
<1>30. CASE GuestListens(v)
  BY <1>30, GuestListensDoes DEF GuestListens
<1>31. CASE GitHubAssigns(v)
  BY <1>31, GitHubAssignsDoes DEF GitHubAssigns
<1>32. CASE GuestExits(v)
  BY <1>32, GuestExitsDoes DEF GuestExits
<1>33. CASE GuestFails(v)
  BY <1>33, GuestFailsDoes DEF GuestFails
<1>34. CASE VMStops(v)
  BY <1>34, VMStopsDoes DEF VMStops
<1>35. CASE ExecStarts(v)
  BY <1>35, ExecStartsDoes DEF ExecStarts
<1>36. CASE ExecEnds(v)
  BY <1>36, ExecEndsDoes DEF ExecEnds
<1>37. CASE Observe(v)
  BY <1>37, ObserveDoes DEF Observe
<1>38. CASE Notify(v)
  BY <1>38, NotifyDoes DEF Notify
<1>39. CASE Grace(v)
  BY <1>39, GraceDoes DEF Grace
<1> QED
  BY <1>1, <1>2, <1>3, <1>4, <1>5, <1>6, <1>7, <1>8, <1>9, <1>10, <1>11, <1>12, <1>13,
     <1>14, <1>15, <1>16, <1>17, <1>18, <1>19, <1>20, <1>21, <1>22, <1>23, <1>24, <1>25,
     <1>26, <1>27, <1>28, <1>29, <1>30, <1>31, <1>32, <1>33, <1>34, <1>35, <1>36, <1>37,
     <1>38, <1>39
  DEF SpawnNext, Boot, Select, CleanUp, Guest

LEMMA TriesKept ==
  ASSUME Types, NEW v \in VMs, Inv(v), SpawnNext(v)
  PROVE  TriesInv(v)'
<1> USE RunFields, Fault, SpawnAssumption
    DEF Inv, PushedInv, TriesInv, Frame, Others, Types, RunIs, Moves, Returns,
        ReturnsGood, firstDeferred,
        at, live, cancelled, env, tap, gh, Fresh, Cloned, WithRunner, After, Teardown, Over,
        JobLoop, PreJob
<1>1. CASE Begin(v)
  BY <1>1, BeginDoes DEF Begin
<1>2. CASE Done(v)
  BY <1>2, DoneDoes DEF Done
<1>3. CASE Watch(v)
  BY <1>3, WatchDoes
<1>4. CASE Timeout(v)
  BY <1>4, TimeoutDoes
<1>5. CASE \E x \in Tells : Tell(v, x)
  BY <1>5, TellDoes DEF Tell
<1>6. CASE CheckDisk(v)
  BY <1>6, CheckDiskDoes DEF CheckDisk
<1>7. CASE CloneStart(v)
  BY <1>7, CloneStartDoes DEF CloneStart, ctxResult
<1>8. CASE CloneOk(v)
  BY <1>8, CloneOkDoes
<1>9. CASE CloneFails(v)
  BY <1>9, CloneFailsDoes DEF CloneFails
<1>10. CASE CloneKilled(v)
  BY <1>10, CloneKilledDoes DEF CloneKilled, ctxResult
<1>11. CASE WriteLease(v)
  BY <1>11, WriteLeaseDoes DEF WriteLease, truncateLease, writeLease
<1>12. CASE StartVM(v)
  BY <1>12, StartVMDoes DEF StartVM, ctxResult
<1>13. CASE waitUntilReady(v)
  BY <1>13, WaitDoes DEF waitUntilReady, ctxResult
<1>14. CASE SendJIT(v)
  BY <1>14, SendJITDoes DEF SendJIT, ctxResult
<1>15. CASE JITAnswered(v)
  BY <1>15, JITAnsweredDoes
<1>16. CASE JITFails(v)
  BY <1>16, JITFailsDoes DEF JITFails, ctxResult
<1>17. CASE WriteLease2(v)
  BY <1>17, WriteLease2Does DEF WriteLease2, truncateLease, writeLease
<1>18. CASE EnterJob(v)
  BY <1>18, EnterJobDoes
<1>19. CASE JobCtxDone(v)
  BY <1>19, JobCtxDoneDoes DEF JobCtxDone, ctxResult
<1>20. CASE SeeForce(v)
  BY <1>20, SeeForceDoes
<1>21. CASE SeeAbandon(v)
  BY <1>21, SeeAbandonDoes
<1>22. CASE AbandonIdle(v)
  BY <1>22, AbandonIdleDoes
<1>23. CASE ExecDone(v)
  BY <1>23, ExecDoneDoes DEF ExecDone
<1>24. CASE SeeStopped(v)
  BY <1>24, SeeStoppedDoes DEF SeeStopped
<1>25. CASE Stopped(v)
  BY <1>25, StoppedDoes DEF Stopped, ctxResult
<1>26. CASE DeleteRunner(v)
  BY <1>26, DeleteRunnerDoes
<1>27. CASE RemoveLease(v)
  BY <1>27, RemoveLeaseDoes DEF RemoveLease
<1>28. CASE StopVM(v)
  BY <1>28, StopVMDoes DEF StopVM
<1>29. CASE DeleteVM(v)
  BY <1>29, DeleteVMDoes
<1>30. CASE GuestListens(v)
  BY <1>30, GuestListensDoes DEF GuestListens
<1>31. CASE GitHubAssigns(v)
  BY <1>31, GitHubAssignsDoes DEF GitHubAssigns
<1>32. CASE GuestExits(v)
  BY <1>32, GuestExitsDoes DEF GuestExits
<1>33. CASE GuestFails(v)
  BY <1>33, GuestFailsDoes DEF GuestFails
<1>34. CASE VMStops(v)
  BY <1>34, VMStopsDoes DEF VMStops
<1>35. CASE ExecStarts(v)
  BY <1>35, ExecStartsDoes DEF ExecStarts
<1>36. CASE ExecEnds(v)
  BY <1>36, ExecEndsDoes DEF ExecEnds
<1>37. CASE Observe(v)
  BY <1>37, ObserveDoes DEF Observe
<1>38. CASE Notify(v)
  BY <1>38, NotifyDoes DEF Notify
<1>39. CASE Grace(v)
  BY <1>39, GraceDoes DEF Grace
<1> QED
  BY <1>1, <1>2, <1>3, <1>4, <1>5, <1>6, <1>7, <1>8, <1>9, <1>10, <1>11, <1>12, <1>13,
     <1>14, <1>15, <1>16, <1>17, <1>18, <1>19, <1>20, <1>21, <1>22, <1>23, <1>24, <1>25,
     <1>26, <1>27, <1>28, <1>29, <1>30, <1>31, <1>32, <1>33, <1>34, <1>35, <1>36, <1>37,
     <1>38, <1>39
  DEF SpawnNext, Boot, Select, CleanUp, Guest

LEMMA LeftKept ==
  ASSUME Types, NEW v \in VMs, Inv(v), SpawnNext(v)
  PROVE  LeftInv(v)'
<1> USE RunFields, Fault, SpawnAssumption
    DEF Inv, PushedInv, LeftInv, Frame, Others, Types, RunIs, Moves, Returns,
        ReturnsGood, firstDeferred,
        at, live, cancelled, env, tap, gh, Fresh, Cloned, WithRunner, After, Teardown, Over,
        JobLoop, PreJob
<1>1. CASE Begin(v)
  BY <1>1, BeginDoes DEF Begin
<1>2. CASE Done(v)
  BY <1>2, DoneDoes DEF Done
<1>3. CASE Watch(v)
  BY <1>3, WatchDoes
<1>4. CASE Timeout(v)
  BY <1>4, TimeoutDoes
<1>5. CASE \E x \in Tells : Tell(v, x)
  BY <1>5, TellDoes DEF Tell
<1>6. CASE CheckDisk(v)
  BY <1>6, CheckDiskDoes DEF CheckDisk
<1>7. CASE CloneStart(v)
  BY <1>7, CloneStartDoes DEF CloneStart, ctxResult
<1>8. CASE CloneOk(v)
  BY <1>8, CloneOkDoes
<1>9. CASE CloneFails(v)
  BY <1>9, CloneFailsDoes DEF CloneFails
<1>10. CASE CloneKilled(v)
  BY <1>10, CloneKilledDoes DEF CloneKilled, ctxResult
<1>11. CASE WriteLease(v)
  BY <1>11, WriteLeaseDoes DEF WriteLease, truncateLease, writeLease
<1>12. CASE StartVM(v)
  BY <1>12, StartVMDoes DEF StartVM, ctxResult
<1>13. CASE waitUntilReady(v)
  BY <1>13, WaitDoes DEF waitUntilReady, ctxResult
<1>14. CASE SendJIT(v)
  BY <1>14, SendJITDoes DEF SendJIT, ctxResult
<1>15. CASE JITAnswered(v)
  BY <1>15, JITAnsweredDoes
<1>16. CASE JITFails(v)
  BY <1>16, JITFailsDoes DEF JITFails, ctxResult
<1>17. CASE WriteLease2(v)
  BY <1>17, WriteLease2Does DEF WriteLease2, truncateLease, writeLease
<1>18. CASE EnterJob(v)
  BY <1>18, EnterJobDoes
<1>19. CASE JobCtxDone(v)
  BY <1>19, JobCtxDoneDoes DEF JobCtxDone, ctxResult
<1>20. CASE SeeForce(v)
  BY <1>20, SeeForceDoes
<1>21. CASE SeeAbandon(v)
  BY <1>21, SeeAbandonDoes
<1>22. CASE AbandonIdle(v)
  BY <1>22, AbandonIdleDoes
<1>23. CASE ExecDone(v)
  BY <1>23, ExecDoneDoes DEF ExecDone
<1>24. CASE SeeStopped(v)
  BY <1>24, SeeStoppedDoes DEF SeeStopped
<1>25. CASE Stopped(v)
  BY <1>25, StoppedDoes DEF Stopped, ctxResult
<1>26. CASE DeleteRunner(v)
  BY <1>26, DeleteRunnerDoes DEF TriesInv
<1>27. CASE RemoveLease(v)
  BY <1>27, RemoveLeaseDoes DEF RemoveLease
<1>28. CASE StopVM(v)
  BY <1>28, StopVMDoes DEF StopVM
<1>29. CASE DeleteVM(v)
  BY <1>29, DeleteVMDoes DEF TriesInv
<1>30. CASE GuestListens(v)
  BY <1>30, GuestListensDoes DEF GuestListens
<1>31. CASE GitHubAssigns(v)
  BY <1>31, GitHubAssignsDoes DEF GitHubAssigns
<1>32. CASE GuestExits(v)
  BY <1>32, GuestExitsDoes DEF GuestExits
<1>33. CASE GuestFails(v)
  BY <1>33, GuestFailsDoes DEF GuestFails
<1>34. CASE VMStops(v)
  BY <1>34, VMStopsDoes DEF VMStops
<1>35. CASE ExecStarts(v)
  BY <1>35, ExecStartsDoes DEF ExecStarts
<1>36. CASE ExecEnds(v)
  BY <1>36, ExecEndsDoes DEF ExecEnds
<1>37. CASE Observe(v)
  BY <1>37, ObserveDoes DEF Observe
<1>38. CASE Notify(v)
  BY <1>38, NotifyDoes DEF Notify
<1>39. CASE Grace(v)
  BY <1>39, GraceDoes DEF Grace
<1> QED
  BY <1>1, <1>2, <1>3, <1>4, <1>5, <1>6, <1>7, <1>8, <1>9, <1>10, <1>11, <1>12, <1>13,
     <1>14, <1>15, <1>16, <1>17, <1>18, <1>19, <1>20, <1>21, <1>22, <1>23, <1>24, <1>25,
     <1>26, <1>27, <1>28, <1>29, <1>30, <1>31, <1>32, <1>33, <1>34, <1>35, <1>36, <1>37,
     <1>38, <1>39
  DEF SpawnNext, Boot, Select, CleanUp, Guest

LEMMA CancelKept ==
  ASSUME Types, NEW v \in VMs, Inv(v), SpawnNext(v)
  PROVE  CancelInv(v)'
<1> USE RunFields, Fault, SpawnAssumption
    DEF Inv, PushedInv, CancelInv, Frame, Others, Types, RunIs, Moves, Returns,
        ReturnsGood, firstDeferred,
        at, live, cancelled, env, tap, gh, Fresh, Cloned, WithRunner, After, Teardown, Over,
        JobLoop, PreJob
<1>1. CASE Begin(v)
  BY <1>1, BeginDoes DEF Begin, Signals
<1>2. CASE Done(v)
  BY <1>2, DoneDoes DEF Done, Signals
<1>3. CASE Watch(v)
  BY <1>3, WatchDoes DEF Signals
<1>4. CASE Timeout(v)
  BY <1>4, TimeoutDoes DEF Signals
<1>5. CASE \E x \in Tells : Tell(v, x)
  BY <1>5, TellDoes DEF Tell, Signals
<1>6. CASE CheckDisk(v)
  BY <1>6, CheckDiskDoes DEF CheckDisk, Signals
<1>7. CASE CloneStart(v)
  BY <1>7, CloneStartDoes DEF CloneStart, ctxResult, Signals
<1>8. CASE CloneOk(v)
  BY <1>8, CloneOkDoes DEF Signals
<1>9. CASE CloneFails(v)
  BY <1>9, CloneFailsDoes DEF CloneFails, Signals
<1>10. CASE CloneKilled(v)
  BY <1>10, CloneKilledDoes DEF CloneKilled, ctxResult, Signals
<1>11. CASE WriteLease(v)
  BY <1>11, WriteLeaseDoes DEF WriteLease, truncateLease, writeLease, Signals
<1>12. CASE StartVM(v)
  BY <1>12, StartVMDoes DEF StartVM, ctxResult, Signals
<1>13. CASE waitUntilReady(v)
  BY <1>13, WaitDoes DEF waitUntilReady, ctxResult, Signals
<1>14. CASE SendJIT(v)
  BY <1>14, SendJITDoes DEF SendJIT, ctxResult, Signals
<1>15. CASE JITAnswered(v)
  BY <1>15, JITAnsweredDoes DEF Signals
<1>16. CASE JITFails(v)
  BY <1>16, JITFailsDoes DEF JITFails, ctxResult, Signals
<1>17. CASE WriteLease2(v)
  BY <1>17, WriteLease2Does DEF WriteLease2, truncateLease, writeLease, Signals
<1>18. CASE EnterJob(v)
  BY <1>18, EnterJobDoes DEF Signals
<1>19. CASE JobCtxDone(v)
  BY <1>19, JobCtxDoneDoes DEF JobCtxDone, ctxResult, Signals
<1>20. CASE SeeForce(v)
  BY <1>20, SeeForceDoes DEF Signals
<1>21. CASE SeeAbandon(v)
  BY <1>21, SeeAbandonDoes DEF Signals
<1>22. CASE AbandonIdle(v)
  BY <1>22, AbandonIdleDoes DEF Signals
<1>23. CASE ExecDone(v)
  BY <1>23, ExecDoneDoes DEF ExecDone, Signals
<1>24. CASE SeeStopped(v)
  BY <1>24, SeeStoppedDoes DEF SeeStopped, Signals
<1>25. CASE Stopped(v)
  BY <1>25, StoppedDoes DEF Stopped, ctxResult, Signals
<1>26. CASE DeleteRunner(v)
  BY <1>26, DeleteRunnerDoes DEF Signals
<1>27. CASE RemoveLease(v)
  BY <1>27, RemoveLeaseDoes DEF RemoveLease, Signals
<1>28. CASE StopVM(v)
  BY <1>28, StopVMDoes DEF StopVM, Signals
<1>29. CASE DeleteVM(v)
  BY <1>29, DeleteVMDoes DEF Signals
<1>30. CASE GuestListens(v)
  BY <1>30, GuestListensDoes DEF GuestListens, Signals
<1>31. CASE GitHubAssigns(v)
  BY <1>31, GitHubAssignsDoes DEF GitHubAssigns, Signals
<1>32. CASE GuestExits(v)
  BY <1>32, GuestExitsDoes DEF GuestExits, Signals
<1>33. CASE GuestFails(v)
  BY <1>33, GuestFailsDoes DEF GuestFails, Signals
<1>34. CASE VMStops(v)
  BY <1>34, VMStopsDoes DEF VMStops, Signals
<1>35. CASE ExecStarts(v)
  BY <1>35, ExecStartsDoes DEF ExecStarts, Signals
<1>36. CASE ExecEnds(v)
  BY <1>36, ExecEndsDoes DEF ExecEnds, Signals
<1>37. CASE Observe(v)
  BY <1>37, ObserveDoes DEF Observe, Signals
<1>38. CASE Notify(v)
  BY <1>38, NotifyDoes DEF Notify, Signals
<1>39. CASE Grace(v)
  BY <1>39, GraceDoes DEF Grace, Signals
<1> QED
  BY <1>1, <1>2, <1>3, <1>4, <1>5, <1>6, <1>7, <1>8, <1>9, <1>10, <1>11, <1>12, <1>13,
     <1>14, <1>15, <1>16, <1>17, <1>18, <1>19, <1>20, <1>21, <1>22, <1>23, <1>24, <1>25,
     <1>26, <1>27, <1>28, <1>29, <1>30, <1>31, <1>32, <1>33, <1>34, <1>35, <1>36, <1>37,
     <1>38, <1>39
  DEF SpawnNext, Boot, Select, CleanUp, Guest

-----------------------------------------------------------------------------
(* The invariant. *)

LEMMA InvInit == Init => IInv
<1> SUFFICES ASSUME Init PROVE IInv
  OBVIOUS
<1>1. Types
  <2>1. NewRun \in Runs
    BY DEF NewRun, Runs, Steps, Results
  <2>2. run \in [VMs -> Runs] /\ lease \in [VMs -> Leases] /\ faults \in 0..MaxFaults
    BY <2>1, LeaseTypes, SpawnAssumption DEF Init
  <2> QED
    BY <2>2 DEF Init, Types, Guests
<1>2. ASSUME NEW v \in VMs PROVE Inv(v)
  <2>1. /\ run[v].step = "unused" /\ run[v].ctx = "live" /\ run[v].pushed = {}
        /\ run[v].cancelReason = "none" /\ run[v].result = "none" /\ run[v].tries = 0
    BY DEF Init, NewRun
  <2> QED
    BY <2>1
    DEF Init, Inv, PushedInv, ExecInv, TriesInv, LeftInv, CancelInv, at, Fresh, Cloned,
        WithRunner, After, Teardown, Over, JobLoop
<1> QED
  BY <1>1, <1>2 DEF IInv

(* A step of one spawn leaves the invariant of another alone. *)
LEMMA OthersKept ==
  ASSUME Types, NEW v \in VMs, Others(v), NEW w \in VMs \ {v}, Inv(w)
  PROVE  Inv(w)'
<1>1. faults <= faults'
  BY DEF Types, Others
<1>2. /\ run'[w] = run[w] /\ exec'[w] = exec[w] /\ scan'[w] = scan[w] /\ vm'[w] = vm[w]
      /\ guest'[w] = guest[w] /\ runner'[w] = runner[w] /\ lease'[w] = lease[w]
      /\ signals'[w] = signals[w] /\ ctxDone' = ctxDone /\ run[w].tries \in Nat
  BY RunFields DEF Others
<1>3. PushedInv(w)'
  BY <1>2 DEF Inv, PushedInv
<1>4. ExecInv(w)'
  BY <1>2 DEF Inv, ExecInv
<1>5. TriesInv(w)'
  BY <1>1, <1>2, SpawnAssumption DEF Inv, TriesInv, Types, Others, at
<1>6. LeftInv(w)'
  BY <1>1, <1>2, SpawnAssumption DEF Inv, LeftInv, Types, Others
<1>7. CancelInv(w)'
  BY <1>2 DEF Inv, CancelInv, at
<1> QED
  BY <1>3, <1>4, <1>5, <1>6, <1>7 DEF Inv

(* The agent's context ends, and with it those of the spawns. *)
LEMMA InterruptDoes ==
  ASSUME Types, Interrupt, NEW v \in VMs
  PROVE  /\ Types' /\ ctxDone' = TRUE /\ UNCHANGED <<tap, vm, gh, lease, faults, signals, idle>>
         /\ run'[v].step = run[v].step /\ run'[v].pushed = run[v].pushed
         /\ run'[v].seen = run[v].seen /\ run'[v].cancelReason = run[v].cancelReason
         /\ run'[v].result = run[v].result /\ run'[v].tries = run[v].tries
         /\ run'[v].ctx = IF run[v].ctx = "live" THEN "canceled" ELSE run[v].ctx
<1> DEFINE r(w) == IF run[w].ctx = "live" THEN [run[w] EXCEPT !.ctx = "canceled"] ELSE run[w]
<1>1. ASSUME NEW w \in VMs
      PROVE  /\ r(w) \in Runs
             /\ r(w).step = run[w].step /\ r(w).pushed = run[w].pushed
             /\ r(w).seen = run[w].seen /\ r(w).cancelReason = run[w].cancelReason
             /\ r(w).result = run[w].result /\ r(w).tries = run[w].tries
             /\ r(w).ctx = IF run[w].ctx = "live" THEN "canceled" ELSE run[w].ctx
  <2>1. run[w] \in Runs
    BY RunFields
  <2> QED
    BY <2>1 DEF Runs
<1>2. run' = [w \in VMs |-> r(w)]
  BY DEF Interrupt, live
<1> HIDE DEF r
<1>3. run' \in [VMs -> Runs] /\ run'[v] = r(v)
  BY <1>1, <1>2
<1>4. Types'
  BY <1>3 DEF Interrupt, Types, tap, gh
<1> QED
  BY <1>1, <1>3, <1>4 DEF Interrupt, tap

LEMMA InterruptTypes ==
  ASSUME Types, Interrupt
  PROVE  Types'
<1>1. ASSUME NEW v \in VMs
      PROVE  (IF live(v) THEN [run[v] EXCEPT !.ctx = "canceled"] ELSE run[v]) \in Runs
  <2>1. run[v] \in Runs
    BY RunFields
  <2> QED
    BY <2>1 DEF Runs
<1>2. run' \in [VMs -> Runs]
  BY <1>1 DEF Interrupt
<1> QED
  BY <1>2 DEF Interrupt, Types, tap, gh

LEMMA InterruptKept ==
  ASSUME Types, Interrupt, NEW v \in VMs, Inv(v)
  PROVE  Inv(v)'
<1>1. /\ run'[v].step = run[v].step /\ run'[v].pushed = run[v].pushed
      /\ run'[v].cancelReason = run[v].cancelReason
      /\ run'[v].result = run[v].result /\ run'[v].tries = run[v].tries
      /\ run[v].ctx = "canceled" => run'[v].ctx = "canceled"
      /\ ctxDone' = TRUE /\ UNCHANGED <<exec, scan, vm, guest, runner, lease, faults, signals>>
  BY InterruptDoes DEF tap, gh
<1>2. PushedInv(v)' /\ ExecInv(v)'
  BY <1>1 DEF Inv, PushedInv, ExecInv
<1>3. TriesInv(v)' /\ LeftInv(v)'
  BY <1>1 DEF Inv, TriesInv, LeftInv, at
<1>4. CancelInv(v)'
  BY <1>1 DEF Inv, CancelInv, at
<1> QED
  BY <1>2, <1>3, <1>4 DEF Inv

LEMMA InvNext == IInv /\ [Next]_vars => IInv'
<1> SUFFICES ASSUME IInv, [Next]_vars PROVE IInv'
  OBVIOUS
<1>1. Types /\ \A v \in VMs : Inv(v)
  BY DEF IInv
<1>2. ASSUME NEW v \in VMs, SpawnNext(v) PROVE IInv'
  <2>1. Inv(v)'
    BY <1>1, <1>2, PushedKept, ExecKept, TriesKept, LeftKept, CancelKept DEF Inv
  <2>2. Frame(v)
    BY <1>1, <1>2, StepFrame
  <2>3. \A w \in VMs \ {v} : Inv(w)'
    BY <1>1, <2>2, OthersKept DEF Frame
  <2> QED
    BY <2>1, <2>2, <2>3 DEF IInv, Frame
<1>3. CASE Interrupt
  <2>1. \A v \in VMs : Inv(v)'
    BY <1>1, <1>3, InterruptKept
  <2> QED
    BY <1>1, <1>3, <2>1, InterruptTypes DEF IInv
<1>4. CASE UNCHANGED vars
  BY <1>1, <1>4
  DEF IInv, vars, env, tap, gh, Types, Inv, PushedInv, ExecInv, TriesInv, LeftInv,
      CancelInv, at
<1> QED
  BY <1>2, <1>3, <1>4 DEF Next

(* For any number of spawns in flight at once, whatever fails in them and    *)
(* wherever they are cancelled.                                              *)
THEOREM Invariance == Spec => []IInv
<1> QED
  BY InvInit, InvNext, PTL DEF Spec

(* The types of the variables, and the bounds of the retries. *)
THEOREM TypeCorrect == Spec => []TypeOK
<1>1. IInv => TypeOK
  BY DEF IInv, Types, TypeOK, Guests, Inv, TriesInv, at
<1> QED
  BY <1>1, Invariance, PTL

-----------------------------------------------------------------------------
(* What a spawn leaves behind. *)

(* If the clean-up has more attempts than there are failures, and the lease  *)
(* can be removed: when Run returns its VM does not run, no lease names it,  *)
(* and a VM whose runner was started is gone.                                *)
THEOREM NothingLeft ==
  ASSUME MaxFaults < teardownAttempts, "rmLease" \notin Faults
  PROVE  Spec => []ReturnLeavesNothing
<1>1. ASSUME IInv, NEW v \in VMs, over(v)
      PROVE  /\ vm[v] # "running" /\ lease[v] = NoLease
             /\ exec[v] # "none" => vm[v] = "absent"
  <2>1. Inv(v) /\ faults \in 0..MaxFaults
    BY <1>1 DEF IInv, Types
  <2>2. ~(teardownAttempts <= faults)
    BY <2>1, SpawnAssumption
  <2> QED
    BY <1>1, <2>1, <2>2 DEF Inv, ExecInv, LeftInv, over
<1>2. IInv => ReturnLeavesNothing
  BY <1>1 DEF ReturnLeavesNothing
<1> QED
  BY <1>2, Invariance, PTL

(* If the runner's removal has more attempts than there are failures: no     *)
(* runner that listens is registered while its VM is stopped and deleted.    *)
THEOREM NoLateJob ==
  ASSUME MaxFaults < deleteRunnerTries
  PROVE  Spec => []NoJobForDyingVM
<1>1. ASSUME IInv, NEW v \in VMs, run[v].step \in {"stop", "delete"}
      PROVE  ~(guest[v] = "listening" /\ runner[v] = "registered")
  <2>1. Inv(v) /\ faults \in 0..MaxFaults
    BY <1>1 DEF IInv, Types
  <2>2. ~(deleteRunnerTries <= faults)
    BY <2>1, SpawnAssumption
  <2> QED
    BY <1>1, <2>1, <2>2 DEF Inv, ExecInv, LeftInv
<1>2. IInv => NoJobForDyingVM
  BY <1>1 DEF NoJobForDyingVM
<1> QED
  BY <1>2, Invariance, PTL

-----------------------------------------------------------------------------
(* The refinement.  First what a step of a spawn is to its contract.         *)

Kept(v) == run'[v].result = run[v].result /\ UNCHANGED <<idle, signals>>

Stays(v) == stageOf(v)' = stageOf(v) /\ Kept(v)

Turns(v, from, to) == stageOf(v) = from /\ stageOf(v)' = to /\ Kept(v)

Ready(v) ==
  /\ stageOf(v) \in {"exec", "job", "ending"} /\ stageOf(v)' = stageOf(v)
  /\ v \notin idle /\ idle' = idle \cup {v}
  /\ run'[v].result = run[v].result /\ UNCHANGED signals

Ends(v, res) ==
  /\ stageOf(v) \in {"boot", "exec", "job"}
  /\ stageOf(v)' = IF stageOf(v) = "boot" THEN "over" ELSE "ending"
  /\ run'[v].result = res /\ UNCHANGED <<idle, signals>>
  /\ res = "canceled" => \/ ctxDone
                         \/ "force" \in signals[v]
                         \/ "abandon" \in signals[v] /\ stageOf(v) # "job"
  /\ res = "unauthorized" => stageOf(v) = "boot"
  /\ res = "unclaimed" => stageOf(v) = "exec"
  /\ res = "claimed" => stageOf(v) \in {"exec", "job"}

Finals == {"claimed", "unclaimed", "canceled", "failed", "unauthorized"}

StepOf(v) ==
  \/ Stays(v) \/ Turns(v, "new", "boot") \/ Turns(v, "boot", "exec") \/ Turns(v, "exec", "job")
  \/ Ready(v)
  \/ \E res \in Finals : Ends(v, res)

LEMMA StepStage ==
  ASSUME Types, NEW v \in VMs, Inv(v), SpawnNext(v), \A x \in Tells : ~Tell(v, x)
  PROVE  StepOf(v)
<1> USE RunFields
    DEF StepOf, Stays, Turns, Kept, Ready, Ends, Finals, stageOf, doomed, Inv,
        PushedInv, ExecInv,
        CancelInv, Types, RunIs, Moves, Returns, ReturnsGood, firstDeferred, ctxResult, at, live,
        cancelled, env, tap, gh, Fresh, Cloned, WithRunner, After, Teardown, Over, JobLoop,
        PreJob, Signals
<1>1. CASE Begin(v)
  BY <1>1, BeginDoes DEF Begin
<1>2. CASE Done(v)
  BY <1>2, DoneDoes DEF Done
<1>3. CASE Watch(v)
  BY <1>3, WatchDoes
<1>4. CASE Timeout(v)
  BY <1>4, TimeoutDoes
<1>5. CASE CheckDisk(v)
  BY <1>5, CheckDiskDoes DEF CheckDisk
<1>6. CASE CloneStart(v)
  BY <1>6, CloneStartDoes DEF CloneStart, ctxResult
<1>7. CASE CloneOk(v)
  BY <1>7, CloneOkDoes
<1>8. CASE CloneFails(v)
  BY <1>8, CloneFailsDoes DEF CloneFails
<1>9. CASE CloneKilled(v)
  BY <1>9, CloneKilledDoes DEF CloneKilled, ctxResult
<1>10. CASE WriteLease(v)
  BY <1>10, WriteLeaseDoes DEF WriteLease, truncateLease, writeLease
<1>11. CASE StartVM(v)
  BY <1>11, StartVMDoes DEF StartVM, ctxResult
<1>12. CASE waitUntilReady(v)
  BY <1>12, WaitDoes DEF waitUntilReady, ctxResult
<1>13. CASE SendJIT(v)
  BY <1>13, SendJITDoes DEF SendJIT, ctxResult
<1>14. CASE JITAnswered(v)
  BY <1>14, JITAnsweredDoes
<1>15. CASE JITFails(v)
  BY <1>15, JITFailsDoes DEF JITFails, ctxResult
<1>16. CASE WriteLease2(v)
  BY <1>16, WriteLease2Does DEF WriteLease2, truncateLease, writeLease
<1>17. CASE EnterJob(v)
  BY <1>17, EnterJobDoes
<1>18. CASE JobCtxDone(v)
  BY <1>18, JobCtxDoneDoes DEF JobCtxDone, ctxResult
<1>19. CASE SeeForce(v)
  BY <1>19, SeeForceDoes
<1>20. CASE SeeAbandon(v)
  BY <1>20, SeeAbandonDoes
<1>21. CASE AbandonIdle(v)
  BY <1>21, AbandonIdleDoes
<1>22. CASE ExecDone(v)
  BY <1>22, ExecDoneDoes DEF ExecDone
<1>23. CASE SeeStopped(v)
  BY <1>23, SeeStoppedDoes DEF SeeStopped
<1>24. CASE Stopped(v)
  BY <1>24, StoppedDoes DEF Stopped, ctxResult
<1>25. CASE DeleteRunner(v)
  BY <1>25, DeleteRunnerDoes
<1>26. CASE RemoveLease(v)
  BY <1>26, RemoveLeaseDoes DEF RemoveLease
<1>27. CASE StopVM(v)
  BY <1>27, StopVMDoes DEF StopVM
<1>28. CASE DeleteVM(v)
  BY <1>28, DeleteVMDoes
<1>29. CASE GuestListens(v)
  BY <1>29, GuestListensDoes DEF GuestListens
<1>30. CASE GitHubAssigns(v)
  BY <1>30, GitHubAssignsDoes DEF GitHubAssigns
<1>31. CASE GuestExits(v)
  BY <1>31, GuestExitsDoes DEF GuestExits
<1>32. CASE GuestFails(v)
  BY <1>32, GuestFailsDoes DEF GuestFails
<1>33. CASE VMStops(v)
  BY <1>33, VMStopsDoes DEF VMStops
<1>34. CASE ExecStarts(v)
  BY <1>34, ExecStartsDoes DEF ExecStarts
<1>35. CASE ExecEnds(v)
  BY <1>35, ExecEndsDoes DEF ExecEnds
<1>36. CASE Observe(v)
  BY <1>36, ObserveDoes DEF Observe
<1>37. CASE Notify(v)
  BY <1>37, NotifyDoes DEF Notify
<1>38. CASE Grace(v)
  BY <1>38, GraceDoes DEF Grace
<1> QED
  BY <1>1, <1>2, <1>3, <1>4, <1>5, <1>6, <1>7, <1>8, <1>9, <1>10, <1>11, <1>12, <1>13,
     <1>14, <1>15, <1>16, <1>17, <1>18, <1>19, <1>20, <1>21, <1>22, <1>23, <1>24, <1>25,
     <1>26, <1>27, <1>28, <1>29, <1>30, <1>31, <1>32, <1>33, <1>34, <1>35, <1>36, <1>37,
     <1>38
  DEF SpawnNext, Boot, Select, CleanUp, Guest

(* The variables of the contract. *)
stages == [v \in VMs |-> stageOf(v)]
results == [v \in VMs |-> run[v].result]

LEMMA OthersStay ==
  ASSUME NEW v \in VMs, Others(v), NEW w \in VMs \ {v}
  PROVE  stageOf(w)' = stageOf(w) /\ run'[w].result = run[w].result
<1>1. run'[w] = run[w] /\ exec'[w] = exec[w] /\ scan'[w] = scan[w]
  BY DEF Others
<1> QED
  BY <1>1 DEF stageOf, doomed, at

LEMMA StagesMove ==
  ASSUME NEW v \in VMs, Others(v)
  PROVE  /\ stages' = [stages EXCEPT ![v] = stageOf(v)']
         /\ results' = [results EXCEPT ![v] = run'[v].result]
<1>1. stages' = [w \in VMs |-> stageOf(w)'] /\ results' = [w \in VMs |-> run'[w].result]
  BY DEF stages, results
<1>2. \A w \in VMs \ {v} : stageOf(w)' = stageOf(w) /\ run'[w].result = run[w].result
  BY OthersStay
<1> QED
  BY <1>1, <1>2 DEF stages, results

Mapped == <<stages, results, idle, signals, ctxDone>>

LEMMA TellMaps ==
  ASSUME Types, NEW v \in VMs, NEW x \in Tells, Tell(v, x)
  PROVE  Contract!Next
<1>1. stages' = stages /\ results' = results
  BY DEF Tell, tap, stages, results, stageOf, doomed, at
<1>2. Contract!Tell(v, x)
  BY <1>1 DEF Tell, tap, Contract!Tell, stages, results
<1> QED
  BY <1>2, SpawnAssumption DEF Contract!Next, Signals

LEMMA InterruptMaps ==
  ASSUME Types, Interrupt
  PROVE  Contract!Next
<1>1. \A v \in VMs : stageOf(v)' = stageOf(v) /\ run'[v].result = run[v].result
  BY InterruptDoes DEF stageOf, doomed, at, tap
<1>2. stages' = stages /\ results' = results
  BY <1>1 DEF stages, results
<1>3. Contract!Interrupt
  BY <1>2 DEF Interrupt, tap, Contract!Interrupt, stages, results
<1> QED
  BY <1>3 DEF Contract!Next

LEMMA StepMaps ==
  ASSUME Types, NEW v \in VMs, Inv(v), SpawnNext(v), \A x \in Tells : ~Tell(v, x)
  PROVE  [Contract!Next]_Mapped
<1>1. Others(v) /\ ctxDone' = ctxDone
  BY StepFrame DEF Frame, Others
<1>2. /\ stages' = [stages EXCEPT ![v] = stageOf(v)']
      /\ results' = [results EXCEPT ![v] = run'[v].result]
      /\ stages[v] = stageOf(v) /\ results[v] = run[v].result
  BY <1>1, StagesMove DEF stages, results
<1>3. Kept(v) => results' = results
  BY <1>2 DEF Kept, results
<1>4. CASE Stays(v)
  <2>1. stages' = stages
    BY <1>2, <1>4 DEF Stays, stages
  <2> QED
    BY <1>1, <1>3, <1>4, <2>1 DEF Stays, Kept, Mapped
<1>5. CASE Turns(v, "new", "boot")
  <2>1. Contract!Begin(v)
    BY <1>1, <1>2, <1>3, <1>5 DEF Turns, Kept, Contract!Begin, Contract!Move, stages, results
  <2> QED
    BY <2>1 DEF Contract!Next
<1>6. CASE Turns(v, "boot", "exec")
  <2>1. Contract!Exec(v)
    BY <1>1, <1>2, <1>3, <1>6 DEF Turns, Kept, Contract!Exec, Contract!Move, stages, results
  <2> QED
    BY <2>1 DEF Contract!Next
<1>7. CASE Turns(v, "exec", "job")
  <2>1. Contract!Claim(v)
    BY <1>1, <1>2, <1>3, <1>7 DEF Turns, Kept, Contract!Claim, Contract!Move, stages, results
  <2> QED
    BY <2>1 DEF Contract!Next
<1>8. CASE Ready(v)
  <2>1. stages' = stages /\ results' = results
    BY <1>2, <1>8 DEF Ready, stages, results
  <2>2. Contract!IdleReady(v)
    BY <1>1, <1>8, <2>1 DEF Ready, Contract!IdleReady, stages, results
  <2> QED
    BY <2>2 DEF Contract!Next
<1>9. CASE \E res \in Finals : Ends(v, res)
  <2>1. PICK res \in Finals : Ends(v, res)
    BY <1>9
  <2>2. Contract!mayReturn(v, res)
    BY <2>1 DEF Ends, Finals, Contract!mayReturn
  <2>3. Contract!Return(v, res)
    BY <1>1, <1>2, <2>1, <2>2 DEF Ends, Contract!Return, stages, results
  <2> QED
    BY <2>1, <2>3 DEF Contract!Next, Contract!Results, Finals
<1> QED
  BY <1>4, <1>5, <1>6, <1>7, <1>8, <1>9, StepStage DEF StepOf

LEMMA MapsInit == Init => Contract!Init
<1> SUFFICES ASSUME Init PROVE Contract!Init
  OBVIOUS
<1>1. \A v \in VMs : at(v, "unused") /\ run[v].result = "none"
  BY DEF Init, NewRun, at
<1>2. \A v \in VMs : stageOf(v) = "new"
  BY <1>1 DEF stageOf, PreJob, at
<1> QED
  BY <1>1, <1>2 DEF Init, Contract!Init

LEMMA MapsNext ==
  ASSUME IInv, [Next]_vars
  PROVE  [Contract!Next]_Mapped
<1>1. Types /\ \A v \in VMs : Inv(v)
  BY DEF IInv
<1>2. CASE Interrupt
  BY <1>1, <1>2, InterruptMaps
<1>3. ASSUME NEW v \in VMs, SpawnNext(v) PROVE [Contract!Next]_Mapped
  BY <1>1, <1>3, TellMaps, StepMaps
<1>4. CASE UNCHANGED vars
  BY <1>4 DEF vars, env, tap, Mapped, stages, results, stageOf, doomed, at
<1> QED
  BY <1>2, <1>3, <1>4 DEF Next

(* What Run does is what the pool counts on: onIdleReady at most once and    *)
(* only with a runner, and a result that fits what was told and seen.        *)
THEOREM SpawnImplementsContract == Spec => ContractSpec
<1>1. IInv /\ [Next]_vars => [Contract!Next]_Mapped
  BY MapsNext
<1> QED
  BY <1>1, MapsInit, Invariance, PTL
  DEF Spec, ContractSpec, Contract!Spec, Contract!vars, Mapped, stages, results
=============================================================================

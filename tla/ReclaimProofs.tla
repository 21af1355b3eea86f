---------------------------- MODULE ReclaimProofs ----------------------------
(***************************************************************************)
(* What reclaim and purge take away and what they spare: for any number of *)
(* virtual machines, sessions, crashes and failures, under each policy.    *)
(*                                                                         *)
(* The loop and the spawns move at the same time.  So the proof has three  *)
(* parts: what a step of a spawn cannot undo (Irreversible), what a step of *)
(* the loop takes away (Takes) and how it changes its locals (RecIs), and  *)
(* from these the invariants of the loop, action by action.                *)
(***************************************************************************)
EXTENDS Reclaim, SpawnProofs

RecTypes == Types /\ policy \in Policies /\ rec \in Recs

-----------------------------------------------------------------------------
(* The life of one VM, its spawn and its lease, across crashes. *)

NotStarted    == Fresh \cup {"lease", "leaseWrite", "start"}
NotRegistered == NotStarted \cup {"ready", "jit", "jitSent"}

(* How far a spawn came is seen at the hypervisor, at GitHub and in the      *)
(* guest; a VM that does not run has no guest.                               *)
LifeInv(v) ==
  /\ vm[v] # "absent" => run[v].step \notin Fresh
  /\ vm[v] = "running" => run[v].step \notin NotStarted
  /\ vm[v] # "running" => guest[v] = "down"
  /\ runner[v] = "registered" => run[v].step \notin NotRegistered
  /\ run[v].step \in Fresh \cup PreJob => guest[v] = "down"
  /\ v \in inFlight <=> run[v].step \notin {"unused", "done"}
  /\ run[v].step \in Teardown \cup {"returned"} => run[v].result # "none"
  /\ at(v, "done") /\ exec[v] = "none" => run[v].result # "none"

(* A lease of an earlier session is of a spawn that is over.                 *)
AgentInv(v) ==
  /\ lease[v] # NoLease => run[v].step \notin Fresh
  /\ lease[v].kind = "lease" => lease[v].agent <= session
  /\ lease[v].kind = "lease" /\ lease[v].agent # session => at(v, "done")

(* The guest has a job or may be given one, and no spawn has given it up.    *)
working(v) ==
  /\ guest[v] \in {"bootstrap", "listening", "job"}
  /\ runner[v] = "registered" /\ run[v].result = "none"

(* If leases can be written, a VM has its own before it may get a job.       *)
HasLease(v) ==
  /\ run[v].step \in {"enter"} \cup JobLoop /\ vm[v] # "absent" => lease[v].kind = "lease"
  /\ working(v) => lease[v].kind = "lease"

-----------------------------------------------------------------------------
(* The loop. *)

Listing    == {"idle", "snapshot", "listRunners", "listVMs", "leases"}
VMSteps    == {"vms", "stopVM", "deleteVM", "dropLease"}
PurgeSteps == Purging \ {"wait"}

(* No spawn is under way while the agent is down or purges. *)
QuietInv ==
  rec.step \in PurgeSteps \cup {"dead"} => \A v \in VMs : run[v].step \in {"unused", "done"}

(* There is at most one VM at hand, and it is none of those to come; what    *)
(* was listed is past its clone, so that it is not made again once deleted.  *)
ListInv ==
  /\ rec.hard => policy = "hard"
  /\ \A v \in rec.cur, w \in rec.cur : v = w
  /\ rec.step \in Listing => rec.todo = {} /\ rec.cur = {}
  /\ loopAt("vms") => rec.cur = {}
  /\ rec.step \in VMSteps => rec.todo \cap rec.cur = {}
  /\ rec.step \in VMSteps \cup {"leases"} =>
       \A v \in rec.vms \cup rec.todo \cup rec.cur : run[v].step \notin Fresh
  /\ loopAt("dropLease") => \A v \in rec.cur : vm[v] = "absent"

(* A registered runner whose VM was not found running never has one again.   *)
NeverRuns(v) == run[v].step \notin NotStarted /\ vm[v] # "running"

RunnersInv ==
  /\ rec.step \in VMSteps \cup {"listVMs", "leases"} =>
       \A v \in rec.runners : run[v].step \notin NotStarted
  /\ rec.step \in VMSteps \cup {"leases"} =>
       \A v \in rec.runners \ rec.running : NeverRuns(v)
  /\ loopAt("runners") => \A v \in rec.todo \ rec.running : NeverRuns(v)

(* What reclaim read of a stale lease is still so. *)
StillStale(v) ==
  hasLease(v) /\ IsStale(rec.leases[v]) =>
    at(v, "done") /\ (rec.leases[v].aged => lease[v].aged)

MayStop(v) ==
  /\ policy = "soft" => rec.atCap
  /\ policy = "grace" /\ hasLease(v) /\ ~rec.atCap => at(v, "done") /\ lease[v].aged

PolicyInv ==
  /\ rec.step \in VMSteps => \A v \in rec.todo : StillStale(v)
  /\ loopAt("stopVM") => \A v \in rec.cur : MayStop(v)

(* What a purge has not deleted is still to come, or an error was seen.      *)
CleanInv ==
  rec.clean =>
    /\ rec.step \in (PurgeSteps \cup {"dead"}) \ {"purgeVMs"}
    /\ loopAt("purgeRunners") => existing \subseteq rec.vms
    /\ loopAt("purge") => existing \subseteq rec.todo
    /\ rec.step \in {"purgeStop", "purgeDelete"} => existing \subseteq rec.todo \cup rec.cur
    /\ rec.step \in {"purge", "purgeStop", "purgeDelete"} => registered \subseteq rec.runners
    /\ rec.step \in {"purgeRunner", "clear", "exit", "dead"} => existing = {}
    /\ loopAt("purgeRunner") => registered \subseteq rec.todo
    /\ rec.step \in {"clear", "exit", "dead"} => registered = {}
    /\ rec.step \in {"exit", "dead"} => \A v \in VMs : lease[v] = NoLease

(* Of the failures, more than n may have been reclaim's. *)
moreFailures(n) == "reclaim" \in Faults /\ faults > n

(* A guest that may have a job outlives a purge only if both its VM and its  *)
(* runner were met with a failure.                                           *)
Outlives(v) ==
  /\ loopAt("purgeRunners") => v \in rec.vms \cap rec.running
  /\ rec.step \in {"purge", "purgeDelete"} =>
       v \in rec.runners /\ (v \in rec.todo \cap rec.running \/ moreFailures(0))
  /\ loopAt("purgeStop") =>
       v \in rec.runners /\ (v \in (rec.todo \cup rec.cur) \cap rec.running \/ moreFailures(0))
  /\ loopAt("purgeRunner") => moreFailures(0) /\ (v \in rec.todo \/ moreFailures(1))
  /\ loopAt("clear") => moreFailures(1)

PurgeInv == \A v \in VMs : working(v) => Outlives(v)

VMInv == \A v \in VMs : LifeInv(v) /\ AgentInv(v)

LoopInv == QuietInv /\ ListInv /\ RunnersInv /\ PolicyInv /\ CleanInv /\ PurgeInv

RecIInv == RecTypes /\ VMInv /\ LoopInv

LeaseIInv == \A v \in VMs : HasLease(v)

-----------------------------------------------------------------------------
(* The locals of the loop. *)

(* The step gives the locals of reclaim and purge these values. *)
RecIs(step, rnrs, listed, found, cap, ls, todo, cur, ok) ==
  /\ rec' \in Recs /\ rec'.hard \in {rec.hard, FALSE}
  /\ rec'.step = step /\ rec'.runners = rnrs /\ rec'.vms = listed /\ rec'.running = found
  /\ rec'.atCap = cap /\ rec'.leases = ls /\ rec'.todo = todo /\ rec'.cur = cur
  /\ rec'.clean = ok

LoopGoes(step) ==
  RecIs(step, rec.runners, rec.vms, rec.running, rec.atCap, rec.leases, rec.todo, rec.cur,
        rec.clean)

NoLeases == [v \in VMs |-> NoLease]

Drops(step, ok) == RecIs(step, {}, {}, {}, FALSE, NoLeases, {}, {}, ok)

LoopEnds == Drops("idle", FALSE)

(* The loop over the VMs goes on, the one over the runners follows, or none. *)
GoesOn(listed, found, ls, todo, cur) ==
  \/ todo # {} /\ RecIs("vms", rec.runners, listed, found, rec.atCap, ls, todo, cur, rec.clean)
  \/ todo = {} /\ RecIs("runners", {}, listed, found, FALSE, ls, rec.runners, cur, rec.clean)
  \/ todo = {} /\ LoopEnds

LEMMA RecFields ==
  ASSUME rec \in Recs
  PROVE  /\ rec.step \in RecSteps /\ rec.hard \in BOOLEAN /\ rec.runners \subseteq VMs
         /\ rec.vms \subseteq VMs /\ rec.running \subseteq VMs /\ rec.atCap \in BOOLEAN
         /\ rec.leases \in [VMs -> Leases] /\ rec.todo \subseteq VMs /\ rec.cur \subseteq VMs
         /\ rec.clean \in BOOLEAN /\ rec.inFlight \subseteq VMs /\ rec.startup \in BOOLEAN
  BY DEF Recs

LEMMA RecSet ==
  ASSUME NEW r \in Recs, rec' = r, r.hard \in {rec.hard, FALSE}
  PROVE  RecIs(r.step, r.runners, r.vms, r.running, r.atCap, r.leases, r.todo, r.cur, r.clean)
  BY DEF RecIs

LEMMA NoRecFields ==
  /\ NoRec \in Recs /\ NoRec.hard = FALSE /\ NoRec.step = "idle" /\ NoRec.runners = {}
  /\ NoRec.vms = {} /\ NoRec.running = {} /\ NoRec.atCap = FALSE /\ NoRec.leases = NoLeases
  /\ NoRec.todo = {} /\ NoRec.cur = {} /\ NoRec.clean = FALSE
  BY LeaseTypes DEF NoRec, Recs, RecSteps, NoLeases

LEMMA LoopGoto ==
  ASSUME rec \in Recs, NEW step \in RecSteps, recGoto(step)
  PROVE  LoopGoes(step)
<1> DEFINE r == [rec EXCEPT !.step = step]
<1>1. /\ r \in Recs /\ r.hard = rec.hard /\ r.step = step /\ r.runners = rec.runners
      /\ r.vms = rec.vms /\ r.running = rec.running /\ r.atCap = rec.atCap
      /\ r.leases = rec.leases /\ r.todo = rec.todo /\ r.cur = rec.cur /\ r.clean = rec.clean
  BY DEF Recs
<1>2. rec' = r
  BY DEF recGoto
<1> HIDE DEF r
<1> QED
  BY <1>1, <1>2, RecSet DEF LoopGoes

LEMMA LoopDrops ==
  ASSUME NEW step \in RecSteps, NEW ok \in BOOLEAN,
         rec' = [NoRec EXCEPT !.step = step, !.clean = ok]
  PROVE  Drops(step, ok)
<1> DEFINE r == [NoRec EXCEPT !.step = step, !.clean = ok]
<1>1. /\ r \in Recs /\ r.hard = FALSE /\ r.step = step /\ r.runners = {}
      /\ r.vms = {} /\ r.running = {} /\ r.atCap = FALSE
      /\ r.leases = NoLeases /\ r.todo = {} /\ r.cur = {} /\ r.clean = ok
  BY NoRecFields DEF Recs
<1>2. rec' = r
  OBVIOUS
<1> HIDE DEF r
<1> QED
  BY <1>1, <1>2, RecSet DEF Drops

LEMMA LoopStops ==
  ASSUME rec' = NoRec
  PROVE  LoopEnds
  BY NoRecFields, RecSet DEF LoopEnds, Drops

LEMMA LoopExits ==
  ASSUME NEW step \in RecSteps, rec' = [NoRec EXCEPT !.step = step]
  PROVE  Drops(step, FALSE)
<1> DEFINE r == [NoRec EXCEPT !.step = step]
<1>1. /\ r \in Recs /\ r.hard = FALSE /\ r.step = step /\ r.runners = {}
      /\ r.vms = {} /\ r.running = {} /\ r.atCap = FALSE
      /\ r.leases = NoLeases /\ r.todo = {} /\ r.cur = {} /\ r.clean = FALSE
  BY NoRecFields DEF Recs
<1>2. rec' = r
  OBVIOUS
<1> HIDE DEF r
<1> QED
  BY <1>1, <1>2, RecSet DEF Drops

LEMMA AfterVM ==
  ASSUME NEW r \in Recs, rec' = afterVM(r), r.hard = rec.hard, r.runners = rec.runners,
         r.atCap = rec.atCap, r.clean = rec.clean
  PROVE  GoesOn(r.vms, r.running, r.leases, r.todo, r.cur)
<1>1. CASE r.todo # {}
  <2> DEFINE q == [r EXCEPT !.step = "vms"]
  <2>1. /\ q \in Recs /\ q.hard = r.hard /\ q.step = "vms" /\ q.runners = r.runners
        /\ q.vms = r.vms /\ q.running = r.running /\ q.atCap = r.atCap
        /\ q.leases = r.leases /\ q.todo = r.todo /\ q.cur = r.cur /\ q.clean = r.clean
    BY DEF Recs, RecSteps
  <2>2. rec' = q
    BY <1>1 DEF afterVM
  <2> HIDE DEF q
  <2> QED
    BY <1>1, <2>1, <2>2, RecSet DEF GoesOn
<1>2. CASE r.todo = {} /\ r.runners = {}
  BY <1>2, NoRecFields, RecSet DEF afterVM, GoesOn, LoopEnds, Drops
<1>3. CASE r.todo = {} /\ r.runners # {}
  <2> DEFINE q == [r EXCEPT !.step = "runners", !.todo = r.runners, !.runners = {},
                            !.atCap = FALSE]
  <2>1. /\ q \in Recs /\ q.hard = r.hard /\ q.step = "runners" /\ q.runners = {}
        /\ q.vms = r.vms /\ q.running = r.running /\ q.atCap = FALSE
        /\ q.leases = r.leases /\ q.todo = r.runners /\ q.cur = r.cur /\ q.clean = r.clean
    BY DEF Recs, RecSteps
  <2>2. rec' = q
    BY <1>3 DEF afterVM
  <2> HIDE DEF q
  <2> QED
    BY <1>3, <2>1, <2>2, RecSet DEF GoesOn
<1> QED
  BY <1>1, <1>2, <1>3

-----------------------------------------------------------------------------
(* What the actions of the loop do.  They take away: a VM that runs is       *)
(* stopped, one that does not is deleted, runners and leases go, and nothing *)
(* of a spawn's goroutine changes.                                           *)

Takes ==
  /\ Types'
  /\ UNCHANGED <<env, run, tap, policy>>
  /\ \A v \in VMs :
       /\ \/ vm'[v] = vm[v]
          \/ vm[v] = "running" /\ vm'[v] = "stopped" /\ guest'[v] = "down"
          \/ vm[v] # "running" /\ vm'[v] = "absent"
       /\ guest'[v] \in {guest[v], "down"}
       /\ runner'[v] \in {runner[v], "absent"}
       /\ lease'[v] \in {lease[v], NoLease}
  /\ faults <= faults'

(* Nothing but the loop's locals changes. *)
Looks == Takes /\ UNCHANGED <<vm, gh, lease>>

Stops(v) ==
  /\ vm' = [vm EXCEPT ![v] = IF @ = "running" THEN "stopped" ELSE @]
  /\ guest' = [guest EXCEPT ![v] = "down"]

Fails == moreFailures(0)' /\ faults' = faults + 1

LEMMA CallFails ==
  ASSUME Types, callFails
  PROVE  faults' \in 0..MaxFaults /\ faults <= faults'
  BY Fault DEF callFails, Types

LEMMA ReclaimFault ==
  ASSUME Types, fault("reclaim")
  PROVE  Fails /\ faults' \in 0..MaxFaults /\ faults <= faults'
  BY Fault DEF Types, Fails, moreFailures

LEMMA ReconcileDoes ==
  ASSUME RecTypes, Reconcile
  PROVE  loopAt("idle") /\ Looks /\ LoopGoes("snapshot")
<1>1. Looks
  BY DEF RecTypes, Types, Takes, Looks, Reconcile, spawnUntouched, gh, env, tap
<1> QED
  BY <1>1, LoopGoto DEF RecTypes, RecSteps, Reconcile

LEMMA SnapshotDoes ==
  ASSUME RecTypes, Snapshot
  PROVE  loopAt("snapshot") /\ Looks /\ (LoopGoes("listRunners") \/ LoopEnds)
<1>1. Looks
  BY ReclaimFault DEF RecTypes, Types, Takes, Looks, Snapshot, spawnUntouched, gh, env, tap
<1>2. ASSUME rec' = [rec EXCEPT !.step = "listRunners", !.inFlight = inFlight]
      PROVE  LoopGoes("listRunners")
  <2> DEFINE r == [rec EXCEPT !.step = "listRunners", !.inFlight = inFlight]
  <2>1. /\ r \in Recs /\ r.hard = rec.hard /\ r.step = "listRunners" /\ r.runners = rec.runners
        /\ r.vms = rec.vms /\ r.running = rec.running /\ r.atCap = rec.atCap
        /\ r.leases = rec.leases /\ r.todo = rec.todo /\ r.cur = rec.cur /\ r.clean = rec.clean
    BY DEF RecTypes, Types, Recs, RecSteps
  <2>2. rec' = r
    BY <1>2
  <2> HIDE DEF r
  <2> QED
    BY <2>1, <2>2, RecSet DEF LoopGoes
<1> QED
  BY <1>1, <1>2, LoopStops DEF Snapshot, idleRec

LEMMA ListRunnersDoes ==
  ASSUME RecTypes, ListRunners
  PROVE  /\ loopAt("listRunners") /\ Looks
         /\ \/ RecIs("listVMs", registered, rec.vms, rec.running, rec.atCap, rec.leases,
                     rec.todo, rec.cur, rec.clean)
            \/ LoopEnds
<1>1. Looks
  BY CallFails DEF RecTypes, Types, Takes, Looks, ListRunners, spawnUntouched, gh, env, tap
<1>2. ASSUME rec' = [rec EXCEPT !.step = "listVMs", !.runners = registered]
      PROVE  RecIs("listVMs", registered, rec.vms, rec.running, rec.atCap, rec.leases,
                   rec.todo, rec.cur, rec.clean)
  <2> DEFINE r == [rec EXCEPT !.step = "listVMs", !.runners = registered]
  <2>0. registered \subseteq VMs
    BY DEF registered
  <2>1. /\ r \in Recs /\ r.hard = rec.hard /\ r.step = "listVMs" /\ r.runners = registered
        /\ r.vms = rec.vms /\ r.running = rec.running /\ r.atCap = rec.atCap
        /\ r.leases = rec.leases /\ r.todo = rec.todo /\ r.cur = rec.cur /\ r.clean = rec.clean
    BY <2>0 DEF RecTypes, Recs, RecSteps
  <2>2. rec' = r
    BY <1>2
  <2> HIDE DEF r
  <2> QED
    BY <2>1, <2>2, RecSet
<1> QED
  BY <1>1, <1>2, LoopStops DEF ListRunners, idleRec

LEMMA ListVMsDoes ==
  ASSUME RecTypes, ListVMs
  PROVE  /\ loopAt("listVMs") /\ Looks
         /\ \/ \E cap \in BOOLEAN :
                 RecIs("leases", rec.runners, existing, running, cap, rec.leases,
                       rec.todo, rec.cur, rec.clean)
            \/ LoopEnds
<1>0. (UNCHANGED faults \/ callFails) /\ spawnUntouched /\ UNCHANGED <<vm, gh, lease>>
  BY DEF ListVMs
<1>1. Looks
  BY <1>0, CallFails DEF RecTypes, Types, Takes, Looks, spawnUntouched, gh, env, tap
<1>2. ASSUME NEW cap \in BOOLEAN,
             rec' = [rec EXCEPT !.step = "leases", !.vms = existing, !.running = running,
                                !.atCap = cap]
      PROVE  RecIs("leases", rec.runners, existing, running, cap, rec.leases,
                   rec.todo, rec.cur, rec.clean)
  <2> DEFINE r == [rec EXCEPT !.step = "leases", !.vms = existing, !.running = running,
                              !.atCap = cap]
  <2>0. existing \subseteq VMs /\ running \subseteq VMs
    BY DEF existing, running
  <2>1. /\ r \in Recs /\ r.hard = rec.hard /\ r.step = "leases" /\ r.runners = rec.runners
        /\ r.vms = existing /\ r.running = running /\ r.atCap = cap
        /\ r.leases = rec.leases /\ r.todo = rec.todo /\ r.cur = rec.cur /\ r.clean = rec.clean
    BY <2>0 DEF RecTypes, Recs, RecSteps
  <2>2. rec' = r
    BY <1>2
  <2> HIDE DEF r
  <2> QED
    BY <2>1, <2>2, RecSet
<1>3. ASSUME NEW others \in 0..MaxOthers,
             rec' = [rec EXCEPT
               !.step = "leases", !.vms = existing, !.running = running,
               !.atCap = MaxConcurrent > 0 /\ Cardinality(running) + others >= MaxConcurrent]
      PROVE  \E cap \in BOOLEAN :
               RecIs("leases", rec.runners, existing, running, cap, rec.leases,
                     rec.todo, rec.cur, rec.clean)
  <2> DEFINE cap == MaxConcurrent > 0 /\ Cardinality(running) + others >= MaxConcurrent
  <2>1. cap \in BOOLEAN
    OBVIOUS
  <2>2. rec' = [rec EXCEPT !.step = "leases", !.vms = existing, !.running = running,
                           !.atCap = cap]
    BY <1>3
  <2> HIDE DEF cap
  <2> QED
    BY <1>2, <2>1, <2>2
<1> QED
  BY <1>1, <1>3, LoopStops DEF ListVMs, idleRec

LEMMA LeaseMapDoes ==
  ASSUME RecTypes, LeaseMap
  PROVE  /\ loopAt("leases") /\ Looks
         /\ \E ls \in [VMs -> Leases] :
              /\ \A v \in VMs : ls[v].kind = "lease" => ls[v] = lease[v]
              /\ GoesOn({}, rec.running, ls, rec.vms, rec.cur)
<1>1. Looks
  BY ReclaimFault DEF RecTypes, Types, Takes, Looks, LeaseMap, spawnUntouched, gh, env, tap
<1>2. PICK readable \in SUBSET VMs :
        rec' = afterVM([rec EXCEPT
                 !.todo = rec.vms, !.vms = {},
                 !.leases = [v \in VMs |-> IF v \in readable THEN lease[v] ELSE NoLease]])
  BY DEF LeaseMap
<1> DEFINE ls == [v \in VMs |-> IF v \in readable THEN lease[v] ELSE NoLease]
           r == [rec EXCEPT !.todo = rec.vms, !.vms = {}, !.leases = ls]
<1>3. /\ ls \in [VMs -> Leases]
      /\ \A v \in VMs : ls[v].kind = "lease" => ls[v] = lease[v]
  BY LeaseTypes DEF RecTypes, Types, NoLease
<1>4. rec' = afterVM(r)
  BY <1>2
<1> HIDE DEF ls
<1>5. /\ r \in Recs /\ r.hard = rec.hard /\ r.runners = rec.runners
      /\ r.vms = {} /\ r.running = rec.running /\ r.atCap = rec.atCap
      /\ r.leases = ls /\ r.todo = rec.vms /\ r.cur = rec.cur /\ r.clean = rec.clean
  BY <1>3 DEF RecTypes, Recs
<1> HIDE DEF r
<1>6. GoesOn({}, rec.running, ls, rec.vms, rec.cur)
  BY <1>4, <1>5, AfterVM
<1> QED
  BY <1>1, <1>3, <1>6 DEF LeaseMap

LEMMA NextVMDoes ==
  ASSUME RecTypes, NextVM
  PROVE  /\ loopAt("vms") /\ Looks
         /\ \E v \in rec.todo :
              \/ GoesOn(rec.vms, rec.running, rec.leases, rec.todo \ {v}, rec.cur)
              \/ /\ ~sparesVM(v)
                 /\ \E step \in {"stopVM", "deleteVM"} :
                      /\ step = "stopVM" <=> v \in rec.running
                      /\ RecIs(step, rec.runners, rec.vms, rec.running, rec.atCap, rec.leases,
                               rec.todo \ {v}, {v}, rec.clean)
<1>1. Looks
  BY DEF RecTypes, Types, Takes, Looks, NextVM, spawnUntouched, gh, env, tap
<1>2. PICK v \in rec.todo :
        rec' = IF sparesVM(v) THEN afterVM([rec EXCEPT !.todo = @ \ {v}])
               ELSE [rec EXCEPT !.todo = @ \ {v}, !.cur = {v},
                       !.step = IF v \in rec.running THEN "stopVM" ELSE "deleteVM"]
  BY DEF NextVM
<1>3. CASE sparesVM(v)
  <2> DEFINE r == [rec EXCEPT !.todo = @ \ {v}]
  <2>1. rec' = afterVM(r)
    BY <1>2, <1>3
  <2>2. /\ r \in Recs /\ r.hard = rec.hard /\ r.runners = rec.runners
        /\ r.vms = rec.vms /\ r.running = rec.running /\ r.atCap = rec.atCap
        /\ r.leases = rec.leases /\ r.todo = rec.todo \ {v} /\ r.cur = rec.cur
        /\ r.clean = rec.clean
    BY DEF RecTypes, Recs
  <2> HIDE DEF r
  <2>3. GoesOn(rec.vms, rec.running, rec.leases, rec.todo \ {v}, rec.cur)
    BY <2>1, <2>2, AfterVM
  <2> QED
    BY <1>1, <2>3 DEF NextVM
<1>4. CASE ~sparesVM(v)
  <2> DEFINE step == IF v \in rec.running THEN "stopVM" ELSE "deleteVM"
             r == [rec EXCEPT !.todo = @ \ {v}, !.cur = {v}, !.step = step]
  <2>0. step \in {"stopVM", "deleteVM"} /\ (step = "stopVM" <=> v \in rec.running)
    OBVIOUS
  <2>1. rec' = r
    BY <1>2, <1>4
  <2> HIDE DEF step
  <2>2. /\ r \in Recs /\ r.hard = rec.hard /\ r.step = step /\ r.runners = rec.runners
        /\ r.vms = rec.vms /\ r.running = rec.running /\ r.atCap = rec.atCap
        /\ r.leases = rec.leases /\ r.todo = rec.todo \ {v} /\ r.cur = {v}
        /\ r.clean = rec.clean
    BY <2>0 DEF RecTypes, Recs, RecSteps
  <2> HIDE DEF r
  <2>3. RecIs(step, rec.runners, rec.vms, rec.running, rec.atCap, rec.leases,
              rec.todo \ {v}, {v}, rec.clean)
    BY <2>1, <2>2, RecSet
  <2> QED
    BY <1>1, <1>4, <2>0, <2>3 DEF NextVM
<1> QED
  BY <1>3, <1>4

LEMMA StopsTakes ==
  ASSUME Types, NEW v \in VMs, Stops(v) \/ UNCHANGED <<vm, guest>>,
         UNCHANGED <<env, run, tap, policy, printed, runner, lease>>,
         faults' \in 0..MaxFaults, faults <= faults'
  PROVE  Takes
  BY DEF Types, Guests, Takes, Stops, env, tap

LEMMA DeletesTakes ==
  ASSUME Types, NEW v \in VMs,
         (vm[v] # "running" /\ vm' = [vm EXCEPT ![v] = "absent"]) \/ UNCHANGED vm,
         UNCHANGED <<env, run, tap, policy, gh, lease>>,
         faults' \in 0..MaxFaults, faults <= faults'
  PROVE  Takes
  BY DEF Types, Takes, env, tap, gh

LEMMA ReclaimStopDoes ==
  ASSUME RecTypes, ReclaimStop
  PROVE  loopAt("stopVM") /\ Takes /\ LoopGoes("deleteVM") /\ UNCHANGED <<runner, lease>>
<1>1. /\ loopAt("stopVM") /\ recGoto("deleteVM") /\ UNCHANGED <<printed, runner, lease>>
      /\ UNCHANGED <<env, run, tap, policy>>
  BY DEF ReclaimStop, spawnUntouched
<1>2. PICK v \in rec.cur : stopManaged(v)
  BY DEF ReclaimStop
<1>3. v \in VMs
  BY RecFields DEF RecTypes
<1>4. Stops(v) \/ UNCHANGED <<vm, guest>>
  BY <1>2 DEF stopManaged, Stops
<1>5. faults' \in 0..MaxFaults /\ faults <= faults'
  BY <1>2, CallFails DEF stopManaged, RecTypes, Types
<1>6. Takes
  BY <1>1, <1>3, <1>4, <1>5, StopsTakes DEF RecTypes
<1> QED
  BY <1>1, <1>6, LoopGoto DEF RecTypes, RecSteps

LEMMA ReclaimDeleteDoes ==
  ASSUME RecTypes, ReclaimDelete
  PROVE  /\ loopAt("deleteVM") /\ Takes /\ UNCHANGED <<guest, runner, lease>>
         /\ \/ /\ \E v \in rec.cur : vm'[v] = "absent"
               /\ LoopGoes("dropLease")
            \/ UNCHANGED vm /\ GoesOn(rec.vms, rec.running, rec.leases, rec.todo, {})
<1>1. /\ loopAt("deleteVM") /\ UNCHANGED <<gh, lease>> /\ UNCHANGED <<env, run, tap, policy>>
  BY DEF ReclaimDelete, spawnUntouched
<1>2. PICK v \in rec.cur :
        \/ vm[v] # "running" /\ vm' = [vm EXCEPT ![v] = "absent"] /\ recGoto("dropLease")
           /\ UNCHANGED faults
        \/ vm[v] = "running" /\ rec' = afterVM([rec EXCEPT !.cur = {}])
           /\ UNCHANGED <<vm, faults>>
        \/ callFails /\ rec' = afterVM([rec EXCEPT !.cur = {}]) /\ UNCHANGED vm
  BY DEF ReclaimDelete
<1>3. v \in VMs
  BY RecFields DEF RecTypes
<1>4. faults' \in 0..MaxFaults /\ faults <= faults'
  BY <1>2, CallFails DEF RecTypes, Types
<1>5. Takes
  BY <1>1, <1>2, <1>3, <1>4, DeletesTakes DEF RecTypes
<1>6. ASSUME rec' = afterVM([rec EXCEPT !.cur = {}])
      PROVE  GoesOn(rec.vms, rec.running, rec.leases, rec.todo, {})
  <2> DEFINE r == [rec EXCEPT !.cur = {}]
  <2>1. rec' = afterVM(r)
    BY <1>6
  <2>2. /\ r \in Recs /\ r.hard = rec.hard /\ r.runners = rec.runners
        /\ r.vms = rec.vms /\ r.running = rec.running /\ r.atCap = rec.atCap
        /\ r.leases = rec.leases /\ r.todo = rec.todo /\ r.cur = {} /\ r.clean = rec.clean
    BY DEF RecTypes, Recs
  <2> HIDE DEF r
  <2> QED
    BY <2>1, <2>2, AfterVM
<1>7. ASSUME vm' = [vm EXCEPT ![v] = "absent"]
      PROVE  vm'[v] = "absent"
  BY <1>3, <1>7 DEF RecTypes, Types
<1>8. ASSUME recGoto("dropLease")
      PROVE  LoopGoes("dropLease")
  BY <1>8, LoopGoto DEF RecTypes, RecSteps
<1> QED
  BY <1>1, <1>2, <1>5, <1>6, <1>7, <1>8 DEF gh

LEMMA DropLeaseDoes ==
  ASSUME RecTypes, DropLease
  PROVE  /\ loopAt("dropLease") /\ Takes /\ UNCHANGED <<vm, gh>>
         /\ GoesOn(rec.vms, rec.running \ rec.cur, rec.leases, rec.todo, {})
         /\ \A v \in VMs \ rec.cur : lease'[v] = lease[v]
<1>1. loopAt("dropLease") /\ UNCHANGED <<vm, gh>> /\ UNCHANGED <<env, run, tap, policy>>
  BY DEF DropLease, spawnUntouched
<1>2. \/ /\ lease' = [v \in VMs |-> IF v \in rec.cur THEN NoLease ELSE lease[v]]
         /\ UNCHANGED faults
      \/ fault("reclaim") /\ UNCHANGED lease
  BY DEF DropLease
<1>3. Takes /\ \A v \in VMs \ rec.cur : lease'[v] = lease[v]
  BY <1>1, <1>2, ReclaimFault, LeaseTypes DEF RecTypes, Types, Takes, env, tap, gh
<1> DEFINE r == [rec EXCEPT !.running = @ \ rec.cur, !.cur = {}]
<1>4. rec' = afterVM(r)
  BY DEF DropLease
<1>5. /\ r \in Recs /\ r.hard = rec.hard /\ r.runners = rec.runners
      /\ r.vms = rec.vms /\ r.running = rec.running \ rec.cur /\ r.atCap = rec.atCap
      /\ r.leases = rec.leases /\ r.todo = rec.todo /\ r.cur = {} /\ r.clean = rec.clean
  BY DEF RecTypes, Recs
<1> HIDE DEF r
<1>6. GoesOn(rec.vms, rec.running \ rec.cur, rec.leases, rec.todo, {})
  BY <1>4, <1>5, AfterVM
<1> QED
  BY <1>1, <1>3, <1>6

LEMMA NextRunnerDoes ==
  ASSUME RecTypes, NextRunner
  PROVE  /\ loopAt("runners") /\ Takes /\ UNCHANGED <<vm, guest, lease>>
         /\ \E v \in rec.todo :
              /\ \/ LoopEnds
                 \/ RecIs("runners", rec.runners, rec.vms, rec.running, rec.atCap, rec.leases,
                          rec.todo \ {v}, rec.cur, rec.clean)
              /\ \A w \in VMs : runner'[w] # runner[w] => w = v /\ ~sparesRunner(v)
<1>1. /\ loopAt("runners") /\ UNCHANGED <<vm, guest, printed, lease>>
      /\ UNCHANGED <<env, run, tap, policy>>
  BY DEF NextRunner, spawnUntouched
<1>2. PICK v \in rec.todo :
        /\ rec' = IF rec.todo = {v} THEN NoRec ELSE [rec EXCEPT !.todo = @ \ {v}]
        /\ \/ sparesRunner(v) /\ UNCHANGED <<runner, faults>>
           \/ /\ ~sparesRunner(v)
              /\ \/ ~ctxDone /\ runner' = [runner EXCEPT ![v] = "absent"] /\ UNCHANGED faults
                 \/ callFails /\ UNCHANGED runner
  BY DEF NextRunner
<1>3. v \in VMs
  BY RecFields DEF RecTypes
<1>4. faults' \in 0..MaxFaults /\ faults <= faults'
  BY <1>2, CallFails DEF RecTypes, Types
<1>5. Takes /\ \A w \in VMs : runner'[w] # runner[w] => w = v /\ ~sparesRunner(v)
  BY <1>1, <1>2, <1>3, <1>4 DEF RecTypes, Types, Takes, env, tap
<1>6. ASSUME rec' = [rec EXCEPT !.todo = @ \ {v}]
      PROVE  RecIs("runners", rec.runners, rec.vms, rec.running, rec.atCap, rec.leases,
                   rec.todo \ {v}, rec.cur, rec.clean)
  <2> DEFINE r == [rec EXCEPT !.todo = @ \ {v}]
  <2>1. rec' = r
    BY <1>6
  <2>2. /\ r \in Recs /\ r.hard = rec.hard /\ r.step = "runners" /\ r.runners = rec.runners
        /\ r.vms = rec.vms /\ r.running = rec.running /\ r.atCap = rec.atCap
        /\ r.leases = rec.leases /\ r.todo = rec.todo \ {v} /\ r.cur = rec.cur
        /\ r.clean = rec.clean
    BY <1>1 DEF RecTypes, Recs, loopAt
  <2> HIDE DEF r
  <2> QED
    BY <2>1, <2>2, RecSet
<1> QED
  BY <1>1, <1>2, <1>5, <1>6, LoopStops

LEMMA BeginShutdownDoes ==
  ASSUME RecTypes, BeginShutdown
  PROVE  loopAt("idle") /\ Looks /\ LoopGoes("wait")
<1>1. Looks
  BY DEF RecTypes, Types, Takes, Looks, BeginShutdown, spawnUntouched, gh, env, tap
<1> QED
  BY <1>1, LoopGoto DEF RecTypes, RecSteps, BeginShutdown

LEMMA PurgeWaitDoes ==
  ASSUME RecTypes, Wait
  PROVE  loopAt("wait") /\ inFlight = {} /\ Looks /\ LoopGoes("purgeVMs")
<1>1. Looks
  BY DEF RecTypes, Types, Takes, Looks, Wait, spawnUntouched, gh, env, tap
<1> QED
  BY <1>1, LoopGoto DEF RecTypes, RecSteps, Wait

LEMMA CleanCommandDoes ==
  ASSUME RecTypes, CleanCommand
  PROVE  loopAt("dead") /\ Looks /\ Drops("purgeVMs", FALSE)
<1>1. Looks
  BY DEF RecTypes, Types, Takes, Looks, CleanCommand, spawnUntouched, gh, env, tap
<1> QED
  BY <1>1, LoopExits DEF RecSteps, CleanCommand

LEMMA PurgeListVMsDoes ==
  ASSUME RecTypes, PurgeListVMs
  PROVE  /\ loopAt("purgeVMs") /\ Looks
         /\ \/ RecIs("purgeRunners", rec.runners, existing, running, rec.atCap, rec.leases,
                     rec.todo, rec.cur, TRUE)
            \/ Drops("exit", FALSE)
<1>1. Looks
  BY ReclaimFault
  DEF RecTypes, Types, Takes, Looks, PurgeListVMs, spawnUntouched, gh, env, tap
<1>2. ASSUME rec' = [rec EXCEPT !.step = "purgeRunners", !.vms = existing, !.running = running,
                                !.clean = TRUE]
      PROVE  RecIs("purgeRunners", rec.runners, existing, running, rec.atCap, rec.leases,
                   rec.todo, rec.cur, TRUE)
  <2> DEFINE r == [rec EXCEPT !.step = "purgeRunners", !.vms = existing, !.running = running,
                              !.clean = TRUE]
  <2>0. existing \subseteq VMs /\ running \subseteq VMs
    BY DEF existing, running
  <2>1. rec' = r
    BY <1>2
  <2>2. /\ r \in Recs /\ r.hard = rec.hard /\ r.step = "purgeRunners" /\ r.runners = rec.runners
        /\ r.vms = existing /\ r.running = running /\ r.atCap = rec.atCap
        /\ r.leases = rec.leases /\ r.todo = rec.todo /\ r.cur = rec.cur /\ r.clean = TRUE
    BY <2>0 DEF RecTypes, Recs, RecSteps
  <2> HIDE DEF r
  <2> QED
    BY <2>1, <2>2, RecSet
<1> QED
  BY <1>1, <1>2, LoopExits DEF PurgeListVMs, RecSteps

LEMMA PurgeListRunnersDoes ==
  ASSUME RecTypes, PurgeListRunners
  PROVE  /\ loopAt("purgeRunners") /\ Looks
         /\ \/ RecIs("purge", registered, {}, rec.running, rec.atCap, rec.leases,
                     rec.vms, rec.cur, rec.clean)
            \/ Drops("exit", FALSE)
<1>1. Looks
  BY ReclaimFault
  DEF RecTypes, Types, Takes, Looks, PurgeListRunners, spawnUntouched, gh, env, tap
<1>2. ASSUME rec' = [rec EXCEPT !.step = "purge", !.todo = rec.vms, !.vms = {},
                                !.runners = registered]
      PROVE  RecIs("purge", registered, {}, rec.running, rec.atCap, rec.leases,
                   rec.vms, rec.cur, rec.clean)
  <2> DEFINE r == [rec EXCEPT !.step = "purge", !.todo = rec.vms, !.vms = {},
                              !.runners = registered]
  <2>0. registered \subseteq VMs
    BY DEF registered
  <2>1. rec' = r
    BY <1>2
  <2>2. /\ r \in Recs /\ r.hard = rec.hard /\ r.step = "purge" /\ r.runners = registered
        /\ r.vms = {} /\ r.running = rec.running /\ r.atCap = rec.atCap
        /\ r.leases = rec.leases /\ r.todo = rec.vms /\ r.cur = rec.cur /\ r.clean = rec.clean
    BY <2>0 DEF RecTypes, Recs, RecSteps
  <2> HIDE DEF r
  <2> QED
    BY <2>1, <2>2, RecSet
<1> QED
  BY <1>1, <1>2, LoopExits DEF PurgeListRunners, RecSteps

LEMMA PurgeNextVMDoes ==
  ASSUME RecTypes, PurgeNextVM
  PROVE  /\ loopAt("purge") /\ Looks
         /\ \/ /\ rec.todo = {}
               /\ RecIs("purgeRunner", {}, rec.vms, {}, rec.atCap, rec.leases,
                        rec.runners, {}, rec.clean)
            \/ \E v \in rec.todo, step \in {"purgeStop", "purgeDelete"} :
                 /\ step = "purgeStop" <=> v \in rec.running
                 /\ RecIs(step, rec.runners, rec.vms, rec.running, rec.atCap, rec.leases,
                          rec.todo \ {v}, {v}, rec.clean)
<1>0. spawnUntouched /\ UNCHANGED <<vm, gh, lease, faults>>
  BY DEF PurgeNextVM
<1>1. Looks
  BY <1>0 DEF RecTypes, Types, Takes, Looks, spawnUntouched, gh, env, tap
<1>2. CASE rec.todo = {}
  <2> DEFINE r == [rec EXCEPT !.step = "purgeRunner", !.todo = rec.runners,
                              !.runners = {}, !.running = {}, !.cur = {}]
  <2>1. rec' = r
    BY <1>2 DEF PurgeNextVM
  <2>2. /\ r \in Recs /\ r.hard = rec.hard /\ r.step = "purgeRunner" /\ r.runners = {}
        /\ r.vms = rec.vms /\ r.running = {} /\ r.atCap = rec.atCap
        /\ r.leases = rec.leases /\ r.todo = rec.runners /\ r.cur = {} /\ r.clean = rec.clean
    BY DEF RecTypes, Recs, RecSteps
  <2> HIDE DEF r
  <2> QED
    BY <1>1, <1>2, <2>1, <2>2, RecSet DEF PurgeNextVM
<1>3. CASE rec.todo # {}
  <2>0. PICK v \in rec.todo :
          rec' = [rec EXCEPT !.todo = @ \ {v}, !.cur = {v},
                    !.step = IF v \in rec.running THEN "purgeStop" ELSE "purgeDelete"]
    BY <1>3 DEF PurgeNextVM
  <2> DEFINE step == IF v \in rec.running THEN "purgeStop" ELSE "purgeDelete"
             r == [rec EXCEPT !.todo = @ \ {v}, !.cur = {v}, !.step = step]
  <2>1. step \in {"purgeStop", "purgeDelete"} /\ (step = "purgeStop" <=> v \in rec.running)
    OBVIOUS
  <2>2. rec' = r
    BY <2>0
  <2> HIDE DEF step
  <2>3. /\ r \in Recs /\ r.hard = rec.hard /\ r.step = step /\ r.runners = rec.runners
        /\ r.vms = rec.vms /\ r.running = rec.running /\ r.atCap = rec.atCap
        /\ r.leases = rec.leases /\ r.todo = rec.todo \ {v} /\ r.cur = {v}
        /\ r.clean = rec.clean
    BY <2>1 DEF RecTypes, Recs, RecSteps
  <2> HIDE DEF r
  <2>4. RecIs(step, rec.runners, rec.vms, rec.running, rec.atCap, rec.leases,
              rec.todo \ {v}, {v}, rec.clean)
    BY <2>2, <2>3, RecSet
  <2> QED
    BY <1>1, <2>1, <2>4 DEF PurgeNextVM
<1> QED
  BY <1>2, <1>3

LEMMA PurgeStopDoes ==
  ASSUME RecTypes, PurgeStop
  PROVE  /\ loopAt("purgeStop") /\ Takes /\ LoopGoes("purgeDelete")
         /\ UNCHANGED <<runner, lease>>
         /\ (\E v \in rec.cur : guest'[v] = "down") \/ (Fails /\ UNCHANGED <<vm, guest>>)
<1>1. /\ loopAt("purgeStop") /\ recGoto("purgeDelete") /\ UNCHANGED <<printed, runner, lease>>
      /\ UNCHANGED <<env, run, tap, policy>>
  BY DEF PurgeStop, spawnUntouched
<1>2. PICK v \in rec.cur : \/ Stops(v) /\ UNCHANGED faults
                           \/ fault("reclaim") /\ UNCHANGED <<vm, guest>>
  BY DEF PurgeStop, Stops
<1>3. v \in VMs
  BY RecFields DEF RecTypes
<1>4. faults' \in 0..MaxFaults /\ faults <= faults'
  BY <1>2, ReclaimFault DEF RecTypes, Types
<1>5. Takes
  BY <1>1, <1>2, <1>3, <1>4, StopsTakes DEF RecTypes
<1>6. guest'[v] = "down" \/ (Fails /\ UNCHANGED <<vm, guest>>)
  BY <1>2, <1>3, ReclaimFault DEF RecTypes, Types, Stops
<1> QED
  BY <1>1, <1>5, <1>6, LoopGoto DEF RecTypes, RecSteps

LEMMA PurgeDeleteDoes ==
  ASSUME RecTypes, PurgeDelete
  PROVE  /\ loopAt("purgeDelete") /\ Takes /\ UNCHANGED <<guest, runner, lease>>
         /\ \/ /\ \E v \in rec.cur : vm'[v] = "absent"
               /\ LoopGoes("purge")
            \/ RecIs("purge", rec.runners, rec.vms, rec.running, rec.atCap, rec.leases,
                     rec.todo, rec.cur, FALSE)
<1>1. /\ loopAt("purgeDelete") /\ UNCHANGED <<gh, lease>> /\ UNCHANGED <<env, run, tap, policy>>
  BY DEF PurgeDelete, spawnUntouched
<1>2. PICK v \in rec.cur :
        \/ /\ vm[v] # "running" /\ vm' = [vm EXCEPT ![v] = "absent"]
           /\ recGoto("purge") /\ UNCHANGED faults
        \/ /\ \/ vm[v] = "running" /\ UNCHANGED faults
              \/ fault("reclaim")
           /\ rec' = [rec EXCEPT !.step = "purge", !.clean = FALSE]
           /\ UNCHANGED vm
  BY DEF PurgeDelete
<1>3. v \in VMs
  BY RecFields DEF RecTypes
<1>4. faults' \in 0..MaxFaults /\ faults <= faults'
  BY <1>2, ReclaimFault DEF RecTypes, Types
<1>5. Takes
  BY <1>1, <1>2, <1>3, <1>4, DeletesTakes DEF RecTypes
<1>6. ASSUME rec' = [rec EXCEPT !.step = "purge", !.clean = FALSE]
      PROVE  RecIs("purge", rec.runners, rec.vms, rec.running, rec.atCap, rec.leases,
                   rec.todo, rec.cur, FALSE)
  <2> DEFINE r == [rec EXCEPT !.step = "purge", !.clean = FALSE]
  <2>1. rec' = r
    BY <1>6
  <2>2. /\ r \in Recs /\ r.hard = rec.hard /\ r.step = "purge" /\ r.runners = rec.runners
        /\ r.vms = rec.vms /\ r.running = rec.running /\ r.atCap = rec.atCap
        /\ r.leases = rec.leases /\ r.todo = rec.todo /\ r.cur = rec.cur /\ r.clean = FALSE
    BY DEF RecTypes, Recs, RecSteps
  <2> HIDE DEF r
  <2> QED
    BY <2>1, <2>2, RecSet
<1>7. ASSUME vm' = [vm EXCEPT ![v] = "absent"]
      PROVE  vm'[v] = "absent"
  BY <1>3, <1>7 DEF RecTypes, Types
<1>8. ASSUME recGoto("purge")
      PROVE  LoopGoes("purge")
  BY <1>8, LoopGoto DEF RecTypes, RecSteps
<1> QED
  BY <1>1, <1>2, <1>5, <1>6, <1>7, <1>8 DEF gh

LEMMA PurgeNextRunnerDoes ==
  ASSUME RecTypes, PurgeNextRunner
  PROVE  /\ loopAt("purgeRunner") /\ Takes /\ UNCHANGED <<vm, guest, lease>>
         /\ \/ rec.todo = {} /\ LoopGoes("clear") /\ UNCHANGED runner
            \/ \E v \in rec.todo, ok \in BOOLEAN :
                 /\ RecIs("purgeRunner", rec.runners, rec.vms, rec.running, rec.atCap,
                          rec.leases, rec.todo \ {v}, rec.cur, ok)
                 /\ \/ runner'[v] = "absent" /\ ok = rec.clean
                    \/ Fails /\ ok = FALSE
<1>1. /\ loopAt("purgeRunner") /\ UNCHANGED <<vm, guest, printed, lease>>
      /\ UNCHANGED <<env, run, tap, policy>>
  BY DEF PurgeNextRunner, spawnUntouched
<1>2. CASE rec.todo = {} /\ recGoto("clear") /\ UNCHANGED <<runner, faults>>
  <2>1. Takes
    BY <1>1, <1>2 DEF RecTypes, Types, Takes, env, tap
  <2> QED
    BY <1>1, <1>2, <2>1, LoopGoto DEF RecTypes, RecSteps
<1>3. ASSUME NEW v \in rec.todo, NEW ok \in BOOLEAN,
             rec' = [rec EXCEPT !.todo = @ \ {v}, !.clean = ok],
             \/ runner' = [runner EXCEPT ![v] = "absent"] /\ ok = rec.clean /\ UNCHANGED faults
             \/ fault("reclaim") /\ ok = FALSE /\ UNCHANGED runner
      PROVE  /\ Takes
             /\ RecIs("purgeRunner", rec.runners, rec.vms, rec.running, rec.atCap,
                      rec.leases, rec.todo \ {v}, rec.cur, ok)
             /\ \/ runner'[v] = "absent" /\ ok = rec.clean
                \/ Fails /\ ok = FALSE
  <2>1. v \in VMs
    BY RecFields DEF RecTypes
  <2>2. Takes
    BY <1>1, <1>3, <2>1, ReclaimFault DEF RecTypes, Types, Takes, env, tap
  <2> DEFINE r == [rec EXCEPT !.todo = @ \ {v}, !.clean = ok]
  <2>3. rec' = r
    BY <1>3
  <2>4. /\ r \in Recs /\ r.hard = rec.hard /\ r.step = "purgeRunner" /\ r.runners = rec.runners
        /\ r.vms = rec.vms /\ r.running = rec.running /\ r.atCap = rec.atCap
        /\ r.leases = rec.leases /\ r.todo = rec.todo \ {v} /\ r.cur = rec.cur /\ r.clean = ok
    BY <1>1 DEF RecTypes, Recs, loopAt
  <2> HIDE DEF r
  <2>5. RecIs("purgeRunner", rec.runners, rec.vms, rec.running, rec.atCap,
              rec.leases, rec.todo \ {v}, rec.cur, ok)
    BY <2>3, <2>4, RecSet
  <2>6. \/ runner'[v] = "absent" /\ ok = rec.clean
        \/ Fails /\ ok = FALSE
    BY <1>3, <2>1, ReclaimFault DEF RecTypes, Types
  <2> QED
    BY <2>2, <2>5, <2>6
<1>4. ASSUME NEW v \in rec.todo, runner' = [runner EXCEPT ![v] = "absent"],
             rec' = [rec EXCEPT !.todo = @ \ {v}], UNCHANGED faults
      PROVE  \E w \in rec.todo, ok \in BOOLEAN :
               /\ rec' = [rec EXCEPT !.todo = @ \ {w}, !.clean = ok]
               /\ \/ runner' = [runner EXCEPT ![w] = "absent"] /\ ok = rec.clean
                     /\ UNCHANGED faults
                  \/ fault("reclaim") /\ ok = FALSE /\ UNCHANGED runner
  <2>1. [rec EXCEPT !.todo = @ \ {v}] = [rec EXCEPT !.todo = @ \ {v}, !.clean = rec.clean]
    BY DEF RecTypes, Recs
  <2> QED
    BY <1>4, <2>1, RecFields DEF RecTypes
<1>5. ASSUME NEW v \in rec.todo, fault("reclaim"), UNCHANGED runner,
             rec' = [rec EXCEPT !.todo = @ \ {v}, !.clean = FALSE]
      PROVE  \E w \in rec.todo, ok \in BOOLEAN :
               /\ rec' = [rec EXCEPT !.todo = @ \ {w}, !.clean = ok]
               /\ \/ runner' = [runner EXCEPT ![w] = "absent"] /\ ok = rec.clean
                     /\ UNCHANGED faults
                  \/ fault("reclaim") /\ ok = FALSE /\ UNCHANGED runner
  BY <1>5
<1>6. CASE \E v \in rec.todo, ok \in BOOLEAN :
             /\ rec' = [rec EXCEPT !.todo = @ \ {v}, !.clean = ok]
             /\ \/ runner' = [runner EXCEPT ![v] = "absent"] /\ ok = rec.clean
                   /\ UNCHANGED faults
                \/ fault("reclaim") /\ ok = FALSE /\ UNCHANGED runner
  BY <1>1, <1>3, <1>6
<1> QED
  BY <1>2, <1>4, <1>5, <1>6 DEF PurgeNextRunner

LEMMA ClearLeasesDoes ==
  ASSUME RecTypes, ClearLeases
  PROVE  /\ loopAt("clear") /\ Takes /\ UNCHANGED <<vm, gh>>
         /\ \E ok \in BOOLEAN :
              /\ RecIs("exit", rec.runners, rec.vms, rec.running, rec.atCap, rec.leases,
                       rec.todo, rec.cur, ok)
              /\ ok => rec.clean /\ \A v \in VMs : lease'[v] = NoLease
<1>1. loopAt("clear") /\ UNCHANGED <<vm, gh>> /\ UNCHANGED <<env, run, tap, policy>>
  BY DEF ClearLeases, spawnUntouched
<1>2. CASE lease' = [v \in VMs |-> NoLease] /\ recGoto("exit") /\ UNCHANGED faults
  <2>1. Takes
    BY <1>1, <1>2, LeaseTypes DEF RecTypes, Types, Takes, env, tap, gh
  <2>2. RecIs("exit", rec.runners, rec.vms, rec.running, rec.atCap, rec.leases,
              rec.todo, rec.cur, rec.clean)
    BY <1>2, LoopGoto DEF RecTypes, RecSteps, LoopGoes
  <2> QED
    BY <1>1, <1>2, <2>1, <2>2, RecFields DEF RecTypes
<1>3. CASE /\ fault("reclaim") /\ rec' = [rec EXCEPT !.step = "exit", !.clean = FALSE]
           /\ UNCHANGED lease
  <2>1. Takes
    BY <1>1, <1>3, ReclaimFault DEF RecTypes, Types, Takes, env, tap, gh
  <2> DEFINE r == [rec EXCEPT !.step = "exit", !.clean = FALSE]
  <2>2. rec' = r
    BY <1>3
  <2>3. /\ r \in Recs /\ r.hard = rec.hard /\ r.step = "exit" /\ r.runners = rec.runners
        /\ r.vms = rec.vms /\ r.running = rec.running /\ r.atCap = rec.atCap
        /\ r.leases = rec.leases /\ r.todo = rec.todo /\ r.cur = rec.cur /\ r.clean = FALSE
    BY DEF RecTypes, Recs, RecSteps
  <2> HIDE DEF r
  <2>4. RecIs("exit", rec.runners, rec.vms, rec.running, rec.atCap, rec.leases,
              rec.todo, rec.cur, FALSE)
    BY <2>2, <2>3, RecSet
  <2> QED
    BY <1>1, <2>1, <2>4
<1> QED
  BY <1>2, <1>3 DEF ClearLeases

-----------------------------------------------------------------------------
(* What the steps of a spawn cannot undo. *)

Irreversible(v) ==
  /\ run[v].step \notin Fresh => run'[v].step \notin Fresh
  /\ run[v].step \notin NotStarted =>
       run'[v].step \notin NotStarted /\ (vm'[v] = "running" => vm[v] = "running")
  /\ run[v].step \notin Fresh /\ vm[v] = "absent" => vm'[v] = "absent"
  /\ at(v, "done") => run'[v].step = "done" /\ (lease[v].aged => lease'[v].aged)
  /\ rec.step \in PurgeSteps \cup {"dead"} /\ run[v].step \in {"unused", "done"} =>
       /\ run'[v].step = run[v].step
       /\ vm[v] = "absent" => vm'[v] = "absent"
       /\ runner[v] = "absent" => runner'[v] = "absent"
       /\ lease[v] = NoLease => lease'[v] = NoLease
       /\ working(v)' => working(v)

LEMMA StepIrreversible ==
  ASSUME Types, NEW v \in VMs, LifeInv(v), SpawnStep(v)
  PROVE  Irreversible(v)
<1> USE RunFields, Fault, SpawnAssumption, LeaseTypes
    DEF LifeInv, Irreversible, working, alive, loopAt, Purging, PurgeSteps, Frame,
        Others, Types, RunIs, Moves, Returns, ReturnsGood, firstDeferred, at, live,
        cancelled, env, tap, gh, Fresh, NotStarted, NotRegistered, Teardown, Over,
        JobLoop, PreJob
<1>1. CASE SpawnBegins(v)
  BY <1>1, BeginDoes DEF SpawnBegins, Begin
<1>2. CASE Done(v)
  BY <1>2, DoneDoes DEF Done
<1>3. CASE Watch(v)
  BY <1>3, WatchDoes
<1>4. CASE Timeout(v)
  BY <1>4, TimeoutDoes
<1>5. CASE \E x \in Tells : Tell(v, x)
  BY <1>5, TellDoes DEF Tell
<1>6. CASE CheckDisk(v)
  BY <1>6, CheckDiskDoes DEF CheckDisk
<1>7. CASE CloneStart(v)
  BY <1>7, CloneStartDoes DEF CloneStart, ctxResult
<1>8. CASE CloneOk(v)
  BY <1>8, CloneOkDoes
<1>9. CASE CloneFails(v)
  BY <1>9, CloneFailsDoes DEF CloneFails
<1>10. CASE CloneKilled(v)
  BY <1>10, CloneKilledDoes DEF CloneKilled, ctxResult
<1>11. CASE WriteLease(v)
  BY <1>11, WriteLeaseDoes DEF WriteLease, truncateLease, writeLease
<1>12. CASE StartVM(v)
  BY <1>12, StartVMDoes DEF StartVM, ctxResult
<1>13. CASE waitUntilReady(v)
  BY <1>13, WaitDoes DEF waitUntilReady, ctxResult
<1>14. CASE SendJIT(v)
  BY <1>14, SendJITDoes DEF SendJIT, ctxResult
<1>15. CASE JITAnswered(v)
  BY <1>15, JITAnsweredDoes
<1>16. CASE JITFails(v)
  BY <1>16, JITFailsDoes DEF JITFails, ctxResult
<1>17. CASE WriteLease2(v)
  BY <1>17, WriteLease2Does DEF WriteLease2, truncateLease, writeLease
<1>18. CASE EnterJob(v)
  BY <1>18, EnterJobDoes
<1>19. CASE JobCtxDone(v)
  BY <1>19, JobCtxDoneDoes DEF JobCtxDone, ctxResult
<1>20. CASE SeeForce(v)
  BY <1>20, SeeForceDoes
<1>21. CASE SeeAbandon(v)
  BY <1>21, SeeAbandonDoes
<1>22. CASE AbandonIdle(v)
  BY <1>22, AbandonIdleDoes
<1>23. CASE ExecDone(v)
  BY <1>23, ExecDoneDoes DEF ExecDone
<1>24. CASE SeeStopped(v)
  BY <1>24, SeeStoppedDoes DEF SeeStopped
<1>25. CASE Stopped(v)
  BY <1>25, StoppedDoes DEF Stopped, ctxResult
<1>26. CASE DeleteRunner(v)
  BY <1>26, DeleteRunnerDoes
<1>27. CASE RemoveLease(v)
  BY <1>27, RemoveLeaseDoes DEF RemoveLease
<1>28. CASE StopVM(v)
  BY <1>28, StopVMDoes DEF StopVM
<1>29. CASE DeleteVM(v)
  BY <1>29, DeleteVMDoes
<1>30. CASE GuestListens(v)
  BY <1>30, GuestListensDoes DEF GuestListens
<1>31. CASE GitHubAssigns(v)
  BY <1>31, GitHubAssignsDoes DEF GitHubAssigns
<1>32. CASE GuestExits(v)
  BY <1>32, GuestExitsDoes DEF GuestExits
<1>33. CASE GuestFails(v)
  BY <1>33, GuestFailsDoes DEF GuestFails
<1>34. CASE VMStops(v)
  BY <1>34, VMStopsDoes DEF VMStops
<1>35. CASE ExecStarts(v)
  BY <1>35, ExecStartsDoes DEF ExecStarts
<1>36. CASE ExecEnds(v)
  BY <1>36, ExecEndsDoes DEF ExecEnds
<1>37. CASE Observe(v)
  BY <1>37, ObserveDoes DEF Observe
<1>38. CASE Notify(v)
  BY <1>38, NotifyDoes DEF Notify
<1>39. CASE Grace(v)
  BY <1>39, GraceDoes DEF Grace
<1> HIDE DEF Irreversible
<1> QED
  BY <1>1, <1>2, <1>3, <1>4, <1>5, <1>6, <1>7, <1>8, <1>9, <1>10, <1>11, <1>12, <1>13,
     <1>14, <1>15, <1>16, <1>17, <1>18, <1>19, <1>20, <1>21, <1>22, <1>23, <1>24, <1>25,
     <1>26, <1>27, <1>28, <1>29, <1>30, <1>31, <1>32, <1>33, <1>34, <1>35, <1>36, <1>37,
     <1>38, <1>39
  DEF SpawnStep, Boot, Select, CleanUp, Guest

LEMMA StepLife ==
  ASSUME Types, NEW v \in VMs, LifeInv(v), SpawnStep(v)
  PROVE  LifeInv(v)'
<1> USE RunFields, Fault, SpawnAssumption, LeaseTypes
    DEF LifeInv, ctxResult, Results, Frame, Others, Types, RunIs, Moves, Returns,
        ReturnsGood, firstDeferred, at, live, cancelled, env, tap, gh, Fresh,
        NotStarted, NotRegistered, Teardown, Over, JobLoop, PreJob
<1>1. CASE SpawnBegins(v)
  BY <1>1, BeginDoes DEF SpawnBegins, Begin
<1>2. CASE Done(v)
  BY <1>2, DoneDoes DEF Done
<1>3. CASE Watch(v)
  BY <1>3, WatchDoes
<1>4. CASE Timeout(v)
  BY <1>4, TimeoutDoes
<1>5. CASE \E x \in Tells : Tell(v, x)
  BY <1>5, TellDoes DEF Tell
<1>6. CASE CheckDisk(v)
  BY <1>6, CheckDiskDoes DEF CheckDisk
<1>7. CASE CloneStart(v)
  BY <1>7, CloneStartDoes DEF CloneStart, ctxResult
<1>8. CASE CloneOk(v)
  BY <1>8, CloneOkDoes
<1>9. CASE CloneFails(v)
  BY <1>9, CloneFailsDoes DEF CloneFails
<1>10. CASE CloneKilled(v)
  BY <1>10, CloneKilledDoes DEF CloneKilled, ctxResult
<1>11. CASE WriteLease(v)
  BY <1>11, WriteLeaseDoes DEF WriteLease, truncateLease, writeLease
<1>12. CASE StartVM(v)
  BY <1>12, StartVMDoes DEF StartVM, ctxResult
<1>13. CASE waitUntilReady(v)
  BY <1>13, WaitDoes DEF waitUntilReady, ctxResult
<1>14. CASE SendJIT(v)
  BY <1>14, SendJITDoes DEF SendJIT, ctxResult
<1>15. CASE JITAnswered(v)
  BY <1>15, JITAnsweredDoes
<1>16. CASE JITFails(v)
  BY <1>16, JITFailsDoes DEF JITFails, ctxResult
<1>17. CASE WriteLease2(v)
  BY <1>17, WriteLease2Does DEF WriteLease2, truncateLease, writeLease
<1>18. CASE EnterJob(v)
  BY <1>18, EnterJobDoes
<1>19. CASE JobCtxDone(v)
  BY <1>19, JobCtxDoneDoes DEF JobCtxDone, ctxResult
<1>20. CASE SeeForce(v)
  BY <1>20, SeeForceDoes
<1>21. CASE SeeAbandon(v)
  BY <1>21, SeeAbandonDoes
<1>22. CASE AbandonIdle(v)
  BY <1>22, AbandonIdleDoes
<1>23. CASE ExecDone(v)
  BY <1>23, ExecDoneDoes DEF ExecDone
<1>24. CASE SeeStopped(v)
  BY <1>24, SeeStoppedDoes DEF SeeStopped
<1>25. CASE Stopped(v)
  BY <1>25, StoppedDoes DEF Stopped, ctxResult
<1>26. CASE DeleteRunner(v)
  BY <1>26, DeleteRunnerDoes
<1>27. CASE RemoveLease(v)
  BY <1>27, RemoveLeaseDoes DEF RemoveLease
<1>28. CASE StopVM(v)
  BY <1>28, StopVMDoes DEF StopVM
<1>29. CASE DeleteVM(v)
  BY <1>29, DeleteVMDoes
<1>30. CASE GuestListens(v)
  BY <1>30, GuestListensDoes DEF GuestListens
<1>31. CASE GitHubAssigns(v)
  BY <1>31, GitHubAssignsDoes DEF GitHubAssigns
<1>32. CASE GuestExits(v)
  BY <1>32, GuestExitsDoes DEF GuestExits
<1>33. CASE GuestFails(v)
  BY <1>33, GuestFailsDoes DEF GuestFails
<1>34. CASE VMStops(v)
  BY <1>34, VMStopsDoes DEF VMStops
<1>35. CASE ExecStarts(v)
  BY <1>35, ExecStartsDoes DEF ExecStarts
<1>36. CASE ExecEnds(v)
  BY <1>36, ExecEndsDoes DEF ExecEnds
<1>37. CASE Observe(v)
  BY <1>37, ObserveDoes DEF Observe
<1>38. CASE Notify(v)
  BY <1>38, NotifyDoes DEF Notify
<1>39. CASE Grace(v)
  BY <1>39, GraceDoes DEF Grace
<1> QED
  BY <1>1, <1>2, <1>3, <1>4, <1>5, <1>6, <1>7, <1>8, <1>9, <1>10, <1>11, <1>12, <1>13,
     <1>14, <1>15, <1>16, <1>17, <1>18, <1>19, <1>20, <1>21, <1>22, <1>23, <1>24, <1>25,
     <1>26, <1>27, <1>28, <1>29, <1>30, <1>31, <1>32, <1>33, <1>34, <1>35, <1>36, <1>37,
     <1>38, <1>39
  DEF SpawnStep, Boot, Select, CleanUp, Guest

LEMMA StepAgent ==
  ASSUME Types, NEW v \in VMs, LifeInv(v), AgentInv(v), SpawnStep(v)
  PROVE  AgentInv(v)'
<1> USE RunFields, Fault, SpawnAssumption, LeaseTypes
    DEF LifeInv, AgentInv, NoLease, TornLease, Frame, Others, Types, RunIs, Moves,
        Returns, ReturnsGood, firstDeferred, at, live, cancelled, env, tap, gh, Fresh,
        NotStarted, NotRegistered, Teardown, Over, JobLoop, PreJob
<1>1. CASE SpawnBegins(v)
  BY <1>1, BeginDoes DEF SpawnBegins, Begin
<1>2. CASE Done(v)
  BY <1>2, DoneDoes DEF Done
<1>3. CASE Watch(v)
  <2>1. run'[v].step = run[v].step /\ lease' = lease /\ session' = session
    BY <1>3, WatchDoes
  <2> QED
    BY <2>1
<1>4. CASE Timeout(v)
  <2>1. run'[v].step = run[v].step /\ lease' = lease /\ session' = session
    BY <1>4, TimeoutDoes
  <2> QED
    BY <2>1
<1>5. CASE \E x \in Tells : Tell(v, x)
  BY <1>5, TellDoes DEF Tell
<1>6. CASE CheckDisk(v)
  BY <1>6, CheckDiskDoes DEF CheckDisk
<1>7. CASE CloneStart(v)
  BY <1>7, CloneStartDoes DEF CloneStart, ctxResult
<1>8. CASE CloneOk(v)
  BY <1>8, CloneOkDoes
<1>9. CASE CloneFails(v)
  BY <1>9, CloneFailsDoes DEF CloneFails
<1>10. CASE CloneKilled(v)
  BY <1>10, CloneKilledDoes DEF CloneKilled, ctxResult
<1>11. CASE WriteLease(v)
  BY <1>11, WriteLeaseDoes DEF WriteLease, truncateLease, writeLease
<1>12. CASE StartVM(v)
  BY <1>12, StartVMDoes DEF StartVM, ctxResult
<1>13. CASE waitUntilReady(v)
  BY <1>13, WaitDoes DEF waitUntilReady, ctxResult
<1>14. CASE SendJIT(v)
  BY <1>14, SendJITDoes DEF SendJIT, ctxResult
<1>15. CASE JITAnswered(v)
  BY <1>15, JITAnsweredDoes
<1>16. CASE JITFails(v)
  BY <1>16, JITFailsDoes DEF JITFails, ctxResult
<1>17. CASE WriteLease2(v)
  BY <1>17, WriteLease2Does DEF WriteLease2, truncateLease, writeLease
<1>18. CASE EnterJob(v)
  BY <1>18, EnterJobDoes
<1>19. CASE JobCtxDone(v)
  BY <1>19, JobCtxDoneDoes DEF JobCtxDone, ctxResult
<1>20. CASE SeeForce(v)
  BY <1>20, SeeForceDoes
<1>21. CASE SeeAbandon(v)
  BY <1>21, SeeAbandonDoes
<1>22. CASE AbandonIdle(v)
  BY <1>22, AbandonIdleDoes
<1>23. CASE ExecDone(v)
  BY <1>23, ExecDoneDoes DEF ExecDone
<1>24. CASE SeeStopped(v)
  BY <1>24, SeeStoppedDoes DEF SeeStopped
<1>25. CASE Stopped(v)
  BY <1>25, StoppedDoes DEF Stopped, ctxResult
<1>26. CASE DeleteRunner(v)
  BY <1>26, DeleteRunnerDoes
<1>27. CASE RemoveLease(v)
  BY <1>27, RemoveLeaseDoes DEF RemoveLease
<1>28. CASE StopVM(v)
  BY <1>28, StopVMDoes DEF StopVM
<1>29. CASE DeleteVM(v)
  BY <1>29, DeleteVMDoes
<1>30. CASE GuestListens(v)
  BY <1>30, GuestListensDoes DEF GuestListens
<1>31. CASE GitHubAssigns(v)
  BY <1>31, GitHubAssignsDoes DEF GitHubAssigns
<1>32. CASE GuestExits(v)
  BY <1>32, GuestExitsDoes DEF GuestExits
<1>33. CASE GuestFails(v)
  BY <1>33, GuestFailsDoes DEF GuestFails
<1>34. CASE VMStops(v)
  BY <1>34, VMStopsDoes DEF VMStops
<1>35. CASE ExecStarts(v)
  BY <1>35, ExecStartsDoes DEF ExecStarts
<1>36. CASE ExecEnds(v)
  BY <1>36, ExecEndsDoes DEF ExecEnds
<1>37. CASE Observe(v)
  BY <1>37, ObserveDoes DEF Observe
<1>38. CASE Notify(v)
  BY <1>38, NotifyDoes DEF Notify
<1>39. CASE Grace(v)
  BY <1>39, GraceDoes DEF Grace
<1> QED
  BY <1>1, <1>2, <1>3, <1>4, <1>5, <1>6, <1>7, <1>8, <1>9, <1>10, <1>11, <1>12, <1>13,
     <1>14, <1>15, <1>16, <1>17, <1>18, <1>19, <1>20, <1>21, <1>22, <1>23, <1>24, <1>25,
     <1>26, <1>27, <1>28, <1>29, <1>30, <1>31, <1>32, <1>33, <1>34, <1>35, <1>36, <1>37,
     <1>38, <1>39
  DEF SpawnStep, Boot, Select, CleanUp, Guest

LEMMA StepLease ==
  ASSUME Types, NEW v \in VMs, "lease" \notin Faults, LifeInv(v), HasLease(v), SpawnStep(v)
  PROVE  HasLease(v)'
<1> USE RunFields, Fault, SpawnAssumption, LeaseTypes
    DEF LifeInv, HasLease, working, NoLease, TornLease, ctxResult, Frame, Others, Types,
        RunIs, Moves, Returns, ReturnsGood, firstDeferred, at, live, cancelled, env,
        tap, gh, Fresh, NotStarted, NotRegistered, Teardown, Over, JobLoop, PreJob
<1>1. CASE SpawnBegins(v)
  BY <1>1, BeginDoes DEF SpawnBegins, Begin
<1>2. CASE Done(v)
  BY <1>2, DoneDoes DEF Done
<1>3. CASE Watch(v)
  BY <1>3, WatchDoes
<1>4. CASE Timeout(v)
  BY <1>4, TimeoutDoes
<1>5. CASE \E x \in Tells : Tell(v, x)
  BY <1>5, TellDoes DEF Tell
<1>6. CASE CheckDisk(v)
  BY <1>6, CheckDiskDoes DEF CheckDisk
<1>7. CASE CloneStart(v)
  BY <1>7, CloneStartDoes DEF CloneStart, ctxResult
<1>8. CASE CloneOk(v)
  BY <1>8, CloneOkDoes
<1>9. CASE CloneFails(v)
  BY <1>9, CloneFailsDoes DEF CloneFails
<1>10. CASE CloneKilled(v)
  BY <1>10, CloneKilledDoes DEF CloneKilled, ctxResult
<1>11. CASE WriteLease(v)
  BY <1>11, WriteLeaseDoes DEF WriteLease, truncateLease, writeLease
<1>12. CASE StartVM(v)
  BY <1>12, StartVMDoes DEF StartVM, ctxResult
<1>13. CASE waitUntilReady(v)
  BY <1>13, WaitDoes DEF waitUntilReady, ctxResult
<1>14. CASE SendJIT(v)
  BY <1>14, SendJITDoes DEF SendJIT, ctxResult
<1>15. CASE JITAnswered(v)
  BY <1>15, JITAnsweredDoes
<1>16. CASE JITFails(v)
  BY <1>16, JITFailsDoes DEF JITFails, ctxResult
<1>17. CASE WriteLease2(v)
  <2>1. guest[v] = "down" /\ guest'[v] = "down" /\ run'[v].result = run[v].result
        /\ run'[v].step \in {"lease2Write", "enter"}
    BY <1>17, WriteLease2Does DEF WriteLease2, truncateLease, writeLease
  <2>2. run'[v].step = "enter" => lease'[v].kind = "lease"
    <3>1. ~fault("lease")
      BY DEF fault
    <3>2. CASE truncateLease(v, "lease2", "lease2Write", "enter")
      <4>1. goto(v, "lease2Write")
        BY <3>1, <3>2 DEF truncateLease
      <4>2. RunIs(v, "lease2Write", run[v].ctx, run[v].pushed, run[v].seen,
                  run[v].cancelReason, run[v].result, run[v].tries)
        BY <4>1, Goto DEF Steps
      <4> QED
        BY <4>2
    <3>3. CASE writeLease(v, "lease2Write", "enter")
      <4>1. lease' = [lease EXCEPT ![v] =
                        [kind |-> "lease", agent |-> session, aged |-> FALSE]]
        BY <3>1, <3>3 DEF writeLease
      <4> QED
        BY <4>1
    <3> QED
      BY <1>17, <3>2, <3>3 DEF WriteLease2
  <2> QED
    BY <2>1, <2>2
<1>18. CASE EnterJob(v)
  BY <1>18, EnterJobDoes
<1>19. CASE JobCtxDone(v)
  BY <1>19, JobCtxDoneDoes DEF JobCtxDone, ctxResult
<1>20. CASE SeeForce(v)
  BY <1>20, SeeForceDoes
<1>21. CASE SeeAbandon(v)
  BY <1>21, SeeAbandonDoes
<1>22. CASE AbandonIdle(v)
  BY <1>22, AbandonIdleDoes
<1>23. CASE ExecDone(v)
  BY <1>23, ExecDoneDoes DEF ExecDone
<1>24. CASE SeeStopped(v)
  BY <1>24, SeeStoppedDoes DEF SeeStopped
<1>25. CASE Stopped(v)
  BY <1>25, StoppedDoes DEF Stopped, ctxResult
<1>26. CASE DeleteRunner(v)
  BY <1>26, DeleteRunnerDoes
<1>27. CASE RemoveLease(v)
  BY <1>27, RemoveLeaseDoes DEF RemoveLease
<1>28. CASE StopVM(v)
  BY <1>28, StopVMDoes DEF StopVM
<1>29. CASE DeleteVM(v)
  BY <1>29, DeleteVMDoes
<1>30. CASE GuestListens(v)
  BY <1>30, GuestListensDoes DEF GuestListens
<1>31. CASE GitHubAssigns(v)
  BY <1>31, GitHubAssignsDoes DEF GitHubAssigns
<1>32. CASE GuestExits(v)
  BY <1>32, GuestExitsDoes DEF GuestExits
<1>33. CASE GuestFails(v)
  BY <1>33, GuestFailsDoes DEF GuestFails
<1>34. CASE VMStops(v)
  BY <1>34, VMStopsDoes DEF VMStops
<1>35. CASE ExecStarts(v)
  BY <1>35, ExecStartsDoes DEF ExecStarts
<1>36. CASE ExecEnds(v)
  BY <1>36, ExecEndsDoes DEF ExecEnds
<1>37. CASE Observe(v)
  BY <1>37, ObserveDoes DEF Observe
<1>38. CASE Notify(v)
  BY <1>38, NotifyDoes DEF Notify
<1>39. CASE Grace(v)
  BY <1>39, GraceDoes DEF Grace
<1> QED
  BY <1>1, <1>2, <1>3, <1>4, <1>5, <1>6, <1>7, <1>8, <1>9, <1>10, <1>11, <1>12, <1>13,
     <1>14, <1>15, <1>16, <1>17, <1>18, <1>19, <1>20, <1>21, <1>22, <1>23, <1>24, <1>25,
     <1>26, <1>27, <1>28, <1>29, <1>30, <1>31, <1>32, <1>33, <1>34, <1>35, <1>36, <1>37,
     <1>38, <1>39
  DEF SpawnStep, Boot, Select, CleanUp, Guest

Background ==
  \/ \E v \in VMs : SpawnStep(v) /\ UNCHANGED <<policy, rec>>
  \/ Signalled /\ UNCHANGED <<policy, rec>>
  \/ \E v \in VMs : Age(v)

LEMMA SpawnStepNext ==
  ASSUME NEW v \in VMs, SpawnStep(v)
  PROVE  SpawnNext(v)
  BY DEF SpawnStep, SpawnBegins, SpawnNext

(* What v does, for the others. *)
LEMMA OthersLive ==
  ASSUME NEW v \in VMs, NEW w \in VMs \ {v}, Others(v)
  PROVE  /\ LifeInv(w) => Irreversible(w) /\ LifeInv(w)'
         /\ AgentInv(w) => AgentInv(w)'
         /\ HasLease(w) => HasLease(w)'
  BY DEF Others, Irreversible, LifeInv, AgentInv, HasLease, working, at

LEMMA SignalledLive ==
  ASSUME Types, Signalled, NEW v \in VMs
  PROVE  /\ Irreversible(v)
         /\ (LifeInv(v) => LifeInv(v)') /\ (AgentInv(v) => AgentInv(v)')
         /\ (HasLease(v) => HasLease(v)')
  BY InterruptDoes
  DEF Signalled, Interrupt, tap, gh, Irreversible, LifeInv, AgentInv, HasLease, working, at

LEMMA NoLeaseFields == NoLease.kind = "none" /\ ~NoLease.aged
  BY DEF NoLease

LEMMA AgeDoes ==
  ASSUME RecTypes, NEW v \in VMs, Age(v)
  PROVE  /\ Types' /\ UNCHANGED <<env, run, tap, vm, gh, faults, policy, rec>>
         /\ lease[v].kind = "lease" /\ lease[v] # NoLease /\ lease'[v].kind = "lease"
         /\ lease'[v].agent = lease[v].agent /\ lease'[v].aged
         /\ \A w \in VMs \ {v} : lease'[w] = lease[w]
<1> DEFINE l == [lease[v] EXCEPT !.aged = TRUE]
<1>0. lease[v] \in Leases
  BY DEF RecTypes, Types
<1>1. /\ l \in Leases /\ l.kind = lease[v].kind /\ l.agent = lease[v].agent /\ l.aged
      /\ lease[v].kind = "lease" => lease[v] # NoLease
  BY <1>0, NoLeaseFields DEF Leases
<1>2. lease' = [lease EXCEPT ![v] = l]
  BY DEF Age
<1> HIDE DEF l
<1>3. lease' \in [VMs -> Leases] /\ lease'[v] = l /\ \A w \in VMs \ {v} : lease'[w] = lease[w]
  BY <1>1, <1>2 DEF RecTypes, Types
<1>4. /\ lease[v].kind = "lease"
      /\ UNCHANGED <<env, run, tap, vm, gh, faults, policy, rec>>
  BY DEF Age
<1> QED
  BY <1>1, <1>3, <1>4 DEF RecTypes, Types, env, tap, gh

LEMMA AgeLive ==
  ASSUME RecTypes, NEW v \in VMs, Age(v), NEW w \in VMs
  PROVE  /\ Irreversible(w)
         /\ (LifeInv(w) => LifeInv(w)') /\ (AgentInv(w) => AgentInv(w)')
         /\ (HasLease(w) => HasLease(w)')
<1>1. /\ UNCHANGED <<env, run, tap, vm, gh>> /\ lease[v] # NoLease
      /\ lease[w].kind = "lease" => lease'[w].kind = "lease"
      /\ lease'[w].kind = lease[w].kind /\ lease'[w].agent = lease[w].agent
      /\ lease[w] = NoLease => lease'[w] = NoLease
      /\ lease[w].aged => lease'[w].aged
  BY AgeDoes
<1> QED
  BY <1>1 DEF env, tap, gh, Irreversible, LifeInv, AgentInv, HasLease, working, at

LEMMA BackgroundLive ==
  ASSUME RecTypes, VMInv, Background
  PROVE  /\ RecTypes' /\ VMInv' /\ UNCHANGED <<policy, rec, session>> /\ faults <= faults'
         /\ \A w \in VMs : Irreversible(w)
         /\ "lease" \notin Faults /\ LeaseIInv => LeaseIInv'
<1>1. ASSUME NEW v \in VMs, SpawnStep(v), UNCHANGED <<policy, rec>>
      PROVE  /\ RecTypes' /\ VMInv' /\ UNCHANGED session /\ faults <= faults'
             /\ \A w \in VMs : Irreversible(w)
             /\ "lease" \notin Faults /\ LeaseIInv => LeaseIInv'
  <2>1. Frame(v)
    BY <1>1, SpawnStepNext, StepFrame DEF RecTypes
  <2>2. Types' /\ UNCHANGED session /\ faults <= faults'
    BY <2>1 DEF Frame, Others, RecTypes, Types
  <2>3. ASSUME NEW w \in VMs
        PROVE  /\ Irreversible(w) /\ LifeInv(w)' /\ AgentInv(w)'
               /\ "lease" \notin Faults /\ HasLease(w) => HasLease(w)'
    <3>1. LifeInv(w) /\ AgentInv(w)
      BY DEF VMInv
    <3>2. CASE w = v
      BY <1>1, <3>1, <3>2, StepIrreversible, StepLife, StepAgent, StepLease DEF RecTypes
    <3>3. CASE w # v
      BY <2>1, <3>1, <3>3, OthersLive DEF Frame
    <3> QED
      BY <3>2, <3>3
  <2> QED
    BY <1>1, <2>2, <2>3 DEF RecTypes, VMInv, LeaseIInv
<1>2. CASE Signalled /\ UNCHANGED <<policy, rec>>
  <2>1. Types' /\ UNCHANGED session /\ faults <= faults'
    BY <1>2, InterruptTypes DEF Signalled, Interrupt, RecTypes, Types
  <2>2. \A w \in VMs :
          /\ Irreversible(w) /\ (LifeInv(w) => LifeInv(w)')
          /\ (AgentInv(w) => AgentInv(w)') /\ (HasLease(w) => HasLease(w)')
    BY <1>2, SignalledLive DEF RecTypes
  <2> QED
    BY <1>2, <2>1, <2>2 DEF RecTypes, VMInv, LeaseIInv
<1>3. ASSUME NEW v \in VMs, Age(v)
      PROVE  /\ RecTypes' /\ VMInv' /\ UNCHANGED <<policy, rec, session>> /\ faults <= faults'
             /\ \A w \in VMs : Irreversible(w)
             /\ "lease" \notin Faults /\ LeaseIInv => LeaseIInv'
  <2>1. Types' /\ UNCHANGED <<policy, rec, session>> /\ faults <= faults'
    BY <1>3, AgeDoes DEF RecTypes, Types, env
  <2>2. \A w \in VMs :
          /\ Irreversible(w) /\ (LifeInv(w) => LifeInv(w)')
          /\ (AgentInv(w) => AgentInv(w)') /\ (HasLease(w) => HasLease(w)')
    BY <1>3, AgeLive
  <2> QED
    BY <2>1, <2>2 DEF RecTypes, VMInv, LeaseIInv
<1> QED
  BY <1>1, <1>2, <1>3 DEF Background

-----------------------------------------------------------------------------
(* What the loop has seen stays so while the spawns go on. *)

LEMMA BackgroundLoop ==
  ASSUME RecTypes, VMInv, LoopInv, Background
  PROVE  LoopInv'
<1>1. /\ UNCHANGED <<policy, rec, session>> /\ faults <= faults'
      /\ RecTypes' /\ \A w \in VMs : Irreversible(w)
  BY BackgroundLive
<1>2. rec \in Recs /\ faults \in Nat /\ faults' \in Nat
  BY <1>1, SpawnAssumption DEF RecTypes, Types
<1>3. /\ rec.runners \subseteq VMs /\ rec.vms \subseteq VMs
      /\ rec.todo \subseteq VMs /\ rec.cur \subseteq VMs
  BY <1>2, RecFields
<1>4. QuietInv'
  BY <1>1 DEF LoopInv, QuietInv, Irreversible
<1>5. ListInv'
  BY <1>1, <1>3 DEF LoopInv, ListInv, Irreversible, loopAt, NotStarted, VMSteps
<1>6. RunnersInv'
  BY <1>1, <1>3 DEF LoopInv, RunnersInv, NeverRuns, Irreversible, loopAt
<1>7. PolicyInv'
  BY <1>1, <1>3
  DEF LoopInv, PolicyInv, StillStale, MayStop, Irreversible, loopAt, hasLease, IsStale, at
<1>8. CleanInv'
  <2> SUFFICES ASSUME rec.clean
               PROVE  CleanInv'
    BY <1>1 DEF CleanInv
  <2>1. rec.step \in PurgeSteps \cup {"dead"}
    BY DEF LoopInv, CleanInv
  <2>2. \A w \in VMs : /\ vm[w] = "absent" => vm'[w] = "absent"
                       /\ runner[w] = "absent" => runner'[w] = "absent"
                       /\ lease[w] = NoLease => lease'[w] = NoLease
    BY <1>1, <2>1 DEF LoopInv, QuietInv, Irreversible
  <2>3. existing' \subseteq existing /\ registered' \subseteq registered
    BY <1>1, <2>2 DEF existing, registered, RecTypes, Types
  <2> QED
    BY <1>1, <2>2, <2>3 DEF LoopInv, CleanInv, loopAt
<1>9. PurgeInv'
  <2> SUFFICES ASSUME NEW w \in VMs, rec.step \in PurgeSteps, working(w)'
               PROVE  Outlives(w)'
    BY <1>1 DEF PurgeInv, Outlives, PurgeSteps, Purging, loopAt
  <2>1. working(w)
    BY <1>1 DEF LoopInv, QuietInv, Irreversible
  <2>2. \A n \in Nat : moreFailures(n) => moreFailures(n)'
    BY <1>1, <1>2 DEF moreFailures
  <2> QED
    BY <1>1, <2>1, <2>2 DEF LoopInv, PurgeInv, Outlives, loopAt
<1> QED
  BY <1>4, <1>5, <1>6, <1>7, <1>8, <1>9 DEF LoopInv

-----------------------------------------------------------------------------
(* The loop keeps the invariants. *)

LoopStep ==
  \/ Reconcile \/ Snapshot \/ ListRunners \/ ListVMs \/ LeaseMap
  \/ NextVM \/ ReclaimStop \/ ReclaimDelete \/ DropLease \/ NextRunner
  \/ BeginShutdown \/ CleanCommand
  \/ Wait \/ PurgeListVMs \/ PurgeListRunners \/ PurgeNextVM \/ PurgeStop \/ PurgeDelete
  \/ PurgeNextRunner \/ ClearLeases

LEMMA LoopTakes ==
  ASSUME RecTypes, LoopStep
  PROVE  Takes /\ rec' \in Recs
<1> USE DEF Looks, Drops, LoopGoes, LoopEnds, GoesOn, RecIs
<1>1. CASE Reconcile
  BY <1>1, ReconcileDoes
<1>2. CASE Snapshot
  BY <1>2, SnapshotDoes
<1>3. CASE ListRunners
  BY <1>3, ListRunnersDoes
<1>4. CASE ListVMs
  BY <1>4, ListVMsDoes
<1>5. CASE LeaseMap
  BY <1>5, LeaseMapDoes
<1>6. CASE NextVM
  BY <1>6, NextVMDoes
<1>7. CASE ReclaimStop
  BY <1>7, ReclaimStopDoes
<1>8. CASE ReclaimDelete
  BY <1>8, ReclaimDeleteDoes
<1>9. CASE DropLease
  BY <1>9, DropLeaseDoes
<1>10. CASE NextRunner
  BY <1>10, NextRunnerDoes
<1>11. CASE BeginShutdown
  BY <1>11, BeginShutdownDoes
<1>12. CASE CleanCommand
  BY <1>12, CleanCommandDoes
<1>13. CASE Wait
  BY <1>13, PurgeWaitDoes
<1>14. CASE PurgeListVMs
  BY <1>14, PurgeListVMsDoes
<1>15. CASE PurgeListRunners
  BY <1>15, PurgeListRunnersDoes
<1>16. CASE PurgeNextVM
  BY <1>16, PurgeNextVMDoes
<1>17. CASE PurgeStop
  BY <1>17, PurgeStopDoes
<1>18. CASE PurgeDelete
  BY <1>18, PurgeDeleteDoes
<1>19. CASE PurgeNextRunner
  BY <1>19, PurgeNextRunnerDoes
<1>20. CASE ClearLeases
  BY <1>20, ClearLeasesDoes
<1> QED
  BY <1>1, <1>2, <1>3, <1>4, <1>5, <1>6, <1>7, <1>8, <1>9, <1>10, <1>11, <1>12, <1>13,
     <1>14, <1>15, <1>16, <1>17, <1>18, <1>19, <1>20 DEF LoopStep

LEMMA LoopVMs ==
  ASSUME RecTypes, VMInv, Takes
  PROVE  VMInv'
<1> SUFFICES ASSUME NEW v \in VMs
             PROVE  LifeInv(v)' /\ AgentInv(v)'
  BY DEF VMInv
<1>1. LifeInv(v) /\ AgentInv(v) /\ Types
  BY DEF VMInv, RecTypes
<1>2. LifeInv(v)'
  BY <1>1 DEF Takes, LifeInv, env, tap, at, NotStarted, NotRegistered, Types
<1>3. AgentInv(v)'
  BY <1>1, NoLeaseFields DEF Takes, AgentInv, env, at
<1> QED
  BY <1>2, <1>3

LEMMA LoopLeases ==
  ASSUME RecTypes, VMInv, LoopInv, LoopStep, LeaseIInv,
         MaxFaults <= 1 \/ "reclaim" \notin Faults
  PROVE  LeaseIInv'
<1> SUFFICES ASSUME NEW v \in VMs
             PROVE  HasLease(v)'
  BY DEF LeaseIInv
<1>1. Takes /\ HasLease(v) /\ LifeInv(v) /\ Types
  BY LoopTakes DEF LeaseIInv, VMInv, RecTypes
<1>2. UNCHANGED lease => HasLease(v)'
  BY <1>1 DEF Takes, HasLease, working, env, Types
<1>3. CASE DropLease
  <2>1. v \in rec.cur => vm[v] = "absent"
    BY <1>3, DropLeaseDoes DEF LoopInv, ListInv
  <2> QED
    BY <1>1, <1>3, <2>1, DropLeaseDoes DEF HasLease, LifeInv, working, Takes, gh, env
<1>4. CASE ClearLeases
  <2>1. loopAt("clear")
    BY <1>4, ClearLeasesDoes
  <2>2. run[v].step \in {"unused", "done"}
    BY <2>1 DEF LoopInv, QuietInv, loopAt, PurgeSteps, Purging
  <2>3. ~moreFailures(1)
    BY <1>1, SpawnAssumption DEF moreFailures, Types
  <2>4. ~working(v)
    BY <2>1, <2>3 DEF LoopInv, PurgeInv, Outlives
  <2> QED
    BY <1>1, <1>4, <2>2, <2>4, ClearLeasesDoes
    DEF HasLease, working, Takes, gh, env, JobLoop
<1>5. CASE LoopStep /\ ~DropLease /\ ~ClearLeases
  <2>1. UNCHANGED lease
    BY <1>5, ReconcileDoes, SnapshotDoes, ListRunnersDoes, ListVMsDoes, LeaseMapDoes, NextVMDoes,
       ReclaimStopDoes, ReclaimDeleteDoes, NextRunnerDoes, BeginShutdownDoes,
       CleanCommandDoes, PurgeWaitDoes, PurgeListVMsDoes, PurgeListRunnersDoes,
       PurgeNextVMDoes, PurgeStopDoes, PurgeDeleteDoes, PurgeNextRunnerDoes
    DEF LoopStep, Looks
  <2> QED
    BY <1>2, <2>1
<1> QED
  BY <1>3, <1>4, <1>5

LEMMA QuietKept ==
  ASSUME RecTypes, VMInv, LoopInv, LoopStep
  PROVE  QuietInv'
<1> USE LoopTakes
    DEF LoopInv, QuietInv, Takes, env, loopAt, PurgeSteps, Purging, Looks, Drops, LoopGoes,
        LoopEnds, GoesOn, RecIs
<1>1. CASE Reconcile
  BY <1>1, ReconcileDoes
<1>2. CASE Snapshot
  BY <1>2, SnapshotDoes
<1>3. CASE ListRunners
  BY <1>3, ListRunnersDoes
<1>4. CASE ListVMs
  BY <1>4, ListVMsDoes
<1>5. CASE LeaseMap
  BY <1>5, LeaseMapDoes
<1>6. CASE NextVM
  BY <1>6, NextVMDoes
<1>7. CASE ReclaimStop
  BY <1>7, ReclaimStopDoes
<1>8. CASE ReclaimDelete
  BY <1>8, ReclaimDeleteDoes
<1>9. CASE DropLease
  BY <1>9, DropLeaseDoes
<1>10. CASE NextRunner
  BY <1>10, NextRunnerDoes
<1>11. CASE BeginShutdown
  BY <1>11, BeginShutdownDoes
<1>12. CASE CleanCommand
  BY <1>12, CleanCommandDoes
<1>13. CASE Wait
  BY <1>13, PurgeWaitDoes DEF VMInv, LifeInv
<1>14. CASE PurgeListVMs
  BY <1>14, PurgeListVMsDoes
<1>15. CASE PurgeListRunners
  BY <1>15, PurgeListRunnersDoes
<1>16. CASE PurgeNextVM
  BY <1>16, PurgeNextVMDoes
<1>17. CASE PurgeStop
  BY <1>17, PurgeStopDoes
<1>18. CASE PurgeDelete
  BY <1>18, PurgeDeleteDoes
<1>19. CASE PurgeNextRunner
  BY <1>19, PurgeNextRunnerDoes
<1>20. CASE ClearLeases
  BY <1>20, ClearLeasesDoes
<1> QED
  BY <1>1, <1>2, <1>3, <1>4, <1>5, <1>6, <1>7, <1>8, <1>9, <1>10, <1>11, <1>12, <1>13,
     <1>14, <1>15, <1>16, <1>17, <1>18, <1>19, <1>20 DEF LoopStep

LEMMA ListKept ==
  ASSUME RecTypes, VMInv, LoopInv, LoopStep
  PROVE  ListInv'
<1> USE LoopTakes, RecFields
    DEF LoopInv, ListInv, RecTypes, Takes, env, loopAt, Listing, VMSteps, Looks, Drops,
        LoopGoes, LoopEnds, GoesOn, RecIs
<1>1. CASE Reconcile
  BY <1>1, ReconcileDoes
<1>2. CASE Snapshot
  BY <1>2, SnapshotDoes
<1>3. CASE ListRunners
  BY <1>3, ListRunnersDoes
<1>4. CASE ListVMs
  BY <1>4, ListVMsDoes DEF VMInv, LifeInv, existing
<1>5. CASE LeaseMap
  BY <1>5, LeaseMapDoes
<1>6. CASE NextVM
  BY <1>6, NextVMDoes
<1>7. CASE ReclaimStop
  BY <1>7, ReclaimStopDoes
<1>8. CASE ReclaimDelete
  BY <1>8, ReclaimDeleteDoes
<1>9. CASE DropLease
  BY <1>9, DropLeaseDoes
<1>10. CASE NextRunner
  <2>1. Takes
    BY <1>10, NextRunnerDoes
  <2>2. PICK v \in rec.todo :
          \/ LoopEnds
          \/ RecIs("runners", rec.runners, rec.vms, rec.running, rec.atCap, rec.leases,
                   rec.todo \ {v}, rec.cur, rec.clean)
    BY <1>10, NextRunnerDoes
  <2>3. loopAt("runners")
    BY <1>10, NextRunnerDoes
  <2>4. CASE LoopEnds
    BY <2>1, <2>4
  <2>5. CASE RecIs("runners", rec.runners, rec.vms, rec.running, rec.atCap, rec.leases,
                   rec.todo \ {v}, rec.cur, rec.clean)
    <3>1. /\ rec'.step = "runners" /\ rec'.cur = rec.cur /\ rec'.hard \in {rec.hard, FALSE}
          /\ policy' = policy
      BY <2>1, <2>5
    <3> QED
      BY ONLY <3>1, LoopInv DEF LoopInv, ListInv, loopAt, Listing, VMSteps
  <2> QED
    BY <2>2, <2>4, <2>5
<1>11. CASE BeginShutdown
  BY <1>11, BeginShutdownDoes
<1>12. CASE CleanCommand
  BY <1>12, CleanCommandDoes
<1>13. CASE Wait
  BY <1>13, PurgeWaitDoes
<1>14. CASE PurgeListVMs
  <2>1. /\ rec'.step \in {"purgeRunners", "exit"} /\ rec'.hard \in {rec.hard, FALSE}
        /\ rec'.cur \in {rec.cur, {}} /\ policy' = policy
    BY <1>14, PurgeListVMsDoes
  <2> QED
    BY <2>1
<1>15. CASE PurgeListRunners
  BY <1>15, PurgeListRunnersDoes
<1>16. CASE PurgeNextVM
  BY <1>16, PurgeNextVMDoes
<1>17. CASE PurgeStop
  BY <1>17, PurgeStopDoes
<1>18. CASE PurgeDelete
  BY <1>18, PurgeDeleteDoes
<1>19. CASE PurgeNextRunner
  BY <1>19, PurgeNextRunnerDoes
<1>20. CASE ClearLeases
  BY <1>20, ClearLeasesDoes
<1> QED
  BY <1>1, <1>2, <1>3, <1>4, <1>5, <1>6, <1>7, <1>8, <1>9, <1>10, <1>11, <1>12, <1>13,
     <1>14, <1>15, <1>16, <1>17, <1>18, <1>19, <1>20 DEF LoopStep

LEMMA RunnersKept ==
  ASSUME RecTypes, VMInv, LoopInv, LoopStep
  PROVE  RunnersInv'
<1> USE LoopTakes, RecFields
    DEF LoopInv, RunnersInv, NeverRuns, RecTypes, Types, Takes, env, loopAt, VMSteps, Looks,
        Drops, LoopGoes, LoopEnds, GoesOn, RecIs
<1>1. CASE Reconcile
  BY <1>1, ReconcileDoes
<1>2. CASE Snapshot
  BY <1>2, SnapshotDoes
<1>3. CASE ListRunners
  BY <1>3, ListRunnersDoes DEF VMInv, LifeInv, registered, NotRegistered
<1>4. CASE ListVMs
  BY <1>4, ListVMsDoes DEF running
<1>5. CASE LeaseMap
  <2>1. PICK ls \in [VMs -> Leases] : GoesOn({}, rec.running, ls, rec.vms, rec.cur)
    BY <1>5, LeaseMapDoes
  <2>2. /\ loopAt("leases") /\ UNCHANGED <<vm, run>>
    BY <1>5, LeaseMapDoes
  <2>3. \A v \in rec.runners : NeverRuns(v) => NeverRuns(v)'
    BY <2>2
  <2>4. \A v \in rec.runners \ rec.running : NeverRuns(v)
    BY <2>2
  <2> HIDE DEF NeverRuns
  <2> QED
    BY <2>1, <2>2, <2>3, <2>4
<1>6. CASE NextVM
  <2>1. /\ loopAt("vms") /\ UNCHANGED <<vm, run>>
    BY <1>6, NextVMDoes
  <2>2. \A v \in rec.runners : NeverRuns(v) => NeverRuns(v)'
    BY <2>1
  <2>3. \A v \in rec.runners \ rec.running : NeverRuns(v)
    BY <2>1
  <2> HIDE DEF NeverRuns
  <2> QED
    BY <1>6, <2>1, <2>2, <2>3, NextVMDoes
<1>7. CASE ReclaimStop
  BY <1>7, ReclaimStopDoes
<1>8. CASE ReclaimDelete
  BY <1>8, ReclaimDeleteDoes
<1>9. CASE DropLease
  <2>1. /\ loopAt("dropLease") /\ UNCHANGED <<vm, run>>
        /\ GoesOn(rec.vms, rec.running \ rec.cur, rec.leases, rec.todo, {})
    BY <1>9, DropLeaseDoes DEF Takes
  <2>2. \A v \in rec.runners : v \in rec.cur \/ v \notin rec.running => NeverRuns(v)
    BY <2>1 DEF ListInv
  <2>3. \A v \in rec.runners : NeverRuns(v) => NeverRuns(v)'
    BY <2>1
  <2> HIDE DEF NeverRuns
  <2> QED
    BY <2>1, <2>2, <2>3
<1>10. CASE NextRunner
  BY <1>10, NextRunnerDoes
<1>11. CASE BeginShutdown
  BY <1>11, BeginShutdownDoes
<1>12. CASE CleanCommand
  BY <1>12, CleanCommandDoes
<1>13. CASE Wait
  BY <1>13, PurgeWaitDoes
<1>14. CASE PurgeListVMs
  BY <1>14, PurgeListVMsDoes
<1>15. CASE PurgeListRunners
  BY <1>15, PurgeListRunnersDoes
<1>16. CASE PurgeNextVM
  BY <1>16, PurgeNextVMDoes
<1>17. CASE PurgeStop
  BY <1>17, PurgeStopDoes
<1>18. CASE PurgeDelete
  BY <1>18, PurgeDeleteDoes
<1>19. CASE PurgeNextRunner
  BY <1>19, PurgeNextRunnerDoes
<1>20. CASE ClearLeases
  BY <1>20, ClearLeasesDoes
<1> QED
  BY <1>1, <1>2, <1>3, <1>4, <1>5, <1>6, <1>7, <1>8, <1>9, <1>10, <1>11, <1>12, <1>13,
     <1>14, <1>15, <1>16, <1>17, <1>18, <1>19, <1>20 DEF LoopStep

LEMMA PolicyKept ==
  ASSUME RecTypes, VMInv, LoopInv, LoopStep
  PROVE  PolicyInv'
<1>a. ASSUME NEW v \in VMs, rec'.leases = rec.leases, lease'[v] = lease[v]
      PROVE  /\ StillStale(v) => StillStale(v)'
             /\ rec'.atCap = rec.atCap /\ MayStop(v) => MayStop(v)'
  BY <1>a, LoopTakes DEF Takes, env, StillStale, MayStop, hasLease, IsStale, at
<1> USE <1>a, LoopTakes, RecFields
    DEF LoopInv, PolicyInv, RecTypes, loopAt, VMSteps,
        Looks, Drops, LoopGoes, LoopEnds, GoesOn, RecIs
<1>1. CASE Reconcile
  BY <1>1, ReconcileDoes
<1>2. CASE Snapshot
  BY <1>2, SnapshotDoes
<1>3. CASE ListRunners
  BY <1>3, ListRunnersDoes
<1>4. CASE ListVMs
  BY <1>4, ListVMsDoes
<1>5. CASE LeaseMap
  <2>1. PICK ls \in [VMs -> Leases] :
          /\ \A v \in VMs : ls[v].kind = "lease" => ls[v] = lease[v]
          /\ GoesOn({}, rec.running, ls, rec.vms, rec.cur)
    BY <1>5, LeaseMapDoes
  <2>2. ASSUME NEW v \in VMs, rec'.leases = ls
        PROVE  StillStale(v)'
    <3>1. session' = session /\ run' = run /\ lease' = lease /\ AgentInv(v)
      BY <1>5, LeaseMapDoes DEF VMInv, Takes, env
    <3> QED
      BY <2>1, <2>2, <3>1 DEF StillStale, hasLease, IsStale, AgentInv, at
  <2> QED
    BY <2>1, <2>2
<1>6. CASE NextVM
  <2>1. ASSUME NEW v \in rec.todo, ~sparesVM(v), v \in rec.running
        PROVE  MayStop(v)
    <3>1. StillStale(v) /\ (rec.hard => policy = "hard")
      BY <1>6, <2>1, NextVMDoes DEF ListInv
    <3> QED
      BY <2>1, <3>1
      DEF sparesVM, ShouldReclaimRunning, Policies, MayStop, StillStale, hasLease
  <2> QED
    BY <1>6, <2>1, NextVMDoes
<1>7. CASE ReclaimStop
  BY <1>7, ReclaimStopDoes
<1>8. CASE ReclaimDelete
  BY <1>8, ReclaimDeleteDoes
<1>9. CASE DropLease
  BY <1>9, DropLeaseDoes DEF ListInv
<1>10. CASE NextRunner
  BY <1>10, NextRunnerDoes
<1>11. CASE BeginShutdown
  BY <1>11, BeginShutdownDoes
<1>12. CASE CleanCommand
  BY <1>12, CleanCommandDoes
<1>13. CASE Wait
  BY <1>13, PurgeWaitDoes
<1>14. CASE PurgeListVMs
  BY <1>14, PurgeListVMsDoes
<1>15. CASE PurgeListRunners
  BY <1>15, PurgeListRunnersDoes
<1>16. CASE PurgeNextVM
  BY <1>16, PurgeNextVMDoes
<1>17. CASE PurgeStop
  BY <1>17, PurgeStopDoes
<1>18. CASE PurgeDelete
  BY <1>18, PurgeDeleteDoes
<1>19. CASE PurgeNextRunner
  BY <1>19, PurgeNextRunnerDoes
<1>20. CASE ClearLeases
  BY <1>20, ClearLeasesDoes
<1> QED
  BY <1>1, <1>2, <1>3, <1>4, <1>5, <1>6, <1>7, <1>8, <1>9, <1>10, <1>11, <1>12, <1>13,
     <1>14, <1>15, <1>16, <1>17, <1>18, <1>19, <1>20 DEF LoopStep

LEMMA CleanKept ==
  ASSUME RecTypes, VMInv, LoopInv, LoopStep
  PROVE  CleanInv'
<1>a. /\ existing' \subseteq existing /\ registered' \subseteq registered
      /\ existing \subseteq VMs /\ registered \subseteq VMs
      /\ \A v \in VMs : /\ vm'[v] = "absent" => v \notin existing'
                        /\ runner'[v] = "absent" => v \notin registered'
  BY LoopTakes DEF Takes, existing, registered, RecTypes, Types
<1>b. UNCHANGED lease => \A v \in VMs : lease[v] = NoLease => lease'[v] = NoLease
  OBVIOUS
<1> USE <1>a, <1>b, LoopTakes, RecFields
    DEF LoopInv, CleanInv, RecTypes, loopAt,
        PurgeSteps, Purging, Looks, Drops, LoopGoes, LoopEnds, GoesOn, RecIs
<1>1. CASE Reconcile
  BY <1>1, ReconcileDoes
<1>2. CASE Snapshot
  BY <1>2, SnapshotDoes
<1>3. CASE ListRunners
  BY <1>3, ListRunnersDoes
<1>4. CASE ListVMs
  BY <1>4, ListVMsDoes
<1>5. CASE LeaseMap
  BY <1>5, LeaseMapDoes
<1>6. CASE NextVM
  BY <1>6, NextVMDoes
<1>7. CASE ReclaimStop
  BY <1>7, ReclaimStopDoes
<1>8. CASE ReclaimDelete
  BY <1>8, ReclaimDeleteDoes
<1>9. CASE DropLease
  BY <1>9, DropLeaseDoes
<1>10. CASE NextRunner
  BY <1>10, NextRunnerDoes
<1>11. CASE BeginShutdown
  BY <1>11, BeginShutdownDoes
<1>12. CASE CleanCommand
  BY <1>12, CleanCommandDoes
<1>13. CASE Wait
  BY <1>13, PurgeWaitDoes
<1>14. CASE PurgeListVMs
  BY <1>14, PurgeListVMsDoes
<1>15. CASE PurgeListRunners
  BY <1>15, PurgeListRunnersDoes
<1>16. CASE PurgeNextVM
  BY <1>16, PurgeNextVMDoes
<1>17. CASE PurgeStop
  BY <1>17, PurgeStopDoes
<1>18. CASE PurgeDelete
  BY <1>18, PurgeDeleteDoes DEF ListInv
<1>19. CASE PurgeNextRunner
  BY <1>19, PurgeNextRunnerDoes
<1>20. CASE ClearLeases
  BY <1>20, ClearLeasesDoes
<1> QED
  BY <1>1, <1>2, <1>3, <1>4, <1>5, <1>6, <1>7, <1>8, <1>9, <1>10, <1>11, <1>12, <1>13,
     <1>14, <1>15, <1>16, <1>17, <1>18, <1>19, <1>20 DEF LoopStep

LEMMA PurgeKept ==
  ASSUME RecTypes, VMInv, LoopInv, LoopStep
  PROVE  PurgeInv'
<1> SUFFICES ASSUME NEW v \in VMs, working(v)'
             PROVE  Outlives(v)'
  BY DEF PurgeInv
<1>a. working(v) /\ guest'[v] # "down" /\ runner'[v] # "absent"
  BY LoopTakes DEF working, Takes, RecTypes, Types
<1>b. Outlives(v) /\ v \in existing /\ v \in running /\ v \in registered
  BY <1>a DEF LoopInv, PurgeInv, VMInv, LifeInv, working, existing, running, registered
<1>c. /\ moreFailures(0) => moreFailures(0)' /\ (Fails => moreFailures(1)')
      /\ moreFailures(1) => moreFailures(1)'
      /\ Fails => moreFailures(0)'
  BY LoopTakes, SpawnAssumption DEF Takes, RecTypes, Types, moreFailures, Fails
<1> USE <1>a, <1>b, <1>c, RecFields
    DEF Outlives, RecTypes, loopAt, Looks, Drops, LoopGoes, LoopEnds, GoesOn, RecIs
<1>1. CASE Reconcile
  BY <1>1, ReconcileDoes
<1>2. CASE Snapshot
  BY <1>2, SnapshotDoes
<1>3. CASE ListRunners
  BY <1>3, ListRunnersDoes
<1>4. CASE ListVMs
  BY <1>4, ListVMsDoes
<1>5. CASE LeaseMap
  BY <1>5, LeaseMapDoes
<1>6. CASE NextVM
  BY <1>6, NextVMDoes
<1>7. CASE ReclaimStop
  BY <1>7, ReclaimStopDoes
<1>8. CASE ReclaimDelete
  BY <1>8, ReclaimDeleteDoes
<1>9. CASE DropLease
  BY <1>9, DropLeaseDoes
<1>10. CASE NextRunner
  BY <1>10, NextRunnerDoes
<1>11. CASE BeginShutdown
  BY <1>11, BeginShutdownDoes
<1>12. CASE CleanCommand
  BY <1>12, CleanCommandDoes
<1>13. CASE Wait
  BY <1>13, PurgeWaitDoes
<1>14. CASE PurgeListVMs
  BY <1>14, PurgeListVMsDoes
<1>15. CASE PurgeListRunners
  BY <1>15, PurgeListRunnersDoes
<1>16. CASE PurgeNextVM
  BY <1>16, PurgeNextVMDoes
<1>17. CASE PurgeStop
  BY <1>17, PurgeStopDoes DEF LoopInv, ListInv
<1>18. CASE PurgeDelete
  BY <1>18, PurgeDeleteDoes DEF LoopInv, ListInv
<1>19. CASE PurgeNextRunner
  BY <1>19, PurgeNextRunnerDoes
<1>20. CASE ClearLeases
  BY <1>20, ClearLeasesDoes
<1> QED
  BY <1>1, <1>2, <1>3, <1>4, <1>5, <1>6, <1>7, <1>8, <1>9, <1>10, <1>11, <1>12, <1>13,
     <1>14, <1>15, <1>16, <1>17, <1>18, <1>19, <1>20 DEF LoopStep

-----------------------------------------------------------------------------
(* The process: it ends, and starts again. *)

LEMMA ProcessEnds ==
  ASSUME Types, processEnds, UNCHANGED <<session, vm, gh, lease, faults>>
  PROVE  /\ Types' /\ inFlight' = {}
         /\ \A v \in VMs :
              /\ run'[v].step = (IF at(v, "unused") THEN "unused" ELSE "done")
              /\ run'[v].result = (IF at(v, "unused") THEN "none" ELSE run[v].result)
              /\ exec'[v] = (IF at(v, "unused") THEN "none" ELSE "err")
<1> DEFINE ended(v) == [NewRun EXCEPT !.step = "done", !.result = run[v].result]
           r(v) == IF at(v, "unused") THEN NewRun ELSE ended(v)
<1>1. ASSUME NEW v \in VMs
      PROVE  /\ r(v) \in Runs
             /\ r(v).step = (IF at(v, "unused") THEN "unused" ELSE "done")
             /\ r(v).result = (IF at(v, "unused") THEN "none" ELSE run[v].result)
  <2>1. NewRun \in Runs /\ NewRun.step = "unused" /\ NewRun.result = "none"
    BY DEF NewRun, Runs, Steps, Results
  <2>2. ended(v) \in Runs /\ ended(v).step = "done" /\ ended(v).result = run[v].result
    BY RunFields DEF NewRun, Runs, Steps
  <2> HIDE DEF ended
  <2> QED
    BY <2>1, <2>2
<1>2. run' = [v \in VMs |-> r(v)]
  BY DEF processEnds
<1> HIDE DEF r
<1>3. run' \in [VMs -> Runs] /\ \A v \in VMs : run'[v] = r(v)
  BY <1>1, <1>2
<1>4. Types'
  BY <1>3 DEF processEnds, Types, gh
<1> QED
  BY <1>1, <1>3, <1>4 DEF processEnds

LEMMA EndKeeps ==
  ASSUME RecTypes, VMInv, processEnds,
         UNCHANGED <<session, vm, gh, lease, faults, policy>>, rec' \in Recs
  PROVE  /\ RecTypes' /\ VMInv' /\ (LeaseIInv => LeaseIInv')
         /\ \A v \in VMs : run'[v].step \in {"unused", "done"}
<1>1. /\ Types' /\ inFlight' = {}
      /\ \A v \in VMs :
           /\ run'[v].step = (IF at(v, "unused") THEN "unused" ELSE "done")
           /\ run'[v].result = (IF at(v, "unused") THEN "none" ELSE run[v].result)
           /\ exec'[v] = (IF at(v, "unused") THEN "none" ELSE "err")
  BY ProcessEnds DEF RecTypes
<1>2. ASSUME NEW v \in VMs
      PROVE  LifeInv(v)' /\ AgentInv(v)' /\ (HasLease(v) => HasLease(v)')
  <2>1. LifeInv(v) /\ AgentInv(v)
    BY DEF VMInv
  <2>2. LifeInv(v)'
    BY <1>1, <2>1
    DEF LifeInv, at, gh, NotRegistered, NotStarted, Fresh, PreJob, Teardown
  <2>3. AgentInv(v)'
    BY <1>1, <2>1 DEF AgentInv, at, Fresh
  <2>4. HasLease(v) => HasLease(v)'
    BY <1>1, <2>1 DEF LifeInv, HasLease, working, at, gh, Fresh, JobLoop
  <2> QED
    BY <2>2, <2>3, <2>4
<1> QED
  BY <1>1, <1>2 DEF RecTypes, VMInv, LeaseIInv

LEMMA EndedLoop ==
  ASSUME NEW ok \in BOOLEAN, Drops("dead", ok), ListInv, policy' = policy,
         \A v \in VMs : run'[v].step \in {"unused", "done"},
         ok => existing' = {} /\ registered' = {} /\ \A v \in VMs : lease'[v] = NoLease
  PROVE  LoopInv'
<1> USE DEF Drops, RecIs, loopAt, PurgeSteps, Purging
<1>1. QuietInv'
  BY DEF QuietInv
<1>2. ListInv'
  BY DEF ListInv, Listing, VMSteps
<1>3. RunnersInv' /\ PolicyInv'
  BY DEF RunnersInv, PolicyInv, VMSteps
<1>4. CleanInv'
  BY DEF CleanInv
<1>5. PurgeInv'
  BY DEF PurgeInv, Outlives
<1> QED
  BY <1>1, <1>2, <1>3, <1>4, <1>5 DEF LoopInv

LEMMA ExitKeeps ==
  ASSUME RecTypes, VMInv, LoopInv, Exit
  PROVE  RecTypes' /\ VMInv' /\ LoopInv' /\ (LeaseIInv => LeaseIInv')
<1>1. /\ loopAt("exit") /\ processEnds /\ rec.clean \in BOOLEAN
      /\ UNCHANGED <<session, vm, gh, lease, faults, policy>>
  BY RecFields DEF Exit, RecTypes
<1>2. Drops("dead", rec.clean)
  BY <1>1, LoopDrops DEF Exit, RecSteps
<1>3. rec.clean => existing' = {} /\ registered' = {} /\ \A v \in VMs : lease'[v] = NoLease
  BY <1>1 DEF LoopInv, CleanInv, existing, registered, loopAt, gh
<1>4. /\ RecTypes' /\ VMInv' /\ (LeaseIInv => LeaseIInv')
      /\ \A v \in VMs : run'[v].step \in {"unused", "done"}
  BY <1>1, <1>2, EndKeeps DEF Drops, RecIs
<1> QED
  BY <1>1, <1>2, <1>3, <1>4, EndedLoop DEF LoopInv

LEMMA CrashKeeps ==
  ASSUME RecTypes, VMInv, LoopInv, Crash
  PROVE  RecTypes' /\ VMInv' /\ LoopInv' /\ (LeaseIInv => LeaseIInv')
<1>1. processEnds /\ UNCHANGED <<session, vm, gh, lease, faults, policy>>
  BY DEF Crash
<1>2. Drops("dead", FALSE)
  BY LoopExits DEF Crash, RecSteps
<1>3. /\ RecTypes' /\ VMInv' /\ (LeaseIInv => LeaseIInv')
      /\ \A v \in VMs : run'[v].step \in {"unused", "done"}
  BY <1>1, <1>2, EndKeeps DEF Drops, RecIs
<1> QED
  BY <1>1, <1>2, <1>3, EndedLoop DEF LoopInv

LEMMA Started ==
  ASSUME NEW p \in Policies
  PROVE  /\ Starting(p) \in Recs /\ Starting(p).step = "snapshot"
         /\ Starting(p).hard => p = "hard"
         /\ Starting(p).todo = {} /\ Starting(p).cur = {} /\ ~Starting(p).clean
<1>1. NoRec \in Recs /\ NoRec.todo = {} /\ NoRec.cur = {} /\ NoRec.clean = FALSE
  BY NoRecFields
<1> QED
  BY <1>1 DEF Starting, Recs, RecSteps

(* Nothing was seen yet. *)
LEMMA StartedLoop ==
  ASSUME policy \in Policies, rec = Starting(policy)
  PROVE  rec \in Recs /\ LoopInv
<1>1. /\ rec \in Recs /\ rec.step = "snapshot" /\ (rec.hard => policy = "hard")
      /\ rec.todo = {} /\ rec.cur = {} /\ ~rec.clean
  BY Started
<1>2. QuietInv /\ ListInv /\ RunnersInv /\ PolicyInv /\ CleanInv /\ PurgeInv
  BY <1>1
  DEF QuietInv, ListInv, RunnersInv, PolicyInv, CleanInv, PurgeInv, Outlives, loopAt,
      Listing, VMSteps, PurgeSteps, Purging
<1> QED
  BY <1>1, <1>2 DEF LoopInv

LEMMA AgentStartKeeps ==
  ASSUME RecTypes, VMInv, LoopInv, AgentStart
  PROVE  RecTypes' /\ VMInv' /\ LoopInv' /\ (LeaseIInv => LeaseIInv')
<1>1. /\ loopAt("dead") /\ session' = session + 1 /\ rec' = Starting(policy)
      /\ UNCHANGED <<inFlight, signals, ctxDone, run, tap, vm, gh, lease, faults, policy>>
  BY DEF AgentStart
<1>2. rec' \in Recs /\ rec'.step = "snapshot" /\ (rec'.hard => policy = "hard")
      /\ rec'.todo = {} /\ rec'.cur = {} /\ ~rec'.clean
  BY <1>1, Started DEF RecTypes
<1>3. LoopInv'
  BY <1>1, <1>2
  DEF LoopInv, QuietInv, ListInv, RunnersInv, PolicyInv, CleanInv, PurgeInv, Outlives, loopAt,
      Listing, VMSteps, PurgeSteps, Purging
<1>4. Types'
  BY <1>1 DEF RecTypes, Types, tap, gh
<1>5. ASSUME NEW v \in VMs
      PROVE  LifeInv(v)' /\ AgentInv(v)' /\ (HasLease(v) => HasLease(v)')
  <2>1. LifeInv(v) /\ AgentInv(v) /\ run[v].step \in {"unused", "done"}
    BY <1>1 DEF VMInv, LoopInv, QuietInv, loopAt
  <2>2. lease[v].agent \in Nat /\ session \in Nat
    BY DEF RecTypes, Types, Leases
  <2>3. LifeInv(v)' /\ (HasLease(v) => HasLease(v)')
    BY <1>1, <2>1 DEF LifeInv, HasLease, working, at, tap, gh
  <2>4. AgentInv(v)'
    BY <1>1, <2>1, <2>2, NoLeaseFields DEF AgentInv, at, Fresh
  <2> QED
    BY <2>3, <2>4
<1> QED
  BY <1>1, <1>2, <1>3, <1>4, <1>5 DEF RecTypes, VMInv, LeaseIInv

-----------------------------------------------------------------------------
(* The theorems. *)

LEMMA RecInvInit == RecInit => RecIInv /\ LeaseIInv
<1> SUFFICES ASSUME RecInit PROVE RecIInv /\ LeaseIInv
  OBVIOUS
<1>1. Types
  BY InvInit DEF RecInit, IInv
<1>2. rec \in Recs /\ policy \in Policies /\ LoopInv
  BY StartedLoop DEF RecInit
<1>3. NewRun.step = "unused" /\ NewRun.result = "none"
  BY DEF NewRun
<1>4. ASSUME NEW v \in VMs
      PROVE  LifeInv(v) /\ AgentInv(v) /\ HasLease(v)
  <2>1. /\ run[v] = NewRun /\ vm[v] = "absent" /\ guest[v] = "down" /\ runner[v] = "absent"
        /\ lease[v] = NoLease /\ inFlight = {} /\ exec[v] = "none"
    BY DEF RecInit, Init
  <2> QED
    BY <1>3, <2>1, NoLeaseFields
    DEF LifeInv, AgentInv, HasLease, working, at, Teardown, JobLoop
<1> QED
  BY <1>1, <1>2, <1>4 DEF RecIInv, RecTypes, VMInv, LeaseIInv

LEMMA EachStep ==
  ASSUME RecNext
  PROVE  Background \/ LoopStep \/ Exit \/ Crash \/ AgentStart
  BY DEF RecNext, Background, LoopStep, ReclaimStep, PurgeStep

LEMMA RecInvNext == RecIInv /\ [RecNext]_recVars => RecIInv'
<1> SUFFICES ASSUME RecIInv, [RecNext]_recVars PROVE RecIInv'
  OBVIOUS
<1>1. RecTypes /\ VMInv /\ LoopInv
  BY DEF RecIInv
<1>2. CASE Background
  BY <1>1, <1>2, BackgroundLive, BackgroundLoop DEF RecIInv
<1>3. CASE LoopStep
  <2>1. Takes /\ rec' \in Recs
    BY <1>1, <1>3, LoopTakes
  <2>2. RecTypes' /\ VMInv'
    BY <1>1, <2>1, LoopVMs DEF Takes, RecTypes
  <2>3. LoopInv'
    BY <1>1, <1>3, QuietKept, ListKept, RunnersKept, PolicyKept, CleanKept, PurgeKept
    DEF LoopInv
  <2> QED
    BY <2>2, <2>3 DEF RecIInv
<1>4. CASE Exit \/ Crash \/ AgentStart
  BY <1>1, <1>4, ExitKeeps, CrashKeeps, AgentStartKeeps DEF RecIInv
<1>5. CASE UNCHANGED recVars
  <2>1. UNCHANGED <<inFlight, signals, ctxDone, session, run, exec, scan, idle, vm, guest,
                    printed, runner, lease, faults, policy, rec>>
    BY <1>5 DEF recVars, vars, env, tap, gh
  <2>2. RecTypes'
    BY <1>1, <2>1 DEF RecTypes, Types
  <2>3. VMInv'
    BY <1>1, <2>1 DEF VMInv, LifeInv, AgentInv, at
  <2>4. QuietInv' /\ ListInv' /\ RunnersInv' /\ PolicyInv'
    BY <1>1, <2>1
    DEF LoopInv, QuietInv, ListInv, RunnersInv, NeverRuns, PolicyInv, StillStale, MayStop,
        loopAt, hasLease, IsStale, at
  <2>5. CleanInv' /\ PurgeInv'
    BY <1>1, <2>1
    DEF LoopInv, CleanInv, PurgeInv, Outlives, working, moreFailures, existing, registered,
        loopAt
  <2> QED
    BY <2>2, <2>3, <2>4, <2>5 DEF RecIInv, LoopInv
<1> QED
  BY <1>2, <1>3, <1>4, <1>5, EachStep

LEMMA LeaseInvNext ==
  ASSUME "lease" \notin Faults, MaxFaults <= 1 \/ "reclaim" \notin Faults
  PROVE  RecIInv /\ LeaseIInv /\ [RecNext]_recVars => LeaseIInv'
<1> SUFFICES ASSUME RecIInv, LeaseIInv, [RecNext]_recVars PROVE LeaseIInv'
  OBVIOUS
<1>1. RecTypes /\ VMInv /\ LoopInv
  BY DEF RecIInv
<1>2. CASE Background
  BY <1>1, <1>2, BackgroundLive
<1>3. CASE LoopStep
  BY <1>1, <1>3, LoopLeases
<1>4. CASE Exit \/ Crash \/ AgentStart
  BY <1>1, <1>4, ExitKeeps, CrashKeeps, AgentStartKeeps
<1>5. CASE UNCHANGED recVars
  BY <1>5 DEF LeaseIInv, HasLease, working, recVars, vars, env, gh
<1> QED
  BY <1>2, <1>3, <1>4, <1>5, EachStep

(* The invariant from which the theorems below follow: through crashes and   *)
(* restarts, whatever fails and whatever the policy is.                      *)
THEOREM RecInvariance == RecSpec => []RecIInv
<1>1. RecInit => RecIInv
  BY RecInvInit
<1> QED
  BY <1>1, RecInvNext, PTL DEF RecSpec

(* reclaim.go's policies: whatever happens between the look at the leases    *)
(* and the stop, reclaim stops no VM of a crashed session that its policy    *)
(* spares, but under a full hypervisor.                                      *)
THEOREM PolicyHolds == RecSpec => []PolicyRespected
<1>1. RecIInv => PolicyRespected
  BY DEF RecIInv, LoopInv, PolicyInv, MayStop, PolicyRespected
<1> QED
  BY <1>1, RecInvariance, PTL

(* purge.go: a session's end or a clean command that reports no error leaves *)
(* no VM, no runner and no lease, whatever crashed before it.                *)
THEOREM CleanMeansClean == RecSpec => []CleanExitLeavesNothing
<1>1. RecIInv => CleanExitLeavesNothing
  BY DEF RecIInv, LoopInv, CleanInv, CleanExitLeavesNothing, loopAt
<1> QED
  BY <1>1, RecInvariance, PTL

(* reclaim.go takes no runner from a VM that is in flight and running,       *)
(* though its lists are of three different moments.                          *)
THEOREM RunnersSpared == RecSpec => RunningRunnerSpared
<1>1. RecIInv /\ [RecNext]_recVars =>
        [\A v \in VMs : loopAt("runners") /\ runner'[v] # runner[v] /\ v \in rec.todo \ rec'.todo
           => ~(v \in inFlight /\ vm[v] = "running")]_recVars
  <2> SUFFICES ASSUME RecIInv, RecNext, NEW v \in VMs, loopAt("runners"),
                      runner'[v] # runner[v], v \in rec.todo \ rec'.todo
               PROVE  vm[v] # "running"
    OBVIOUS
  <2>1. RecTypes /\ VMInv /\ LoopInv
    BY DEF RecIInv
  <2>2. CASE Background
    BY <2>1, <2>2, BackgroundLive
  <2>3. CASE LoopStep
    <3>1. NextRunner
      BY <2>1, <2>3, ReconcileDoes, SnapshotDoes, ListRunnersDoes, ListVMsDoes, LeaseMapDoes,
         NextVMDoes, ReclaimStopDoes, ReclaimDeleteDoes, DropLeaseDoes, BeginShutdownDoes,
         CleanCommandDoes, PurgeWaitDoes, PurgeListVMsDoes, PurgeListRunnersDoes,
         PurgeNextVMDoes, PurgeStopDoes, PurgeDeleteDoes, PurgeNextRunnerDoes, ClearLeasesDoes
      DEF LoopStep, loopAt
    <3>2. ~sparesRunner(v)
      BY <2>1, <3>1, NextRunnerDoes
    <3> QED
      BY <2>1, <3>2 DEF LoopInv, RunnersInv, NeverRuns, sparesRunner
  <2>4. CASE Exit \/ Crash \/ AgentStart
    BY <2>4 DEF Exit, Crash, AgentStart, gh
  <2> QED
    BY <2>2, <2>3, <2>4, EachStep
<1> QED
  BY <1>1, RecInvariance, PTL DEF RecSpec, RunningRunnerSpared

(* lease.go:204: if leases can be written, and unless reclaim fails twice, a *)
(* job under way has its lease on file, in every session after a crash too.  *)
THEOREM JobsHaveLeases ==
  ASSUME "lease" \notin Faults, MaxFaults <= 1 \/ "reclaim" \notin Faults
  PROVE  RecSpec => []JobHasLease
<1>1. RecInit => RecIInv /\ LeaseIInv
  BY RecInvInit
<1>2. (RecIInv /\ LeaseIInv) /\ [RecNext]_recVars => (RecIInv /\ LeaseIInv)'
  BY RecInvNext, LeaseInvNext
<1>3. LeaseIInv => JobHasLease
  BY DEF LeaseIInv, HasLease, working, JobHasLease
<1> QED
  BY <1>1, <1>2, <1>3, PTL DEF RecSpec
=============================================================================

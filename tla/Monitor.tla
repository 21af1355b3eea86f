------------------------------ MODULE Monitor ------------------------------
(***************************************************************************)
(* Alerts: the Monitor of src/internal/notify/notify.go and the sections   *)
(* of src/internal/pool that feed it.  A slot's goroutine, the loop's tick *)
(* and its reclaim each copy a snapshot under Pool.mu and evaluate it      *)
(* later under Monitor.mu, which is released around every webhook call.    *)
(*                                                                         *)
(* The loop's tickers are independent: its select takes a tick, a reclaim  *)
(* or the end of the session, in any order.  Time is counted in units that *)
(* hold a tick at least - the check interval, and as much as a pass of the *)
(* loop may delay it - as ages.  A unit ends when nothing is evaluated: an *)
(* evaluation takes no longer than the 2 s of its webhooks.                *)
(***************************************************************************)
EXTENDS Integers, FiniteSets

CONSTANTS
  Slots, Loop, None,
  StuckAfter,          \* 15 minutes, in whole units
  ReadyFailingAfter    \* DefaultReadyFailingAfter

ASSUME MonitorAssumption ==
  /\ StuckAfter \in Nat \ {0} /\ ReadyFailingAfter \in Nat \ {0}
  /\ Loop \notin Slots /\ None \notin Nat

VARIABLES
  slot,      \* each slot's runner
  fails,     \* consecutiveReadyFails
  lowDisk,
  phase,     \* "held" stands for phasePoolDrain too
  loop,      \* where Pool.Run is
  ticked,    \* the loop has ticked in this unit
  eval,      \* each goroutine's evaluation
  fired,     \* codes
  since,     \* age of the low disk, or None
  lastGood,  \* age of lastGoodAt
  told,      \* history: codes posted while their condition held, since it began
  lowFor     \* history: whole units of the low disk, until its end is cleared

pool    == <<slot, fails, lowDisk, phase, loop, ticked>>
monitor == <<fired, since, lastGood>>
vars    == <<pool, eval, monitor, told, lowFor>>

Codes == {"disk_blocked", "pool_stuck", "ready_failing"}
rules == <<"disk_blocked", "pool_stuck", "ready_failing">>

NoEval == [at |-> "idle"]
Goroutines == Slots \cup {Loop}

Init ==
  /\ slot = [s \in Slots |-> "off"]
  /\ fails = 0 /\ lowDisk = FALSE /\ phase = "run"
  /\ loop = "select" /\ ticked = FALSE
  /\ eval = [g \in Goroutines |-> NoEval]
  /\ fired = {} /\ since = None /\ lastGood = 0
  /\ told = {} /\ lowFor = 0

becomes(s, step) == slot' = [slot EXCEPT ![s] = step]
active == Cardinality({s \in Slots : slot[s] # "off"})
warm   == \A s \in Slots : slot[s] = "ready"

-----------------------------------------------------------------------------
(* evaluateAlerts: the snapshot, of which a rule asks only whether it is      *)
(* active ...                                                                *)
Active(c) ==
  CASE c = "disk_blocked"  -> lowDisk
    [] c = "pool_stuck"    ->
         /\ phase # "held" /\ ~lowDisk
         /\ active = 0 \/ (active >= Cardinality(Slots) /\ fails > 0)
    [] c = "ready_failing" -> phase # "held" /\ fails >= ReadyFailingAfter

over == phase = "shutdown"

snapshot(g) ==
  eval' = [eval EXCEPT ![g] =
    IF over THEN NoEval
    ELSE [at |-> "lock", snap |-> {c \in Codes : Active(c)}, rule |-> 1]]

(* go p.tick: one such goroutine at a time for a slot.                       *)
goTick(s) == eval[s] = NoEval /\ eval' = [eval EXCEPT ![s] = [at |-> "tick"]]

SlotTick(s) ==
  /\ eval[s].at = "tick"
  /\ snapshot(s)
  /\ UNCHANGED <<pool, monitor, told, lowFor>>

(* Mutant: every evaluation of a low disk starts its clock anew. *)
mutStarted == 0

(* ... and Evaluate.  Each section of Monitor.mu takes the rules in their    *)
(* order up to one that fires: fireLocked marks its code and releases the    *)
(* lock for the webhook, whose answer, or PostTimeout, changes nothing.      *)
started == IF since = None THEN 0 ELSE since

due(c) ==
  CASE c = "disk_blocked"  -> started >= StuckAfter
    [] c = "pool_stuck"    -> lastGood >= StuckAfter
    [] c = "ready_failing" -> TRUE

fires(r, snap) == rules[r] \in snap /\ due(rules[r]) /\ rules[r] \notin fired

(* Mutant: the clock of a disk that is not low is kept. *)
mutSustain(taken, snap) ==
  IF "disk_blocked" \in taken /\ "disk_blocked" \in snap THEN started ELSE since

sustain(taken, snap) ==
  IF "disk_blocked" \notin taken THEN since
  ELSE IF "disk_blocked" \in snap THEN started ELSE None

(* The episode told' is about, as it is now.                                 *)
ongoing(c) ==
  \/ c = "disk_blocked" /\ lowDisk
  \/ c = "ready_failing" /\ fails >= ReadyFailingAfter

(* pool_stuck stays fired until it is cleared.                               *)
ended(taken, snap) == taken \ (snap \cup {"pool_stuck"})

Evaluate(g) ==
  /\ eval[g].at = "lock"
  /\ LET snap  == eval[g].snap
         first == eval[g].rule
         firing == {r \in first .. 3 : fires(r, snap)}
         last  == IF firing = {} THEN 3 ELSE CHOOSE r \in firing : \A q \in firing : r <= q
         taken == {rules[r] : r \in first .. last}
         posts == {rules[r] : r \in firing \cap {last}}
     IN /\ fired' = (fired \ ended(taken, snap)) \cup posts
        /\ since' = sustain(taken, snap)
        /\ told' = told \cup {c \in posts : ongoing(c)}
        /\ eval' = [eval EXCEPT ![g] = IF posts = {} THEN NoEval ELSE [@ EXCEPT !.rule = last + 1]]
  /\ UNCHANGED <<pool, lastGood, lowFor>>

Cleared(c) ==
  /\ fired' = fired \ {c}
  /\ since' = IF c = "disk_blocked" THEN None ELSE since
  /\ lastGood' = IF c = "pool_stuck" THEN 0 ELSE lastGood

-----------------------------------------------------------------------------
(* A slot: its spawn, the guest that becomes ready or does not, the return   *)
(* of Spawner.Run and what the goroutine does with it.                       *)
Spawn(s) ==
  /\ slot[s] = "off"
  /\ phase = "run" /\ ~lowDisk
  /\ \A t \in Slots : slot[t] # "cold"          \* warming
  /\ becomes(s, "cold")
  /\ UNCHANGED <<fails, lowDisk, phase, loop, ticked, eval, monitor, told, lowFor>>

(* onIdleReady.                                                              *)
Ready(s) ==
  /\ slot[s] = "cold"
  /\ becomes(s, "ready")
  /\ goTick(s)
  /\ UNCHANGED <<fails, lowDisk, phase, loop, ticked, monitor, told, lowFor>>

Claim(s) ==
  /\ slot[s] = "ready"
  /\ becomes(s, "busy")
  /\ UNCHANGED <<fails, lowDisk, phase, loop, ticked, eval, monitor, told, lowFor>>

(* recordFailure of ErrWaitReady, when the ready check timed out.            *)
ReadyFails(s) ==
  /\ slot[s] = "cold" /\ fails < ReadyFailingAfter
  /\ \A t \in Slots : slot[t] # "leaving"          \* a boot that fails outlasts both
  /\ \A g \in Goroutines : eval[g] = NoEval      \* a slot's end and an evaluation
  /\ fails' = fails + 1
  /\ becomes(s, "leaving")
  /\ UNCHANGED <<lowDisk, phase, loop, ticked, eval, monitor, told, lowFor>>

(* Cancelled before it was ready.                                            *)
Canceled(s) ==
  /\ slot[s] = "cold" /\ phase # "run"
  /\ becomes(s, "leaving")
  /\ UNCHANGED <<fails, lowDisk, phase, loop, ticked, eval, monitor, told, lowFor>>

(* noteReadyOK comes first for every runner that reached ready, whether it   *)
(* did a job ("good") or was cancelled, idle or a failure ("used").          *)
Return(s, how) ==
  /\ slot[s] = "busy" \/ (slot[s] = "ready" /\ how = "used")
  /\ fails' = 0
  /\ told' = told \ {"ready_failing"}
  /\ becomes(s, how)
  /\ UNCHANGED <<lowDisk, phase, loop, ticked, eval, monitor, lowFor>>

ClearReady(s) ==
  /\ slot[s] \in {"good", "used"}
  /\ Cleared("ready_failing")
  /\ becomes(s, IF slot[s] = "good" THEN "reset" ELSE "leaving")
  /\ UNCHANGED <<fails, lowDisk, phase, loop, ticked, eval, told, lowFor>>

(* resetSpawnBackoff.                                                        *)
ClearStuck(s) ==
  /\ slot[s] = "reset"
  /\ Cleared("pool_stuck")
  /\ becomes(s, "leaving")
  /\ UNCHANGED <<fails, lowDisk, phase, loop, ticked, eval, told, lowFor>>

(* active--, and a tick to refill.                                           *)
Leave(s) ==
  /\ slot[s] = "leaving"
  /\ becomes(s, "off")
  /\ goTick(s)
  /\ UNCHANGED <<fails, lowDisk, phase, loop, ticked, monitor, told, lowFor>>

-----------------------------------------------------------------------------
(* The loop's select.                                                        *)
loopAt(step) == loop = step /\ eval[Loop] = NoEval

LoopTick ==
  /\ loopAt("select")
  /\ snapshot(Loop)
  /\ ticked' = TRUE
  /\ UNCHANGED <<slot, fails, lowDisk, phase, loop, monitor, told, lowFor>>

(* reclaim reads the disk, clears and evaluates.  A reading that fails ends  *)
(* it there and changes nothing.                                             *)
ReadDisk ==
  /\ loopAt("select")
  /\ lowDisk' \in BOOLEAN
  /\ loop' = IF lowDisk /\ ~lowDisk' THEN "clear" ELSE "evaluate"
  /\ told' = IF lowDisk' THEN told ELSE told \ {"disk_blocked"}
  /\ UNCHANGED <<slot, fails, phase, ticked, eval, monitor, lowFor>>

ClearDisk ==
  /\ loopAt("clear")
  /\ Cleared("disk_blocked")
  /\ loop' = "evaluate"
  /\ lowFor' = 0
  /\ UNCHANGED <<slot, fails, lowDisk, phase, ticked, eval, told>>

ReclaimEvaluates ==
  /\ loopAt("evaluate")
  /\ snapshot(Loop)
  /\ loop' = "select"
  /\ UNCHANGED <<slot, fails, lowDisk, phase, ticked, monitor, told, lowFor>>

(* A signal or a fatal error ends the loop; what its slots still do goes on. *)
drainAndWait ==
  /\ loopAt("select")
  /\ loop' = "ended"
  /\ phase' = "shutdown"
  /\ UNCHANGED <<slot, fails, lowDisk, ticked, eval, monitor, told, lowFor>>

(* The goroutine that waits for the signal, or a slot's fatal error.         *)
BeginShutdown ==
  /\ ~over
  /\ phase' = "shutdown"
  /\ UNCHANGED <<slot, fails, lowDisk, loop, ticked, eval, monitor, told, lowFor>>

(* A drain, or a stop, and the end of a drain: with its last runner, or once  *)
(* its force has had its time (pool_drain.go:94).                            *)
Hold ==
  /\ phase = "run"
  /\ phase' = "held"
  /\ UNCHANGED <<slot, fails, lowDisk, loop, ticked, eval, monitor, told, lowFor>>

Refill ==
  /\ phase = "held"
  /\ phase' = "run"
  /\ UNCHANGED <<slot, fails, lowDisk, loop, ticked, eval, monitor, told, lowFor>>

older(age) == IF age = StuckAfter THEN age ELSE age + 1

(* After a shutdown no evaluation begins, and no clock is read.              *)
Unit ==
  /\ ticked /\ ~over
  /\ \A g \in Goroutines : eval[g] = NoEval
  /\ ticked' = FALSE
  /\ since' = IF since = None THEN None ELSE older(since)
  /\ lastGood' = older(lastGood)
  /\ lowFor' = IF lowDisk THEN older(lowFor) ELSE lowFor
  /\ UNCHANGED <<slot, fails, lowDisk, phase, loop, eval, fired, told>>

Slot(s) ==
  \/ Spawn(s) \/ Ready(s) \/ ReadyFails(s) \/ Canceled(s) \/ Claim(s)
  \/ Return(s, "good") \/ Return(s, "used")
  \/ ClearReady(s) \/ ClearStuck(s) \/ Leave(s) \/ SlotTick(s)

LoopStep == LoopTick \/ ReadDisk \/ ClearDisk \/ ReclaimEvaluates \/ drainAndWait

Next ==
  \/ \E s \in Slots : Slot(s)
  \/ \E g \in Goroutines : Evaluate(g)
  \/ LoopStep \/ BeginShutdown
  \/ Hold \/ Refill \/ Unit

(* A goroutine that can go on does, and select, which picks at random, takes *)
(* the tick again and again; what a guest, a job, the disk or an operator    *)
(* does is owed to nobody.                                                   *)
Fairness ==
  /\ SF_vars(LoopTick) /\ WF_vars(ClearDisk \/ ReclaimEvaluates)
  /\ SF_vars(Unit)
  /\ \A g \in Goroutines : WF_vars(Evaluate(g))
  /\ \A s \in Slots : WF_vars(ClearReady(s) \/ ClearStuck(s) \/ Leave(s) \/ SlotTick(s))

Spec == Init /\ [][Next]_vars
FairSpec == Spec /\ Fairness

-----------------------------------------------------------------------------
posted(c) == c \notin fired /\ c \in fired'

(* Type correctness, and that a low disk has a clock only while its code is  *)
(* not fired or the clock ran out (notify.go:355-364).                       *)
TypeOK ==
  /\ slot \in [Slots -> {"off", "cold", "ready", "busy", "good", "used", "reset", "leaving"}]
  /\ fails \in 0 .. ReadyFailingAfter
  /\ fired \subseteq Codes /\ told \subseteq Codes
  /\ since \in 0 .. StuckAfter \cup {None} /\ lastGood \in 0 .. StuckAfter
  /\ "disk_blocked" \in fired => since # None

(* A snapshot that outlives the disk it is of may start the clock of a disk  *)
(* that has recovered, and the next low disk would find it running           *)
(* (pool.go:405, notify.go:388).  In whatever order the loop ticks and       *)
(* reclaims, the alert is not early by more than a unit, and none is posted  *)
(* of a disk whose recovery has been cleared.                                *)
DiskAlertIsSustained ==
  [][posted("disk_blocked") =>
       (lowDisk \/ loop = "clear") /\ lowFor + 1 >= StuckAfter]_vars

(* README.md:324 "Low disk has paused spawn for 15 minutes", to the letter:   *)
(* TLC refutes it by the case above.                                         *)
DiskAlertIsPunctual == [][posted("disk_blocked") => lowFor >= StuckAfter]_vars

(* src/README.md:325 "No warm capacity for 15 minutes while the pool is      *)
(* empty or full with ongoing ready-check failures (partial fill / healthy   *)
(* full pool do not alert ...)": no evaluation that begins while every slot  *)
(* has an idle runner would post pool_stuck.  TLC refutes it.                *)
HealthyFullPoolIsQuiet == warm /\ ~over => ~(Active("pool_stuck") /\ due("pool_stuck"))

(* An episode that goes on is told: a disk that stays low, and ready-check   *)
(* failures that reach the threshold, are posted although another goroutine  *)
(* posts or clears the same code meanwhile (pool.go:405, notify.go:348).     *)
EpisodeIsTold ==
  /\ lowDisk ~> ("disk_blocked" \in told \/ ~lowDisk \/ over)
  /\ fails >= ReadyFailingAfter ~> ("ready_failing" \in told \/ fails = 0 \/ phase # "run")
=============================================================================

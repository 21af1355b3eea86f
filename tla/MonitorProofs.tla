---------------------------- MODULE MonitorProofs ----------------------------
(***************************************************************************)
(* The alert of a low disk is at most a unit early: for any number of      *)
(* slots that evaluate beside the loop, whatever their snapshots saw, and  *)
(* whichever ticker the loop takes first.                                  *)
(***************************************************************************)
EXTENDS Monitor, TLAPS

(* What an evaluation has in hand. *)
Evals ==
  {NoEval} \cup [at : {"tick"}] \cup [at : {"lock"}, snap : SUBSET Codes, rule : 1..4]

Types ==
  /\ eval \in [Goroutines -> Evals]
  /\ lowDisk \in BOOLEAN
  /\ since \in 0..StuckAfter \cup {None}
  /\ lowFor \in 0..StuckAfter
  /\ ticked \in BOOLEAN

sawLow(g) == eval[g].at = "lock" /\ "disk_blocked" \in eval[g].snap

(* The loop's next evaluation will look at the disk.                         *)
Looks == eval[Loop].at = "lock" /\ eval[Loop].rule = 1

reported == lowDisk \/ loop = "clear"

(* The clock of a low disk is at most a unit older than the low disk.  That  *)
(* of a disk that has recovered is started by a snapshot from before, and    *)
(* the tick that each unit holds stops it, or the shutdown does.             *)
ClockInv ==
  /\ reported => \/ since = None \/ since <= lowFor + 1
                 \/ ~lowDisk /\ \A g \in Goroutines : ~sawLow(g)
  /\ ~reported => since \in {None, 0, 1}
  /\ ~reported /\ since = 1 =>
       /\ \A g \in Goroutines : ~sawLow(g)
       /\ ~ticked \/ Looks \/ over

DiskIInv == Types /\ ClockInv

-----------------------------------------------------------------------------
(* Operators. *)

(* What an evaluation has in hand, field by field. *)
LEMMA InHand ==
  ASSUME Types, NEW g \in Goroutines, eval[g].at = "lock"
  PROVE  /\ eval[g] \in [at : {"lock"}, snap : SUBSET Codes, rule : 1..4]
         /\ eval[g] # NoEval
  BY DEF Types, Evals, NoEval

(* A snapshot is of its moment. *)
LEMMA Snapshot ==
  ASSUME Types, NEW g \in Goroutines, snapshot(g)
  PROVE  /\ eval' \in [Goroutines -> Evals]
         /\ sawLow(g)' => lowDisk
         /\ ~over => eval'[g].at = "lock" /\ eval'[g].rule = 1
         /\ over => eval'[g] = NoEval
         /\ \A h \in Goroutines \ {g} : eval'[h] = eval[h]
<1> DEFINE e == [at |-> "lock", snap |-> {c \in Codes : Active(c)}, rule |-> 1]
<1>1. e \in Evals /\ e.at = "lock" /\ e.rule = 1
  BY DEF Evals
<1>2. "disk_blocked" \in e.snap <=> lowDisk
  BY DEF Active, Codes
<1>3. eval' = [eval EXCEPT ![g] = IF over THEN NoEval ELSE e]
  BY DEF snapshot
<1>4. NoEval \in Evals /\ NoEval.at = "idle"
  BY DEF Evals, NoEval
<1> HIDE DEF e
<1> QED
  BY <1>1, <1>2, <1>3, <1>4 DEF Types, sawLow

(* A tick that a slot has called for has seen nothing yet. *)
LEMMA TickCalled ==
  ASSUME Types, NEW s \in Slots, goTick(s)
  PROVE  /\ eval' \in [Goroutines -> Evals] /\ eval'[Loop] = eval[Loop]
         /\ \A g \in Goroutines : sawLow(g)' => sawLow(g)
<1>1. /\ s \in Goroutines /\ s # Loop /\ Loop \in Goroutines
      /\ eval' = [eval EXCEPT ![s] = [at |-> "tick"]]
  BY MonitorAssumption DEF Goroutines, goTick
<1> QED
  BY <1>1 DEF Types, Evals, sawLow

(* A section of Evaluate that begins with the first rule looks at the disk;  *)
(* a later one does not.                                                     *)
LEMMA Section ==
  ASSUME Types, NEW g \in Goroutines, Evaluate(g)
  PROVE  /\ eval' \in [Goroutines -> Evals]
         /\ eval'[g] = NoEval \/ (eval'[g].rule > 1 /\ (sawLow(g)' => sawLow(g)))
         /\ \A h \in Goroutines \ {g} : eval'[h] = eval[h]
         /\ eval[g].rule > 1 => since' = since
                                /\ ("disk_blocked" \in fired' <=> "disk_blocked" \in fired)
         /\ eval[g].rule = 1 =>
              /\ ~sawLow(g) => since' = None /\ "disk_blocked" \notin fired'
              /\ sawLow(g) =>
                   /\ since' = started
                   /\ "disk_blocked" \in fired' <=> "disk_blocked" \in fired \/ started >= StuckAfter
<1> DEFINE snap   == eval[g].snap
           first  == eval[g].rule
           firing == {r \in first .. 3 : fires(r, snap)}
           last   == IF firing = {} THEN 3 ELSE CHOOSE r \in firing : \A q \in firing : r <= q
           taken  == {rules[r] : r \in first .. last}
           posts  == {rules[r] : r \in firing \cap {last}}
<1>1. snap \subseteq Codes /\ first \in 1..4 /\ eval[g].at = "lock" /\ g \in Goroutines
  BY InHand DEF Evaluate
<1>2. /\ fired' = (fired \ ended(taken, snap)) \cup posts
      /\ since' = sustain(taken, snap)
      /\ eval' = [eval EXCEPT ![g] = IF posts = {} THEN NoEval ELSE [@ EXCEPT !.rule = last + 1]]
  BY DEF Evaluate
<1>3. rules[1] = "disk_blocked" /\ rules[2] = "pool_stuck" /\ rules[3] = "ready_failing"
  BY DEF rules
<1>4. firing \subseteq 1..3
  BY <1>1
<1>5. firing # {} => \E r \in firing : \A q \in firing : r <= q
  <2>1. CASE 1 \in firing
    BY <1>4, <2>1
  <2>2. CASE 1 \notin firing /\ 2 \in firing
    BY <1>4, <2>2
  <2>3. CASE 1 \notin firing /\ 2 \notin firing
    BY <1>4, <2>3
  <2> QED
    BY <2>1, <2>2, <2>3
<1>6. /\ last \in 1..3
      /\ firing # {} => last \in firing /\ \A q \in firing : last <= q
  BY <1>4, <1>5
<1>7. 1 \in firing <=> /\ first = 1 /\ "disk_blocked" \in snap
                       /\ started >= StuckAfter /\ "disk_blocked" \notin fired
  <2>1. due("disk_blocked") <=> started >= StuckAfter
    BY DEF due
  <2>2. fires(1, snap) <=> /\ "disk_blocked" \in snap
                           /\ started >= StuckAfter /\ "disk_blocked" \notin fired
    BY <1>3, <2>1 DEF fires
  <2>3. 1 \in first .. 3 <=> first = 1
    BY <1>1
  <2> QED
    BY <2>2, <2>3
<1>8. 1 \in firing => last = 1
  BY <1>4, <1>6
<1> HIDE DEF last, firing, snap, first
<1>9. "disk_blocked" \in posts <=> 1 \in firing
  BY <1>3, <1>4, <1>6, <1>8
<1>10. "disk_blocked" \in taken <=> first = 1
  BY <1>1, <1>3, <1>6
<1> HIDE DEF taken, posts
<1>11. /\ "disk_blocked" \in fired' <=>
             \/ "disk_blocked" \in fired /\ ~(first = 1 /\ "disk_blocked" \notin snap)
             \/ 1 \in firing
       /\ first # 1 => since' = since
       /\ first = 1 => since' = IF "disk_blocked" \in snap THEN started ELSE None
  BY <1>2, <1>9, <1>10 DEF ended, sustain
<1>12. /\ eval' \in [Goroutines -> Evals]
       /\ eval'[g] = NoEval \/ (eval'[g].rule > 1 /\ (sawLow(g)' => sawLow(g)))
       /\ \A h \in Goroutines \ {g} : eval'[h] = eval[h]
  <2> DEFINE e == IF posts = {} THEN NoEval ELSE [eval[g] EXCEPT !.rule = last + 1]
  <2>1. e \in Evals /\ (e = NoEval \/ (e.rule > 1 /\ e.snap = eval[g].snap))
    BY <1>1, <1>6, InHand DEF Evals
  <2>2. eval' = [eval EXCEPT ![g] = e]
    BY <1>2
  <2> HIDE DEF e
  <2> QED
    BY <1>1, <2>1, <2>2 DEF Types, sawLow
<1>13. sawLow(g) <=> "disk_blocked" \in snap
  BY <1>1 DEF sawLow, snap
<1> QED
  BY <1>1, <1>7, <1>11, <1>12, <1>13 DEF first

-----------------------------------------------------------------------------
(* The steps that neither evaluate nor change what the disk's clock is of. *)
Elsewhere == UNCHANGED <<lowDisk, loop, ticked, since, lowFor>>

LEMMA ElsewhereKeeps ==
  ASSUME DiskIInv, Elsewhere, over => over',
         eval' \in [Goroutines -> Evals], eval'[Loop] = eval[Loop],
         \A g \in Goroutines : sawLow(g)' => sawLow(g) \/ lowDisk
  PROVE  DiskIInv'
  BY DEF DiskIInv, Types, ClockInv, Looks, reported, Elsewhere

LEMMA DiskInit == Init => DiskIInv
<1> SUFFICES ASSUME Init PROVE DiskIInv
  OBVIOUS
<1>1. Types
  <2>1. eval \in [Goroutines -> Evals]
    BY DEF Init, Evals
  <2>2. lowDisk = FALSE /\ since = None /\ lowFor = 0 /\ ticked = FALSE
    BY DEF Init
  <2>3. 0 \in 0..StuckAfter
    BY MonitorAssumption
  <2> QED
    BY <2>1, <2>2, <2>3 DEF Types
<1>2. since = None /\ since # 1
  BY MonitorAssumption DEF Init
<1> QED
  BY <1>1, <1>2 DEF DiskIInv, ClockInv

LEMMA SlotStep ==
  ASSUME DiskIInv, NEW s \in Slots, Slot(s)
  PROVE  DiskIInv'
<1> USE DEF pool, monitor, Elsewhere, over
<1>0. Types /\ s \in Goroutines /\ s # Loop /\ Loop \in Goroutines
  BY MonitorAssumption DEF DiskIInv, Goroutines
<1>1. CASE Ready(s) \/ Leave(s)
  BY <1>0, <1>1, TickCalled, ElsewhereKeeps DEF Ready, Leave
<1>2. CASE SlotTick(s)
  <2>1. Elsewhere /\ snapshot(s) /\ (over => over')
    BY <1>2 DEF SlotTick
  <2>2. /\ eval' \in [Goroutines -> Evals] /\ \A g \in Goroutines \ {s} : eval'[g] = eval[g]
        /\ sawLow(s)' => lowDisk
    BY <1>0, <2>1, Snapshot
  <2>3. \A g \in Goroutines : sawLow(g)' => sawLow(g) \/ lowDisk
    BY <2>2 DEF sawLow
  <2> QED
    BY <1>0, <2>1, <2>2, <2>3, ElsewhereKeeps
<1>3. CASE Spawn(s) \/ ReadyFails(s) \/ Canceled(s) \/ Claim(s) \/ Return(s, "good")
           \/ Return(s, "used") \/ ClearReady(s) \/ ClearStuck(s)
  <2>1. Elsewhere /\ eval' = eval /\ (over => over')
    BY <1>3
    DEF Spawn, ReadyFails, Canceled, Claim, Return, ClearReady, ClearStuck, Cleared
  <2> QED
    BY <1>0, <2>1, ElsewhereKeeps DEF Types, sawLow
<1> QED
  BY <1>1, <1>2, <1>3 DEF Slot

LEMMA EvaluateStep ==
  ASSUME DiskIInv, NEW g \in Goroutines, Evaluate(g)
  PROVE  DiskIInv'
<1> USE MonitorAssumption
<1>0. /\ Types /\ Loop \in Goroutines /\ eval[g].rule \in 1..4 /\ eval[g].at = "lock"
      /\ UNCHANGED <<lowDisk, loop, ticked, lowFor, over>>
  BY InHand DEF DiskIInv, Goroutines, Evaluate, pool, over
<1>1. Types'
  BY <1>0, Section DEF Types, started
<1>2. \A h \in Goroutines : sawLow(h)' => sawLow(h)
  BY <1>0, Section DEF sawLow, NoEval
<1>3. Looks /\ ~Looks' => eval[g].rule = 1 /\ (sawLow(g) \/ since' = None)
  BY <1>0, Section DEF Looks
<1>4. /\ eval[g].rule # 1 => since' = since
      /\ eval[g].rule = 1 /\ ~sawLow(g) => since' = None
      /\ eval[g].rule = 1 /\ sawLow(g) => since' = IF since = None THEN 0 ELSE since
  BY <1>0, Section DEF started
<1>5. since \in 0..StuckAfter \cup {None} /\ lowFor \in 0..StuckAfter
  BY <1>0 DEF Types
<1>6. lowDisk' = lowDisk /\ reported' = reported /\ lowFor' = lowFor /\ ticked' = ticked
  BY <1>0 DEF reported
<1>7. ASSUME eval[g].rule = 1 /\ (~sawLow(g) \/ since = None) PROVE ClockInv'
  <2>1. since' = None \/ since' = 0
    BY <1>4, <1>7
  <2>2. since' # 1 /\ (since' = None \/ since' <= lowFor' + 1)
    BY <1>5, <1>6, <2>1
  <2> QED
    BY <1>6, <2>1, <2>2 DEF ClockInv
<1>8. ASSUME since' = since /\ (eval[g].rule = 1 => sawLow(g)) PROVE ClockInv'
  <2>1. Looks /\ ~Looks' => sawLow(g)
    BY <1>0, <1>3, <1>8 DEF Looks
  <2>2. over => over'
    BY <1>0
  <2> QED
    BY <1>2, <1>6, <1>8, <2>1, <2>2 DEF DiskIInv, ClockInv
<1>9. ClockInv'
  BY <1>0, <1>4, <1>7, <1>8
<1> QED
  BY <1>1, <1>9 DEF DiskIInv

LEMMA LoopKeeps ==
  ASSUME DiskIInv, LoopStep
  PROVE  DiskIInv'
<1> USE MonitorAssumption DEF pool, monitor, loopAt
<1>0. Types /\ Loop \in Goroutines /\ NoEval.at = "idle"
  BY DEF DiskIInv, Goroutines, NoEval
<1>1. CASE LoopTick
  <2>1. /\ eval' \in [Goroutines -> Evals] /\ \A h \in Goroutines \ {Loop} : eval'[h] = eval[h]
        /\ sawLow(Loop)' => lowDisk
        /\ Looks' \/ over
    BY <1>0, <1>1, Snapshot DEF LoopTick, Looks
  <2>2. UNCHANGED <<lowDisk, loop, since, lowFor, over>> /\ ticked' = TRUE /\ loop = "select"
    BY <1>1 DEF LoopTick, over
  <2>3. Types' /\ \A g \in Goroutines : sawLow(g)' => sawLow(g) \/ lowDisk
    BY <1>0, <2>1, <2>2 DEF Types, sawLow
  <2> QED
    BY <1>0, <2>1, <2>2, <2>3 DEF DiskIInv, ClockInv, reported
<1>2. CASE ReadDisk
  BY <1>0, <1>2 DEF ReadDisk, over, DiskIInv, Types, ClockInv, Looks, reported, sawLow
<1>3. CASE ClearDisk
  BY <1>0, <1>3 DEF ClearDisk, Cleared, over, DiskIInv, Types, ClockInv, reported
<1>4. CASE ReclaimEvaluates
  BY <1>0, <1>4, Snapshot
  DEF ReclaimEvaluates, over, DiskIInv, Types, ClockInv, Looks, reported, sawLow
<1>5. CASE drainAndWait
  BY <1>0, <1>5 DEF drainAndWait, over, DiskIInv, Types, ClockInv, Looks, reported, sawLow
<1> QED
  BY <1>1, <1>2, <1>3, <1>4, <1>5 DEF LoopStep

LEMMA DiskStep == DiskIInv /\ [Next]_vars => DiskIInv'
<1> SUFFICES ASSUME DiskIInv, [Next]_vars PROVE DiskIInv'
  OBVIOUS
<1>1. CASE Hold \/ Refill \/ BeginShutdown \/ UNCHANGED vars
  <2>1. Elsewhere /\ eval' = eval /\ (over => over')
    BY <1>1
    DEF Hold, Refill, BeginShutdown, vars, pool, monitor, Elsewhere,
        over
  <2> QED
    BY <2>1, ElsewhereKeeps DEF DiskIInv, Types, sawLow
<1>2. CASE Unit
  <2>1. Types /\ \A g \in Goroutines : eval[g] = NoEval /\ ~sawLow(g)
    BY <1>2 DEF Unit, DiskIInv, sawLow, NoEval
  <2>2. \A age \in 0..StuckAfter : older(age) \in 0..StuckAfter /\ older(age) \in {age, age + 1}
                                   /\ (older(age) = age => age = StuckAfter)
    BY MonitorAssumption DEF older
  <2>3. ~Looks /\ ticked /\ ticked' = FALSE /\ ~over
    BY <1>2, <2>1, MonitorAssumption DEF Unit, Looks, NoEval, Goroutines
  <2>4. /\ UNCHANGED <<lowDisk, loop, eval>>
        /\ since = None => since' = None
        /\ since # None => since' = older(since)
        /\ lowDisk => lowFor' = older(lowFor)
        /\ ~lowDisk => lowFor' = lowFor
    BY <1>2 DEF Unit
  <2>5. Types'
    BY <2>1, <2>2, <2>3, <2>4 DEF Types
  <2>6. ~reported => since \in {None, 0}
    BY <2>1, <2>3 DEF DiskIInv, ClockInv
  <2>7. lowDisk /\ since # None => since' <= lowFor' + 1
    <3> SUFFICES ASSUME lowDisk, since # None PROVE since' <= lowFor' + 1
      OBVIOUS
    <3>1. since \in 0..StuckAfter /\ lowFor \in 0..StuckAfter /\ since <= lowFor + 1
      BY <2>1 DEF Types, DiskIInv, ClockInv, reported
    <3> QED
      BY <3>1, <2>2, <2>4, MonitorAssumption
  <2>8. ~reported => since' \in {None, 0, 1}
    BY <2>1, <2>2, <2>4, <2>6, MonitorAssumption DEF Types
  <2>9. \A g \in Goroutines : ~sawLow(g)'
    BY <2>1, <2>4 DEF sawLow
  <2>10. ClockInv'
    BY <2>3, <2>4, <2>7, <2>8, <2>9 DEF ClockInv, reported
  <2> QED
    BY <2>5, <2>10 DEF DiskIInv
<1> QED
  BY <1>1, <1>2, SlotStep, EvaluateStep, LoopKeeps DEF Next

(* The inductive invariant of the disk's alert. *)
THEOREM DiskInvariance == Spec => []DiskIInv
<1> QED
  BY DiskInit, DiskStep, PTL DEF Spec

(* notify.go:388, pool.go:405: whoever evaluates the rule, whatever its       *)
(* snapshot saw and in whatever order the loop ticks and reclaims,            *)
(* disk_blocked is posted at most a unit early, and of no disk whose recovery *)
(* has been cleared.                                                          *)
THEOREM AlertSustained == Spec => DiskAlertIsSustained
<1>1. DiskIInv /\ [Next]_vars =>
        [posted("disk_blocked") =>
           (lowDisk \/ loop = "clear") /\ lowFor + 1 >= StuckAfter]_vars
  <2> SUFFICES ASSUME DiskIInv, [Next]_vars, posted("disk_blocked")
               PROVE  (lowDisk \/ loop = "clear") /\ lowFor + 1 >= StuckAfter
    OBVIOUS
  <2>1. PICK g \in Goroutines : Evaluate(g)
    <3>1. ASSUME NEW s \in Slots, Slot(s) PROVE FALSE
      BY <3>1
      DEF Slot, Spawn, Ready, ReadyFails, Canceled, Claim, Return, ClearReady, ClearStuck,
          Leave, SlotTick, Cleared, posted, monitor
    <3>2. /\ ~LoopStep /\ ~BeginShutdown
          /\ ~Hold /\ ~Refill /\ ~Unit /\ vars' # vars
      BY DEF LoopStep, LoopTick, ReadDisk, ClearDisk, ReclaimEvaluates, drainAndWait,
             BeginShutdown, Unit, Hold, Refill, Cleared, posted, monitor, vars
    <3> QED
      BY <3>1, <3>2 DEF Next
  <2>2. Types /\ sawLow(g) /\ since = StuckAfter
    <3>1. Types /\ eval[g].rule \in 1..4
      BY <2>1, InHand DEF DiskIInv, Evaluate
    <3>2. sawLow(g) /\ started >= StuckAfter
      BY <2>1, <3>1, Section DEF posted
    <3> QED
      BY <3>1, <3>2, MonitorAssumption DEF Types, started
  <2>3. since # None /\ since # 0
    BY <2>2, MonitorAssumption
  <2>4. reported
    BY <2>2, <2>3 DEF DiskIInv, ClockInv
  <2> QED
    BY <2>2, <2>3, <2>4, MonitorAssumption DEF DiskIInv, ClockInv, Types, reported
<1> QED
  BY <1>1, DiskInvariance, PTL DEF Spec, DiskAlertIsSustained

=============================================================================

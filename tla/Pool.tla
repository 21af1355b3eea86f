-------------------------------- MODULE Pool --------------------------------
(***************************************************************************)
(* The agent's runner pool: src/internal/pool/{pool,phase,pool_drain}.go   *)
(* and the files of src/internal/drainctl.  One action per critical        *)
(* section of Pool.mu and per operation on drain.request or drain.status,  *)
(* because the code holds no lock across them: the loop goroutine and one  *)
(* goroutine per spawned slot interleave between any two.                  *)
(*                                                                         *)
(* spawn.Spawner.Run is one slot's stay in "boot", "exec" and "job" here.  *)
(* Time is a choice: a deadline, a grace period or a backoff may have      *)
(* passed at any step that looks at the clock.                             *)
(***************************************************************************)
EXTENDS Integers, FiniteSets

CONSTANTS
  Slots,             \* identities of slot goroutines, reused once they end
  Loop,              \* the goroutine of Pool.Run
  Requests,          \* ids of drain and stop requests, each posted at most once
  StopRequests,      \* those of `utsusemi stop`: hold the pool empty afterwards
  ForceRequests,     \* those with --force
  LimitedRequests,   \* those with a deadline and without --force
  None,              \* no request, and no holder of a lock
  PoolSize,          \* cfg.PoolSize
  maxConsecutiveShortExits,
  MaxTicks,          \* bound: `go p.tick` goroutines pending at once
  MaxSessions,       \* bound: starts of the agent process
  Faults             \* bound: the events of AllFaults that may happen

ASSUME SlotsAssumption == IsFiniteSet(Slots) /\ Loop \notin Slots
ASSUME RequestsAssumption ==
  /\ StopRequests \subseteq Requests
  /\ ForceRequests \subseteq Requests
  /\ LimitedRequests \subseteq Requests \ ForceRequests
  /\ Requests \ StopRequests \subseteq ForceRequests \cup LimitedRequests
  /\ None \notin Requests \cup Slots \cup {Loop}
ASSUME BoundsAssumption ==
  /\ PoolSize \in Nat \ {0}
  /\ maxConsecutiveShortExits \in Nat \ {0}
  /\ MaxTicks \in Nat
  /\ MaxSessions \in Nat \ {0}

(* What the surroundings may do to the pool besides running its jobs. *)
AllFaults == {"failure", "killed", "unauthorized", "shortExit", "lowDisk", "interrupt", "crash"}

ASSUME FaultsAssumption == Faults \subseteq AllFaults

Procs == Slots \cup {Loop}

VARIABLES
  phase,         \* Pool.phase
  drain,         \* Pool.poolDrainState: [req, forced], NoDrain when nil
  active,        \* Pool.active
  warming,       \* Pool.warming
  lowDisk,       \* Pool.lowDisk
  backoff,       \* time.Now() is before Pool.backoffUntil
  shortExits,    \* Pool.shortExits
  fatalErr,      \* Pool.fatalErr # nil
  fatalCh,       \* an error waits in Pool.fatalCh
  ctxDone,       \* the context of Pool.Run is cancelled
  ticks,         \* pending `go p.tick(ctx)` goroutines
  registered,    \* keys of Pool.inFlightVMs and Pool.slotControls
  gate,          \* slots whose releaseWarming has not run
  ctrl,          \* signals of each slot's SlotControl
  pc,            \* where each goroutine is
  pending,       \* signals a slot read at registration and is about to apply
  fin,           \* locals of finishPoolDrain and syncHeldStatusActive
  work,          \* locals of the loop's controlTick
  statusMu,      \* holder of Pool.drainStatusMu
  request,       \* the file drain.request
  status,        \* the file drain.status
  session,       \* id of the agent process's session
  posted         \* requests some CLI has written

poolVars   == <<phase, drain, active, warming, lowDisk, backoff, shortExits,
                fatalErr, fatalCh, ctxDone, ticks>>
slotVars   == <<registered, gate, ctrl, pending>>
localVars  == <<fin, work, statusMu>>
fileVars   == <<request, status, posted>>
vars == <<poolVars, slotVars, localVars, fileVars, pc, session>>

-----------------------------------------------------------------------------
(* Absent values. *)

NoDrain   == [req |-> None, forced |-> FALSE]
NoRequest == [id |-> None, agent |-> 0]
NoStatus  == [req |-> None, agent |-> 0, state |-> "absent", active |-> 0,
              forced |-> FALSE, stop |-> FALSE, rejected |-> None, reason |-> "none"]
NoFin     == [req |-> None, err |-> FALSE, forced |-> FALSE, active |-> 0,
              refill |-> FALSE, loaded |-> NoStatus]
NoWork    == [path |-> "none", req |-> None, ctrls |-> {}, late |-> FALSE,
              st |-> NoDrain, active |-> 0, rejected |-> None, reason |-> "none"]

Phases     == {"run", "poolDrain", "held", "shutdown"}
SlotSteps  == {"free", "new", "signal", "boot", "exec", "job", "fatal",
               "unregister", "leave", "ungate", "maybeFinish", "finish", "finLock",
               "finWrite", "finRemove", "sync", "syncLoad", "syncWrite", "exit"}
LoopSteps  == {"dead", "start", "scrubRequest", "scrubStatus", "idle",
               "acceptLoad", "discard", "decide", "acceptRemove", "abandon",
               "forceRead", "forceSend", "writeRead", "writeLoad", "writeFile", "acceptDone",
               "busyLoad", "busyRead", "nonRunRead", "rejectWrite", "rejectRemove",
               "heldWrite", "heldRemove", "control", "finish", "finLock", "finWrite",
               "finRemove", "drainAndWait", "purge"}

Signals    == {"abandon", "force"}
Drains     == [req : Requests, forced : BOOLEAN] \cup {NoDrain}

(* Slots between tick's active++ and the deferred active--. *)
Counted == {"new", "signal", "boot", "exec", "job", "fatal", "unregister", "leave"}
(* Slots inside Spawner.Run. *)
Spawning == {"boot", "exec", "job"}

InFlight == {s \in Slots : pc[s] # "free"}

-----------------------------------------------------------------------------
(* Initial state of a process that has just taken utsusemi.lock. *)

FreshMemory ==
  /\ phase' = "run" /\ drain' = NoDrain
  /\ active' = 0 /\ warming' = 0
  /\ lowDisk' = FALSE /\ backoff' = FALSE /\ shortExits' = 0
  /\ fatalErr' = FALSE /\ fatalCh' = FALSE /\ ctxDone' = FALSE /\ ticks' = 0
  /\ registered' = {} /\ gate' = {}
  /\ ctrl' = [s \in Slots |-> {}]
  /\ pending' = [s \in Slots |-> {}]
  /\ fin' = [p \in Procs |-> NoFin]
  /\ work' = NoWork
  /\ statusMu' = None

Init ==
  /\ phase = "run" /\ drain = NoDrain
  /\ active = 0 /\ warming = 0
  /\ lowDisk = FALSE /\ backoff = FALSE /\ shortExits = 0
  /\ fatalErr = FALSE /\ fatalCh = FALSE /\ ctxDone = FALSE /\ ticks = 0
  /\ registered = {} /\ gate = {}
  /\ ctrl = [s \in Slots |-> {}]
  /\ pending = [s \in Slots |-> {}]
  /\ pc = [p \in Procs |-> IF p = Loop THEN "start" ELSE "free"]
  /\ fin = [p \in Procs |-> NoFin]
  /\ work = NoWork
  /\ statusMu = None
  /\ request = NoRequest /\ status = NoStatus /\ posted = {}
  /\ session = 1

-----------------------------------------------------------------------------
(* Helpers. *)

goto(p, step) == pc' = [pc EXCEPT ![p] = step]

at(p, step) == pc[p] = step

(* phase.go: phaseShutdown is sticky; leaving poolDrain for anything but    *)
(* shutdown drops the drain state.                                          *)
nextPhase(to) == IF phase = "shutdown" THEN "shutdown" ELSE to

(* Mutant: leaving poolDrain keeps the drain state. *)
mutDrainAfter(to) == drain

drainAfter(to) ==
  IF phase = "poolDrain" /\ to \notin {"poolDrain", "shutdown"} THEN NoDrain ELSE drain

setPhase(to) == phase' = nextPhase(to) /\ drain' = drainAfter(to)

(* `go p.tick(ctx)`: one more pending tick. *)
goTick == ticks' = IF ticks < MaxTicks THEN ticks + 1 ELSE ticks

-----------------------------------------------------------------------------
(* The fill gate: tick, and the goroutine it starts. *)

(* Mutants of tick's guards: no capacity check, no warming check, no phase check. *)
mutNoCapacity == phase = "run" /\ ~lowDisk /\ ~backoff /\ warming = 0
mutNoWarming  == phase = "run" /\ ~lowDisk /\ ~backoff /\ active < PoolSize
mutNoPhase    == ~lowDisk /\ ~backoff /\ warming = 0 /\ active < PoolSize

canSpawn ==
  /\ phase = "run"
  /\ ~lowDisk
  /\ ~backoff
  /\ warming = 0
  /\ active < PoolSize

spawn(s) ==
  /\ canSpawn
  /\ at(s, "free")
  /\ active' = active + 1
  /\ warming' = warming + 1
  /\ gate' = gate \cup {s}
  /\ goto(s, "new")

(* The ticker of Pool.Run fires. *)
LoopTick(s) ==
  /\ at(Loop, "idle")
  /\ spawn(s)
  /\ UNCHANGED <<phase, drain, lowDisk, backoff, shortExits, fatalErr, fatalCh,
                 ctxDone, ticks, registered, ctrl, pending, localVars, fileVars, session>>

(* A tick started by a slot or by finishPoolDrain; it spawns or it does not. *)
AsyncTick ==
  /\ ticks > 0
  /\ ticks' = ticks - 1
  /\ \/ \E s \in Slots : spawn(s)
     \/ ~canSpawn /\ UNCHANGED <<active, warming, gate, pc>>
  /\ UNCHANGED <<phase, drain, lowDisk, backoff, shortExits, fatalErr, fatalCh,
                 ctxDone, registered, ctrl, pending, localVars, fileVars, session>>

(* newVMName fails: recordFailure, and nothing was registered. *)
NameFails(s) ==
  /\ "failure" \in Faults
  /\ at(s, "new")
  /\ backoff' = TRUE
  /\ goto(s, "leave")
  /\ UNCHANGED <<phase, drain, active, warming, lowDisk, shortExits, fatalErr, fatalCh,
                 ctxDone, ticks, slotVars, localVars, fileVars, session>>

(* Mutant: a slot that registers during a drain does not look at the phase. *)
mutRegister(s) ==
  /\ at(s, "new")
  /\ registered' = registered \cup {s}
  /\ goto(s, "signal")
  /\ UNCHANGED <<poolVars, gate, ctrl, pending, localVars, fileVars, session>>

(* The slot publishes its SlotControl and reads the phase in one section. *)
Register(s) ==
  /\ at(s, "new")
  /\ registered' = registered \cup {s}
  /\ pending' = [pending EXCEPT ![s] =
                   IF phase # "poolDrain" THEN {}
                   ELSE IF drain.forced THEN Signals ELSE {"abandon"}]
  /\ goto(s, "signal")
  /\ UNCHANGED <<poolVars, gate, ctrl, localVars, fileVars, session>>

Signal(s) ==
  /\ at(s, "signal")
  /\ ctrl' = [ctrl EXCEPT ![s] = @ \cup pending[s]]
  /\ pending' = [pending EXCEPT ![s] = {}]
  /\ goto(s, "boot")
  /\ UNCHANGED <<poolVars, registered, gate, localVars, fileVars, session>>

(* Clone, boot and registration are over: the guest runs the runner. *)
StartExec(s) ==
  /\ at(s, "boot")
  /\ goto(s, "exec")
  /\ UNCHANGED <<poolVars, slotVars, localVars, fileVars, session>>

(* releaseWarming runs at most once per slot, then `go p.tick`. *)
IdleReady(s) ==
  /\ pc[s] \in {"exec", "job"}
  /\ s \in gate
  /\ gate' = gate \ {s}
  /\ warming' = warming - 1
  /\ goTick
  /\ UNCHANGED <<phase, drain, active, lowDisk, backoff, shortExits, fatalErr, fatalCh,
                 ctxDone, registered, ctrl, pending, pc, localVars, fileVars, session>>

(* claimScanner sees the claim marker. *)
Claim(s) ==
  /\ at(s, "exec")
  /\ goto(s, "job")
  /\ UNCHANGED <<poolVars, slotVars, localVars, fileVars, session>>

(* Signals that cancel the slot where it is: Force always, AbandonIdle only *)
(* before a claim, the agent's context always.                              *)
cancelled(s) ==
  \/ "force" \in ctrl[s]
  \/ "abandon" \in ctrl[s] /\ pc[s] # "job"
  \/ ctxDone

(* Run returns context.Canceled: no backoff. *)
ReturnCanceled(s) ==
  /\ pc[s] \in Spawning
  /\ cancelled(s)
  /\ goto(s, "unregister")
  /\ UNCHANGED <<poolVars, slotVars, localVars, fileVars, session>>

(* Run returns any other error, a job timeout included: recordFailure.  A    *)
(* cancelled spawn does so too when the cancel killed a command it waited    *)
(* for (module Spawn, CloneKilled and ExecEnds).                             *)
ReturnFailed(s) ==
  /\ "failure" \in Faults \/ ("killed" \in Faults /\ cancelled(s))
  /\ pc[s] \in Spawning
  /\ backoff' = TRUE
  /\ goto(s, "unregister")
  /\ UNCHANGED <<phase, drain, active, warming, lowDisk, shortExits, fatalErr, fatalCh,
                 ctxDone, ticks, slotVars, localVars, fileVars, session>>

(* CreateJIT is unauthorized. *)
ReturnUnauthorized(s) ==
  /\ "unauthorized" \in Faults
  /\ at(s, "boot")
  /\ goto(s, "fatal")
  /\ UNCHANGED <<poolVars, slotVars, localVars, fileVars, session>>

(* The job was claimed, or the runner stayed long enough: resetSpawnBackoff. *)
ReturnGood(s) ==
  /\ pc[s] \in {"exec", "job"}
  /\ backoff' = FALSE
  /\ shortExits' = 0
  /\ goto(s, "unregister")
  /\ UNCHANGED <<phase, drain, active, warming, lowDisk, fatalErr, fatalCh, ctxDone,
                 ticks, slotVars, localVars, fileVars, session>>

(* An unclaimed exit outside the short band and below 60 s changes nothing, *)
(* and neither does an exit whose job phase has no timing.                  *)
ReturnNeutral(s) ==
  /\ pc[s] \in {"exec", "job"}
  /\ goto(s, "unregister")
  /\ UNCHANGED <<poolVars, slotVars, localVars, fileVars, session>>

(* An unclaimed exit in the idle-timeout band: recordShortExit. *)
ReturnShort(s) ==
  /\ "shortExit" \in Faults
  /\ at(s, "exec")
  /\ shortExits' = shortExits + 1
  /\ backoff' = TRUE
  /\ goto(s, IF shortExits' >= maxConsecutiveShortExits THEN "fatal" ELSE "unregister")
  /\ UNCHANGED <<phase, drain, active, warming, lowDisk, fatalErr, fatalCh, ctxDone,
                 ticks, slotVars, localVars, fileVars, session>>

(* Mutant: the fatal error stops the filling but is not sent to Run. *)
mutReportFatal(s) ==
  /\ at(s, "fatal")
  /\ fatalErr' = TRUE
  /\ setPhase("shutdown")
  /\ goto(s, "unregister")
  /\ UNCHANGED <<active, warming, lowDisk, backoff, shortExits, fatalCh, ctxDone, ticks,
                 slotVars, localVars, fileVars, session>>

(* Only the first fatal error reaches fatalCh; the context stays live. *)
reportFatal(s) ==
  /\ at(s, "fatal")
  /\ fatalErr' = TRUE
  /\ IF fatalErr
     THEN UNCHANGED <<phase, drain, fatalCh>>
     ELSE setPhase("shutdown") /\ fatalCh' = TRUE
  /\ goto(s, "unregister")
  /\ UNCHANGED <<active, warming, lowDisk, backoff, shortExits, ctxDone, ticks,
                 slotVars, localVars, fileVars, session>>

(* The deferred calls of the slot's goroutine, last in first out. *)
Unregister(s) ==
  /\ at(s, "unregister")
  /\ registered' = registered \ {s}
  /\ goto(s, "leave")
  /\ UNCHANGED <<poolVars, gate, ctrl, pending, localVars, fileVars, session>>

Leave(s) ==
  /\ at(s, "leave")
  /\ active' = active - 1
  /\ goto(s, "ungate")
  /\ UNCHANGED <<phase, drain, warming, lowDisk, backoff, shortExits, fatalErr, fatalCh,
                 ctxDone, ticks, slotVars, localVars, fileVars, session>>

(* Mutants: releaseWarming without OnceFunc, and not deferred at all. *)
mutUngateTwice(s) ==
  /\ at(s, "ungate")
  /\ warming' = warming - 1
  /\ gate' = gate \ {s}
  /\ goto(s, "maybeFinish")
  /\ UNCHANGED <<phase, drain, active, lowDisk, backoff, shortExits, fatalErr, fatalCh,
                 ctxDone, ticks, registered, ctrl, pending, localVars, fileVars, session>>

mutNoUngate(s) ==
  /\ at(s, "ungate")
  /\ goto(s, "maybeFinish")
  /\ UNCHANGED <<poolVars, slotVars, localVars, fileVars, session>>

Ungate(s) ==
  /\ at(s, "ungate")
  /\ warming' = IF s \in gate THEN warming - 1 ELSE warming
  /\ gate' = gate \ {s}
  /\ goto(s, "maybeFinish")
  /\ UNCHANGED <<phase, drain, active, lowDisk, backoff, shortExits, fatalErr, fatalCh,
                 ctxDone, ticks, registered, ctrl, pending, localVars, fileVars, session>>

(* Mutant: the last slot of a drain does not finish it. *)
mutMaybeFinish(s) ==
  /\ at(s, "maybeFinish")
  /\ goto(s, "sync")
  /\ UNCHANGED <<poolVars, slotVars, localVars, fileVars, session>>

(* The check is in a section of its own: finishPoolDrain locks again. *)
maybeFinishPoolDrain(s) ==
  /\ at(s, "maybeFinish")
  /\ goto(s, IF drain # NoDrain /\ active = 0 /\ phase \in {"poolDrain", "shutdown"}
             THEN "finish" ELSE "sync")
  /\ UNCHANGED <<poolVars, slotVars, localVars, fileVars, session>>

(* Last: `go p.tick`, then inFlight.Done.  The SlotControl dies with it. *)
Exit(s) ==
  /\ at(s, "exit")
  /\ goTick
  /\ ctrl' = [ctrl EXCEPT ![s] = {}]
  /\ work' = [work EXCEPT !.ctrls = @ \ {s}]
  /\ goto(s, "free")
  /\ UNCHANGED <<phase, drain, active, warming, lowDisk, backoff, shortExits, fatalErr,
                 fatalCh, ctxDone, registered, gate, pending, fin, statusMu, fileVars,
                 session>>

-----------------------------------------------------------------------------
(* finishPoolDrain and syncHeldStatusActive. *)

(* The refill mutant forgets that a stop holds the pool. *)
mutPhaseAfterDrain(r) == "run"

phaseAfterDrain(r) == IF r \in StopRequests THEN "held" ELSE "run"

afterFinish(p) == IF p = Loop THEN "idle" ELSE "sync"

doneWork(p) == work' = IF p = Loop THEN NoWork ELSE work

finishPoolDrain(p) ==
  /\ at(p, "finish")
  /\ IF drain = NoDrain \/ phase \notin {"poolDrain", "shutdown"}
     THEN goto(p, afterFinish(p)) /\ doneWork(p) /\ UNCHANGED <<phase, drain, fin>>
     ELSE /\ fin' = [fin EXCEPT ![p] =
                       [req |-> drain.req, err |-> p = Loop /\ work.late,
                        forced |-> drain.forced, active |-> active,
                        refill |-> phase = "poolDrain" /\ drain.req \notin StopRequests,
                        loaded |-> NoStatus]]
          /\ IF phase = "poolDrain"
             THEN setPhase(phaseAfterDrain(drain.req))
             ELSE phase' = phase /\ drain' = NoDrain
          /\ goto(p, "finLock")
          /\ UNCHANGED work
  /\ UNCHANGED <<active, warming, lowDisk, backoff, shortExits, fatalErr, fatalCh,
                 ctxDone, ticks, slotVars, statusMu, fileVars, session>>

FinLock(p) ==
  /\ at(p, "finLock")
  /\ statusMu = None
  /\ statusMu' = p
  /\ fin' = [fin EXCEPT ![p].active = active]
  /\ goto(p, "finWrite")
  /\ UNCHANGED <<poolVars, slotVars, work, fileVars, session>>

FinWrite(p) ==
  /\ at(p, "finWrite")
  /\ status' = [req |-> fin[p].req, agent |-> session,
                state |-> IF fin[p].err THEN "error" ELSE "complete",
                active |-> fin[p].active, forced |-> fin[p].forced,
                stop |-> fin[p].req \in StopRequests,
                rejected |-> None, reason |-> "none"]
  /\ goto(p, "finRemove")
  /\ UNCHANGED <<poolVars, slotVars, localVars, request, posted, session>>

FinRemove(p) ==
  /\ at(p, "finRemove")
  /\ request' = NoRequest
  /\ statusMu' = None
  /\ fin' = [fin EXCEPT ![p] = NoFin]
  /\ IF fin[p].refill THEN goTick ELSE ticks' = ticks
  /\ goto(p, afterFinish(p))
  /\ doneWork(p)
  /\ UNCHANGED <<phase, drain, active, warming, lowDisk, backoff, shortExits, fatalErr,
                 fatalCh, ctxDone, slotVars, status, posted, session>>

SyncLock(s) ==
  /\ at(s, "sync")
  /\ statusMu = None
  /\ IF phase = "held"
     THEN /\ statusMu' = s
          /\ fin' = [fin EXCEPT ![s].active = active]
          /\ goto(s, "syncLoad")
     ELSE goto(s, "exit") /\ UNCHANGED <<statusMu, fin>>
  /\ UNCHANGED <<poolVars, slotVars, work, fileVars, session>>

(* Mutant: the held status is never brought up to date. *)
mutStaleHeldStatus(n) == FALSE

staleHeldStatus(n) ==
  status.stop /\ status.state \in {"complete", "error"} /\ status.active # n

SyncLoad(s) ==
  /\ at(s, "syncLoad")
  /\ IF staleHeldStatus(fin[s].active)
     THEN /\ fin' = [fin EXCEPT ![s].loaded = status]
          /\ goto(s, "syncWrite")
          /\ UNCHANGED statusMu
     ELSE /\ statusMu' = None
          /\ fin' = [fin EXCEPT ![s] = NoFin]
          /\ goto(s, "exit")
  /\ UNCHANGED <<poolVars, slotVars, work, fileVars, session>>

SyncWrite(s) ==
  /\ at(s, "syncWrite")
  /\ status' = [fin[s].loaded EXCEPT !.active = fin[s].active]
  /\ statusMu' = None
  /\ fin' = [fin EXCEPT ![s] = NoFin]
  /\ goto(s, "exit")
  /\ UNCHANGED <<poolVars, slotVars, work, request, posted, session>>

-----------------------------------------------------------------------------
(* controlTick on the loop goroutine: a request is accepted when no drain   *)
(* runs, and rejected or discarded otherwise.                               *)

controlTick ==
  /\ at(Loop, "idle")
  /\ IF phase = "poolDrain"
     THEN goto(Loop, "busyLoad") /\ work' = [NoWork EXCEPT !.path = "drain"]
     ELSE goto(Loop, "acceptLoad") /\ work' = [NoWork EXCEPT !.path = "accept"]
  /\ UNCHANGED <<poolVars, slotVars, fin, statusMu, fileVars, session>>

toIdle == goto(Loop, "idle") /\ work' = NoWork

(* Mutant: the session of a request is not looked at. *)
mutShouldDiscard == FALSE

shouldDiscard == request.agent # session

AcceptLoad ==
  /\ at(Loop, "acceptLoad")
  /\ \/ request = NoRequest /\ toIdle
     \/ /\ request # NoRequest
        /\ work' = [work EXCEPT !.req = request.id]
        /\ goto(Loop, IF shouldDiscard THEN "discard" ELSE "decide")
  /\ UNCHANGED <<poolVars, slotVars, fin, statusMu, fileVars, session>>

Discard ==
  /\ at(Loop, "discard")
  /\ request' = NoRequest
  /\ toIdle
  /\ UNCHANGED <<poolVars, slotVars, fin, statusMu, status, posted, session>>

(* Mutant: a request is accepted in any phase. *)
mutAcceptRun ==
  /\ at(Loop, "decide")
  /\ phase' = "poolDrain"
  /\ drain' = [req |-> work.req, forced |-> FALSE]
  /\ work' = [work EXCEPT !.ctrls = registered]
  /\ goto(Loop, "acceptRemove")
  /\ UNCHANGED <<active, warming, lowDisk, backoff, shortExits, fatalErr, fatalCh,
                 ctxDone, ticks, slotVars, fin, statusMu, fileVars, session>>

(* The phase decides; accepting snapshots the controls of the slots that    *)
(* are registered, and a later registration reads the phase for itself.     *)
AcceptRun ==
  /\ at(Loop, "decide")
  /\ phase = "run"
  /\ phase' = "poolDrain"
  /\ drain' = [req |-> work.req, forced |-> FALSE]
  /\ work' = [work EXCEPT !.ctrls = registered]
  /\ goto(Loop, "acceptRemove")
  /\ UNCHANGED <<active, warming, lowDisk, backoff, shortExits, fatalErr, fatalCh,
                 ctxDone, ticks, slotVars, fin, statusMu, fileVars, session>>

(* Already held: a stop is acknowledged as complete, a drain is refused.    *)
DecideHeld ==
  /\ at(Loop, "decide")
  /\ phase = "held"
  /\ IF work.req \in StopRequests
     THEN /\ fin' = [fin EXCEPT ![Loop] = [NoFin EXCEPT !.req = work.req]]
          /\ goto(Loop, "finLock")
     ELSE goto(Loop, "heldWrite") /\ UNCHANGED fin
  /\ UNCHANGED <<poolVars, slotVars, work, statusMu, fileVars, session>>

DecideShutdown ==
  /\ at(Loop, "decide")
  /\ phase \notin {"run", "held"}
  /\ goto(Loop, "nonRunRead")
  /\ UNCHANGED <<poolVars, slotVars, localVars, fileVars, session>>

AcceptRemove ==
  /\ at(Loop, "acceptRemove")
  /\ request' = NoRequest
  /\ goto(Loop, "abandon")
  /\ UNCHANGED <<poolVars, slotVars, localVars, status, posted, session>>

send(signal) ==
  ctrl' = [s \in Slots |-> IF s \in work.ctrls THEN ctrl[s] \cup {signal} ELSE ctrl[s]]

Abandon ==
  /\ at(Loop, "abandon")
  /\ send("abandon")
  /\ goto(Loop, IF work.req \in ForceRequests THEN "forceRead" ELSE "writeRead")
  /\ UNCHANGED <<poolVars, registered, gate, pending, localVars, fileVars, session>>

(* The end of acceptDrainRequest: nothing was running. *)
AcceptDone ==
  /\ at(Loop, "acceptDone")
  /\ IF phase = "poolDrain" /\ active = 0
     THEN goto(Loop, "finish") /\ UNCHANGED work
     ELSE toIdle
  /\ UNCHANGED <<poolVars, slotVars, fin, statusMu, fileVars, session>>

-----------------------------------------------------------------------------
(* forcePoolDrainSlots and writePoolDrainStatus. *)

ForceRead ==
  /\ at(Loop, "forceRead")
  /\ drain' = IF drain = NoDrain THEN NoDrain ELSE [drain EXCEPT !.forced = TRUE]
  /\ work' = [work EXCEPT !.ctrls = registered]
  /\ goto(Loop, "forceSend")
  /\ UNCHANGED <<phase, active, warming, lowDisk, backoff, shortExits, fatalErr, fatalCh,
                 ctxDone, ticks, slotVars, fin, statusMu, fileVars, session>>

ForceSend ==
  /\ at(Loop, "forceSend")
  /\ send("force")
  /\ goto(Loop, IF work.late THEN "finish" ELSE "writeRead")
  /\ UNCHANGED <<poolVars, registered, gate, pending, localVars, fileVars, session>>

afterWrite == IF work.path = "accept" THEN goto(Loop, "acceptDone") /\ UNCHANGED work
                                      ELSE toIdle

WriteRead ==
  /\ at(Loop, "writeRead")
  /\ IF drain = NoDrain
     THEN afterWrite
     ELSE /\ work' = [work EXCEPT !.st = drain, !.active = active]
          /\ goto(Loop, "writeLoad")
  /\ UNCHANGED <<poolVars, slotVars, fin, statusMu, fileVars, session>>

(* A rejection attached to this drain's status is carried over. *)
WriteLoad ==
  /\ at(Loop, "writeLoad")
  /\ work' = IF status.req = work.st.req
             THEN [work EXCEPT !.rejected = status.rejected, !.reason = status.reason]
             ELSE work
  /\ goto(Loop, "writeFile")
  /\ UNCHANGED <<poolVars, slotVars, fin, statusMu, fileVars, session>>

runningStatus(st, n, rejected, reason) ==
  [req |-> st.req, agent |-> session, state |-> "running", active |-> n,
   forced |-> st.forced, stop |-> st.req \in StopRequests,
   rejected |-> rejected, reason |-> reason]

(* drainStatusMu is not held here. *)
WriteFile ==
  /\ at(Loop, "writeFile")
  /\ status' = runningStatus(work.st, work.active, work.rejected, work.reason)
  /\ afterWrite
  /\ UNCHANGED <<poolVars, slotVars, fin, statusMu, request, posted, session>>

-----------------------------------------------------------------------------
(* Rejections, and the control tick of a running drain. *)

BusyLoad ==
  /\ at(Loop, "busyLoad")
  /\ IF request = NoRequest
     THEN goto(Loop, "control") /\ UNCHANGED work
     ELSE goto(Loop, "busyRead") /\ work' = [work EXCEPT !.req = request.id]
  /\ UNCHANGED <<poolVars, slotVars, fin, statusMu, fileVars, session>>

BusyRead ==
  /\ at(Loop, "busyRead")
  /\ IF drain = NoDrain \/ drain.req = work.req
     THEN goto(Loop, "control") /\ UNCHANGED work
     ELSE /\ goto(Loop, "rejectWrite")
          /\ work' = [work EXCEPT !.st = drain, !.active = active]
  /\ UNCHANGED <<poolVars, slotVars, fin, statusMu, fileVars, session>>

NonRunRead ==
  /\ at(Loop, "nonRunRead")
  /\ work' = [work EXCEPT !.st = drain, !.active = active]
  /\ goto(Loop, "rejectWrite")
  /\ UNCHANGED <<poolVars, slotVars, fin, statusMu, fileVars, session>>

(* The drain's status with the rejection attached, or an error of its own   *)
(* when the pool has no drain.                                              *)
RejectWrite ==
  /\ at(Loop, "rejectWrite")
  /\ status' = IF work.st # NoDrain
               THEN runningStatus(work.st, work.active, work.req, "busy")
               ELSE [req |-> work.req, agent |-> session, state |-> "error",
                     active |-> 0, forced |-> FALSE, stop |-> FALSE,
                     rejected |-> work.req, reason |-> "busy"]
  /\ goto(Loop, "rejectRemove")
  /\ UNCHANGED <<poolVars, slotVars, localVars, request, posted, session>>

(* Mutant: a rejected request stays in the file. *)
mutRejectRemove ==
  /\ at(Loop, "rejectRemove")
  /\ IF work.path = "accept"
     THEN toIdle
     ELSE goto(Loop, "control") /\ UNCHANGED work
  /\ UNCHANGED <<poolVars, slotVars, fin, statusMu, fileVars, session>>

RejectRemove ==
  /\ at(Loop, "rejectRemove")
  /\ request' = NoRequest
  /\ IF work.path = "accept"
     THEN toIdle
     ELSE goto(Loop, "control") /\ UNCHANGED work
  /\ UNCHANGED <<poolVars, slotVars, fin, statusMu, status, posted, session>>

(* rejectHeldDrainRequest keeps the finished stop's status and attaches the *)
(* rejection, under drainStatusMu.                                          *)
HeldWrite ==
  /\ at(Loop, "heldWrite")
  /\ statusMu = None
  /\ statusMu' = Loop
  /\ LET kept == status.stop /\ status.state = "complete"
         base == IF kept THEN status
                 ELSE [req |-> work.req, agent |-> session, state |-> "complete",
                       active |-> active, forced |-> FALSE, stop |-> TRUE,
                       rejected |-> None, reason |-> "none"]
     IN  status' = [base EXCEPT !.rejected = work.req, !.reason = "held"]
  /\ goto(Loop, "heldRemove")
  /\ UNCHANGED <<poolVars, slotVars, fin, work, request, posted, session>>

HeldRemove ==
  /\ at(Loop, "heldRemove")
  /\ request' = NoRequest
  /\ statusMu' = None
  /\ toIdle
  /\ UNCHANGED <<poolVars, slotVars, fin, status, posted, session>>

(* One look at the drain: its deadline may have passed (due), and so may    *)
(* the grace period after Force (late).                                     *)
Control ==
  /\ at(Loop, "control")
  /\ \E due, late \in BOOLEAN :
       /\ due => drain.req \in LimitedRequests /\ ~drain.forced
       /\ late => drain.forced
       /\ work' = [work EXCEPT !.late = late]
       /\ goto(Loop, IF due \/ drain.forced \/ drain.req \in ForceRequests
                     THEN "forceRead" ELSE "writeRead")
  /\ UNCHANGED <<poolVars, slotVars, fin, statusMu, fileVars, session>>
-----------------------------------------------------------------------------
(* The process: startup, the rest of Pool.Run's select, shutdown, a crash. *)

(* startupReclaim and the reconcile ticker: free disk is measured. *)
Reclaim ==
  /\ pc[Loop] \in {"start", "idle"}
  /\ lowDisk' \in {low \in BOOLEAN : low => "lowDisk" \in Faults}
  /\ goto(Loop, IF at(Loop, "start") THEN "scrubRequest" ELSE "idle")
  /\ UNCHANGED <<phase, drain, active, warming, backoff, shortExits, fatalErr, fatalCh,
                 ctxDone, ticks, slotVars, localVars, fileVars, session>>

ScrubRequest ==
  /\ at(Loop, "scrubRequest")
  /\ request' = IF shouldDiscard THEN NoRequest ELSE request
  /\ goto(Loop, "scrubStatus")
  /\ UNCHANGED <<poolVars, slotVars, localVars, status, posted, session>>

(* Mutant: only a running status is scrubbed. *)
mutScrubStatus ==
  /\ at(Loop, "scrubStatus")
  /\ status' = IF status.state = "running" THEN NoStatus ELSE status
  /\ goto(Loop, "idle")
  /\ UNCHANGED <<poolVars, slotVars, localVars, request, posted, session>>

ScrubStatus ==
  /\ at(Loop, "scrubStatus")
  /\ status' = IF status.agent # session \/ status.state = "running"
               THEN NoStatus ELSE status
  /\ goto(Loop, "idle")
  /\ UNCHANGED <<poolVars, slotVars, localVars, request, posted, session>>

(* A signal cancels the context; BeginShutdown follows on its own goroutine. *)
Interrupt ==
  /\ "interrupt" \in Faults
  /\ ~at(Loop, "dead")
  /\ ~ctxDone
  /\ ctxDone' = TRUE
  /\ UNCHANGED <<phase, drain, active, warming, lowDisk, backoff, shortExits, fatalErr,
                 fatalCh, ticks, slotVars, localVars, fileVars, pc, session>>

BeginShutdown ==
  /\ ctxDone
  /\ phase # "shutdown"
  /\ setPhase("shutdown")
  /\ UNCHANGED <<active, warming, lowDisk, backoff, shortExits, fatalErr, fatalCh,
                 ctxDone, ticks, slotVars, localVars, fileVars, pc, session>>

(* drainAndWait's first section, whichever event the select received.  An  *)
(* unauthorized answer to a reconciliation is no such event: reclaim logs  *)
(* the error of ListRunners and goes on (reclaim.go:60).                   *)
DrainAndWait ==
  /\ at(Loop, "idle")
  /\ \/ ctxDone /\ UNCHANGED fatalCh
     \/ fatalCh /\ fatalCh' = FALSE
  /\ setPhase("shutdown")
  /\ goto(Loop, "drainAndWait")
  /\ UNCHANGED <<active, warming, lowDisk, backoff, shortExits, fatalErr, ctxDone, ticks,
                 slotVars, localVars, fileVars, session>>

(* inFlight.Wait returns. *)
Waited ==
  /\ at(Loop, "drainAndWait")
  /\ InFlight = {}
  /\ goto(Loop, "purge")
  /\ UNCHANGED <<poolVars, slotVars, localVars, fileVars, session>>

processGone ==
  /\ FreshMemory
  /\ pc' = [p \in Procs |-> IF p = Loop THEN "dead" ELSE "free"]
  /\ UNCHANGED <<fileVars, session>>

(* purgeAllManaged is over. *)
ProcessExit == at(Loop, "purge") /\ processGone

Crash == "crash" \in Faults /\ ~at(Loop, "dead") /\ processGone

(* A new agent takes utsusemi.lock and writes a new session. *)
AgentStart ==
  /\ at(Loop, "dead")
  /\ session < MaxSessions
  /\ session' = session + 1
  /\ goto(Loop, "start")
  /\ UNCHANGED <<poolVars, slotVars, localVars, fileVars>>

(* backoffUntil passes. *)
BackoffExpires ==
  /\ backoff
  /\ backoff' = FALSE
  /\ UNCHANGED <<phase, drain, active, warming, lowDisk, shortExits, fatalErr, fatalCh,
                 ctxDone, ticks, slotVars, localVars, fileVars, pc, session>>

(* A CLI creates drain.request exclusively, for the session it read before. *)
PostRequest(r, agent) ==
  /\ request = NoRequest
  /\ r \notin posted
  /\ request' = [id |-> r, agent |-> agent]
  /\ posted' = posted \cup {r}
  /\ UNCHANGED <<poolVars, slotVars, localVars, status, pc, session>>

-----------------------------------------------------------------------------
(* The whole pool. *)

SlotRun(s) ==
  \/ NameFails(s) \/ Register(s) \/ Signal(s) \/ StartExec(s) \/ IdleReady(s)
  \/ Claim(s)

SlotReturn(s) ==
  \/ ReturnCanceled(s) \/ ReturnFailed(s) \/ ReturnUnauthorized(s)
  \/ ReturnGood(s) \/ ReturnNeutral(s) \/ ReturnShort(s)

SlotTail(s) ==
  \/ reportFatal(s) \/ Unregister(s) \/ Leave(s) \/ Ungate(s)
  \/ maybeFinishPoolDrain(s) \/ SyncLock(s) \/ SyncLoad(s) \/ SyncWrite(s) \/ Exit(s)

Finish(p) == finishPoolDrain(p) \/ FinLock(p) \/ FinWrite(p) \/ FinRemove(p)

Accept ==
  \/ AcceptLoad \/ Discard \/ AcceptRun \/ DecideHeld \/ DecideShutdown
  \/ AcceptRemove \/ Abandon \/ AcceptDone

WritePoolDrain == ForceRead \/ ForceSend \/ WriteRead \/ WriteLoad \/ WriteFile

Reject ==
  \/ BusyLoad \/ BusyRead \/ NonRunRead \/ RejectWrite \/ RejectRemove
  \/ HeldWrite \/ HeldRemove

LoopStep ==
  \/ controlTick \/ Accept \/ WritePoolDrain \/ Reject \/ Control
  \/ Reclaim \/ ScrubRequest \/ ScrubStatus \/ DrainAndWait \/ Waited

Process == Interrupt \/ BeginShutdown \/ ProcessExit \/ Crash \/ AgentStart

AgentNext ==
  \/ \E s \in Slots : LoopTick(s) \/ SlotRun(s) \/ SlotReturn(s) \/ SlotTail(s)
  \/ \E p \in Procs : Finish(p)
  \/ AsyncTick
  \/ LoopStep
  \/ Process
  \/ BackoffExpires

Next ==
  \/ AgentNext
  \/ \E r \in Requests, agent \in 1..session : PostRequest(r, agent)

Spec == Init /\ [][Next]_vars

-----------------------------------------------------------------------------
Ids      == Requests \cup {None}
Statuses == [req : Ids, agent : 0..MaxSessions,
             state : {"absent", "running", "complete", "error"}, active : 0..PoolSize,
             forced : BOOLEAN, stop : BOOLEAN, rejected : Ids,
             reason : {"none", "busy", "held"}]
FinLocals  == [req : Ids, err : BOOLEAN, forced : BOOLEAN, active : 0..PoolSize,
               refill : BOOLEAN, loaded : Statuses]
WorkLocals == [path : {"none", "accept", "drain"}, req : Ids, ctrls : SUBSET Slots,
               late : BOOLEAN, st : Drains, active : 0..PoolSize, rejected : Ids,
               reason : {"none", "busy", "held"}]

PoolType ==
  /\ phase \in Phases
  /\ drain \in Drains
  /\ active \in 0..PoolSize
  /\ warming \in 0..1
  /\ shortExits \in Nat
  /\ ticks \in 0..MaxTicks

FlagType ==
  /\ lowDisk \in BOOLEAN /\ backoff \in BOOLEAN /\ fatalErr \in BOOLEAN
  /\ fatalCh \in BOOLEAN /\ ctxDone \in BOOLEAN

SlotType ==
  /\ registered \subseteq Slots
  /\ gate \subseteq Slots
  /\ ctrl \in [Slots -> SUBSET Signals]
  /\ pending \in [Slots -> SUBSET Signals]

StepType ==
  /\ pc \in [Procs -> SlotSteps \cup LoopSteps]
  /\ pc[Loop] \in LoopSteps
  /\ \A s \in Slots : pc[s] \in SlotSteps

LocalType ==
  /\ fin \in [Procs -> FinLocals]
  /\ work \in WorkLocals
  /\ statusMu \in Procs \cup {None}

FileType ==
  /\ request \in [id : Ids, agent : 0..MaxSessions]
  /\ status \in Statuses
  /\ posted \subseteq Requests
  /\ session \in 1..MaxSessions

(* Every variable has its type; the counters stay within the pool. *)
TypeOK == PoolType /\ FlagType /\ SlotType /\ StepType /\ LocalType /\ FileType

-----------------------------------------------------------------------------
(* Safety. *)

(* active counts exactly the slots between tick's increment and the deferred *)
(* decrement, and warming exactly the slots whose gate is still closed,      *)
(* though each is changed in a critical section of its own.                  *)
SlotsAccounted ==
  /\ active = Cardinality({s \in Slots : pc[s] \in Counted})
  /\ warming = Cardinality(gate)

(* README: "Cold starts are staggered (at most one overlapping clone/boot)". *)
ColdStartsStaggered ==
  \A s, t \in Slots : pc[s] \in {"new", "signal", "boot"} /\ pc[t] \in {"new", "signal", "boot"}
                        => s = t

(* The drain's metadata lives as long as the phase that needs it: while       *)
(* draining, and through a shutdown that overtook the drain.                  *)
DrainStateMatchesPhase ==
  /\ phase = "poolDrain" => drain # NoDrain
  /\ drain # NoDrain => phase \in {"poolDrain", "shutdown"}

(* No spawn escapes a drain: a slot that registered before the accept is in   *)
(* its snapshot, one that registers later reads the phase, and the same holds *)
(* for Force.                                                                 *)
DrainReachesEverySlot ==
  phase = "poolDrain" =>
    \A s \in Slots : pc[s] \in Spawning =>
      /\ pc[Loop] \notin {"acceptRemove", "abandon"} => "abandon" \in ctrl[s]
      /\ drain.forced /\ pc[Loop] # "forceSend" => "force" \in ctrl[s]

(* The comment in tick: no inFlight.Add races drainAndWait's Wait, so the     *)
(* final purge never runs beside a spawn.                                     *)
NoSpawnAfterShutdown ==
  [][pc[Loop] \in {"drainAndWait", "purge"} /\ ~at(Loop, "dead")' =>
       /\ InFlight' \subseteq InFlight
       /\ at(Loop, "purge")' => InFlight' = {}]_vars

quiet == at(Loop, "idle") /\ InFlight = {}

(* syncHeldStatusActive: once the runners of a held pool have wound down, the *)
(* status of the stop says so.                                                *)
HeldStatusSettles ==
  quiet /\ phase = "held" /\ status.stop /\ status.state \in {"complete", "error"}
    => status.active = active

(* A stop whose completion is on file holds: the pool does not refill.        *)
CompletedStopHolds ==
  status.stop /\ status.state = "complete" /\ status.agent = session /\ ~at(Loop, "dead")
    => phase \in {"held", "shutdown"}

(* After scrubDrainControl no earlier session's status is left to mislead a   *)
(* CLI of this one.                                                           *)
StatusIsOfThisSession ==
  pc[Loop] \notin {"dead", "start", "scrubRequest", "scrubStatus"}
    => status.agent \in {0, session}

-----------------------------------------------------------------------------
(* What the documentation says and the interleavings above refute. *)

(* pool_drain.go:340 "when the last in-flight spawn exits": without a force   *)
(* timeout a drain finishes with no slot in flight.                           *)
DrainFinishesEmpty ==
  [][phase = "poolDrain" /\ phase' \in {"run", "held"} /\ ~at(Loop, "dead")'
       => active = 0 \/ work.late]_vars

(* README: "`running`, then `held`": a status that says running describes the *)
(* drain in progress.                                                         *)
RunningStatusIsCurrent ==
  quiet /\ status.state = "running" => drain.req = status.req

(* pool_drain.go:361 "so status is still written": the process does not end   *)
(* normally with an accepted drain unanswered.                                *)
ShutdownAnswersDrain == at(Loop, "purge") => drain = NoDrain

-----------------------------------------------------------------------------
(* Liveness.  Every goroutine keeps running; a job ends on its own or at      *)
(* job_timeout; select takes each ready case in the end; time passes.         *)
Fairness ==
  /\ \A s \in Slots : /\ WF_vars(SlotRun(s))
                       /\ WF_vars(SlotReturn(s))
                       /\ WF_vars(SlotTail(s))
                       /\ WF_vars(LoopTick(s))
  /\ \A p \in Procs : WF_vars(Finish(p))
  /\ \A p \in Procs : SF_vars(FinLock(p))
  /\ \A s \in Slots : SF_vars(SyncLock(s))
  /\ SF_vars(HeldWrite)
  /\ WF_vars(controlTick)
  /\ WF_vars(Accept \/ WritePoolDrain \/ Reject \/ Control \/ Waited)
  /\ WF_vars(ScrubRequest \/ ScrubStatus \/ (at(Loop, "start") /\ Reclaim))
  /\ SF_vars(DrainAndWait)
  /\ WF_vars(BeginShutdown)
  /\ WF_vars(ProcessExit)
  /\ WF_vars(AsyncTick)
  /\ WF_vars(BackoffExpires)

FairSpec == Spec /\ Fairness

(* A drain ends, whatever its runners do: claimed jobs finish or are forced.  *)
DrainEnds == phase = "poolDrain" ~> phase # "poolDrain"

(* The fill gate reopens after every spawn, on every way out of it.           *)
GateReopens == warming = 1 ~> warming = 0

(* A fatal error or a signal ends the process.                                *)
ShutdownEnds == (fatalErr \/ ctxDone) ~> at(Loop, "dead")

-----------------------------------------------------------------------------
(* The pool keeps the promises of PoolContract, whatever the interleaving.   *)
stageOfPool ==
  IF at(Loop, "dead") THEN "gone"
  ELSE [run |-> "fill", poolDrain |-> "drain", held |-> "held",
        shutdown |-> "ending"][phase]

Contract == INSTANCE PoolContract WITH
  stage <- stageOfPool,
  inUse <- {s \in Slots : pc[s] \in Counted},
  MayCrash <- "crash" \in Faults

ContractSpec == Contract!Spec
=============================================================================

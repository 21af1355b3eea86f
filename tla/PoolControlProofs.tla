-------------------------- MODULE PoolControlProofs --------------------------
(***************************************************************************)
(* What the drain protocol of Pool.tla and its CLIs in PoolControl.tla     *)
(* keep for every number of slots and requests: every spawn learns of a    *)
(* drain, the files say what is so, and a request is carried out by the    *)
(* session its CLI looked at, once, or not at all.                         *)
(***************************************************************************)
EXTENDS PoolControl, PoolProofs

(* The slots that are in slotControls, and those that were told a signal, or *)
(* have read in the phase that they are to tell it to themselves.            *)
InRun == {"signal", "boot", "exec", "job", "fatal", "unregister"}

told(s, signal) == signal \in ctrl[s] \cup pending[s]

RegInv ==
  \A s \in Slots :
    /\ s \in registered <=> pc[s] \in InRun
    /\ pc[s] # "signal" => pending[s] = {}

(* The loop is about to signal this slot. *)
willTell(s, steps) == pc[Loop] \in steps /\ s \in work.ctrls

ReachInv ==
  phase = "poolDrain" =>
    \A s \in registered :
      /\ told(s, "abandon") \/ willTell(s, {"acceptRemove", "abandon"})
      /\ drain.forced => told(s, "force") \/ willTell(s, {"forceSend"})

(* drainStatusMu. *)
Locked == {"finWrite", "finRemove", "syncLoad", "syncWrite", "heldRemove"}

MutexInv == \A p \in Procs : pc[p] \in Locked => statusMu = p

(* Slots that have syncHeldStatusActive before them, and those in it. *)
Owing == Counted \cup {"ungate", "maybeFinish", "finish", "finLock", "finWrite", "finRemove",
                       "sync"}
Syncing == {"syncLoad", "syncWrite"}

stopEnded(st) == st.stop /\ st.state \in {"complete", "error"}

Stopped == {"held", "shutdown"}

SettleInv ==
  phase = "held" /\ (\A s \in Slots : pc[s] \notin Owing) =>
    /\ \A s \in Slots : pc[s] \in Syncing => fin[s].active = 0
    /\ pc[Loop] = "finWrite" => fin[Loop].active = 0
    /\ stopEnded(status) => \/ status.active = 0
                            \/ \E s \in Slots : pc[s] \in Syncing
                            \/ pc[Loop] \in {"finLock", "finWrite"}

(* A status on file, or read by a slot that is about to write it back, is of *)
(* this session once the files are scrubbed, and of an earlier one before.   *)
SessionInv ==
  /\ status.agent \in 0..session
  /\ pc[Loop] \in Starting => status.agent < session
  /\ pc[Loop] \notin Starting \cup {"dead"} => status.agent \in {0, session}
  /\ \A s \in Slots : pc[s] = "syncWrite" => fin[s].loaded.agent \in {0, session}

(* What a stop's end, on file or about to be, says of the pool. *)
StopInv ==
  /\ ~at(Loop, "dead") /\ stopEnded(status) /\ status.agent = session => phase \in Stopped
  /\ \A p \in Procs : pc[p] \in {"finLock", "finWrite"} /\ fin[p].req \in StopRequests
                        => phase \in Stopped
  /\ pc[Loop] \in {"heldWrite", "heldRemove"} => phase \in Stopped
  /\ \A s \in Slots : pc[s] \in Syncing => phase \in Stopped

DrainIInv == RegInv /\ ReachInv /\ MutexInv /\ SettleInv /\ SessionInv /\ StopInv

-----------------------------------------------------------------------------
(* The CLIs. *)

(* The CLI of r posted it to this session. *)
sentTo(r, agent) == r \in posted /\ cliAgent[r] = agent

CliInv ==
  /\ CliTypeOK
  /\ \A r \in Requests : cliAgent[r] <= session
  /\ \A r \in posted : cli[r] \notin {"start", "checked", "busy"}
  /\ \A r \in Requests : cli[r] = "checked" => cliAgent[r] # 0

Deciding == {"decide", "acceptRemove", "abandon", "heldWrite"}

SentInv ==
  \A r \in Requests :
    /\ request.id = r => sentTo(r, request.agent)
    /\ drain.req = r => sentTo(r, session)
    /\ pc[Loop] \in Deciding /\ work.req = r => sentTo(r, session)
    /\ pc[Loop] \in {"busyRead", "nonRunRead", "rejectWrite"} /\ work.req = r => r \in posted
    /\ \A p \in Procs : pc[p] \in {"finLock", "finWrite"} /\ fin[p].req = r => sentTo(r, session)

(* A status of an end is of a request its session was sent, and says whether *)
(* it was a stop.                                                            *)
trueEnd(st) ==
  st.state = "complete" =>
    /\ \A r \in Requests : st.req = r => sentTo(r, st.agent)
    /\ st.req \in StopRequests => st.stop

EndInv ==
  /\ trueEnd(status)
  /\ \A s \in Slots : pc[s] = "syncWrite" => trueEnd(fin[s].loaded)

(* A request is accepted once: the drain's own is not on file any more, and  *)
(* the one in the loop's hands is not the drain's.                           *)
OnceInv ==
  /\ request.id \in Requests /\ drain.req = request.id => at(Loop, "acceptRemove")
  /\ pc[Loop] \in {"decide", "nonRunRead", "rejectWrite", "heldWrite"}
       => work.req \in Requests /\ drain.req # work.req
  /\ pc[Loop] = "busyRead" => work.req \in Requests

(* This session may yet carry out the request. *)
open(r) ==
  \/ request.id = r /\ request.agent = session /\ pc[Loop] \notin {"dead", "rejectRemove", "heldRemove"}
  \/ drain.req = r
  \/ pc[Loop] \in {"decide", "acceptRemove", "abandon"} /\ work.req = r

(* Somebody says, or is about to say, that the request is refused. *)
refused(r) ==
  \/ status.rejected = r
  \/ work.rejected = r
  \/ \E p \in Procs : fin[p].loaded.rejected = r
  \/ cli[r] = "rejected"

RefusedInv == \A r \in Requests : refused(r) => r \in posted /\ ~open(r)

DoneInv ==
  \A r \in StopRequests :
    cli[r] = "complete" /\ agentAlive /\ session = cliAgent[r] => phase \in Stopped

ControlIInv == CliInv /\ SentInv /\ EndInv /\ OnceInv /\ RefusedInv /\ DoneInv

-----------------------------------------------------------------------------
(* Who moves, and what stays. *)

LEMMA LoopMoves ==
  ASSUME TypeOK, NEW step, goto(Loop, step)
  PROVE  pc'[Loop] = step /\ \A s \in Slots : pc'[s] = pc[s]
  BY SlotsAssumption DEF goto, TypeOK, StepType, Procs

(* The types of what the proofs look into. *)
LEMMA LocalTypes ==
  ASSUME TypeOK
  PROVE  /\ work \in WorkLocals /\ fin \in [Procs -> FinLocals] /\ status \in Statuses
         /\ \A p \in Procs : fin[p] \in FinLocals
         /\ Loop \in Procs /\ Loop \notin Slots /\ \A s \in Slots : s \in Procs
         /\ pc \in [Procs -> SlotSteps \cup LoopSteps]
         /\ pc[Loop] \in LoopSteps /\ \A s \in Slots : pc[s] \in SlotSteps
         /\ ctrl \in [Slots -> SUBSET Signals] /\ pending \in [Slots -> SUBSET Signals]
         /\ registered \subseteq Slots /\ phase \in Phases /\ drain \in Drains
         /\ session \in Nat /\ session > 0 /\ active \in Nat
         /\ statusMu \in Procs \cup {None} /\ None \notin Procs
  BY SlotsAssumption, RequestsAssumption, BoundsAssumption
  DEF TypeOK, LocalType, FileType, StepType, SlotType, PoolType, Procs

(* The loop's own steps change nothing of a slot but its signals. *)
LEMMA LoopFrame ==
  ASSUME TypeOK, LoopStep
  PROVE  /\ \A s \in Slots : pc'[s] = pc[s] /\ fin'[s] = fin[s]
         /\ UNCHANGED <<registered, pending, active, session, posted>>
<1> USE LoopKeepsSlots, LocalTypes DEF SlotsKept, slotVars, poolVars, fileVars, localVars
<1>1. CASE Accept
  BY <1>1
  DEF LoopStep, Accept, AcceptLoad, Discard, AcceptRun, DecideHeld, DecideShutdown,
      AcceptRemove, Abandon, AcceptDone, toIdle
<1>2. CASE WritePoolDrain
  BY <1>2
  DEF LoopStep, WritePoolDrain, ForceRead, ForceSend, WriteRead, WriteLoad, WriteFile,
      afterWrite, toIdle
<1>3. CASE Reject
  BY <1>3
  DEF LoopStep, Reject, BusyLoad, BusyRead, NonRunRead, RejectWrite, RejectRemove,
      HeldWrite, HeldRemove, toIdle
<1>4. CASE controlTick \/ Control \/ Reclaim \/ ScrubRequest \/ ScrubStatus \/ DrainAndWait \/ Waited
  BY <1>4
  DEF LoopStep, controlTick, Control, Reclaim, ScrubRequest, ScrubStatus, DrainAndWait, Waited
<1> QED
  BY <1>1, <1>2, <1>3, <1>4 DEF LoopStep

(* A slot on its way through Spawner.Run touches no file, no lock and no     *)
(* drain.                                                                    *)
LEMMA RunFrame ==
  ASSUME TypeOK, NEW s \in Slots, SlotRun(s) \/ SlotReturn(s)
  PROVE  /\ pc'[Loop] = pc[Loop] /\ \A t \in Slots \ {s} : pc'[t] = pc[t]
         /\ UNCHANGED <<phase, drain, active, localVars, fileVars, session>>
         /\ pc[s] \in InRun \cup {"new"} /\ pc'[s] \in InRun \cup {"leave"}
<1>1. pc'[Loop] = pc[Loop] /\ \A t \in Slots \ {s} : pc'[t] = pc[t]
  BY SlotStepsMove
<1>2. CASE SlotRun(s)
  BY <1>1, <1>2, SlotMoves
  DEF SlotRun, NameFails, Register, Signal, StartExec, IdleReady, Claim, at, InRun, poolVars
<1>3. CASE SlotReturn(s)
  BY <1>1, <1>3, SlotMoves
  DEF SlotReturn, ReturnCanceled, ReturnFailed, ReturnUnauthorized, ReturnGood,
      ReturnNeutral, ReturnShort, at, Spawning, InRun, poolVars
<1> QED
  BY <1>2, <1>3

(* The steps that touch neither a slot's place nor a file nor the drain. *)
LEMMA SpawnFrame ==
  ASSUME TypeOK, (\E s \in Slots : LoopTick(s)) \/ AsyncTick
  PROVE  /\ UNCHANGED <<phase, drain, registered, ctrl, pending, localVars, fileVars, session>>
         /\ pc'[Loop] = pc[Loop]
         /\ \/ UNCHANGED <<pc, active>>
            \/ /\ phase = "run"
               /\ \E s \in Slots :
                    /\ pc[s] = "free" /\ pc'[s] = "new"
                    /\ \A t \in Slots \ {s} : pc'[t] = pc[t]
  BY SlotMoves DEF LoopTick, AsyncTick, spawn, canSpawn, at

LEMMA GoneFrame ==
  ASSUME TypeOK, ProcessExit \/ Crash
  PROVE  /\ pc'[Loop] = "dead" /\ \A s \in Slots : pc'[s] = "free"
         /\ phase' = "run" /\ drain' = NoDrain /\ registered' = {} /\ active' = 0
         /\ fin' = [p \in Procs |-> NoFin] /\ work' = NoWork
         /\ pending' = [s \in Slots |-> {}]
         /\ UNCHANGED <<fileVars, session>>
  BY LocalTypes DEF ProcessExit, Crash, processGone, FreshMemory

-----------------------------------------------------------------------------
(* The drain reaches every slot. *)

(* What the drain's accept and Force find in slotControls is what runs. *)
LEMMA RegStep ==
  ASSUME TypeOK, RegInv, [Next]_vars
  PROVE  RegInv'
<1> USE LocalTypes DEF RegInv
<1>1. CASE LoopStep
  BY <1>1, LoopFrame
<1>2. ASSUME NEW s \in Slots, SlotRun(s) PROVE RegInv'
  <2>1. CASE Register(s)
    BY <2>1, SlotMoves DEF Register, at, InRun
  <2>2. CASE Signal(s)
    BY <2>2, SlotMoves DEF Signal, at, InRun
  <2>3. CASE NameFails(s) \/ StartExec(s) \/ Claim(s)
    BY <2>3, SlotMoves DEF NameFails, StartExec, Claim, at, InRun, slotVars
  <2>4. CASE IdleReady(s)
    BY <2>4 DEF IdleReady
  <2> QED
    BY <1>2, <2>1, <2>2, <2>3, <2>4 DEF SlotRun
<1>3. ASSUME NEW s \in Slots, SlotReturn(s) PROVE RegInv'
  BY <1>3, SlotMoves
  DEF SlotReturn, ReturnCanceled, ReturnFailed, ReturnUnauthorized, ReturnGood,
      ReturnNeutral, ReturnShort, at, Spawning, InRun, slotVars
<1>4. ASSUME NEW s \in Slots, SlotTail(s) PROVE RegInv'
  <2>1. CASE Unregister(s)
    BY <2>1, SlotMoves DEF Unregister, at, InRun
  <2>2. CASE reportFatal(s)
    BY <2>2, SlotMoves DEF reportFatal, at, InRun, slotVars
  <2>3. CASE ~Unregister(s) /\ ~reportFatal(s)
    BY <1>4, <2>3, SlotMoves
    DEF SlotTail, Leave, Ungate, maybeFinishPoolDrain, SyncLock, SyncLoad, SyncWrite, Exit,
        at, InRun, slotVars
  <2> QED
    BY <2>1, <2>2, <2>3
<1>5. ASSUME NEW p \in Procs, Finish(p) PROVE RegInv'
  <2>1. UNCHANGED <<registered, pending>>
    BY <1>5 DEF Finish, finishPoolDrain, FinLock, FinWrite, FinRemove, slotVars
  <2> QED
    BY <1>5, <2>1, FinishMoves DEF InRun
<1>6. CASE (\E s \in Slots : LoopTick(s)) \/ AsyncTick
  BY <1>6, SpawnFrame DEF InRun
<1>7. CASE ProcessExit \/ Crash
  BY <1>7, GoneFrame DEF InRun
<1>8. CASE Interrupt \/ BeginShutdown \/ AgentStart \/ BackoffExpires
  BY <1>8, OthersKeepSlots
  DEF SlotsKept, Interrupt, BeginShutdown, AgentStart, BackoffExpires, slotVars
<1>9. CASE (\E r \in Requests, agent \in 1..session : PostRequest(r, agent)) \/ UNCHANGED vars
  BY <1>9 DEF PostRequest, vars, slotVars
<1> QED
  BY <1>1, <1>2, <1>3, <1>4, <1>5, <1>6, <1>7, <1>8, <1>9 DEF Next, AgentNext, Process

(* Accepting and Force read who runs and change the drain in one section,    *)
(* and a slot that registers reads the drain in the section that registers   *)
(* it: nobody falls between.                                                 *)
LEMMA ReachStep ==
  ASSUME TypeOK, RegInv, DrainStateMatchesPhase, ReachInv, [Next]_vars
  PROVE  ReachInv'
<1> USE LocalTypes DEF ReachInv, told, willTell
<1>1. CASE UNCHANGED <<registered, ctrl, pending, drain, work>>
           /\ pc'[Loop] = pc[Loop] /\ phase' \in {phase, "shutdown"}
  BY <1>1
<1>2. CASE LoopStep
  <2> USE LoopFrame, LoopMoves
  <2>1. CASE AcceptRun
    BY <1>2, <2>1 DEF AcceptRun, WorkLocals
  <2>2. CASE AcceptRemove
    BY <1>2, <2>2 DEF AcceptRemove, at, poolVars, slotVars, localVars
  <2>3. CASE Abandon
    BY <1>2, <2>3 DEF Abandon, send, at, poolVars, localVars
  <2>4. CASE ForceRead
    BY <1>2, <2>4 DEF ForceRead, at, slotVars, WorkLocals, Drains, DrainStateMatchesPhase
  <2>5. CASE ForceSend
    BY <1>2, <2>5 DEF ForceSend, send, at, poolVars, localVars
  <2>6. ASSUME UNCHANGED <<ctrl, drain>>, phase' \in {phase, "shutdown"},
               pc[Loop] \notin {"acceptRemove", "abandon", "forceSend"}
        PROVE  ReachInv'
    BY <1>2, <2>6
  <2>7. CASE controlTick \/ Control \/ Reclaim \/ ScrubRequest \/ ScrubStatus \/ Waited \/ Reject
    BY <2>6, <2>7
    DEF controlTick, Control, Reclaim, ScrubRequest, ScrubStatus, Waited, Reject, BusyLoad,
        BusyRead, NonRunRead, RejectWrite, RejectRemove, HeldWrite, HeldRemove, at,
        poolVars, slotVars
  <2>8. CASE DrainAndWait
    BY <2>6, <2>8 DEF DrainAndWait, setPhase, nextPhase, drainAfter, at, slotVars
  <2>9. CASE AcceptLoad \/ Discard \/ DecideHeld \/ DecideShutdown \/ AcceptDone \/ WriteRead
             \/ WriteLoad \/ WriteFile
    BY <2>6, <2>9
    DEF AcceptLoad, Discard, DecideHeld, DecideShutdown, AcceptDone, WriteRead, WriteLoad,
        WriteFile, at, poolVars, slotVars
  <2> QED
    BY <1>2, <2>1, <2>2, <2>3, <2>4, <2>5, <2>7, <2>8, <2>9
    DEF LoopStep, Accept, WritePoolDrain
<1>3. ASSUME NEW s \in Slots, SlotRun(s) PROVE ReachInv'
  <2> USE <1>3, RunFrame DEF localVars
  <2>1. CASE Register(s)
    BY <2>1 DEF Register, Signals, slotVars, RegInv, InRun, at
  <2>2. CASE Signal(s)
    BY <2>2 DEF Signal, slotVars
  <2>3. CASE NameFails(s) \/ StartExec(s) \/ IdleReady(s) \/ Claim(s)
    BY <1>1, <2>3 DEF NameFails, StartExec, IdleReady, Claim, slotVars
  <2> QED
    BY <2>1, <2>2, <2>3 DEF SlotRun
<1>4. ASSUME NEW s \in Slots, SlotReturn(s) PROVE ReachInv'
  <2>1. UNCHANGED slotVars
    BY <1>4
    DEF SlotReturn, ReturnCanceled, ReturnFailed, ReturnUnauthorized, ReturnGood,
        ReturnNeutral, ReturnShort
  <2> QED
    BY <1>1, <1>4, <2>1, RunFrame DEF slotVars, localVars
<1>5. ASSUME NEW s \in Slots, SlotTail(s) PROVE ReachInv'
  <2>0. pc'[Loop] = pc[Loop]
    BY <1>5, SlotStepsMove
  <2>1. CASE Unregister(s)
    BY <2>0, <2>1 DEF Unregister, poolVars, localVars
  <2>2. CASE reportFatal(s)
    BY <1>1, <2>0, <2>2
    DEF reportFatal, setPhase, nextPhase, drainAfter, slotVars, localVars
  <2>3. CASE Exit(s)
    BY <2>0, <2>3 DEF Exit, RegInv, InRun, at, WorkLocals
  <2>4. CASE Leave(s) \/ Ungate(s) \/ maybeFinishPoolDrain(s) \/ SyncLock(s) \/ SyncLoad(s)
             \/ SyncWrite(s)
    BY <1>1, <2>0, <2>4
    DEF Leave, Ungate, maybeFinishPoolDrain, SyncLock, SyncLoad, SyncWrite, poolVars,
        slotVars, localVars
  <2> QED
    BY <1>5, <2>1, <2>2, <2>3, <2>4 DEF SlotTail
<1>6. ASSUME NEW p \in Procs, Finish(p) PROVE ReachInv'
  <2>1. UNCHANGED slotVars
    BY <1>6 DEF Finish, finishPoolDrain, FinLock, FinWrite, FinRemove
  <2>2. p # Loop => work' = work /\ pc'[Loop] = pc[Loop]
    BY <1>6, FinishMoves
    DEF Finish, finishPoolDrain, FinLock, FinWrite, FinRemove, doneWork, localVars
  <2>3. p = Loop => pc[Loop] \notin {"acceptRemove", "abandon", "forceSend"}
    BY <1>6, FinishMoves
  <2>4. \/ UNCHANGED <<phase, drain>>
        \/ phase' # "poolDrain"
    BY <1>6
    DEF Finish, finishPoolDrain, FinLock, FinWrite, FinRemove, setPhase, nextPhase,
        phaseAfterDrain, poolVars
  <2> QED
    BY <2>1, <2>2, <2>3, <2>4 DEF slotVars
<1>7. CASE (\E s \in Slots : LoopTick(s)) \/ AsyncTick
  BY <1>1, <1>7, SpawnFrame DEF localVars
<1>8. CASE ProcessExit \/ Crash
  BY <1>8, GoneFrame
<1>9. CASE Interrupt \/ BackoffExpires \/ UNCHANGED vars
           \/ \E r \in Requests, agent \in 1..session : PostRequest(r, agent)
  BY <1>1, <1>9
  DEF Interrupt, BackoffExpires, PostRequest, vars, poolVars, slotVars, localVars
<1>10. CASE BeginShutdown
  BY <1>1, <1>10 DEF BeginShutdown, setPhase, nextPhase, drainAfter, slotVars, localVars
<1>11. CASE AgentStart
  BY <1>11, LoopMoves DEF AgentStart, at, poolVars, slotVars, localVars
<1> QED
  BY <1>2, <1>3, <1>4, <1>5, <1>6, <1>7, <1>8, <1>9, <1>10, <1>11
  DEF Next, AgentNext, Process

-----------------------------------------------------------------------------
(* The file drain.status. *)

(* drainStatusMu has one holder. *)
LEMMA MutexStep ==
  ASSUME TypeOK, MutexInv, [Next]_vars
  PROVE  MutexInv'
<1> USE LocalTypes DEF MutexInv, Locked, Procs
<1>1. CASE statusMu' = statusMu /\ \A p \in Procs : pc'[p] \in Locked => pc[p] \in Locked
  BY <1>1
<1>2. CASE LoopStep
  <2> USE LoopFrame, LoopMoves, <1>2
  <2>1. CASE HeldWrite
    BY <2>1 DEF HeldWrite
  <2>2. CASE HeldRemove
    BY <2>2 DEF HeldRemove, toIdle, at
  <2>3. CASE RejectRemove \/ BusyLoad \/ BusyRead \/ NonRunRead \/ RejectWrite
    BY <1>1, <2>3
    DEF RejectRemove, BusyLoad, BusyRead, NonRunRead, RejectWrite, toIdle, localVars
  <2>4. CASE controlTick \/ Control \/ Reclaim \/ ScrubRequest \/ ScrubStatus \/ DrainAndWait \/ Waited
    BY <1>1, <2>4
    DEF controlTick, Control, Reclaim, ScrubRequest, ScrubStatus, DrainAndWait, Waited,
        localVars
  <2>5. CASE Accept
    BY <1>1, <2>5
    DEF Accept, AcceptLoad, Discard, AcceptRun, DecideHeld, DecideShutdown, AcceptRemove,
        Abandon, AcceptDone, toIdle, localVars
  <2>6. CASE WritePoolDrain
    BY <1>1, <2>6
    DEF WritePoolDrain, ForceRead, ForceSend, WriteRead, WriteLoad, WriteFile, afterWrite,
        toIdle, localVars
  <2> QED
    BY <2>1, <2>2, <2>3, <2>4, <2>5, <2>6 DEF LoopStep, Reject
<1>3. ASSUME NEW s \in Slots, SlotRun(s) \/ SlotReturn(s) PROVE MutexInv'
  BY <1>1, <1>3, RunFrame DEF InRun, localVars
<1>4. ASSUME NEW s \in Slots, SlotTail(s) PROVE MutexInv'
  <2> USE SlotMoves
  <2>1. CASE SyncLock(s)
    BY <2>1 DEF SyncLock
  <2>2. CASE SyncLoad(s)
    BY <2>2 DEF SyncLoad, at
  <2>3. CASE SyncWrite(s)
    BY <2>3 DEF SyncWrite, at
  <2>4. CASE reportFatal(s) \/ Unregister(s) \/ Leave(s) \/ Ungate(s)
             \/ maybeFinishPoolDrain(s) \/ Exit(s)
    BY <1>1, <2>4
    DEF reportFatal, Unregister, Leave, Ungate, maybeFinishPoolDrain, Exit, localVars
  <2> QED
    BY <1>4, <2>1, <2>2, <2>3, <2>4 DEF SlotTail
<1>5. ASSUME NEW p \in Procs, Finish(p) PROVE MutexInv'
  <2> USE Moves, FinishMoves, <1>5 DEF TypeOK, LoopSteps, SlotSteps
  <2>1. CASE finishPoolDrain(p)
    BY <1>1, <2>1 DEF finishPoolDrain, afterFinish
  <2>2. CASE FinLock(p)
    BY <2>2 DEF FinLock
  <2>3. CASE FinWrite(p)
    BY <2>3 DEF FinWrite, at, localVars
  <2>4. CASE FinRemove(p)
    BY <2>4 DEF FinRemove, at, afterFinish
  <2> QED
    BY <1>5, <2>1, <2>2, <2>3, <2>4 DEF Finish
<1>6. CASE (\E s \in Slots : LoopTick(s)) \/ AsyncTick
  BY <1>1, <1>6, SpawnFrame DEF localVars
<1>7. CASE ProcessExit \/ Crash
  BY <1>7, GoneFrame
<1>8. CASE Interrupt \/ BeginShutdown \/ BackoffExpires \/ UNCHANGED vars
           \/ \E r \in Requests, agent \in 1..session : PostRequest(r, agent)
  BY <1>1, <1>8
  DEF Interrupt, BeginShutdown, BackoffExpires, PostRequest, vars, localVars
<1>9. CASE AgentStart
  BY <1>1, <1>9, LoopMoves DEF AgentStart, localVars
<1> QED
  BY <1>2, <1>3, <1>4, <1>5, <1>6, <1>7, <1>8, <1>9 DEF Next, AgentNext, Process

LEMMA Running ==
  ASSUME ProcessInv, NEW s \in Slots, pc[s] # "free"
  PROVE  pc[Loop] \notin Starting \cup {"dead"}
  BY DEF ProcessInv, InFlight

(* Every writer of the file writes for this session, or writes back what it  *)
(* read in it; the scrub comes before all of them.                           *)
LEMMA SessionStep ==
  ASSUME TypeOK, ProcessInv, SessionInv, [Next]_vars
  PROVE  SessionInv'
<1> USE LocalTypes DEF SessionInv, Statuses, Starting
<1>1. CASE /\ status' = status /\ session' = session
           /\ \/ pc'[Loop] = pc[Loop]
              \/ {pc[Loop], pc'[Loop]} \cap {"dead", "start", "scrubRequest", "scrubStatus"} = {}
              \/ {pc[Loop], pc'[Loop]} \subseteq {"start", "scrubRequest", "scrubStatus"}
           /\ \A s \in Slots : pc'[s] = "syncWrite" => pc[s] = "syncWrite" /\ fin'[s] = fin[s]
  BY <1>1
<1>2. CASE LoopStep
  <2> USE LoopFrame, LoopMoves, <1>2
  <2>1. CASE ScrubStatus
    BY <2>1 DEF ScrubStatus, NoStatus, at
  <2>2. CASE WriteFile
    BY <2>2 DEF WriteFile, runningStatus, afterWrite, toIdle, at
  <2>3. CASE RejectWrite
    BY <2>3 DEF RejectWrite, runningStatus, at
  <2>4. CASE HeldWrite
    <3>1. status'.agent \in {status.agent, session}
      BY <2>4 DEF HeldWrite
    <3> QED
      BY <2>4, <3>1 DEF HeldWrite, at
  <2>5. CASE controlTick \/ Control \/ Reclaim \/ ScrubRequest \/ DrainAndWait \/ Waited
    BY <1>1, <2>5
    DEF controlTick, Control, Reclaim, ScrubRequest, DrainAndWait, Waited, at, fileVars
  <2>6. CASE Accept
    BY <1>1, <2>6
    DEF Accept, AcceptLoad, Discard, AcceptRun, DecideHeld, DecideShutdown, AcceptRemove,
        Abandon, AcceptDone, toIdle, at, fileVars
  <2>7. CASE ForceRead \/ ForceSend \/ WriteRead \/ WriteLoad
    BY <1>1, <2>7
    DEF ForceRead, ForceSend, WriteRead, WriteLoad, afterWrite, toIdle, at, fileVars
  <2>8. CASE BusyLoad \/ BusyRead \/ NonRunRead \/ RejectRemove \/ HeldRemove
    BY <1>1, <2>8
    DEF BusyLoad, BusyRead, NonRunRead, RejectRemove, HeldRemove, toIdle, at, fileVars
  <2> QED
    BY <2>1, <2>2, <2>3, <2>4, <2>5, <2>6, <2>7, <2>8
    DEF LoopStep, WritePoolDrain, Reject
<1>3. ASSUME NEW s \in Slots, SlotRun(s) \/ SlotReturn(s) PROVE SessionInv'
  BY <1>1, <1>3, RunFrame DEF InRun, localVars, fileVars
<1>4. ASSUME NEW s \in Slots, SlotTail(s) PROVE SessionInv'
  <2> USE SlotMoves, Running
  <2>1. CASE SyncLock(s)
    BY <1>1, <2>1 DEF SyncLock, fileVars
  <2>2. CASE SyncLoad(s)
    <3>1. /\ pc'[s] = "syncWrite" => fin'[s].loaded = status
          /\ \A t \in Slots \ {s} : pc'[t] = pc[t] /\ fin'[t] = fin[t]
          /\ pc[Loop] \notin Starting \cup {"dead"} /\ pc'[Loop] = pc[Loop]
          /\ UNCHANGED <<status, session>>
      BY <2>2 DEF SyncLoad, at, fileVars, FinLocals
    <3> QED
      BY <3>1
  <2>3. CASE SyncWrite(s)
    BY <2>3 DEF SyncWrite, at, FinLocals
  <2>4. CASE reportFatal(s) \/ Unregister(s) \/ Leave(s) \/ Ungate(s)
             \/ maybeFinishPoolDrain(s) \/ Exit(s)
    BY <1>1, <2>4
    DEF reportFatal, Unregister, Leave, Ungate, maybeFinishPoolDrain, Exit, localVars, fileVars
  <2> QED
    BY <1>4, <2>1, <2>2, <2>3, <2>4 DEF SlotTail
<1>5. ASSUME NEW p \in Procs, Finish(p) PROVE SessionInv'
  <2>1. /\ pc[Loop] \notin Starting \cup {"dead"} /\ pc'[Loop] \notin Starting \cup {"dead"}
        /\ \A s \in Slots : pc'[s] = "syncWrite" => pc[s] = "syncWrite" /\ s # p
    BY <1>5, FinishMoves, Running DEF Procs
  <2>2. \A q \in Procs \ {p} : fin'[q] = fin[q]
    BY <1>5 DEF Finish, finishPoolDrain, FinLock, FinWrite, FinRemove, localVars
  <2>3. session' = session /\ status'.agent \in {status.agent, session}
    BY <1>5 DEF Finish, finishPoolDrain, FinLock, FinWrite, FinRemove, fileVars
  <2> QED
    BY <2>1, <2>2, <2>3
<1>6. CASE (\E s \in Slots : LoopTick(s)) \/ AsyncTick
  BY <1>1, <1>6, SpawnFrame DEF localVars, fileVars
<1>7. CASE ProcessExit \/ Crash
  BY <1>7, GoneFrame DEF fileVars
<1>8. CASE Interrupt \/ BeginShutdown \/ BackoffExpires \/ UNCHANGED vars
           \/ \E r \in Requests, agent \in 1..session : PostRequest(r, agent)
  BY <1>1, <1>8
  DEF Interrupt, BeginShutdown, BackoffExpires, PostRequest, vars, localVars, fileVars
<1>9. CASE AgentStart
  <2>1. \A s \in Slots : pc'[s] = "free"
    BY <1>9, LoopMoves DEF AgentStart, at, ProcessInv, InFlight
  <2> QED
    BY <1>9, <2>1, LoopMoves DEF AgentStart, at, fileVars
<1> QED
  BY <1>2, <1>3, <1>4, <1>5, <1>6, <1>7, <1>8, <1>9 DEF Next, AgentNext, Process

(* A pool that is held or ends does not fill again in this session. *)
LEMMA StoppedStays ==
  ASSUME TypeOK, [Next]_vars, phase \in Stopped, pc'[Loop] # "dead"
  PROVE  phase' \in Stopped
<1> USE DEF Stopped, setPhase, nextPhase, poolVars
<1>1. CASE LoopStep
  BY <1>1
  DEF LoopStep, controlTick, Control, Reclaim, ScrubRequest, ScrubStatus, DrainAndWait, Waited,
      Accept, AcceptLoad, Discard, AcceptRun, DecideHeld, DecideShutdown, AcceptRemove,
      Abandon, AcceptDone, WritePoolDrain, ForceRead, ForceSend, WriteRead, WriteLoad,
      WriteFile, Reject, BusyLoad, BusyRead, NonRunRead, RejectWrite, RejectRemove,
      HeldWrite, HeldRemove
<1>2. ASSUME NEW s \in Slots, SlotRun(s) \/ SlotReturn(s) PROVE phase' \in Stopped
  BY <1>2, RunFrame
<1>3. ASSUME NEW s \in Slots, SlotTail(s) PROVE phase' \in Stopped
  BY <1>3
  DEF SlotTail, reportFatal, Unregister, Leave, Ungate, maybeFinishPoolDrain, SyncLock,
      SyncLoad, SyncWrite, Exit
<1>4. ASSUME NEW p \in Procs, Finish(p) PROVE phase' \in Stopped
  BY <1>4 DEF Finish, finishPoolDrain, FinLock, FinWrite, FinRemove
<1>5. CASE (\E s \in Slots : LoopTick(s)) \/ AsyncTick
  BY <1>5, SpawnFrame
<1>6. CASE Interrupt \/ BeginShutdown \/ AgentStart \/ BackoffExpires \/ UNCHANGED vars
           \/ \E r \in Requests, agent \in 1..session : PostRequest(r, agent)
  BY <1>6 DEF Interrupt, BeginShutdown, AgentStart, BackoffExpires, PostRequest, vars
<1>7. ~ProcessExit /\ ~Crash
  BY GoneFrame
<1> QED
  BY <1>1, <1>2, <1>3, <1>4, <1>5, <1>6, <1>7 DEF Next, AgentNext, Process

Ends == {"finLock", "finWrite"}
Helds == {"heldWrite", "heldRemove"}

(* A stop sets its phase before it writes that it is complete, and what      *)
(* another session wrote is scrubbed before this one can be asked to stop.   *)
LEMMA StopStep ==
  ASSUME TypeOK, ProcessInv, SessionInv, StopInv, [Next]_vars
  PROVE  StopInv'
<1> USE LocalTypes DEF StopInv, stopEnded, Procs, Syncing, Ends, Helds, at
<1>1. ASSUME UNCHANGED <<status, session>>, phase \in Stopped => phase' \in Stopped,
             pc'[Loop] # "dead" => pc[Loop] # "dead",
             \A p \in Procs :
               /\ pc'[p] \in Ends => pc[p] \in Ends /\ fin'[p].req = fin[p].req
               /\ pc'[p] \in Helds => pc[p] \in Helds
               /\ pc'[p] \in Syncing => pc[p] \in Syncing
      PROVE  StopInv'
  BY <1>1
<1>2. CASE LoopStep
  <2> USE LoopFrame, LoopMoves, <1>2
  <2>0. pc'[Loop] # "dead" /\ phase \in Stopped => phase' \in Stopped
    BY StoppedStays
  <2>1. CASE ScrubStatus
    BY <2>0, <2>1 DEF ScrubStatus, NoStatus, localVars
  <2>2. CASE WriteFile
    BY <2>0, <2>2 DEF WriteFile, runningStatus, afterWrite, toIdle, localVars
  <2>3. CASE RejectWrite
    BY <2>0, <2>3 DEF RejectWrite, runningStatus, localVars
  <2>4. CASE HeldWrite
    BY <2>0, <2>4 DEF HeldWrite
  <2>5. CASE DecideHeld
    BY <2>0, <2>5 DEF DecideHeld, Stopped, poolVars, fileVars
  <2>6. CASE controlTick \/ Control \/ Reclaim \/ ScrubRequest \/ DrainAndWait \/ Waited
    BY <1>1, <2>0, <2>6
    DEF controlTick, Control, Reclaim, ScrubRequest, DrainAndWait, Waited, localVars, fileVars
  <2>7. CASE AcceptLoad \/ Discard \/ AcceptRun \/ DecideShutdown \/ AcceptRemove \/ Abandon
             \/ AcceptDone
    BY <1>1, <2>0, <2>7
    DEF AcceptLoad, Discard, AcceptRun, DecideShutdown, AcceptRemove, Abandon, AcceptDone,
        toIdle, localVars, fileVars
  <2>8. CASE ForceRead \/ ForceSend \/ WriteRead \/ WriteLoad
    BY <1>1, <2>0, <2>8
    DEF ForceRead, ForceSend, WriteRead, WriteLoad, afterWrite, toIdle, localVars, fileVars
  <2>9. CASE BusyLoad \/ BusyRead \/ NonRunRead \/ RejectRemove \/ HeldRemove
    BY <1>1, <2>0, <2>9
    DEF BusyLoad, BusyRead, NonRunRead, RejectRemove, HeldRemove, toIdle, localVars, fileVars
  <2> QED
    BY <2>1, <2>2, <2>3, <2>4, <2>5, <2>6, <2>7, <2>8, <2>9
    DEF LoopStep, Accept, WritePoolDrain, Reject
<1>3. ASSUME NEW s \in Slots, SlotRun(s) \/ SlotReturn(s) PROVE StopInv'
  BY <1>1, <1>3, RunFrame DEF InRun, localVars, fileVars
<1>4. ASSUME NEW s \in Slots, SlotTail(s) PROVE StopInv'
  <2> USE SlotMoves
  <2>0. /\ pc'[Loop] = pc[Loop] /\ pc[Loop] # "dead"
        /\ phase \in Stopped => phase' \in Stopped
    BY <1>4, SlotStepsMove, Running, StoppedStays DEF Next, AgentNext
  <2>1. CASE SyncLock(s)
    BY <2>0, <2>1 DEF SyncLock, poolVars, fileVars, Stopped
  <2>2. CASE SyncLoad(s)
    BY <2>0, <2>2 DEF SyncLoad, poolVars, fileVars
  <2>3. CASE SyncWrite(s)
    BY <2>0, <2>3 DEF SyncWrite, poolVars
  <2>4. CASE reportFatal(s) \/ Unregister(s) \/ Leave(s) \/ Ungate(s)
             \/ maybeFinishPoolDrain(s) \/ Exit(s)
    BY <1>1, <2>0, <2>4
    DEF reportFatal, Unregister, Leave, Ungate, maybeFinishPoolDrain, Exit, localVars, fileVars
  <2> QED
    BY <1>4, <2>1, <2>2, <2>3, <2>4 DEF SlotTail
<1>5. ASSUME NEW p \in Procs, Finish(p) PROVE StopInv'
  <2>1. /\ pc[Loop] # "dead" /\ pc'[Loop] # "dead" /\ session' = session
        /\ phase \in Stopped => phase' \in Stopped
        /\ \A q \in Procs \ {p} : pc'[q] = pc[q] /\ fin'[q] = fin[q]
        /\ pc'[p] \notin Helds \cup Syncing
    <3>1. pc[Loop] # "dead" /\ pc'[Loop] # "dead"
      BY <1>5, FinishMoves, Running DEF Procs
    <3>2. phase \in Stopped => phase' \in Stopped
      BY <1>5, <3>1, StoppedStays
    <3> QED
      BY <1>5, <3>1, <3>2, FinishMoves
      DEF Finish, finishPoolDrain, FinLock, FinWrite, FinRemove, localVars
  <2>2. CASE finishPoolDrain(p)
    <3>1. pc'[p] \in Ends /\ fin'[p].req \in StopRequests => phase' \in Stopped
      BY <2>2, Moves
      DEF finishPoolDrain, setPhase, nextPhase, phaseAfterDrain, afterFinish, Stopped,
          TypeOK, LoopSteps, SlotSteps
    <3> QED
      BY <2>1, <2>2, <3>1 DEF finishPoolDrain, fileVars
  <2>3. CASE FinLock(p)
    BY <2>1, <2>3 DEF FinLock, fileVars, FinLocals
  <2>4. CASE FinWrite(p)
    <3>1. pc'[p] = "finRemove"
      BY <2>4, Moves DEF FinWrite, TypeOK, LoopSteps, SlotSteps
    <3> QED
      BY <2>1, <2>4, <3>1 DEF FinWrite, localVars
  <2>5. CASE FinRemove(p)
    <3>1. pc'[p] \notin Ends
      BY <2>5, Moves DEF FinRemove, afterFinish, TypeOK, LoopSteps, SlotSteps
    <3> QED
      BY <2>1, <2>5, <3>1 DEF FinRemove
  <2> QED
    BY <1>5, <2>2, <2>3, <2>4, <2>5 DEF Finish
<1>6. CASE (\E s \in Slots : LoopTick(s)) \/ AsyncTick
  BY <1>1, <1>6, SpawnFrame DEF localVars, fileVars
<1>7. CASE ProcessExit \/ Crash
  BY <1>7, GoneFrame
<1>8. CASE Interrupt \/ BackoffExpires \/ UNCHANGED vars
           \/ \E r \in Requests, agent \in 1..session : PostRequest(r, agent)
  BY <1>1, <1>8
  DEF Interrupt, BackoffExpires, PostRequest, vars, localVars, fileVars, poolVars
<1>9. CASE BeginShutdown
  BY <1>1, <1>9
  DEF BeginShutdown, setPhase, nextPhase, Stopped, localVars, fileVars
<1>10. CASE AgentStart
  <2>1. \A s \in Slots : pc'[s] = "free"
    BY <1>10, LoopMoves DEF AgentStart, ProcessInv, InFlight
  <2> QED
    BY <1>10, <2>1, LoopMoves DEF AgentStart, fileVars, SessionInv
<1> QED
  BY <1>2, <1>3, <1>4, <1>5, <1>6, <1>7, <1>8, <1>9, <1>10 DEF Next, AgentNext, Process

LEMMA NoneCounted ==
  ASSUME SlotsAccounted, \A s \in Slots : pc[s] \notin Counted
  PROVE  active = 0
<1>1. {s \in Slots : pc[s] \in Counted} = {}
  OBVIOUS
<1> QED
  BY <1>1, FS_EmptySet DEF SlotsAccounted

(* Whoever read active last under the lock writes it last, and each slot     *)
(* that leaves after that has a look of its own to come.                     *)
LEMMA SettleStep ==
  ASSUME TypeOK, SlotsAccounted, MutexInv, StopInv, SettleInv, [Next]_vars
  PROVE  SettleInv'
<1> SUFFICES ASSUME phase' = "held", \A s \in Slots : pc'[s] \notin Owing
             PROVE  /\ \A s \in Slots : pc'[s] \in Syncing => fin'[s].active = 0
                    /\ pc'[Loop] = "finWrite" => fin'[Loop].active = 0
                    /\ stopEnded(status') =>
                         \/ status'.active = 0
                         \/ \E s \in Slots : pc'[s] \in Syncing
                         \/ pc'[Loop] \in {"finLock", "finWrite"}
  BY DEF SettleInv
<1> USE LocalTypes DEF SettleInv, stopEnded, Syncing, Ends
<1>1. ASSUME UNCHANGED <<phase, status>>,
             \A s \in Slots : /\ pc[s] \in Owing => pc'[s] \in Owing
                              /\ pc'[s] \in Syncing <=> pc[s] \in Syncing
                              /\ pc'[s] \in Syncing => fin'[s] = fin[s],
             \/ pc'[Loop] = pc[Loop] /\ fin'[Loop] = fin[Loop]
             \/ pc[Loop] \notin Ends /\ pc'[Loop] # "finWrite"
      PROVE  SettleInv'
  BY <1>1
<1>2. CASE LoopStep
  <2> USE LoopFrame, LoopMoves, <1>2
  <2>1. ASSUME phase = "held", pc[Loop] \notin Ends, pc'[Loop] # "finWrite",
               ~stopEnded(status') \/ UNCHANGED status \/ status'.active = 0
                 \/ (stopEnded(status) /\ status'.active = status.active)
        PROVE  SettleInv'
    BY <2>1
  <2>2. CASE ScrubStatus
    BY <2>1, <2>2 DEF ScrubStatus, NoStatus, at, poolVars
  <2>3. CASE WriteFile
    BY <2>1, <2>3 DEF WriteFile, runningStatus, afterWrite, toIdle, at, poolVars
  <2>4. CASE RejectWrite
    BY <2>1, <2>4 DEF RejectWrite, runningStatus, at, poolVars
  <2>5. CASE HeldWrite
    <3>1. active = 0
      BY NoneCounted DEF Owing
    <3>2. status'.active = 0 \/ (stopEnded(status) /\ status'.active = status.active)
      BY <2>5, <3>1 DEF HeldWrite, Statuses
    <3> QED
      BY <2>1, <2>5, <3>2 DEF HeldWrite, at, poolVars
  <2>6. CASE controlTick \/ Control \/ Reclaim \/ ScrubRequest \/ Waited
    BY <2>1, <2>6
    DEF controlTick, Control, Reclaim, ScrubRequest, Waited, at, poolVars, fileVars
  <2>7. CASE AcceptLoad \/ Discard \/ DecideHeld \/ DecideShutdown \/ AcceptRemove \/ Abandon
             \/ AcceptDone
    BY <2>1, <2>7
    DEF AcceptLoad, Discard, DecideHeld, DecideShutdown, AcceptRemove, Abandon,
        AcceptDone, toIdle, at, poolVars, fileVars
  <2>8. CASE ForceRead \/ ForceSend \/ WriteRead \/ WriteLoad
    BY <2>1, <2>8
    DEF ForceRead, ForceSend, WriteRead, WriteLoad, afterWrite, toIdle, at, poolVars, fileVars
  <2>9. CASE BusyLoad \/ BusyRead \/ NonRunRead \/ RejectRemove \/ HeldRemove
    BY <2>1, <2>9
    DEF BusyLoad, BusyRead, NonRunRead, RejectRemove, HeldRemove, toIdle, at, poolVars,
        fileVars
  <2>10. CASE AcceptRun \/ DrainAndWait
    BY <2>10 DEF AcceptRun, DrainAndWait, setPhase, nextPhase
  <2> QED
    BY <2>2, <2>3, <2>4, <2>5, <2>6, <2>7, <2>8, <2>9, <2>10
    DEF LoopStep, Accept, WritePoolDrain, Reject
<1>3. ASSUME NEW s \in Slots, SlotRun(s) \/ SlotReturn(s) PROVE SettleInv'
  BY <1>3, RunFrame DEF InRun, Owing, Counted
<1>4. ASSUME NEW s \in Slots, SlotTail(s) PROVE SettleInv'
  <2> USE SlotMoves
  <2>1. CASE SyncLock(s)
    <3>1. active = 0
      <4>1. \A t \in Slots : pc[t] \notin Counted
        BY <2>1 DEF SyncLock, at, Owing, Counted
      <4> QED
        BY <4>1, NoneCounted
    <3>2. \A p \in Procs : pc[p] \notin Locked
      BY <2>1 DEF SyncLock, MutexInv
    <3>3. pc'[s] = "syncLoad" /\ fin' = [fin EXCEPT ![s].active = active]
      BY <2>1 DEF SyncLock, poolVars
    <3>4. fin'[s].active = 0
      BY <3>1, <3>3 DEF FinLocals
    <3>5. pc'[Loop] = pc[Loop] /\ \A t \in Slots \ {s} : pc'[t] = pc[t]
      BY <2>1 DEF SyncLock
    <3> QED
      BY <3>2, <3>3, <3>4, <3>5 DEF Locked
  <2>2. CASE SyncLoad(s)
    <3>1. /\ phase = "held" /\ status' = status /\ pc[s] = "syncLoad"
          /\ pc'[Loop] = pc[Loop] /\ \A t \in Slots \ {s} : pc'[t] = pc[t]
          /\ \A q \in Procs \ {s} : fin'[q] = fin[q]
      BY <2>2 DEF SyncLoad, at, poolVars, fileVars
    <3>2. fin[s].active = 0 /\ \A t \in Slots : pc[t] \notin Owing
      BY <3>1 DEF Owing, Counted
    <3>3. CASE staleHeldStatus(fin[s].active)
      <4>1. pc'[s] = "syncWrite" /\ fin'[s].active = fin[s].active
        BY <2>2, <3>3 DEF SyncLoad, FinLocals
      <4> QED
        BY <3>1, <3>2, <4>1
    <3>4. CASE ~staleHeldStatus(fin[s].active)
      <4>1. pc'[s] = "exit" /\ (stopEnded(status) => status.active = 0)
        BY <2>2, <3>2, <3>4 DEF SyncLoad, staleHeldStatus
      <4> QED
        BY <3>1, <3>2, <4>1
    <3> QED
      BY <3>3, <3>4
  <2>3. CASE SyncWrite(s)
    <3>1. /\ phase = "held" /\ pc[s] = "syncWrite" /\ pc'[s] = "exit"
          /\ pc'[Loop] = pc[Loop] /\ \A t \in Slots \ {s} : pc'[t] = pc[t]
          /\ \A q \in Procs \ {s} : fin'[q] = fin[q]
          /\ status'.active = fin[s].active
      BY <2>3 DEF SyncWrite, at, poolVars, FinLocals, Statuses
    <3>2. fin[s].active = 0 /\ \A t \in Slots : pc[t] \notin Owing
      BY <3>1 DEF Owing, Counted
    <3> QED
      BY <3>1, <3>2
  <2>4. CASE reportFatal(s) \/ Unregister(s) \/ Leave(s) \/ Ungate(s) \/ maybeFinishPoolDrain(s)
    <3>1. pc'[s] \in Owing
      BY <2>4
      DEF reportFatal, Unregister, Leave, Ungate, maybeFinishPoolDrain, Owing, Counted
    <3> QED
      BY <3>1
  <2>5. CASE Exit(s)
    BY <1>1, <2>5 DEF Exit, at, fileVars, Owing, Counted
  <2> QED
    BY <1>4, <2>1, <2>2, <2>3, <2>4, <2>5 DEF SlotTail
<1>5. ASSUME NEW p \in Procs, Finish(p) PROVE SettleInv'
  <2>1. p = Loop
    <3>1. ASSUME p \in Slots PROVE pc'[p] \in Owing
      BY <1>5, <3>1, Moves
      DEF Finish, finishPoolDrain, FinLock, FinWrite, FinRemove, afterFinish, Owing, TypeOK,
          SlotSteps
    <3> QED
      BY <3>1 DEF Procs
  <2>2. \A s \in Slots : pc'[s] = pc[s] /\ fin'[s] = fin[s]
    BY <1>5, <2>1, LoopMoves
    DEF Finish, finishPoolDrain, FinLock, FinWrite, FinRemove, localVars
  <2>3. active = 0
    BY <2>2, NoneCounted DEF Owing
  <2>4. CASE finishPoolDrain(p)
    <3>1. /\ status' = status /\ pc[Loop] = "finish"
          /\ \/ phase = "held" /\ pc'[Loop] = "idle"
             \/ phase \notin Stopped /\ pc'[Loop] = "finLock"
      BY <2>1, <2>4, LoopMoves
      DEF finishPoolDrain, afterFinish, at, fileVars, Stopped, setPhase, nextPhase
    <3> QED
      BY <2>2, <3>1 DEF StopInv
  <2>5. CASE FinLock(p)
    <3>1. pc'[Loop] = "finWrite" /\ fin'[Loop].active = 0
      BY <2>1, <2>3, <2>5, LoopMoves DEF FinLock, FinLocals
    <3> QED
      BY <2>2, <2>5, <3>1 DEF FinLock, poolVars
  <2>6. CASE FinWrite(p)
    BY <2>1, <2>2, <2>6, LoopMoves DEF FinWrite, at, localVars, poolVars
  <2>7. CASE FinRemove(p)
    BY <2>1, <2>2, <2>7, LoopMoves DEF FinRemove, at, afterFinish
  <2> QED
    BY <1>5, <2>4, <2>5, <2>6, <2>7 DEF Finish
<1>6. CASE (\E s \in Slots : LoopTick(s)) \/ AsyncTick
  BY <1>1, <1>6, SpawnFrame DEF localVars, fileVars
<1>7. CASE ProcessExit \/ Crash
  BY <1>7, GoneFrame
<1>8. CASE Interrupt \/ BackoffExpires \/ UNCHANGED vars
           \/ \E r \in Requests, agent \in 1..session : PostRequest(r, agent)
  BY <1>1, <1>8
  DEF Interrupt, BackoffExpires, PostRequest, vars, localVars, fileVars, poolVars
<1>9. CASE BeginShutdown
  BY <1>9 DEF BeginShutdown, setPhase, nextPhase
<1>10. CASE AgentStart
  BY <1>1, <1>10, LoopMoves DEF AgentStart, at, localVars, fileVars, poolVars
<1> QED
  BY <1>2, <1>3, <1>4, <1>5, <1>6, <1>7, <1>8, <1>9, <1>10 DEF Next, AgentNext, Process

-----------------------------------------------------------------------------
(* The pool alone. *)

LEMMA DrainInit == Init => DrainIInv
<1> SUFFICES ASSUME Init PROVE DrainIInv
  OBVIOUS
<1> USE SlotsAssumption DEF Init
<1>1. /\ pc[Loop] = "start" /\ \A s \in Slots : pc[s] = "free"
      /\ \A p \in Procs : pc[p] \in {"start", "free"}
  BY DEF Procs
<1>2. RegInv /\ ReachInv
  BY <1>1 DEF RegInv, ReachInv, InRun
<1>3. MutexInv /\ SettleInv /\ SessionInv /\ StopInv
  BY <1>1
  DEF MutexInv, Locked, SettleInv, SessionInv, StopInv, NoStatus, Starting, Syncing,
      stopEnded, at
<1> QED
  BY <1>2, <1>3 DEF DrainIInv

(* The inductive invariant of the drain protocol, on top of the pool's. *)
THEOREM DrainInvariance == Spec => [](IInv /\ DrainIInv)
<1>1. Init => IInv /\ DrainIInv
  BY InitInv, DrainInit
<1>2. IInv /\ DrainIInv /\ [Next]_vars => (IInv /\ DrainIInv)'
  BY InvStep, RegStep, ReachStep, MutexStep, SettleStep, SessionStep, StopStep
  DEF IInv, DrainIInv
<1> QED
  BY <1>1, <1>2, PTL DEF Spec

(* pool_drain.go, acceptDrainRequest and forcePoolDrainSlots: a drain tells  *)
(* every spawn, however its registration races the accept and the force.     *)
THEOREM EverySlotReached == Spec => []DrainReachesEverySlot
<1>1. IInv /\ DrainIInv => DrainReachesEverySlot
  BY LocalTypes
  DEF IInv, DrainIInv, RegInv, ReachInv, DrainReachesEverySlot, told, willTell, InRun, Spawning
<1> QED
  BY <1>1, DrainInvariance, PTL

(* pool_drain.go, syncHeldStatusActive: once the runners of a held pool have *)
(* wound down, its status on file says so.                                   *)
THEOREM HeldSettles == Spec => []HeldStatusSettles
<1>1. IInv /\ DrainIInv => HeldStatusSettles
  <2> SUFFICES ASSUME IInv, DrainIInv, quiet, phase = "held", stopEnded(status)
               PROVE  status.active = active
    BY DEF HeldStatusSettles, stopEnded
  <2>1. \A s \in Slots : pc[s] = "free"
    BY DEF quiet, InFlight
  <2>2. active = 0
    BY <2>1, NoneCounted DEF IInv, Counted
  <2> QED
    BY <2>1, <2>2 DEF DrainIInv, SettleInv, Owing, Counted, Syncing, quiet, at
<1> QED
  BY <1>1, DrainInvariance, PTL

(* A stop whose completion is on file holds for as long as its session does. *)
THEOREM StopHolds == Spec => []CompletedStopHolds
<1>1. IInv /\ DrainIInv => CompletedStopHolds
  BY DEF DrainIInv, StopInv, CompletedStopHolds, stopEnded, Stopped
<1> QED
  BY <1>1, DrainInvariance, PTL

(* pool_drain.go, scrubDrainControl: no status of an earlier session is left *)
(* on file, or written back, once the loop runs.                             *)
THEOREM StatusOfThisSession == Spec => []StatusIsOfThisSession
<1>1. IInv /\ DrainIInv => StatusIsOfThisSession
  BY DEF DrainIInv, SessionInv, StatusIsOfThisSession, Starting
<1> QED
  BY <1>1, DrainInvariance, PTL

-----------------------------------------------------------------------------
(* The CLIs. *)

(* Whatever the agent does, nobody forgets a request, and sessions only grow. *)
LEMMA AgentFrame ==
  ASSUME TypeOK, AgentNext
  PROVE  /\ posted' = posted
         /\ session' = session \/ AgentStart
<1> USE DEF fileVars
<1>1. CASE LoopStep
  BY <1>1, LoopFrame
<1>2. ASSUME NEW s \in Slots, SlotRun(s) \/ SlotReturn(s) PROVE UNCHANGED <<posted, session>>
  BY <1>2, RunFrame
<1>3. ASSUME NEW s \in Slots, SlotTail(s) PROVE UNCHANGED <<posted, session>>
  BY <1>3
  DEF SlotTail, reportFatal, Unregister, Leave, Ungate, maybeFinishPoolDrain, SyncLock,
      SyncLoad, SyncWrite, Exit
<1>4. ASSUME NEW p \in Procs, Finish(p) PROVE UNCHANGED <<posted, session>>
  BY <1>4 DEF Finish, finishPoolDrain, FinLock, FinWrite, FinRemove
<1>5. CASE (\E s \in Slots : LoopTick(s)) \/ AsyncTick
  BY <1>5, SpawnFrame
<1>6. CASE ProcessExit \/ Crash
  BY <1>6, GoneFrame
<1>7. CASE Interrupt \/ BeginShutdown \/ BackoffExpires
  BY <1>7 DEF Interrupt, BeginShutdown, BackoffExpires
<1>8. CASE AgentStart
  BY <1>8 DEF AgentStart
<1> QED
  BY <1>1, <1>2, <1>3, <1>4, <1>5, <1>6, <1>7, <1>8 DEF AgentNext, Process

(* A step of the CLIs is a step of the pool's environment, or none. *)
LEMMA ControlIsPool ==
  ASSUME TypeOK, CliInv, [ControlNext]_controlVars
  PROVE  [Next]_vars
<1>1. ASSUME NEW r \in Requests, Write(r) PROVE [Next]_vars
  <2>1. cliAgent[r] \in 1..session
    BY <1>1 DEF Write, CliInv, CliTypeOK, TypeOK, FileType
  <2> QED
    BY <1>1, <2>1 DEF Write, Next
<1>2. ASSUME NEW r \in Requests, Check(r) \/ Poll(r) PROVE [Next]_vars
  BY <1>2 DEF Check, Poll
<1> QED
  BY <1>1, <1>2 DEF ControlNext, controlVars, Next, CliNext

(* What a step is to the requests: their CLIs' own, or the agent's.  It      *)
(* forgets none that was sent.                                               *)
LEMMA CliStep ==
  ASSUME TypeOK, CliInv, [ControlNext]_controlVars
  PROVE  /\ CliInv'
         /\ \A r \in Requests, agent \in Nat : sentTo(r, agent) => sentTo(r, agent)'
         /\ posted \subseteq posted'
<1> USE LocalTypes, BoundsAssumption DEF sentTo, CliInv, CliTypeOK, becomes, CliEnds
<1>0. posted \subseteq Requests /\ session \in 1..MaxSessions
  BY DEF TypeOK, FileType
<1>1. CASE AgentNext /\ UNCHANGED cliVars
  BY <1>0, <1>1, AgentFrame DEF cliVars, AgentStart
<1>2. ASSUME NEW r \in Requests, Check(r)
      PROVE  /\ CliInv'
             /\ \A q \in Requests, agent \in Nat : sentTo(q, agent) => sentTo(q, agent)'
             /\ posted \subseteq posted'
  BY <1>0, <1>2 DEF Check, vars, fileVars
<1>3. ASSUME NEW r \in Requests, Write(r)
      PROVE  /\ CliInv'
             /\ \A q \in Requests, agent \in Nat : sentTo(q, agent) => sentTo(q, agent)'
             /\ posted \subseteq posted'
  BY <1>0, <1>3 DEF Write, PostRequest, vars, fileVars
<1>4. ASSUME NEW r \in Requests, Poll(r)
      PROVE  /\ CliInv'
             /\ \A q \in Requests, agent \in Nat : sentTo(q, agent) => sentTo(q, agent)'
             /\ posted \subseteq posted'
  BY <1>0, <1>4 DEF Poll, vars, fileVars
<1>5. CASE UNCHANGED controlVars
  BY <1>5 DEF controlVars, cliVars, vars, fileVars
<1> QED
  BY <1>1, <1>2, <1>3, <1>4, <1>5 DEF ControlNext, CliNext

-----------------------------------------------------------------------------
(* What the agent does with a request. *)

Hands == {"decide", "acceptRemove", "abandon", "heldWrite", "nonRunRead", "busyRead",
          "rejectWrite"}

(* The loop reads a request only from the file, and keeps it while it        *)
(* decides.                                                                  *)
HandMove ==
  \/ pc'[Loop] \notin Hands
  \/ pc'[Loop] = pc[Loop] /\ work'.req = work.req
  \/ /\ at(Loop, "acceptLoad") /\ at(Loop, "decide")' /\ request.id \in Requests
     /\ request.agent = session /\ work'.req = request.id
  \/ /\ at(Loop, "busyLoad") /\ at(Loop, "busyRead")' /\ request.id \in Requests
     /\ work'.req = request.id
  \/ /\ at(Loop, "decide") /\ pc'[Loop] \in {"acceptRemove", "heldWrite", "nonRunRead"}
     /\ work'.req = work.req
  \/ at(Loop, "acceptRemove") /\ at(Loop, "abandon")' /\ work'.req = work.req
  \/ /\ at(Loop, "busyRead") /\ at(Loop, "rejectWrite")' /\ work'.req = work.req
     /\ drain.req # work.req
  \/ at(Loop, "nonRunRead") /\ at(Loop, "rejectWrite")' /\ work'.req = work.req

(* The drain's request is the one that was in the loop's hands. *)
DrainMove ==
  \/ drain'.req \in {drain.req, None}
  \/ /\ at(Loop, "decide") /\ at(Loop, "acceptRemove")'
     /\ drain'.req = work.req

(* A request stays on file until the loop is done with it, or a drain ends. *)
FileMove ==
  /\ request' \in {request, NoRequest}
  /\ pc[Loop] \in {"acceptRemove", "rejectRemove", "heldRemove"} /\ pc'[Loop] # pc[Loop] =>
       request' = NoRequest \/ (pc'[Loop] = "dead" /\ drain'.req = None)

(* A new session starts with empty hands. *)
SessionMove ==
  \/ session' = session /\ (pc[Loop] = "dead" => pc'[Loop] = "dead")
  \/ /\ session' = session + 1 /\ pc'[Loop] = "start" /\ drain'.req = None
     /\ \A p \in Procs : pc'[p] \notin Ends \cup {"syncWrite"}

(* What finishPoolDrain has to say is of the drain, or of a stop that finds  *)
(* the pool held.                                                            *)
FinMove ==
  \A p \in Procs : pc'[p] \in Ends =>
    \/ pc[p] \in Ends /\ fin'[p].req = fin[p].req
    \/ fin'[p].req = drain.req
    \/ at(Loop, "decide") /\ fin'[p].req = work.req

Handles == HandMove /\ DrainMove /\ FileMove /\ SessionMove /\ FinMove

LEMMA LoopHandles ==
  ASSUME TypeOK, RequestInv, LoopStep
  PROVE  Handles
<1> USE LoopFrame, LoopMoves, LocalTypes
    DEF Handles, HandMove, DrainMove, FileMove, SessionMove, FinMove, Hands, Ends, at, Procs
<1>1. CASE AcceptLoad
  <2>1. CASE pc'[Loop] = "decide"
    BY <1>1, <2>1 DEF AcceptLoad, toIdle, shouldDiscard, RequestInv, localVars, fileVars,
       poolVars, WorkLocals
  <2>2. CASE pc'[Loop] # "decide"
    BY <1>1, <2>2 DEF AcceptLoad, toIdle, localVars, fileVars, poolVars
  <2> QED
    BY <2>1, <2>2
<1>2. CASE Discard \/ AcceptRemove
  BY <1>2 DEF LoopStep, Discard, AcceptRemove, toIdle, localVars, poolVars
<1>3. CASE AcceptRun
  BY <1>3 DEF LoopStep, AcceptRun, fileVars, WorkLocals
<1>4. CASE DecideHeld
  BY <1>4 DEF LoopStep, DecideHeld, fileVars, poolVars, localVars, NoFin
<1>5. CASE DecideShutdown \/ Abandon \/ AcceptDone
  BY <1>5 DEF LoopStep, DecideShutdown, Abandon, AcceptDone, toIdle, fileVars, poolVars, localVars
<1>6. CASE ForceRead
  <2>1. drain'.req = drain.req
    BY <1>6 DEF ForceRead, NoDrain, Drains
  <2> QED
    BY <1>6, <2>1 DEF ForceRead, fileVars, poolVars
<1>7. CASE ForceSend \/ WriteRead \/ WriteLoad \/ WriteFile
  BY <1>7
  DEF ForceSend, WriteRead, WriteLoad, WriteFile, afterWrite, toIdle, fileVars,
      poolVars, localVars
<1>8. ASSUME HandMove, UNCHANGED <<drain, request, session, fin>>,
             pc[Loop] \in {"busyLoad", "busyRead"}, pc'[Loop] \notin Ends \cup {"dead"}
      PROVE  Handles
  BY <1>8
<1>9. CASE BusyLoad \/ BusyRead
  <2>1. /\ UNCHANGED <<drain, request, session, fin>>
        /\ pc[Loop] \in {"busyLoad", "busyRead"}
        /\ pc'[Loop] \in {"busyRead", "control", "rejectWrite"}
    BY <1>9 DEF BusyLoad, BusyRead, fileVars, poolVars
  <2>2. HandMove
    <3>1. CASE BusyLoad /\ request # NoRequest
      <4>1. /\ pc[Loop] = "busyLoad" /\ pc'[Loop] = "busyRead" /\ request.id \in Requests
            /\ work'.req = request.id
        BY <3>1 DEF BusyLoad, RequestInv, WorkLocals, NoRequest
      <4> QED
        BY <4>1
    <3>2. CASE BusyLoad /\ request = NoRequest
      BY <3>2 DEF BusyLoad
    <3>3. CASE BusyRead
      <4>1. /\ pc[Loop] = "busyRead" /\ work'.req = work.req
            /\ \/ pc'[Loop] = "rejectWrite" /\ drain.req # work.req
               \/ pc'[Loop] = "control"
        BY <3>3 DEF BusyRead, WorkLocals
      <4> QED
        BY <4>1
    <3> QED
      BY <1>9, <3>1, <3>2, <3>3
  <2> QED
    BY <1>8, <2>1, <2>2
<1>10. CASE NonRunRead
  BY <1>10 DEF NonRunRead, WorkLocals, fileVars, poolVars, localVars
<1>11. CASE RejectWrite \/ RejectRemove \/ HeldWrite \/ HeldRemove
  BY <1>11
  DEF RejectWrite, RejectRemove, HeldWrite, HeldRemove, toIdle, fileVars, poolVars, localVars
<1>12. CASE controlTick \/ Control \/ Reclaim \/ ScrubRequest \/ ScrubStatus \/ Waited
  BY <1>12
  DEF controlTick, Control, Reclaim, ScrubRequest, ScrubStatus, Waited, fileVars,
      poolVars, localVars
<1>13. CASE DrainAndWait
  BY <1>13 DEF DrainAndWait, setPhase, drainAfter, NoDrain, fileVars, localVars
<1> QED
  BY <1>1, <1>2, <1>3, <1>4, <1>5, <1>6, <1>7, <1>9, <1>10, <1>11, <1>12, <1>13
  DEF LoopStep, Accept, WritePoolDrain, Reject

(* The slots end a drain and remove its request's file, and take nothing up. *)
LEMMA AgentHandles ==
  ASSUME TypeOK, RequestInv, ProcessInv, DrainStateMatchesPhase, AgentNext
  PROVE  Handles
<1> USE LocalTypes
    DEF Handles, HandMove, DrainMove, FileMove, SessionMove, FinMove, Ends, at, Procs
<1>1. CASE LoopStep
  BY <1>1, LoopHandles
<1>2. ASSUME NEW s \in Slots, SlotRun(s) \/ SlotReturn(s) PROVE Handles
  BY <1>2, RunFrame DEF InRun, localVars, fileVars
<1>3. ASSUME NEW s \in Slots, SlotTail(s) PROVE Handles
  <2> USE SlotMoves
  <2>1. CASE reportFatal(s)
    BY <2>1 DEF reportFatal, setPhase, drainAfter, NoDrain, localVars, fileVars
  <2>2. CASE SyncLock(s) \/ SyncLoad(s) \/ SyncWrite(s)
    BY <2>2 DEF SyncLock, SyncLoad, SyncWrite, poolVars, fileVars
  <2>3. CASE Exit(s)
    BY <2>3 DEF Exit, fileVars, WorkLocals
  <2>4. CASE Unregister(s) \/ Leave(s) \/ Ungate(s) \/ maybeFinishPoolDrain(s)
    BY <2>4
    DEF Unregister, Leave, Ungate, maybeFinishPoolDrain, poolVars, localVars, fileVars
  <2> QED
    BY <1>3, <2>1, <2>2, <2>3, <2>4 DEF SlotTail
<1>4. ASSUME NEW p \in Procs, Finish(p) PROVE Handles
  <2>1. \/ pc'[Loop] = pc[Loop] /\ work' = work
        \/ pc'[Loop] \notin Hands /\ pc[Loop] \in {"finish", "finLock", "finWrite", "finRemove"}
    BY <1>4, FinishMoves
    DEF Finish, finishPoolDrain, FinLock, FinWrite, FinRemove, doneWork, Hands, localVars
  <2>2. \A q \in Procs \ {p} : pc'[q] = pc[q] /\ fin'[q] = fin[q]
    BY <1>4, FinishMoves DEF Finish, finishPoolDrain, FinLock, FinWrite, FinRemove, localVars
  <2>3. /\ drain'.req \in {drain.req, None} /\ request' \in {request, NoRequest}
        /\ session' = session
        /\ pc'[p] \in Ends => \/ pc[p] \in Ends /\ fin'[p].req = fin[p].req
                              \/ fin'[p].req = drain.req
    <3>1. CASE finishPoolDrain(p)
      BY <3>1, Moves
      DEF finishPoolDrain, setPhase, drainAfter, NoDrain, afterFinish, fileVars, TypeOK,
          LoopSteps, SlotSteps
    <3>2. CASE FinLock(p) \/ FinWrite(p)
      BY <3>2 DEF FinLock, FinWrite, FinLocals, poolVars, fileVars, localVars
    <3>3. CASE FinRemove(p)
      BY <3>3, Moves DEF FinRemove, afterFinish, TypeOK, LoopSteps, SlotSteps
    <3> QED
      BY <1>4, <3>1, <3>2, <3>3 DEF Finish
  <2> QED
    BY <1>4, FinishMoves, <2>1, <2>2, <2>3
<1>5. CASE (\E s \in Slots : LoopTick(s)) \/ AsyncTick
  BY <1>5, SpawnFrame DEF localVars, fileVars
<1>6. CASE ProcessExit \/ Crash
  BY <1>6, GoneFrame DEF NoDrain, fileVars, Hands
<1>7. CASE Interrupt \/ BackoffExpires
  BY <1>7 DEF Interrupt, BackoffExpires, poolVars, localVars, fileVars
<1>8. CASE BeginShutdown
  BY <1>8 DEF BeginShutdown, setPhase, drainAfter, NoDrain, localVars, fileVars
<1>9. CASE AgentStart
  BY <1>9, LoopMoves
  DEF AgentStart, ProcessInv, InFlight, DrainStateMatchesPhase, NoDrain, poolVars, fileVars,
      Hands
<1> QED
  BY <1>1, <1>2, <1>3, <1>4, <1>5, <1>6, <1>7, <1>8, <1>9 DEF AgentNext, Process

(* What a step of the pool and its CLIs is to the pool. *)
Posting(r) ==
  /\ request = NoRequest /\ r \notin posted
  /\ request' = [id |-> r, agent |-> cliAgent[r]] /\ posted' = posted \cup {r}
  /\ cli' = [cli EXCEPT ![r] = "waiting"] /\ cliAgent' = cliAgent
  /\ UNCHANGED <<poolVars, slotVars, localVars, status, pc, session>>

LEMMA ControlMoves ==
  ASSUME [ControlNext]_controlVars
  PROVE  \/ AgentNext /\ UNCHANGED cliVars
         \/ UNCHANGED vars
         \/ \E r \in Requests : Posting(r)
BY DEF ControlNext, CliNext, Check, Write, Poll, PostRequest, Posting, becomes, controlVars

(* Who may carry a request out was sent it, by this session. *)
LEMMA SentStep ==
  ASSUME TypeOK, RequestInv, ProcessInv, DrainStateMatchesPhase, CliInv, SentInv,
         [ControlNext]_controlVars
  PROVE  SentInv'
<1> USE LocalTypes, RequestsAssumption
<1>0. /\ request.agent \in Nat /\ None \notin Requests
      /\ \A r \in Requests, agent \in Nat : sentTo(r, agent) => sentTo(r, agent)'
      /\ posted \subseteq posted'
  BY CliStep, BoundsAssumption DEF TypeOK, FileType
<1>1. CASE AgentNext /\ UNCHANGED cliVars
  <2>1. posted' = posted /\ \A r \in Requests : \A agent : sentTo(r, agent)' <=> sentTo(r, agent)
    BY <1>1, AgentFrame DEF sentTo, cliVars
  <2>2. HandMove /\ DrainMove /\ request' \in {request, NoRequest} /\ SessionMove /\ FinMove
    BY <1>1, AgentHandles DEF Handles, FileMove
  <2> SUFFICES ASSUME NEW r \in Requests
      PROVE  /\ request'.id = r => sentTo(r, request'.agent)
             /\ drain'.req = r => sentTo(r, session')
             /\ pc'[Loop] \in Deciding /\ work'.req = r => sentTo(r, session')
             /\ pc'[Loop] \in {"busyRead", "nonRunRead", "rejectWrite"} /\ work'.req = r
                  => r \in posted
             /\ \A p \in Procs : pc'[p] \in Ends /\ fin'[p].req = r => sentTo(r, session')
    BY <2>1 DEF SentInv, Ends
  <2>3. request'.id = r => sentTo(r, request'.agent)
    BY <1>0, <2>2 DEF SentInv, NoRequest
  <2>4. CASE session' # session
    BY <1>0, <2>2, <2>3, <2>4 DEF SessionMove, Deciding
  <2>5. CASE session' = session
    <3>1. drain'.req = r => sentTo(r, session)
      BY <1>0, <2>2 DEF DrainMove, SentInv, Deciding, at
    <3>2. pc'[Loop] \in Deciding /\ work'.req = r => sentTo(r, session)
      BY <2>2 DEF HandMove, SentInv, Deciding, Hands, at
    <3>3. pc'[Loop] \in {"busyRead", "nonRunRead", "rejectWrite"} /\ work'.req = r => r \in posted
      BY <2>2 DEF HandMove, SentInv, Deciding, Hands, at, sentTo
    <3>4. ASSUME NEW p \in Procs, pc'[p] \in Ends, fin'[p].req = r PROVE sentTo(r, session)
      BY <2>2, <3>4 DEF FinMove, SentInv, Deciding, Ends, at
    <3> QED
      BY <2>3, <2>5, <3>1, <3>2, <3>3, <3>4
  <2> QED
    BY <2>4, <2>5
<1>2. CASE UNCHANGED vars
  BY <1>0, <1>2 DEF SentInv, vars, poolVars, localVars, fileVars
<1>3. ASSUME NEW q \in Requests, Posting(q) PROVE SentInv'
  <2>1. request'.id = q /\ request'.agent = cliAgent[q] /\ sentTo(q, cliAgent[q])'
    BY <1>3 DEF Posting, sentTo
  <2> QED
    BY <1>0, <1>3, <2>1 DEF SentInv, Posting, poolVars, localVars
<1> QED
  BY <1>1, <1>2, <1>3, ControlMoves

(* What a drain has accepted is not on offer again. *)
LEMMA OnceStep ==
  ASSUME TypeOK, RequestInv, ProcessInv, DrainStateMatchesPhase, CliInv, SentInv, OnceInv,
         [ControlNext]_controlVars
  PROVE  OnceInv'
<1> USE LocalTypes, RequestsAssumption
<1>1. CASE AgentNext /\ UNCHANGED cliVars
  <2>1. HandMove /\ DrainMove /\ FileMove
    BY <1>1, AgentHandles DEF Handles
  <2>2. request'.id \in Requests /\ drain'.req = request'.id => pc'[Loop] = "acceptRemove"
    BY <2>1 DEF DrainMove, FileMove, OnceInv, NoRequest, at
  <2>3. pc'[Loop] \in {"decide", "nonRunRead", "rejectWrite", "heldWrite"}
          => work'.req \in Requests /\ drain'.req # work'.req
    BY <2>1 DEF HandMove, DrainMove, OnceInv, Hands, at
  <2>4. pc'[Loop] = "busyRead" => work'.req \in Requests
    BY <2>1 DEF HandMove, OnceInv, Hands, at
  <2> QED
    BY <2>2, <2>3, <2>4 DEF OnceInv, at
<1>2. CASE UNCHANGED vars
  BY <1>2 DEF OnceInv, vars, poolVars, localVars, fileVars, at
<1>3. ASSUME NEW q \in Requests, Posting(q) PROVE OnceInv'
  <2>1. drain.req # q
    BY <1>3 DEF Posting, SentInv, sentTo
  <2> QED
    BY <1>3, <2>1 DEF OnceInv, Posting, poolVars, localVars, at
<1> QED
  BY <1>1, <1>2, <1>3, ControlMoves

-----------------------------------------------------------------------------
(* What is written to drain.status, and what is read of it to be written    *)
(* again.                                                                    *)
sameEnd(a, b) == a.req = b.req /\ a.agent = b.agent /\ a.state = b.state /\ a.stop = b.stop

EndMove ==
  /\ \/ status' = status \/ status'.state # "complete"
     \/ \E p \in Procs :
          /\ at(p, "finWrite") /\ status'.req = fin[p].req /\ status'.agent = session
          /\ status'.stop = (fin[p].req \in StopRequests)
     \/ /\ at(Loop, "heldWrite")
        /\ \/ sameEnd(status', status)
           \/ status'.req = work.req /\ status'.agent = session /\ status'.stop
     \/ \E s \in Slots : at(s, "syncWrite") /\ sameEnd(status', fin[s].loaded)
  /\ \A s \in Slots : pc'[s] = "syncWrite" =>
       \/ at(s, "syncWrite") /\ fin'[s].loaded = fin[s].loaded
       \/ fin'[s].loaded = status

(* A refusal is the loop's, of the request in its hands; everything else     *)
(* hands on one that was read.                                               *)
agentRefused(r) ==
  \/ status.rejected = r
  \/ work.rejected = r
  \/ \E p \in Procs : fin[p].loaded.rejected = r

RefuseMove ==
  \A r \in Requests : agentRefused(r)' =>
    \/ agentRefused(r)
    \/ at(Loop, "rejectWrite") /\ at(Loop, "rejectRemove")' /\ work.req = r
    \/ at(Loop, "heldWrite") /\ at(Loop, "heldRemove")' /\ work.req = r

LEMMA NoRefusals ==
  NoStatus.rejected \notin Requests /\ NoStatus.state # "complete"
  /\ NoWork.rejected = None /\ NoFin.loaded.rejected \notin Requests
  BY RequestsAssumption DEF NoStatus, NoWork, NoFin

LEMMA LoopFiles ==
  ASSUME TypeOK, LoopStep
  PROVE  EndMove /\ RefuseMove
<1> USE LocalTypes DEF EndMove, RefuseMove, agentRefused, at, Procs
<1>0. \A s \in Slots : pc'[s] = pc[s] /\ fin'[s] = fin[s]
  BY LoopFrame
<1>1. ASSUME status' = status, work'.rejected \in {work.rejected, status.rejected, None},
             \A p \in Procs : fin'[p].loaded.rejected \in {fin[p].loaded.rejected, None}
      PROVE  EndMove /\ RefuseMove
  BY <1>0, <1>1, RequestsAssumption
<1>2. CASE Accept
  <2>1. CASE DecideHeld
    BY RequestsAssumption, <1>1, <2>1 DEF DecideHeld, fileVars, NoFin, NoStatus
  <2>2. CASE AcceptLoad \/ Discard \/ AcceptRun \/ DecideShutdown \/ AcceptRemove \/ Abandon
             \/ AcceptDone
    BY <1>1, <2>2
    DEF AcceptLoad, Discard, AcceptRun, DecideShutdown, AcceptRemove, Abandon,
        AcceptDone, toIdle, fileVars, localVars, NoWork, WorkLocals
  <2> QED
    BY <1>2, <2>1, <2>2 DEF Accept
<1>3. CASE WritePoolDrain
  <2>1. CASE WriteFile
    <3>1. /\ status'.state = "running" /\ status'.rejected = work.rejected
          /\ work'.rejected \in {work.rejected, None} /\ fin' = fin
      BY <2>1 DEF WriteFile, runningStatus, afterWrite, toIdle, NoWork
    <3> QED
      BY <1>0, <3>1, RequestsAssumption
  <2>2. CASE WriteLoad
    BY <1>1, <2>2 DEF WriteLoad, fileVars, WorkLocals
  <2>3. CASE ForceRead \/ ForceSend \/ WriteRead
    <3>1. status' = status /\ fin' = fin
      BY <2>3 DEF ForceRead, ForceSend, WriteRead, fileVars, localVars
    <3>2. CASE ForceRead
      BY <1>1, <3>1, <3>2 DEF ForceRead, WorkLocals
    <3>3. CASE ForceSend
      BY <1>1, <3>1, <3>3 DEF ForceSend, localVars
    <3>4. CASE WriteRead
      <4>1. work' = NoWork \/ work' = work \/ work' = [work EXCEPT !.st = drain, !.active = active]
        BY <3>4 DEF WriteRead, afterWrite, toIdle
      <4>2. work'.rejected \in {work.rejected, None}
        BY <4>1, NoRefusals DEF WorkLocals
      <4> QED
        BY <1>1, <3>1, <4>2
    <3> QED
      BY <2>3, <3>2, <3>3, <3>4
  <2> QED
    BY <1>3, <2>1, <2>2, <2>3 DEF WritePoolDrain
<1>4. CASE Reject
  <2>1. CASE RejectWrite
    <3>1. /\ pc[Loop] = "rejectWrite" /\ pc'[Loop] = "rejectRemove"
          /\ status'.state # "complete" /\ status'.rejected = work.req
          /\ work' = work /\ fin' = fin
      BY <2>1, LoopMoves DEF RejectWrite, runningStatus, localVars
    <3> QED
      BY <1>0, <3>1
  <2>2. CASE HeldWrite
    <3>1. /\ pc[Loop] = "heldWrite" /\ pc'[Loop] = "heldRemove"
          /\ status'.rejected = work.req /\ work' = work /\ fin' = fin
          /\ \/ sameEnd(status', status)
             \/ status'.req = work.req /\ status'.agent = session /\ status'.stop
      BY <2>2, LoopMoves DEF HeldWrite, sameEnd, Statuses
    <3> QED
      BY <1>0, <3>1
  <2>3. CASE BusyLoad \/ BusyRead \/ NonRunRead \/ RejectRemove \/ HeldRemove
    <3>1. status' = status /\ fin' = fin
      BY <2>3 DEF BusyLoad, BusyRead, NonRunRead, RejectRemove, HeldRemove, fileVars
    <3>2. \/ work' = NoWork \/ work' = work \/ work' = [work EXCEPT !.req = request.id]
          \/ work' = [work EXCEPT !.st = drain, !.active = active]
      BY <2>3 DEF BusyLoad, BusyRead, NonRunRead, RejectRemove, HeldRemove, toIdle
    <3>3. work'.rejected \in {work.rejected, None}
      BY <3>2, NoRefusals DEF WorkLocals
    <3> QED
      BY <1>1, <3>1, <3>3
  <2> QED
    BY <1>4, <2>1, <2>2, <2>3 DEF Reject
<1>5. CASE ScrubStatus
  BY <1>0, <1>5, NoRefusals DEF ScrubStatus, localVars
<1>6. CASE controlTick \/ Control \/ Reclaim \/ ScrubRequest \/ DrainAndWait \/ Waited
  BY <1>1, <1>6
  DEF controlTick, Control, Reclaim, ScrubRequest, DrainAndWait, Waited, fileVars,
      localVars, NoWork, WorkLocals
<1> QED
  BY <1>2, <1>3, <1>4, <1>5, <1>6 DEF LoopStep

(* The same of the slots, the process and the fill gate. *)
LEMMA AgentFiles ==
  ASSUME TypeOK, ProcessInv, AgentNext
  PROVE  EndMove /\ RefuseMove
<1> USE LocalTypes DEF at, Procs
<1>1. ASSUME UNCHANGED status, work'.rejected \in {work.rejected, None},
             \A p \in Procs : fin'[p].loaded = fin[p].loaded \/ fin'[p].loaded = NoStatus,
             \A s \in Slots : pc'[s] = "syncWrite" =>
               pc[s] = "syncWrite" /\ fin'[s].loaded = fin[s].loaded
      PROVE  EndMove /\ RefuseMove
  BY <1>1, RequestsAssumption, NoRefusals DEF EndMove, RefuseMove, agentRefused
<1>2. CASE LoopStep
  BY <1>2, LoopFiles
<1>3. ASSUME NEW s \in Slots, SlotRun(s) \/ SlotReturn(s) PROVE EndMove /\ RefuseMove
  BY <1>1, <1>3, RunFrame DEF InRun, localVars, fileVars
<1>4. ASSUME NEW s \in Slots, SlotTail(s) PROVE EndMove /\ RefuseMove
  <2> USE SlotMoves
  <2>1. CASE SyncWrite(s)
    <3>1. /\ pc[s] = "syncWrite" /\ pc'[s] = "exit" /\ work' = work
          /\ sameEnd(status', fin[s].loaded) /\ status'.rejected = fin[s].loaded.rejected
          /\ \A t \in Slots \ {s} : pc'[t] = pc[t]
          /\ \A p \in Procs : fin'[p] = fin[p] \/ fin'[p] = NoFin
          /\ \A p \in Procs \ {s} : fin'[p] = fin[p]
      BY <2>1 DEF SyncWrite, sameEnd, FinLocals, Statuses
    <3>2. EndMove
      BY <3>1 DEF EndMove
    <3> QED
      BY <3>1, <3>2, NoRefusals DEF RefuseMove, agentRefused
  <2>2. CASE SyncLoad(s)
    <3>1. /\ pc[s] = "syncLoad" /\ status' = status /\ work' = work
          /\ \A t \in Slots \ {s} : pc'[t] = pc[t]
          /\ \A p \in Procs \ {s} : fin'[p] = fin[p]
          /\ \/ pc'[s] = "syncWrite" /\ fin'[s].loaded = status
             \/ pc'[s] = "exit" /\ fin'[s] = NoFin
      BY <2>2 DEF SyncLoad, FinLocals, fileVars
    <3>2. EndMove
      BY <3>1 DEF EndMove
    <3> QED
      BY <3>1, <3>2, NoRefusals DEF RefuseMove, agentRefused
  <2>3. CASE SyncLock(s)
    <3>1. /\ status' = status /\ work' = work /\ pc'[s] # "syncWrite"
          /\ \A t \in Slots \ {s} : pc'[t] = pc[t]
          /\ \A p \in Procs : fin'[p].loaded = fin[p].loaded
      BY <2>3 DEF SyncLock, FinLocals, fileVars
    <3> QED
      BY <1>1, <3>1
  <2>4. CASE reportFatal(s) \/ Unregister(s) \/ Leave(s) \/ Ungate(s) \/ maybeFinishPoolDrain(s)
    BY <1>1, <2>4
    DEF reportFatal, Unregister, Leave, Ungate, maybeFinishPoolDrain, localVars, fileVars
  <2>5. CASE Exit(s)
    BY <1>1, <2>5 DEF Exit, fileVars, WorkLocals
  <2> QED
    BY <1>4, <2>1, <2>2, <2>3, <2>4, <2>5 DEF SlotTail
<1>5. ASSUME NEW p \in Procs, Finish(p) PROVE EndMove /\ RefuseMove
  <2>1. /\ \A q \in Procs \ {p} : pc'[q] = pc[q] /\ fin'[q] = fin[q]
        /\ pc'[p] # "syncWrite"
        /\ work' = work \/ work' = NoWork
    BY <1>5, FinishMoves
    DEF Finish, finishPoolDrain, FinLock, FinWrite, FinRemove, doneWork, localVars
  <2>2. CASE FinWrite(p)
    <3>1. /\ pc[p] = "finWrite" /\ fin' = fin /\ work' = work
          /\ status'.req = fin[p].req /\ status'.agent = session
          /\ status'.stop = (fin[p].req \in StopRequests) /\ status'.rejected = None
      BY <2>2 DEF FinWrite, localVars
    <3>2. EndMove
      BY <2>1, <3>1 DEF EndMove
    <3> QED
      BY <3>1, <3>2, RequestsAssumption DEF RefuseMove, agentRefused
  <2>3. CASE ~FinWrite(p)
    <3>1. /\ status' = status
          /\ fin'[p].loaded = fin[p].loaded \/ fin'[p].loaded = NoStatus
      BY <1>5, <2>3
      DEF Finish, finishPoolDrain, FinLock, FinRemove, fileVars, localVars, NoFin, FinLocals
    <3>2. work'.rejected \in {work.rejected, None}
      BY <2>1 DEF NoWork
    <3> QED
      BY <1>1, <2>1, <3>1, <3>2
  <2> QED
    BY <2>2, <2>3
<1>6. CASE (\E s \in Slots : LoopTick(s)) \/ AsyncTick
  BY <1>1, <1>6, SpawnFrame DEF localVars, fileVars
<1>7. CASE ProcessExit \/ Crash
  <2>1. /\ \A s \in Slots : pc'[s] = "free" /\ UNCHANGED status /\ work' = NoWork
        /\ \A p \in Procs : fin'[p] = NoFin
    BY <1>7, GoneFrame DEF fileVars
  <2>2. status' = status /\ work'.rejected = None /\ \A p \in Procs : fin'[p].loaded = NoStatus
    BY <1>7, <2>1, GoneFrame DEF fileVars, NoWork, NoFin
  <2> QED
    BY <1>1, <2>1, <2>2
<1>8. CASE Interrupt \/ BeginShutdown \/ BackoffExpires
  BY <1>1, <1>8 DEF Interrupt, BeginShutdown, BackoffExpires, localVars, fileVars
<1>9. CASE AgentStart
  BY <1>1, <1>9, LoopMoves DEF AgentStart, localVars, fileVars
<1> QED
  BY <1>2, <1>3, <1>4, <1>5, <1>6, <1>7, <1>8, <1>9 DEF AgentNext, Process

(* What an end on file says of its request is so. *)
LEMMA EndStep ==
  ASSUME TypeOK, ProcessInv, CliInv, SentInv, EndInv, [ControlNext]_controlVars
  PROVE  EndInv'
<1> USE LocalTypes, RequestsAssumption
<1>0. /\ status.agent \in Nat /\ \A p \in Procs : fin[p].loaded.agent \in Nat
      /\ \A r \in Requests, agent \in Nat : sentTo(r, agent) => sentTo(r, agent)'
  BY CliStep, BoundsAssumption DEF FinLocals, Statuses
<1>1. CASE AgentNext /\ UNCHANGED cliVars
  <2>1. EndMove /\ posted' = posted /\ cliAgent' = cliAgent
    BY <1>1, AgentFiles, AgentFrame DEF cliVars
  <2>2. trueEnd(status)'
    <3>1. CASE status' = status \/ status'.state # "complete"
      BY <2>1, <3>1 DEF EndInv, trueEnd, sentTo
    <3>2. ASSUME NEW p \in Procs, at(p, "finWrite"), status'.req = fin[p].req,
                 status'.agent = session, status'.stop = (fin[p].req \in StopRequests)
          PROVE  trueEnd(status)'
      BY <2>1, <3>2 DEF SentInv, trueEnd, sentTo, at
    <3>3. CASE at(Loop, "heldWrite") /\ status'.req = work.req /\ status'.agent = session
               /\ status'.stop
      BY <2>1, <3>3 DEF SentInv, Deciding, trueEnd, sentTo, at
    <3>4. CASE sameEnd(status', status)
      BY <2>1, <3>4 DEF EndInv, trueEnd, sentTo, sameEnd
    <3>5. ASSUME NEW s \in Slots, at(s, "syncWrite"), sameEnd(status', fin[s].loaded)
          PROVE  trueEnd(status)'
      BY <2>1, <3>5 DEF EndInv, trueEnd, sentTo, sameEnd, at
    <3> QED
      BY <2>1, <3>1, <3>2, <3>3, <3>4, <3>5 DEF EndMove
  <2>3. ASSUME NEW s \in Slots, pc'[s] = "syncWrite" PROVE trueEnd(fin[s].loaded)'
    BY <2>1, <2>3 DEF EndMove, EndInv, trueEnd, sentTo, at
  <2> QED
    BY <2>2, <2>3 DEF EndInv
<1>2. CASE UNCHANGED vars
  BY <1>0, <1>2 DEF EndInv, trueEnd, vars, localVars, fileVars
<1>3. ASSUME NEW q \in Requests, Posting(q) PROVE EndInv'
  BY <1>0, <1>3 DEF EndInv, trueEnd, Posting, localVars
<1> QED
  BY <1>1, <1>2, <1>3, ControlMoves

(* A request that is refused was not accepted, and is not accepted later. *)
LEMMA RefusedStep ==
  ASSUME TypeOK, RequestInv, ProcessInv, DrainStateMatchesPhase, CliInv, SentInv, OnceInv,
         RefusedInv, [ControlNext]_controlVars
  PROVE  RefusedInv'
<1> USE LocalTypes, RequestsAssumption
<1> DEFINE refusal(r) == agentRefused(r) \/ cli[r] = "rejected"
<1>0. \A r \in Requests : refused(r) <=> refusal(r)
  BY DEF refused, agentRefused
<1>1. CASE AgentNext /\ UNCHANGED cliVars
  <2>1. /\ HandMove /\ DrainMove /\ FileMove /\ SessionMove /\ RefuseMove
        /\ posted' = posted /\ cli' = cli /\ cliAgent' = cliAgent
    BY <1>1, AgentHandles, AgentFiles, AgentFrame DEF cliVars, Handles
  <2>2. ASSUME NEW r \in Requests, ~open(r) PROVE ~open(r)'
    <3>1. ~(drain'.req = r)
      BY <2>1, <2>2 DEF DrainMove, open, at
    <3>2. ~(pc'[Loop] \in {"decide", "acceptRemove", "abandon"} /\ work'.req = r)
      BY <2>1, <2>2 DEF HandMove, open, Hands, at
    <3>3. ASSUME request'.id = r, request'.agent = session',
                 pc'[Loop] \notin {"dead", "rejectRemove", "heldRemove"}
          PROVE  FALSE
      <4>1. request' = request /\ request' # NoRequest
        BY <2>1, <3>3 DEF FileMove, NoRequest
      <4>2. session' = session
        <5>1. cliAgent[r] = session' /\ cliAgent[r] <= session
          BY <3>3, <4>1 DEF SentInv, sentTo, CliInv
        <5> QED
          BY <2>1, <5>1 DEF SessionMove
      <4>3. pc[Loop] \in {"dead", "rejectRemove", "heldRemove"}
        BY <2>2, <3>3, <4>1, <4>2 DEF open
      <4> QED
        BY <2>1, <3>3, <4>1, <4>2, <4>3 DEF SessionMove, FileMove
    <3> QED
      BY <3>1, <3>2, <3>3 DEF open
  <2>3. ASSUME NEW r \in Requests, work.req = r,
               \/ at(Loop, "rejectWrite") /\ at(Loop, "rejectRemove")'
               \/ at(Loop, "heldWrite") /\ at(Loop, "heldRemove")'
        PROVE  r \in posted /\ ~open(r)'
    <3>1. r \in posted
      BY <2>3 DEF SentInv, Deciding, sentTo, at
    <3>2. drain.req # r
      BY <2>3 DEF OnceInv, at
    <3>3. drain'.req # r
      BY <2>1, <2>3, <3>2 DEF DrainMove, at
    <3> QED
      BY <2>3, <3>1, <3>3 DEF open, at
  <2> SUFFICES ASSUME NEW r \in Requests, refusal(r)' PROVE r \in posted' /\ ~open(r)'
    BY DEF RefusedInv, refused, agentRefused
  <2>4. CASE refusal(r)
    BY <1>0, <2>1, <2>2, <2>4 DEF RefusedInv
  <2>5. CASE ~refusal(r)
    BY <2>1, <2>3, <2>5 DEF RefuseMove
  <2> QED
    BY <2>4, <2>5
<1>2. CASE UNCHANGED vars
  <2>1. \A r \in Requests : (open(r)' <=> open(r)) /\ (agentRefused(r)' <=> agentRefused(r))
    BY <1>2 DEF open, agentRefused, vars, poolVars, localVars, fileVars
  <2>2. \A r \in Requests : cli'[r] = "rejected" => cli[r] = "rejected" \/ status.rejected = r
    BY <1>2
    DEF ControlNext, CliNext, Check, Write, Poll, becomes, controlVars, cliVars,
        CliInv, CliTypeOK
  <2> QED
    BY <1>2, <2>1, <2>2 DEF RefusedInv, refused, agentRefused, vars, fileVars
<1>3. ASSUME NEW q \in Requests, Posting(q) PROVE RefusedInv'
  <2> SUFFICES ASSUME NEW r \in Requests, refused(r)' PROVE r \in posted' /\ ~open(r)'
    BY DEF RefusedInv
  <2>1. refused(r)
    BY <1>3 DEF refused, Posting, localVars, CliInv, CliTypeOK
  <2>2. r \in posted /\ r # q /\ ~open(r)
    BY <1>3, <2>1 DEF RefusedInv, Posting
  <2> QED
    BY <1>3, <2>2 DEF open, Posting, poolVars, localVars
<1> QED
  BY <1>1, <1>2, <1>3, ControlMoves

(* The CLI of a stop that was told of its completion. *)
LEMMA DoneStep ==
  ASSUME TypeOK, RequestInv, ProcessInv, DrainStateMatchesPhase, CliInv, SentInv, StopInv,
         EndInv, DoneInv, [ControlNext]_controlVars
  PROVE  DoneInv'
<1> USE LocalTypes, RequestsAssumption
<1> SUFFICES ASSUME NEW r \in StopRequests, cli'[r] = "complete", pc'[Loop] # "dead",
                    session' = cliAgent'[r]
             PROVE  phase' \in Stopped
  BY DEF DoneInv, agentAlive, at
<1>1. CASE AgentNext /\ UNCHANGED cliVars
  <2>1. session' = session /\ cli' = cli /\ cliAgent' = cliAgent
    BY <1>1, AgentFrame DEF cliVars, CliInv, AgentStart
  <2>2. pc[Loop] # "dead"
    BY <1>1, <2>1, AgentHandles DEF Handles, SessionMove
  <2>3. phase \in Stopped
    BY <2>1, <2>2 DEF DoneInv, agentAlive, at
  <2> QED
    BY <1>1, <2>3, StoppedStays DEF Next
<1>2. CASE UNCHANGED vars
  <2>1. \/ cli[r] = "complete" /\ cliAgent'[r] = cliAgent[r]
        \/ /\ status.req = r /\ status.state = "complete" /\ cliAgent'[r] = cliAgent[r]
           /\ session = cliAgent[r]
    BY <1>2
    DEF ControlNext, CliNext, Check, Write, Poll, becomes, controlVars, cliVars, CliInv,
        CliTypeOK
  <2>2. phase' = phase /\ pc' = pc /\ session' = session
    BY <1>2 DEF vars, poolVars
  <2>3. CASE cli[r] = "complete" /\ cliAgent'[r] = cliAgent[r]
    BY <2>2, <2>3 DEF DoneInv, agentAlive, at
  <2>4. CASE status.req = r /\ status.state = "complete" /\ session = cliAgent[r]
    BY <2>2, <2>4 DEF EndInv, trueEnd, sentTo, StopInv, stopEnded, at
  <2> QED
    BY <2>1, <2>3, <2>4
<1>3. ASSUME NEW q \in Requests, Posting(q) PROVE phase' \in Stopped
  <2>1. cli[r] = "complete" /\ cliAgent' = cliAgent /\ phase' = phase /\ pc' = pc
        /\ session' = session
    BY <1>3 DEF Posting, poolVars, CliInv, CliTypeOK
  <2> QED
    BY <2>1 DEF DoneInv, agentAlive, at
<1> QED
  BY <1>1, <1>2, <1>3, ControlMoves

LEMMA ControlInit == CliInit => Init /\ ControlIInv
<1> SUFFICES ASSUME CliInit PROVE Init /\ ControlIInv
  OBVIOUS
<1> USE SlotsAssumption, RequestsAssumption, BoundsAssumption DEF CliInit, Init
<1>1. /\ pc[Loop] = "start" /\ \A p \in Procs : pc[p] \in {"start", "free"}
      /\ \A p \in Procs : fin[p] = NoFin
  BY DEF Procs
<1>2. CliInv
  BY DEF CliInv, CliTypeOK
<1>3. SentInv
  BY <1>1 DEF SentInv, Deciding, NoRequest, NoDrain
<1>4. EndInv /\ OnceInv
  BY <1>1 DEF EndInv, trueEnd, NoStatus, OnceInv, NoRequest, Procs
<1>5. RefusedInv /\ DoneInv
  BY <1>1 DEF RefusedInv, refused, DoneInv, NoStatus, NoWork, NoFin
<1> QED
  BY <1>2, <1>3, <1>4, <1>5 DEF ControlIInv

(* The inductive invariant of the pool together with its CLIs. *)
THEOREM ControlInvariance == ControlSpec => [](IInv /\ DrainIInv /\ ControlIInv)
<1> DEFINE All == IInv /\ DrainIInv /\ ControlIInv
<1>1. CliInit => All
  BY ControlInit, InitInv, DrainInit
<1>2. All /\ [ControlNext]_controlVars => All'
  <2> SUFFICES ASSUME IInv, DrainIInv, ControlIInv, [ControlNext]_controlVars PROVE All'
    OBVIOUS
  <2>1. [Next]_vars
    BY ControlIsPool DEF IInv, ControlIInv
  <2>2. IInv' /\ DrainIInv'
    BY <2>1, InvStep, RegStep, ReachStep, MutexStep, SettleStep, SessionStep, StopStep
    DEF IInv, DrainIInv
  <2>3. ControlIInv'
    BY CliStep, SentStep, EndStep, OnceStep, RefusedStep, DoneStep
    DEF IInv, DrainIInv, ControlIInv
  <2> QED
    BY <2>2, <2>3
<1> QED
  BY <1>1, <1>2, PTL DEF ControlSpec

(* The CLIs do to the pool only what its environment may: every behaviour of *)
(* the two together is one of the pool, so what is proved of Pool.tla holds, *)
(* and one that the pool's contract allows.                                  *)
THEOREM ControlImplementsPool == ControlSpec => Spec /\ ContractSpec
<1>1. CliInit => Init
  BY DEF CliInit
<1>2. IInv /\ DrainIInv /\ ControlIInv /\ [ControlNext]_controlVars => [Next]_vars
  BY ControlIsPool DEF IInv, ControlIInv
<1> QED
  BY <1>1, <1>2, ControlInvariance, PoolImplementsContract, PTL DEF ControlSpec, Spec

(* pool_drain.go, rejectDrainRequest and rejectHeldDrainRequest: a CLI that  *)
(* was told its request is refused never sees it carried out.                *)
THEOREM RefusedNotApplied == ControlSpec => []RefusedIsNeverApplied
<1>1. ControlIInv => RefusedIsNeverApplied
  BY DEF ControlIInv, RefusedInv, RefusedIsNeverApplied, refused, accepted, open, CliInv,
         SentInv, sentTo, Deciding
<1> QED
  BY <1>1, ControlInvariance, PTL

(* pool_drain.go, shouldDiscardDrainRequest: what is carried out was posted   *)
(* to this session, whatever was left on file by another.                    *)
THEOREM RequestToItsSession == ControlSpec => []RequestReachesItsSession
<1>1. ControlIInv => RequestReachesItsSession
  BY DEF ControlIInv, SentInv, RequestReachesItsSession, accepted, sentTo, Deciding
<1> QED
  BY <1>1, ControlInvariance, PTL

(* drain.go, `stop complete`: neither the CLI nor the status says held of a  *)
(* pool that fills.                                                          *)
THEOREM StopComplete == ControlSpec => []StopCompleteMeansHeld
<1>1. IInv /\ DrainIInv /\ ControlIInv => StopCompleteMeansHeld
  BY LocalTypes DEF IInv, Statuses, DrainIInv, StopInv, ControlIInv, DoneInv, StopCompleteMeansHeld, Stopped, stopEnded,
         loadPoolStop, live, isTerminal, agentAlive
<1> QED
  BY <1>1, ControlInvariance, PTL

=============================================================================

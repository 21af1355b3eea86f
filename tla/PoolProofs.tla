----------------------------- MODULE PoolProofs -----------------------------
(***************************************************************************)
(* What the pool of Pool.tla keeps for every pool size, every set of slots *)
(* and requests and every choice of faults, and that it implements         *)
(* PoolContract.tla.                                                       *)
(***************************************************************************)
EXTENDS Pool, FiniteSetTheorems, TLAPS

(* Slots of which releaseWarming cannot have run, and slots of which it may *)
(* still run.                                                               *)
Cold == {"new", "signal", "boot"}
Gated == Counted \cup {"ungate"}

GateInv ==
  /\ \A s \in gate : pc[s] \in Gated
  /\ \A s \in Slots : pc[s] \in Cold => s \in gate

(* A request on file, and one about to be decided, is some CLI's. *)
RequestInv ==
  /\ request # NoRequest => request.id \in Requests
  /\ pc[Loop] = "decide" => work.req \in Requests

(* A process that is not running has no goroutines, one that starts has no  *)
(* slots yet, and one that ends starts none.                                *)
Starting == {"start", "scrubRequest", "scrubStatus"}

ProcessInv ==
  /\ pc[Loop] \in Starting \cup {"dead"} => ticks = 0 /\ InFlight = {}
  /\ pc[Loop] = "dead" => phase = "run" /\ ~ctxDone
  /\ pc[Loop] \in {"drainAndWait", "purge"} => phase = "shutdown"
  /\ pc[Loop] = "purge" => InFlight = {}

IInv ==
  /\ TypeOK
  /\ SlotsAccounted
  /\ GateInv
  /\ DrainStateMatchesPhase
  /\ RequestInv
  /\ ProcessInv

-----------------------------------------------------------------------------
(* The two counters. *)

CountedSlots == {s \in Slots : pc[s] \in Counted}

(* A slot that is counted, or whose gate is closed, is in its counter. *)
LEMMA CountersPositive ==
  ASSUME TypeOK, SlotsAccounted
  PROVE  /\ \A s \in Slots : pc[s] \in Counted => active > 0
         /\ \A s \in gate : warming > 0
<1>1. IsFiniteSet(CountedSlots) /\ IsFiniteSet(gate)
  BY SlotsAssumption, FS_Subset DEF CountedSlots, TypeOK, SlotType
<1>2. /\ Cardinality(CountedSlots) \in Nat
      /\ Cardinality(CountedSlots) = 0 => CountedSlots = {}
      /\ Cardinality(gate) \in Nat
      /\ Cardinality(gate) = 0 => gate = {}
  BY <1>1, FS_CardinalityType, FS_EmptySet
<1>3. active = Cardinality(CountedSlots) /\ warming = Cardinality(gate)
  BY DEF SlotsAccounted, CountedSlots
<1>4. (\E s \in Slots : pc[s] \in Counted) => CountedSlots # {}
  BY DEF CountedSlots
<1> QED
  BY <1>2, <1>3, <1>4

-----------------------------------------------------------------------------
(* Type correctness. *)

LEMMA InitType == Init => TypeOK
<1> SUFFICES ASSUME Init PROVE TypeOK
  OBVIOUS
<1> USE SlotsAssumption, BoundsAssumption
<1>1. NoStatus \in Statuses /\ NoDrain \in Drains
  BY DEF NoStatus, Statuses, Ids, NoDrain, Drains
<1>2. NoFin \in FinLocals /\ NoWork \in WorkLocals
  BY <1>1 DEF NoFin, FinLocals, NoWork, WorkLocals, Ids
<1>3. PoolType
  BY <1>1 DEF Init, PoolType, Phases
<1>4. SlotType
  BY DEF Init, SlotType
<1>5. StepType
  BY DEF Init, StepType, Procs, LoopSteps, SlotSteps
<1>6. LocalType
  BY <1>2 DEF Init, LocalType
<1>7. FileType
  BY <1>1 DEF Init, FileType, NoRequest, Ids
<1>8. FlagType
  BY DEF Init, FlagType
<1> QED
  BY <1>8, <1>3, <1>4, <1>5, <1>6, <1>7 DEF TypeOK

(* A goroutine moves to another of its own steps. *)
LEMMA Moves ==
  ASSUME StepType, NEW p \in Procs, NEW step,
         goto(p, step),
         p = Loop => step \in LoopSteps,
         p # Loop => step \in SlotSteps
  PROVE  /\ StepType'
         /\ pc'[p] = step
         /\ \A q \in Procs \ {p} : pc'[q] = pc[q]
  BY SlotsAssumption DEF StepType, goto, Procs

(* Every step leaves each goroutine at one of its own steps. *)
LEMMA StepTypeStep == TypeOK /\ [Next]_vars => StepType'
<1> SUFFICES ASSUME TypeOK, [Next]_vars PROVE StepType'
  OBVIOUS
<1>1. /\ StepType /\ Loop \in Procs /\ Loop \notin Slots
      /\ \A s \in Slots : s \in Procs
  BY SlotsAssumption DEF TypeOK, Procs
<1>2. ASSUME NEW s \in Slots, spawn(s) PROVE StepType'
  BY <1>1, <1>2, Moves DEF spawn, SlotSteps
<1>3. ASSUME NEW s \in Slots, SlotRun(s) PROVE StepType'
  BY <1>1, <1>3, Moves DEF SlotRun, NameFails, Register, Signal, StartExec, IdleReady,
     Claim, SlotSteps, StepType
<1>4. ASSUME NEW s \in Slots, SlotReturn(s) PROVE StepType'
  BY <1>1, <1>4, Moves DEF SlotReturn, ReturnCanceled, ReturnFailed, ReturnUnauthorized,
     ReturnGood, ReturnNeutral, ReturnShort, SlotSteps
<1>5. ASSUME NEW s \in Slots, SlotTail(s) PROVE StepType'
  BY <1>1, <1>5, Moves DEF SlotTail, reportFatal, Unregister, Leave, Ungate,
     maybeFinishPoolDrain, SyncLock, SyncLoad, SyncWrite, Exit, SlotSteps
<1>6. ASSUME NEW p \in Procs, Finish(p) PROVE StepType'
  BY <1>1, <1>6, Moves DEF Finish, finishPoolDrain, FinLock, FinWrite, FinRemove,
     afterFinish, SlotSteps, LoopSteps
<1>7. CASE AsyncTick
  BY <1>1, <1>2, <1>7 DEF AsyncTick, StepType
<1>8. CASE Accept
  BY <1>1, <1>8, Moves DEF Accept, AcceptLoad, Discard, AcceptRun, DecideHeld, DecideShutdown,
     AcceptRemove, Abandon, AcceptDone, toIdle, LoopSteps
<1>9. CASE WritePoolDrain
  BY <1>1, <1>9, Moves DEF WritePoolDrain, ForceRead, ForceSend, WriteRead, WriteLoad,
     WriteFile, afterWrite, toIdle, LoopSteps
<1>10. CASE Reject
  BY <1>1, <1>10, Moves DEF Reject, BusyLoad, BusyRead, NonRunRead, RejectWrite,
     RejectRemove, HeldWrite, HeldRemove, toIdle, LoopSteps
<1>11. CASE controlTick \/ Control \/ Reclaim \/ ScrubRequest \/ ScrubStatus \/ DrainAndWait \/ Waited
  BY <1>1, <1>11, Moves DEF controlTick, Control, Reclaim, ScrubRequest, ScrubStatus,
     DrainAndWait, Waited, LoopSteps
<1>12. CASE ProcessExit \/ Crash
  BY <1>1, <1>12 DEF ProcessExit, Crash, processGone, StepType, Procs, SlotSteps, LoopSteps
<1>13. CASE AgentStart
  BY <1>1, <1>13, Moves DEF AgentStart, LoopSteps
<1>14. CASE Interrupt \/ BeginShutdown \/ BackoffExpires
  BY <1>1, <1>14 DEF Interrupt, BeginShutdown, BackoffExpires, StepType
<1>15. ASSUME NEW r \in Requests, NEW agent \in 1..session, PostRequest(r, agent)
       PROVE  StepType'
  BY <1>1, <1>15 DEF PostRequest, StepType
<1>16. CASE UNCHANGED vars
  BY <1>1, <1>16 DEF vars, StepType
<1> QED
  BY <1>2, <1>3, <1>4, <1>5, <1>6, <1>7, <1>8, <1>9, <1>10, <1>11, <1>12, <1>13, <1>14,
     <1>15, <1>16
  DEF Next, AgentNext, LoopTick, LoopStep, Process

(* setPhase and `go p.tick` stay within their types. *)
LEMMA SetPhaseType ==
  ASSUME PoolType, NEW to \in Phases, setPhase(to)
  PROVE  phase' \in Phases /\ drain' \in Drains
  BY DEF PoolType, setPhase, nextPhase, drainAfter, Phases, Drains

LEMMA GoTickType ==
  ASSUME PoolType, goTick
  PROVE  ticks' \in 0..MaxTicks
  BY BoundsAssumption DEF PoolType, goTick

(* The pool's state keeps its type, because a slot that leaves was counted,   *)
(* a gate that opens was closed, and a request that is accepted is a request. *)
LEMMA PoolTypeStep ==
  TypeOK /\ SlotsAccounted /\ RequestInv /\ [Next]_vars => PoolType'
<1> SUFFICES ASSUME TypeOK, SlotsAccounted, RequestInv, [Next]_vars PROVE PoolType'
  OBVIOUS
<1> USE BoundsAssumption
<1>1. /\ PoolType
      /\ \A s \in Slots : pc[s] \in Counted => active \in 1..PoolSize
      /\ \A s \in gate : warming = 1
  BY CountersPositive DEF TypeOK, PoolType
<1>2. CASE UNCHANGED <<phase, drain, active, warming, shortExits, ticks>>
  BY <1>1, <1>2 DEF PoolType
<1>3. ASSUME NEW s \in Slots, spawn(s), ticks' \in 0..MaxTicks,
             UNCHANGED <<phase, drain, shortExits>>
      PROVE  PoolType'
  BY <1>1, <1>3 DEF PoolType, spawn, canSpawn
<1>4. ASSUME NEW s \in Slots, SlotRun(s) PROVE PoolType'
  <2>1. CASE IdleReady(s)
    BY <1>1, <2>1, GoTickType DEF IdleReady, PoolType
  <2>2. CASE ~IdleReady(s)
    BY <1>2, <1>4, <2>2
    DEF SlotRun, NameFails, Register, Signal, StartExec, Claim, poolVars
  <2> QED
    BY <2>1, <2>2
<1>5. ASSUME NEW s \in Slots, SlotReturn(s) PROVE PoolType'
  <2>1. CASE ReturnGood(s) \/ ReturnShort(s)
    BY <1>1, <2>1 DEF ReturnGood, ReturnShort, PoolType
  <2>2. CASE ~(ReturnGood(s) \/ ReturnShort(s))
    BY <1>2, <1>5, <2>2
    DEF SlotReturn, ReturnCanceled, ReturnFailed, ReturnUnauthorized, ReturnNeutral, poolVars
  <2> QED
    BY <2>1, <2>2
<1>6. ASSUME NEW s \in Slots, SlotTail(s) PROVE PoolType'
  <2>1. CASE reportFatal(s)
    BY <1>1, <2>1, SetPhaseType DEF reportFatal, PoolType, Phases
  <2>2. CASE Leave(s)
    BY <1>1, <2>2 DEF Leave, at, Counted, PoolType
  <2>3. CASE Ungate(s)
    BY <1>1, <2>3 DEF Ungate, PoolType
  <2>4. CASE Exit(s)
    BY <1>1, <2>4, GoTickType DEF Exit, PoolType
  <2>5. CASE Unregister(s) \/ maybeFinishPoolDrain(s) \/ SyncLock(s) \/ SyncLoad(s) \/ SyncWrite(s)
    BY <1>2, <2>5 DEF Unregister, maybeFinishPoolDrain, SyncLock, SyncLoad, SyncWrite, poolVars
  <2> QED
    BY <1>6, <2>1, <2>2, <2>3, <2>4, <2>5 DEF SlotTail
<1>7. ASSUME NEW p \in Procs, Finish(p) PROVE PoolType'
  <2>1. CASE finishPoolDrain(p)
    <3>1. phaseAfterDrain(drain.req) \in Phases
      BY DEF phaseAfterDrain, Phases
    <3>2. phase' \in Phases /\ drain' \in Drains
      BY <1>1, <2>1, <3>1, SetPhaseType DEF finishPoolDrain, PoolType, Drains
    <3> QED
      BY <1>1, <2>1, <3>2 DEF finishPoolDrain, PoolType
  <2>2. CASE FinRemove(p)
    BY <1>1, <2>2, GoTickType DEF FinRemove, PoolType
  <2>3. CASE FinLock(p) \/ FinWrite(p)
    BY <1>2, <2>3 DEF FinLock, FinWrite, poolVars
  <2> QED
    BY <1>7, <2>1, <2>2, <2>3 DEF Finish
<1>8. CASE AsyncTick
  <2>1. ticks' \in 0..MaxTicks
    BY <1>1, <1>8 DEF AsyncTick, PoolType
  <2>2. CASE \E s \in Slots : spawn(s)
    BY <1>3, <1>8, <2>1, <2>2 DEF AsyncTick
  <2>3. CASE UNCHANGED <<active, warming, gate, pc>>
    BY <1>1, <1>8, <2>1, <2>3 DEF AsyncTick, PoolType
  <2> QED
    BY <1>8, <2>2, <2>3 DEF AsyncTick
<1>9. CASE Accept
  <2>1. CASE AcceptRun
    <3>1. work.req \in Requests
      BY <2>1 DEF AcceptRun, RequestInv, at
    <3> QED
      BY <1>1, <2>1, <3>1 DEF AcceptRun, PoolType, Phases, Drains
  <2>2. CASE ~AcceptRun
    BY <1>2, <1>9, <2>2
    DEF Accept, AcceptLoad, Discard, DecideHeld, DecideShutdown, AcceptRemove, Abandon,
        AcceptDone, poolVars
  <2> QED
    BY <2>1, <2>2
<1>10. CASE WritePoolDrain
  <2>1. CASE ForceRead
    <3>1. drain' \in Drains
      BY <1>1, <2>1 DEF ForceRead, PoolType, Drains
    <3> QED
      BY <1>1, <2>1, <3>1 DEF ForceRead, PoolType
  <2>2. CASE ~ForceRead
    BY <1>2, <1>10, <2>2
    DEF WritePoolDrain, ForceSend, WriteRead, WriteLoad, WriteFile, poolVars
  <2> QED
    BY <2>1, <2>2
<1>11. CASE Reject
  BY <1>2, <1>11
  DEF Reject, BusyLoad, BusyRead, NonRunRead, RejectWrite, RejectRemove, HeldWrite,
      HeldRemove, poolVars
<1>12. CASE controlTick \/ Control \/ Reclaim \/ ScrubRequest \/ ScrubStatus \/ Waited
  BY <1>2, <1>12
  DEF controlTick, Control, Reclaim, ScrubRequest, ScrubStatus, Waited, poolVars
<1>13. CASE DrainAndWait \/ BeginShutdown
  BY <1>1, <1>13, SetPhaseType DEF DrainAndWait, BeginShutdown, PoolType, Phases
<1>14. CASE ProcessExit \/ Crash
  BY <1>14 DEF ProcessExit, Crash, processGone, FreshMemory, PoolType, Phases, Drains
<1>15. CASE Interrupt \/ AgentStart \/ BackoffExpires
  BY <1>2, <1>15 DEF Interrupt, AgentStart, BackoffExpires, poolVars
<1>16. ASSUME NEW r \in Requests, NEW agent \in 1..session, PostRequest(r, agent)
       PROVE  PoolType'
  BY <1>2, <1>16 DEF PostRequest, poolVars
<1>17. CASE UNCHANGED vars
  BY <1>2, <1>17 DEF vars, poolVars
<1>18. ASSUME NEW s \in Slots, LoopTick(s) PROVE PoolType'
  BY <1>1, <1>3, <1>18 DEF LoopTick, PoolType
<1> QED
  BY <1>4, <1>5, <1>6, <1>7, <1>8, <1>9, <1>10, <1>11, <1>12, <1>13, <1>14, <1>15, <1>16,
     <1>17, <1>18
  DEF Next, AgentNext, LoopStep, Process

(* The flags stay Boolean. *)
LEMMA FlagTypeStep == TypeOK /\ [Next]_vars => FlagType'
<1> SUFFICES ASSUME TypeOK, [Next]_vars PROVE FlagType'
  OBVIOUS
<1>1. FlagType
  BY DEF TypeOK
<1>2. CASE UNCHANGED <<lowDisk, backoff, fatalErr, fatalCh, ctxDone>>
  BY <1>1, <1>2 DEF FlagType
<1>3. ASSUME NEW s \in Slots, LoopTick(s) \/ SlotRun(s) PROVE FlagType'
  <2>1. CASE NameFails(s)
    BY <1>1, <2>1 DEF NameFails, FlagType
  <2>2. CASE ~NameFails(s)
    BY <1>2, <1>3, <2>2
    DEF LoopTick, SlotRun, Register, Signal, StartExec, IdleReady, Claim, poolVars
  <2> QED
    BY <2>1, <2>2
<1>4. ASSUME NEW s \in Slots, SlotReturn(s) PROVE FlagType'
  <2>1. CASE ReturnFailed(s)
    BY <1>1, <2>1 DEF ReturnFailed, FlagType
  <2>2. CASE ReturnGood(s)
    BY <1>1, <2>2 DEF ReturnGood, FlagType
  <2>3. CASE ReturnShort(s)
    BY <1>1, <2>3 DEF ReturnShort, FlagType
  <2>4. CASE ReturnCanceled(s) \/ ReturnUnauthorized(s) \/ ReturnNeutral(s)
    BY <1>2, <2>4 DEF ReturnCanceled, ReturnUnauthorized, ReturnNeutral, poolVars
  <2> QED
    BY <1>4, <2>1, <2>2, <2>3, <2>4 DEF SlotReturn
<1>5. ASSUME NEW s \in Slots, SlotTail(s) PROVE FlagType'
  <2>1. CASE reportFatal(s)
    BY <1>1, <2>1 DEF reportFatal, FlagType
  <2>2. CASE ~reportFatal(s)
    BY <1>2, <1>5, <2>2
    DEF SlotTail, Unregister, Leave, Ungate, maybeFinishPoolDrain, SyncLock, SyncLoad,
        SyncWrite, Exit, poolVars
  <2> QED
    BY <2>1, <2>2
<1>6. ASSUME NEW p \in Procs, Finish(p) PROVE FlagType'
  BY <1>2, <1>6 DEF Finish, finishPoolDrain, FinLock, FinWrite, FinRemove, poolVars
<1>7. CASE AsyncTick
  BY <1>2, <1>7 DEF AsyncTick
<1>8. CASE Accept \/ WritePoolDrain \/ Reject
  BY <1>2, <1>8
  DEF Accept, AcceptLoad, Discard, AcceptRun, DecideHeld, DecideShutdown, AcceptRemove,
      Abandon, AcceptDone, WritePoolDrain, ForceRead, ForceSend, WriteRead, WriteLoad,
      WriteFile, Reject, BusyLoad, BusyRead, NonRunRead, RejectWrite, RejectRemove,
      HeldWrite, HeldRemove, poolVars
<1>9. CASE controlTick \/ Control \/ ScrubRequest \/ ScrubStatus \/ Waited
  BY <1>2, <1>9 DEF controlTick, Control, ScrubRequest, ScrubStatus, Waited, poolVars
<1>10. CASE Reclaim
  BY <1>1, <1>10 DEF Reclaim, FlagType
<1>11. CASE DrainAndWait
  BY <1>1, <1>11 DEF DrainAndWait, FlagType
<1>12. CASE Interrupt
  BY <1>1, <1>12 DEF Interrupt, FlagType
<1>13. CASE ProcessExit \/ Crash
  BY <1>13 DEF ProcessExit, Crash, processGone, FreshMemory, FlagType
<1>14. CASE BackoffExpires
  BY <1>1, <1>14 DEF BackoffExpires, FlagType
<1>15. CASE BeginShutdown \/ AgentStart
  BY <1>2, <1>15 DEF BeginShutdown, AgentStart, poolVars
<1>16. ASSUME NEW r \in Requests, NEW agent \in 1..session, PostRequest(r, agent)
       PROVE  FlagType'
  BY <1>2, <1>16 DEF PostRequest, poolVars
<1>17. CASE UNCHANGED vars
  BY <1>2, <1>17 DEF vars, poolVars
<1> QED
  BY <1>3, <1>4, <1>5, <1>6, <1>7, <1>8, <1>9, <1>10, <1>11, <1>12, <1>13, <1>14, <1>15,
     <1>16, <1>17
  DEF Next, AgentNext, LoopStep, Process

(* A slot's bookkeeping keeps its type. *)
LEMMA SlotTypeStep == TypeOK /\ [Next]_vars => SlotType'
<1> SUFFICES ASSUME TypeOK, [Next]_vars PROVE SlotType'
  OBVIOUS
<1>1. SlotType
  BY DEF TypeOK
<1>2. CASE UNCHANGED slotVars
  BY <1>1, <1>2 DEF SlotType, slotVars
<1>3. ASSUME NEW s \in Slots, spawn(s), UNCHANGED <<registered, ctrl, pending>>
      PROVE  SlotType'
  BY <1>1, <1>3 DEF SlotType, spawn
<1>4. ASSUME NEW signal \in Signals, send(signal), UNCHANGED <<registered, gate, pending>>
      PROVE  SlotType'
  BY <1>1, <1>4 DEF SlotType, send
<1>5. ASSUME NEW s \in Slots, LoopTick(s) PROVE SlotType'
  BY <1>3, <1>5 DEF LoopTick
<1>6. ASSUME NEW s \in Slots, SlotRun(s) PROVE SlotType'
  <2>1. CASE Register(s)
    BY <1>1, <2>1 DEF Register, SlotType, Signals
  <2>2. CASE Signal(s)
    BY <1>1, <2>2 DEF Signal, SlotType
  <2>3. CASE IdleReady(s)
    BY <1>1, <2>3 DEF IdleReady, SlotType
  <2>4. CASE NameFails(s) \/ StartExec(s) \/ Claim(s)
    BY <1>2, <2>4 DEF NameFails, StartExec, Claim
  <2> QED
    BY <1>6, <2>1, <2>2, <2>3, <2>4 DEF SlotRun
<1>7. ASSUME NEW s \in Slots, SlotReturn(s) PROVE SlotType'
  BY <1>2, <1>7
  DEF SlotReturn, ReturnCanceled, ReturnFailed, ReturnUnauthorized, ReturnGood,
      ReturnNeutral, ReturnShort
<1>8. ASSUME NEW s \in Slots, SlotTail(s) PROVE SlotType'
  <2>1. CASE Unregister(s) \/ Ungate(s) \/ Exit(s)
    BY <1>1, <2>1 DEF Unregister, Ungate, Exit, SlotType
  <2>2. CASE ~(Unregister(s) \/ Ungate(s) \/ Exit(s))
    BY <1>2, <1>8, <2>2
    DEF SlotTail, reportFatal, Leave, maybeFinishPoolDrain, SyncLock, SyncLoad, SyncWrite
  <2> QED
    BY <2>1, <2>2
<1>9. ASSUME NEW p \in Procs, Finish(p) PROVE SlotType'
  BY <1>2, <1>9 DEF Finish, finishPoolDrain, FinLock, FinWrite, FinRemove
<1>10. CASE AsyncTick
  <2>1. CASE \E s \in Slots : spawn(s)
    BY <1>3, <1>10, <2>1 DEF AsyncTick
  <2>2. CASE UNCHANGED <<active, warming, gate, pc>>
    BY <1>2, <1>10, <2>2 DEF AsyncTick, slotVars
  <2> QED
    BY <1>10, <2>1, <2>2 DEF AsyncTick
<1>11. CASE Abandon
  BY <1>4, <1>11 DEF Abandon, Signals
<1>12. CASE ForceSend
  BY <1>4, <1>12 DEF ForceSend, Signals
<1>13. CASE (Accept /\ ~Abandon) \/ (WritePoolDrain /\ ~ForceSend) \/ Reject
  BY <1>2, <1>13
  DEF Accept, AcceptLoad, Discard, AcceptRun, DecideHeld, DecideShutdown, AcceptRemove,
      AcceptDone, WritePoolDrain, ForceRead, WriteRead, WriteLoad, WriteFile, Reject,
      BusyLoad, BusyRead, NonRunRead, RejectWrite, RejectRemove, HeldWrite, HeldRemove
<1>14. CASE controlTick \/ Control \/ Reclaim \/ ScrubRequest \/ ScrubStatus \/ DrainAndWait \/ Waited
  BY <1>2, <1>14
  DEF controlTick, Control, Reclaim, ScrubRequest, ScrubStatus, DrainAndWait, Waited
<1>15. CASE ProcessExit \/ Crash
  BY <1>15 DEF ProcessExit, Crash, processGone, FreshMemory, SlotType
<1>16. CASE Interrupt \/ BeginShutdown \/ AgentStart \/ BackoffExpires
  BY <1>2, <1>16 DEF Interrupt, BeginShutdown, AgentStart, BackoffExpires
<1>17. ASSUME NEW r \in Requests, NEW agent \in 1..session, PostRequest(r, agent)
       PROVE  SlotType'
  BY <1>2, <1>17 DEF PostRequest
<1>18. CASE UNCHANGED vars
  BY <1>2, <1>18 DEF vars
<1> QED
  BY <1>5, <1>6, <1>7, <1>8, <1>9, <1>10, <1>11, <1>12, <1>13, <1>14, <1>15, <1>16, <1>17,
     <1>18
  DEF Next, AgentNext, LoopStep, Process

(* The locals of the status writers and of the control tick keep their types: *)
(* what they copy from the pool and from the files is typed there.            *)
LEMMA LocalTypeStep == TypeOK /\ [Next]_vars => LocalType'
<1> SUFFICES ASSUME TypeOK, [Next]_vars PROVE LocalType'
  OBVIOUS
<1> USE SlotsAssumption, BoundsAssumption
<1>1. LocalType /\ active \in 0..PoolSize /\ drain \in Drains /\ registered \subseteq Slots
  BY DEF TypeOK, PoolType, SlotType
<1>2. status \in Statuses /\ status.req \in Ids /\ status.rejected \in Ids
      /\ status.reason \in {"none", "busy", "held"} /\ request.id \in Ids
  BY DEF TypeOK, FileType, Statuses
<1>3. /\ NoStatus \in Statuses /\ NoDrain \in Drains
      /\ drain.req \in Ids /\ drain.forced \in BOOLEAN
  <2>1. NoStatus \in Statuses /\ NoDrain \in Drains
    BY DEF NoStatus, Statuses, NoDrain, Drains, Ids
  <2>2. CASE drain = NoDrain
    BY <2>1, <2>2 DEF NoDrain, Ids
  <2>3. CASE drain \in [req : Requests, forced : BOOLEAN]
    BY <2>1, <2>3 DEF Ids
  <2> QED
    BY <1>1, <2>2, <2>3 DEF Drains
<1>4. NoFin \in FinLocals /\ NoWork \in WorkLocals
  BY <1>3 DEF NoFin, FinLocals, NoWork, WorkLocals, Ids
<1>5. CASE UNCHANGED localVars
  BY <1>1, <1>5 DEF LocalType, localVars
<1>6. ASSUME NEW s \in Slots, LoopTick(s) \/ SlotRun(s) PROVE LocalType'
  BY <1>5, <1>6
  DEF LoopTick, SlotRun, NameFails, Register, Signal, StartExec, IdleReady, Claim
<1>7. ASSUME NEW s \in Slots, SlotReturn(s) PROVE LocalType'
  BY <1>5, <1>7
  DEF SlotReturn, ReturnCanceled, ReturnFailed, ReturnUnauthorized, ReturnGood,
      ReturnNeutral, ReturnShort
<1>8. ASSUME NEW s \in Slots, SlotTail(s) PROVE LocalType'
  <2> s \in Procs
    BY DEF Procs
  <2>1. CASE SyncLock(s)
    BY <1>1, <2>1 DEF SyncLock, LocalType, FinLocals
  <2>2. CASE SyncLoad(s)
    BY <1>1, <1>2, <1>4, <2>2 DEF SyncLoad, LocalType, FinLocals
  <2>3. CASE SyncWrite(s)
    BY <1>1, <1>4, <2>3 DEF SyncWrite, LocalType
  <2>4. CASE Exit(s)
    BY <1>1, <2>4 DEF Exit, LocalType, WorkLocals
  <2>5. CASE reportFatal(s) \/ Unregister(s) \/ Leave(s) \/ Ungate(s) \/ maybeFinishPoolDrain(s)
    BY <1>5, <2>5 DEF reportFatal, Unregister, Leave, Ungate, maybeFinishPoolDrain
  <2> QED
    BY <1>8, <2>1, <2>2, <2>3, <2>4, <2>5 DEF SlotTail
<1>9. ASSUME NEW p \in Procs, Finish(p) PROVE LocalType'
  <2>1. CASE finishPoolDrain(p)
    <3>1. doneWork(p) => work' \in WorkLocals
      BY <1>1, <1>4 DEF doneWork, LocalType
    <3>2. ASSUME NEW err \in BOOLEAN, NEW refill \in BOOLEAN
          PROVE  [req |-> drain.req, err |-> err, forced |-> drain.forced, active |-> active,
                  refill |-> refill, loaded |-> NoStatus] \in FinLocals
      BY <1>1, <1>3 DEF FinLocals
    <3>3. work.late \in BOOLEAN
      BY <1>1 DEF LocalType, WorkLocals
    <3>4. CASE drain = NoDrain \/ phase \notin {"poolDrain", "shutdown"}
      BY <1>1, <2>1, <3>1, <3>4 DEF finishPoolDrain, LocalType
    <3>5. CASE ~(drain = NoDrain \/ phase \notin {"poolDrain", "shutdown"})
      <4>1. /\ fin' = [fin EXCEPT ![p] =
                         [req |-> drain.req, err |-> p = Loop /\ work.late,
                          forced |-> drain.forced, active |-> active,
                          refill |-> phase = "poolDrain" /\ drain.req \notin StopRequests,
                          loaded |-> NoStatus]]
            /\ UNCHANGED <<work, statusMu>>
        BY <2>1, <3>5 DEF finishPoolDrain
      <4>2. /\ (p = Loop /\ work.late) \in BOOLEAN
            /\ (phase = "poolDrain" /\ drain.req \notin StopRequests) \in BOOLEAN
        OBVIOUS
      <4> QED
        BY <1>1, <3>2, <4>1, <4>2 DEF LocalType
    <3> QED
      BY <3>4, <3>5
  <2>2. CASE FinLock(p)
    BY <1>1, <2>2 DEF FinLock, LocalType, FinLocals
  <2>3. CASE FinWrite(p)
    BY <1>5, <2>3 DEF FinWrite
  <2>4. CASE FinRemove(p)
    BY <1>1, <1>4, <2>4 DEF FinRemove, doneWork, LocalType
  <2> QED
    BY <1>9, <2>1, <2>2, <2>3, <2>4 DEF Finish
<1>10. CASE AsyncTick
  BY <1>5, <1>10 DEF AsyncTick
<1>11. CASE Accept
  <2>1. CASE AcceptLoad
    BY <1>1, <1>2, <1>4, <2>1 DEF AcceptLoad, toIdle, LocalType, WorkLocals
  <2>2. CASE Discard \/ AcceptDone
    BY <1>1, <1>4, <2>2 DEF Discard, AcceptDone, toIdle, LocalType
  <2>3. CASE AcceptRun
    BY <1>1, <2>3 DEF AcceptRun, LocalType, WorkLocals
  <2>4. CASE DecideHeld
    <3>1. [NoFin EXCEPT !.req = work.req] \in FinLocals
      BY <1>1, <1>4 DEF LocalType, FinLocals, WorkLocals
    <3> QED
      BY <1>1, <2>4, <3>1 DEF DecideHeld, LocalType, Procs
  <2>5. CASE DecideShutdown \/ AcceptRemove \/ Abandon
    BY <1>5, <2>5 DEF DecideShutdown, AcceptRemove, Abandon
  <2> QED
    BY <1>11, <2>1, <2>2, <2>3, <2>4, <2>5 DEF Accept
<1>12. CASE WritePoolDrain
  <2>1. CASE ForceRead
    BY <1>1, <2>1 DEF ForceRead, LocalType, WorkLocals
  <2>2. CASE WriteRead
    BY <1>1, <1>4, <2>2 DEF WriteRead, afterWrite, toIdle, LocalType, WorkLocals
  <2>3. CASE WriteLoad
    BY <1>1, <1>2, <2>3 DEF WriteLoad, LocalType, WorkLocals
  <2>4. CASE WriteFile
    BY <1>1, <1>4, <2>4 DEF WriteFile, afterWrite, toIdle, LocalType
  <2>5. CASE ForceSend
    BY <1>5, <2>5 DEF ForceSend
  <2> QED
    BY <1>12, <2>1, <2>2, <2>3, <2>4, <2>5 DEF WritePoolDrain
<1>13. CASE Reject
  <2>1. CASE BusyLoad
    BY <1>1, <1>2, <2>1 DEF BusyLoad, LocalType, WorkLocals
  <2>2. CASE BusyRead \/ NonRunRead
    BY <1>1, <2>2 DEF BusyRead, NonRunRead, LocalType, WorkLocals
  <2>3. CASE RejectRemove \/ HeldRemove
    BY <1>1, <1>4, <2>3 DEF RejectRemove, HeldRemove, toIdle, LocalType
  <2>4. CASE RejectWrite
    BY <1>5, <2>4 DEF RejectWrite
  <2>5. CASE HeldWrite
    BY <1>1, <2>5 DEF HeldWrite, LocalType, Procs
  <2> QED
    BY <1>13, <2>1, <2>2, <2>3, <2>4, <2>5 DEF Reject
<1>14. CASE controlTick
  BY <1>1, <1>4, <1>14 DEF controlTick, LocalType, WorkLocals
<1>15. CASE Control
  BY <1>1, <1>15 DEF Control, LocalType, WorkLocals
<1>16. CASE Reclaim \/ ScrubRequest \/ ScrubStatus \/ DrainAndWait \/ Waited
  BY <1>5, <1>16 DEF Reclaim, ScrubRequest, ScrubStatus, DrainAndWait, Waited
<1>17. CASE ProcessExit \/ Crash
  BY <1>4, <1>17 DEF ProcessExit, Crash, processGone, FreshMemory, LocalType
<1>18. CASE Interrupt \/ BeginShutdown \/ AgentStart \/ BackoffExpires
  BY <1>5, <1>18 DEF Interrupt, BeginShutdown, AgentStart, BackoffExpires
<1>19. ASSUME NEW r \in Requests, NEW agent \in 1..session, PostRequest(r, agent)
       PROVE  LocalType'
  BY <1>5, <1>19 DEF PostRequest
<1>20. CASE UNCHANGED vars
  BY <1>5, <1>20 DEF vars
<1> QED
  BY <1>6, <1>7, <1>8, <1>9, <1>10, <1>11, <1>12, <1>13, <1>14, <1>15, <1>16, <1>17, <1>18,
     <1>19, <1>20
  DEF Next, AgentNext, LoopStep, Process

(* The files keep their types, whoever writes them. *)
LEMMA FileTypeStep == TypeOK /\ [Next]_vars => FileType'
<1> SUFFICES ASSUME TypeOK, [Next]_vars PROVE FileType'
  OBVIOUS
<1> USE SlotsAssumption, BoundsAssumption
<1>1. FileType /\ active \in 0..PoolSize /\ fin \in [Procs -> FinLocals] /\ work \in WorkLocals
  BY DEF TypeOK, PoolType, LocalType
<1>2. CASE UNCHANGED <<fileVars, session>>
  BY <1>1, <1>2 DEF FileType, fileVars
<1>3. session \in 0..MaxSessions /\ None \in Ids
  BY <1>1 DEF FileType, Ids
<1>4. NoRequest \in [id : Ids, agent : 0..MaxSessions]
  BY DEF NoRequest, Ids
<1>5. ASSUME request' \in {NoRequest, request}, UNCHANGED <<status, posted, session>>
      PROVE  FileType'
  BY <1>1, <1>4, <1>5 DEF FileType
<1>6. ASSUME status' \in Statuses, UNCHANGED <<request, posted, session>>
      PROVE  FileType'
  BY <1>1, <1>6 DEF FileType
<1>7. ASSUME NEW st \in [req : Ids, forced : BOOLEAN], NEW n \in 0..PoolSize,
             NEW rejected \in Ids, NEW reason \in {"none", "busy", "held"}
      PROVE  runningStatus(st, n, rejected, reason) \in Statuses
  <2>1. st.req \in Ids /\ st.forced \in BOOLEAN /\ (st.req \in StopRequests) \in BOOLEAN
    OBVIOUS
  <2> QED
    BY <1>3, <1>7, <2>1 DEF runningStatus, Statuses
<1>8. work.st \in [req : Ids, forced : BOOLEAN]
  <2>1. NoDrain \in [req : Ids, forced : BOOLEAN]
    BY DEF NoDrain, Ids
  <2>2. [req : Requests, forced : BOOLEAN] \subseteq [req : Ids, forced : BOOLEAN]
    BY DEF Ids
  <2> QED
    BY <1>1, <2>1, <2>2 DEF WorkLocals, Drains
<1>9. ASSUME NEW s \in Slots, LoopTick(s) \/ SlotRun(s) PROVE FileType'
  BY <1>2, <1>9
  DEF LoopTick, SlotRun, NameFails, Register, Signal, StartExec, IdleReady, Claim
<1>10. ASSUME NEW s \in Slots, SlotReturn(s) PROVE FileType'
  BY <1>2, <1>10
  DEF SlotReturn, ReturnCanceled, ReturnFailed, ReturnUnauthorized, ReturnGood,
      ReturnNeutral, ReturnShort
<1>11. ASSUME NEW s \in Slots, SlotTail(s) PROVE FileType'
  <2>1. CASE SyncWrite(s)
    <3>1. fin[s].loaded \in Statuses /\ fin[s].active \in 0..PoolSize
      BY <1>1 DEF FinLocals, Procs
    <3>2. [fin[s].loaded EXCEPT !.active = fin[s].active] \in Statuses
      BY <3>1 DEF Statuses
    <3> QED
      BY <1>6, <2>1, <3>2 DEF SyncWrite
  <2>2. CASE ~SyncWrite(s)
    BY <1>2, <1>11, <2>2
    DEF SlotTail, reportFatal, Unregister, Leave, Ungate, maybeFinishPoolDrain, SyncLock,
        SyncLoad, Exit
  <2> QED
    BY <2>1, <2>2
<1>12. ASSUME NEW p \in Procs, Finish(p) PROVE FileType'
  <2>1. CASE FinWrite(p)
    <3>1. /\ fin[p].req \in Ids /\ fin[p].active \in 0..PoolSize /\ fin[p].forced \in BOOLEAN
          /\ (fin[p].req \in StopRequests) \in BOOLEAN
          /\ (IF fin[p].err THEN "error" ELSE "complete") \in {"complete", "error"}
      BY <1>1 DEF FinLocals
    <3>2. status' \in Statuses
      BY <1>3, <2>1, <3>1 DEF FinWrite, Statuses
    <3> QED
      BY <1>6, <2>1, <3>2 DEF FinWrite
  <2>2. CASE FinRemove(p)
    BY <1>5, <2>2 DEF FinRemove
  <2>3. CASE finishPoolDrain(p) \/ FinLock(p)
    BY <1>2, <2>3 DEF finishPoolDrain, FinLock
  <2> QED
    BY <1>12, <2>1, <2>2, <2>3 DEF Finish
<1>13. CASE AsyncTick
  BY <1>2, <1>13 DEF AsyncTick
<1>14. CASE Accept
  <2>1. CASE Discard \/ AcceptRemove
    BY <1>5, <2>1 DEF Discard, AcceptRemove
  <2>2. CASE ~(Discard \/ AcceptRemove)
    BY <1>2, <1>14, <2>2
    DEF Accept, AcceptLoad, AcceptRun, DecideHeld, DecideShutdown, Abandon, AcceptDone
  <2> QED
    BY <2>1, <2>2
<1>15. CASE WritePoolDrain
  <2>1. CASE WriteFile
    <3>1. status' \in Statuses
      BY <1>1, <1>7, <1>8, <2>1 DEF WriteFile, WorkLocals
    <3> QED
      BY <1>6, <2>1, <3>1 DEF WriteFile
  <2>2. CASE ~WriteFile
    BY <1>2, <1>15, <2>2 DEF WritePoolDrain, ForceRead, ForceSend, WriteRead, WriteLoad
  <2> QED
    BY <2>1, <2>2
<1>16. CASE Reject
  <2>1. CASE RejectWrite
    <3>1. work.req \in Ids /\ work.active \in 0..PoolSize
      BY <1>1 DEF WorkLocals
    <3>2. runningStatus(work.st, work.active, work.req, "busy") \in Statuses
      BY <1>7, <1>8, <3>1
    <3>3. [req |-> work.req, agent |-> session, state |-> "error", active |-> 0,
           forced |-> FALSE, stop |-> FALSE, rejected |-> work.req, reason |-> "busy"]
            \in Statuses
      BY <1>3, <3>1 DEF Statuses
    <3>4. status' \in Statuses
      BY <2>1, <3>2, <3>3 DEF RejectWrite
    <3> QED
      BY <1>6, <2>1, <3>4 DEF RejectWrite
  <2>2. CASE HeldWrite
    <3>1. work.req \in Ids
      BY <1>1 DEF WorkLocals
    <3>2. [req |-> work.req, agent |-> session, state |-> "complete", active |-> active,
           forced |-> FALSE, stop |-> TRUE, rejected |-> None, reason |-> "none"] \in Statuses
      BY <1>1, <1>3, <3>1 DEF Statuses
    <3>3. ASSUME NEW base \in Statuses
          PROVE  [base EXCEPT !.rejected = work.req, !.reason = "held"] \in Statuses
      BY <3>1 DEF Statuses
    <3>4. status \in Statuses
      BY <1>1 DEF FileType
    <3>5. status' \in Statuses
      BY <2>2, <3>2, <3>3, <3>4 DEF HeldWrite
    <3> QED
      BY <1>6, <2>2, <3>5 DEF HeldWrite
  <2>3. CASE RejectRemove \/ HeldRemove
    BY <1>5, <2>3 DEF RejectRemove, HeldRemove
  <2>4. CASE BusyLoad \/ BusyRead \/ NonRunRead
    BY <1>2, <2>4 DEF BusyLoad, BusyRead, NonRunRead
  <2> QED
    BY <1>16, <2>1, <2>2, <2>3, <2>4 DEF Reject
<1>17. CASE ScrubRequest
  BY <1>5, <1>17 DEF ScrubRequest
<1>18. CASE ScrubStatus
  <2>1. NoStatus \in Statuses
    BY DEF NoStatus, Statuses, Ids
  <2>2. status' \in Statuses
    BY <1>1, <1>18, <2>1 DEF ScrubStatus, FileType
  <2> QED
    BY <1>6, <1>18, <2>2 DEF ScrubStatus
<1>19. CASE controlTick \/ Control \/ Reclaim \/ DrainAndWait \/ Waited
  BY <1>2, <1>19 DEF controlTick, Control, Reclaim, DrainAndWait, Waited
<1>20. CASE ProcessExit \/ Crash
  BY <1>2, <1>20 DEF ProcessExit, Crash, processGone
<1>21. CASE AgentStart
  BY <1>1, <1>21 DEF AgentStart, FileType, fileVars
<1>22. CASE Interrupt \/ BeginShutdown \/ BackoffExpires
  BY <1>2, <1>22 DEF Interrupt, BeginShutdown, BackoffExpires
<1>23. ASSUME NEW r \in Requests, NEW agent \in 1..session, PostRequest(r, agent)
       PROVE  FileType'
  BY <1>1, <1>23 DEF PostRequest, FileType, Ids
<1>24. CASE UNCHANGED vars
  BY <1>2, <1>24 DEF vars
<1> QED
  BY <1>9, <1>10, <1>11, <1>12, <1>13, <1>14, <1>15, <1>16, <1>17, <1>18, <1>19, <1>20,
     <1>21, <1>22, <1>23, <1>24
  DEF Next, AgentNext, LoopStep, Process

(* Type correctness of every step. *)
LEMMA TypeStep ==
  TypeOK /\ SlotsAccounted /\ RequestInv /\ [Next]_vars => TypeOK'
  BY StepTypeStep, PoolTypeStep, FlagTypeStep, SlotTypeStep, LocalTypeStep, FileTypeStep
  DEF TypeOK

-----------------------------------------------------------------------------
(* The counters count. *)

(* No slot moves and no counter changes. *)
SlotsKept ==
  /\ \A s \in Slots : pc'[s] = pc[s]
  /\ UNCHANGED <<active, warming, gate>>

(* The loop's own steps concern no slot. *)
LEMMA LoopKeepsSlots == TypeOK /\ LoopStep => SlotsKept
<1> SUFFICES ASSUME TypeOK, LoopStep PROVE SlotsKept
  OBVIOUS
<1>1. ASSUME NEW step, goto(Loop, step) PROVE \A s \in Slots : pc'[s] = pc[s]
  BY <1>1, SlotsAssumption DEF goto, TypeOK, StepType, Procs
<1>2. CASE Accept
  BY <1>1, <1>2
  DEF Accept, AcceptLoad, Discard, AcceptRun, DecideHeld, DecideShutdown, AcceptRemove,
      Abandon, AcceptDone, toIdle, SlotsKept, poolVars, slotVars
<1>3. CASE WritePoolDrain
  BY <1>1, <1>3
  DEF WritePoolDrain, ForceRead, ForceSend, WriteRead, WriteLoad, WriteFile, afterWrite,
      toIdle, SlotsKept, poolVars, slotVars
<1>4. CASE Reject
  BY <1>1, <1>4
  DEF Reject, BusyLoad, BusyRead, NonRunRead, RejectWrite, RejectRemove, HeldWrite,
      HeldRemove, toIdle, SlotsKept, poolVars, slotVars
<1>5. CASE controlTick \/ Control \/ Reclaim \/ ScrubRequest \/ ScrubStatus \/ DrainAndWait \/ Waited
  BY <1>1, <1>5
  DEF controlTick, Control, Reclaim, ScrubRequest, ScrubStatus, DrainAndWait, Waited,
      SlotsKept, poolVars, slotVars
<1> QED
  BY <1>2, <1>3, <1>4, <1>5 DEF LoopStep

(* Neither do signals, the shutdown flag, a new process, time and the CLIs. *)
LEMMA OthersKeepSlots ==
  ASSUME TypeOK,
         \/ Interrupt \/ BeginShutdown \/ AgentStart \/ BackoffExpires
         \/ \E r \in Requests, agent \in 1..session : PostRequest(r, agent)
         \/ UNCHANGED vars
  PROVE  SlotsKept
  BY SlotsAssumption
  DEF Interrupt, BeginShutdown, AgentStart, BackoffExpires, PostRequest, vars, goto,
      TypeOK, StepType, Procs, SlotsKept, poolVars, slotVars

(* A slot's own move changes no other goroutine. *)
LEMMA SlotMoves ==
  ASSUME TypeOK, NEW s \in Slots, NEW step, goto(s, step)
  PROVE  /\ pc'[s] = step
         /\ \A t \in Slots \ {s} : pc'[t] = pc[t]
         /\ pc'[Loop] = pc[Loop]
  BY SlotsAssumption DEF goto, TypeOK, StepType, Procs

(* A move that keeps the counted slots and the closed gates keeps the account. *)
LEMMA SameAccount ==
  ASSUME SlotsAccounted, UNCHANGED <<active, warming, gate>>,
         \A s \in Slots : pc'[s] \in Counted <=> pc[s] \in Counted
  PROVE  SlotsAccounted'
<1>1. {s \in Slots : pc'[s] \in Counted} = {s \in Slots : pc[s] \in Counted}
  OBVIOUS
<1> QED
  BY <1>1 DEF SlotsAccounted

(* The same for the gates alone: the only slot that opens its gate has it     *)
(* closed, so warming loses one exactly when the set of gates does.           *)
LEMMA GateOpens ==
  ASSUME TypeOK, SlotsAccounted, NEW s \in gate,
         gate' = gate \ {s}, warming' = warming - 1, active' = active,
         \A t \in Slots : pc'[t] \in Counted <=> pc[t] \in Counted
  PROVE  SlotsAccounted'
<1>1. IsFiniteSet(gate)
  BY SlotsAssumption, FS_Subset DEF TypeOK, SlotType
<1>2. Cardinality(gate') = Cardinality(gate) - 1
  BY <1>1, FS_RemoveElement
<1>3. {t \in Slots : pc'[t] \in Counted} = {t \in Slots : pc[t] \in Counted}
  OBVIOUS
<1> QED
  BY <1>2, <1>3 DEF SlotsAccounted

LEMMA SpawnAccounted ==
  ASSUME TypeOK, SlotsAccounted, GateInv, NEW s \in Slots, spawn(s)
  PROVE  SlotsAccounted'
<1>1. IsFiniteSet(CountedSlots) /\ IsFiniteSet(gate)
  BY SlotsAssumption, FS_Subset DEF CountedSlots, TypeOK, SlotType
<1>2. s \notin CountedSlots /\ s \notin gate
  BY DEF spawn, at, CountedSlots, Counted, GateInv, Gated
<1>3. CountedSlots' = CountedSlots \cup {s}
  <2>1. goto(s, "new")
    BY DEF spawn
  <2> QED
    BY <2>1, SlotMoves DEF CountedSlots, Counted
<1>4. /\ Cardinality(CountedSlots') = Cardinality(CountedSlots) + 1
      /\ Cardinality(gate') = Cardinality(gate) + 1
  BY <1>1, <1>2, <1>3, FS_AddElement DEF spawn
<1> QED
  BY <1>4 DEF SlotsAccounted, CountedSlots, spawn

(* active and warming count what they are meant to count after every step. *)
LEMMA AccountedStep ==
  TypeOK /\ SlotsAccounted /\ GateInv /\ [Next]_vars => SlotsAccounted'
<1> SUFFICES ASSUME TypeOK, SlotsAccounted, GateInv, [Next]_vars PROVE SlotsAccounted'
  OBVIOUS
<1>1. CASE SlotsKept
  BY <1>1, SameAccount DEF SlotsKept
<1>2. ASSUME NEW s \in Slots, LoopTick(s) PROVE SlotsAccounted'
  BY <1>2, SpawnAccounted DEF LoopTick
<1>3. ASSUME NEW s \in Slots, SlotRun(s) PROVE SlotsAccounted'
  <2>1. CASE IdleReady(s)
    BY <2>1, GateOpens DEF IdleReady
  <2>2. CASE ~IdleReady(s)
    <3>1. \A t \in Slots : pc'[t] \in Counted <=> pc[t] \in Counted
      BY <1>3, <2>2, SlotMoves
      DEF SlotRun, NameFails, Register, Signal, StartExec, Claim, at, Counted
    <3>2. UNCHANGED <<active, warming, gate>>
      BY <1>3, <2>2
      DEF SlotRun, NameFails, Register, Signal, StartExec, Claim, poolVars, slotVars
    <3> QED
      BY <3>1, <3>2, SameAccount
  <2> QED
    BY <2>1, <2>2
<1>4. ASSUME NEW s \in Slots, SlotReturn(s) PROVE SlotsAccounted'
  <2>1. \A t \in Slots : pc'[t] \in Counted <=> pc[t] \in Counted
    BY <1>4, SlotMoves
    DEF SlotReturn, ReturnCanceled, ReturnFailed, ReturnUnauthorized, ReturnGood,
        ReturnNeutral, ReturnShort, at, Counted, Spawning
  <2>2. UNCHANGED <<active, warming, gate>>
    BY <1>4
    DEF SlotReturn, ReturnCanceled, ReturnFailed, ReturnUnauthorized, ReturnGood,
        ReturnNeutral, ReturnShort, poolVars, slotVars
  <2> QED
    BY <2>1, <2>2, SameAccount
<1>5. ASSUME NEW s \in Slots, SlotTail(s) PROVE SlotsAccounted'
  <2>1. CASE Leave(s)
    <3>1. IsFiniteSet(CountedSlots) /\ s \in CountedSlots
      BY <2>1, SlotsAssumption, FS_Subset DEF CountedSlots, Leave, at, Counted
    <3>2. CountedSlots' = CountedSlots \ {s}
      BY <2>1, SlotMoves DEF CountedSlots, Leave, Counted
    <3>3. Cardinality(CountedSlots') = Cardinality(CountedSlots) - 1
      BY <3>1, <3>2, FS_RemoveElement
    <3> QED
      BY <2>1, <3>3 DEF Leave, SlotsAccounted, CountedSlots, slotVars
  <2>2. CASE Ungate(s)
    <3>1. \A t \in Slots : pc'[t] \in Counted <=> pc[t] \in Counted
      BY <2>2, SlotMoves DEF Ungate, at, Counted
    <3>2. CASE s \in gate
      BY <2>2, <3>1, <3>2, GateOpens DEF Ungate
    <3>3. CASE s \notin gate
      BY <2>2, <3>1, <3>3, SameAccount DEF Ungate
    <3> QED
      BY <3>2, <3>3
  <2>3. CASE ~(Leave(s) \/ Ungate(s))
    <3>1. \A t \in Slots : pc'[t] \in Counted <=> pc[t] \in Counted
      BY <1>5, <2>3, SlotMoves
      DEF SlotTail, reportFatal, Unregister, maybeFinishPoolDrain, SyncLock, SyncLoad,
          SyncWrite, Exit, at, Counted
    <3>2. UNCHANGED <<active, warming, gate>>
      BY <1>5, <2>3
      DEF SlotTail, reportFatal, Unregister, maybeFinishPoolDrain, SyncLock, SyncLoad,
          SyncWrite, Exit, poolVars, slotVars
    <3> QED
      BY <3>1, <3>2, SameAccount
  <2> QED
    BY <2>1, <2>2, <2>3
<1>6. ASSUME NEW p \in Procs, Finish(p) PROVE SlotsAccounted'
  <2>1. \A t \in Slots : pc'[t] \in Counted <=> pc[t] \in Counted
    BY <1>6, SlotsAssumption
    DEF Finish, finishPoolDrain, FinLock, FinWrite, FinRemove, afterFinish, goto, at,
        Counted, TypeOK, StepType, Procs
  <2>2. UNCHANGED <<active, warming, gate>>
    BY <1>6 DEF Finish, finishPoolDrain, FinLock, FinWrite, FinRemove, poolVars, slotVars
  <2> QED
    BY <2>1, <2>2, SameAccount
<1>7. CASE AsyncTick
  BY <1>1, <1>7, SpawnAccounted DEF AsyncTick, SlotsKept
<1>8. CASE LoopStep
  BY <1>1, <1>8, LoopKeepsSlots
<1>9. CASE ProcessExit \/ Crash
  <2>1. {s \in Slots : pc'[s] \in Counted} = {}
    BY <1>9, SlotsAssumption DEF ProcessExit, Crash, processGone, Procs, Counted
  <2> QED
    BY <1>9, <2>1, FS_EmptySet
    DEF ProcessExit, Crash, processGone, FreshMemory, SlotsAccounted
<1>10. CASE \/ Interrupt \/ BeginShutdown \/ AgentStart \/ BackoffExpires
            \/ \E r \in Requests, agent \in 1..session : PostRequest(r, agent)
            \/ UNCHANGED vars
  BY <1>1, <1>10, OthersKeepSlots
<1> QED
  BY <1>2, <1>3, <1>4, <1>5, <1>6, <1>7, <1>8, <1>9, <1>10 DEF Next, AgentNext, Process

-----------------------------------------------------------------------------
(* The gate, the drain's metadata, the requests and the process. *)

(* A slot has its gate closed from the increment on, and opens it before it   *)
(* leaves the deferred calls.                                                 *)
LEMMA GateStep == TypeOK /\ GateInv /\ [Next]_vars => GateInv'
<1> SUFFICES ASSUME TypeOK, GateInv, [Next]_vars PROVE GateInv'
  OBVIOUS
<1> USE DEF GateInv, Gated, Cold, Counted
<1>1. gate \subseteq Slots
  BY DEF TypeOK, SlotType
<1>2. CASE SlotsKept
  BY <1>1, <1>2 DEF SlotsKept
<1>3. ASSUME NEW s \in Slots, spawn(s) PROVE GateInv'
  BY <1>1, <1>3, SlotMoves DEF spawn
<1>4. ASSUME NEW s \in Slots, SlotRun(s) PROVE GateInv'
  <2>1. CASE IdleReady(s)
    BY <1>1, <2>1 DEF IdleReady
  <2>2. CASE ~IdleReady(s)
    BY <1>1, <1>4, <2>2, SlotMoves
    DEF SlotRun, NameFails, Register, Signal, StartExec, Claim, at, poolVars, slotVars
  <2> QED
    BY <2>1, <2>2
<1>5. ASSUME NEW s \in Slots, SlotReturn(s) PROVE GateInv'
  BY <1>1, <1>5, SlotMoves
  DEF SlotReturn, ReturnCanceled, ReturnFailed, ReturnUnauthorized, ReturnGood,
      ReturnNeutral, ReturnShort, at, Spawning, poolVars, slotVars
<1>6. ASSUME NEW s \in Slots, SlotTail(s) PROVE GateInv'
  BY <1>1, <1>6, SlotMoves
  DEF SlotTail, reportFatal, Unregister, Leave, Ungate, maybeFinishPoolDrain, SyncLock,
      SyncLoad, SyncWrite, Exit, at, poolVars, slotVars
<1>7. ASSUME NEW p \in Procs, Finish(p) PROVE GateInv'
  BY <1>1, <1>7, SlotsAssumption
  DEF Finish, finishPoolDrain, FinLock, FinWrite, FinRemove, afterFinish, goto, at, TypeOK,
      StepType, Procs, poolVars, slotVars
<1>8. CASE AsyncTick
  BY <1>2, <1>3, <1>8 DEF AsyncTick, SlotsKept
<1>9. CASE LoopStep
  BY <1>2, <1>9, LoopKeepsSlots
<1>10. CASE ProcessExit \/ Crash
  BY <1>10, SlotsAssumption DEF ProcessExit, Crash, processGone, FreshMemory, Procs
<1>11. CASE \/ Interrupt \/ BeginShutdown \/ AgentStart \/ BackoffExpires
            \/ \E r \in Requests, agent \in 1..session : PostRequest(r, agent)
            \/ UNCHANGED vars
  BY <1>2, <1>11, OthersKeepSlots
<1> QED
  BY <1>3, <1>4, <1>5, <1>6, <1>7, <1>8, <1>9, <1>10, <1>11
  DEF Next, AgentNext, Process, LoopTick

(* Who changes the phase or the drain: nobody else does. *)
DrainKept == UNCHANGED <<phase, drain>>

(* setPhase keeps phase and drain together, for every phase but poolDrain. *)
LEMMA SetPhaseMatches ==
  ASSUME DrainStateMatchesPhase, NEW to \in {"run", "held", "shutdown"}, setPhase(to)
  PROVE  DrainStateMatchesPhase'
  BY DEF DrainStateMatchesPhase, setPhase, nextPhase, drainAfter

(* Drain metadata exists exactly while a drain runs or a shutdown overtook it. *)
LEMMA DrainStateStep ==
  TypeOK /\ DrainStateMatchesPhase /\ RequestInv /\ [Next]_vars => DrainStateMatchesPhase'
<1> SUFFICES ASSUME TypeOK, DrainStateMatchesPhase, RequestInv, [Next]_vars
             PROVE  DrainStateMatchesPhase'
  OBVIOUS
<1>1. CASE DrainKept
  BY <1>1 DEF DrainKept, DrainStateMatchesPhase
<1>2. ASSUME NEW s \in Slots, LoopTick(s) \/ SlotRun(s) \/ SlotReturn(s) PROVE DrainKept
  BY <1>2
  DEF LoopTick, SlotRun, NameFails, Register, Signal, StartExec, IdleReady, Claim, SlotReturn,
      ReturnCanceled, ReturnFailed, ReturnUnauthorized, ReturnGood, ReturnNeutral,
      ReturnShort, poolVars, DrainKept
<1>3. ASSUME NEW s \in Slots, SlotTail(s) PROVE DrainStateMatchesPhase'
  <2>1. CASE reportFatal(s)
    BY <1>1, <2>1, SetPhaseMatches DEF reportFatal, DrainKept
  <2>2. CASE ~reportFatal(s)
    BY <1>1, <1>3, <2>2
    DEF SlotTail, Unregister, Leave, Ungate, maybeFinishPoolDrain, SyncLock, SyncLoad,
        SyncWrite, Exit, poolVars, DrainKept
  <2> QED
    BY <2>1, <2>2
<1>4. ASSUME NEW p \in Procs, Finish(p) PROVE DrainStateMatchesPhase'
  <2>1. CASE finishPoolDrain(p)
    <3>1. phaseAfterDrain(drain.req) \in {"run", "held", "shutdown"}
      BY DEF phaseAfterDrain
    <3> QED
      BY <1>1, <2>1, <3>1, SetPhaseMatches
      DEF finishPoolDrain, DrainStateMatchesPhase, DrainKept
  <2>2. CASE ~finishPoolDrain(p)
    BY <1>1, <1>4, <2>2 DEF Finish, FinLock, FinWrite, FinRemove, poolVars, DrainKept
  <2> QED
    BY <2>1, <2>2
<1>5. CASE AcceptRun
  <2>1. work.req \in Requests
    BY <1>5 DEF AcceptRun, RequestInv, at
  <2> QED
    BY <1>5, <2>1, RequestsAssumption DEF AcceptRun, DrainStateMatchesPhase, NoDrain
<1>6. CASE ForceRead
  <2>1. drain # NoDrain => drain' # NoDrain
    BY <1>6, RequestsAssumption DEF ForceRead, TypeOK, PoolType, Drains, NoDrain
  <2> QED
    BY <1>6, <2>1 DEF ForceRead, DrainStateMatchesPhase
<1>7. CASE DrainAndWait \/ BeginShutdown
  BY <1>7, SetPhaseMatches DEF DrainAndWait, BeginShutdown
<1>8. CASE (Accept /\ ~AcceptRun) \/ (WritePoolDrain /\ ~ForceRead) \/ Reject
  BY <1>1, <1>8
  DEF Accept, AcceptLoad, Discard, DecideHeld, DecideShutdown, AcceptRemove, Abandon,
      AcceptDone, WritePoolDrain, ForceSend, WriteRead, WriteLoad, WriteFile, Reject,
      BusyLoad, BusyRead, NonRunRead, RejectWrite, RejectRemove, HeldWrite, HeldRemove,
      poolVars, DrainKept
<1>9. CASE controlTick \/ Control \/ Reclaim \/ ScrubRequest \/ ScrubStatus \/ Waited
  BY <1>1, <1>9
  DEF controlTick, Control, Reclaim, ScrubRequest, ScrubStatus, Waited, poolVars, DrainKept
<1>10. CASE AsyncTick
  BY <1>1, <1>10 DEF AsyncTick, DrainKept
<1>11. CASE ProcessExit \/ Crash
  BY <1>11 DEF ProcessExit, Crash, processGone, FreshMemory, DrainStateMatchesPhase
<1>12. CASE Interrupt \/ AgentStart \/ BackoffExpires
  BY <1>1, <1>12 DEF Interrupt, AgentStart, BackoffExpires, poolVars, DrainKept
<1>13. ASSUME NEW r \in Requests, NEW agent \in 1..session, PostRequest(r, agent)
       PROVE  DrainKept
  BY <1>13 DEF PostRequest, poolVars, DrainKept
<1>14. CASE UNCHANGED vars
  BY <1>1, <1>14 DEF vars, poolVars, DrainKept
<1> QED
  BY <1>1, <1>2, <1>3, <1>4, <1>5, <1>6, <1>7, <1>8, <1>9, <1>10, <1>11, <1>12, <1>13, <1>14
  DEF Next, AgentNext, LoopStep, Process

(* A request that is decided was posted by a CLI: only AcceptLoad goes there, *)
(* from a file that only CLIs create.                                         *)
LEMMA RequestStep == TypeOK /\ RequestInv /\ [Next]_vars => RequestInv'
<1> SUFFICES ASSUME TypeOK, RequestInv, [Next]_vars PROVE RequestInv'
  OBVIOUS
<1> USE DEF RequestInv
<1>1. Loop \in Procs /\ Loop \notin Slots /\ work \in WorkLocals
  BY SlotsAssumption DEF TypeOK, LocalType, Procs
<1>2. CASE request' \in {request, NoRequest} /\ pc'[Loop] # "decide"
  BY <1>2
<1>3. CASE request' = request /\ work'.req = work.req /\ pc'[Loop] = pc[Loop]
  BY <1>3
<1>4. ASSUME NEW step, goto(Loop, step) PROVE pc'[Loop] = step
  BY <1>1, <1>4 DEF goto, TypeOK, StepType
<1>5. ASSUME NEW s \in Slots, NEW step, goto(s, step) PROVE pc'[Loop] = pc[Loop]
  BY <1>5, SlotMoves
<1>6. ASSUME NEW s \in Slots, LoopTick(s) \/ SlotRun(s) \/ SlotReturn(s) PROVE RequestInv'
  BY <1>3, <1>5, <1>6
  DEF LoopTick, spawn, SlotRun, NameFails, Register, Signal, StartExec, IdleReady, Claim,
      SlotReturn, ReturnCanceled, ReturnFailed, ReturnUnauthorized, ReturnGood,
      ReturnNeutral, ReturnShort, localVars, fileVars
<1>7. ASSUME NEW s \in Slots, SlotTail(s) PROVE RequestInv'
  <2>1. CASE Exit(s)
    <3>1. work'.req = work.req
      BY <1>1, <2>1 DEF Exit, WorkLocals
    <3> QED
      BY <1>3, <1>5, <2>1, <3>1 DEF Exit, fileVars
  <2>2. CASE ~Exit(s)
    BY <1>3, <1>5, <1>7, <2>2
    DEF SlotTail, reportFatal, Unregister, Leave, Ungate, maybeFinishPoolDrain, SyncLock,
        SyncLoad, SyncWrite, localVars, fileVars
  <2> QED
    BY <2>1, <2>2
<1>8. ASSUME NEW p \in Procs, Finish(p) PROVE RequestInv'
  <2>1. request' \in {request, NoRequest}
    BY <1>8 DEF Finish, finishPoolDrain, FinLock, FinWrite, FinRemove, fileVars
  <2>2. CASE p = Loop
    <3>1. pc'[Loop] # "decide"
      BY <1>4, <1>8, <2>2
      DEF Finish, finishPoolDrain, FinLock, FinWrite, FinRemove, afterFinish
    <3> QED
      BY <1>2, <2>1, <3>1
  <2>3. CASE p \in Slots
    <3>1. work' = work /\ pc'[Loop] = pc[Loop]
      BY <1>1, <1>5, <1>8, <2>3
      DEF Finish, finishPoolDrain, FinLock, FinWrite, FinRemove, doneWork, localVars
    <3> QED
      BY <2>1, <3>1
  <2> QED
    BY <2>2, <2>3 DEF Procs
<1>9. CASE AsyncTick
  BY <1>3, <1>5, <1>9 DEF AsyncTick, spawn, localVars, fileVars
<1>10. CASE AcceptLoad
  <2>1. CASE pc'[Loop] = "idle"
    BY <1>2, <1>10, <2>1 DEF AcceptLoad, fileVars
  <2>2. CASE request # NoRequest /\ work' = [work EXCEPT !.req = request.id]
    <3>1. work'.req \in Requests
      BY <1>1, <2>2 DEF WorkLocals
    <3> QED
      BY <1>10, <3>1 DEF AcceptLoad, fileVars
  <2> QED
    BY <1>4, <1>10, <2>1, <2>2 DEF AcceptLoad, toIdle
<1>11. CASE Accept /\ ~AcceptLoad
  BY <1>2, <1>4, <1>11
  DEF Accept, Discard, AcceptRun, DecideHeld, DecideShutdown, AcceptRemove, Abandon,
      AcceptDone, toIdle, fileVars, at
<1>12. CASE WritePoolDrain
  BY <1>2, <1>4, <1>12
  DEF WritePoolDrain, ForceRead, ForceSend, WriteRead, WriteLoad, WriteFile, afterWrite,
      toIdle, fileVars
<1>13. CASE Reject
  BY <1>2, <1>4, <1>13
  DEF Reject, BusyLoad, BusyRead, NonRunRead, RejectWrite, RejectRemove, HeldWrite,
      HeldRemove, toIdle, fileVars
<1>14. CASE controlTick \/ Control \/ Reclaim \/ ScrubRequest \/ ScrubStatus \/ DrainAndWait \/ Waited
  BY <1>2, <1>4, <1>14
  DEF controlTick, Control, Reclaim, ScrubRequest, ScrubStatus, DrainAndWait, Waited, fileVars
<1>15. CASE ProcessExit \/ Crash
  BY <1>1, <1>2, <1>15 DEF ProcessExit, Crash, processGone, fileVars
<1>16. CASE AgentStart
  BY <1>2, <1>4, <1>16 DEF AgentStart, fileVars
<1>17. CASE Interrupt \/ BeginShutdown \/ BackoffExpires
  BY <1>3, <1>17 DEF Interrupt, BeginShutdown, BackoffExpires, localVars, fileVars
<1>18. ASSUME NEW r \in Requests, NEW agent \in 1..session, PostRequest(r, agent)
       PROVE  RequestInv'
  BY <1>18 DEF PostRequest, localVars
<1>19. CASE UNCHANGED vars
  BY <1>3, <1>19 DEF vars, localVars, fileVars
<1> QED
  BY <1>6, <1>7, <1>8, <1>9, <1>10, <1>11, <1>12, <1>13, <1>14, <1>15, <1>16, <1>17, <1>18,
     <1>19
  DEF Next, AgentNext, LoopStep, Process

(* A slot's steps are of a slot in flight, and move no other goroutine. *)
LEMMA SlotStepsMove ==
  ASSUME TypeOK, NEW s \in Slots, SlotRun(s) \/ SlotReturn(s) \/ SlotTail(s)
  PROVE  /\ pc[s] # "free"
         /\ pc'[Loop] = pc[Loop]
         /\ \A t \in Slots \ {s} : pc'[t] = pc[t]
<1>1. CASE SlotRun(s)
  BY <1>1, SlotMoves
  DEF SlotRun, NameFails, Register, Signal, StartExec, IdleReady, Claim, at
<1>2. CASE SlotReturn(s)
  BY <1>2, SlotMoves
  DEF SlotReturn, ReturnCanceled, ReturnFailed, ReturnUnauthorized, ReturnGood,
      ReturnNeutral, ReturnShort, at, Spawning
<1>3. CASE SlotTail(s)
  BY <1>3, SlotMoves
  DEF SlotTail, reportFatal, Unregister, Leave, Ungate, maybeFinishPoolDrain, SyncLock,
      SyncLoad, SyncWrite, Exit, at
<1> QED
  BY <1>1, <1>2, <1>3

(* The same of finishPoolDrain, which a slot or the loop runs. *)
LEMMA FinishMoves ==
  ASSUME TypeOK, NEW p \in Procs, Finish(p)
  PROVE  /\ pc[p] \in {"finish", "finLock", "finWrite", "finRemove"}
         /\ pc'[p] \in {"idle", "sync", "finLock", "finWrite", "finRemove"}
         /\ \A q \in Procs \ {p} : pc'[q] = pc[q]
  BY Moves DEF Finish, finishPoolDrain, FinLock, FinWrite, FinRemove, afterFinish, at, goto,
     TypeOK, StepType

(* A process that starts or is gone has no goroutines; one that ends is in    *)
(* phaseShutdown, which no step leaves, so it starts no slot.                 *)
LEMMA ProcessStep == TypeOK /\ ProcessInv /\ [Next]_vars => ProcessInv'
<1> SUFFICES ASSUME TypeOK, ProcessInv, [Next]_vars PROVE ProcessInv'
  OBVIOUS
<1> USE DEF ProcessInv, Starting
<1>1. Loop \in Procs /\ Loop \notin Slots
  BY SlotsAssumption DEF Procs
<1>2. ASSUME NEW step, goto(Loop, step) PROVE pc'[Loop] = step
  BY <1>1, <1>2 DEF goto, TypeOK, StepType
<1>3. CASE pc'[Loop] \notin Starting \cup {"dead", "drainAndWait", "purge"}
  BY <1>3
<1>5. CASE SlotsKept /\ pc'[Loop] = pc[Loop] /\ ticks' = ticks /\ ctxDone' = ctxDone /\ phase' = phase
  <2>1. InFlight' = InFlight
    BY <1>5 DEF InFlight, SlotsKept
  <2> QED
    BY <1>5, <2>1
<1>6. ASSUME NEW s \in Slots, LoopTick(s) PROVE ProcessInv'
  <2>1. pc'[Loop] = "idle"
    BY <1>6, SlotMoves DEF LoopTick, spawn, at
  <2> QED
    BY <1>3, <2>1
<1>7. ASSUME NEW s \in Slots, SlotRun(s) \/ SlotReturn(s) \/ SlotTail(s) PROVE ProcessInv'
  <2>1. pc[s] # "free" /\ pc'[Loop] = pc[Loop]
    BY <1>7, SlotStepsMove
  <2>3. CASE pc[Loop] = "drainAndWait"
    <3>1. phase = "shutdown"
      BY <2>3
    <3>2. phase' = "shutdown"
      BY <1>7, <3>1
      DEF SlotRun, NameFails, Register, Signal, StartExec, IdleReady, Claim, SlotReturn,
          ReturnCanceled, ReturnFailed, ReturnUnauthorized, ReturnGood, ReturnNeutral,
          ReturnShort, SlotTail, reportFatal, Unregister, Leave, Ungate,
          maybeFinishPoolDrain, SyncLock, SyncLoad, SyncWrite, Exit, poolVars, setPhase,
          nextPhase
    <3> QED
      BY <2>1, <2>3, <3>2
  <2>4. CASE pc[Loop] # "drainAndWait"
    BY <2>1, <2>4 DEF InFlight
  <2> QED
    BY <2>3, <2>4
<1>8. ASSUME NEW p \in Procs, Finish(p) PROVE ProcessInv'
  <2>1. CASE p = Loop
    <3>1. pc'[Loop] \in {"idle", "finLock", "finWrite", "finRemove"}
      BY <1>2, <1>8, <2>1
      DEF Finish, finishPoolDrain, FinLock, FinWrite, FinRemove, afterFinish
    <3> QED
      BY <1>3, <3>1
  <2>2. CASE p \in Slots
    <3>1. pc[p] # "free" /\ pc'[Loop] = pc[Loop]
      BY <1>8, <2>2, SlotMoves
      DEF Finish, finishPoolDrain, FinLock, FinWrite, FinRemove, at
    <3>2. phase = "shutdown" => phase' = "shutdown"
      BY <1>8 DEF Finish, finishPoolDrain, FinLock, FinWrite, FinRemove, poolVars
    <3> QED
      BY <2>2, <3>1, <3>2 DEF InFlight
  <2> QED
    BY <2>1, <2>2 DEF Procs
<1>9. CASE AsyncTick
  <2>1. ticks # 0 /\ phase' = phase
    BY <1>9 DEF AsyncTick, TypeOK, PoolType
  <2>2. pc'[Loop] = pc[Loop]
    BY <1>9, SlotMoves DEF AsyncTick, spawn
  <2>3. phase = "shutdown" => InFlight' = InFlight
    BY <1>9 DEF AsyncTick, spawn, canSpawn, InFlight
  <2> QED
    BY <2>1, <2>2, <2>3
<1>10. CASE Accept \/ WritePoolDrain \/ Reject \/ controlTick \/ Control
  <2>1. pc'[Loop] \notin Starting \cup {"dead", "drainAndWait", "purge"}
    BY <1>2, <1>10
    DEF Accept, AcceptLoad, Discard, AcceptRun, DecideHeld, DecideShutdown, AcceptRemove,
        Abandon, AcceptDone, WritePoolDrain, ForceRead, ForceSend, WriteRead, WriteLoad,
        WriteFile, Reject, BusyLoad, BusyRead, NonRunRead, RejectWrite, RejectRemove,
        HeldWrite, HeldRemove, controlTick, Control, afterWrite, toIdle
  <2> QED
    BY <1>3, <2>1
<1>11. CASE Reclaim \/ ScrubRequest \/ ScrubStatus
  <2>1. InFlight' = InFlight
    BY <1>11, LoopKeepsSlots DEF LoopStep, SlotsKept, InFlight
  <2>2. UNCHANGED <<ticks, phase, ctxDone>>
    BY <1>11 DEF Reclaim, ScrubRequest, ScrubStatus, poolVars
  <2>3. \/ pc[Loop] \in Starting /\ pc'[Loop] \in Starting
        \/ pc'[Loop] = "idle"
    BY <1>2, <1>11 DEF Reclaim, ScrubRequest, ScrubStatus, at
  <2> QED
    BY <2>1, <2>2, <2>3
<1>12. CASE DrainAndWait
  BY <1>2, <1>12 DEF DrainAndWait, setPhase, nextPhase
<1>13. CASE Waited
  <2>1. InFlight' = {}
    BY <1>13, LoopKeepsSlots DEF LoopStep, SlotsKept, InFlight, Waited
  <2> QED
    BY <1>2, <1>13, <2>1 DEF Waited, at, poolVars
<1>14. CASE ProcessExit \/ Crash
  <2>1. /\ pc'[Loop] = "dead" /\ InFlight' = {}
    BY <1>1, <1>14 DEF ProcessExit, Crash, processGone, InFlight, Procs
  <2>2. ticks' = 0 /\ phase' = "run" /\ ctxDone' = FALSE
    BY <1>14 DEF ProcessExit, Crash, processGone, FreshMemory
  <2> QED
    BY <2>1, <2>2
<1>15. CASE Interrupt
  <2>1. InFlight' = InFlight
    BY <1>15, OthersKeepSlots DEF SlotsKept, InFlight
  <2> QED
    BY <1>15, <2>1 DEF Interrupt, at
<1>16. CASE BeginShutdown
  <2>1. InFlight' = InFlight
    BY <1>16, OthersKeepSlots DEF SlotsKept, InFlight
  <2> QED
    BY <1>16, <2>1 DEF BeginShutdown, setPhase, nextPhase
<1>17. CASE AgentStart
  <2>1. InFlight' = InFlight
    BY <1>17, OthersKeepSlots DEF SlotsKept, InFlight
  <2> QED
    BY <1>2, <1>17, <2>1 DEF AgentStart, at, poolVars
<1>18. CASE \/ BackoffExpires \/ UNCHANGED vars
            \/ \E r \in Requests, agent \in 1..session : PostRequest(r, agent)
  <2>1. SlotsKept
    BY <1>18, OthersKeepSlots
  <2> QED
    BY <1>5, <1>18, <2>1 DEF BackoffExpires, PostRequest, vars, poolVars
<1> QED
  BY <1>6, <1>7, <1>8, <1>9, <1>10, <1>11, <1>12, <1>13, <1>14, <1>15, <1>16, <1>17, <1>18
  DEF Next, AgentNext, LoopStep, Process

-----------------------------------------------------------------------------
(* The inductive invariant, and what follows from it. *)

LEMMA InitInv == Init => IInv
<1> SUFFICES ASSUME Init PROVE IInv
  OBVIOUS
<1>1. TypeOK
  BY InitType
<1>2. pc[Loop] = "start" /\ \A s \in Slots : pc[s] = "free"
  BY SlotsAssumption DEF Init, Procs
<1>3. SlotsAccounted
  <2>1. {s \in Slots : pc[s] \in Counted} = {}
    BY <1>2 DEF Counted
  <2> QED
    BY <2>1, FS_EmptySet DEF Init, SlotsAccounted
<1>4. GateInv
  BY <1>2 DEF Init, GateInv, Cold
<1>5. DrainStateMatchesPhase /\ RequestInv /\ ProcessInv
  BY <1>2
  DEF Init, DrainStateMatchesPhase, RequestInv, ProcessInv, Starting, InFlight
<1> QED
  BY <1>1, <1>3, <1>4, <1>5 DEF IInv

LEMMA InvStep == IInv /\ [Next]_vars => IInv'
  BY TypeStep, AccountedStep, GateStep, DrainStateStep, RequestStep, ProcessStep DEF IInv

(* The inductive invariant holds of every behaviour. *)
THEOREM Invariance == Spec => []IInv
<1>1. Init => IInv
  BY InitInv
<1>2. IInv /\ [Next]_vars => IInv'
  BY InvStep
<1> QED
  BY <1>1, <1>2, PTL DEF Spec

(* Every variable keeps its type: active never passes cfg.PoolSize, and at    *)
(* most one slot warms, for every pool size.                                  *)
THEOREM TypeCorrect == Spec => []TypeOK
<1>1. IInv => TypeOK
  BY DEF IInv
<1> QED
  BY <1>1, Invariance, PTL

(* active and warming are exact, though each slot changes them in separate    *)
(* critical sections of tick's goroutine.                                     *)
THEOREM CountersExact == Spec => []SlotsAccounted
<1>1. IInv => SlotsAccounted
  BY DEF IInv
<1> QED
  BY <1>1, Invariance, PTL

(* README "Cold starts are staggered": no two slots clone or boot at a time.  *)
THEOREM OneColdStart == Spec => []ColdStartsStaggered
<1>1. IInv => ColdStartsStaggered
  <2> SUFFICES ASSUME IInv, NEW s \in Slots, NEW t \in Slots, pc[s] \in Cold, pc[t] \in Cold
               PROVE  s = t
    BY DEF ColdStartsStaggered, Cold
  <2>1. s \in gate /\ t \in gate
    BY DEF IInv, GateInv
  <2>2. IsFiniteSet(gate)
    BY SlotsAssumption, FS_Subset DEF IInv, TypeOK, SlotType
  <2>3. Cardinality(gate) \in 0..1
    BY DEF IInv, TypeOK, PoolType, SlotsAccounted
  <2>4. Cardinality(gate) = 1
    BY <2>1, <2>2, <2>3, FS_EmptySet
  <2> QED
    BY <2>1, <2>2, <2>4, FS_Singleton
<1> QED
  BY <1>1, Invariance, PTL

(* phase.go: the drain's metadata lives exactly as long as the drain, or as   *)
(* the shutdown that overtook it.                                             *)
THEOREM DrainMetadata == Spec => []DrainStateMatchesPhase
<1>1. IInv => DrainStateMatchesPhase
  BY DEF IInv
<1> QED
  BY <1>1, Invariance, PTL

-----------------------------------------------------------------------------
(* The refinement of PoolContract, and that no slot starts in a process that *)
(* ends: both follow from the inductive invariant and from what one step may *)
(* do to the phase, to the loop and to the slots.                            *)

(* The process neither starts nor ends in the step. *)
SameProcess == pc[Loop] # "dead" /\ pc'[Loop] # "dead"

(* The phase changes as phase.go lets it. *)
PhaseMove ==
  \/ phase' = phase
  \/ phase = "run" /\ phase' = "poolDrain"
  \/ phase = "poolDrain" /\ phase' \in {"run", "held"}
  \/ phase' = "shutdown"

(* No slot enters or leaves the count. *)
SameCount == CountedSlots' = CountedSlots

LEMMA CountKept ==
  ASSUME \A s \in Slots : pc'[s] \in Counted <=> pc[s] \in Counted
  PROVE  SameCount
  BY DEF SameCount, CountedSlots

(* A slot's step leaves the phase alone, or shuts the pool down; it leaves    *)
(* the count alone, except for the deferred active--.                         *)
LEMMA SlotStep ==
  ASSUME IInv, NEW s \in Slots, SlotRun(s) \/ SlotReturn(s) \/ SlotTail(s)
  PROVE  /\ SameProcess
         /\ \/ SameCount /\ PhaseMove
            \/ s \in CountedSlots /\ CountedSlots' = CountedSlots \ {s} /\ phase' = phase
<1>1. TypeOK /\ ProcessInv
  BY DEF IInv
<1>2. SameProcess
  BY <1>1, SlotStepsMove DEF SameProcess, ProcessInv, InFlight
<1>3. CASE SlotRun(s)
  <2>1. \A t \in Slots : pc'[t] \in Counted <=> pc[t] \in Counted
    BY <1>1, <1>3, SlotMoves
    DEF SlotRun, NameFails, Register, Signal, StartExec, IdleReady, Claim, at, Counted
  <2>2. phase' = phase
    BY <1>3
    DEF SlotRun, NameFails, Register, Signal, StartExec, IdleReady, Claim, poolVars
  <2> QED
    BY <1>2, <2>1, <2>2, CountKept DEF PhaseMove
<1>4. CASE SlotReturn(s)
  <2>1. \A t \in Slots : pc'[t] \in Counted <=> pc[t] \in Counted
    BY <1>1, <1>4, SlotMoves
    DEF SlotReturn, ReturnCanceled, ReturnFailed, ReturnUnauthorized, ReturnGood,
        ReturnNeutral, ReturnShort, at, Counted, Spawning
  <2>2. phase' = phase
    BY <1>4
    DEF SlotReturn, ReturnCanceled, ReturnFailed, ReturnUnauthorized, ReturnGood,
        ReturnNeutral, ReturnShort, poolVars
  <2> QED
    BY <1>2, <2>1, <2>2, CountKept DEF PhaseMove
<1>5. CASE Leave(s)
  BY <1>1, <1>2, <1>5, SlotMoves DEF Leave, CountedSlots, Counted, at
<1>6. CASE SlotTail(s) /\ ~Leave(s)
  <2>1. \A t \in Slots : pc'[t] \in Counted <=> pc[t] \in Counted
    BY <1>1, <1>6, SlotMoves
    DEF SlotTail, reportFatal, Unregister, Ungate, maybeFinishPoolDrain, SyncLock, SyncLoad,
        SyncWrite, Exit, at, Counted
  <2>2. PhaseMove
    BY <1>6
    DEF SlotTail, reportFatal, Unregister, Ungate, maybeFinishPoolDrain, SyncLock, SyncLoad,
        SyncWrite, Exit, poolVars, setPhase, nextPhase, PhaseMove
  <2> QED
    BY <1>2, <2>1, <2>2, CountKept
<1> QED
  BY <1>3, <1>4, <1>5, <1>6

(* finishPoolDrain ends the drain phase and nothing else. *)
LEMMA FinishStep ==
  ASSUME IInv, NEW p \in Procs, Finish(p)
  PROVE  SameProcess /\ SameCount /\ PhaseMove
<1>1. TypeOK /\ ProcessInv
  BY DEF IInv
<1>2. SameProcess
  BY <1>1, FinishMoves DEF SameProcess, ProcessInv, InFlight, Procs
<1>3. \A t \in Slots : pc'[t] \in Counted <=> pc[t] \in Counted
  BY <1>1, FinishMoves DEF Counted, Procs
<1>4. PhaseMove
  BY DEF Finish, finishPoolDrain, FinLock, FinWrite, FinRemove, poolVars, setPhase, nextPhase,
     phaseAfterDrain, PhaseMove
<1> QED
  BY <1>2, <1>3, <1>4, CountKept

(* The loop accepts drains from the run phase only, and shuts down. *)
LEMMA LoopStepMoves ==
  ASSUME IInv, LoopStep
  PROVE  SameProcess /\ SameCount /\ PhaseMove
<1>1. TypeOK
  BY DEF IInv
<1>2. ASSUME NEW step, goto(Loop, step) PROVE pc'[Loop] = step
  BY <1>1, <1>2 DEF goto, TypeOK, StepType, Procs
<1>3. SameCount
  BY <1>1, LoopKeepsSlots, CountKept DEF SlotsKept
<1>4. CASE Accept
  BY <1>2, <1>3, <1>4
  DEF Accept, AcceptLoad, Discard, AcceptRun, DecideHeld, DecideShutdown, AcceptRemove,
      Abandon, AcceptDone, toIdle, at, poolVars, SameProcess, PhaseMove
<1>5. CASE WritePoolDrain
  BY <1>2, <1>3, <1>5
  DEF WritePoolDrain, ForceRead, ForceSend, WriteRead, WriteLoad, WriteFile, afterWrite,
      toIdle, at, poolVars, SameProcess, PhaseMove
<1>6. CASE Reject
  BY <1>2, <1>3, <1>6
  DEF Reject, BusyLoad, BusyRead, NonRunRead, RejectWrite, RejectRemove, HeldWrite,
      HeldRemove, toIdle, at, poolVars, SameProcess, PhaseMove
<1>7. CASE controlTick \/ Control \/ Reclaim \/ ScrubRequest \/ ScrubStatus \/ DrainAndWait \/ Waited
  BY <1>2, <1>3, <1>7
  DEF controlTick, Control, Reclaim, ScrubRequest, ScrubStatus, DrainAndWait, Waited, at,
      poolVars, setPhase, nextPhase, SameProcess, PhaseMove
<1> QED
  BY <1>4, <1>5, <1>6, <1>7 DEF LoopStep

-----------------------------------------------------------------------------
(* The refinement.  inUse is the set of counted slots, stage a function of    *)
(* the phase and of whether the process runs.                                 *)

LEMMA SameCountMaps ==
  ASSUME IInv, IInv', SameProcess, SameCount, PhaseMove
  PROVE  [Contract!Next]_(Contract!vars)
<1>1. phase \in Phases /\ phase' \in Phases
  BY DEF IInv, TypeOK, PoolType
<1>2. {s \in Slots : pc'[s] \in Counted} = {s \in Slots : pc[s] \in Counted}
  BY DEF SameCount, CountedSlots
<1>3. \/ stageOfPool' = stageOfPool
      \/ stageOfPool = "fill" /\ stageOfPool' = "drain"
      \/ stageOfPool = "drain" /\ stageOfPool' \in {"fill", "held"}
      \/ stageOfPool \in {"fill", "drain", "held"} /\ stageOfPool' = "ending"
  BY <1>1 DEF SameProcess, PhaseMove, stageOfPool, at, Phases
<1> QED
  BY <1>2, <1>3
  DEF Contract!Next, Contract!vars, Contract!Drain, Contract!Refill, Contract!Hold,
      Contract!Shutdown

LEMMA SpawnMaps ==
  ASSUME IInv, NEW s \in Slots, spawn(s), SameProcess, phase' = phase
  PROVE  Contract!Next
<1>1. /\ TypeOK /\ active = Cardinality(CountedSlots)
  BY DEF IInv, SlotsAccounted, CountedSlots
<1>2. s \notin CountedSlots /\ CountedSlots' = CountedSlots \cup {s}
  BY <1>1, SlotMoves DEF spawn, at, CountedSlots, Counted
<1>3. stageOfPool = "fill" /\ stageOfPool' = "fill"
  BY DEF SameProcess, spawn, canSpawn, stageOfPool, at
<1>4. Cardinality(CountedSlots) < PoolSize
  BY <1>1 DEF spawn, canSpawn
<1>5. Contract!Start(s)
  <2>1. /\ s \notin {t \in Slots : pc[t] \in Counted}
        /\ {t \in Slots : pc'[t] \in Counted} = {t \in Slots : pc[t] \in Counted} \cup {s}
    BY <1>2 DEF CountedSlots
  <2>2. Cardinality({t \in Slots : pc[t] \in Counted}) < PoolSize
    BY <1>4 DEF CountedSlots
  <2>3. ASSUME NEW S PROVE Contract!Cardinality(S) = Cardinality(S)
    BY DEF Contract!Cardinality, Cardinality
  <2> QED
    BY <1>3, <2>1, <2>2, <2>3 DEF Contract!Start
<1> QED
  BY <1>5 DEF Contract!Next

LEMMA LeaveMaps ==
  ASSUME NEW s \in CountedSlots, CountedSlots' = CountedSlots \ {s}, SameProcess,
         phase' = phase
  PROVE  Contract!Next
<1>1. stageOfPool' = stageOfPool /\ s \in Slots
  BY DEF SameProcess, stageOfPool, at, CountedSlots
<1>2. Contract!End(s)
  BY <1>1 DEF Contract!End, CountedSlots
<1> QED
  BY <1>1, <1>2 DEF Contract!Next

(* The end of a process finds no slot in use, unless it is a crash. *)
LEMMA GoneMaps ==
  ASSUME IInv, ProcessExit \/ Crash
  PROVE  Contract!Next
<1>1. pc[Loop] # "dead" /\ pc'[Loop] = "dead" /\ \A s \in Slots : pc'[s] = "free"
  BY SlotsAssumption DEF ProcessExit, Crash, processGone, at, Procs
<1>2. InFlight = {} \/ "crash" \in Faults
  BY DEF ProcessExit, Crash, IInv, ProcessInv, Starting, at
<1>3. InFlight = {} => {s \in Slots : pc[s] \in Counted} = {}
  BY DEF InFlight, Counted
<1>4. {s \in Slots : pc'[s] \in Counted} = {}
  BY <1>1 DEF Counted
<1>5. stageOfPool # "gone" /\ stageOfPool' = "gone"
  <2>1. phase \in Phases
    BY DEF IInv, TypeOK, PoolType
  <2> QED
    BY <1>1, <2>1 DEF stageOfPool, at, Phases
<1> QED
  BY <1>2, <1>3, <1>4, <1>5 DEF Contract!Next, Contract!Leave

LEMMA RestartMaps ==
  ASSUME IInv, AgentStart
  PROVE  Contract!Next
<1>1. SlotsKept /\ pc[Loop] = "dead" /\ pc'[Loop] = "start" /\ phase' = "run"
  BY OthersKeepSlots
  DEF AgentStart, at, goto, IInv, TypeOK, StepType, ProcessInv, Procs, poolVars
<1>2. {s \in Slots : pc'[s] \in Counted} = {s \in Slots : pc[s] \in Counted}
  BY <1>1 DEF SlotsKept
<1>3. stageOfPool = "gone" /\ stageOfPool' = "fill"
  BY <1>1 DEF stageOfPool, at
<1> QED
  BY <1>2, <1>3 DEF Contract!Next, Contract!Restart

(* Signals, BeginShutdown, time and the CLIs; a process that is gone only     *)
(* sees the last two.                                                         *)
LEMMA OthersMap ==
  ASSUME IInv, IInv',
         \/ Interrupt \/ BeginShutdown \/ BackoffExpires \/ UNCHANGED vars
         \/ \E r \in Requests, agent \in 1..session : PostRequest(r, agent)
  PROVE  [Contract!Next]_(Contract!vars)
<1>1. SlotsKept /\ pc' = pc
  BY OthersKeepSlots
  DEF IInv, Interrupt, BeginShutdown, BackoffExpires, PostRequest, vars
<1>2. SameCount
  BY <1>1, CountKept DEF SlotsKept
<1>3. PhaseMove
  BY DEF Interrupt, BeginShutdown, BackoffExpires, PostRequest, vars, poolVars, setPhase,
     nextPhase, PhaseMove
<1>4. CASE pc[Loop] # "dead"
  BY <1>1, <1>2, <1>3, <1>4, SameCountMaps DEF SameProcess
<1>5. CASE pc[Loop] = "dead"
  BY <1>1, <1>2, <1>5 DEF SameCount, CountedSlots, stageOfPool, at, Contract!vars
<1> QED
  BY <1>4, <1>5

LEMMA StepMaps ==
  ASSUME IInv, IInv', [Next]_vars
  PROVE  [Contract!Next]_(Contract!vars)
<1>1. ASSUME NEW s \in Slots, SlotRun(s) \/ SlotReturn(s) \/ SlotTail(s)
      PROVE  [Contract!Next]_(Contract!vars)
  BY <1>1, SlotStep, SameCountMaps, LeaveMaps
<1>2. ASSUME NEW p \in Procs, Finish(p) PROVE [Contract!Next]_(Contract!vars)
  BY <1>2, FinishStep, SameCountMaps
<1>3. CASE LoopStep
  BY <1>3, LoopStepMoves, SameCountMaps
<1>4. ASSUME NEW s \in Slots, spawn(s), pc[Loop] # "dead", phase' = phase
      PROVE  Contract!Next
  BY <1>4, SpawnMaps, SlotMoves DEF spawn, SameProcess, IInv
<1>5. ASSUME NEW s \in Slots, LoopTick(s) PROVE Contract!Next
  BY <1>4, <1>5 DEF LoopTick, at
<1>6. CASE AsyncTick
  <2>1. pc[Loop] # "dead" /\ phase' = phase
    BY <1>6 DEF AsyncTick, IInv, ProcessInv, TypeOK, PoolType
  <2>2. CASE UNCHANGED <<active, warming, gate, pc>>
    BY <2>1, <2>2, CountKept, SameCountMaps DEF SameProcess, PhaseMove
  <2> QED
    BY <1>4, <1>6, <2>1, <2>2 DEF AsyncTick
<1>7. CASE ProcessExit \/ Crash
  BY <1>7, GoneMaps
<1>8. CASE AgentStart
  BY <1>8, RestartMaps
<1>9. CASE \/ Interrupt \/ BeginShutdown \/ BackoffExpires \/ UNCHANGED vars
           \/ \E r \in Requests, agent \in 1..session : PostRequest(r, agent)
  BY <1>9, OthersMap
<1> QED
  BY <1>1, <1>2, <1>3, <1>5, <1>6, <1>7, <1>8, <1>9 DEF Next, AgentNext, Process

(* The goroutines, locks and files of the pool keep the promises of           *)
(* PoolContract: no slot beyond the pool's size, none started while draining, *)
(* held or ending, and no end of the process with a slot in use but a crash.  *)
THEOREM PoolImplementsContract == Spec => ContractSpec
<1>1. Init => Contract!Init
  <2> SUFFICES ASSUME Init PROVE Contract!Init
    OBVIOUS
  <2>1. pc[Loop] = "start" /\ \A s \in Slots : pc[s] = "free"
    BY SlotsAssumption DEF Init, Procs
  <2> QED
    BY <2>1 DEF Init, Contract!Init, stageOfPool, at, Counted
<1>2. IInv /\ IInv' /\ [Next]_vars => [Contract!Next]_(Contract!vars)
  BY StepMaps
<1> QED
  BY <1>1, <1>2, Invariance, PTL DEF Spec, ContractSpec, Contract!Spec

-----------------------------------------------------------------------------
(* A step of a process that ends starts no slot, because phaseShutdown stays. *)
LEMMA NoSlotStarts ==
  ASSUME IInv, IInv', [Next]_vars, pc[Loop] \in {"drainAndWait", "purge"}, pc'[Loop] # "dead"
  PROVE  InFlight' \subseteq InFlight
<1>1. TypeOK /\ phase = "shutdown"
  BY DEF IInv, ProcessInv
<1>2. CASE SlotsKept
  BY <1>2 DEF SlotsKept, InFlight
<1>3. ASSUME NEW s \in Slots, SlotRun(s) \/ SlotReturn(s) \/ SlotTail(s)
      PROVE  InFlight' \subseteq InFlight
  BY <1>1, <1>3, SlotStepsMove DEF InFlight
<1>4. ASSUME NEW p \in Procs, Finish(p) PROVE InFlight' \subseteq InFlight
  BY <1>1, <1>4, FinishMoves DEF InFlight, Procs
<1>5. ASSUME NEW s \in Slots PROVE ~spawn(s)
  BY <1>1 DEF spawn, canSpawn
<1>6. CASE AsyncTick
  BY <1>5, <1>6 DEF AsyncTick, InFlight
<1>7. CASE LoopStep
  BY <1>1, <1>2, <1>7, LoopKeepsSlots
<1>8. CASE \/ Interrupt \/ BeginShutdown \/ AgentStart \/ BackoffExpires
           \/ \E r \in Requests, agent \in 1..session : PostRequest(r, agent)
           \/ UNCHANGED vars
  BY <1>1, <1>2, <1>8, OthersKeepSlots
<1>9. ~(ProcessExit \/ Crash)
  BY DEF ProcessExit, Crash, processGone, Procs
<1> QED
  BY <1>3, <1>4, <1>5, <1>6, <1>7, <1>8, <1>9 DEF Next, AgentNext, Process, LoopTick

(* pool.go, tick: no inFlight.Add races the Wait of drainAndWait, so nothing  *)
(* runs beside the purge.                                                     *)
THEOREM NoSpawnInShutdown == Spec => NoSpawnAfterShutdown
<1>1. ASSUME IInv, IInv', [Next]_vars
      PROVE  [pc[Loop] \in {"drainAndWait", "purge"} /\ ~at(Loop, "dead")' =>
                /\ InFlight' \subseteq InFlight
                /\ at(Loop, "purge")' => InFlight' = {}]_vars
  <2>1. at(Loop, "purge")' => InFlight' = {}
    BY <1>1 DEF IInv, ProcessInv, at
  <2> QED
    BY <1>1, <2>1, NoSlotStarts DEF at
<1> QED
  BY <1>1, Invariance, PTL DEF Spec, NoSpawnAfterShutdown
=============================================================================

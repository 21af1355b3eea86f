---------------------------- MODULE PoolContract ----------------------------
(***************************************************************************)
(* What the pool promises about its capacity and its lifecycle, without    *)
(* goroutines, locks or files: src/internal/pool/phase.go and the guards   *)
(* of tick in src/internal/pool/pool.go.                                   *)
(*                                                                         *)
(* Slots start only while the pool fills, and never beyond its size.  A    *)
(* drain ends by filling again or by holding the pool; a held pool is only *)
(* left by ending the process, and an ending process never starts a slot.  *)
(***************************************************************************)
EXTENDS Integers, FiniteSets

CONSTANTS Slots, PoolSize,
          MayCrash    \* whether the process may disappear with slots in use

VARIABLES stage,      \* of the process
          inUse       \* slots that count towards PoolSize

vars == <<stage, inUse>>

Stages == {"fill", "drain", "held", "ending", "gone"}

Init == stage = "fill" /\ inUse = {}

Start(s) ==
  /\ stage = "fill"
  /\ s \notin inUse
  /\ Cardinality(inUse) < PoolSize
  /\ inUse' = inUse \cup {s}
  /\ UNCHANGED stage

End(s) ==
  /\ s \in inUse
  /\ inUse' = inUse \ {s}
  /\ UNCHANGED stage

Drain    == stage = "fill" /\ stage' = "drain" /\ UNCHANGED inUse
Refill   == stage = "drain" /\ stage' = "fill" /\ UNCHANGED inUse
Hold     == stage = "drain" /\ stage' = "held" /\ UNCHANGED inUse
Shutdown == stage \in {"fill", "drain", "held"} /\ stage' = "ending" /\ UNCHANGED inUse

Leave ==
  /\ stage # "gone"
  /\ inUse = {} \/ MayCrash
  /\ stage' = "gone"
  /\ inUse' = {}

Restart == stage = "gone" /\ stage' = "fill" /\ UNCHANGED inUse

Next ==
  \/ \E s \in Slots : Start(s) \/ End(s)
  \/ Drain \/ Refill \/ Hold \/ Shutdown \/ Leave \/ Restart

Spec == Init /\ [][Next]_vars
=============================================================================

------------------------------ MODULE SlotPool ------------------------------
(***************************************************************************)
(* What the main process expects of a limiter, whatever it keeps inside:   *)
(* calls ask for a slot, wait, hold it and leave.  Slots are handed out    *)
(* only while the limit allows, a call never holds a slot again once it    *)
(* has left, and a call waits only while every slot is taken.              *)
(*                                                                         *)
(* Two limiters are shown to implement it: src/main/extraction-limiter.ts  *)
(* (ExtractionLimiter) and src/main/proxy-readback-limiter.ts              *)
(* (ReadbackLimiter).                                                      *)
(***************************************************************************)
EXTENDS Integers, FiniteSets

CONSTANTS
  Calls,      \* the calls of acquire()
  MaxLimit    \* no limit is ever set above this number

VARIABLES
  bound,      \* the limit in force
  queued,     \* the calls that wait for a slot
  holding,    \* the calls that hold one
  gone        \* the calls that were rejected or have released their slot

poolVars == <<bound, queued, holding, gone>>

\* A call that waits finds every slot taken.
Conserving == queued # {} => Cardinality(holding) >= bound

PoolInit ==
  /\ bound \in 1..MaxLimit
  /\ queued = {}
  /\ holding = {}
  /\ gone = {}

(***************************************************************************)
(* One step: the limit may change, calls may arrive, leave and be granted. *)
(* Whoever is granted fits below the limit now in force; a smaller limit   *)
(* takes no slot away from a holder.                                       *)
(***************************************************************************)
ServeStep ==
  /\ bound' \in 1..MaxLimit
  /\ queued' \in SUBSET Calls
  /\ holding' \in SUBSET Calls
  /\ gone' \in SUBSET Calls
  /\ holding \ gone' \subseteq holding'
  /\ queued \ gone' \subseteq queued' \union holding'
  /\ holding' \intersect (queued' \union gone') = {}
  /\ queued' \intersect (holding \union gone') = {}
  /\ (holding' \ holding # {}) => Cardinality(holding') <= bound'
  /\ Conserving'

\* No call comes back once it has left.
PoolStep == ServeStep /\ gone \subseteq gone'

PoolSpec == PoolInit /\ [][PoolStep]_poolVars

\* Whoever has left may call again.
ReusedSpec == PoolInit /\ [][ServeStep]_poolVars

=============================================================================

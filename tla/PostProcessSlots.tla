-------------------------- MODULE PostProcessSlots --------------------------
(***************************************************************************)
(* Who may unpack when: the slots and the per-package tasks of             *)
(* runPackagePostProcessing (src/main/download-manager.ts).                *)
(*                                                                         *)
(* A package has at most one task on record; asking for another while it   *)
(* is there orders one more round of it.  A task is taken off the record   *)
(* when its package is switched off, reset or removed, and goes on         *)
(* unwinding beside the task that may replace it.                          *)
(*                                                                         *)
(* A step is the code between two awaits.  The continuation of a waiter    *)
(* that is woken runs before any other event and is part of the step that  *)
(* wakes it.  A package is named by its place in session.packageOrder,     *)
(* and what a round does to files and items is left out.                   *)
(***************************************************************************)
EXTENDS Integers, FiniteSets, Sequences, SequencesExt, Functions

CONSTANTS
  Packages,     \* the packages, by their place in the queue
  Tasks,        \* identities of tasks; bound: how many are alive at a time
  Limits,       \* the values settings.maxParallelExtract takes
  MaxResets     \* bound: calls that reset the slots, and changes of the limit

ASSUME PackagesAssumption == Packages \subseteq Nat
ASSUME TasksAssumption == IsFiniteSet(Tasks)
ASSUME LimitsAssumption == Limits \subseteq 1..8 /\ Limits # {}
ASSUME ResetsAssumption == MaxResets \in Nat

NoTask == "none"
ASSUME NoTaskAssumption == NoTask \notin Tasks

VARIABLES
  limit,      \* settings.maxParallelExtract
  active,     \* packagePostProcessActive
  waiters,    \* packagePostProcessWaiters, with the maxConcurrent each has read
  phase,      \* free, waiting, started (has a slot, no round yet) or working
  pkg,        \* the package of a task
  aborted,    \* the tasks whose AbortController has fired
  current,    \* packagePostProcessTasks and ...AbortControllers
  requeue,    \* hybridExtractRequeue
  resets      \* such calls so far

slots == <<limit, active, waiters>>
vars == <<slots, phase, pkg, aborted, current, requeue, resets>>

Phases == {"free", "waiting", "started", "working"}
Holders == {t \in Tasks : phase[t] \in {"started", "working"}}
Waiting == {t \in Tasks : phase[t] = "waiting"}
Alive == Holders \union Waiting

\* The package of a task that is not there.
Nowhere == CHOOSE p \in Packages : TRUE

Init ==
  /\ limit \in Limits
  /\ active = 0
  /\ waiters = <<>>
  /\ phase = [t \in Tasks |-> "free"]
  /\ pkg = [t \in Tasks |-> Nowhere]
  /\ aborted = {}
  /\ current = [p \in Packages |-> NoTask]
  /\ requeue = {}
  /\ resets = 0

-----------------------------------------------------------------------------
\* acquirePostProcessSlot, up to its await.
AcquireSlot(t) ==
  \/ /\ active < limit
     /\ active' = active + 1
     /\ phase' = [phase EXCEPT ![t] = "started"]
     /\ UNCHANGED waiters
  \/ /\ active >= limit
     /\ waiters' = Append(waiters, [task |-> t, limit |-> limit])
     /\ phase' = [phase EXCEPT ![t] = "waiting"]
     /\ UNCHANGED active

\* runPackagePostProcessing: the task on record is asked for another round,
\* aborted or not, or a new one is put on record.
RunPostProcessing(p) ==
  \/ /\ current[p] # NoTask
     /\ requeue' = requeue \union {p}
     /\ UNCHANGED <<slots, phase, pkg, aborted, current, resets>>
  \/ /\ current[p] = NoTask
     /\ \E t \in Tasks :
          /\ phase[t] = "free"
          /\ AcquireSlot(t)
          /\ pkg' = [pkg EXCEPT ![t] = p]
          /\ current' = [current EXCEPT ![p] = t]
     /\ UNCHANGED <<limit, aborted, requeue, resets>>

\* The baseline of the output folder has been read: the first round.
FirstRound(t) ==
  /\ phase[t] = "started"
  /\ phase' = [phase EXCEPT ![t] = "working"]
  /\ requeue' = requeue \ {pkg[t]}
  /\ UNCHANGED <<slots, pkg, aborted, current, resets>>

\* A round that a request, or what it has unpacked itself, makes the task repeat.
AnotherRound(t) ==
  /\ phase[t] = "working"
  /\ pkg[t] \in requeue
  /\ requeue' = requeue \ {pkg[t]}
  /\ UNCHANGED <<slots, phase, pkg, aborted, current, resets>>

\* The waiter whose package comes first in the queue.
First == CHOOSE k \in 1..Len(waiters) :
           \A l \in 1..Len(waiters) :
             LET a == pkg[waiters[k].task]
                 b == pkg[waiters[l].task]
             IN  a < b \/ (a = b /\ k <= l)

ReleaseSlot_SlotKept(t) ==
  /\ phase' = [phase EXCEPT ![t] = "free"]
  /\ UNCHANGED <<active, waiters>>

ReleaseSlot_WakesNobody(t) ==
  /\ active' = IF active <= 0 THEN 0 ELSE active - 1
  /\ phase' = [phase EXCEPT ![t] = "free"]
  /\ UNCHANGED waiters

\* releasePostProcessSlot, with the continuation of the waiter it wakes, which
\* goes on whether or not it could count itself.
ReleaseSlot(t) ==
  IF active <= 0 \/ waiters = <<>>
  THEN /\ active' = IF active <= 0 THEN 0 ELSE active - 1
       /\ phase' = [phase EXCEPT ![t] = "free"]
       /\ UNCHANGED waiters
  ELSE LET next == waiters[First]
       IN  /\ active' = IF active - 1 < next.limit THEN active ELSE active - 1
           /\ waiters' = RemoveAt(waiters, First)
           /\ phase' = [phase EXCEPT ![t] = "free", ![next.task] = "started"]

Leaves(t) == pkg' = [pkg EXCEPT ![t] = Nowhere]

TaskEnds_BlindDelete(t) ==
  /\ phase[t] = "working"
  /\ ReleaseSlot(t)
  /\ current' = [current EXCEPT ![pkg[t]] = NoTask]
  /\ aborted' = aborted \ {t}
  /\ requeue' = requeue \ {pkg[t]}
  /\ Leaves(t)
  /\ UNCHANGED <<limit, resets>>

\* The "finally" of a task: nothing is ordered any more, or what was ordered is
\* dropped after a quick round of a package that is not complete.  The record is
\* cleared only if it is still this task's.
TaskEnds(t) ==
  /\ phase[t] = "working"
  /\ ReleaseSlot(t)
  /\ current' = [current EXCEPT ![pkg[t]] = IF @ = t THEN NoTask ELSE @]
  /\ aborted' = aborted \ {t}
  /\ requeue' = requeue \ {pkg[t]}
  /\ Leaves(t)
  /\ UNCHANGED <<limit, resets>>

\* abortPackagePostProcessing: a switch, a reset, a cancellation.
AbortPackage(p) ==
  /\ current[p] # NoTask
  /\ aborted' = aborted \union {current[p]}
  /\ current' = [current EXCEPT ![p] = NoTask]
  /\ requeue' = requeue \ {p}
  /\ UNCHANGED <<slots, phase, pkg, resets>>

\* The waiters that count themselves when all are woken, one after the other: those that
\* find fewer than the limit they have read.
Counted ==
  {ks \in SUBSET (1..Len(waiters)) :
     \A k \in 1..Len(waiters) :
       k \in ks <=> Cardinality({l \in ks : l < k}) < waiters[k].limit}

\* The slots are declared free, whoever holds them, and everybody is woken.
SlotsReset ==
  /\ resets < MaxResets
  /\ resets' = resets + 1
  /\ \E ks \in Counted : active' = Cardinality(ks)
  /\ waiters' = <<>>
  /\ phase' = [t \in Tasks |-> IF phase[t] = "waiting" THEN "started" ELSE phase[t]]
  /\ UNCHANGED <<limit, pkg>>

OnRecord == {t \in Tasks : \E p \in Packages : current[p] = t}

\* stop() without autoExtractWhenStopped, and abortAllPostProcessing().
AbortAll ==
  /\ SlotsReset
  /\ aborted' = aborted \union OnRecord
  /\ UNCHANGED <<current, requeue>>

\* clearAll(): the queue is emptied, and the records with it.
ClearAll ==
  /\ SlotsReset
  /\ aborted' = aborted \union OnRecord
  /\ current' = [p \in Packages |-> NoTask]
  /\ requeue' = {}

\* The user changes the setting; nobody is woken.
SetLimit(n) ==
  /\ limit # n
  /\ resets < MaxResets
  /\ resets' = resets + 1
  /\ limit' = n
  /\ UNCHANGED <<active, waiters, phase, pkg, aborted, current, requeue>>

-----------------------------------------------------------------------------
Next ==
  \/ \E p \in Packages : RunPostProcessing(p) \/ AbortPackage(p)
  \/ \E t \in Tasks : FirstRound(t) \/ AnotherRound(t) \/ TaskEnds(t)
  \/ AbortAll \/ ClearAll
  \/ \E n \in Limits : SetLimit(n)

Spec == Init /\ [][Next]_vars

-----------------------------------------------------------------------------
TypeOK ==
  /\ limit \in Limits
  /\ active \in 0..Cardinality(Tasks)
  /\ waiters \in Seq([task : Tasks, limit : Limits])
  /\ phase \in [Tasks -> Phases]
  /\ pkg \in [Tasks -> Packages]
  /\ aborted \in SUBSET Tasks
  /\ current \in [Packages -> Tasks \union {NoTask}]
  /\ requeue \in SUBSET Packages
  /\ resets \in 0..MaxResets

\* No slot is ever lost: the counter never exceeds the tasks that hold a slot,
\* whatever resets, changed limits and late releases do to it.
SlotsNeverLeak == active <= Cardinality(Holders)

\* The identity guard: a task that has not been aborted is the one on record for
\* its package, so that it can be cancelled and has no second beside it.
NoOrphan == \A t \in Alive \ aborted : current[pkg[t]] = t

=============================================================================

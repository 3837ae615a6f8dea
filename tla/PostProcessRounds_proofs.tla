---------------------- MODULE PostProcessRounds_proofs ----------------------
(***************************************************************************)
(* No slot of post-processing is ever lost, no package has a second task   *)
(* that nobody could cancel, and no order of a completed package is lost   *)
(* between the rounds, for every number of packages and tasks and however  *)
(* often the slots are reset.                                              *)
(***************************************************************************)
EXTENDS PostProcessRounds, Basics_proofs

Waiter == [task : Tasks, limit : Limits]

Typed ==
  /\ limit \in Limits /\ active \in Nat /\ resets \in Nat
  /\ waiters \in Seq(Waiter)
  /\ phase \in [Tasks -> Phases]
  /\ pkg \in [Tasks -> Packages \union {Nowhere}]
  /\ \A t \in Alive : pkg[t] \in Packages
  /\ aborted \subseteq Alive
  /\ current \in [Packages -> Tasks \union {NoTask}]
  /\ requeue \subseteq Packages

\* The waiters are the tasks that wait, each once.
Queued ==
  /\ \A k \in 1..Len(waiters) : phase[waiters[k].task] = "waiting"
  /\ \A k, l \in 1..Len(waiters) : waiters[k].task = waiters[l].task => k = l
  /\ \A t \in Waiting : \E k \in 1..Len(waiters) : waiters[k].task = t

\* A task on record is alive and works for the package that has it.
RecordIsAlive ==
  \A p \in Packages : current[p] # NoTask =>
    current[p] \in Alive /\ pkg[current[p]] = p

SlotsInv == Typed /\ Queued /\ SlotsNeverLeak /\ RecordIsAlive /\ NoOrphan

\* What is due belongs to a complete package, and its task has not been aborted.
DueIsOpen ==
  \A p \in due : work[p] = "complete" /\ current[p] \notin aborted

RoundsTyped ==
  /\ work \in [Packages -> Works] /\ saw \in [Tasks -> Counts]
  /\ due \subseteq Packages

RoundsInv == SlotsInv /\ RoundsTyped /\ DueIsOpen /\ OrderIsKept

-----------------------------------------------------------------------------
(* Sets of numbers, tasks and waiters. *)

LEMMA WaiterWaits ==
  ASSUME Typed, Queued, NEW k \in 1..Len(waiters)
  PROVE  /\ Len(waiters) \in Nat
         /\ waiters[k].task \in Tasks /\ phase[waiters[k].task] = "waiting"
         /\ waiters[k].limit \in Nat
<1>1. waiters \in Seq(Waiter)
  BY DEF Typed
<1>2. waiters[k] \in Waiter /\ Len(waiters) \in Nat
  BY <1>1
<1>3. phase[waiters[k].task] = "waiting"
  BY DEF Queued
<1>4. waiters[k].task \in Tasks /\ waiters[k].limit \in Limits
  BY <1>2 DEF Waiter
<1>5. Limits \subseteq Nat
  BY LimitsAssumption
<1> QED BY <1>2, <1>3, <1>4, <1>5

\* There is a first one among those who wait.
LEMMA FirstWaits ==
  ASSUME Typed, Queued, waiters # <<>>
  PROVE  First \in 1..Len(waiters)
<1> DEFINE at(k) == pkg[waiters[k].task]
           ks == 1..Len(waiters)
<1>1. Len(waiters) \in Nat /\ 1 \in ks /\ ks \subseteq Nat
  BY DEF Typed
<1>2. \A k \in ks : at(k) \in Nat
  <2> SUFFICES ASSUME NEW k \in ks PROVE at(k) \in Nat
    OBVIOUS
  <2>1. waiters[k] \in Waiter /\ phase[waiters[k].task] = "waiting"
    BY DEF Typed, Queued
  <2> QED BY <2>1, PackagesAssumption DEF Typed, Alive, Waiting, Waiter
<1> HIDE DEF at, ks
<1>3. PICK p \in {at(k) : k \in ks} : \A q \in {at(k) : k \in ks} : p <= q
  BY <1>1, <1>2, MinNat
<1>4. PICK k \in {l \in ks : at(l) = p} : \A l \in {l \in ks : at(l) = p} : k <= l
  BY <1>1, <1>3, MinNat
<1>5. \A l \in ks : at(k) < at(l) \/ (at(k) = at(l) /\ k <= l)
  BY <1>2, <1>3, <1>4
<1>6. \E n \in ks : \A l \in ks : at(n) < at(l) \/ (at(n) = at(l) /\ n <= l)
  BY <1>4, <1>5
<1> QED BY <1>6 DEF First, at, ks

LEMMA HoldersFinite ==
  /\ IsFiniteSet(Holders) /\ Cardinality(Holders) \in Nat
  /\ IsFiniteSet(Holders') /\ Cardinality(Holders') \in Nat
<1>1. Holders \in SUBSET Tasks /\ Holders' \in SUBSET Tasks
  BY DEF Holders
<1> QED BY <1>1, TasksAssumption, FS_Subset, FS_CardinalityType

-----------------------------------------------------------------------------
(* What the slots do. *)

\* What SlotsInv says of the slots alone.
SlotsRight ==
  /\ active \in Nat
  /\ waiters \in Seq(Waiter)
  /\ phase \in [Tasks -> Phases]
  /\ Queued /\ SlotsNeverLeak

\* Nobody but t begins or ends; whoever waits may be woken.
Others(t) ==
  \A u \in Tasks \ {t} :
    phase'[u] = phase[u] \/ (phase[u] = "waiting" /\ phase'[u] = "started")

LEMMA AcquireSlotRight ==
  ASSUME Typed, Queued, SlotsNeverLeak, NEW t \in Tasks, phase[t] = "free", AcquireSlot(t)
  PROVE  SlotsRight' /\ Others(t) /\ phase'[t] \in {"waiting", "started"}
<1>1. CASE /\ active' = active + 1
           /\ phase' = [phase EXCEPT ![t] = "started"]
           /\ UNCHANGED waiters
  <2>1. /\ phase' \in [Tasks -> Phases] /\ phase'[t] = "started"
        /\ \A u \in Tasks \ {t} : phase'[u] = phase[u]
        /\ active' \in Nat /\ waiters' \in Seq(Waiter)
    BY <1>1 DEF Typed, Phases
  <2>2. Holders' = Holders \union {t} /\ t \notin Holders
    BY <2>1 DEF Holders
  <2>3. SlotsNeverLeak'
    <3>1. Cardinality(Holders') = Cardinality(Holders) + 1
      BY <2>2, HoldersFinite, FS_AddElement
    <3>2. active' = active + 1 /\ active <= Cardinality(Holders) /\ active \in Nat
      BY <1>1 DEF SlotsNeverLeak, Typed
    <3> QED BY <3>1, <3>2, HoldersFinite DEF SlotsNeverLeak
  <2>4. \A k \in 1..Len(waiters) : waiters[k].task \in Tasks \ {t}
    BY WaiterWaits
  <2>5. Waiting' = Waiting
    BY <2>1 DEF Waiting
  <2>6. Queued'
    BY <1>1, <2>1, <2>4, <2>5 DEF Queued
  <2> QED BY <2>1, <2>3, <2>6 DEF SlotsRight, Others
<1>2. CASE /\ waiters' = Append(waiters, [task |-> t, limit |-> limit])
           /\ phase' = [phase EXCEPT ![t] = "waiting"]
           /\ UNCHANGED active
  <2> DEFINE w == [task |-> t, limit |-> limit]
             n == Len(waiters)
  <2>1. /\ phase' \in [Tasks -> Phases] /\ phase'[t] = "waiting"
        /\ \A u \in Tasks \ {t} : phase'[u] = phase[u]
        /\ active' \in Nat
    BY <1>2 DEF Typed, Phases
  <2>2. w \in Waiter /\ w.task = t /\ n \in Nat
    BY DEF Typed, Waiter
  <2>3. /\ waiters' = Append(waiters, w) /\ waiters' \in Seq(Waiter)
        /\ Len(waiters') = n + 1 /\ waiters'[n + 1] = w
        /\ \A k \in 1..n : waiters'[k] = waiters[k]
    BY <1>2, <2>2 DEF Typed
  <2> HIDE DEF w
  <2>4. Holders' = Holders
    BY <2>1 DEF Holders
  <2>5. SlotsNeverLeak'
    BY <1>2, <2>4 DEF SlotsNeverLeak
  <2>6. \A k \in 1..n : waiters[k].task \in Tasks \ {t}
    BY WaiterWaits
  <2>7. Waiting' = Waiting \union {t}
    BY <2>1 DEF Waiting
  <2>8. \A k \in 1..(n + 1) : waiters'[k].task = IF k = n + 1 THEN t ELSE waiters[k].task
    BY <2>2, <2>3
  <2>9. Queued'
    <3>1. \A k \in 1..Len(waiters') : phase'[waiters'[k].task] = "waiting"
      BY <2>1, <2>2, <2>3, <2>6, <2>8 DEF Queued
    <3>2. \A k, l \in 1..Len(waiters') : waiters'[k].task = waiters'[l].task => k = l
      BY <2>2, <2>3, <2>6, <2>8 DEF Queued
    <3>3. \A u \in Waiting' : \E k \in 1..Len(waiters') : waiters'[k].task = u
      <4> SUFFICES ASSUME NEW u \in Waiting' PROVE \E k \in 1..Len(waiters') : waiters'[k].task = u
        OBVIOUS
      <4>1. CASE u = t
        BY <2>2, <2>3, <2>8, <4>1
      <4>2. CASE u \in Waiting
        BY <2>2, <2>3, <2>8, <4>2 DEF Queued
      <4> QED BY <2>7, <4>1, <4>2
    <3> QED BY <3>1, <3>2, <3>3 DEF Queued
  <2> QED BY <2>1, <2>3, <2>5, <2>9 DEF SlotsRight, Others
<1> QED BY <1>1, <1>2 DEF AcquireSlot

LEMMA ReleaseSlotRight ==
  ASSUME Typed, Queued, SlotsNeverLeak, NEW t \in Tasks, phase[t] = "working", ReleaseSlot(t)
  PROVE  SlotsRight' /\ Others(t) /\ phase'[t] = "free"
<1>1. CASE active <= 0 \/ waiters = <<>>
  <2>1. /\ active' = IF active <= 0 THEN 0 ELSE active - 1
        /\ phase' = [phase EXCEPT ![t] = "free"]
        /\ UNCHANGED waiters
    BY <1>1 DEF ReleaseSlot
  <2>2. /\ phase' \in [Tasks -> Phases] /\ phase'[t] = "free"
        /\ \A u \in Tasks \ {t} : phase'[u] = phase[u]
        /\ active' \in Nat /\ waiters' \in Seq(Waiter)
    BY <2>1 DEF Typed, Phases
  <2>3. Holders' = Holders \ {t} /\ t \in Holders
    BY <2>2 DEF Holders
  <2>4. SlotsNeverLeak'
    <3>1. Cardinality(Holders') = Cardinality(Holders) - 1
      BY <2>3, HoldersFinite, FS_RemoveElement
    <3>2. active <= Cardinality(Holders) /\ active \in Nat
      BY DEF SlotsNeverLeak, Typed
    <3> QED BY <2>1, <3>1, <3>2, HoldersFinite DEF SlotsNeverLeak
  <2>5. \A k \in 1..Len(waiters) : waiters[k].task \in Tasks \ {t}
    BY WaiterWaits
  <2>6. Waiting' = Waiting
    BY <2>2 DEF Waiting
  <2>7. Queued'
    BY <2>1, <2>2, <2>5, <2>6 DEF Queued
  <2> QED BY <2>2, <2>4, <2>7 DEF SlotsRight, Others
<1>2. CASE ~(active <= 0 \/ waiters = <<>>)
  <2> DEFINE n == Len(waiters)
             next == waiters[First]
             u == next.task
  <2>1. First \in 1..n /\ n \in Nat
    BY <1>2, FirstWaits DEF Typed
  <2>2. /\ active' = IF active - 1 < next.limit THEN active ELSE active - 1
        /\ waiters' = RemoveAt(waiters, First)
        /\ phase' = [phase EXCEPT ![t] = "free", ![u] = "started"]
    BY <1>2 DEF ReleaseSlot
  <2>3. u \in Tasks /\ phase[u] = "waiting" /\ u # t
    BY <2>1, WaiterWaits
  <2>4. /\ phase' \in [Tasks -> Phases] /\ phase'[t] = "free" /\ phase'[u] = "started"
        /\ \A v \in Tasks \ {t, u} : phase'[v] = phase[v]
    BY <2>2, <2>3 DEF Typed, Phases
  <2>5. active' \in Nat /\ active' <= active
    BY <1>2, <2>2 DEF Typed
  <2>6. /\ waiters' \in Seq(Waiter) /\ Len(waiters') = n - 1
        /\ \A k \in 1..(n - 1) : waiters'[k] = IF k < First THEN waiters[k] ELSE waiters[k + 1]
    BY <2>1, <2>2, RemovedAt DEF Typed
  <2>7. SlotsNeverLeak'
    <3>1. Holders' = (Holders \ {t}) \union {u} /\ t \in Holders /\ u \notin Holders
      BY <2>3, <2>4 DEF Holders
    <3>2. /\ IsFiniteSet(Holders \ {t}) /\ Cardinality(Holders \ {t}) = Cardinality(Holders) - 1
      BY <3>1, HoldersFinite, FS_RemoveElement
    <3>3. Cardinality((Holders \ {t}) \union {u}) = Cardinality(Holders \ {t}) + 1
      BY <3>1, <3>2, FS_AddElement
    <3> QED BY <2>5, <3>1, <3>2, <3>3, HoldersFinite DEF SlotsNeverLeak, Typed
  <2>8. Queued'
    <3>1. \A k \in 1..(n - 1) : \E l \in 1..n : l # First /\ waiters'[k] = waiters[l]
      BY <2>1, <2>6
    <3>2. \A l \in 1..n : l # First => waiters[l].task \in Tasks \ {t, u}
      BY <2>1, WaiterWaits DEF Queued
    <3>3. \A k \in 1..Len(waiters') : phase'[waiters'[k].task] = "waiting"
      BY <2>4, <2>6, <3>1, <3>2 DEF Queued
    <3>4. ASSUME NEW k \in 1..Len(waiters'), NEW l \in 1..Len(waiters'),
                 waiters'[k].task = waiters'[l].task
          PROVE  k = l
      <4>1. ASSUME NEW m \in 1..Len(waiters')
            PROVE  \E i \in 1..n : /\ waiters'[m] = waiters[i]
                                  /\ i = IF m < First THEN m ELSE m + 1
        BY <2>1, <2>6
      <4>2. PICK i \in 1..n : waiters'[k] = waiters[i] /\ i = IF k < First THEN k ELSE k + 1
        BY <4>1
      <4>3. PICK j \in 1..n : waiters'[l] = waiters[j] /\ j = IF l < First THEN l ELSE l + 1
        BY <4>1
      <4>4. i = j
        BY <3>4, <4>2, <4>3 DEF Queued
      <4> QED BY <2>1, <4>2, <4>3, <4>4
    <3>5. ASSUME NEW v \in Waiting' PROVE \E k \in 1..Len(waiters') : waiters'[k].task = v
      <4>1. v \in Waiting /\ v # u
        BY <2>3, <2>4 DEF Waiting
      <4>2. PICK l \in 1..n : waiters[l].task = v /\ l # First
        BY <4>1 DEF Queued
      <4>3. CASE l < First
        BY <2>1, <2>6, <4>2, <4>3
      <4>4. CASE l > First
        <5>1. l - 1 \in 1..(n - 1) /\ waiters'[l - 1] = waiters[l]
          BY <2>1, <2>6, <4>4
        <5> QED BY <2>6, <4>2, <5>1
      <4> QED BY <2>1, <4>2, <4>3, <4>4
    <3> QED BY <3>3, <3>4, <3>5 DEF Queued
  <2> HIDE DEF u
  <2> QED BY <2>3, <2>4, <2>5, <2>6, <2>7, <2>8 DEF SlotsRight, Others
<1> QED BY <1>1, <1>2

\* No more count themselves than wait, and they all hold a slot afterwards.
LEMMA SlotsResetRight ==
  ASSUME Typed, Queued, SlotsReset
  PROVE  /\ SlotsRight'
         /\ \A u \in Tasks :
              phase'[u] = phase[u] \/ (phase[u] = "waiting" /\ phase'[u] = "started")
<1>1. PICK ks \in Counted : active' = Cardinality(ks)
  BY DEF SlotsReset
<1>2. waiters' = <<>> /\ phase' = [t \in Tasks |-> IF phase[t] = "waiting" THEN "started" ELSE phase[t]]
  BY DEF SlotsReset
<1>3. /\ phase' \in [Tasks -> Phases] /\ Waiting' = {} /\ Waiting \subseteq Holders'
      /\ \A u \in Tasks :
           phase'[u] = phase[u] \/ (phase[u] = "waiting" /\ phase'[u] = "started")
  BY <1>2 DEF Typed, Phases, Waiting, Holders
<1>4. waiters' \in Seq(Waiter) /\ Len(waiters') = 0
  BY <1>2
<1>5. ks \subseteq 1..Len(waiters) /\ Len(waiters) \in Nat
  BY <1>1 DEF Counted, Typed
<1>6. IsFiniteSet(ks) /\ Cardinality(ks) \in Nat
  <2>1. IsFiniteSet(1..Len(waiters))
    BY <1>5, FS_Interval
  <2> QED BY <1>5, <2>1, FS_Subset, FS_CardinalityType
<1>7. Cardinality(ks) <= Cardinality(Holders')
  <2> DEFINE f == [k \in ks |-> waiters[k].task]
  <2>1. \A k \in ks : waiters[k].task \in Holders'
    BY <1>3, <1>5, WaiterWaits DEF Waiting
  <2>2. f \in Injection(ks, Holders')
    BY <1>5, <2>1 DEF Queued, Injection, IsInjective
  <2> HIDE DEF f
  <2> QED BY <2>2, HoldersFinite, FS_Injection
<1>8. Queued'
  BY <1>3, <1>4 DEF Queued
<1> QED BY <1>1, <1>3, <1>4, <1>6, <1>7, <1>8 DEF SlotsRight, SlotsNeverLeak

-----------------------------------------------------------------------------
(* The tasks and the records of the packages. *)

\* Only the orders change.
LEMMA OrdersKeep ==
  ASSUME SlotsInv, UNCHANGED <<slots, phase, pkg, aborted, current, resets>>,
         requeue' \subseteq Packages
  PROVE  SlotsInv'
<1>1. UNCHANGED <<limit, active, waiters, phase, pkg, aborted, current, resets>>
  BY DEF slots
<1>2. Alive' = Alive /\ Waiting' = Waiting /\ Holders' = Holders
  BY <1>1 DEF Alive, Waiting, Holders
<1>3. Typed'
  BY <1>1, <1>2 DEF SlotsInv, Typed
<1>4. Queued' /\ SlotsNeverLeak' /\ RecordIsAlive' /\ NoOrphan'
  BY <1>1, <1>2 DEF SlotsInv, Queued, SlotsNeverLeak, RecordIsAlive, NoOrphan
<1> QED BY <1>3, <1>4 DEF SlotsInv

LEMMA RunKeeps ==
  ASSUME SlotsInv, NEW p \in Packages, RunPostProcessing(p)
  PROVE  SlotsInv'
<1>1. CASE /\ current[p] # NoTask
           /\ requeue' = requeue \union {p}
           /\ UNCHANGED <<slots, phase, pkg, aborted, current, resets>>
  BY <1>1, OrdersKeep DEF SlotsInv, Typed
<1>2. ASSUME NEW t \in Tasks, current[p] = NoTask, phase[t] = "free", AcquireSlot(t),
             pkg' = [pkg EXCEPT ![t] = p], current' = [current EXCEPT ![p] = t],
             UNCHANGED <<limit, aborted, requeue, resets>>
      PROVE  SlotsInv'
  <2>1. SlotsRight' /\ Others(t) /\ phase'[t] \in {"waiting", "started"}
    BY <1>2, AcquireSlotRight DEF SlotsInv
  <2>2. Alive' = Alive \union {t} /\ t \notin Alive
    BY <1>2, <2>1 DEF Others, Alive, Waiting, Holders
  <2>3. /\ pkg' \in [Tasks -> Packages \union {Nowhere}] /\ pkg'[t] = p
        /\ \A u \in Tasks \ {t} : pkg'[u] = pkg[u]
    BY <1>2 DEF SlotsInv, Typed
  <2>4. /\ current' \in [Packages -> Tasks \union {NoTask}] /\ current'[p] = t
        /\ \A q \in Packages \ {p} : current'[q] = current[q]
    BY <1>2 DEF SlotsInv, Typed
  <2>5. Typed'
    <3>1. \A u \in Alive' : pkg'[u] \in Packages
      BY <2>2, <2>3 DEF SlotsInv, Typed, Alive, Waiting, Holders
    <3> QED BY <1>2, <2>1, <2>2, <2>3, <2>4, <3>1 DEF SlotsInv, Typed, SlotsRight
  <2>6. RecordIsAlive'
    BY <2>2, <2>3, <2>4, NoTaskAssumption DEF SlotsInv, Typed, RecordIsAlive, Alive, Waiting, Holders
  <2>7. NoOrphan'
    <3> SUFFICES ASSUME NEW u \in Alive' \ aborted' PROVE current'[pkg'[u]] = u
      BY DEF NoOrphan
    <3>1. CASE u = t
      BY <2>3, <2>4, <3>1
    <3>2. CASE u # t
      <4>1. u \in Alive \ aborted /\ u \in Tasks
        BY <1>2, <2>2, <3>2 DEF Alive, Waiting, Holders
      <4>2. current[pkg[u]] = u /\ pkg[u] \in Packages /\ pkg[u] # p
        BY <1>2, <4>1, NoTaskAssumption DEF SlotsInv, NoOrphan, Typed
      <4> QED BY <2>3, <2>4, <3>2, <4>1, <4>2
    <3> QED BY <3>1, <3>2
  <2> QED BY <2>1, <2>5, <2>6, <2>7 DEF SlotsInv, SlotsRight
<1> QED BY <1>1, <1>2 DEF RunPostProcessing

LEMMA FirstRoundKeeps ==
  ASSUME SlotsInv, NEW t \in Tasks, FirstRound(t)
  PROVE  SlotsInv'
<1>1. UNCHANGED <<limit, active, waiters, pkg, aborted, current, resets>>
  BY DEF FirstRound, slots
<1>2. /\ phase' \in [Tasks -> Phases] /\ phase[t] = "started" /\ phase'[t] = "working"
      /\ \A u \in Tasks \ {t} : phase'[u] = phase[u]
  BY DEF FirstRound, SlotsInv, Typed, Phases
<1>3. Alive' = Alive /\ Waiting' = Waiting /\ Holders' = Holders
  BY <1>2 DEF Alive, Waiting, Holders
<1>4. requeue' \subseteq Packages
  BY DEF FirstRound, SlotsInv, Typed
<1>5. Typed'
  BY <1>1, <1>2, <1>3, <1>4 DEF SlotsInv, Typed
<1>6. Queued'
  <2>1. \A k \in 1..Len(waiters) : waiters[k].task \in Tasks \ {t}
    BY <1>2, WaiterWaits DEF SlotsInv
  <2> QED BY <1>1, <1>2, <1>3, <2>1 DEF SlotsInv, Queued
<1>7. SlotsNeverLeak' /\ RecordIsAlive' /\ NoOrphan'
  BY <1>1, <1>3 DEF SlotsInv, SlotsNeverLeak, RecordIsAlive, NoOrphan
<1> QED BY <1>5, <1>6, <1>7 DEF SlotsInv

\* The task that ends takes its own record away, and no other.
LEMMA TaskEndsKeeps ==
  ASSUME SlotsInv, NEW t \in Tasks, TaskEnds(t)
  PROVE  SlotsInv'
<1> DEFINE p == pkg[t]
<1>1. phase[t] = "working" /\ t \in Alive /\ p \in Packages
  BY DEF TaskEnds, SlotsInv, Typed, Alive, Holders
<1>2. SlotsRight' /\ Others(t) /\ phase'[t] = "free"
  BY <1>1, ReleaseSlotRight DEF TaskEnds, SlotsInv
<1>3. Alive' = Alive \ {t}
  BY <1>2 DEF Others, Alive, Waiting, Holders
<1>4. /\ pkg' \in [Tasks -> Packages \union {Nowhere}]
      /\ \A u \in Tasks \ {t} : pkg'[u] = pkg[u]
  BY DEF TaskEnds, Leaves, SlotsInv, Typed
<1>5. /\ current' \in [Packages -> Tasks \union {NoTask}]
      /\ current'[p] = IF current[p] = t THEN NoTask ELSE current[p]
      /\ \A q \in Packages \ {p} : current'[q] = current[q]
  BY <1>1 DEF TaskEnds, SlotsInv, Typed
<1>6. /\ aborted' = aborted \ {t} /\ requeue' = requeue \ {p}
      /\ limit' = limit /\ resets' = resets
  BY DEF TaskEnds
<1> HIDE DEF p
<1>7. Typed'
  <2>1. \A u \in Alive' : pkg'[u] \in Packages
    BY <1>3, <1>4 DEF SlotsInv, Typed, Alive, Waiting, Holders
  <2>2. aborted' \subseteq Alive' /\ requeue' \subseteq Packages
    BY <1>3, <1>6 DEF SlotsInv, Typed
  <2> QED BY <1>2, <1>4, <1>5, <1>6, <2>1, <2>2 DEF SlotsInv, Typed, SlotsRight
<1>8. \A q \in Packages : current'[q] # NoTask => current'[q] = current[q] /\ current[q] # t
  <2> SUFFICES ASSUME NEW q \in Packages, current'[q] # NoTask
               PROVE  current'[q] = current[q] /\ current[q] # t
    OBVIOUS
  <2>1. CASE q = p
    BY <1>5, <2>1
  <2>2. CASE q # p
    BY <1>5, <2>2 DEF SlotsInv, RecordIsAlive, p
  <2> QED BY <2>1, <2>2
<1>9. RecordIsAlive'
  BY <1>3, <1>4, <1>8 DEF SlotsInv, RecordIsAlive, Alive, Waiting, Holders
<1>10. NoOrphan'
  <2> SUFFICES ASSUME NEW u \in Alive' \ aborted' PROVE current'[pkg'[u]] = u
    BY DEF NoOrphan
  <2>1. u \in Alive \ aborted /\ u \in Tasks \ {t}
    BY <1>3, <1>6 DEF Alive, Waiting, Holders
  <2>2. current[pkg[u]] = u /\ pkg[u] \in Packages /\ pkg'[u] = pkg[u]
    BY <1>4, <2>1 DEF SlotsInv, NoOrphan, Typed
  <2> QED BY <1>5, <2>1, <2>2
<1> QED BY <1>2, <1>7, <1>9, <1>10 DEF SlotsInv, SlotsRight

LEMMA AbortKeeps ==
  ASSUME SlotsInv, NEW p \in Packages, AbortPackage(p)
  PROVE  SlotsInv'
<1>1. UNCHANGED <<limit, active, waiters, phase, pkg, resets>>
  BY DEF AbortPackage, slots
<1>2. Alive' = Alive /\ Waiting' = Waiting /\ Holders' = Holders
  BY <1>1 DEF Alive, Waiting, Holders
<1>3. /\ current' \in [Packages -> Tasks \union {NoTask}] /\ current'[p] = NoTask
      /\ \A q \in Packages \ {p} : current'[q] = current[q]
      /\ aborted' = aborted \union {current[p]} /\ requeue' = requeue \ {p}
      /\ current[p] \in Alive
  BY DEF AbortPackage, SlotsInv, Typed, RecordIsAlive
<1>4. Typed'
  BY <1>1, <1>2, <1>3 DEF SlotsInv, Typed
<1>5. Queued' /\ SlotsNeverLeak'
  BY <1>1, <1>2 DEF SlotsInv, Queued, SlotsNeverLeak
<1>6. RecordIsAlive'
  BY <1>1, <1>2, <1>3 DEF SlotsInv, RecordIsAlive
<1>7. NoOrphan'
  BY <1>1, <1>2, <1>3 DEF SlotsInv, NoOrphan, Typed
<1> QED BY <1>4, <1>5, <1>6, <1>7 DEF SlotsInv

\* A reset gives every waiter a slot, and who is on record is aborted.
LEMMA AbortAllKeeps ==
  ASSUME SlotsInv, AbortAll \/ ClearAll
  PROVE  SlotsInv'
<1>1. /\ SlotsRight'
      /\ \A u \in Tasks :
           phase'[u] = phase[u] \/ (phase[u] = "waiting" /\ phase'[u] = "started")
  BY SlotsResetRight DEF SlotsInv, AbortAll, ClearAll
<1>2. Alive' = Alive
  BY <1>1 DEF Alive, Waiting, Holders
<1>3. /\ aborted' = aborted \union OnRecord /\ OnRecord \subseteq Alive
      /\ UNCHANGED <<limit, pkg>> /\ resets' \in Nat
  <2>1. OnRecord \subseteq Alive
    BY NoTaskAssumption DEF OnRecord, SlotsInv, RecordIsAlive
  <2> QED BY <2>1 DEF AbortAll, ClearAll, SlotsReset, SlotsInv, Typed
<1>4. /\ current' \in [Packages -> Tasks \union {NoTask}] /\ requeue' \subseteq Packages
      /\ \A p \in Packages : current'[p] # NoTask => current'[p] = current[p]
  BY DEF AbortAll, ClearAll, SlotsInv, Typed
<1>5. Typed'
  BY <1>1, <1>2, <1>3, <1>4 DEF SlotsInv, Typed, SlotsRight
<1>6. RecordIsAlive'
  BY <1>2, <1>3, <1>4 DEF SlotsInv, RecordIsAlive
<1>7. NoOrphan'
  <2> SUFFICES ASSUME NEW u \in Alive' \ aborted' PROVE FALSE
    BY DEF NoOrphan
  <2>1. u \in Alive \ aborted /\ u \notin OnRecord /\ u \in Tasks
    BY <1>2, <1>3 DEF Alive, Waiting, Holders
  <2> QED BY <2>1 DEF SlotsInv, NoOrphan, Typed, OnRecord
<1> QED BY <1>1, <1>5, <1>6, <1>7 DEF SlotsInv, SlotsRight

LEMMA SetLimitKeeps ==
  ASSUME SlotsInv, NEW n \in Limits, SetLimit(n)
  PROVE  SlotsInv'
<1>1. /\ UNCHANGED <<active, waiters, phase, pkg, aborted, current, requeue>>
      /\ limit' \in Limits /\ resets' \in Nat
  BY DEF SetLimit, SlotsInv, Typed
<1>2. Alive' = Alive /\ Waiting' = Waiting /\ Holders' = Holders
  BY <1>1 DEF Alive, Waiting, Holders
<1>3. Typed'
  BY <1>1, <1>2 DEF SlotsInv, Typed
<1>4. Queued' /\ SlotsNeverLeak' /\ RecordIsAlive' /\ NoOrphan'
  BY <1>1, <1>2 DEF SlotsInv, Queued, SlotsNeverLeak, RecordIsAlive, NoOrphan
<1> QED BY <1>3, <1>4 DEF SlotsInv

-----------------------------------------------------------------------------
(* The rounds. *)

\* An order for the package a task works for is there for a task that will take it.
Kept(p) ==
  /\ current[p] # NoTask
  /\ \/ p \in requeue
     \/ phase[current[p]] \in {"waiting", "started"}
     \/ saw[current[p]] \in {"none", "complete"}

\* What is left due was due before, for a package that was kept in order, and the step
\* has changed neither its record nor its work.
LEMMA StillDue ==
  ASSUME RoundsInv, SlotsInv', RoundsTyped',
         \A p \in due' : /\ p \in due /\ work'[p] = work[p]
                         /\ current'[p] = current[p] /\ current[p] \notin aborted'
                         /\ Kept(p)'
  PROVE  RoundsInv'
BY DEF RoundsInv, DueIsOpen, OrderIsKept, Kept

\* Asking for a round makes the order at least as good as it was.
LEMMA RunAnswers ==
  ASSUME RoundsInv, NEW p \in Packages, RunPostProcessing(p), UNCHANGED saw
  PROVE  /\ UNCHANGED aborted
         /\ Kept(p)' /\ (current[p] = NoTask => current'[p] \notin aborted)
         /\ current[p] # NoTask => current'[p] = current[p]
         /\ \A q \in due : /\ current'[q] = current[q] \/ (q = p /\ current[p] = NoTask)
                           /\ Kept(q)'
<1> USE DEF RoundsInv, SlotsInv
<1>1. CASE /\ current[p] # NoTask
           /\ requeue' = requeue \union {p}
           /\ UNCHANGED <<slots, phase, pkg, aborted, current, resets>>
  BY <1>1 DEF OrderIsKept, Kept
<1>2. ASSUME NEW t \in Tasks, current[p] = NoTask, phase[t] = "free", AcquireSlot(t),
             current' = [current EXCEPT ![p] = t],
             UNCHANGED <<limit, aborted, requeue, resets>>
      PROVE  /\ UNCHANGED aborted
             /\ Kept(p)' /\ current'[p] \notin aborted
             /\ \A q \in due : /\ current'[q] = current[q] \/ q = p
                               /\ Kept(q)'
  <2>1. Others(t) /\ phase'[t] \in {"waiting", "started"}
    BY <1>2, AcquireSlotRight
  <2>2. /\ current'[p] = t /\ \A q \in Packages \ {p} : current'[q] = current[q]
        /\ t \notin aborted /\ t # NoTask
    BY <1>2, NoTaskAssumption DEF Typed, Alive, Waiting, Holders
  <2>3. Kept(p)'
    BY <2>1, <2>2 DEF Kept
  <2>4. ASSUME NEW q \in due, q # p PROVE Kept(q)'
    <3>1. q \in Packages /\ Kept(q) /\ current'[q] = current[q]
      BY <2>2, <2>4 DEF RoundsTyped, OrderIsKept, Kept
    <3>2. current[q] \in Tasks \ {t}
      BY <1>2, <3>1 DEF RecordIsAlive, Kept, Alive, Waiting, Holders
    <3> QED BY <1>2, <2>1, <3>1, <3>2 DEF Kept, Others
  <2> QED BY <1>2, <2>2, <2>3, <2>4 DEF RoundsTyped
<1> QED BY <1>1, <1>2 DEF RunPostProcessing

LEMMA AskedKeeps ==
  ASSUME RoundsInv, NEW p \in Packages, ItemDone(p) \/ LastItemDone(p) \/ Trigger(p)
  PROVE  RoundsInv'
<1>1. RunPostProcessing(p) /\ UNCHANGED saw
  BY DEF ItemDone, LastItemDone, Trigger, roundVars
<1>2. SlotsInv'
  BY <1>1, RunKeeps DEF RoundsInv
<1>3. /\ UNCHANGED aborted
      /\ Kept(p)' /\ (current[p] = NoTask => current'[p] \notin aborted)
      /\ current[p] # NoTask => current'[p] = current[p]
      /\ \A q \in due : /\ current'[q] = current[q] \/ (q = p /\ current[p] = NoTask)
                        /\ Kept(q)'
  BY <1>1, RunAnswers
<1>4. \A q \in due : work[q] = "complete" /\ current'[q] \notin aborted' /\ Kept(q)'
  BY <1>3 DEF RoundsInv, DueIsOpen
<1>5. CASE ItemDone(p)
  BY <1>1, <1>2, <1>4, <1>5 DEF ItemDone, roundVars, RoundsInv, RoundsTyped, DueIsOpen, OrderIsKept, Kept
<1>6. CASE LastItemDone(p)
  <2>1. /\ work' \in [Packages -> Works] /\ work'[p] = "complete"
        /\ \A q \in Packages \ {p} : work'[q] = work[q]
        /\ work[p] = "open"
    BY <1>6 DEF LastItemDone, RoundsInv, RoundsTyped, Works
  <2>2. due' = IF current'[p] \in aborted THEN due ELSE due \union {p}
    BY <1>6 DEF LastItemDone
  <2>3. RoundsTyped' /\ due \subseteq Packages
    BY <1>1, <2>1, <2>2 DEF RoundsInv, RoundsTyped
  <2>4. \A q \in due' : work'[q] = "complete" /\ current'[q] \notin aborted' /\ Kept(q)'
    BY <1>3, <1>4, <2>1, <2>2, <2>3
  <2> QED BY <1>2, <2>3, <2>4 DEF RoundsInv, DueIsOpen, OrderIsKept, Kept
<1>7. CASE Trigger(p)
  <2>1. /\ current[p] = NoTask /\ UNCHANGED work /\ work[p] # "unpacked"
        /\ due' = IF work[p] = "open" THEN due ELSE due \union {p}
    BY <1>7 DEF Trigger
  <2>2. RoundsTyped' /\ due \subseteq Packages /\ work[p] \in Works
    BY <1>1, <2>1 DEF RoundsInv, RoundsTyped
  <2>3. \A q \in due' : work'[q] = "complete" /\ current'[q] \notin aborted' /\ Kept(q)'
    BY <1>3, <1>4, <2>1, <2>2 DEF Works
  <2> QED BY <1>2, <2>2, <2>3 DEF RoundsInv, DueIsOpen, OrderIsKept, Kept
<1> QED BY <1>5, <1>6, <1>7

LEMMA RoundBeginsKeeps ==
  ASSUME RoundsInv, NEW t \in Tasks, RoundBegins(t)
  PROVE  RoundsInv'
<1> USE DEF RoundsInv
<1>1. FirstRound(t) /\ SlotsInv' /\ UNCHANGED work
  BY FirstRoundKeeps DEF RoundBegins
<1>2. /\ UNCHANGED <<aborted, current, pkg>> /\ requeue' = requeue \ {pkg[t]}
      /\ phase[t] = "started" /\ t \in Alive /\ t \in Tasks
      /\ \A u \in Tasks \ {t} : phase'[u] = phase[u]
  BY <1>1 DEF FirstRound, SlotsInv, Typed, Alive, Holders
<1>3. /\ saw' \in [Tasks -> Counts] /\ saw'[t] = Begun(t)
      /\ \A u \in Tasks \ {t} : saw'[u] = saw[u]
  BY DEF RoundBegins, RoundsTyped, Begun, Counts
<1>4. due' \subseteq due /\ (t \in aborted /\ pkg[t] \in requeue => pkg[t] \notin due')
  BY DEF RoundBegins, Taken
<1>5. RoundsTyped'
  BY <1>1, <1>3, <1>4 DEF RoundsTyped
<1>6. ASSUME NEW p \in due'
      PROVE  /\ p \in due /\ work'[p] = work[p]
             /\ current'[p] = current[p] /\ current[p] \notin aborted'
             /\ Kept(p)'
  <2>1. p \in due /\ p \in Packages /\ Kept(p) /\ current[p] \notin aborted
    BY <1>4, <1>6 DEF RoundsTyped, OrderIsKept, DueIsOpen, Kept
  <2>2. current[p] \in Tasks /\ pkg[current[p]] = p
    BY <2>1 DEF SlotsInv, RecordIsAlive, Kept, Alive, Waiting, Holders
  <2>3. Kept(p)'
    <3>1. CASE current[p] = t
      BY <1>2, <1>3, <2>1, <3>1 DEF Kept, Begun
    <3>2. CASE current[p] # t
      <4>1. p = pkg[t] => t \in aborted
        BY <1>2, <3>2 DEF SlotsInv, NoOrphan
      <4>2. p \in requeue => p \in requeue'
        BY <1>2, <1>4, <1>6, <4>1
      <4> QED BY <1>2, <1>3, <2>1, <2>2, <3>2, <4>2 DEF Kept
    <3> QED BY <3>1, <3>2
  <2> QED BY <1>1, <1>2, <2>1, <2>3
<1> QED BY <1>1, <1>5, <1>6, StillDue

LEMMA CountKeeps ==
  ASSUME RoundsInv, NEW t \in Tasks, CountItems(t)
  PROVE  RoundsInv'
<1> USE DEF RoundsInv
<1>1. UNCHANGED <<vars, work, due>>
  BY DEF CountItems
<1>2. UNCHANGED <<limit, active, waiters, phase, pkg, aborted, current, requeue, resets, work, due>>
  BY <1>1 DEF vars, slots
<1>3. SlotsInv'
  BY <1>2, OrdersKeep DEF slots, SlotsInv, Typed
<1>4. /\ phase[t] = "working" /\ saw[t] = "none" /\ saw' \in [Tasks -> Counts]
      /\ saw'[t] = CASE work[pkg[t]] = "open" -> "open"
                     [] work[pkg[t]] = "unpacked" -> "over"
                     [] OTHER -> "complete"
      /\ \A u \in Tasks \ {t} : saw'[u] = saw[u]
  BY DEF CountItems, RoundsTyped, Counts
<1>5. RoundsTyped'
  BY <1>2, <1>4 DEF RoundsTyped
<1>6. ASSUME NEW p \in due PROVE Kept(p)'
  <2>1. p \in Packages /\ Kept(p) /\ work[p] = "complete"
    BY DEF RoundsTyped, OrderIsKept, DueIsOpen, Kept
  <2>2. current[p] \in Tasks /\ pkg[current[p]] = p
    BY <2>1 DEF SlotsInv, RecordIsAlive, Kept, Alive, Waiting, Holders
  <2>3. CASE current[p] = t
    BY <1>2, <1>4, <2>1, <2>2, <2>3 DEF Kept
  <2>4. CASE current[p] # t
    BY <1>2, <1>4, <2>1, <2>2, <2>4 DEF Kept
  <2> QED BY <2>3, <2>4
<1> QED BY <1>2, <1>3, <1>5, <1>6, StillDue DEF DueIsOpen

\* An aborted task that takes an order takes what is due with it; one that has not been
\* aborted is the one on record.
LEMMA RoundEndsKeeps ==
  ASSUME RoundsInv, NEW t \in Tasks, RoundEnds(t)
  PROVE  RoundsInv'
<1> USE DEF RoundsInv
<1> DEFINE p == pkg[t]
<1>1. phase[t] = "working" /\ saw[t] # "none" /\ t \in Alive /\ p \in Packages
  BY DEF RoundEnds, SlotsInv, Typed, Alive, Holders
<1>2. PICK outcome \in Outcomes(t), more \in SelfOrdered(t) :
        /\ work' = [work EXCEPT ![p] = outcome]
        /\ \E again \in Ended(t, more \/ p \in requeue, outcome) :
             IF again
             THEN /\ requeue' = requeue \ {p}
                  /\ saw' = [saw EXCEPT ![t] = Begun(t)]
                  /\ due' = IF outcome # "complete" THEN due \ {p} ELSE Taken(t)
                  /\ UNCHANGED <<slots, phase, pkg, aborted, current, resets>>
             ELSE /\ TaskEnds(t)
                  /\ saw' = [saw EXCEPT ![t] = "none"]
                  /\ due' = IF outcome # "complete" \/ Answered(t) THEN due \ {p} ELSE due
  BY DEF RoundEnds
<1>3. /\ work' \in [Packages -> Works] /\ work'[p] = outcome
      /\ \A q \in Packages \ {p} : work'[q] = work[q]
  <2>1. outcome \in Works
    BY <1>1 DEF Outcomes, RoundsTyped, Works
  <2> QED BY <1>1, <1>2, <2>1 DEF RoundsTyped
<1>4. t \notin aborted => current[p] = t
  BY <1>1 DEF SlotsInv, NoOrphan
<1>5. ASSUME NEW q \in due
      PROVE  /\ q \in Packages /\ Kept(q) /\ work[q] = "complete" /\ current[q] \notin aborted
             /\ current[q] \in Tasks /\ pkg[current[q]] = q
  <2>1. q \in Packages /\ Kept(q) /\ work[q] = "complete" /\ current[q] \notin aborted
    BY DEF RoundsTyped, OrderIsKept, DueIsOpen, Kept
  <2> QED BY <2>1 DEF SlotsInv, RecordIsAlive, Kept, Alive, Waiting, Holders
<1>6. CASE /\ requeue' = requeue \ {p}
           /\ saw' = [saw EXCEPT ![t] = Begun(t)]
           /\ due' = IF outcome # "complete" THEN due \ {p} ELSE Taken(t)
           /\ UNCHANGED <<slots, phase, pkg, aborted, current, resets>>
  <2>1. SlotsInv'
    BY <1>6, OrdersKeep DEF SlotsInv, Typed
  <2>2. /\ saw' \in [Tasks -> Counts] /\ saw'[t] = Begun(t)
        /\ \A u \in Tasks \ {t} : saw'[u] = saw[u]
    BY <1>6 DEF RoundsTyped, Begun, Counts
  <2>3. /\ due' \subseteq due /\ (p \in due' => outcome = "complete")
        /\ t \in aborted /\ p \in requeue => p \notin due'
    BY <1>6 DEF Taken
  <2>4. RoundsTyped'
    BY <1>3, <2>2, <2>3 DEF RoundsTyped
  <2>5. ASSUME NEW q \in due'
        PROVE  /\ q \in due /\ work'[q] = work[q]
               /\ current'[q] = current[q] /\ current[q] \notin aborted'
               /\ Kept(q)'
    <3>1. q \in due /\ work'[q] = work[q]
      BY <1>3, <1>5, <2>3, <2>5
    <3>2. CASE current[q] = t
      <4>1. saw'[t] = "none"
        BY <1>5, <2>2, <3>1, <3>2 DEF Begun
      <4> QED BY <1>5, <1>6, <3>1, <3>2, <4>1 DEF Kept
    <3>3. CASE current[q] # t
      <4>1. q = p => t \in aborted
        BY <1>4, <3>3
      <4>2. q \in requeue => q \in requeue'
        BY <1>6, <2>3, <2>5, <4>1
      <4> QED BY <1>5, <1>6, <2>2, <3>1, <3>3, <4>2 DEF Kept
    <3> QED BY <1>5, <1>6, <3>1, <3>2, <3>3
  <2> QED BY <2>1, <2>4, <2>5, StillDue
<1>7. CASE /\ TaskEnds(t)
           /\ ~(more \/ p \in requeue) \/ outcome = "open"
           /\ saw' = [saw EXCEPT ![t] = "none"]
           /\ due' = IF outcome # "complete" \/ Answered(t) THEN due \ {p} ELSE due
  <2>1. SlotsInv'
    BY <1>7, TaskEndsKeeps DEF SlotsInv
  <2>2. /\ saw' \in [Tasks -> Counts]
        /\ \A u \in Tasks \ {t} : saw'[u] = saw[u]
    BY <1>7 DEF RoundsTyped, Counts
  <2>3. /\ Others(t) /\ aborted' = aborted \ {t} /\ requeue' = requeue \ {p}
        /\ \A q \in Packages : current[q] # t => current'[q] = current[q]
    BY <1>1, <1>7, ReleaseSlotRight DEF TaskEnds, SlotsInv, Typed
  <2>4. /\ due' \subseteq due /\ (p \in due' => outcome = "complete" /\ ~Answered(t))
    BY <1>7
  <2>5. RoundsTyped'
    BY <1>3, <2>2, <2>4 DEF RoundsTyped
  <2>6. ASSUME NEW q \in due'
        PROVE  /\ q \in due /\ work'[q] = work[q]
               /\ current'[q] = current[q] /\ current[q] \notin aborted'
               /\ Kept(q)'
    <3>1. q \in due /\ work'[q] = work[q]
      BY <1>3, <1>5, <2>4, <2>6
    <3>2. q = p => q \notin requeue
      BY <1>7, <2>4, <2>6
    <3>3. current[q] # t
      <4> SUFFICES ASSUME current[q] = t PROVE FALSE
        OBVIOUS
      <4>1. q = p /\ saw[t] = "complete"
        BY <1>1, <1>5, <3>1, <3>2 DEF Kept
      <4> QED BY <2>4, <2>6, <4>1 DEF Answered
    <3>4. current'[q] = current[q] /\ current[q] \in Tasks \ {t}
      BY <1>5, <2>3, <3>1, <3>3
    <3>5. /\ phase[current[q]] \in {"waiting", "started"}
             => phase'[current[q]] \in {"waiting", "started"}
          /\ saw'[current[q]] = saw[current[q]] /\ (q \in requeue => q \in requeue')
      BY <2>2, <2>3, <3>2, <3>4 DEF Others
    <3> QED BY <1>5, <2>3, <3>1, <3>4, <3>5 DEF Kept
  <2> QED BY <2>1, <2>5, <2>6, StillDue
<1>8. Ended(t, more \/ p \in requeue, outcome) \subseteq BOOLEAN
      /\ (FALSE \in Ended(t, more \/ p \in requeue, outcome)
            => ~(more \/ p \in requeue) \/ outcome = "open")
  BY DEF Ended
<1> HIDE DEF p
<1> QED BY <1>2, <1>6, <1>7, <1>8

LEMMA WithdrawKeeps ==
  ASSUME RoundsInv, NEW p \in Packages, Withdraw(p)
  PROVE  RoundsInv'
<1> USE DEF RoundsInv
<1>1. SlotsInv'
  BY AbortKeeps DEF Withdraw
<1>2. /\ aborted' = aborted \union {current[p]} /\ current[p] # NoTask
      /\ \A q \in Packages \ {p} : current'[q] = current[q]
      /\ requeue' = requeue \ {p} /\ UNCHANGED <<phase, saw>> /\ due' = due \ {p}
  BY DEF Withdraw, AbortPackage, SlotsInv, Typed
<1>3. /\ work' \in [Packages -> Works]
      /\ \A q \in Packages \ {p} : work'[q] = work[q]
  BY DEF Withdraw, RoundsTyped, Works
<1>4. RoundsTyped'
  BY <1>2, <1>3 DEF RoundsTyped
<1>5. ASSUME NEW q \in due'
      PROVE  /\ q \in due /\ work'[q] = work[q]
             /\ current'[q] = current[q] /\ current[q] \notin aborted'
             /\ Kept(q)'
  <2>1. q \in due /\ q \in Packages \ {p} /\ Kept(q) /\ current[q] \notin aborted
    BY <1>2 DEF RoundsTyped, OrderIsKept, DueIsOpen, Kept
  <2>2. current[q] # current[p]
    BY <1>2, <2>1 DEF SlotsInv, RecordIsAlive, Kept
  <2> QED BY <1>2, <1>3, <2>1, <2>2 DEF Kept
<1> QED BY <1>1, <1>4, <1>5, StillDue

LEMMA WithdrawAllKeeps == ASSUME RoundsInv, WithdrawAll PROVE RoundsInv'
<1>1. SlotsInv'
  BY AbortAllKeeps DEF WithdrawAll, RoundsInv
<1>2. due' = {} /\ UNCHANGED saw /\ work' \in [Packages -> Works]
  BY DEF WithdrawAll, RoundsInv, RoundsTyped, Works
<1> QED BY <1>1, <1>2 DEF RoundsInv, RoundsTyped, DueIsOpen, OrderIsKept

LEMMA NothingHappens ==
  ASSUME RoundsInv, SlotsInv', UNCHANGED <<phase, current, aborted, requeue, roundVars>>
  PROVE  RoundsInv'
BY DEF RoundsInv, RoundsTyped, DueIsOpen, OrderIsKept, roundVars

-----------------------------------------------------------------------------
(* The theorems. *)

LEMMA InitRight == ASSUME RoundsInit PROVE RoundsInv
<1>1. /\ limit \in Limits /\ active = 0 /\ waiters = <<>> /\ resets = 0
      /\ phase = [t \in Tasks |-> "free"] /\ pkg = [t \in Tasks |-> Nowhere]
      /\ aborted = {} /\ current = [p \in Packages |-> NoTask] /\ requeue = {}
      /\ work = [p \in Packages |-> "open"] /\ saw = [t \in Tasks |-> "none"] /\ due = {}
  BY DEF RoundsInit, Init
<1>2. Alive = {} /\ Waiting = {} /\ Holders = {}
  BY <1>1 DEF Alive, Waiting, Holders
<1>3. Typed
  BY <1>1, <1>2 DEF Typed, Phases
<1>4. Queued /\ RecordIsAlive /\ NoOrphan
  BY <1>1, <1>2 DEF Queued, RecordIsAlive, NoOrphan
<1>5. SlotsNeverLeak
  BY <1>1, <1>2, FS_EmptySet DEF SlotsNeverLeak
<1>6. RoundsTyped /\ DueIsOpen /\ OrderIsKept
  BY <1>1 DEF RoundsTyped, DueIsOpen, OrderIsKept, Works, Counts
<1> QED BY <1>3, <1>4, <1>5, <1>6 DEF RoundsInv, SlotsInv

LEMMA RoundsInvariant == RoundsSpec => []RoundsInv
<1>1. RoundsInit => RoundsInv
  BY InitRight
<1>2. ASSUME RoundsInv, [RoundsNext]_allVars PROVE RoundsInv'
  <2>1. ASSUME NEW p \in Packages, ItemDone(p) \/ LastItemDone(p) \/ Trigger(p)
        PROVE  RoundsInv'
    BY <1>2, <2>1, AskedKeeps
  <2>2. ASSUME NEW p \in Packages, Withdraw(p) PROVE RoundsInv'
    BY <1>2, <2>2, WithdrawKeeps
  <2>3. ASSUME NEW t \in Tasks, RoundBegins(t) \/ CountItems(t) \/ RoundEnds(t)
        PROVE  RoundsInv'
    BY <1>2, <2>3, RoundBeginsKeeps, CountKeeps, RoundEndsKeeps
  <2>4. CASE WithdrawAll
    BY <1>2, <2>4, WithdrawAllKeeps
  <2>5. ASSUME NEW n \in Limits, SetLimit(n), UNCHANGED roundVars PROVE RoundsInv'
    <3>1. SlotsInv'
      BY <1>2, <2>5, SetLimitKeeps DEF RoundsInv
    <3> QED BY <1>2, <2>5, <3>1, NothingHappens DEF SetLimit
  <2>6. CASE UNCHANGED allVars
    <3>1. UNCHANGED <<slots, phase, pkg, aborted, current, resets, requeue, roundVars>>
      BY <2>6 DEF allVars, vars
    <3>2. SlotsInv'
      BY <1>2, <3>1, OrdersKeep DEF RoundsInv, SlotsInv, Typed
    <3> QED BY <1>2, <3>1, <3>2, NothingHappens
  <2> QED BY <1>2, <2>1, <2>2, <2>3, <2>4, <2>5, <2>6 DEF RoundsNext
<1> QED BY <1>1, <1>2, PTL DEF RoundsSpec

\* packagePostProcessActive never counts more slots than tasks hold: no slot is lost,
\* whatever resets, changed limits and late releases do to the counter.
THEOREM NoSlotIsLost == RoundsSpec => []SlotsNeverLeak
<1>1. RoundsInv => SlotsNeverLeak
  BY DEF RoundsInv, SlotsInv
<1> QED BY <1>1, RoundsInvariant, PTL

\* A task of post-processing that has not been aborted is the one on record for its
\* package, so that the package has no second one and it can be cancelled.
THEOREM NobodyIsOrphaned == RoundsSpec => []NoOrphan
<1>1. RoundsInv => NoOrphan
  BY DEF RoundsInv, SlotsInv
<1> QED BY <1>1, RoundsInvariant, PTL

\* While an order of a completed package is due, the task on record for it has yet to
\* count the items, has counted them as complete, or will begin another round.
THEOREM NoOrderIsLost == RoundsSpec => []OrderIsKept
<1>1. RoundsInv => OrderIsKept
  BY DEF RoundsInv
<1> QED BY <1>1, RoundsInvariant, PTL
=============================================================================

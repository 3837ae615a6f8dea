---------------------- MODULE ExtractionLimiter_proofs ----------------------
(***************************************************************************)
(* Proofs about the extraction limiter for any number of calls, any        *)
(* ceiling and any requested limits.  The heart is DrainRestores: whatever *)
(* state the loop of drain() starts from, it leaves one in which the       *)
(* counter, the queue and the phases agree and no slot is idle.            *)
(***************************************************************************)
EXTENDS ExtractionLimiter, FiniteSetTheorems, SequenceTheorems, TLAPS

\* A queue names every call at most once.
Distinct(queue) ==
  \A i, j \in 1..Len(queue) : queue[i] = queue[j] => i = j

\* What holds of the arguments of every call of drain().
DrainReady(act, lim, queue, ph) ==
  /\ act \in Nat
  /\ lim \in 1..Ceiling
  /\ queue \in Seq(Tasks)
  /\ Distinct(queue)
  /\ ph \in [Tasks -> Phases]
  /\ Elements(queue) = {t \in Tasks : ph[t] = "waiting"}
  /\ act = Cardinality(HoldersIn(ph))

\* Clamping gives a legal limit.
LEMMA ClampRange ==
  ASSUME NEW n \in Int
  PROVE  Clamp(n) \in 1..Ceiling
BY LimiterAssumption DEF Clamp

\* The loop grants no more than there are waiters and free slots, and all of the
\* smaller number.
LEMMA GrantsRange ==
  ASSUME NEW act \in Nat, NEW lim \in Nat, NEW queue \in Seq(Tasks)
  PROVE  /\ Grants(act, lim, queue) \in 0..Len(queue)
         /\ Grants(act, lim, queue) > 0 => act + Grants(act, lim, queue) <= lim
         /\ Grants(act, lim, queue) < Len(queue) => act + Grants(act, lim, queue) >= lim
BY DEF Grants

\* A set of calls is finite.
LEMMA HoldersFinite ==
  ASSUME NEW ph
  PROVE  /\ IsFiniteSet(HoldersIn(ph))
         /\ Cardinality(HoldersIn(ph)) \in Nat
<1>1. HoldersIn(ph) \in SUBSET Tasks
  BY DEF HoldersIn
<1>2. IsFiniteSet(HoldersIn(ph))
  BY <1>1, FS_Subset, LimiterAssumption
<1> QED
  BY <1>2, FS_CardinalityType

\* The first n places of a queue without duplicates hold n calls.
LEMMA FrontCount ==
  ASSUME NEW queue \in Seq(Tasks), Distinct(queue), NEW n \in 0..Len(queue)
  PROVE  /\ IsFiniteSet({queue[i] : i \in 1..n})
         /\ Cardinality({queue[i] : i \in 1..n}) = n
<1> DEFINE S == {queue[i] : i \in 1..n}
           f == [i \in 1..n |-> queue[i]]
<1>1. n \in Nat /\ 1..n \subseteq 1..Len(queue)
  OBVIOUS
<1>2. f \in Bijection(1..n, S)
  <2>1. f \in [1..n -> S]
    OBVIOUS
  <2>2. \A i, j \in 1..n : f[i] = f[j] => i = j
    BY <1>1 DEF Distinct
  <2>3. \A s \in S : \E i \in 1..n : f[i] = s
    OBVIOUS
  <2> QED
    BY <2>1, <2>2, <2>3 DEF Bijection, Injection, Surjection, IsInjective
<1>3. ExistsBijection(1..n, S)
  BY <1>2 DEF ExistsBijection
<1> QED
  BY <1>1, <1>3, FS_NatBijection, FS_CountingElements

-----------------------------------------------------------------------------
(***************************************************************************)
(* The loop of drain(): from arguments that agree it leaves variables that *)
(* agree, it grants only calls that waited, and it stops either at the     *)
(* limit or at an empty queue.                                             *)
(***************************************************************************)
LEMMA DrainRestores ==
  ASSUME NEW act, NEW lim, NEW queue, NEW ph,
         DrainReady(act, lim, queue, ph),
         Drain(act, lim, queue, ph)
  PROVE  /\ DrainReady(active', lim, waiters', phase')
         /\ waiters' # <<>> => active' >= lim
         /\ HoldersIn(ph) \subseteq Holders'
         /\ Holders' \ HoldersIn(ph) \subseteq Elements(queue)
         /\ Holders' # HoldersIn(ph) => active' <= lim
         /\ \A t \in Tasks :
              phase'[t] # ph[t] => ph[t] = "waiting" /\ phase'[t] = "granted"
         /\ \A i, j \in 1..Len(queue) :
              i < j /\ phase'[queue[j]] = "granted" => phase'[queue[i]] # "waiting"
<1> DEFINE n == Grants(act, lim, queue)
           first == {queue[i] : i \in 1..n}
<1> USE DEF DrainReady
<1>1. /\ act \in Nat /\ lim \in Nat /\ queue \in Seq(Tasks) /\ n \in 0..Len(queue)
      /\ n > 0 => act + n <= lim
      /\ n < Len(queue) => act + n >= lim
  BY GrantsRange, LimiterAssumption
<1>2. /\ active' = act + n
      /\ waiters' = SubSeq(queue, n + 1, Len(queue))
      /\ phase' = [t \in Tasks |-> IF t \in first THEN "granted" ELSE ph[t]]
  BY DEF Drain
<1>3. /\ waiters' \in Seq(Tasks)
      /\ Len(waiters') = Len(queue) - n
      /\ \A i \in 1..Len(waiters') : waiters'[i] = queue[n + i]
  <2>1. \A i \in n + 1..Len(queue) : queue[i] \in Tasks
    BY <1>1, ElementOfSeq
  <2>2. n + 1 \in Int /\ Len(queue) \in Int
    BY <1>1
  <2>3. /\ SubSeq(queue, n + 1, Len(queue)) \in Seq(Tasks)
        /\ Len(SubSeq(queue, n + 1, Len(queue)))
             = IF n + 1 <= Len(queue) THEN Len(queue) - (n + 1) + 1 ELSE 0
        /\ \A i \in 1..Len(queue) - (n + 1) + 1 :
             SubSeq(queue, n + 1, Len(queue))[i] = queue[n + 1 + i - 1]
    BY ONLY <2>1, <2>2, SubSeqProperties
  <2> HIDE DEF n
  <2> QED
    BY <1>1, <1>2, <2>3
<1>4. first \subseteq Elements(queue) /\ first \subseteq Tasks
  BY <1>1, ElementOfSeq DEF Elements
<1>5. Elements(waiters') = Elements(queue) \ first
  <2>1. ASSUME NEW i \in 1..Len(waiters')
        PROVE  waiters'[i] \in Elements(queue) \ first
    <3> HIDE DEF n
    <3>1. n + i \in 1..Len(queue) /\ waiters'[i] = queue[n + i] /\ n + i > n
      BY <1>1, <1>3, <2>1
    <3>2. \A j \in 1..n : j \in 1..Len(queue) /\ j # n + i
      BY <1>1, <3>1
    <3>3. \A j \in 1..n : queue[j] # queue[n + i]
      BY <3>1, <3>2 DEF Distinct
    <3> QED
      BY <3>1, <3>3 DEF Elements
  <2>2. ASSUME NEW i \in 1..Len(queue), queue[i] \notin first
        PROVE  \E j \in 1..Len(waiters') : waiters'[j] = queue[i]
    <3>1. i > n
      BY <1>1, <2>2
    <3>2. i - n \in 1..Len(waiters') /\ waiters'[i - n] = queue[i]
      BY <1>1, <1>3, <3>1
    <3> QED
      BY <3>2
  <2> QED
    BY <2>1, <2>2 DEF Elements
<1>6. Distinct(waiters')
  <2> HIDE DEF n
  <2>1. ASSUME NEW i \in 1..Len(waiters'), NEW j \in 1..Len(waiters'),
               waiters'[i] = waiters'[j]
        PROVE  i = j
    <3>1. /\ n + i \in 1..Len(queue) /\ n + j \in 1..Len(queue)
          /\ queue[n + i] = queue[n + j]
      BY <1>1, <1>3, <2>1
    <3>2. n + i = n + j
      BY <3>1 DEF Distinct
    <3> QED
      BY <1>1, <1>3, <3>2
  <2> QED
    BY <2>1 DEF Distinct
<1>7. phase' \in [Tasks -> Phases]
  BY <1>2 DEF Phases
<1>8. Elements(waiters') = {t \in Tasks : phase'[t] = "waiting"}
  BY <1>2, <1>5
<1>9. /\ Holders' = HoldersIn(ph) \union first
      /\ HoldersIn(ph) \intersect first = {}
  BY <1>2, <1>4 DEF Holders, HoldersIn
<1>10. Cardinality(Holders') = act + n
  <2>1. IsFiniteSet(first) /\ Cardinality(first) = n
    BY <1>1, FrontCount
  <2>2. Cardinality(HoldersIn(ph) \intersect first) = 0
    BY <1>9, FS_EmptySet
  <2>3. IsFiniteSet(HoldersIn(ph))
    BY HoldersFinite
  <2>4. Cardinality(HoldersIn(ph) \union first)
          = Cardinality(HoldersIn(ph)) + Cardinality(first)
              - Cardinality(HoldersIn(ph) \intersect first)
    BY <2>1, <2>3, FS_Union
  <2> QED
    BY <1>1, <1>9, <2>1, <2>2, <2>4
<1>11. DrainReady(active', lim, waiters', phase')
  <2>1. active' \in Nat /\ active' = Cardinality(HoldersIn(phase'))
    BY <1>1, <1>2, <1>10 DEF Holders
  <2> QED
    BY <1>3, <1>6, <1>7, <1>8, <2>1
<1>12. waiters' # <<>> => active' >= lim
  BY <1>1, <1>2, <1>3
<1>13. Holders' # HoldersIn(ph) => active' <= lim
  BY <1>1, <1>2, <1>9
<1>14. \A t \in Tasks :
         phase'[t] # ph[t] => ph[t] = "waiting" /\ phase'[t] = "granted"
  BY <1>2, <1>4
<1>15. ASSUME NEW i \in 1..Len(queue), NEW j \in 1..Len(queue),
              i < j, phase'[queue[j]] = "granted"
       PROVE  phase'[queue[i]] # "waiting"
  <2>1. queue[i] \in Tasks /\ queue[j] \in Tasks /\ ph[queue[j]] = "waiting"
    BY <1>1, ElementOfSeq DEF Elements
  <2>2. queue[j] \in first
    BY <1>2, <1>15, <2>1
  <2> HIDE DEF n
  <2>3. PICK m \in 1..n : queue[m] = queue[j]
    BY <2>2
  <2>4. m = j
    BY <1>1, <2>3 DEF Distinct
  <2>5. i \in 1..n
    BY <1>1, <1>15, <2>4
  <2> QED
    BY <1>2, <2>1, <2>5
<1> QED
  BY <1>4, <1>9, <1>11, <1>12, <1>13, <1>14, <1>15

-----------------------------------------------------------------------------
(***************************************************************************)
(* The inductive invariant.  Its last three conjuncts need each other: a   *)
(* release keeps the counter right only because the queue holds no call    *)
(* twice, and no slot idles only because the counter is right.             *)
(***************************************************************************)
IInv ==
  /\ TypeOK
  /\ ActiveCountsHolders
  /\ QueueIsPending
  /\ NoIdleSlot

\* The invariant says that the variables could be handed to drain() as they are.
LEMMA InvariantReady ==
  IInv <=> /\ DrainReady(active, limit, waiters, phase)
           /\ waiters # <<>> => active >= limit
           /\ aborted \subseteq Tasks
BY DEF IInv, TypeOK, ActiveCountsHolders, QueueIsPending, NoIdleSlot,
       DrainReady, Distinct, Waiting, Holders

\* A call enters the queue at its end.
LEMMA JoinReady ==
  ASSUME IInv, NEW t \in Tasks, phase[t] = "new", NEW lim \in 1..Ceiling
  PROVE  /\ DrainReady(active, lim, Append(waiters, t), [phase EXCEPT ![t] = "waiting"])
         /\ HoldersIn([phase EXCEPT ![t] = "waiting"]) = Holders
         /\ Elements(Append(waiters, t)) = Waiting \union {t}
<1> DEFINE q == Append(waiters, t)
           ph == [phase EXCEPT ![t] = "waiting"]
<1>1. DrainReady(active, limit, waiters, phase)
  BY InvariantReady
<1>2. /\ q \in Seq(Tasks) /\ Len(q) = Len(waiters) + 1
      /\ \A i \in 1..Len(waiters) : q[i] = waiters[i]
      /\ q[Len(q)] = t
      /\ Len(waiters) \in Nat
  BY <1>1, AppendProperties, LenProperties DEF DrainReady
<1>3. Elements(q) = Elements(waiters) \union {t}
  <2>1. ASSUME NEW i \in 1..Len(q)
        PROVE  q[i] \in Elements(waiters) \union {t}
    <3>1. i \in 1..Len(waiters) \/ i = Len(q)
      BY <1>2
    <3> QED
      BY <1>2, <3>1 DEF Elements
  <2>2. Elements(waiters) \subseteq Elements(q)
    <3>1. 1..Len(waiters) \subseteq 1..Len(q)
      BY <1>2
    <3> QED
      BY <1>2, <3>1 DEF Elements
  <2>3. t \in Elements(q)
    BY <1>2 DEF Elements
  <2> QED
    BY <2>1, <2>2, <2>3 DEF Elements
<1>4. t \notin Elements(waiters)
  BY <1>1 DEF DrainReady
<1>5. Distinct(q)
  <2>1. ASSUME NEW i \in 1..Len(q), NEW j \in 1..Len(q), q[i] = q[j]
        PROVE  i = j
    <3>1. CASE i \in 1..Len(waiters) /\ j \in 1..Len(waiters)
      BY <1>1, <1>2, <2>1, <3>1 DEF DrainReady, Distinct
    <3>2. CASE i = Len(q) /\ j \in 1..Len(waiters)
      BY <1>2, <1>4, <2>1, <3>2 DEF Elements
    <3>3. CASE j = Len(q) /\ i \in 1..Len(waiters)
      BY <1>2, <1>4, <2>1, <3>3 DEF Elements
    <3> QED
      BY <1>2, <3>1, <3>2, <3>3
  <2> QED
    BY <2>1 DEF Distinct
<1>6. ph \in [Tasks -> Phases]
  BY <1>1 DEF DrainReady, Phases
<1>7. HoldersIn(ph) = HoldersIn(phase)
  BY <1>1 DEF DrainReady, HoldersIn
<1>8. Elements(q) = {u \in Tasks : ph[u] = "waiting"}
  BY <1>1, <1>3 DEF DrainReady
<1>9. active \in Nat /\ active = Cardinality(HoldersIn(ph))
  BY <1>1, <1>7 DEF DrainReady
<1> QED
  BY <1>2, <1>3, <1>5, <1>6, <1>7, <1>8, <1>9 DEF DrainReady, Holders, Waiting

\* An aborted call leaves the queue wherever it stands.
LEMMA LeaveReady ==
  ASSUME IInv, NEW k \in 1..Len(waiters)
  PROVE  /\ DrainReady(active, limit, Without(waiters, k),
                       [phase EXCEPT ![waiters[k]] = "rejected"])
         /\ HoldersIn([phase EXCEPT ![waiters[k]] = "rejected"]) = Holders
         /\ Elements(Without(waiters, k)) = Waiting \ {waiters[k]}
         /\ waiters[k] \in Tasks /\ phase[waiters[k]] = "waiting"
<1> DEFINE t == waiters[k]
           q == Without(waiters, k)
           ph == [phase EXCEPT ![t] = "rejected"]
<1>1. DrainReady(active, limit, waiters, phase)
  BY InvariantReady
<1>2. Len(waiters) \in Nat /\ \A i \in 1..Len(waiters) : waiters[i] \in Tasks
  BY <1>1, LenProperties, ElementOfSeq DEF DrainReady
<1>3. /\ q \in Seq(Tasks)
      /\ Len(q) = Len(waiters) - 1
      /\ \A i \in 1..Len(q) : q[i] = IF i < k THEN waiters[i] ELSE waiters[i + 1]
  <2>1. Len(waiters) - 1 \in Nat
    BY <1>2
  <2>2. q \in [1..Len(waiters) - 1 -> Tasks]
    BY <1>2, <2>1 DEF Without
  <2>3. q \in Seq(Tasks)
    BY <2>1, <2>2, SeqDef
  <2>4. Len(q) = Len(waiters) - 1
    BY <2>1, <2>2, <2>3, LenProperties
  <2> QED
    BY <2>3, <2>4 DEF Without
<1>4. t \in Elements(waiters) /\ t \in Tasks /\ phase[t] = "waiting"
  BY <1>1, <1>2 DEF Elements, DrainReady
<1>5. Elements(q) = Elements(waiters) \ {t}
  <2>1. ASSUME NEW i \in 1..Len(q)
        PROVE  q[i] \in Elements(waiters) /\ q[i] # t
    BY <1>1, <1>2, <1>3 DEF Elements, DrainReady, Distinct
  <2>2. ASSUME NEW i \in 1..Len(waiters), i # k
        PROVE  \E j \in 1..Len(q) : q[j] = waiters[i]
    <3>1. CASE i < k
      <4>1. i \in 1..Len(q) /\ q[i] = waiters[i]
        BY <1>2, <1>3, <3>1
      <4> QED
        BY <4>1
    <3>2. CASE i > k
      <4>1. i - 1 \in 1..Len(q) /\ q[i - 1] = waiters[i]
        BY <1>2, <1>3, <3>2
      <4> QED
        BY <4>1
    <3> QED
      BY <1>2, <2>2, <3>1, <3>2
  <2> QED
    BY <2>1, <2>2 DEF Elements
<1>6. Distinct(q)
  BY <1>1, <1>2, <1>3 DEF DrainReady, Distinct
<1>7. ph \in [Tasks -> Phases]
  BY <1>1 DEF DrainReady, Phases
<1>8. HoldersIn(ph) = HoldersIn(phase)
  BY <1>1, <1>4 DEF DrainReady, HoldersIn
<1>9. Elements(q) = {u \in Tasks : ph[u] = "waiting"}
  BY <1>1, <1>5 DEF DrainReady
<1> QED
  BY <1>1, <1>3, <1>4, <1>5, <1>6, <1>7, <1>8, <1>9 DEF DrainReady, Holders, Waiting

\* A release takes one call out of the holders and one off the counter.
LEMMA GiveBackReady ==
  ASSUME IInv, NEW t \in Holders
  PROVE  /\ DrainReady(active - 1, limit, waiters, [phase EXCEPT ![t] = "released"])
         /\ HoldersIn([phase EXCEPT ![t] = "released"]) = Holders \ {t}
<1> DEFINE ph == [phase EXCEPT ![t] = "released"]
<1>1. DrainReady(active, limit, waiters, phase)
  BY InvariantReady
<1>2. t \in Tasks /\ phase[t] # "waiting"
  BY DEF Holders, HoldersIn
<1>3. ph \in [Tasks -> Phases]
  BY <1>1 DEF DrainReady, Phases
<1>4. HoldersIn(ph) = HoldersIn(phase) \ {t}
  BY <1>1, <1>2 DEF DrainReady, HoldersIn
<1>5. /\ Cardinality(HoldersIn(ph)) = active - 1
      /\ active - 1 \in Nat
  <2>1. Cardinality(HoldersIn(ph)) = Cardinality(HoldersIn(phase)) - 1
    BY <1>4, HoldersFinite, FS_RemoveElement DEF Holders
  <2> QED
    BY <1>1, <2>1, HoldersFinite DEF DrainReady
<1>6. Elements(waiters) = {u \in Tasks : ph[u] = "waiting"}
  BY <1>1, <1>2 DEF DrainReady
<1> QED
  BY <1>1, <1>3, <1>4, <1>5, <1>6 DEF DrainReady, Holders

-----------------------------------------------------------------------------
(***************************************************************************)
(* What the actions do to the phases before drain() runs: calls join the   *)
(* queue, leave it, or give a slot back; nothing else.                     *)
(***************************************************************************)
Moves(ph) ==
  \A u \in Tasks :
    /\ phase[u] \in {"released", "rejected"} => ph[u] = phase[u]
    /\ phase[u] \in {"granted", "running"} => ph[u] \in {phase[u], "released"}
    /\ phase[u] = "waiting" => ph[u] \in {"waiting", "rejected"}
    /\ phase[u] = "new" => ph[u] \in {"new", "waiting", "rejected"}

\* What every step shows of itself: the invariant goes on holding, the step is
\* one of the abstract pool, and the two action properties hold of it.
StepOK ==
  /\ IInv'
  /\ [Pool!PoolStep]_(Pool!poolVars)
  /\ (\E t \in Tasks : phase[t] # "granted" /\ phase'[t] = "granted")
       => Cardinality(Holders') <= limit'
  /\ \A t \in Tasks :
       phase[t] # "running" /\ phase'[t] = "running" => t \notin aborted

Gone == {t \in Tasks : phase[t] \in {"released", "rejected"}}

\* The abstract pool counts with the same Cardinality.
LEMMA PoolCardinality ==
  ASSUME NEW S
  PROVE  Pool!Cardinality(S) = Cardinality(S)
BY DEF Pool!Cardinality, Cardinality

\* A step that moves the phases and then drains is a good step.
LEMMA DrainStep ==
  ASSUME IInv, NEW act, NEW queue, NEW ph,
         limit' \in 1..Ceiling, aborted' \subseteq Tasks,
         DrainReady(act, limit', queue, ph), Drain(act, limit', queue, ph),
         Moves(ph)
  PROVE  StepOK
<1>1. /\ DrainReady(active', limit', waiters', phase')
      /\ waiters' # <<>> => active' >= limit'
      /\ HoldersIn(ph) \subseteq Holders'
      /\ Holders' # HoldersIn(ph) => active' <= limit'
      /\ \A t \in Tasks :
           phase'[t] # ph[t] => ph[t] = "waiting" /\ phase'[t] = "granted"
  BY DrainRestores
<1>2. IInv'
  BY <1>1 DEF IInv, TypeOK, ActiveCountsHolders, QueueIsPending, NoIdleSlot,
              DrainReady, Distinct, Waiting, Holders
<1>3. /\ phase \in [Tasks -> Phases] /\ phase' \in [Tasks -> Phases]
      /\ ph \in [Tasks -> Phases]
  BY <1>1, InvariantReady DEF DrainReady
<1>4. active' = Cardinality(Holders') /\ active' \in Nat
  BY <1>1 DEF DrainReady, Holders
<1>5. Waiting = {t \in Tasks : phase[t] = "waiting"}
  BY InvariantReady DEF DrainReady, Waiting
<1>6. Waiting' = {t \in Tasks : phase'[t] = "waiting"}
  BY <1>1 DEF DrainReady, Waiting
<1>7. Holders \subseteq Tasks /\ Holders' \subseteq Tasks
  BY DEF Holders, HoldersIn
<1>8. Gone \subseteq Gone'
  BY <1>1, <1>3 DEF Gone, Moves, Phases
<1>9. Holders \ Gone' \subseteq Holders'
  BY <1>1, <1>3 DEF Gone, Moves, Phases, Holders, HoldersIn
<1>10. Waiting \ Gone' \subseteq Waiting' \union Holders'
  BY <1>1, <1>3, <1>5, <1>6 DEF Gone, Moves, Phases, Holders, HoldersIn
<1>11. Holders' \intersect (Waiting' \union Gone') = {}
  BY <1>3, <1>6 DEF Gone, Holders, HoldersIn
<1>12. Waiting' \intersect (Holders \union Gone') = {}
  BY <1>1, <1>3, <1>6 DEF Gone, Moves, Phases, Holders, HoldersIn
<1>13. HoldersIn(ph) \subseteq Holders
  BY <1>3 DEF Moves, Phases, Holders, HoldersIn
<1>14. (Holders' \ Holders # {}) => Cardinality(Holders') <= limit'
  BY <1>1, <1>4, <1>13
<1>15. Waiting' # {} => Cardinality(Holders') >= limit'
  <2>1. Waiting' # {} => waiters' # <<>>
    BY <1>1, EmptySeq DEF DrainReady, Waiting, Elements
  <2> QED
    BY <1>1, <1>4, <2>1
<1>16. Pool!PoolStep
  BY <1>6, <1>7, <1>8, <1>9, <1>10, <1>11, <1>12, <1>14, <1>15, PoolCardinality
     DEF Pool!PoolStep, Pool!ServeStep, Pool!Conserving, Gone
<1>17. (\E t \in Tasks : phase[t] # "granted" /\ phase'[t] = "granted")
         => Cardinality(Holders') <= limit'
  <2> SUFFICES ASSUME NEW t \in Tasks, phase[t] # "granted", phase'[t] = "granted"
               PROVE  Cardinality(Holders') <= limit'
    OBVIOUS
  <2>1. ph[t] # "granted"
    BY <1>3 DEF Moves, Phases
  <2>2. t \in Holders' /\ t \notin HoldersIn(ph)
    BY <1>1, <2>1 DEF Holders, HoldersIn
  <2> QED
    BY <1>1, <1>4, <2>2
<1>18. \A t \in Tasks : phase'[t] = "running" => phase[t] = "running"
  BY <1>1, <1>3 DEF Moves, Phases
<1> QED
  BY <1>2, <1>16, <1>17, <1>18 DEF StepOK

-----------------------------------------------------------------------------
\* Every action is a good step, and grants in the order of the queue.

Ordered ==
  \A i, j \in 1..Len(waiters) :
    i < j /\ phase'[waiters[j]] = "granted" => phase'[waiters[i]] # "waiting"

\* Whatever queue drain() starts from, it grants in the order of that queue.
LEMMA DrainInOrder ==
  ASSUME NEW act, NEW lim, NEW queue, NEW ph,
         DrainReady(act, lim, queue, ph), Drain(act, lim, queue, ph)
  PROVE  \A i, j \in 1..Len(queue) :
           i < j /\ phase'[queue[j]] = "granted" => phase'[queue[i]] # "waiting"
BY DrainRestores

\* A step that drains the queue as it stands grants in its order.
LEMMA DrainOrdered ==
  ASSUME NEW act, NEW lim, NEW ph,
         DrainReady(act, lim, waiters, ph), Drain(act, lim, waiters, ph)
  PROVE  Ordered
BY DrainInOrder DEF Ordered

\* A step that grants no waiting call is in order.
LEMMA NoGrantOrdered ==
  ASSUME IInv, \A t \in Tasks : phase[t] = "waiting" => phase'[t] = "waiting"
  PROVE  Ordered
<1>1. \A i \in 1..Len(waiters) : waiters[i] \in Tasks /\ phase[waiters[i]] = "waiting"
  BY InvariantReady, ElementOfSeq DEF DrainReady, Elements
<1> QED
  BY <1>1 DEF Ordered

LEMMA AcquireAbortedStep ==
  ASSUME IInv, NEW t \in Tasks, AcquireAborted(t)
  PROVE  StepOK /\ Ordered
<1>1. /\ DrainReady(active, limit, waiters, phase) /\ aborted \subseteq Tasks
      /\ waiters # <<>> => active >= limit
  BY InvariantReady
<1>2. phase \in [Tasks -> Phases] /\ phase[t] = "new"
  BY <1>1 DEF DrainReady, AcquireAborted
<1>3. phase' = [phase EXCEPT ![t] = "rejected"]
  BY DEF AcquireAborted
<1>4. Holders' = Holders
  BY <1>2, <1>3 DEF Holders, HoldersIn
<1>5. IInv'
  BY <1>1, <1>2, <1>3, <1>4
     DEF AcquireAborted, IInv, TypeOK, ActiveCountsHolders, QueueIsPending,
         NoIdleSlot, DrainReady, Distinct, Waiting, Holders, Phases
<1>6. /\ Holders \subseteq Tasks /\ Gone' = Gone \union {t}
      /\ Waiting = {u \in Tasks : phase[u] = "waiting"} /\ Waiting' = Waiting
  BY <1>1, <1>2, <1>3 DEF Holders, HoldersIn, Gone, Waiting, AcquireAborted, DrainReady
<1>7. Waiting # {} => Cardinality(Holders) >= limit
  BY <1>1, EmptySeq DEF DrainReady, Waiting, Elements, Holders
<1>8. /\ Holders \intersect (Waiting \union Gone') = {}
      /\ Waiting \intersect (Holders \union Gone') = {}
  BY <1>2, <1>6 DEF Holders, HoldersIn, Gone
<1>9. limit' \in 1..Ceiling /\ limit' = limit
  BY <1>1 DEF DrainReady, AcquireAborted
<1>10. Gone' \subseteq Tasks /\ Gone \subseteq Gone'
  BY <1>6 DEF Gone
<1>11. Pool!PoolStep
  BY <1>4, <1>6, <1>7, <1>8, <1>9, <1>10, PoolCardinality
     DEF Pool!PoolStep, Pool!ServeStep, Pool!Conserving, Gone
<1>12. \A u \in Tasks : phase'[u] \in {"granted", "running", "waiting"} <=>
                         phase[u] \in {"granted", "running", "waiting"}
  BY <1>2, <1>3
<1>13. \A u \in Tasks : u = t \/ phase'[u] = phase[u]
  BY <1>2, <1>3
<1>14. phase'[t] = "rejected"
  BY <1>2, <1>3
<1>15. Ordered
  BY <1>2, <1>13, NoGrantOrdered
<1> QED
  BY <1>5, <1>11, <1>13, <1>14, <1>15 DEF StepOK

LEMMA AcquireStep ==
  ASSUME IInv, NEW t \in Tasks, NEW n \in Requests, Acquire(t, n)
  PROVE  StepOK /\ Ordered
<1> DEFINE ph == [phase EXCEPT ![t] = "waiting"]
           q == Append(waiters, t)
<1>1. /\ phase[t] = "new" /\ limit' = Clamp(n) /\ aborted' = aborted
      /\ Drain(active, limit', q, ph)
  BY DEF Acquire
<1>2. limit' \in 1..Ceiling
  BY <1>1, ClampRange, LimiterAssumption
<1>3. DrainReady(active, limit', q, ph)
  BY <1>1, <1>2, JoinReady
<1>4. phase \in [Tasks -> Phases] /\ aborted \subseteq Tasks /\ waiters \in Seq(Tasks)
  BY InvariantReady DEF DrainReady
<1>5. Moves(ph)
  BY <1>1, <1>4 DEF Moves
<1>6. StepOK
  BY <1>1, <1>2, <1>3, <1>4, <1>5, DrainStep
<1>7. \A i, j \in 1..Len(q) :
        i < j /\ phase'[q[j]] = "granted" => phase'[q[i]] # "waiting"
  <2> HIDE DEF q, ph
  <2> QED
    BY <1>1, <1>3, DrainInOrder
<1>8. /\ \A i \in 1..Len(waiters) : q[i] = waiters[i]
      /\ Len(q) = Len(waiters) + 1 /\ Len(waiters) \in Nat
  BY <1>4, AppendProperties, LenProperties
<1>9. 1..Len(waiters) \subseteq 1..Len(q)
  BY <1>8
<1>10. Ordered
  BY <1>7, <1>8, <1>9 DEF Ordered
<1> QED
  BY <1>6, <1>10

LEMMA UpdateLimitStep ==
  ASSUME IInv, NEW n \in Requests, UpdateLimit(n)
  PROVE  StepOK /\ Ordered
<1>1. limit' \in 1..Ceiling /\ aborted' = aborted /\ Drain(active, limit', waiters, phase)
  BY ClampRange, LimiterAssumption DEF UpdateLimit
<1>2. DrainReady(active, limit', waiters, phase) /\ aborted \subseteq Tasks
  BY <1>1, InvariantReady DEF DrainReady
<1>3. Moves(phase)
  BY <1>2 DEF DrainReady, Moves
<1> QED
  BY <1>1, <1>2, <1>3, DrainStep, DrainOrdered

LEMMA AbortStep ==
  ASSUME IInv, NEW t \in Tasks, Abort(t)
  PROVE  StepOK /\ Ordered
<1>1. /\ limit' = limit /\ aborted' = aborted \union {t}
      /\ aborted \subseteq Tasks /\ limit \in 1..Ceiling
      /\ DrainReady(active, limit, waiters, phase)
      /\ phase \in [Tasks -> Phases] /\ waiters \in Seq(Tasks)
  BY InvariantReady DEF Abort, DrainReady
<1>2. CASE AbortWaiter(t)
  <2>1. PICK k \in 1..Len(waiters) :
          /\ waiters[k] = t
          /\ Drain(active, limit, Without(waiters, k), [phase EXCEPT ![t] = "rejected"])
    BY <1>2 DEF AbortWaiter
  <2> DEFINE ph == [phase EXCEPT ![waiters[k]] = "rejected"]
             q == Without(waiters, k)
  <2>2. DrainReady(active, limit, q, ph) /\ phase[t] = "waiting"
    BY <2>1, LeaveReady
  <2>3. Moves(ph)
    BY <1>1, <2>1, <2>2 DEF Moves
  <2>4. StepOK
    BY <1>1, <2>1, <2>2, <2>3, DrainStep
  <2>5. /\ \A i, j \in 1..Len(q) :
             i < j /\ phase'[q[j]] = "granted" => phase'[q[i]] # "waiting"
        /\ phase'[t] = "rejected"
    <3>1. Drain(active, limit, q, ph)
      BY <2>1
    <3>2. ph[t] = "rejected" /\ t \in Tasks
      BY <1>1, <2>1
    <3> HIDE DEF q, ph
    <3>3. \A i, j \in 1..Len(q) :
            i < j /\ phase'[q[j]] = "granted" => phase'[q[i]] # "waiting"
      BY <2>2, <3>1, DrainInOrder
    <3>4. phase'[t] = "rejected"
      BY <2>2, <3>1, <3>2, DrainRestores
    <3> QED
      BY <3>3, <3>4
  <2>6. /\ Len(waiters) \in Nat /\ Len(waiters) - 1 \in Nat
        /\ DOMAIN q = 1..Len(waiters) - 1
    BY <1>1, LenProperties DEF Without
  <2>7. Len(q) = Len(waiters) - 1
    BY <2>2, <2>6, LenProperties DEF DrainReady
  <2>8. ASSUME NEW i \in 1..Len(waiters), NEW j \in 1..Len(waiters),
               i < j, phase'[waiters[j]] = "granted"
        PROVE  phase'[waiters[i]] # "waiting"
    <3>1. j # k
      BY <2>1, <2>5, <2>8
    <3>2. CASE i = k
      BY <2>1, <2>5, <3>2
    <3>3. CASE i # k
      <4> DEFINE a == IF i < k THEN i ELSE i - 1
                 b == IF j < k THEN j ELSE j - 1
      <4>1. /\ a \in 1..Len(q) /\ b \in 1..Len(q) /\ a < b
            /\ q[a] = waiters[i] /\ q[b] = waiters[j]
        BY <2>6, <2>7, <2>8, <3>1, <3>3 DEF Without
      <4> QED
        BY <2>5, <2>8, <4>1
    <3> QED
      BY <3>2, <3>3
  <2> QED
    BY <2>4, <2>8 DEF Ordered
<1>3. CASE phase[t] # "waiting" /\ UNCHANGED <<active, waiters, phase>>
  <2>1. IInv'
    BY <1>1, <1>3
       DEF IInv, TypeOK, ActiveCountsHolders, QueueIsPending, NoIdleSlot,
           Waiting, Holders
  <2>2. UNCHANGED Pool!poolVars
    BY <1>1, <1>3 DEF Pool!poolVars, Waiting, Holders
  <2> QED
    BY <1>1, <1>3, <2>1, <2>2, NoGrantOrdered DEF StepOK
<1> QED
  BY <1>2, <1>3 DEF Abort

\* Giving a slot back, whoever calls it.
LEMMA GiveBackStep ==
  ASSUME IInv, NEW t \in Holders, GiveBack(t), UNCHANGED <<limit, aborted>>
  PROVE  StepOK /\ Ordered
<1> DEFINE ph == [phase EXCEPT ![t] = "released"]
<1>1. /\ limit' = limit /\ limit \in 1..Ceiling /\ aborted' \subseteq Tasks
      /\ phase \in [Tasks -> Phases]
  BY InvariantReady DEF DrainReady
<1>2. DrainReady(active - 1, limit, waiters, ph) /\ Drain(active - 1, limit, waiters, ph)
  BY GiveBackReady DEF GiveBack
<1>3. Moves(ph)
  BY <1>1 DEF Moves, Holders, HoldersIn
<1> QED
  BY <1>1, <1>2, <1>3, DrainStep, DrainOrdered

LEMMA ResumeStep ==
  ASSUME IInv, NEW t \in Tasks, Resume(t)
  PROVE  StepOK /\ Ordered
<1>1. t \in Holders /\ phase[t] = "granted" /\ UNCHANGED <<limit, aborted>>
  BY DEF Resume, Holders, HoldersIn
<1>2. CASE GiveBack(t)
  BY <1>1, <1>2, GiveBackStep
<1>3. CASE /\ t \notin aborted
           /\ phase' = [phase EXCEPT ![t] = "running"]
           /\ UNCHANGED <<active, waiters>>
  <2>1. DrainReady(active, limit, waiters, phase) /\ phase \in [Tasks -> Phases]
    BY InvariantReady DEF DrainReady
  <2>2. Holders' = Holders
    BY <1>1, <1>3, <2>1 DEF Holders, HoldersIn
  <2>3. IInv'
    BY <1>1, <1>3, <2>1, <2>2
       DEF IInv, TypeOK, ActiveCountsHolders, QueueIsPending, NoIdleSlot,
           Waiting, Phases
  <2>4. UNCHANGED Pool!poolVars
    BY <1>1, <1>3, <2>1, <2>2 DEF Pool!poolVars, Waiting
  <2>5. \A u \in Tasks : u = t \/ phase'[u] = phase[u]
    BY <1>3, <2>1
  <2>6. phase'[t] = "running"
    BY <1>3, <2>1
  <2>7. Ordered
    BY <1>1, <2>5, NoGrantOrdered
  <2> QED
    BY <1>3, <2>3, <2>4, <2>5, <2>6, <2>7 DEF StepOK
<1> QED
  BY <1>2, <1>3 DEF Resume

LEMMA ReleaseStep ==
  ASSUME IInv, NEW t \in Tasks, Release(t)
  PROVE  StepOK /\ Ordered
<1>1. t \in Holders /\ GiveBack(t) /\ UNCHANGED <<limit, aborted>>
  BY DEF Release, Holders, HoldersIn
<1> QED
  BY <1>1, GiveBackStep

\* All of them together, and the steps that change nothing.
LEMMA NextStep ==
  ASSUME IInv, [Next]_vars
  PROVE  StepOK /\ Ordered
<1>1. CASE UNCHANGED vars
  <2>1. IInv'
    BY <1>1 DEF vars, IInv, TypeOK, ActiveCountsHolders, QueueIsPending,
                NoIdleSlot, Waiting, Holders
  <2>2. UNCHANGED Pool!poolVars
    BY <1>1 DEF vars, Pool!poolVars, Waiting, Holders
  <2> QED
    BY <1>1, <2>1, <2>2, NoGrantOrdered DEF vars, StepOK
<1>2. CASE Next
  BY <1>2, AcquireAbortedStep, AcquireStep, AbortStep, ResumeStep, ReleaseStep,
     UpdateLimitStep DEF Next
<1> QED
  BY <1>1, <1>2

LEMMA InitHolds ==
  ASSUME Init
  PROVE  IInv /\ Pool!PoolInit
<1>1. Holders = {} /\ Waiting = {} /\ Gone = {}
  BY DEF Init, Holders, HoldersIn, Waiting, Elements, Gone
<1>2. Cardinality(Holders) = 0
  BY <1>1, FS_EmptySet
<1>3. limit \in 1..Ceiling
  BY LimiterAssumption DEF Init
<1>4. IInv
  BY <1>1, <1>2, <1>3
     DEF Init, IInv, TypeOK, ActiveCountsHolders, QueueIsPending, NoIdleSlot, Phases
<1>5. Pool!PoolInit
  BY <1>1, <1>3 DEF Pool!PoolInit, Gone
<1> QED
  BY <1>4, <1>5

-----------------------------------------------------------------------------
(***************************************************************************)
(* The counter, the queue and the phases agree in every reachable state,   *)
(* and no slot is idle while a call waits.                                 *)
(***************************************************************************)
THEOREM Invariance ==
  Spec => [](TypeOK /\ ActiveCountsHolders /\ QueueIsPending /\ NoIdleSlot)
<1>1. Init => IInv
  BY InitHolds
<1>2. IInv /\ [Next]_vars => IInv'
  BY NextStep DEF StepOK
<1>3. IInv => TypeOK /\ ActiveCountsHolders /\ QueueIsPending /\ NoIdleSlot
  BY DEF IInv
<1> QED
  BY <1>1, <1>2, <1>3, PTL DEF Spec

\* No call is granted a slot above the limit in force.
THEOREM NeverOverLimit == Spec => GrantsRespectLimit
<1>1. Init => IInv
  BY InitHolds
<1>2. IInv /\ [Next]_vars => IInv'
  BY NextStep DEF StepOK
<1>3. IInv /\ [Next]_vars =>
        [(\E t \in Tasks : phase[t] # "granted" /\ phase'[t] = "granted")
           => Cardinality(Holders') <= limit']_vars
  BY NextStep DEF StepOK
<1> QED
  BY <1>1, <1>2, <1>3, PTL DEF Spec, GrantsRespectLimit

\* The queue is served in the order of the calls.
THEOREM ServedInOrder == Spec => FirstComeFirstServed
<1>1. Init => IInv
  BY InitHolds
<1>2. IInv /\ [Next]_vars => IInv'
  BY NextStep DEF StepOK
<1>3. IInv /\ [Next]_vars =>
        [\A i, j \in 1..Len(waiters) :
           i < j /\ phase'[waiters[j]] = "granted"
             => phase'[waiters[i]] # "waiting"]_vars
  BY NextStep DEF Ordered
<1> QED
  BY <1>1, <1>2, <1>3, PTL DEF Spec, FirstComeFirstServed

\* Work never starts under a signal that has fired.
THEOREM NoAbortedStart == Spec => AbortedNeverStarts
<1>1. Init => IInv
  BY InitHolds
<1>2. IInv /\ [Next]_vars => IInv'
  BY NextStep DEF StepOK
<1>3. IInv /\ [Next]_vars =>
        [\A t \in Tasks : phase[t] # "running" /\ phase'[t] = "running"
           => t \notin aborted]_vars
  BY NextStep DEF StepOK
<1> QED
  BY <1>1, <1>2, <1>3, PTL DEF Spec, AbortedNeverStarts

\* The limiter implements the abstract pool of slots.
THEOREM ImplementsPool == Spec => PoolSpec
<1>1. Init => IInv /\ Pool!PoolInit
  BY InitHolds
<1>2. IInv /\ [Next]_vars => IInv' /\ [Pool!PoolStep]_(Pool!poolVars)
  BY NextStep DEF StepOK
<1> QED
  BY <1>1, <1>2, PTL DEF Spec, PoolSpec, Pool!PoolSpec

=============================================================================

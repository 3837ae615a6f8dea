---------------------------- MODULE Basics_proofs ----------------------------
(***************************************************************************)
(* What several proofs need: a set of numbers has a least element, and     *)
(* what is filtered out of a sequence has the chosen elements, in the      *)
(* order they had.                                                         *)
(***************************************************************************)
EXTENDS Subsequences, SequencesExt, FiniteSetTheorems, SequenceTheorems, TLAPS

\* It takes the place of induction over the numbers.
LEMMA MinNat ==
  ASSUME NEW S \in SUBSET Nat, S # {}
  PROVE  \E m \in S : \A k \in S : m <= k
<1> DEFINE R == OpToRel(<, Nat)
<1>1. R = {ss \in Nat \X Nat : ss[1] < ss[2]}
  BY DEF OpToRel
<1>2. IsWellFoundedOn(R, Nat)
  BY NatLessThanWellFounded
<1> HIDE DEF R
<1>3. PICK m \in S : \A k \in S : ~(<<k, m>> \in R)
  BY <1>2, WFMin
<1>4. \A k \in S : ~(k < m)
  BY <1>1, <1>3
<1> QED BY <1>4

-----------------------------------------------------------------------------
(* Places and their ranks. *)

\* The place of k among the places at.
Rank(at, k) == Cardinality({l \in at : l <= k})

LEMMA RankGrows ==
  ASSUME NEW at, IsFiniteSet(at), at \subseteq Nat, NEW j \in at, NEW k \in at, j < k
  PROVE  Rank(at, j) < Rank(at, k)
<1> DEFINE A == {l \in at : l <= j}
           B == {l \in at : l <= k}
<1>1. IsFiniteSet(B) /\ A \in SUBSET B /\ A # B
  <2>1. B \in SUBSET at OBVIOUS
  <2>2. j \in Nat /\ k \in Nat /\ \A l \in at : l \in Nat OBVIOUS
  <2>3. \A l \in A : l \in B BY <2>2
  <2>4. k \in B /\ k \notin A BY <2>2
  <2> HIDE DEF A, B
  <2> QED BY <2>1, <2>3, <2>4, FS_Subset
<1>2. Cardinality(A) \in Nat /\ Cardinality(B) \in Nat /\ Cardinality(A) <= Cardinality(B)
  BY <1>1, FS_Subset, FS_CardinalityType
<1>3. Cardinality(A) # Cardinality(B)
  BY <1>1, FS_Subset
<1> QED BY <1>2, <1>3 DEF Rank

LEMMA RankBounds ==
  ASSUME NEW at, IsFiniteSet(at), at \subseteq Nat, NEW k \in at
  PROVE  Rank(at, k) \in 1..Cardinality(at)
<1> DEFINE B == {l \in at : l <= k}
<1>1. B \in SUBSET at /\ k \in B OBVIOUS
<1>2. IsFiniteSet(B) /\ Cardinality(B) \in Nat /\ Cardinality(at) \in Nat
      /\ Cardinality(B) <= Cardinality(at)
  BY <1>1, FS_Subset, FS_CardinalityType
<1>3. Cardinality(B) # 0
  BY <1>1, <1>2, FS_EmptySet
<1> QED BY <1>2, <1>3 DEF Rank

LEMMA RankOrders ==
  ASSUME NEW at, IsFiniteSet(at), at \subseteq Nat, NEW j \in at, NEW k \in at,
         Rank(at, j) <= Rank(at, k)
  PROVE  j <= k
<1>1. j \in Nat /\ k \in Nat /\ Cardinality(at) \in Nat
  BY FS_CardinalityType
<1>2. Rank(at, j) \in 1..Cardinality(at) /\ Rank(at, k) \in 1..Cardinality(at)
  BY RankBounds
<1>3. ASSUME k < j PROVE FALSE
  <2>1. Rank(at, k) < Rank(at, j) BY <1>3, RankGrows
  <2> QED BY <1>1, <1>2, <2>1
<1> QED BY <1>1, <1>3

\* Each number up to the number of places is the rank of one of them.
LEMMA RankIsTaken ==
  ASSUME NEW at, IsFiniteSet(at), at \subseteq Nat, NEW n \in 1..Cardinality(at)
  PROVE  \E k \in at : Rank(at, k) = n
<1> DEFINE N == 1..Cardinality(at)
           f == [k \in at |-> Rank(at, k)]
<1>1. Cardinality(at) \in Nat
  BY FS_CardinalityType
<1>2. IsFiniteSet(N) /\ Cardinality(N) = Cardinality(at)
  BY <1>1, FS_Interval
<1>3. f \in [at -> N]
  BY RankBounds
<1>4. \A j, k \in at : f[j] = f[k] => j = k
  <2> SUFFICES ASSUME NEW j \in at, NEW k \in at, Rank(at, j) = Rank(at, k) PROVE j = k
    OBVIOUS
  <2>1. Rank(at, j) \in 1..Cardinality(at) /\ Rank(at, k) \in 1..Cardinality(at)
    BY RankBounds
  <2>2. Rank(at, j) <= Rank(at, k) /\ Rank(at, k) <= Rank(at, j)
    BY <1>1, <2>1
  <2>3. j <= k /\ k <= j
    BY <2>2, RankOrders
  <2>4. j \in Nat /\ k \in Nat OBVIOUS
  <2> QED BY <2>3, <2>4
<1> HIDE DEF f, N
<1>5. f \in Injection(at, N)
  BY <1>3, <1>4 DEF Injection, IsInjective
<1>6. f \in Surjection(at, N)
  BY <1>2, <1>5, FS_Injection
<1>7. n \in N
  BY DEF N
<1>8. PICK k \in at : f[k] = n
  BY <1>6, <1>7 DEF Surjection
<1> QED BY <1>8 DEF f

-----------------------------------------------------------------------------
(* What is left of a sequence. *)

Places(s, S) == {k \in 1..Len(s) : s[k] \in S}

\* Where the n-th element of what is left of s has been.
PlaceOf(s, S, n) == CHOOSE k \in Places(s, S) : Rank(Places(s, S), k) = n

LEMMA PlacesOfSome ==
  ASSUME NEW A, NEW s \in Seq(A), NEW S
  PROVE  /\ IsFiniteSet(Places(s, S)) /\ Places(s, S) \subseteq Nat
         /\ Cardinality(Places(s, S)) \in Nat
         /\ Cardinality(Places(s, S)) <= Len(s)
<1>1. Len(s) \in Nat /\ Places(s, S) \in SUBSET (1..Len(s))
  BY DEF Places
<1> DEFINE n == Len(s)
<1>2. IsFiniteSet(1..n) /\ Cardinality(1..n) = n
  <2> n \in Nat BY <1>1
  <2> HIDE DEF n
  <2> QED BY FS_Interval
<1>3. IsFiniteSet(Places(s, S)) /\ Cardinality(Places(s, S)) <= Len(s)
  BY <1>1, <1>2, FS_Subset
<1> QED BY <1>1, <1>3, FS_CardinalityType

\* An element that is left was chosen, and stands where its place ranks.
LEMMA OnlyAt ==
  ASSUME NEW A, NEW s \in Seq(A), NEW S
  PROVE  \A n \in 1..Cardinality(Places(s, S)) :
           /\ PlaceOf(s, S, n) \in 1..Len(s)
           /\ s[PlaceOf(s, S, n)] \in S
           /\ Rank(Places(s, S), PlaceOf(s, S, n)) = n
           /\ Only(s, S)[n] = s[PlaceOf(s, S, n)]
<1> SUFFICES ASSUME NEW n \in 1..Cardinality(Places(s, S))
             PROVE  /\ PlaceOf(s, S, n) \in 1..Len(s)
                    /\ s[PlaceOf(s, S, n)] \in S
                    /\ Rank(Places(s, S), PlaceOf(s, S, n)) = n
                    /\ Only(s, S)[n] = s[PlaceOf(s, S, n)]
  OBVIOUS
<1>1. \E k \in Places(s, S) : Rank(Places(s, S), k) = n
  BY PlacesOfSome, RankIsTaken
<1>2. /\ PlaceOf(s, S, n) \in Places(s, S)
      /\ Rank(Places(s, S), PlaceOf(s, S, n)) = n
  BY <1>1 DEF PlaceOf
<1>3. Only(s, S)[n] = s[PlaceOf(s, S, n)]
  BY DEF Only, PlaceOf, Places, Rank
<1> QED BY <1>2, <1>3 DEF Places

\* What is left of a sequence is one, and no longer.
LEMMA OnlySeq ==
  ASSUME NEW A, NEW s \in Seq(A), NEW S
  PROVE  /\ Only(s, S) \in Seq(A)
         /\ Len(Only(s, S)) = Cardinality(Places(s, S))
         /\ Len(Only(s, S)) <= Len(s)
<1> DEFINE n == Cardinality(Places(s, S))
<1>1. n \in Nat /\ n <= Len(s)
  BY PlacesOfSome
<1>2. \A k \in 1..n : Only(s, S)[k] \in A
  BY OnlyAt
<1>3. Only(s, S) = [k \in 1..n |-> Only(s, S)[k]]
  BY DEF Only, Places
<1> HIDE DEF n
<1>4. Only(s, S) \in [1..n -> A]
  BY <1>2, <1>3
<1> QED BY <1>1, <1>4 DEF n

\* An element of the sequence is left if it was chosen, and what is left was.
LEMMA OnlyElements ==
  ASSUME NEW A, NEW s \in Seq(A), NEW S
  PROVE  {Only(s, S)[n] : n \in 1..Len(Only(s, S))} = {s[k] : k \in 1..Len(s)} \intersect S
<1>1. Len(Only(s, S)) = Cardinality(Places(s, S))
  BY OnlySeq
<1>2. ASSUME NEW n \in 1..Len(Only(s, S))
      PROVE  Only(s, S)[n] \in {s[k] : k \in 1..Len(s)} \intersect S
  BY <1>1, <1>2, OnlyAt
<1>3. ASSUME NEW k \in 1..Len(s), s[k] \in S
      PROVE  \E n \in 1..Len(Only(s, S)) : Only(s, S)[n] = s[k]
  <2> DEFINE at == Places(s, S)
             n == Rank(at, k)
  <2>1. k \in at /\ IsFiniteSet(at) /\ at \subseteq Nat /\ at \subseteq Int
    BY <1>3, PlacesOfSome DEF Places
  <2>2. n \in 1..Cardinality(at)
    BY <2>1, RankBounds
  <2>3. PlaceOf(s, S, n) \in at /\ Rank(at, PlaceOf(s, S, n)) = n
    BY <2>2, OnlyAt DEF Places
  <2> DEFINE m == PlaceOf(s, S, n)
  <2>4. m <= k /\ k <= m
    <3> HIDE DEF m, at
    <3>1. Rank(at, m) = Rank(at, k) /\ Cardinality(at) \in Nat /\ m \in at
      BY <2>1, <2>3, FS_CardinalityType DEF m, at
    <3>2. Rank(at, m) <= Rank(at, k) /\ Rank(at, k) <= Rank(at, m)
      BY <2>2, <3>1
    <3> QED BY <2>1, <3>1, <3>2, RankOrders
  <2>5. PlaceOf(s, S, n) = k
    BY <2>1, <2>3, <2>4
  <2> QED BY <1>1, <2>2, <2>5, OnlyAt
<1> QED BY <1>2, <1>3

\* The same, of the sets the sequences have for ranges.
LEMMA OnlyToSet ==
  ASSUME NEW A, NEW s \in Seq(A), NEW S
  PROVE  ToSet(Only(s, S)) = ToSet(s) \intersect S
<1>1. Only(s, S) \in Seq(A)
  BY OnlySeq
<1>2. DOMAIN s = 1..Len(s) /\ DOMAIN Only(s, S) = 1..Len(Only(s, S))
  BY <1>1
<1>3. ToSet(s) = {s[k] : k \in 1..Len(s)}
  BY <1>2 DEF ToSet
<1>4. ToSet(Only(s, S)) = {Only(s, S)[n] : n \in 1..Len(Only(s, S))}
  BY <1>2 DEF ToSet
<1> QED BY <1>3, <1>4, OnlyElements

\* The elements of q are in s, in the order they have there.
InOrder(q, s) ==
  \A m, n \in 1..Len(q) : m < n =>
    \E j, k \in 1..Len(s) : j < k /\ q[m] = s[j] /\ q[n] = s[k]

\* What is left keeps its order.
LEMMA OnlyOrder ==
  ASSUME NEW A, NEW s \in Seq(A), NEW S
  PROVE  InOrder(Only(s, S), s)
<1> SUFFICES ASSUME NEW m \in 1..Len(Only(s, S)), NEW n \in 1..Len(Only(s, S)), m < n
             PROVE  \E j, k \in 1..Len(s) :
                      j < k /\ Only(s, S)[m] = s[j] /\ Only(s, S)[n] = s[k]
  BY DEF InOrder
<1> DEFINE at == Places(s, S)
           j == PlaceOf(s, S, m)
           k == PlaceOf(s, S, n)
<1>1. m \in 1..Cardinality(at) /\ n \in 1..Cardinality(at)
  BY OnlySeq
<1>2. /\ j \in at /\ k \in at /\ j \in 1..Len(s) /\ k \in 1..Len(s)
      /\ Rank(at, j) = m /\ Rank(at, k) = n
  BY <1>1, OnlyAt DEF Places
<1>3. IsFiniteSet(at) /\ at \subseteq Nat
  BY PlacesOfSome
<1>4. ~(k <= j)
  <2> HIDE DEF at, j, k
  <2> SUFFICES ASSUME k <= j PROVE FALSE OBVIOUS
  <2>1. j \in Nat /\ k \in Nat /\ m \in Nat /\ n \in Nat
    BY <1>1, <1>2, <1>3, FS_CardinalityType
  <2>2. CASE k = j BY <1>2, <2>1, <2>2
  <2>3. CASE k < j
    <3>1. Rank(at, k) < Rank(at, j) BY <1>2, <1>3, <2>3, RankGrows
    <3> QED BY <1>2, <2>1, <3>1
  <2> QED BY <2>1, <2>2, <2>3
<1>5. j < k
  BY <1>2, <1>4
<1>6. Only(s, S)[m] = s[j] /\ Only(s, S)[n] = s[k]
  BY <1>1, OnlyAt
<1> QED BY <1>2, <1>5, <1>6

\* A head that is chosen stays the head.
LEMMA OnlyHead ==
  ASSUME NEW A, NEW s \in Seq(A), NEW S, s # <<>>, Head(s) \in S
  PROVE  Only(s, S) # <<>> /\ Head(Only(s, S)) = Head(s)
<1>1. Len(s) \in Nat /\ 1 \in 1..Len(s) /\ s[1] = Head(s)
  OBVIOUS
<1>2. Head(s) \in {s[k] : k \in 1..Len(s)} \intersect S
  BY <1>1
<1>3. PICK n \in 1..Len(Only(s, S)) : Only(s, S)[n] = Head(s)
  <2>1. {Only(s, S)[i] : i \in 1..Len(Only(s, S))} = {s[k] : k \in 1..Len(s)} \intersect S
    BY OnlyElements
  <2>2. Head(s) \in {Only(s, S)[i] : i \in 1..Len(Only(s, S))}
    BY ONLY <1>2, <2>1
  <2> QED BY ONLY <2>2
<1> DEFINE at == Places(s, S)
<1>4. 1 \in at /\ IsFiniteSet(at) /\ at \subseteq Nat /\ at \subseteq 1..Len(s)
  BY <1>1, PlacesOfSome DEF Places
<1>5. Only(s, S) \in Seq(A) /\ Len(Only(s, S)) = Cardinality(at) /\ Len(Only(s, S)) \in Nat
  BY OnlySeq, PlacesOfSome
<1>6. 1 \in 1..Cardinality(at)
  BY <1>3, <1>5
<1>7. PlaceOf(s, S, 1) \in at /\ Rank(at, PlaceOf(s, S, 1)) = 1
      /\ Only(s, S)[1] = s[PlaceOf(s, S, 1)]
  <2>1. \A i \in 1..Cardinality(at) :
          /\ PlaceOf(s, S, i) \in 1..Len(s) /\ s[PlaceOf(s, S, i)] \in S
          /\ Rank(at, PlaceOf(s, S, i)) = i /\ Only(s, S)[i] = s[PlaceOf(s, S, i)]
    BY OnlyAt
  <2>2. PlaceOf(s, S, 1) \in 1..Len(s) /\ s[PlaceOf(s, S, 1)] \in S
        /\ Rank(at, PlaceOf(s, S, 1)) = 1 /\ Only(s, S)[1] = s[PlaceOf(s, S, 1)]
    BY ONLY <1>6, <2>1
  <2> QED BY <2>2 DEF Places
<1>8. PlaceOf(s, S, 1) = 1
  <2>1. Rank(at, 1) \in 1..Cardinality(at)
    BY <1>4, RankBounds
  <2> DEFINE m == PlaceOf(s, S, 1)
  <2>2. m <= 1
    <3>1. Cardinality(at) \in Nat BY <1>4, FS_CardinalityType
    <3> HIDE DEF at, m
    <3>2. Rank(at, m) = 1 /\ m \in at BY <1>7 DEF m
    <3>3. Rank(at, m) <= Rank(at, 1) BY <2>1, <3>1, <3>2
    <3> QED BY <1>4, <3>2, <3>3, RankOrders
  <2>3. PlaceOf(s, S, 1) \in 1..Len(s)
    BY <1>4, <1>7
  <2> QED BY <1>1, <2>2, <2>3
<1> QED BY <1>1, <1>3, <1>5, <1>7, <1>8

\* One element is taken out of a sequence.
LEMMA RemovedAt ==
  ASSUME NEW S, NEW s \in Seq(S), NEW n \in 1..Len(s)
  PROVE  /\ RemoveAt(s, n) \in Seq(S)
         /\ Len(RemoveAt(s, n)) = Len(s) - 1
         /\ \A k \in 1..(Len(s) - 1) :
              RemoveAt(s, n)[k] = IF k < n THEN s[k] ELSE s[k + 1]
<1> DEFINE before == SubSeq(s, 1, n - 1)
           after == SubSeq(s, n + 1, Len(s))
<1>1. /\ before \in Seq(S) /\ Len(before) = n - 1
      /\ \A k \in 1..(n - 1) : before[k] = s[k]
  OBVIOUS
<1>2. /\ after \in Seq(S) /\ Len(after) = Len(s) - n
      /\ \A k \in 1..(Len(s) - n) : after[k] = s[n + k]
  OBVIOUS
<1>3. RemoveAt(s, n) = before \o after
  BY DEF RemoveAt
<1> HIDE DEF before, after
<1>4. /\ before \o after \in Seq(S)
      /\ Len(before \o after) = Len(before) + Len(after)
      /\ \A k \in 1..(Len(before) + Len(after)) :
           (before \o after)[k] = IF k <= Len(before) THEN before[k] ELSE after[k - Len(before)]
  BY <1>1, <1>2, ConcatProperties
<1>5. Len(s) \in Nat /\ Len(before) + Len(after) = Len(s) - 1
  BY <1>1, <1>2
<1>6. ASSUME NEW k \in 1..(Len(s) - 1)
      PROVE  (before \o after)[k] = IF k < n THEN s[k] ELSE s[k + 1]
  <2>1. CASE k < n
    <3>1. k \in 1..(n - 1) /\ k <= Len(before) /\ k \in 1..(Len(before) + Len(after))
      BY <1>1, <1>5, <2>1
    <3> QED BY <1>1, <1>4, <2>1, <3>1
  <2>2. CASE k >= n
    <3>1. /\ k - Len(before) \in 1..(Len(s) - n) /\ ~(k <= Len(before))
          /\ k \in 1..(Len(before) + Len(after)) /\ n + (k - Len(before)) = k + 1
      BY <1>1, <1>5, <2>2
    <3> DEFINE j == k - Len(before)
    <3>2. j \in 1..(Len(s) - n) /\ n + j = k + 1 /\ (before \o after)[k] = after[j]
      BY <1>4, <3>1
    <3> HIDE DEF j
    <3>3. after[j] = s[n + j]
      BY <1>2, <3>2
    <3>4. (before \o after)[k] = s[k + 1]
      BY ONLY <3>2, <3>3
    <3> QED BY <1>5, <2>2, <3>4
  <2> QED BY <1>5, <2>1, <2>2
<1> QED BY <1>3, <1>4, <1>5, <1>6
=============================================================================

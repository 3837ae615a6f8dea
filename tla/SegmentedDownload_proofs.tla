----------------------- MODULE SegmentedDownload_proofs -----------------------
(***************************************************************************)
(* What is true of the downloads in segments for any number of downloads,  *)
(* workers, proxies and segments.  The inductive invariant is Core, the    *)
(* coordinator and its callers agree; with the books of the limiter        *)
(* (ReadbackOK), of the segments (Books), of the progress (Exact), and of  *)
(* who waits and is known (Desk) on top of it.                             *)
(***************************************************************************)
EXTENDS SegmentedDownload, Basics_proofs

-----------------------------------------------------------------------------
(***************************************************************************)
(* drain() serves the queue until nobody in it could be served, sets the   *)
(* timer for the next cooldown, and changes nothing else.                  *)
(***************************************************************************)

Pools == [configured : Nat, limit : Nat, throttle : [Downloads -> Nat],
          cooling : Seq(Proxies), groups : SUBSET Downloads, queue : Seq(Jobs),
          avoid : [Jobs -> SUBSET Proxies], lease : [Jobs -> Proxies \union {None}],
          wake : Proxies \union {None}]

\* A sequence names everything once.
Distinct(s) == \A k, l \in 1..Len(s) : s[k] = s[l] => k = l

Elems(s) == {s[k] : k \in 1..Len(s)}

\* The waiters.
Queued(p) == Elems(p.queue)

PoolOK(p) ==
  /\ p \in Pools
  /\ p.limit >= 2 /\ p.limit <= p.configured
  /\ \A g \in Downloads : p.throttle[g] = 0 \/ (p.throttle[g] >= 2 /\ p.throttle[g] <= p.configured)
  /\ Distinct(p.cooling) /\ Distinct(p.queue)
  /\ \A c \in Queued(p) : p.lease[c] = None
  /\ \A b, c \in Jobs : p.lease[b] = p.lease[c] /\ p.lease[b] # None => b = c

\* What a call leaves alone for all jobs but some.
KeptBut(p, q, cs) ==
  \A c \in Jobs \ cs :
    /\ q.avoid[c] = p.avoid[c]
    /\ p.lease[c] # None => q.lease[c] = p.lease[c]
    /\ c \in Queued(p) => c \in Queued(q) \/ q.lease[c] # None
    /\ p.lease[c] = None /\ c \notin Queued(p) => q.lease[c] = None /\ c \notin Queued(q)

Out(p, c) == p.lease[c] = None /\ c \notin Queued(p)

\* What drain() leaves as it is.
Serves(p, q) ==
  /\ q.configured = p.configured /\ q.limit = p.limit /\ q.throttle = p.throttle
  /\ q.cooling = p.cooling /\ q.groups = p.groups /\ q.avoid = p.avoid
  /\ KeptBut(p, q, {})

\* One call after the other.
LEMMA KeptTransitive ==
  ASSUME NEW p, NEW q, NEW r, NEW S, NEW T, KeptBut(p, q, S), KeptBut(q, r, T)
  PROVE  KeptBut(p, r, S \union T)
BY DEF KeptBut

LEMMA ServesTransitive ==
  ASSUME NEW p, NEW q, NEW r, Serves(p, q), Serves(q, r)
  PROVE  Serves(p, r)
BY DEF Serves, KeptBut

\* An element leaves a sequence that names everything once.
LEMMA RemovedElements ==
  ASSUME NEW S, NEW s \in Seq(S), Distinct(s), NEW n \in 1..Len(s)
  PROVE  /\ RemoveAt(s, n) \in Seq(S) /\ Len(RemoveAt(s, n)) = Len(s) - 1
         /\ Distinct(RemoveAt(s, n))
         /\ Elems(RemoveAt(s, n)) = Elems(s) \ {s[n]}
<1> DEFINE t == RemoveAt(s, n)
<1>1. /\ t \in Seq(S) /\ Len(t) = Len(s) - 1
      /\ \A k \in 1..(Len(s) - 1) : t[k] = IF k < n THEN s[k] ELSE s[k + 1]
  BY RemovedAt
<1>2. Len(s) \in Nat /\ Len(t) \in Nat
  BY <1>1
<1> HIDE DEF t
<1>3. ASSUME NEW k \in 1..Len(t)
      PROVE  \E l \in 1..Len(s) : l # n /\ t[k] = s[l] /\ l = IF k < n THEN k ELSE k + 1
  BY <1>1, <1>2
<1>4. Distinct(t)
  <2> SUFFICES ASSUME NEW k \in 1..Len(t), NEW l \in 1..Len(t), t[k] = t[l] PROVE k = l
    BY DEF Distinct
  <2>1. PICK i \in 1..Len(s) : i # n /\ t[k] = s[i] /\ i = IF k < n THEN k ELSE k + 1
    BY <1>3
  <2>2. PICK j \in 1..Len(s) : j # n /\ t[l] = s[j] /\ j = IF l < n THEN l ELSE l + 1
    BY <1>3
  <2>3. i = j
    BY <2>1, <2>2 DEF Distinct
  <2> QED BY <1>2, <2>1, <2>2, <2>3
<1>5. ASSUME NEW l \in 1..Len(s), l # n
      PROVE  \E k \in 1..Len(t) : t[k] = s[l]
  <2>1. CASE l < n
    <3>1. l \in 1..Len(t) BY <1>1, <1>2, <2>1
    <3> QED BY <1>1, <2>1, <3>1
  <2>2. CASE l > n
    <3>1. l - 1 \in 1..Len(t) /\ ~(l - 1 < n) /\ (l - 1) + 1 = l BY <1>1, <1>2, <2>2
    <3> QED BY <1>1, <3>1
  <2> QED BY <1>5, <2>1, <2>2
<1>6. ASSUME NEW k \in 1..Len(t) PROVE t[k] \in Elems(s) \ {s[n]}
  BY <1>3 DEF Distinct, Elems
<1>7. ASSUME NEW x \in Elems(s) \ {s[n]} PROVE \E k \in 1..Len(t) : t[k] = x
  BY <1>5 DEF Elems
<1>8. Elems(t) = Elems(s) \ {s[n]}
  BY <1>6, <1>7 DEF Elems
<1> QED BY <1>1, <1>4, <1>8 DEF t

\* A least element is an element.
LEMMA MinIn ==
  ASSUME NEW S \in SUBSET Nat, S # {}
  PROVE  Min(S) \in S /\ \A k \in S : Min(S) <= k
<1>1. \E m \in S : \A k \in S : m <= k
  BY MinNat
<1> QED BY <1>1 DEF Min

\* The operators of the libraries are the same in the module of the coordinator.
LEMMA ProxyOperators ==
  /\ \A S : Proxy!Cardinality(S) = Cardinality(S)
  /\ \A s : Proxy!ToSet(s) = ToSet(s)
  /\ \A S : Proxy!Min(S) = Min(S)
  /\ \A S : Proxy!Max(S) = Max(S)
  /\ \A s, n : Proxy!RemoveAt(s, n) = RemoveAt(s, n)
  /\ \A s, S : Proxy!Only(s, S) = Only(s, S)
BY DEF Proxy!Cardinality, Cardinality, Proxy!ToSet, ToSet, Proxy!Min, Min, Proxy!Max, Max,
       Proxy!RemoveAt, RemoveAt, Proxy!Only, Only

\* What selectProxy() returns is a proxy that nobody loads through.
LEMMA SelectableIsFree ==
  ASSUME NEW p, NEW c, NEW borrow, NEW x \in Proxy!Selectable(p, c, borrow)
  PROVE  x \in Proxies /\ x \notin p.avoid[c] /\ \A b \in Jobs : p.lease[b] # None => p.lease[b] # x
BY DEF Proxy!Selectable, Proxy!ActiveProxies, Proxy!Active

\* A waiter gets a proxy.
LEMMA ServedOnce ==
  ASSUME NEW p, PoolOK(p), NEW k \in 1..Len(p.queue), NEW borrow,
         NEW x \in Proxy!Selectable(p, p.queue[k], borrow)
  PROVE  LET q == [p EXCEPT !.queue = RemoveAt(@, k), !.lease[p.queue[k]] = x]
         IN  PoolOK(q) /\ Serves(p, q) /\ Len(q.queue) = Len(p.queue) - 1
<1> DEFINE q == [p EXCEPT !.queue = RemoveAt(@, k), !.lease[p.queue[k]] = x]
           c == p.queue[k]
<1>1. p \in Pools /\ p.queue \in Seq(Jobs) /\ Distinct(p.queue) /\ c \in Jobs /\ c \in Queued(p)
      /\ p.lease \in [Jobs -> Proxies \union {None}]
  BY DEF PoolOK, Pools, Queued, Elems
<1>2. /\ q.configured = p.configured /\ q.limit = p.limit /\ q.throttle = p.throttle
      /\ q.cooling = p.cooling /\ q.groups = p.groups /\ q.avoid = p.avoid /\ q.wake = p.wake
      /\ q.queue = RemoveAt(p.queue, k) /\ q.lease = [p.lease EXCEPT ![c] = x]
  BY <1>1 DEF Pools
<1>3. /\ q.queue \in Seq(Jobs) /\ Len(q.queue) = Len(p.queue) - 1 /\ Distinct(q.queue)
      /\ Queued(q) = Queued(p) \ {c}
  <2> HIDE DEF q
  <2>1. LET r == RemoveAt(p.queue, k)
        IN  /\ r \in Seq(Jobs) /\ Len(r) = Len(p.queue) - 1 /\ Distinct(r)
            /\ Elems(r) = Elems(p.queue) \ {p.queue[k]}
    BY <1>1, RemovedElements
  <2> QED BY <1>2, <2>1 DEF Queued
<1>4. /\ x \in Proxies /\ \A b \in Jobs : p.lease[b] # None => p.lease[b] # x
  BY SelectableIsFree
<1>5. q.lease \in [Jobs -> Proxies \union {None}]
  BY <1>1, <1>2, <1>4
<1>6. q \in Pools
  BY <1>1, <1>2, <1>3, <1>5 DEF Pools
<1> HIDE DEF q, c
<1>7. x # None
  BY <1>4, SegmentedAssumption
<1>8. p.lease[c] = None
  BY <1>1 DEF PoolOK
<1>9. PoolOK(q)
  BY <1>1, <1>2, <1>3, <1>4, <1>6, <1>7, <1>8 DEF PoolOK
<1>10. Serves(p, q)
  BY <1>1, <1>2, <1>3, <1>7, <1>8 DEF Serves, KeptBut
<1> QED BY <1>3, <1>9, <1>10 DEF q

\* One turn of the loop of drain() serves one waiter, or there is none it could serve.
LEMMA OneMoreServes ==
  ASSUME NEW p, PoolOK(p), NEW q \in Proxy!OneMore(p)
  PROVE  /\ PoolOK(q) /\ Serves(p, q)
         /\ \/ Proxy!Servable(q, TRUE) = {} /\ q = p
            \/ Len(q.queue) = Len(p.queue) - 1
<1>1. CASE Proxy!Servable(p, TRUE) = {}
  <2>1. q = p
    BY <1>1 DEF Proxy!OneMore
  <2> QED BY <1>1, <2>1 DEF Serves, KeptBut
<1>2. CASE Proxy!Servable(p, TRUE) # {}
  <2> DEFINE borrow == Proxy!Servable(p, FALSE) = {}
             places == Proxy!Servable(p, borrow)
             k == Min(places)
  <2>1. /\ places \in SUBSET Nat /\ places # {}
        /\ \A l \in places : l \in 1..Len(p.queue) /\ Proxy!Selectable(p, p.queue[l], borrow) # {}
    <3>1. places \subseteq 1..Len(p.queue)
          /\ \A l \in places : Proxy!Selectable(p, p.queue[l], borrow) # {}
      BY DEF Proxy!Servable
    <3>2. places # {}
      <4>1. CASE borrow
        <5>1. borrow = TRUE BY <4>1
        <5>2. places = Proxy!Servable(p, TRUE) BY <5>1
        <5> QED BY <1>2, <5>2
      <4>2. CASE ~borrow
        <5>1. borrow = FALSE BY <4>2
        <5>2. places = Proxy!Servable(p, FALSE) BY <5>1
        <5> QED BY <4>2, <5>2
      <4> QED BY <4>1, <4>2
    <3>3. Len(p.queue) \in Nat
      BY DEF PoolOK, Pools
    <3> HIDE DEF places, borrow
    <3> QED BY <3>1, <3>2, <3>3
  <2>2. k \in places
    <3> HIDE DEF places
    <3> QED BY <2>1, MinIn
  <2>3. PICK x \in Proxy!Selectable(p, p.queue[k], borrow) :
          q = [p EXCEPT !.queue = RemoveAt(@, k), !.lease[p.queue[k]] = x]
    <3> DEFINE i == Proxy!Min(places)
    <3>1. q \in {[p EXCEPT !.queue = Proxy!RemoveAt(@, i), !.lease[p.queue[i]] = x] :
                   x \in Proxy!Selectable(p, p.queue[i], borrow)}
      BY <1>2, Zenon DEF Proxy!OneMore
    <3> HIDE DEF borrow, places
    <3>2. i = k /\ \A t, n : Proxy!RemoveAt(t, n) = RemoveAt(t, n)
      BY ProxyOperators
    <3> QED BY Zenon, <3>1, <3>2
  <2>4. k \in 1..Len(p.queue)
    BY <2>1, <2>2
  <2> HIDE DEF k, borrow
  <2> QED BY Zenon, <2>3, <2>4, ServedOnce
<1> QED BY <1>1, <1>2

\* What the loop of drain() may have come to after each of its first L turns.
Turns(p, L, f) ==
  [n \in 0..L |-> IF n = 0 THEN {p} ELSE UNION {Proxy!OneMore(r) : r \in f[n - 1]}]

\* The function drain() is written with exists; a least counterexample shows it.
LEMMA DrainFunction ==
  ASSUME NEW p, NEW L \in Nat
  PROVE  \E f : f = Turns(p, L, f)
<1> DEFINE Is(f, l) == f = Turns(p, l, f)
           Bad == {l \in Nat : ~\E f : Is(f, l)}
<1> SUFFICES ASSUME Bad # {} PROVE FALSE
  OBVIOUS
<1> USE DEF Turns
<1>1. PICK m \in Bad : \A l \in Bad : m <= l
  BY MinNat
<1>2. CASE m = 0
  <2> DEFINE f == [n \in 0..0 |-> {p}]
  <2>1. f = [n \in 0..0 |->
              IF n = 0 THEN {p} ELSE UNION {Proxy!OneMore(q) : q \in f[n - 1]}]
    <3>1. \A n \in 0..0 : n = 0 OBVIOUS
    <3> QED BY <3>1
  <2> HIDE DEF f
  <2>2. Is(f, m) BY <1>2, <2>1
  <2> QED BY <2>2
<1>3. CASE m # 0
  <2>1. m - 1 \in Nat /\ m \in Nat /\ ~(m <= m - 1)
    BY <1>3
  <2>2. PICK f : Is(f, m - 1)
    BY <1>1, <2>1
  <2> DEFINE g == [n \in 0..m |-> IF n = m THEN UNION {Proxy!OneMore(q) : q \in f[m - 1]} ELSE f[n]]
             h == [n \in 0..m |->
                    IF n = 0 THEN {p} ELSE UNION {Proxy!OneMore(q) : q \in g[n - 1]}]
  <2>3. ASSUME NEW n \in 0..m PROVE g[n] = h[n]
    <3>1. CASE n = m
      <4>1. g[m - 1] = f[m - 1] BY <2>1
      <4>2. g[n] = UNION {Proxy!OneMore(q) : q \in f[m - 1]} BY <3>1
      <4>3. h[n] = UNION {Proxy!OneMore(q) : q \in g[m - 1]} BY <1>3, <3>1
      <4> QED BY <4>1, <4>2, <4>3
    <3>2. CASE n # m
      <4>1. n \in 0..(m - 1) /\ g[n] = f[n] BY <2>1, <3>2
      <4>2. CASE n = 0
        BY <2>2, <4>1, <4>2
      <4>3. CASE n # 0
        <5>1. n - 1 \in 0..m /\ n - 1 # m /\ g[n - 1] = f[n - 1] BY <2>1, <4>1, <4>3
        <5>2. f[n] = UNION {Proxy!OneMore(q) : q \in f[n - 1]}
          <6> HIDE DEF g, h, Bad
          <6> QED BY <2>2, <4>1, <4>3
        <5>3. h[n] = UNION {Proxy!OneMore(q) : q \in g[n - 1]} BY <4>3
        <5> QED BY <4>1, <5>1, <5>2, <5>3
      <4> QED BY <4>2, <4>3
    <3> QED BY <3>1, <3>2
  <2>4. g = h
    <3>1. DOMAIN g = 0..m /\ DOMAIN h = 0..m
          /\ g = [n \in 0..m |-> g[n]] /\ h = [n \in 0..m |-> h[n]]
      OBVIOUS
    <3> HIDE DEF g, h
    <3> QED BY <2>3, <3>1
  <2>5. Is(g, m)
    <3>1. h = [n \in 0..m |->
                    IF n = 0 THEN {p} ELSE UNION {Proxy!OneMore(q) : q \in g[n - 1]}]
      OBVIOUS
    <3> HIDE DEF g, h
    <3> QED BY <2>4, <3>1
  <2> QED BY <2>5
<1> QED BY <1>2, <1>3

\* Nobody in the queue could be served.
Served(p) == Proxy!Servable(p, TRUE) = {}

\* The cooldown of the proxy x is one that somebody in the queue could wait for.
Awaited(p, x) ==
  /\ \A c \in Jobs : p.lease[c] # None => p.lease[c] # x
  /\ \E c \in Queued(p) : x \notin p.avoid[c]

\* The timer waits for the first cooldown that is awaited, or for an earlier one.
TimerOK(p) ==
  /\ p.wake # None => p.wake \in Elems(p.cooling)
  /\ Cardinality(Proxy!Active(p)) < p.limit =>
       \A k \in 1..Len(p.cooling) :
         Awaited(p, p.cooling[k]) => \E i \in 1..k : p.cooling[i] = p.wake

\* All that the coordinator promises about its fields between two calls.
Settles(p) == PoolOK(p) /\ Served(p) /\ TimerOK(p)

\* Which proxies somebody may get depends on these fields.
LEMMA SelectableOf ==
  ASSUME NEW p, NEW q, NEW c,
         q.limit = p.limit, q.throttle = p.throttle, q.cooling = p.cooling, q.lease = p.lease,
         q.avoid[c] = p.avoid[c]
  PROVE  Proxy!Selectable(q, c, TRUE) = Proxy!Selectable(p, c, TRUE)
<1>1. Proxy!Active(q) = Proxy!Active(p) /\ Proxy!ActiveProxies(q) = Proxy!ActiveProxies(p)
      /\ \A g : Proxy!ActiveOf(q, g) = Proxy!ActiveOf(p, g)
  BY DEF Proxy!Active, Proxy!ActiveProxies, Proxy!ActiveOf
<1>2. Proxy!MayConnect(q, DownloadOf(c), TRUE) <=> Proxy!MayConnect(p, DownloadOf(c), TRUE)
  BY <1>1 DEF Proxy!MayConnect
<1> QED BY <1>1, <1>2 DEF Proxy!Selectable

LEMMA ServedMeans ==
  ASSUME NEW p, PoolOK(p)
  PROVE  Served(p) <=> \A c \in Queued(p) : Proxy!Selectable(p, c, TRUE) = {}
BY DEF Served, Proxy!Servable, Queued, Elems

LEMMA ActiveSame ==
  ASSUME NEW p
  PROVE  /\ Proxy!Active(p) = {c \in Jobs : p.lease[c] # None}
         /\ Proxy!ActiveProxies(p) = {p.lease[c] : c \in {b \in Jobs : p.lease[b] # None}}
BY DEF Proxy!Active, Proxy!ActiveProxies

\* scheduleCooldownWake() sets the timer right.
LEMMA ArmedRings ==
  ASSUME NEW p, PoolOK(p), NEW q, q = [p EXCEPT !.wake = Proxy!Armed(p)], Served(p)
  PROVE  Settles(q) /\ Serves(p, q)
<1> DEFINE usable == {k \in 1..Len(p.cooling) :
               /\ p.cooling[k] \notin Proxy!ActiveProxies(p)
               /\ \E l \in 1..Len(p.queue) : p.cooling[k] \notin p.avoid[p.queue[l]]}
           k0 == Min(usable)
<1>1. p \in Pools /\ Len(p.cooling) \in Nat
  BY DEF PoolOK, Pools
<1>2. /\ q.configured = p.configured /\ q.limit = p.limit /\ q.throttle = p.throttle
      /\ q.cooling = p.cooling /\ q.groups = p.groups /\ q.avoid = p.avoid
      /\ q.queue = p.queue /\ q.lease = p.lease /\ q.wake = Proxy!Armed(p)
  BY <1>1 DEF Pools
<1>3. Proxy!Armed(p) = IF usable # {} /\ Cardinality(Proxy!Active(p)) < p.limit
                       THEN p.cooling[k0] ELSE None
  BY ProxyOperators DEF Proxy!Armed
<1>4. \A k \in 1..Len(p.cooling) : Awaited(p, p.cooling[k]) => k \in usable
  BY ActiveSame DEF Awaited, Queued, Elems
<1>5. usable \in SUBSET Nat /\ \A k \in usable : k \in 1..Len(p.cooling)
  BY <1>1
<1> HIDE DEF usable
<1>6. usable # {} => k0 \in usable /\ k0 \in Nat /\ \A k \in usable : k0 <= k
  BY <1>5, MinIn
<1> HIDE DEF k0
<1>7. q.wake # None => q.wake \in Elems(p.cooling)
  BY <1>2, <1>3, <1>5, <1>6 DEF Elems
<1>8. q.wake \in Proxies \union {None}
  <2>1. \A k \in 1..Len(p.cooling) : p.cooling[k] \in Proxies
    BY <1>1 DEF Pools
  <2> QED BY <1>7, <2>1 DEF Elems
<1>9. Proxy!Active(q) = Proxy!Active(p) /\ Queued(q) = Queued(p)
      /\ \A x : Awaited(q, x) <=> Awaited(p, x)
  BY <1>2 DEF Proxy!Active, Queued, Awaited
<1>10. TimerOK(q)
  <2> SUFFICES ASSUME Cardinality(Proxy!Active(q)) < q.limit, NEW k \in 1..Len(q.cooling),
                      Awaited(q, q.cooling[k])
               PROVE  \E i \in 1..k : q.cooling[i] = q.wake
    BY <1>2, <1>7 DEF TimerOK
  <2>1. k \in usable /\ k \in 1..Len(p.cooling)
    BY <1>2, <1>4, <1>9
  <2>2. k0 \in 1..k
    BY <1>1, <1>5, <1>6, <2>1
  <2>3. q.wake = p.cooling[k0]
    BY <1>2, <1>3, <1>9, <2>1
  <2> QED BY <1>2, <2>2, <2>3
<1>11. q \in Pools
  BY <1>1, <1>2, <1>8 DEF Pools
<1>12. PoolOK(q)
  BY <1>2, <1>9, <1>11 DEF PoolOK
<1>13. Served(q)
  <2>1. \A c : Proxy!Selectable(q, c, TRUE) = Proxy!Selectable(p, c, TRUE)
    BY <1>2, SelectableOf
  <2>2. \A c \in Queued(p) : Proxy!Selectable(p, c, TRUE) = {}
    BY ServedMeans
  <2>3. \A c \in Queued(q) : Proxy!Selectable(q, c, TRUE) = {}
    BY <1>9, <2>1, <2>2
  <2> QED BY <1>12, <2>3, ServedMeans
<1>14. Serves(p, q)
  BY <1>2, <1>9 DEF Serves, KeptBut
<1> QED BY <1>10, <1>12, <1>13, <1>14 DEF Settles

(***************************************************************************)
(* drain() serves the queue until nobody in it could be served, and        *)
(* changes nothing else but the timer.                                     *)
(***************************************************************************)
LEMMA DrainedServes ==
  ASSUME NEW p, PoolOK(p), NEW q \in Proxy!Drained(p)
  PROVE  Settles(q) /\ Serves(p, q)
<1> DEFINE L == Len(p.queue)
           after == CHOOSE f : f = Turns(p, L, f)
<1>1. L \in Nat
  BY DEF PoolOK, Pools
<1>2. after = Turns(p, L, after)
  <2>1. \E f : f = Turns(p, L, f)
    BY <1>1, DrainFunction
  <2> QED BY <2>1
<1>3. PICK r \in after[L] : q = [r EXCEPT !.wake = Proxy!Armed(r)]
  BY DEF Proxy!Drained, Turns
<1> HIDE DEF after
<1> USE DEF Turns
<1> DEFINE Fine(n, s) == PoolOK(s) /\ Serves(p, s) /\ (Served(s) \/ Len(s.queue) = L - n)
           Bad == {n \in 0..L : ~\A s \in after[n] : Fine(n, s)}
<1>4. Bad = {}
  <2> SUFFICES ASSUME Bad # {} PROVE FALSE
    OBVIOUS
  <2>1. Bad \in SUBSET Nat
    BY <1>1
  <2>2. PICK m \in Bad : \A n \in Bad : m <= n
    BY <2>1, MinNat
  <2>3. m \in 0..L /\ m \in Nat
    BY <1>1
  <2>4. PICK s \in after[m] : ~Fine(m, s)
    OBVIOUS
  <2>5. CASE m = 0
    <3>1. after[m] = {p}
      BY <1>2, <2>3, <2>5
    <3>2. s = p
      BY <2>4, <3>1
    <3>3. Fine(m, p)
      BY <1>1, <2>5 DEF Serves, KeptBut
    <3> QED BY <2>4, <3>2, <3>3
  <2>6. CASE m # 0
    <3>1. m - 1 \in 0..L /\ ~(m <= m - 1)
      BY <1>1, <2>3, <2>6
    <3>2. after[m] = UNION {Proxy!OneMore(t) : t \in after[m - 1]}
      BY <1>2, <2>3, <2>6
    <3>3. PICK t \in after[m - 1] : s \in Proxy!OneMore(t)
      BY <2>4, <3>2
    <3>4. m - 1 \notin Bad
      BY <2>2, <3>1
    <3>5. Fine(m - 1, t)
      BY <3>1, <3>3, <3>4
    <3>6. PoolOK(s) /\ Serves(t, s) /\ ((Served(s) /\ s = t) \/ Len(s.queue) = Len(t.queue) - 1)
      BY <3>3, <3>5, OneMoreServes DEF Served
    <3>7. Serves(p, s)
      BY <3>5, <3>6, ServesTransitive
    <3>8. Served(s) \/ Len(s.queue) = L - m
      <4>1. CASE Served(t)
        <5>1. s = t
          BY <3>3, <4>1 DEF Proxy!OneMore, Served
        <5> QED BY <4>1, <5>1
      <4>2. CASE Len(t.queue) = L - (m - 1)
        BY <1>1, <2>3, <3>6, <4>2
      <4> QED BY <3>5, <4>1, <4>2
    <3> QED BY <2>4, <3>6, <3>7, <3>8
  <2> QED BY <2>5, <2>6
<1>5. Fine(L, r)
  BY <1>1, <1>3, <1>4
<1>6. Served(r)
  <2>1. CASE Len(r.queue) = 0
    BY <2>1 DEF Served, Proxy!Servable
  <2> QED BY <1>1, <1>5, <2>1
<1>7. Settles(q) /\ Serves(r, q)
  BY <1>3, <1>5, <1>6, ArmedRings
<1> QED BY <1>5, <1>7, ServesTransitive

-----------------------------------------------------------------------------
(***************************************************************************)
(* Every call of the coordinator ends with drain(), so that after each of  *)
(* them nobody waits who could be served, and only the caller and those    *)
(* it names are disturbed (KeptBut).                                       *)
(***************************************************************************)

\* Numbers, and sequences that name everything once.
LEMMA MinPair ==
  ASSUME NEW a \in Int, NEW b \in Int
  PROVE  Min({a, b}) = IF a <= b THEN a ELSE b
<1>1. \E x \in {a, b} : \A y \in {a, b} : x <= y
  OBVIOUS
<1>2. Min({a, b}) \in {a, b} /\ \A y \in {a, b} : Min({a, b}) <= y
  BY <1>1 DEF Min
<1> QED BY <1>2

LEMMA MaxPair ==
  ASSUME NEW a \in Int, NEW b \in Int
  PROVE  Max({a, b}) = IF a >= b THEN a ELSE b
<1>1. \E x \in {a, b} : \A y \in {a, b} : x >= y
  OBVIOUS
<1>2. Max({a, b}) \in {a, b} /\ \A y \in {a, b} : Max({a, b}) >= y
  BY <1>1 DEF Max
<1> QED BY <1>2

LEMMA CeilDivBound ==
  ASSUME NEW a \in Nat \ {0}, NEW b \in Nat \ {0}
  PROVE  Proxy!CeilDiv(a, b) \in Nat /\ Proxy!CeilDiv(a, b) <= a
<1> DEFINE q == (a + b - 1) \div b
           r == (a + b - 1) % b
<1>1. q \in Nat /\ r \in 0..(b - 1) /\ a + b - 1 = b * q + r
  OBVIOUS
<1> HIDE DEF q, r
<1>2. ASSUME q > a PROVE FALSE
  <2>1. b * q >= b * (a + 1)
    BY <1>1, <1>2
  <2>2. b * (a + 1) = b * a + b
    OBVIOUS
  <2>3. b * a >= a
    OBVIOUS
  <2> QED BY <1>1, <2>1, <2>2, <2>3
<1> QED BY <1>1, <1>2 DEF Proxy!CeilDiv, q

LEMMA OnlyDistinct ==
  ASSUME NEW A, NEW s \in Seq(A), Distinct(s), NEW S
  PROVE  Only(s, S) \in Seq(A) /\ Distinct(Only(s, S)) /\ Elems(Only(s, S)) = Elems(s) \intersect S
<1>1. Only(s, S) \in Seq(A)
  BY OnlySeq
<1>2. Elems(Only(s, S)) = Elems(s) \intersect S
  BY OnlyElements DEF Elems
<1> DEFINE t == Only(s, S)
<1>3. InOrder(t, s)
  BY OnlyOrder
<1> HIDE DEF t
<1>4. ASSUME NEW m \in 1..Len(t), NEW n \in 1..Len(t), m < n PROVE t[m] # t[n]
  <2>1. PICK j, k \in 1..Len(s) : j < k /\ t[m] = s[j] /\ t[n] = s[k]
    BY <1>3, <1>4 DEF InOrder
  <2> QED BY <2>1 DEF Distinct
<1>5. Distinct(t)
  BY <1>1, <1>4 DEF Distinct, t
<1> QED BY <1>1, <1>2, <1>5 DEF t

LEMMA AppendDistinct ==
  ASSUME NEW A, NEW s \in Seq(A), Distinct(s), NEW x \in A, x \notin Elems(s)
  PROVE  Append(s, x) \in Seq(A) /\ Distinct(Append(s, x)) /\ Elems(Append(s, x)) = Elems(s) \union {x}
<1> DEFINE t == Append(s, x)
<1>1. /\ t \in Seq(A) /\ Len(t) = Len(s) + 1 /\ Len(s) \in Nat
      /\ \A k \in 1..Len(s) : t[k] = s[k]
      /\ t[Len(s) + 1] = x
  OBVIOUS
<1> HIDE DEF t
<1>2. \A k \in 1..Len(t) : k \in 1..Len(s) \/ k = Len(s) + 1
  BY <1>1
<1>3. Distinct(t)
  <2> SUFFICES ASSUME NEW k \in 1..Len(t), NEW l \in 1..Len(t), t[k] = t[l] PROVE k = l
    BY DEF Distinct
  <2> QED BY <1>1, <1>2 DEF Distinct, Elems
<1>4. Elems(t) = Elems(s) \union {x}
  <2>1. ASSUME NEW k \in 1..Len(t) PROVE t[k] \in Elems(s) \union {x}
    BY <1>1, <1>2 DEF Elems
  <2>2. ASSUME NEW k \in 1..Len(s) PROVE s[k] \in Elems(t)
    <3>1. k \in 1..Len(t) /\ t[k] = s[k] BY <1>1
    <3> QED BY <3>1 DEF Elems
  <2>3. x \in Elems(t)
    <3>1. Len(s) + 1 \in 1..Len(t) BY <1>1
    <3> QED BY <1>1, <3>1 DEF Elems
  <2> QED BY <2>1, <2>2, <2>3 DEF Elems
<1> QED BY <1>1, <1>3, <1>4 DEF t

LEMMA TailDistinct ==
  ASSUME NEW A, NEW s \in Seq(A), Distinct(s), s # <<>>
  PROVE  /\ Tail(s) \in Seq(A) /\ Distinct(Tail(s)) /\ Len(Tail(s)) = Len(s) - 1
         /\ \A k \in 1..Len(Tail(s)) : Tail(s)[k] = s[k + 1]
         /\ Len(s) \in Nat /\ 1 \in 1..Len(s) /\ Head(s) = s[1]
         /\ Elems(Tail(s)) \subseteq Elems(s)
<1> DEFINE t == Tail(s)
<1>1. /\ t \in Seq(A) /\ Len(t) = Len(s) - 1 /\ Len(s) \in Nat
      /\ \A k \in 1..Len(t) : t[k] = s[k + 1]
      /\ 1 \in 1..Len(s) /\ Head(s) = s[1]
  OBVIOUS
<1> HIDE DEF t
<1>2. \A k \in 1..Len(t) : k + 1 \in 1..Len(s) /\ t[k] = s[k + 1]
  BY <1>1
<1>3. Distinct(t)
  <2> SUFFICES ASSUME NEW k \in 1..Len(t), NEW l \in 1..Len(t), t[k] = t[l] PROVE k = l
    BY DEF Distinct
  <2>1. k + 1 = l + 1 BY <1>2 DEF Distinct
  <2> QED BY <1>1, <2>1
<1>4. Elems(t) \subseteq Elems(s)
  BY <1>2 DEF Elems
<1> QED BY <1>1, <1>2, <1>3, <1>4 DEF t

\* Each call of the coordinator ends with drain().
LEMMA CallEnds ==
  ASSUME NEW p, NEW r, PoolOK(r), NEW cs, KeptBut(p, r, cs), NEW q \in Proxy!Drained(r)
  PROVE  Settles(q) /\ KeptBut(p, q, cs) /\ Serves(r, q)
<1>1. Settles(q) /\ Serves(r, q)
  BY DrainedServes
<1>2. KeptBut(p, q, cs \union {})
  BY <1>1, KeptTransitive DEF Serves
<1>3. cs \union {} = cs
  OBVIOUS
<1> QED BY <1>1, <1>2, <1>3

In(p, c) == c \in Queued(p) \/ p.lease[c] # None

\* acquire(): the caller waits or has a proxy, and nobody else is disturbed.
LEMMA AskedOK ==
  ASSUME NEW p, PoolOK(p), NEW c \in Jobs, Out(p, c), NEW q \in Proxy!Asked(p, c)
  PROVE  /\ Settles(q) /\ KeptBut(p, q, {c}) /\ In(q, c)
         /\ q.avoid = p.avoid /\ q.groups = p.groups
<1> DEFINE r == [p EXCEPT !.queue = Append(@, c)]
<1>1. q \in Proxy!Drained(r)
  BY DEF Proxy!Asked
<1>2. p \in Pools /\ p.queue \in Seq(Jobs) /\ Distinct(p.queue)
  BY DEF PoolOK, Pools
<1>3. /\ r.configured = p.configured /\ r.limit = p.limit /\ r.throttle = p.throttle
      /\ r.cooling = p.cooling /\ r.groups = p.groups /\ r.avoid = p.avoid
      /\ r.queue = Append(p.queue, c) /\ r.lease = p.lease /\ r.wake = p.wake
  BY <1>2 DEF Pools
<1>4. /\ r.queue \in Seq(Jobs) /\ Distinct(r.queue) /\ Queued(r) = Queued(p) \union {c}
  BY <1>2, <1>3, AppendDistinct DEF Out, Queued
<1>5. r \in Pools
  BY <1>2, <1>3, <1>4 DEF Pools
<1> HIDE DEF r
<1>6. PoolOK(r)
  BY <1>3, <1>4, <1>5 DEF PoolOK, Out
<1>7. KeptBut(p, r, {c})
  BY <1>3, <1>4 DEF KeptBut
<1>8. Settles(q) /\ KeptBut(p, q, {c}) /\ Serves(r, q)
  BY <1>1, <1>6, <1>7, CallEnds
<1> QED BY <1>3, <1>4, <1>8 DEF Serves, KeptBut, In

\* Signals that fire take their waiters out of the queue, and only them.
LEMMA LeftOK ==
  ASSUME NEW p, PoolOK(p), NEW cs \in SUBSET Jobs, NEW q \in Proxy!Left(p, cs)
  PROVE  /\ Settles(q) /\ KeptBut(p, q, cs) /\ q.avoid = p.avoid /\ q.groups = p.groups
         /\ \A c \in cs : q.lease[c] = p.lease[c] /\ c \notin Queued(q)
<1> DEFINE r == [p EXCEPT !.queue = Only(@, Jobs \ cs)]
<1>1. q \in Proxy!Drained(r)
  BY ProxyOperators DEF Proxy!Left
<1>2. p \in Pools /\ p.queue \in Seq(Jobs) /\ Distinct(p.queue)
  BY DEF PoolOK, Pools
<1>3. /\ r.configured = p.configured /\ r.limit = p.limit /\ r.throttle = p.throttle
      /\ r.cooling = p.cooling /\ r.groups = p.groups /\ r.avoid = p.avoid
      /\ r.queue = Only(p.queue, Jobs \ cs) /\ r.lease = p.lease /\ r.wake = p.wake
  BY <1>2 DEF Pools
<1>4. r.queue \in Seq(Jobs) /\ Distinct(r.queue) /\ Queued(r) = Queued(p) \intersect (Jobs \ cs)
  BY <1>2, <1>3, OnlyDistinct DEF Queued
<1>5. r \in Pools
  BY <1>2, <1>3, <1>4 DEF Pools
<1> HIDE DEF r
<1>6. PoolOK(r)
  BY <1>3, <1>4, <1>5 DEF PoolOK
<1>7. KeptBut(p, r, cs)
  BY <1>3, <1>4 DEF KeptBut
<1>8. Settles(q) /\ KeptBut(p, q, cs) /\ Serves(r, q)
  BY <1>1, <1>6, <1>7, CallEnds
<1>9. r.lease \in [Jobs -> Proxies \union {None}]
  BY <1>5 DEF Pools
<1>10. ASSUME NEW c \in cs PROVE q.lease[c] = p.lease[c] /\ c \notin Queued(q)
  <2>1. c \notin Queued(r) /\ c \in Jobs /\ (r.lease[c] # None => q.lease[c] = r.lease[c])
        /\ (r.lease[c] = None => q.lease[c] = None /\ c \notin Queued(q))
    BY <1>4, <1>8 DEF Serves, KeptBut
  <2>2. CASE r.lease[c] = None
    BY <1>3, <2>1, <2>2
  <2>3. CASE r.lease[c] # None
    <3>1. q.lease[c] = r.lease[c] /\ q.lease[c] # None
      BY <2>1, <2>3
    <3> QED BY <1>3, <1>8, <3>1 DEF Settles, PoolOK
  <2> QED BY <2>2, <2>3
<1> QED BY <1>3, <1>8, <1>10 DEF Serves

\* Limits, groups and the times of cooldown change; nobody comes or goes.
LEMMA TunedOK ==
  ASSUME NEW p, PoolOK(p), NEW r, PoolOK(r),
         r.queue = p.queue, r.lease = p.lease, r.avoid = p.avoid,
         NEW q \in Proxy!Drained(r)
  PROVE  /\ Settles(q) /\ KeptBut(p, q, {}) /\ q.avoid = p.avoid /\ q.groups = r.groups
<1>1. KeptBut(p, r, {})
  BY DEF KeptBut, Queued
<1> QED BY <1>1, CallEnds DEF Serves

\* setConnectionLimit()
LEMMA LimitedOK ==
  ASSUME NEW p, PoolOK(p), NEW limit \in Nat \ {0, 1}, NEW q \in Proxy!Limited(p, limit)
  PROVE  Settles(q) /\ KeptBut(p, q, {}) /\ q.avoid = p.avoid /\ q.groups = p.groups
<1>1. p \in Pools /\ p.limit \in Nat
  BY DEF PoolOK, Pools
<1>2. CASE limit # p.configured
  <2> DEFINE r == [p EXCEPT !.configured = limit, !.limit = limit,
                            !.throttle = [g \in Downloads |-> 0]]
  <2>1. /\ r.configured = limit /\ r.limit = limit /\ r.throttle = [g \in Downloads |-> 0]
        /\ r.cooling = p.cooling /\ r.groups = p.groups /\ r.avoid = p.avoid
        /\ r.queue = p.queue /\ r.lease = p.lease /\ r.wake = p.wake
    BY <1>1 DEF Pools
  <2>2. r \in Pools
    BY <1>1, <2>1 DEF Pools
  <2>3. q \in Proxy!Drained(r)
    BY <1>2 DEF Proxy!Limited
  <2> HIDE DEF r
  <2>4. PoolOK(r)
    BY <2>1, <2>2 DEF PoolOK, Queued
  <2> QED BY <2>1, <2>3, <2>4, TunedOK
<1>3. CASE limit = p.configured
  <2> DEFINE r == [p EXCEPT !.limit = Min({@, limit})]
  <2>1. /\ r.configured = p.configured /\ r.limit = Min({p.limit, limit}) /\ r.throttle = p.throttle
        /\ r.cooling = p.cooling /\ r.groups = p.groups /\ r.avoid = p.avoid
        /\ r.queue = p.queue /\ r.lease = p.lease /\ r.wake = p.wake
    BY <1>1 DEF Pools
  <2>2. r.limit = p.limit
    BY <1>1, <1>3, <2>1, MinPair DEF PoolOK
  <2>3. r \in Pools
    BY <1>1, <2>1, <2>2 DEF Pools
  <2>4. q \in Proxy!Drained(r)
    BY <1>3, ProxyOperators DEF Proxy!Limited
  <2> HIDE DEF r
  <2>5. PoolOK(r)
    BY <2>1, <2>2, <2>3 DEF PoolOK, Queued
  <2> QED BY <2>1, <2>4, <2>5, TunedOK
<1> QED BY <1>2, <1>3

\* registerGroup(), and the function it returns.
LEMMA RegisteredOK ==
  ASSUME NEW p, PoolOK(p), NEW g \in Downloads, NEW q \in Proxy!Registered(p, g)
  PROVE  Settles(q) /\ KeptBut(p, q, {}) /\ q.avoid = p.avoid /\ q.groups = p.groups \union {g}
<1>1. p \in Pools
  BY DEF PoolOK
<1>2. PICK old \in SUBSET {h \in Downloads \ p.groups : p.throttle[h] > 0} :
        q \in Proxy!Drained([p EXCEPT !.groups = @ \union {g},
                !.throttle = [h \in Downloads |-> IF h \in old THEN 0 ELSE @[h]]])
  BY Zenon DEF Proxy!Registered, Proxy!DrainedAll
<1> DEFINE r == [p EXCEPT !.groups = @ \union {g},
                !.throttle = [h \in Downloads |-> IF h \in old THEN 0 ELSE @[h]]]
<1>3. /\ r.configured = p.configured /\ r.limit = p.limit
      /\ r.throttle = [h \in Downloads |-> IF h \in old THEN 0 ELSE p.throttle[h]]
      /\ r.cooling = p.cooling /\ r.groups = p.groups \union {g} /\ r.avoid = p.avoid
      /\ r.queue = p.queue /\ r.lease = p.lease /\ r.wake = p.wake
  BY <1>1 DEF Pools
<1>4. r \in Pools
  BY Zenon, <1>1, <1>3 DEF Pools
<1>5. q \in Proxy!Drained(r)
  BY <1>2
<1> HIDE DEF r
<1>6. PoolOK(r)
  BY <1>3, <1>4 DEF PoolOK, Queued
<1> QED BY <1>3, <1>5, <1>6, TunedOK

LEMMA UnregisteredOK ==
  ASSUME NEW p, PoolOK(p), NEW g \in Downloads, NEW q \in Proxy!Unregistered(p, g)
  PROVE  Settles(q) /\ KeptBut(p, q, {}) /\ q.avoid = p.avoid /\ q.groups = p.groups \ {g}
<1> DEFINE r == [p EXCEPT !.groups = @ \ {g}]
<1>1. p \in Pools
  BY DEF PoolOK
<1>2. /\ r.configured = p.configured /\ r.limit = p.limit /\ r.throttle = p.throttle
      /\ r.cooling = p.cooling /\ r.groups = p.groups \ {g} /\ r.avoid = p.avoid
      /\ r.queue = p.queue /\ r.lease = p.lease /\ r.wake = p.wake
  BY <1>1 DEF Pools
<1>3. r \in Pools
  BY <1>1, <1>2 DEF Pools
<1>4. q \in Proxy!Drained(r)
  BY DEF Proxy!Unregistered
<1> HIDE DEF r
<1>5. PoolOK(r)
  BY <1>2, <1>3 DEF PoolOK, Queued
<1> QED BY <1>2, <1>4, <1>5, TunedOK

\* What a 503 or a 429 does to the limits leaves them positive and within the configured one.
LEMMA PoolFinite ==
  /\ IsFiniteSet(Downloads)
  /\ \A G \in SUBSET Downloads : IsFiniteSet(G) /\ Cardinality(G) \in Nat
BY SegmentedAssumption, FS_Subset, FS_CardinalityType

LEMMA GroupCount ==
  ASSUME NEW p, p \in Pools
  PROVE  Proxy!Max({1, Proxy!Cardinality(p.groups)}) \in Nat \ {0}
<1>1. Cardinality(p.groups) \in Nat
  BY PoolFinite DEF Pools
<1> QED BY <1>1, ProxyOperators, MaxPair

LEMMA Reported503OK ==
  ASSUME NEW p, Settles(p), NEW g \in Downloads, NEW q \in Proxy!Reported503(p, g)
  PROVE  Settles(q) /\ KeptBut(p, q, {}) /\ q.avoid = p.avoid /\ q.groups = p.groups
<1>1. CASE q = p
  BY <1>1 DEF KeptBut
<1>2. CASE q # p
  <2> DEFINE b == Proxy!Max({1, Proxy!Cardinality(p.groups)})
             fair == Proxy!CeilDiv(p.limit, b)
             share == Proxy!Max({2, fair})
             base == IF p.throttle[g] > 0 THEN Proxy!Min({p.throttle[g], share}) ELSE share
             low == Proxy!Lowered(base)
             r == [p EXCEPT !.throttle[g] = low]
  <2>1. q \in Proxy!Drained(r)
    BY <1>2 DEF Proxy!Reported503, Proxy!LowestLimit
  <2>2. /\ p \in Pools /\ p.limit \in Nat /\ p.throttle \in [Downloads -> Nat] /\ p.limit >= 2
        /\ p.configured \in Nat /\ p.limit <= p.configured
        /\ PoolOK(p)
    BY DEF Settles, PoolOK, Pools
  <2>3. /\ r.configured = p.configured /\ r.limit = p.limit
        /\ r.throttle = [p.throttle EXCEPT ![g] = low]
        /\ r.cooling = p.cooling /\ r.groups = p.groups /\ r.avoid = p.avoid
        /\ r.queue = p.queue /\ r.lease = p.lease /\ r.wake = p.wake
    BY <2>2 DEF Pools
  <2>4. fair \in Nat /\ fair <= p.limit
    <3>1. b \in Nat \ {0} BY <2>2, GroupCount
    <3> HIDE DEF b
    <3> QED BY <2>2, <3>1, CeilDivBound
  <2> HIDE DEF r, fair
  <2>5. share \in Nat /\ share >= 2 /\ share <= p.configured
    BY <2>2, <2>4, ProxyOperators, MaxPair
  <2> HIDE DEF share
  <2>6. base \in Nat /\ base <= p.configured
    BY <2>2, <2>5, ProxyOperators, MinPair
  <2> HIDE DEF base
  <2>7. low \in Nat /\ low >= 2 /\ low <= p.configured
    <3>1. low = Max({2, base - 2})
      BY ProxyOperators DEF Proxy!Lowered, Proxy!LowestLimit
    <3> QED BY <2>2, <2>6, <3>1, MaxPair
  <2> HIDE DEF low
  <2>8. r \in Pools
    BY <2>2, <2>3, <2>7, Zenon DEF Pools, r
  <2>9. PoolOK(r)
    BY <2>2, <2>3, <2>7, <2>8 DEF PoolOK, Queued
  <2> QED BY <2>1, <2>2, <2>3, <2>9, TunedOK
<1> QED BY <1>1, <1>2

LEMMA Reported429OK ==
  ASSUME NEW p, Settles(p), NEW q \in Proxy!Reported429(p)
  PROVE  Settles(q) /\ KeptBut(p, q, {}) /\ q.avoid = p.avoid /\ q.groups = p.groups
<1>1. CASE q = p
  BY <1>1 DEF KeptBut
<1>2. CASE q # p
  <2> DEFINE low == Proxy!Lowered(p.limit)
             r == [p EXCEPT !.limit = low]
  <2>1. q \in Proxy!Drained(r)
    BY <1>2 DEF Proxy!Reported429
  <2>2. /\ p \in Pools /\ p.limit \in Nat /\ p.limit >= 2
        /\ p.configured \in Nat /\ p.limit <= p.configured /\ PoolOK(p)
    BY DEF Settles, PoolOK, Pools
  <2>3. /\ r.configured = p.configured /\ r.limit = low /\ r.throttle = p.throttle
        /\ r.cooling = p.cooling /\ r.groups = p.groups /\ r.avoid = p.avoid
        /\ r.queue = p.queue /\ r.lease = p.lease /\ r.wake = p.wake
    BY <2>2 DEF Pools
  <2>4. low \in Nat /\ low >= 2 /\ low <= p.configured
    <3>1. low = Max({2, p.limit - 2})
      BY ProxyOperators DEF Proxy!Lowered, Proxy!LowestLimit
    <3> QED BY <2>2, <3>1, MaxPair
  <2> HIDE DEF low
  <2>5. r \in Pools
    BY <2>2, <2>3, <2>4 DEF Pools
  <2> HIDE DEF r
  <2>6. PoolOK(r)
    BY <2>2, <2>3, <2>4, <2>5 DEF PoolOK, Queued
  <2> QED BY <2>1, <2>2, <2>3, <2>6, TunedOK
<1> QED BY <1>1, <1>2

\* releaseCapacity(), before the queue is served.
LEMMA FreedFields ==
  ASSUME NEW p, PoolOK(p), NEW c \in Jobs
  PROVE  LET r == Proxy!Freed(p, c)
         IN  /\ r.configured = p.configured /\ r.limit = p.limit /\ r.throttle = p.throttle
             /\ r.cooling = p.cooling /\ r.groups = p.groups /\ r.avoid = p.avoid
             /\ r.queue = p.queue /\ r.lease = [p.lease EXCEPT ![c] = None] /\ r.wake = p.wake
             /\ PoolOK(r)
<1> DEFINE r == Proxy!Freed(p, c)
<1>1. p \in Pools
  BY DEF PoolOK
<1>2. /\ r.configured = p.configured /\ r.limit = p.limit /\ r.throttle = p.throttle
      /\ r.cooling = p.cooling /\ r.groups = p.groups /\ r.avoid = p.avoid
      /\ r.queue = p.queue /\ r.lease = [p.lease EXCEPT ![c] = None] /\ r.wake = p.wake
  BY <1>1 DEF Pools, Proxy!Freed
<1>3. r \in Pools
  BY <1>1, <1>2 DEF Pools, Proxy!Freed
<1> HIDE DEF r
<1>4. p.lease \in [Jobs -> Proxies \union {None}]
  BY <1>1 DEF Pools
<1>5. PoolOK(r)
  BY <1>2, <1>3, <1>4 DEF PoolOK, Queued
<1> QED BY <1>2, <1>5 DEF r

\* A cooldown that is over or begins anew.
LEMMA CooledFields ==
  ASSUME NEW p, PoolOK(p), NEW s, s \in Seq(Proxies), Distinct(s)
  PROVE  LET r == [p EXCEPT !.cooling = s]
         IN  /\ r.configured = p.configured /\ r.limit = p.limit /\ r.throttle = p.throttle
             /\ r.cooling = s /\ r.groups = p.groups /\ r.avoid = p.avoid
             /\ r.queue = p.queue /\ r.lease = p.lease /\ r.wake = p.wake
             /\ PoolOK(r)
<1> DEFINE r == [p EXCEPT !.cooling = s]
<1>1. p \in Pools
  BY DEF PoolOK
<1>2. /\ r.configured = p.configured /\ r.limit = p.limit /\ r.throttle = p.throttle
      /\ r.cooling = s /\ r.groups = p.groups /\ r.avoid = p.avoid
      /\ r.queue = p.queue /\ r.lease = p.lease /\ r.wake = p.wake
  BY <1>1 DEF Pools
<1>3. r \in Pools
  BY <1>1, <1>2 DEF Pools
<1> HIDE DEF r
<1>4. PoolOK(r)
  BY <1>2, <1>3 DEF PoolOK, Queued
<1> QED BY <1>2, <1>4 DEF r

\* A proxy leaves the list of those that cool down, and may go to its end.
LEMMA CoolingSequences ==
  ASSUME NEW p, PoolOK(p), NEW x \in Proxies
  PROVE  LET s == Only(p.cooling, Proxies \ {x})
         IN  /\ s \in Seq(Proxies) /\ Distinct(s)
             /\ Append(s, x) \in Seq(Proxies) /\ Distinct(Append(s, x))
<1>1. p.cooling \in Seq(Proxies) /\ Distinct(p.cooling)
  BY DEF PoolOK, Pools
<1>2. LET s == Only(p.cooling, Proxies \ {x})
      IN  s \in Seq(Proxies) /\ Distinct(s) /\ x \notin Elems(s)
  BY <1>1, OnlyDistinct
<1> QED BY <1>2, AppendDistinct

\* What is true of every way to give back the lease of a caller.
GaveBack(p, q, c) ==
  /\ Settles(q) /\ KeptBut(p, q, {c}) /\ Out(q, c)
  /\ q.avoid = p.avoid /\ q.groups = p.groups

\* The fields of a coordinator before it drains, when c has given back its lease.
GivesBack(p, r, c) ==
  /\ PoolOK(r) /\ r.queue = p.queue /\ r.avoid = p.avoid /\ r.groups = p.groups
  /\ r.lease = [p.lease EXCEPT ![c] = None]

\* The ways to give back a lease.
LEMMA GivesBackOK ==
  ASSUME NEW p, PoolOK(p), NEW c \in Jobs, c \notin Queued(p),
         NEW r, GivesBack(p, r, c), NEW q \in Proxy!Drained(r)
  PROVE  GaveBack(p, q, c)
<1>1. PoolOK(r) /\ r.queue = p.queue /\ r.avoid = p.avoid /\ r.groups = p.groups
      /\ r.lease = [p.lease EXCEPT ![c] = None]
  BY DEF GivesBack
<1>2. p.lease \in [Jobs -> Proxies \union {None}]
  BY DEF PoolOK, Pools
<1>3. KeptBut(p, r, {c}) /\ r.lease[c] = None /\ c \notin Queued(r)
  BY <1>1, <1>2 DEF KeptBut, Queued
<1>4. Settles(q) /\ KeptBut(p, q, {c}) /\ Serves(r, q)
  BY <1>1, <1>3, CallEnds
<1>5. q.avoid = r.avoid /\ q.groups = r.groups /\ Out(q, c)
  BY <1>3, <1>4 DEF Serves, KeptBut, Out
<1> QED BY <1>1, <1>4, <1>5 DEF GaveBack

LEMMA SlotGivenOK ==
  ASSUME NEW p, PoolOK(p), NEW c \in Jobs, c \notin Queued(p), NEW q \in Proxy!SlotGiven(p, c)
  PROVE  GaveBack(p, q, c)
<1> DEFINE r == Proxy!Freed(p, c)
<1>1. q \in Proxy!Drained(r)
  BY DEF Proxy!SlotGiven
<1>2. /\ r.groups = p.groups /\ r.avoid = p.avoid /\ r.queue = p.queue
      /\ r.lease = [p.lease EXCEPT ![c] = None] /\ PoolOK(r)
  BY FreedFields
<1> HIDE DEF r
<1>3. GivesBack(p, r, c)
  BY <1>2 DEF GivesBack
<1> QED BY <1>1, <1>3, GivesBackOK

LEMMA ReleasedFailedOK ==
  ASSUME NEW p, PoolOK(p), NEW c \in Jobs, c \notin Queued(p), NEW x \in Proxies,
         NEW q \in Proxy!ReleasedFailed(p, c, x)
  PROVE  GaveBack(p, q, c)
<1> DEFINE f == Proxy!Freed(p, c)
           s == Append(Only(f.cooling, Proxies \ {x}), x)
           r == [f EXCEPT !.cooling = s]
<1>1. q \in Proxy!Drained(r)
  <2>1. Proxy!Cooled(f, x) = r
    BY ProxyOperators DEF Proxy!Cooled
  <2> QED BY <2>1 DEF Proxy!ReleasedFailed
<1>2. /\ f.groups = p.groups /\ f.avoid = p.avoid /\ f.queue = p.queue
      /\ f.lease = [p.lease EXCEPT ![c] = None] /\ PoolOK(f)
  BY FreedFields
<1> HIDE DEF f
<1>3. s \in Seq(Proxies) /\ Distinct(s)
  BY <1>2, CoolingSequences
<1> HIDE DEF s
<1>4. /\ r.groups = f.groups /\ r.avoid = f.avoid /\ r.queue = f.queue
      /\ r.lease = f.lease /\ PoolOK(r)
  BY <1>2, <1>3, CooledFields
<1> HIDE DEF r
<1>5. GivesBack(p, r, c)
  BY <1>2, <1>4 DEF GivesBack
<1> QED BY <1>1, <1>5, GivesBackOK

LEMMA ReleasedWellOK ==
  ASSUME NEW p, PoolOK(p), NEW c \in Jobs, c \notin Queued(p), NEW x \in Proxies,
         NEW q \in Proxy!ReleasedWell(p, c, x)
  PROVE  GaveBack(p, q, c)
<1> DEFINE f == Proxy!Freed(p, c)
           s == Only(f.cooling, Proxies \ {x})
           r == [f EXCEPT !.cooling = s]
<1>1. q \in Proxy!Drained(r)
  BY ProxyOperators DEF Proxy!ReleasedWell
<1>2. /\ f.groups = p.groups /\ f.avoid = p.avoid /\ f.queue = p.queue
      /\ f.lease = [p.lease EXCEPT ![c] = None] /\ PoolOK(f)
  BY FreedFields
<1> HIDE DEF f
<1>3. s \in Seq(Proxies) /\ Distinct(s)
  BY <1>2, CoolingSequences
<1> HIDE DEF s
<1>4. /\ r.groups = f.groups /\ r.avoid = f.avoid /\ r.queue = f.queue
      /\ r.lease = f.lease /\ PoolOK(r)
  BY <1>2, <1>3, CooledFields
<1> HIDE DEF r
<1>5. GivesBack(p, r, c)
  BY <1>2, <1>4 DEF GivesBack
<1> QED BY <1>1, <1>5, GivesBackOK

\* restoreAdaptiveCapacity() leaves the limits within their bounds.
LEMMA RestoredOK ==
  ASSUME NEW p, PoolOK(p), NEW g \in Downloads, NEW q \in Proxy!Restored(p, g)
  PROVE  /\ PoolOK(q) /\ q.queue = p.queue /\ q.lease = p.lease
         /\ q.avoid = p.avoid /\ q.groups = p.groups
<1> DEFINE t == p.throttle[g]
           raised == Proxy!Min({p.configured, t + Proxy!CeilDiv(t, 4)})
           origin == {t} \union (IF t = 0 THEN {}
                                 ELSE IF raised >= p.configured THEN {0} ELSE {raised})
           common == {p.limit} \union (IF p.limit < p.configured THEN {p.limit + 1} ELSE {})
<1>1. PICK o \in origin, l \in common : q = Proxy!Retuned(p, g, o, l)
  BY DEF Proxy!Restored
<1>2. /\ p \in Pools /\ p.limit \in Nat /\ p.limit >= 2 /\ p.limit <= p.configured
      /\ p.configured \in Nat /\ t \in Nat /\ p.throttle \in [Downloads -> Nat]
      /\ (t = 0 \/ (t >= 2 /\ t <= p.configured))
  BY DEF PoolOK, Pools
<1>3. l \in Nat /\ l >= 2 /\ l <= p.configured
  BY <1>2
<1>4. o \in Nat /\ (o = 0 \/ (o >= 2 /\ o <= p.configured))
  <2>1. CASE t = 0
    BY <1>2, <2>1
  <2>2. CASE t # 0
    <3>1. Proxy!CeilDiv(t, 4) \in Nat
      BY <1>2, <2>2, CeilDivBound
    <3> DEFINE more == t + Proxy!CeilDiv(t, 4)
    <3>2. more \in Nat /\ more >= t
      BY <1>2, <3>1
    <3> HIDE DEF more
    <3>3. raised = IF p.configured <= more THEN p.configured ELSE more
      BY <1>2, <3>2, ProxyOperators, MinPair DEF more
    <3> HIDE DEF t, raised
    <3>4. o = t \/ o = 0 \/ (o = raised /\ ~(raised >= p.configured))
      BY <2>2
    <3> QED BY <1>2, <2>2, <3>2, <3>3, <3>4
  <2> QED BY <2>1, <2>2
<1> HIDE DEF t, origin, common
<1>5. /\ q.configured = p.configured /\ q.limit = l
      /\ q.throttle = [p.throttle EXCEPT ![g] = o]
      /\ q.cooling = p.cooling /\ q.groups = p.groups /\ q.avoid = p.avoid
      /\ q.queue = p.queue /\ q.lease = p.lease /\ q.wake = p.wake
  BY <1>1, <1>2 DEF Pools, Proxy!Retuned
<1>6. q \in Pools
  <2>1. q.throttle \in [Downloads -> Nat]
    BY <1>2, <1>4, <1>5
  <2> QED BY <1>1, <1>2, <1>3, <1>5, <2>1 DEF Pools, Proxy!Retuned
<1>7. PoolOK(q)
  BY <1>2, <1>3, <1>4, <1>5, <1>6 DEF PoolOK, Queued
<1> QED BY <1>5, <1>7

LEMMA ReleasedMeasuredOK ==
  ASSUME NEW p, PoolOK(p), NEW c \in Jobs, c \notin Queued(p), NEW x \in Proxies,
         NEW q \in Proxy!ReleasedMeasured(p, c, x)
  PROVE  GaveBack(p, q, c)
<1> DEFINE f == Proxy!Freed(p, c)
           s == Only(f.cooling, Proxies \ {x})
           m == [f EXCEPT !.cooling = s]
<1>1. PICK r \in Proxy!Restored(m, DownloadOf(c)) : q \in Proxy!Drained(r)
  BY ProxyOperators DEF Proxy!ReleasedMeasured, Proxy!DrainedAll
<1>2. /\ f.groups = p.groups /\ f.avoid = p.avoid /\ f.queue = p.queue
      /\ f.lease = [p.lease EXCEPT ![c] = None] /\ PoolOK(f)
  BY FreedFields
<1> HIDE DEF f
<1>3. s \in Seq(Proxies) /\ Distinct(s)
  BY <1>2, CoolingSequences
<1> HIDE DEF s
<1>4. /\ m.groups = f.groups /\ m.avoid = f.avoid /\ m.queue = f.queue
      /\ m.lease = f.lease /\ PoolOK(m)
  BY <1>2, <1>3, CooledFields
<1> HIDE DEF m
<1>5. DownloadOf(c) \in Downloads
  BY DEF Jobs, DownloadOf
<1>6. /\ PoolOK(r) /\ r.queue = m.queue /\ r.lease = m.lease
      /\ r.avoid = m.avoid /\ r.groups = m.groups
  BY <1>1, <1>4, <1>5, RestoredOK
<1>7. GivesBack(p, r, c)
  BY <1>2, <1>4, <1>6 DEF GivesBack
<1> QED BY <1>1, <1>7, GivesBackOK

\* reportContentMismatch()
LEMMA MismatchedOK ==
  ASSUME NEW p, PoolOK(p), NEW x \in Proxies, NEW q \in Proxy!Mismatched(p, x)
  PROVE  Settles(q) /\ KeptBut(p, q, {}) /\ q.avoid = p.avoid /\ q.groups = p.groups
<1> DEFINE s == Append(Only(p.cooling, Proxies \ {x}), x)
           r == [p EXCEPT !.cooling = s]
<1>1. q \in Proxy!Drained(r)
  <2>1. Proxy!Cooled(p, x) = r
    BY ProxyOperators DEF Proxy!Cooled
  <2> QED BY <2>1 DEF Proxy!Mismatched
<1>2. s \in Seq(Proxies) /\ Distinct(s)
  BY CoolingSequences
<1> HIDE DEF s
<1>3. /\ r.groups = p.groups /\ r.avoid = p.avoid /\ r.queue = p.queue
      /\ r.lease = p.lease /\ PoolOK(r)
  BY <1>2, CooledFields
<1> HIDE DEF r
<1> QED BY <1>1, <1>3, TunedOK

\* A caller that is not in the queue excludes a proxy, or may use all again.
Avoiding(p, c, S) == [p EXCEPT !.avoid[c] = S]

\* What this leaves.
Avoided(p, q, c, S) ==
  /\ Settles(q) /\ KeptBut(p, q, {c}) /\ q.lease = p.lease /\ q.queue = p.queue
  /\ q.avoid = [p.avoid EXCEPT ![c] = S] /\ q.groups = p.groups

\* A job excludes other proxies than before: it does not wait, so that nobody is concerned.
LEMMA AvoidsOK ==
  ASSUME NEW p, Settles(p), NEW c \in Jobs, c \notin Queued(p), NEW S \in SUBSET Proxies
  PROVE  Avoided(p, Avoiding(p, c, S), c, S)
<1> DEFINE q == Avoiding(p, c, S)
<1>1. p \in Pools /\ p.avoid \in [Jobs -> SUBSET Proxies] /\ p.queue \in Seq(Jobs)
  BY DEF Settles, PoolOK, Pools
<1>2. /\ q.configured = p.configured /\ q.limit = p.limit /\ q.throttle = p.throttle
      /\ q.cooling = p.cooling /\ q.groups = p.groups /\ q.avoid = [p.avoid EXCEPT ![c] = S]
      /\ q.queue = p.queue /\ q.lease = p.lease /\ q.wake = p.wake
  BY <1>1 DEF Pools, Avoiding
<1> HIDE DEF q
<1>3. q.avoid \in [Jobs -> SUBSET Proxies]
  BY <1>1, <1>2
<1>4. q \in Pools
  BY <1>1, <1>3 DEF Pools, Avoiding, q
<1>5. Queued(q) = Queued(p) /\ \A b \in Queued(p) : b \in Jobs /\ b # c /\ q.avoid[b] = p.avoid[b]
  BY <1>1, <1>2 DEF Queued, Elems
<1>6. PoolOK(q)
  BY <1>2, <1>4, <1>5 DEF Settles, PoolOK
<1>7. Served(q)
  <2>1. \A b \in Queued(p) : Proxy!Selectable(q, b, TRUE) = Proxy!Selectable(p, b, TRUE)
    BY <1>2, <1>5, SelectableOf
  <2>2. \A b \in Queued(p) : Proxy!Selectable(p, b, TRUE) = {}
    BY ServedMeans DEF Settles
  <2>3. \A b \in Queued(q) : Proxy!Selectable(q, b, TRUE) = {}
    BY <1>5, <2>1, <2>2
  <2> QED BY <1>6, <2>3, ServedMeans
<1>8. TimerOK(q)
  <2>1. Proxy!Active(q) = Proxy!Active(p)
    BY <1>2 DEF Proxy!Active
  <2>2. \A x : Awaited(q, x) => Awaited(p, x)
    BY <1>2, <1>5 DEF Awaited
  <2> QED BY <1>2, <2>1, <2>2 DEF Settles, TimerOK
<1>9. KeptBut(p, q, {c})
  BY <1>1, <1>2, <1>5 DEF KeptBut
<1> QED BY <1>2, <1>6, <1>7, <1>8, <1>9 DEF Settles, Avoided, q

\* The end of a cooldown: if the timer does not wait for it, it serves nobody.
LEMMA ExpiredOK ==
  ASSUME NEW p, Settles(p), p.cooling # <<>>, NEW q \in Proxy!Expired(p)
  PROVE  Settles(q) /\ KeptBut(p, q, {}) /\ q.avoid = p.avoid /\ q.groups = p.groups
<1> DEFINE s == Tail(p.cooling)
           r == [p EXCEPT !.cooling = s]
<1>1. /\ p \in Pools /\ p.cooling \in Seq(Proxies) /\ Distinct(p.cooling) /\ PoolOK(p)
      /\ p.limit \in Nat
  BY DEF Settles, PoolOK, Pools
<1>2. /\ s \in Seq(Proxies) /\ Distinct(s) /\ Len(s) = Len(p.cooling) - 1
      /\ \A k \in 1..Len(s) : s[k] = p.cooling[k + 1]
      /\ Len(p.cooling) \in Nat /\ 1 \in 1..Len(p.cooling) /\ Head(p.cooling) = p.cooling[1]
      /\ Elems(s) \subseteq Elems(p.cooling)
  BY <1>1, TailDistinct
<1>3. (p.wake = Head(p.cooling) /\ q \in Proxy!Drained(r)) \/ (p.wake # Head(p.cooling) /\ q = r)
  BY DEF Proxy!Expired
<1> HIDE DEF s
<1>4. /\ r.configured = p.configured /\ r.limit = p.limit /\ r.throttle = p.throttle
      /\ r.cooling = s /\ r.groups = p.groups /\ r.avoid = p.avoid
      /\ r.queue = p.queue /\ r.lease = p.lease /\ r.wake = p.wake
      /\ PoolOK(r)
  BY <1>1, <1>2, CooledFields
<1> HIDE DEF r
<1>5. CASE p.wake = Head(p.cooling) /\ q \in Proxy!Drained(r)
  BY <1>1, <1>4, <1>5, TunedOK
<1>6. CASE p.wake # Head(p.cooling) /\ q = r
  <2>1. /\ Proxy!Active(r) = Proxy!Active(p) /\ Proxy!ActiveProxies(r) = Proxy!ActiveProxies(p)
        /\ Queued(r) = Queued(p) /\ \A g : Proxy!ActiveOf(r, g) = Proxy!ActiveOf(p, g)
        /\ \A x : Awaited(r, x) <=> Awaited(p, x)
    BY <1>4 DEF Proxy!Active, Proxy!ActiveProxies, Queued, Awaited, Proxy!ActiveOf
  <2>2. TimerOK(r)
    <3> SUFFICES ASSUME Cardinality(Proxy!Active(r)) < r.limit, NEW k \in 1..Len(s),
                        Awaited(r, s[k])
                 PROVE  \E i \in 1..k : s[i] = r.wake
      <4>1. r.wake # None => r.wake \in Elems(s)
        <5> SUFFICES ASSUME p.wake # None PROVE p.wake \in Elems(s)
          BY <1>4
        <5>1. PICK i \in 1..Len(p.cooling) : p.cooling[i] = p.wake
          BY DEF Settles, TimerOK, Elems
        <5>2. i # 1
          BY <1>2, <1>6, <5>1
        <5>3. i - 1 \in 1..Len(s) /\ s[i - 1] = p.cooling[i]
          BY <1>2, <5>2
        <5> QED BY <5>1, <5>3 DEF Elems
      <4> QED BY <1>4, <4>1 DEF TimerOK
    <3>1. k + 1 \in 1..Len(p.cooling) /\ s[k] = p.cooling[k + 1]
      BY <1>2
    <3>2. PICK i \in 1..(k + 1) : p.cooling[i] = p.wake
      BY <1>4, <2>1, <3>1 DEF Settles, TimerOK
    <3>3. i # 1
      BY <1>2, <1>6, <3>2
    <3>4. i - 1 \in 1..k /\ i - 1 \in 1..Len(s) /\ s[i - 1] = p.cooling[i]
      BY <1>2, <3>1, <3>3
    <3> QED BY <1>4, <3>2, <3>4
  <2>3. Served(r)
    <3> SUFFICES ASSUME NEW c \in Queued(p), NEW x \in Proxy!Selectable(r, c, TRUE) PROVE FALSE
      BY <1>4, <2>1, ServedMeans
    <3>1. Proxy!MayConnect(r, DownloadOf(c), TRUE) /\ Proxy!MayConnect(p, DownloadOf(c), TRUE)
      BY <1>4, <2>1 DEF Proxy!Selectable, Proxy!MayConnect
    <3> DEFINE free == Proxies \ (p.avoid[c] \union Proxy!ActiveProxies(p))
               rested == free \ ToSet(p.cooling)
    <3>2. rested = {} /\ (Proxy!Active(p) = {} => free = {})
      <4>1. Proxy!Selectable(p, c, TRUE) = {}
        BY <1>1, ServedMeans DEF Settles
      <4> QED BY <3>1, <4>1, ProxyOperators DEF Proxy!Selectable
    <3>3. x \in free
      BY <1>4, <2>1 DEF Proxy!Selectable
    <3>4. x \notin ToSet(s)
      BY <1>4, <2>1, <3>1, <3>2, <3>3, ProxyOperators DEF Proxy!Selectable
    <3>5. x = p.cooling[1]
      <4>1. x \in ToSet(p.cooling)
        BY <3>2, <3>3
      <4>2. PICK i \in 1..Len(p.cooling) : x = p.cooling[i]
        BY <1>1, <4>1 DEF ToSet
      <4>3. ASSUME i # 1 PROVE FALSE
        <5>1. i - 1 \in 1..Len(s) /\ s[i - 1] = x
          BY <1>2, <4>2, <4>3
        <5>2. x \in ToSet(s)
          BY <1>2, <5>1 DEF ToSet
        <5> QED BY <3>4, <5>2
      <4> QED BY <4>2, <4>3
    <3>6. Awaited(p, x)
      BY <3>3 DEF Awaited, Proxy!ActiveProxies, Proxy!Active
    <3>7. Cardinality(Proxy!Active(p)) < p.limit
      BY <3>1, ProxyOperators DEF Proxy!MayConnect
    <3>8. PICK i \in 1..1 : p.cooling[i] = p.wake
      BY <1>2, <3>5, <3>6, <3>7 DEF Settles, TimerOK
    <3> QED BY <1>2, <1>6, <3>8
  <2>4. KeptBut(p, r, {})
    BY <1>4, <2>1 DEF KeptBut
  <2> QED BY <1>4, <1>6, <2>2, <2>3, <2>4 DEF Settles
<1> QED BY <1>3, <1>5, <1>6

-----------------------------------------------------------------------------
(***************************************************************************)
(* The invariant Core: the jobs and the coordinator agree (JobFits), and   *)
(* each download has the jobs its stage asks for (StageOf).                *)
(***************************************************************************)

Busy == {"again", "fetch", "pause", "readback", "suspect", "check", "failed"}
Loading == {"fetch", "check"}
Whole == {"readback", "suspect", "check"}

\* What the coordinator p keeps of a job j in the state r.  Who waits for a proxy or
\* has one is about to use it, and has not excluded them all; and what is in the file
\* was loaded through some proxy.
JobFits(p, j, r) ==
  /\ In(p, j) => r.at \in Loading
  /\ j \in Queued(p) => \E x \in Proxies : x \notin p.avoid[j]
  /\ r.at \in Whole => r.part = Bytes /\ r.proxy \in Proxies
  /\ r.at = "fetch" => r.part < Bytes
  /\ r.at \notin Whole \union {"fetch"} => r.part = 0
  /\ r.at = "fetch" /\ r.part > 0 => p.lease[j] # None

Fits == \A j \in Jobs : JobFits(pool, j, job[j])

Loads == [at : {"load", "probe", "prepare", "allocate", "segments", "commit", "cleanup",
                "ending", "over"},
          run : {1, 2}, next : Nat, valid : SUBSET Nat, progress : Nat, temp : BOOLEAN,
          renamed : BOOLEAN,
          result : {"none", "fallback", "failed", "aborted", "changed", "completed"}]
JobStates == [at : {"idle", "next", "done"} \union Busy, segment : Nat,
              proxy : Proxies \union {None}, part : Nat, failures : Nat,
              error : Errors \union {"none", "abort"}]

Typed ==
  /\ load \in [Downloads -> Loads] /\ job \in [Jobs -> JobStates]
  /\ stopped \subseteq Downloads /\ aborted \subseteq Downloads

\* Which jobs there are at which stage of a download.
StageOf(d) ==
  /\ IF load[d].at = "probe" THEN job[ProbeOf(d)].at \in {"again", "fetch"}
     ELSE job[ProbeOf(d)].at = "idle"
  /\ job[ProbeOf(d)].part = 0
  /\ \A k \in 1..Connections :
       IF load[d].at = "segments" /\ <<d, k>> \in WorkersOf(d)
       THEN job[<<d, k>>].at # "idle" ELSE job[<<d, k>>].at = "idle"
  /\ load[d].at \in {"prepare", "allocate", "segments"} => WorkersOf(d) # {}

Stages == \A d \in Downloads : StageOf(d)

\* Jobs, workers, probes and their downloads.
LEMMA JobFacts ==
  /\ Workers \subseteq Jobs
  /\ \A d \in Downloads : ProbeOf(d) \in Jobs /\ ProbeOf(d) \notin Workers /\ DownloadOf(ProbeOf(d)) = d
  /\ \A j \in Jobs : DownloadOf(j) \in Downloads
  /\ \A d \in Downloads : WorkersOf(d) \subseteq Workers /\ \A j \in WorkersOf(d) : DownloadOf(j) = d
  /\ \A d, e \in Downloads : ProbeOf(d) = ProbeOf(e) => d = e
<1>1. Connections \in Nat \ {0}
  BY SegmentedAssumption
<1>2. \A d \in Downloads : WorkersOf(d) \subseteq Workers /\ \A j \in WorkersOf(d) : DownloadOf(j) = d
  <2> SUFFICES ASSUME NEW d \in Downloads,
                      NEW k \in 1..Min({Connections, Cardinality(Proxies), SegmentsOf[d]})
               PROVE  <<d, k>> \in Workers
    BY DEF WorkersOf, DownloadOf
  <2> DEFINE S == {Connections, Cardinality(Proxies), SegmentsOf[d]}
  <2>1. S \in SUBSET Nat
    BY SegmentedAssumption, FS_CardinalityType
  <2> HIDE DEF S
  <2>2. Min(S) <= Connections /\ Min(S) \in Nat
    <3>1. Connections \in S BY DEF S
    <3> QED BY <2>1, <3>1, MinIn
  <2>3. k \in 1..Connections
    BY <1>1, <2>2 DEF S
  <2> QED BY <2>3 DEF Workers
<1> QED BY <1>1, <1>2 DEF Workers, Jobs, ProbeOf, DownloadOf

LEMMA QueuedIsToSet ==
  ASSUME NEW p, PoolOK(p)
  PROVE  ToSet(p.queue) = Queued(p) /\ Queued(p) \subseteq Jobs
<1>1. p.queue \in Seq(Jobs)
  BY DEF PoolOK, Pools
<1> QED BY <1>1 DEF ToSet, Queued, Elems

\* A job that was rejected is out of the coordinator; one with a lease does not wait.
LEMMA OutRejected ==
  ASSUME Settles(pool), NEW j \in Jobs, NEW at, Rejected(j, at)
  PROVE  Out(pool, j)
BY QueuedIsToSet DEF Rejected, Out, Settles

LEMMA HasLease ==
  ASSUME Settles(pool), NEW j \in Jobs, pool.lease[j] # None
  PROVE  pool.lease[j] \in Proxies /\ j \notin Queued(pool)
BY DEF Settles, PoolOK, Pools

\* What the catch of an attempt does to the coordinator.
LEMMA ReportedOK ==
  ASSUME NEW p, Settles(p), NEW d \in Downloads, NEW e, NEW q \in Reported(p, d, e)
  PROVE  Settles(q) /\ KeptBut(p, q, {}) /\ q.avoid = p.avoid /\ q.groups = p.groups
<1>1. CASE e = "busy503"
  BY <1>1, Reported503OK DEF Reported
<1>2. CASE e = "busy429"
  BY <1>2, Reported429OK DEF Reported
<1>3. CASE e \notin {"busy503", "busy429"}
  <2>1. q = p
    BY <1>3 DEF Reported
  <2> QED BY <2>1 DEF KeptBut
<1> QED BY <1>1, <1>2, <1>3

LEMMA ReleasedAfterOK ==
  ASSUME Settles(pool), NEW j \in Jobs, j \notin Queued(pool), NEW x \in Proxies, NEW e,
         NEW q \in ReleasedAfter(j, x, e)
  PROVE  GaveBack(pool, q, j)
BY ReleasedWellOK, ReleasedFailedOK DEF ReleasedAfter, Settles

LEMMA ExcludingOK ==
  ASSUME NEW p, Settles(p), NEW j \in Jobs, j \notin Queued(p), NEW x \in Proxies,
         NEW q, q = Excluding(p, j, x)
  PROVE  /\ Settles(q) /\ KeptBut(p, q, {j})
         /\ q.lease = p.lease /\ q.queue = p.queue /\ q.groups = p.groups
<1> DEFINE S == p.avoid[j] \union {x}
<1>1. p \in Pools /\ p.avoid \in [Jobs -> SUBSET Proxies]
  BY DEF Settles, PoolOK, Pools
<1>2. S \in SUBSET Proxies
  BY <1>1
<1>3. q = Avoiding(p, j, S)
  BY <1>1 DEF Excluding, Pools, Avoiding
<1> HIDE DEF S
<1>4. Avoided(p, q, j, S)
  BY <1>2, <1>3, AvoidsOK
<1> QED BY <1>4 DEF Avoided

\* What happens to the job j leaves everything else of the coordinator as it was, and j
\* neither waits nor loads after it.
Clear(p, q, j) == Settles(q) /\ KeptBut(p, q, {j}) /\ Out(q, j) /\ q.groups = p.groups

\* Who does nothing with the coordinator fits.
LEMMA NothingFits ==
  ASSUME NEW p, NEW j, Out(p, j), NEW r, r.at \notin Whole \union {"fetch"}, r.part = 0
  PROVE  JobFits(p, j, r)
BY DEF JobFits, Out, In

\* Who neither waits nor loads.
LEMMA FitsOut ==
  ASSUME NEW p, NEW j, NEW r, JobFits(p, j, r), r.at \notin Loading
  PROVE  Out(p, j)
BY DEF JobFits, In, Out

\* Books that no other call of the coordinator disturbs.
LEMMA StillFits ==
  ASSUME NEW p, PoolOK(p), NEW q, PoolOK(q), NEW cs, KeptBut(p, q, cs),
         NEW j \in Jobs, j \notin cs, NEW r, JobFits(p, j, r)
  PROVE  JobFits(q, j, r)
<1>1. /\ q.avoid[j] = p.avoid[j] /\ (p.lease[j] # None => q.lease[j] = p.lease[j])
      /\ (p.lease[j] = None /\ j \notin Queued(p) => q.lease[j] = None /\ j \notin Queued(q))
  BY DEF KeptBut
<1>2. j \in Queued(q) => q.lease[j] = None
  BY DEF PoolOK
<1> QED BY <1>1, <1>2 DEF JobFits, In

\* How calls of the coordinator follow each other once a job is out of it.
LEMMA ClearSame ==
  ASSUME NEW p, Settles(p), NEW j, Out(p, j)
  PROVE  Clear(p, p, j)
BY DEF Clear, KeptBut

LEMMA ClearGaveBack ==
  ASSUME NEW p, NEW q, NEW j, GaveBack(p, q, j)
  PROVE  Clear(p, q, j)
BY DEF Clear, GaveBack

LEMMA ClearThen ==
  ASSUME NEW p, NEW q, NEW j \in Jobs, Clear(p, q, j), NEW r, Settles(r), KeptBut(q, r, {}),
         r.groups = q.groups
  PROVE  Clear(p, r, j)
<1>1. KeptBut(p, r, {j})
  <2>1. KeptBut(p, r, {j} \union {})
    BY KeptTransitive DEF Clear
  <2> QED BY <2>1 DEF KeptBut
<1>2. Out(r, j)
  BY DEF Clear, KeptBut, Out
<1> QED BY <1>1, <1>2 DEF Clear

LEMMA ClearReported ==
  ASSUME NEW p, NEW q, NEW j \in Jobs, Clear(p, q, j), NEW d \in Downloads, NEW e,
         NEW r \in Reported(q, d, e)
  PROVE  Clear(p, r, j)
<1>1. Settles(r) /\ KeptBut(q, r, {}) /\ r.groups = q.groups
  BY ReportedOK DEF Clear
<1> QED BY <1>1, ClearThen

LEMMA ClearMismatched ==
  ASSUME NEW p, NEW q, NEW j \in Jobs, Clear(p, q, j), NEW x \in Proxies,
         NEW r \in Proxy!Mismatched(q, x)
  PROVE  Clear(p, r, j)
<1>1. Settles(r) /\ KeptBut(q, r, {}) /\ r.groups = q.groups
  BY MismatchedOK DEF Clear, Settles
<1> QED BY <1>1, ClearThen

LEMMA ClearAvoids ==
  ASSUME NEW p, NEW q, NEW j \in Jobs, Clear(p, q, j), NEW S \in SUBSET Proxies
  PROVE  Clear(p, Avoiding(q, j, S), j)
<1> DEFINE r == Avoiding(q, j, S)
<1>1. Avoided(q, r, j, S)
  BY AvoidsOK DEF Clear, Out
<1> HIDE DEF r
<1>2. KeptBut(p, r, {j})
  <2>1. KeptBut(p, r, {j} \union {j})
    BY <1>1, KeptTransitive DEF Clear, Avoided
  <2> QED BY <2>1 DEF KeptBut
<1>3. Out(r, j)
  BY <1>1 DEF Avoided, Clear, Out, Queued
<1>4. Clear(p, r, j)
  BY <1>1, <1>2, <1>3 DEF Avoided, Clear
<1> QED BY <1>4 DEF r

LEMMA ClearExcluding ==
  ASSUME NEW p, NEW q, NEW j \in Jobs, Clear(p, q, j), NEW x \in Proxies
  PROVE  Clear(p, Excluding(q, j, x), j)
<1> DEFINE S == q.avoid[j] \union {x}
<1>1. q \in Pools /\ q.avoid \in [Jobs -> SUBSET Proxies]
  BY DEF Clear, Settles, PoolOK, Pools
<1>2. S \in SUBSET Proxies
  BY <1>1
<1>3. Excluding(q, j, x) = Avoiding(q, j, S)
  BY <1>1 DEF Excluding, Pools, Avoiding
<1> HIDE DEF S
<1>4. Clear(p, Avoiding(q, j, S), j)
  BY <1>2, ClearAvoids
<1> QED BY <1>3, <1>4

-----------------------------------------------------------------------------
(***************************************************************************)
(* What an action makes of the job of a worker: it is of one of six kinds, *)
(* told apart by the segment, what is written of it, and the progress.     *)
(***************************************************************************)

\* The worker j goes over to the state r.
Becomes(j, r) ==
  /\ job' = [job EXCEPT ![j] = r] /\ r \in JobStates
  /\ Settles(pool') /\ KeptBut(pool, pool', {j}) /\ JobFits(pool', j, r)
  /\ pool'.groups = pool.groups /\ stopped' = stopped

\* It keeps its segment and what it has written of it.
Carries(j, r) ==
  /\ job[j].at \in Busy /\ r.at \in Busy
  /\ r.segment = job[j].segment /\ r.part = job[j].part
  /\ load' = load

\* It writes more of it.
Writes(j, r) ==
  /\ job[j].at = "fetch" /\ r.at \in {"fetch", "readback"}
  /\ r.segment = job[j].segment /\ r.part \in 1..Bytes /\ r.part > job[j].part
  /\ Progress(j, r.part - job[j].part)

\* What it has written is taken back.
TakesBack(j, r) ==
  /\ job[j].at \in Busy /\ r.at \in {"pause", "failed", "again"}
  /\ r.segment = job[j].segment /\ r.part = 0
  /\ load' = [load EXCEPT ![DownloadOf(j)].progress = Max({0, @ - job[j].part})]

\* The segment is accepted.
Accepts(j, r) ==
  /\ job[j].at \in Whole /\ job[j].part = Bytes /\ r.at = "next" /\ r.part = 0
  /\ load' = [load EXCEPT ![DownloadOf(j)].valid = @ \union {job[j].segment}]

\* The catch of an attempt takes back what the attempt has written.
LEMMA CaughtTakesBack ==
  ASSUME NEW j \in Workers, Typed, job[j].at \in Busy, NEW e \in Errors \union {"abort"},
         NEW x \in Proxies, NEW ps, \A p \in ps : Clear(pool, p, j), Caught(j, e, x, ps)
  PROVE  \E r : Becomes(j, r) /\ TakesBack(j, r)
<1> DEFINE d == DownloadOf(j)
           told == UNION {Reported(p, d, e) : p \in ps}
           R(at, error, more) == [job[j] EXCEPT !.at = at, !.part = 0, !.proxy = None,
                                                !.error = error, !.failures = @ + more]
           loaded == load' = [load EXCEPT ![d].progress = Max({0, @ - job[j].part})]
<1>1. j \in Jobs /\ d \in Downloads /\ job[j] \in JobStates
  BY JobFacts DEF Typed
<1>2. \A q \in told : Clear(pool, q, j)
  <2> SUFFICES ASSUME NEW p \in ps, NEW q \in Reported(p, d, e)
               PROVE  Clear(pool, q, j)
    OBVIOUS
  <2> QED BY <1>1, ClearReported
<1>3. loaded /\ stopped' = stopped
  BY DEF Caught
<1>4. ASSUME NEW at \in {"pause", "failed", "again"}, NEW error \in Errors \union {"abort"},
             NEW more \in {0, 1}, job' = [job EXCEPT ![j] = R(at, error, more)],
             Clear(pool, pool', j)
      PROVE  \E r : Becomes(j, r) /\ TakesBack(j, r)
  <2> DEFINE r == R(at, error, more)
  <2>1. /\ r.at = at /\ r.part = 0 /\ r.segment = job[j].segment
    BY <1>1 DEF JobStates
  <2>0. r \in JobStates
    <3>1. at \in {"idle", "next", "done"} \union Busy
      BY DEF Busy
    <3>2. job[j].failures + more \in Nat
      BY <1>1 DEF JobStates
    <3> QED BY <1>1, <1>4, <3>1, <3>2 DEF JobStates
  <2> HIDE DEF r
  <2>2. JobFits(pool', j, r)
    BY <1>4, <2>1, NothingFits DEF Clear, Whole
  <2>3. Becomes(j, r)
    BY <1>4, <1>3, <2>0, <2>1, <2>2 DEF Becomes, Clear, r
  <2>4. TakesBack(j, r)
    BY <1>3, <2>1 DEF TakesBack
  <2> QED BY <2>3, <2>4
<1>5. CASE /\ pool' \in {[p EXCEPT !.avoid[j] = @ \ {x}] : p \in told}
           /\ job' = [job EXCEPT ![j] = R("pause", "origin", 0)]
  <2>1. PICK p \in told : pool' = [p EXCEPT !.avoid[j] = @ \ {x}]
    BY <1>5
  <2>2. Clear(pool, p, j)
    BY <1>2, <2>1
  <2> DEFINE S == p.avoid[j] \ {x}
  <2>3. p \in Pools /\ S \in SUBSET Proxies
    BY <1>1, <2>2 DEF Clear, Settles, PoolOK, Pools
  <2>4. pool' = Avoiding(p, j, S)
    BY <2>1, <2>3 DEF Avoiding, Pools
  <2> HIDE DEF S
  <2>5. Clear(pool, pool', j)
    BY <1>1, <2>2, <2>3, <2>4, ClearAvoids
  <2>6. "origin" \in Errors \union {"abort"}
    BY DEF Errors
  <2> QED BY Zenon, <1>4, <1>5, <2>5, <2>6
<1>6. CASE /\ pool' \in {Excluding(p, j, x) : p \in told}
           /\ \E at \in {"failed", "again"}, error \in Errors \union {"abort"}, more \in {0, 1} :
                job' = [job EXCEPT ![j] = R(at, error, more)]
  <2>1. PICK p \in told : pool' = Excluding(p, j, x)
    BY <1>6
  <2>2. Clear(pool, p, j)
    BY <1>2, <2>1
  <2>3. Clear(pool, pool', j)
    BY <1>1, <2>1, <2>2, ClearExcluding
  <2> QED BY Zenon, <1>4, <1>6, <2>3
<1>7. "origin" \in Errors \union {"abort"}
  BY DEF Errors
<1> HIDE DEF told
<1> QED
  <2> DEFINE at0 == IF d \in stopped \/ e \in {"disk", "certificate"} THEN "failed" ELSE "again"
             er0 == IF e \in {"busy503", "busy429"} THEN "origin" ELSE e
             mo0 == IF e \in {"busy503", "busy429"} \/ e = "origin" THEN 1 ELSE 0
  <2>2. at0 \in {"failed", "again"} /\ er0 \in Errors \union {"abort"} /\ mo0 \in {0, 1}
    BY <1>7
  <2>3. CASE /\ pool' \in {[p EXCEPT !.avoid[j] = @ \ {x}] : p \in told}
             /\ job' = [job EXCEPT ![j] = [job[j] EXCEPT !.at = "pause", !.part = 0, !.proxy = None,
                                            !.error = "origin", !.failures = @ + 0]]
    BY <1>5, <2>3
  <2>4. CASE /\ pool' \in {Excluding(p, j, x) : p \in told}
             /\ job' = [job EXCEPT ![j] = [job[j] EXCEPT !.at = at0, !.part = 0, !.proxy = None,
                                            !.error = er0, !.failures = @ + mo0]]
    <3>1. job' = [job EXCEPT ![j] = R(at0, er0, mo0)]
      BY <2>4
    <3> HIDE DEF at0, er0, mo0, R
    <3> QED BY <1>6, <2>2, <2>4, <3>1
  <2> QED BY <2>3, <2>4 DEF Caught, told

Core == Typed /\ Settles(pool) /\ Fits /\ Stages

LEMMA CoreFacts ==
  ASSUME Core, NEW j \in Jobs
  PROVE  /\ job[j] \in JobStates /\ DownloadOf(j) \in Downloads /\ JobFits(pool, j, job[j])
         /\ job[j].part \in Nat /\ job[j].failures \in Nat /\ Bytes \in Nat \ {0}
BY JobFacts, SegmentedAssumption DEF Core, Typed, Fits, JobStates

\* Who is only given another name for what it does.
LEMMA OnlyRenamed ==
  ASSUME Core, NEW j \in Jobs, NEW r, r \in JobStates, r.at \notin Whole \union {"fetch"},
         r.part = 0, Out(pool, j), job' = [job EXCEPT ![j] = r], pool' = pool, stopped' = stopped
  PROVE  Becomes(j, r)
<1>1. JobFits(pool', j, r)
  BY NothingFits
<1>2. KeptBut(pool, pool', {j})
  BY DEF KeptBut
<1> QED BY <1>1, <1>2 DEF Becomes, Core

\* While an attempt is left, a proxy is left for it.
LEMMA SomeLeft ==
  ASSUME NEW S \in SUBSET Proxies, Cardinality(S) < Budget
  PROVE  \E x \in Proxies : x \notin S
<1>1. SUFFICES ASSUME S = Proxies PROVE FALSE
  OBVIOUS
<1>2. Cardinality(Proxies) \in Nat /\ ProxyAttempts \in Nat
  BY SegmentedAssumption, FS_CardinalityType
<1>3. Max({ProxyAttempts, 8}) \in Nat
  BY <1>2, MaxPair
<1>4. Budget <= Cardinality(Proxies) /\ Budget \in Nat
  <2> DEFINE m == Max({ProxyAttempts, 8})
  <2>1. m \in Nat
    BY <1>3
  <2> HIDE DEF m
  <2>2. Min({Cardinality(Proxies), m}) <= Cardinality(Proxies)
        /\ Min({Cardinality(Proxies), m}) \in Nat
    BY <1>2, <2>1, MinPair
  <2> QED BY <2>2 DEF Budget, m
<1> QED BY <1>1, <1>2, <1>4

\* What each action of a worker makes of its job, one action after the other.
LEMMA AttemptCarries ==
  ASSUME Core, NEW j \in Jobs, Attempt(j)
  PROVE  \E r : Becomes(j, r) /\ Carries(j, r) /\ r.at = "fetch" /\ job[j].at = "again"
<1> DEFINE r == [job[j] EXCEPT !.at = "fetch"]
<1>1. /\ job[j].at = "again" /\ MayTry(j) /\ pool' \in Proxy!Asked(pool, j)
      /\ job' = [job EXCEPT ![j] = r] /\ load' = load /\ stopped' = stopped
  BY DEF Attempt
<1>2. Out(pool, j) /\ job[j].part = 0
  BY <1>1, CoreFacts, FitsOut DEF JobFits, Loading, Whole
<1>3. /\ Settles(pool') /\ KeptBut(pool, pool', {j}) /\ In(pool', j)
      /\ pool'.avoid = pool.avoid /\ pool'.groups = pool.groups
  BY <1>1, <1>2, AskedOK DEF Core, Settles
<1>4. \E x \in Proxies : x \notin pool.avoid[j]
  <2>1. pool.avoid[j] \in SUBSET Proxies
    BY DEF Core, Settles, PoolOK, Pools
  <2> QED BY <1>1, <2>1, SomeLeft DEF MayTry
<1>5. r \in JobStates /\ r.at = "fetch" /\ r.part = job[j].part /\ r.segment = job[j].segment
  BY CoreFacts DEF JobStates, Busy
<1> HIDE DEF r
<1>6. JobFits(pool', j, r)
  BY <1>2, <1>3, <1>4, <1>5, CoreFacts DEF JobFits, Loading, Whole
<1> QED BY <1>1, <1>3, <1>5, <1>6 DEF Becomes, Carries, Busy

LEMMA GivesUpCarries ==
  ASSUME Core, NEW j \in Workers, GivesUp(j)
  PROVE  \E r : Becomes(j, r) /\ Carries(j, r) /\ r.at = "failed" /\ job[j].at \in {"again", "fetch", "pause"}
<1> DEFINE e == IF job[j].at = "again" /\ ~MayTry(j) THEN job[j].error ELSE "abort"
           r == [job[j] EXCEPT !.at = "failed", !.error = e]
<1>1. j \in Jobs /\ job[j] \in JobStates
  BY JobFacts, CoreFacts
<1>2. /\ job[j].at \in {"again", "pause"} \/ Rejected(j, "fetch")
      /\ job' = [job EXCEPT ![j].at = "failed", ![j].error = e]
      /\ pool' = pool /\ load' = load /\ stopped' = stopped
  BY DEF GivesUp
<1>3. job[j].at \in {"again", "fetch", "pause"} /\ Out(pool, j)
  <2>1. CASE job[j].at \in {"again", "pause"}
    BY <1>1, <2>1, CoreFacts, FitsOut DEF Loading
  <2>2. CASE Rejected(j, "fetch")
    BY <1>1, <2>2, OutRejected DEF Core, Rejected
  <2> QED BY <1>2, <2>1, <2>2
<1>4. job[j].part = 0
  BY <1>1, <1>3, CoreFacts DEF JobFits, Out, Whole
<1>5. e \in Errors \union {"none", "abort"}
  BY <1>1 DEF JobStates
<1> HIDE DEF e
<1>6. /\ r \in JobStates /\ r.at = "failed" /\ r.part = 0 /\ r.segment = job[j].segment
      /\ job' = [job EXCEPT ![j] = r]
  BY <1>1, <1>2, <1>4, <1>5 DEF JobStates, Busy, Typed, Core
<1> HIDE DEF r
<1>7. Becomes(j, r)
  BY <1>1, <1>2, <1>3, <1>6, OnlyRenamed DEF Whole
<1> QED BY <1>2, <1>3, <1>4, <1>6, <1>7 DEF Carries, Busy

LEMMA PauseEndsCarries ==
  ASSUME Core, NEW j \in Workers, PauseEnds(j)
  PROVE  \E r : Becomes(j, r) /\ Carries(j, r) /\ r.at = "again" /\ job[j].at = "pause"
<1> DEFINE r == [job[j] EXCEPT !.at = "again"]
<1>1. j \in Jobs /\ job[j] \in JobStates
  BY JobFacts, CoreFacts
<1>2. /\ job[j].at = "pause" /\ job' = [job EXCEPT ![j] = r]
      /\ pool' = pool /\ load' = load /\ stopped' = stopped
  BY DEF PauseEnds
<1>3. Out(pool, j) /\ job[j].part = 0
  BY <1>1, <1>2, CoreFacts, FitsOut DEF Loading, JobFits, Whole
<1>4. r \in JobStates /\ r.at = "again" /\ r.part = 0 /\ r.segment = job[j].segment
  BY <1>1, <1>3 DEF JobStates, Busy
<1> HIDE DEF r
<1>5. Becomes(j, r)
  BY <1>1, <1>2, <1>3, <1>4, OnlyRenamed DEF Whole
<1> QED BY <1>2, <1>3, <1>4, <1>5 DEF Carries, Busy

\* A request that is on its way has a proxy, which can be given back.
LEMMA HasOne ==
  ASSUME Core, NEW j \in Jobs, NEW at, Has(j, at)
  PROVE  /\ job[j].at = at /\ pool.lease[j] \in Proxies /\ j \notin Queued(pool)
BY HasLease DEF Has, Core

LEMMA ReleasedClear ==
  ASSUME Core, NEW j \in Jobs, j \notin Queued(pool), NEW x \in Proxies, NEW e,
         NEW q \in ReleasedAfter(j, x, e)
  PROVE  Clear(pool, q, j)
BY ReleasedAfterOK, ClearGaveBack DEF Core

LEMMA MeasuredClear ==
  ASSUME Core, NEW j \in Jobs, j \notin Queued(pool), NEW x \in Proxies,
         NEW q \in Proxy!ReleasedMeasured(pool, j, x)
  PROVE  Clear(pool, q, j)
BY ReleasedMeasuredOK, ClearGaveBack DEF Core, Settles

LEMMA RequestFailsTakesBack ==
  ASSUME Core, NEW j \in Workers, NEW at \in Loading, Has(j, at), NEW x \in Proxies,
         RequestFails(j, x)
  PROVE  \E r : Becomes(j, r) /\ TakesBack(j, r)
<1>1. j \in Jobs /\ pool.lease[j] \in Proxies /\ j \notin Queued(pool) /\ job[j].at \in Busy
  BY JobFacts, HasOne DEF Loading, Busy
<1>2. PICK e \in Errors \union {"abort"} : Caught(j, e, x, ReleasedAfter(j, pool.lease[j], e))
  BY DEF RequestFails
<1>3. \A p \in ReleasedAfter(j, pool.lease[j], e) : Clear(pool, p, j)
  BY <1>1, ReleasedClear
<1> QED BY <1>1, <1>2, <1>3, CaughtTakesBack DEF Core

LEMMA FetchFailsTakesBack ==
  ASSUME Core, NEW j \in Workers, FetchFails(j)
  PROVE  \E r : Becomes(j, r) /\ TakesBack(j, r) /\ job[j].at = "fetch"
<1>1. Has(j, "fetch") /\ RequestFails(j, pool.lease[j])
  BY DEF FetchFails
<1>2. pool.lease[j] \in Proxies /\ job[j].at = "fetch"
  BY <1>1, HasOne, JobFacts
<1> QED BY <1>1, <1>2, RequestFailsTakesBack DEF Loading

LEMMA ReadbackRejectedTakesBack ==
  ASSUME Core, NEW j \in Workers, ReadbackRejected(j)
  PROVE  \E r : Becomes(j, r) /\ TakesBack(j, r) /\ job[j].at = "readback"
<1> DEFINE x == job[j].proxy
<1>1. /\ job[j].at = "readback" /\ j \in Jobs
      /\ Caught(j, "abort", x, ReleasedAfter(j, x, "abort"))
  BY JobFacts DEF ReadbackRejected
<1>2. x \in Proxies /\ Out(pool, j)
  BY <1>1, CoreFacts, FitsOut DEF JobFits, Whole, Loading
<1>3. \A p \in ReleasedAfter(j, x, "abort") : Clear(pool, p, j)
  BY <1>1, <1>2, ReleasedClear DEF Out
<1>4. job[j].at \in Busy /\ "abort" \in Errors \union {"abort"}
  BY <1>1 DEF Busy
<1> HIDE DEF x
<1> QED BY <1>1, <1>2, <1>3, <1>4, CaughtTakesBack DEF Core

LEMMA CheckRejectedTakesBack ==
  ASSUME Core, NEW j \in Workers, CheckRejected(j)
  PROVE  \E r : Becomes(j, r) /\ TakesBack(j, r) /\ job[j].at = "check"
<1> DEFINE x == job[j].proxy
<1>1. /\ job[j].at = "check" /\ j \in Jobs /\ Rejected(j, "check")
      /\ Caught(j, "abort", x, {pool})
  BY JobFacts DEF CheckRejected, Rejected
<1>2. x \in Proxies /\ Out(pool, j)
  BY <1>1, CoreFacts, OutRejected DEF JobFits, Whole, Core
<1>3. \A p \in {pool} : Clear(pool, p, j)
  BY <1>2, ClearSame DEF Core
<1>4. job[j].at \in Busy /\ "abort" \in Errors \union {"abort"}
  BY <1>1 DEF Busy
<1> HIDE DEF x
<1> QED BY <1>1, <1>2, <1>3, <1>4, CaughtTakesBack DEF Core

\* Accepted, once the lease is given back.
LEMMA AcceptedAccepts ==
  ASSUME Core, NEW j \in Workers, job[j].at \in Whole, Accepted(j), Clear(pool, pool', j)
  PROVE  \E r : Becomes(j, r) /\ Accepts(j, r)
<1> DEFINE r == [job[j] EXCEPT !.at = "next", !.part = 0, !.proxy = None]
<1>1. j \in Jobs /\ job[j] \in JobStates /\ job[j].part = Bytes
  BY JobFacts, CoreFacts DEF JobFits
<1>2. /\ r \in JobStates /\ r.at = "next" /\ r.part = 0 /\ job' = [job EXCEPT ![j] = r]
      /\ stopped' = stopped
  BY <1>1 DEF JobStates, Accepted
<1>3. load' = [load EXCEPT ![DownloadOf(j)].valid = @ \union {job[j].segment}]
  BY DEF Accepted
<1> HIDE DEF r
<1>4. JobFits(pool', j, r)
  BY <1>2, NothingFits DEF Clear, Whole
<1> QED BY <1>1, <1>2, <1>3, <1>4 DEF Becomes, Accepts, Clear

LEMMA CheckedMoves ==
  ASSUME Core, NEW j \in Workers, Checked(j)
  PROVE  /\ \E r : Becomes(j, r) /\ (TakesBack(j, r) \/ Accepts(j, r))
         /\ job[j].at = "check"
<1> DEFINE x == job[j].proxy
           released == Proxy!ReleasedMeasured(pool, j, pool.lease[j])
<1>1. Has(j, "check") /\ j \in Jobs
  BY JobFacts DEF Checked
<1>2. /\ job[j].at = "check" /\ pool.lease[j] \in Proxies /\ j \notin Queued(pool)
      /\ x \in Proxies
  BY <1>1, HasOne, CoreFacts DEF JobFits, Whole
<1>3. \A p \in released : Clear(pool, p, j)
  BY <1>1, <1>2, MeasuredClear
<1>4. CASE pool' \in released /\ Accepted(j)
  BY <1>2, <1>3, <1>4, AcceptedAccepts DEF Whole
<1>5. CASE Caught(j, "other", x, UNION {Proxy!Mismatched(p, x) : p \in released})
  <2> DEFINE ps == UNION {Proxy!Mismatched(p, x) : p \in released}
  <2>1. \A q \in ps : Clear(pool, q, j)
    <3> SUFFICES ASSUME NEW p \in released, NEW q \in Proxy!Mismatched(p, x)
                 PROVE  Clear(pool, q, j)
      OBVIOUS
    <3> QED BY <1>1, <1>2, <1>3, ClearMismatched
  <2>2. job[j].at \in Busy /\ "other" \in Errors \union {"abort"}
    BY <1>2 DEF Busy, Errors
  <2> HIDE DEF ps
  <2>3. Caught(j, "other", x, ps)
    BY <1>5 DEF ps
  <2> HIDE DEF x
  <2> QED BY <1>2, <2>1, <2>2, <2>3, CaughtTakesBack DEF Core
<1>6. CASE RequestFails(j, x)
  <2> HIDE DEF x
  <2> QED BY <1>1, <1>2, <1>6, RequestFailsTakesBack DEF Loading
<1> QED BY <1>2, <1>4, <1>5, <1>6 DEF Checked

LEMMA ReadBackMoves ==
  ASSUME Core, NEW j \in Workers, ReadBack(j)
  PROVE  /\ \E r : /\ Becomes(j, r)
                /\ \/ TakesBack(j, r) \/ Accepts(j, r)
                   \/ (Carries(j, r) /\ r.at = "suspect")
         /\ job[j].at = "readback" /\ Readback!Release(j)
<1> DEFINE x == job[j].proxy
<1>1. job[j].at = "readback" /\ j \in Jobs /\ Readback!Release(j)
  BY JobFacts DEF ReadBack
<1>2. /\ x \in Proxies /\ Out(pool, j) /\ job[j].part = Bytes /\ job[j] \in JobStates
      /\ job[j].at \in Busy /\ job[j].at \in Whole
  BY <1>1, CoreFacts, FitsOut DEF JobFits, Whole, Loading, Busy
<1>3. \A p \in Proxy!ReleasedMeasured(pool, j, x) : Clear(pool, p, j)
  BY <1>1, <1>2, MeasuredClear DEF Out
<1>4. CASE pool' \in Proxy!ReleasedMeasured(pool, j, x) /\ Accepted(j)
  BY <1>1, <1>2, <1>3, <1>4, AcceptedAccepts
<1>5. CASE /\ pool' \in Proxy!ReleasedMeasured(pool, j, x)
           /\ job' = [job EXCEPT ![j].at = "suspect"] /\ load' = load /\ stopped' = stopped
  <2> DEFINE r == [job[j] EXCEPT !.at = "suspect"]
  <2>1. /\ r \in JobStates /\ r.at = "suspect" /\ r.part = Bytes /\ r.proxy \in Proxies
        /\ r.segment = job[j].segment /\ job' = [job EXCEPT ![j] = r]
    BY <1>2, <1>5 DEF JobStates, Busy
  <2> HIDE DEF r, x
  <2>2. Clear(pool, pool', j)
    BY <1>3, <1>5
  <2>3. JobFits(pool', j, r)
    BY <2>1, <2>2 DEF JobFits, Clear, Out, In, Whole
  <2>4. Becomes(j, r)
    BY <1>5, <2>1, <2>2, <2>3 DEF Becomes, Clear
  <2>5. Carries(j, r)
    BY <1>2, <1>5, <2>1 DEF Carries, Busy
  <2>6. Becomes(j, r) /\ (Carries(j, r) /\ r.at = "suspect")
    BY <2>1, <2>4, <2>5
  <2> QED BY <1>1, <2>6
<1>6. ASSUME NEW e \in Errors \union {"abort"}, Caught(j, e, x, ReleasedAfter(j, x, e))
      PROVE  \E r : Becomes(j, r) /\ TakesBack(j, r)
  <2> HIDE DEF x
  <2>1. \A p \in ReleasedAfter(j, x, e) : Clear(pool, p, j)
    BY <1>1, <1>2, ReleasedClear DEF Out
  <2> QED BY <1>2, <1>6, <2>1, CaughtTakesBack DEF Core
<1>7. {"other", "disk", "abort"} \subseteq Errors \union {"abort"}
  BY DEF Errors
<1>8. \/ pool' \in Proxy!ReleasedMeasured(pool, j, x) /\ Accepted(j)
      \/ /\ pool' \in Proxy!ReleasedMeasured(pool, j, x)
         /\ job' = [job EXCEPT ![j].at = "suspect"] /\ load' = load /\ stopped' = stopped
      \/ \E e \in {"other", "disk"} : Caught(j, e, x, ReleasedAfter(j, x, e))
      \/ Caught(j, "abort", x, ReleasedAfter(j, x, "abort"))
  BY DEF ReadBack
<1> HIDE DEF x
<1> QED BY <1>1, <1>4, <1>5, <1>6, <1>7, <1>8

LEMMA SuspectedMoves ==
  ASSUME Core, NEW j \in Workers, Suspected(j)
  PROVE  /\ \E r : /\ Becomes(j, r)
                   /\ TakesBack(j, r) \/ (Carries(j, r) /\ r.at = "check" /\ ~Signalled(j))
         /\ job[j].at = "suspect"
<1> DEFINE x == job[j].proxy
<1>1. job[j].at = "suspect" /\ j \in Jobs
  BY JobFacts DEF Suspected
<1>2. /\ x \in Proxies /\ Out(pool, j) /\ job[j].part = Bytes /\ job[j] \in JobStates
      /\ job[j].at \in Busy
  BY <1>1, CoreFacts, FitsOut DEF JobFits, Whole, Loading, Busy
<1>3. ASSUME NEW e \in Errors \union {"abort"}, Caught(j, e, x, {pool})
      PROVE  \E r : Becomes(j, r) /\ TakesBack(j, r)
  <2> HIDE DEF x
  <2>1. \A p \in {pool} : Clear(pool, p, j)
    BY <1>2, ClearSame DEF Core
  <2> QED BY <1>2, <1>3, <2>1, CaughtTakesBack DEF Core
<1>4. CASE /\ ~(Proxies \subseteq pool.avoid[j]) /\ pool' \in Proxy!Asked(pool, j)
           /\ ~Signalled(j) /\ job' = [job EXCEPT ![j].at = "check"] /\ load' = load /\ stopped' = stopped
  <2> DEFINE r == [job[j] EXCEPT !.at = "check"]
  <2>1. /\ r \in JobStates /\ r.at = "check" /\ r.part = Bytes /\ r.proxy \in Proxies
        /\ r.segment = job[j].segment /\ job' = [job EXCEPT ![j] = r]
    BY <1>2, <1>4 DEF JobStates, Busy
  <2> HIDE DEF r, x
  <2>2. /\ Settles(pool') /\ KeptBut(pool, pool', {j}) /\ In(pool', j)
        /\ pool'.avoid = pool.avoid /\ pool'.groups = pool.groups
    BY <1>1, <1>2, <1>4, AskedOK DEF Core, Settles
  <2>3. JobFits(pool', j, r)
    BY <1>4, <2>1, <2>2 DEF JobFits, In, Whole, Loading
  <2>4. Becomes(j, r)
    BY <1>4, <2>1, <2>2, <2>3 DEF Becomes
  <2>5. Carries(j, r)
    BY <1>2, <1>4, <2>1 DEF Carries, Busy
  <2>6. Becomes(j, r) /\ (Carries(j, r) /\ r.at = "check" /\ ~Signalled(j))
    BY <1>4, <2>1, <2>4, <2>5
  <2> QED BY <1>1, <2>6
<1>5. {"other", "abort"} \subseteq Errors \union {"abort"}
  BY DEF Errors
<1>6. \/ \E e \in {"other", "abort"} : Caught(j, e, x, {pool})
      \/ /\ ~(Proxies \subseteq pool.avoid[j]) /\ pool' \in Proxy!Asked(pool, j)
         /\ ~Signalled(j) /\ job' = [job EXCEPT ![j].at = "check"] /\ load' = load /\ stopped' = stopped
  <2>1. CASE Signalled(j) \/ Proxies \subseteq pool.avoid[j]
    BY <2>1 DEF Suspected
  <2>2. CASE ~(Signalled(j) \/ Proxies \subseteq pool.avoid[j])
    BY <2>2 DEF Suspected
  <2> QED BY <2>1, <2>2
<1> HIDE DEF x
<1> QED BY <1>1, <1>3, <1>4, <1>5, <1>6

LEMMA FlushedWrites ==
  ASSUME Core, NEW j \in Workers, Flushed(j)
  PROVE  \E r : Becomes(j, r) /\ Writes(j, r) /\ r.at = "fetch"
<1> DEFINE r == [job[j] EXCEPT !.part = @ + 1]
<1>1. /\ job[j].at = "fetch" /\ j \in Jobs /\ job[j] \in JobStates /\ job[j].part \in Nat
      /\ pool.lease[j] # None /\ JobFits(pool, j, job[j])
  BY JobFacts, CoreFacts DEF Flushed, Has
<1>2. /\ job[j].part + 1 < Bytes /\ Progress(j, 1) /\ job' = [job EXCEPT ![j] = r]
      /\ pool' = pool /\ stopped' = stopped
  BY DEF Flushed
<1>3. /\ r \in JobStates /\ r.at = "fetch" /\ r.part = job[j].part + 1
      /\ r.segment = job[j].segment
  BY <1>1 DEF JobStates
<1> HIDE DEF r
<1>4. JobFits(pool', j, r)
  BY <1>1, <1>2, <1>3 DEF JobFits, Loading, Whole
<1>5. KeptBut(pool, pool', {j})
  BY <1>2 DEF KeptBut
<1>6. Becomes(j, r)
  BY <1>2, <1>3, <1>4, <1>5 DEF Becomes, Core
<1>7. Bytes \in Nat
  BY SegmentedAssumption
<1>8. r.part \in 1..Bytes /\ r.part > job[j].part /\ r.part - job[j].part = 1
  BY <1>1, <1>2, <1>3, <1>7
<1> QED BY <1>1, <1>2, <1>3, <1>6, <1>8 DEF Writes

LEMMA WrittenWrites ==
  ASSUME Core, NEW j \in Workers, Written(j)
  PROVE  \E r : Becomes(j, r) /\ Writes(j, r) /\ r.at = "readback"
<1> DEFINE x == pool.lease[j]
           q == Excluding(pool, j, x)
           r == [job[j] EXCEPT !.at = "readback", !.part = Bytes, !.proxy = x]
<1>1. /\ Has(j, "fetch") /\ j \in Jobs /\ job[j] \in JobStates /\ job[j].part \in Nat
      /\ JobFits(pool, j, job[j]) /\ Bytes \in Nat \ {0}
  BY JobFacts, CoreFacts DEF Written
<1>2. job[j].at = "fetch" /\ x \in Proxies /\ j \notin Queued(pool)
  BY <1>1, HasOne
<1>3. /\ Progress(j, Bytes - job[j].part) /\ pool' \in Proxy!SlotGiven(q, j)
      /\ job' = [job EXCEPT ![j] = r] /\ stopped' = stopped
  BY DEF Written
<1>4. r \in JobStates /\ r.at = "readback" /\ r.part = Bytes /\ r.proxy = x /\ r.segment = job[j].segment
  BY <1>1, <1>2 DEF JobStates, Busy
<1> HIDE DEF r
<1>5. /\ Settles(q) /\ KeptBut(pool, q, {j}) /\ q.queue = pool.queue /\ q.groups = pool.groups
  BY <1>1, <1>2, ExcludingOK DEF Core
<1> HIDE DEF q
<1>6. GaveBack(q, pool', j)
  BY <1>1, <1>2, <1>3, <1>5, SlotGivenOK DEF Settles, Queued
<1>7. Clear(pool, pool', j)
  <2>1. KeptBut(pool, pool', {j} \union {j})
    BY <1>5, <1>6, KeptTransitive DEF GaveBack
  <2>2. {j} \union {j} = {j}
    OBVIOUS
  <2>3. KeptBut(pool, pool', {j})
    BY <2>1, <2>2
  <2> QED BY <1>5, <1>6, <2>3 DEF Clear, GaveBack
<1> HIDE DEF x
<1>8. JobFits(pool', j, r)
  BY <1>2, <1>4, <1>7 DEF JobFits, Clear, Out, In, Whole
<1>9. Becomes(j, r)
  BY <1>3, <1>4, <1>7, <1>8 DEF Becomes, Clear
<1>10. r.part \in 1..Bytes /\ r.part > job[j].part
  BY <1>1, <1>2, <1>4 DEF JobFits
<1> QED BY <1>2, <1>3, <1>4, <1>9, <1>10 DEF Writes

\* It has no segment and takes the next one.
Takes(j, r) ==
  /\ job[j].at = "next" /\ ~Signalled(j) /\ load[DownloadOf(j)].next <= SegmentsOf[DownloadOf(j)]
  /\ r.at = "again" /\ r.segment = load[DownloadOf(j)].next /\ r.part = 0
  /\ load' = [load EXCEPT ![DownloadOf(j)].next = @ + 1]

\* There is none for it, or it is told to end.
Leaves(j, r) ==
  /\ job[j].at = "next" /\ (Signalled(j) \/ load[DownloadOf(j)].next > SegmentsOf[DownloadOf(j)])
  /\ r.at = "done" /\ r.part = 0
  /\ load' = load

LEMMA NextSegmentMoves ==
  ASSUME Core, NEW j \in Workers, NextSegment(j)
  PROVE  \E r : Becomes(j, r) /\ (Takes(j, r) \/ Leaves(j, r))
<1> DEFINE d == DownloadOf(j)
<1>1. /\ j \in Jobs /\ job[j] \in JobStates /\ job[j].at = "next" /\ d \in Downloads
      /\ stopped' = stopped
  BY JobFacts, CoreFacts DEF NextSegment
<1>2. Out(pool, j) /\ job[j].part = 0
  BY <1>1, CoreFacts, FitsOut DEF Loading, JobFits, Whole
<1>3. CASE Signalled(j) \/ load[d].next > SegmentsOf[d]
  <2> DEFINE r == [job[j] EXCEPT !.at = "done"]
  <2>1. job' = [job EXCEPT ![j] = r] /\ load' = load /\ pool' = pool
    BY <1>3 DEF NextSegment
  <2>2. r \in JobStates /\ r.at = "done" /\ r.part = 0
    BY <1>1, <1>2 DEF JobStates
  <2> HIDE DEF r
  <2>3. Becomes(j, r)
    BY <1>1, <1>2, <2>1, <2>2, OnlyRenamed DEF Whole
  <2>4. Leaves(j, r)
    BY <1>1, <1>3, <2>1, <2>2 DEF Leaves
  <2> QED BY <2>3, <2>4
<1>4. CASE ~(Signalled(j) \/ load[d].next > SegmentsOf[d])
  <2> DEFINE r == [Idle EXCEPT !.at = "again", !.segment = load[d].next]
  <2>0. load[d].next \in Nat /\ SegmentsOf[d] \in Nat
    BY <1>1, SegmentedAssumption DEF Core, Typed, Loads
  <2>1. /\ job' = [job EXCEPT ![j] = r] /\ load' = [load EXCEPT ![d].next = @ + 1]
        /\ pool' = [pool EXCEPT !.avoid[j] = {}]
    BY <1>4 DEF NextSegment
  <2>2. r \in JobStates /\ r.at = "again" /\ r.part = 0 /\ r.segment = load[d].next
    BY <2>0 DEF JobStates, Idle, Errors, Busy
  <2> HIDE DEF r
  <2>3. pool' = Avoiding(pool, j, {})
    BY <2>1 DEF Avoiding
  <2>4. Clear(pool, pool', j)
    BY <1>1, <1>2, <2>3, ClearSame, ClearAvoids DEF Core
  <2>5. JobFits(pool', j, r)
    BY <2>2, <2>4, NothingFits DEF Clear, Whole
  <2>6. Becomes(j, r)
    BY <1>1, <2>1, <2>2, <2>4, <2>5 DEF Becomes, Clear
  <2>7. Takes(j, r)
    BY <1>1, <1>4, <2>0, <2>1, <2>2 DEF Takes
  <2> QED BY <2>6, <2>7
<1> QED BY <1>3, <1>4

\* A job goes on, and its download stays at the stage it is at.
LEMMA BecomesKeepsCore ==
  ASSUME Core, NEW j \in Jobs, NEW r, Becomes(j, r), job[j].at # "idle", r.at # "idle",
         j \in Workers \/ (r.at \in {"again", "fetch"} /\ r.part = 0),
         load' \in [Downloads -> Loads], \A d \in Downloads : load'[d].at = load[d].at,
         aborted' = aborted
  PROVE  Core'
<1>1. /\ job' = [job EXCEPT ![j] = r] /\ r \in JobStates /\ Settles(pool')
      /\ KeptBut(pool, pool', {j}) /\ JobFits(pool', j, r) /\ stopped' = stopped
  BY DEF Becomes
<1>2. job' \in [Jobs -> JobStates] /\ job'[j] = r /\ \A i \in Jobs \ {j} : job'[i] = job[i]
  BY <1>1 DEF Core, Typed
<1>3. Typed'
  BY <1>1, <1>2 DEF Core, Typed
<1>4. Fits'
  <2> SUFFICES ASSUME NEW i \in Jobs PROVE JobFits(pool', i, job'[i])
    BY DEF Fits
  <2>1. CASE i = j
    BY <1>1, <1>2, <2>1
  <2>2. CASE i # j
    <3>1. JobFits(pool, i, job[i]) /\ PoolOK(pool) /\ PoolOK(pool')
      BY <1>1 DEF Core, Fits, Settles
    <3>2. JobFits(pool', i, job[i])
      BY <1>1, <2>2, <3>1, StillFits
    <3> QED BY <1>2, <2>2, <3>2
  <2> QED BY <2>1, <2>2
<1>5. Stages'
  <2> SUFFICES ASSUME NEW d \in Downloads
               PROVE  /\ IF load'[d].at = "probe" THEN job'[ProbeOf(d)].at \in {"again", "fetch"}
                         ELSE job'[ProbeOf(d)].at = "idle"
                      /\ job'[ProbeOf(d)].part = 0
                      /\ \A k \in 1..Connections :
                           IF load'[d].at = "segments" /\ <<d, k>> \in WorkersOf(d)
                           THEN job'[<<d, k>>].at # "idle" ELSE job'[<<d, k>>].at = "idle"
                      /\ load'[d].at \in {"prepare", "allocate", "segments"} => WorkersOf(d) # {}
    BY DEF Stages, StageOf
  <2>1. load'[d].at = load[d].at
    OBVIOUS
  <2>2. /\ IF load[d].at = "probe" THEN job[ProbeOf(d)].at \in {"again", "fetch"}
           ELSE job[ProbeOf(d)].at = "idle"
        /\ job[ProbeOf(d)].part = 0
    BY DEF Core, Stages, StageOf
  <2>3. \A k \in 1..Connections :
          IF load[d].at = "segments" /\ <<d, k>> \in WorkersOf(d)
          THEN job[<<d, k>>].at # "idle" ELSE job[<<d, k>>].at = "idle"
    BY DEF Core, Stages, StageOf
  <2>4. load[d].at \in {"prepare", "allocate", "segments"} => WorkersOf(d) # {}
    BY DEF Core, Stages, StageOf
  <2>5. /\ IF load[d].at = "probe" THEN job'[ProbeOf(d)].at \in {"again", "fetch"}
           ELSE job'[ProbeOf(d)].at = "idle"
        /\ job'[ProbeOf(d)].part = 0
    BY <1>2, <2>2, JobFacts
  <2>6. ASSUME NEW k \in 1..Connections
        PROVE  IF load[d].at = "segments" /\ <<d, k>> \in WorkersOf(d)
               THEN job'[<<d, k>>].at # "idle" ELSE job'[<<d, k>>].at = "idle"
    <3>1. <<d, k>> \in Jobs
      BY SegmentedAssumption DEF Jobs
    <3> QED BY <1>2, <2>3, <3>1
  <2> QED BY <2>1, <2>4, <2>5, <2>6
<1> QED BY <1>1, <1>3, <1>4, <1>5 DEF Core

Kind(j, r) ==
  \/ Carries(j, r) \/ Writes(j, r) \/ TakesBack(j, r)
  \/ Accepts(j, r) \/ Takes(j, r) \/ Leaves(j, r)

WorkerActs(j) ==
  \/ NextSegment(j) \/ GivesUp(j) \/ ReadbackRejected(j) \/ Suspected(j) \/ CheckRejected(j)
  \/ WorkerHears(j)

\* Every action of a worker is of one of these kinds.
LEMMA WorkerHasAKind ==
  ASSUME Core, NEW j \in Workers, Attempt(j) \/ WorkerActs(j)
  PROVE  \E r : Becomes(j, r) /\ Kind(j, r)
<1>0. j \in Jobs
  BY JobFacts
<1>1. CASE Attempt(j)
  BY <1>0, <1>1, AttemptCarries DEF Kind
<1>2. CASE NextSegment(j)
  BY <1>2, NextSegmentMoves DEF Kind
<1>3. CASE GivesUp(j)
  BY <1>3, GivesUpCarries DEF Kind
<1>4. CASE ReadbackRejected(j)
  BY <1>4, ReadbackRejectedTakesBack DEF Kind
<1>5. CASE Suspected(j)
  BY <1>5, SuspectedMoves DEF Kind
<1>6. CASE CheckRejected(j)
  BY <1>6, CheckRejectedTakesBack DEF Kind
<1>7. CASE Flushed(j)
  BY <1>7, FlushedWrites DEF Kind
<1>8. CASE Written(j)
  BY <1>8, WrittenWrites DEF Kind
<1>9. CASE FetchFails(j)
  BY <1>9, FetchFailsTakesBack DEF Kind
<1>10. CASE PauseEnds(j)
  BY <1>10, PauseEndsCarries DEF Kind
<1>11. CASE ReadBack(j)
  BY <1>11, ReadBackMoves DEF Kind
<1>12. CASE Checked(j)
  BY <1>12, CheckedMoves DEF Kind
<1> QED BY <1>1, <1>2, <1>3, <1>4, <1>5, <1>6, <1>7, <1>8, <1>9, <1>10, <1>11, <1>12
        DEF WorkerActs, WorkerHears

LEMMA LoadTyped ==
  ASSUME Typed, NEW d \in Downloads
  PROVE  /\ load[d] \in Loads /\ load[d].next \in Nat /\ load[d].valid \in SUBSET Nat
         /\ load[d].progress \in Nat /\ SegmentsOf[d] \in Nat \ {0} /\ Bytes \in Nat \ {0}
         /\ load[d].temp \in BOOLEAN /\ load[d].renamed \in BOOLEAN /\ load[d].run \in {1, 2}
BY SegmentedAssumption DEF Typed, Loads

\* What a worker does to its download.
LEMMA KindOfLoad ==
  ASSUME Core, NEW j \in Workers, NEW r, Becomes(j, r), Kind(j, r)
  PROVE  /\ load' \in [Downloads -> Loads] /\ \A d \in Downloads : load'[d].at = load[d].at
         /\ job[j].at # "idle" /\ r.at # "idle"
<1> DEFINE d == DownloadOf(j)
<1>1. /\ d \in Downloads /\ load \in [Downloads -> Loads] /\ job[j] \in JobStates
      /\ job[j].segment \in Nat /\ job[j].part \in Nat
  BY JobFacts, CoreFacts DEF Core, Typed, JobStates
<1>2. /\ load[d].next \in Nat /\ load[d].valid \in SUBSET Nat /\ load[d].progress \in Nat
      /\ SegmentsOf[d] \in Nat /\ Bytes \in Nat /\ Bytes * SegmentsOf[d] \in Nat
  BY <1>1, LoadTyped DEF Core
<1> HIDE DEF d
<1>3. ASSUME NEW n \in Nat, load' = [load EXCEPT ![d].progress = n]
      PROVE  load' \in [Downloads -> Loads] /\ \A e \in Downloads : load'[e].at = load[e].at
  BY <1>1, <1>3 DEF Loads
<1>4. CASE Carries(j, r)
  BY <1>1, <1>4 DEF Carries, Busy
<1>5. CASE Writes(j, r)
  <2> DEFINE n == Min({load[d].progress + (r.part - job[j].part), Bytes * SegmentsOf[d]})
  <2>1. r.part - job[j].part \in Nat /\ job[j].at = "fetch" /\ r.at \in {"fetch", "readback"}
    BY <1>1, <1>2, <1>5 DEF Writes
  <2>2. n \in Nat
    <3> DEFINE a == load[d].progress + (r.part - job[j].part)
               b == Bytes * SegmentsOf[d]
    <3>1. a \in Nat /\ b \in Nat
      BY <1>2, <2>1
    <3> HIDE DEF a, b
    <3>2. Min({a, b}) \in Nat
      BY <3>1, MinPair
    <3> QED BY <3>2 DEF a, b
  <2>3. load' = [load EXCEPT ![d].progress = n]
    BY <1>5 DEF Writes, Progress, d
  <2> HIDE DEF n
  <2> QED BY <1>3, <2>1, <2>2, <2>3
<1>6. CASE TakesBack(j, r)
  <2> DEFINE n == Max({0, load[d].progress - job[j].part})
  <2>1. n \in Nat
    <3> DEFINE a == load[d].progress - job[j].part
    <3>1. a \in Int
      BY <1>1, <1>2
    <3> HIDE DEF a
    <3>2. Max({0, a}) \in Int /\ Max({0, a}) >= 0
      BY <3>1, MaxPair
    <3> QED BY <3>2 DEF a
  <2>2. load' = [load EXCEPT ![d].progress = n]
    BY <1>6 DEF TakesBack, d
  <2> HIDE DEF n
  <2> QED BY <1>3, <1>6, <2>1, <2>2 DEF TakesBack, Busy
<1>7. CASE Accepts(j, r)
  <2> DEFINE S == load[d].valid \union {job[j].segment}
  <2>1. S \in SUBSET Nat
    BY <1>1, <1>2
  <2>2. load' = [load EXCEPT ![d].valid = S]
    BY <1>7 DEF Accepts, d
  <2> HIDE DEF S
  <2>3. load' \in [Downloads -> Loads] /\ \A e \in Downloads : load'[e].at = load[e].at
    BY <1>1, <2>1, <2>2 DEF Loads
  <2> QED BY <1>7, <2>3 DEF Accepts, Whole
<1>8. CASE Takes(j, r)
  <2>1. load' = [load EXCEPT ![d].next = load[d].next + 1] /\ load[d].next + 1 \in Nat
    BY <1>2, <1>8 DEF Takes, d
  <2>2. load' \in [Downloads -> Loads] /\ \A e \in Downloads : load'[e].at = load[e].at
    BY <1>1, <2>1 DEF Loads
  <2> QED BY <1>8, <2>2 DEF Takes
<1>9. CASE Leaves(j, r)
  BY <1>1, <1>9 DEF Leaves
<1> QED BY <1>4, <1>5, <1>6, <1>7, <1>8, <1>9 DEF Kind

\* A worker keeps the invariant.
LEMMA WorkerKeepsCore ==
  ASSUME Core, NEW j \in Workers, NEW r, Becomes(j, r), Kind(j, r), aborted' = aborted
  PROVE  Core'
BY JobFacts, KindOfLoad, BecomesKeepsCore

-----------------------------------------------------------------------------
(***************************************************************************)
(* Core is kept by the probe, by the download, and by the coordinator.     *)
(***************************************************************************)

\* What others do leaves stage and books of a download as they are.
LEMMA StageKept ==
  ASSUME NEW d \in Downloads, StageOf(d), load'[d].at = load[d].at,
         \A j \in Jobs : DownloadOf(j) = d => job'[j] = job[j]
  PROVE  StageOf(d)'
<1>1. job'[ProbeOf(d)] = job[ProbeOf(d)]
  BY JobFacts
<1>2. \A k \in 1..Connections : job'[<<d, k>>] = job[<<d, k>>]
  BY SegmentedAssumption DEF Jobs, DownloadOf
<1> QED BY <1>1, <1>2 DEF StageOf

LEMMA FitsKept ==
  ASSUME Core, Settles(pool'), NEW cs, KeptBut(pool, pool', cs),
         NEW j \in Jobs, j \notin cs, job'[j] = job[j]
  PROVE  JobFits(pool', j, job'[j])
<1>1. JobFits(pool, j, job[j]) /\ PoolOK(pool) /\ PoolOK(pool')
  BY DEF Core, Fits, Settles
<1>2. JobFits(pool', j, job[j])
  BY <1>1, StillFits
<1> QED BY <1>2

\* The probe of a download goes on or ends.
LEMMA ProbeKeepsCore ==
  ASSUME Core, NEW d \in Downloads, NEW r \in JobStates, NEW l \in Loads,
         job' = [job EXCEPT ![ProbeOf(d)] = r], load' = [load EXCEPT ![d] = l],
         Settles(pool'), KeptBut(pool, pool', {ProbeOf(d)}), JobFits(pool', ProbeOf(d), r),
         stopped' = stopped, aborted' = aborted,
         IF l.at = "probe" THEN r.at \in {"again", "fetch"} ELSE r.at = "idle",
         r.part = 0, load[d].at # "segments", l.at \notin {"segments", "allocate"},
         l.at = "prepare" => WorkersOf(d) # {}
  PROVE  Core'
<1> DEFINE j == ProbeOf(d)
<1>1. j \in Jobs /\ j \notin Workers
  BY JobFacts
<1>2. /\ job' \in [Jobs -> JobStates] /\ job'[j] = r /\ \A i \in Jobs \ {j} : job'[i] = job[i]
      /\ load' \in [Downloads -> Loads] /\ load'[d] = l
      /\ \A e \in Downloads \ {d} : load'[e] = load[e]
  BY <1>1 DEF Core, Typed
<1>3. Typed'
  BY <1>2 DEF Core, Typed
<1>4. Fits'
  <2> SUFFICES ASSUME NEW i \in Jobs PROVE JobFits(pool', i, job'[i])
    BY DEF Fits
  <2>1. CASE i = j
    BY <1>2, <2>1
  <2>2. CASE i # j
    BY <1>2, <2>2, FitsKept
  <2> QED BY <2>1, <2>2
<1>5. Stages'
  <2> SUFFICES ASSUME NEW e \in Downloads PROVE StageOf(e)'
    BY DEF Stages
  <2>1. CASE e # d
    <3>1. \A i \in Jobs : DownloadOf(i) = e => job'[i] = job[i]
      BY <1>2, <2>1, JobFacts
    <3> QED BY <1>2, <2>1, <3>1, StageKept DEF Core, Stages
  <2>2. CASE e = d
    <3>1. \A k \in 1..Connections : job'[<<d, k>>].at = "idle"
      <4> SUFFICES ASSUME NEW k \in 1..Connections PROVE job'[<<d, k>>].at = "idle"
        OBVIOUS
      <4>1. <<d, k>> \in Workers
        BY DEF Workers
      <4>2. job'[<<d, k>>] = job[<<d, k>>]
        BY <1>1, <1>2, <4>1, JobFacts
      <4> QED BY <4>2 DEF Core, Stages, StageOf
    <3> QED BY <1>2, <2>2, <3>1 DEF StageOf
  <2> QED BY <2>1, <2>2
<1> QED BY <1>3, <1>4, <1>5 DEF Core

\* A download goes on to its next stage while it has neither a probe nor workers.
LEMMA LoadKeepsCore ==
  ASSUME Core, NEW d \in Downloads, NEW l \in Loads, load' = [load EXCEPT ![d] = l], job' = job,
         Settles(pool'), KeptBut(pool, pool', {}), stopped' = stopped, aborted' \subseteq Downloads,
         load[d].at \notin {"probe", "segments"}, l.at \notin {"probe", "segments"},
         l.at \in {"prepare", "allocate"} => WorkersOf(d) # {}
  PROVE  Core'
<1>1. /\ load' \in [Downloads -> Loads] /\ load'[d] = l
      /\ \A e \in Downloads \ {d} : load'[e] = load[e]
  BY DEF Core, Typed
<1>2. Typed'
  BY <1>1 DEF Core, Typed
<1>3. Fits'
  BY FitsKept DEF Fits
<1>4. Stages'
  <2> SUFFICES ASSUME NEW e \in Downloads PROVE StageOf(e)'
    BY DEF Stages
  <2>1. CASE e # d
    BY <1>1, <2>1, StageKept DEF Core, Stages
  <2>2. CASE e = d
    BY <1>1, <2>2 DEF Core, Stages, StageOf
  <2> QED BY <2>1, <2>2
<1> QED BY <1>2, <1>3, <1>4 DEF Core

\* Only the coordinator changes, and what waits there may have left.
LEMMA PoolKeepsCore ==
  ASSUME Core, load' = load, job' = job, stopped' \subseteq Downloads, aborted' \subseteq Downloads,
         Settles(pool'), NEW cs, KeptBut(pool, pool', cs),
         \A c \in cs : pool'.lease[c] = pool.lease[c] /\ c \notin Queued(pool')
  PROVE  Core'
<1>1. Typed'
  BY DEF Core, Typed
<1>2. Fits'
  <2> SUFFICES ASSUME NEW i \in Jobs PROVE JobFits(pool', i, job'[i])
    BY DEF Fits
  <2>1. CASE i \notin cs
    BY <2>1, FitsKept
  <2>2. CASE i \in cs
    BY <2>2 DEF Core, Fits, JobFits, In
  <2> QED BY <2>1, <2>2
<1>3. Stages'
  BY StageKept DEF Core, Stages
<1> QED BY <1>1, <1>2, <1>3 DEF Core

Results == {"none", "fallback", "failed", "aborted", "changed", "completed"}

\* Another stage of a download, and another result.
Going(d, at, result) == [load[d] EXCEPT !.at = at, !.result = result]

\* The actions of a probe keep the invariant.
LEMMA ProbeLeavesCore ==
  ASSUME Core, NEW d \in Downloads, load[d].at = "probe",
         NEW at \in {"prepare", "ending"}, NEW result \in Results,
         ProbeLeaves(d, at, result), Clear(pool, pool', ProbeOf(d)),
         at = "prepare" => WorkersOf(d) # {}
  PROVE  Core'
<1> DEFINE l == Going(d, at, result)
<1>1. l \in Loads /\ l.at = at
  <2>1. load[d] \in Loads /\ load \in [Downloads -> Loads]
    BY LoadTyped DEF Core, Typed
  <2>2. l \in Loads /\ l.at = at
    BY <2>1 DEF Loads, Results, Going
  <2> QED BY <2>2
<1>5. load' = [load EXCEPT ![d] = l]
  BY DEF Core, Typed, ProbeLeaves, Going
<1> HIDE DEF l
<1>2. /\ job' = [job EXCEPT ![ProbeOf(d)] = Idle] /\ stopped' = stopped /\ aborted' = aborted
  BY DEF ProbeLeaves, NoReadback
<1>3. Idle \in JobStates /\ Idle.at = "idle" /\ Idle.part = 0
  BY DEF Idle, JobStates
<1>4. JobFits(pool', ProbeOf(d), Idle)
  BY <1>3, NothingFits DEF Clear, Whole
<1> QED BY <1>1, <1>2, <1>3, <1>4, <1>5, ProbeKeepsCore DEF Clear

LEMMA ProbeFacts ==
  ASSUME Core, NEW d \in Downloads, ProbeFetches(d)
  PROVE  /\ load[d].at = "probe" /\ ProbeOf(d) \in Jobs /\ job[ProbeOf(d)].at = "fetch"
         /\ ProbeProxy(d) \in Proxies /\ ProbeOf(d) \notin Queued(pool)
<1>1. Has(ProbeOf(d), "fetch") /\ ProbeOf(d) \in Jobs
  BY JobFacts DEF ProbeFetches
<1>2. /\ job[ProbeOf(d)].at = "fetch" /\ pool.lease[ProbeOf(d)] \in Proxies
      /\ ProbeOf(d) \notin Queued(pool)
  BY <1>1, HasOne
<1>3. load[d].at = "probe"
  BY <1>2 DEF Core, Stages, StageOf
<1> QED BY <1>1, <1>2, <1>3 DEF ProbeProxy

LEMMA ProbeReleasedClear ==
  ASSUME Core, NEW d \in Downloads, ProbeFetches(d), NEW e, NEW q \in ProbeReleased(d, e)
  PROVE  Clear(pool, q, ProbeOf(d))
BY ProbeFacts, ReleasedClear DEF ProbeReleased

LEMMA ProbeWellClear ==
  ASSUME Core, NEW d \in Downloads, ProbeFetches(d),
         NEW q \in Proxy!ReleasedWell(pool, ProbeOf(d), ProbeProxy(d))
  PROVE  Clear(pool, q, ProbeOf(d))
BY ProbeFacts, ReleasedWellOK, ClearGaveBack DEF Core, Settles

LEMMA ProbeOkCore ==
  ASSUME Core, NEW d \in Downloads, ProbeOk(d)
  PROVE  Core'
<1>1. ProbeFetches(d) /\ Clear(pool, pool', ProbeOf(d))
  BY ProbeWellClear DEF ProbeOk
<1>2. load[d].at = "probe"
  BY <1>1, ProbeFacts
<1>3. CASE Cardinality(WorkersOf(d)) < 2
  <2>1. ProbeLeaves(d, "ending", "fallback")
    BY <1>3 DEF ProbeOk
  <2> QED BY <1>1, <1>2, <2>1, ProbeLeavesCore DEF Results
<1>4. CASE ~(Cardinality(WorkersOf(d)) < 2)
  <2>1. ProbeLeaves(d, "prepare", "none")
    BY <1>4 DEF ProbeOk
  <2>2. WorkersOf(d) # {}
    BY <1>4, FS_EmptySet
  <2> QED BY <1>1, <1>2, <2>1, <2>2, ProbeLeavesCore DEF Results
<1> QED BY <1>3, <1>4

LEMMA ProbeRefusedCore ==
  ASSUME Core, NEW d \in Downloads, ProbeRefused(d)
  PROVE  Core'
<1> DEFINE j == ProbeOf(d)
           told == UNION {Reported(p, d, job[j].error) : p \in ProbeReleased(d, "certificate")}
<1>1. ProbeFetches(d) /\ load[d].at = "probe" /\ j \in Jobs
  BY Zenon, ProbeFacts DEF ProbeRefused
<1>2. \A q \in told : Clear(pool, q, j)
  <2> SUFFICES ASSUME NEW p \in ProbeReleased(d, "certificate"), NEW q \in Reported(p, d, job[j].error)
               PROVE  Clear(pool, q, j)
    OBVIOUS
  <2>1. Clear(pool, p, j)
    BY <1>1, ProbeReleasedClear
  <2> QED BY <1>1, <2>1, ClearReported
<1>3. CASE /\ pool' \in Proxy!ReleasedWell(pool, ProbeOf(d), ProbeProxy(d))
           /\ ProbeLeaves(d, "ending", "fallback")
  BY <1>1, <1>3, ProbeWellClear, ProbeLeavesCore DEF Results
<1>4. CASE pool' \in told /\ ProbeLeaves(d, "ending", "fallback")
  BY <1>1, <1>2, <1>4, ProbeLeavesCore DEF Results
<1>5. CASE pool' \in ProbeReleased(d, "disk") /\ ProbeLeaves(d, "ending", "failed")
  BY <1>1, <1>5, ProbeReleasedClear, ProbeLeavesCore DEF Results
<1> QED BY Zenon, <1>3, <1>4, <1>5 DEF ProbeRefused

LEMMA ProbeCutCore ==
  ASSUME Core, NEW d \in Downloads, ProbeCut(d)
  PROVE  Core'
<1>1. ProbeFetches(d) /\ load[d].at = "probe" /\ ProbeLeaves(d, "ending", "aborted")
  BY ProbeFacts DEF ProbeCut
<1>2. Clear(pool, pool', ProbeOf(d))
  BY <1>1, ProbeReleasedClear DEF ProbeCut
<1> QED BY <1>1, <1>2, ProbeLeavesCore DEF Results

LEMMA ProbeEndsCore ==
  ASSUME Core, NEW d \in Downloads, ProbeEnds(d)
  PROVE  Core'
<1> DEFINE j == ProbeOf(d)
<1>1. load[d].at = "probe" /\ j \in Jobs
  BY JobFacts DEF ProbeEnds
<1>2. Out(pool, j)
  <2>1. CASE job[j].at = "again"
    BY <1>1, <2>1, CoreFacts, FitsOut DEF Loading
  <2>2. CASE Rejected(j, "fetch")
    BY <1>1, <2>2, OutRejected DEF Core, Rejected
  <2> QED BY <2>1, <2>2 DEF ProbeEnds
<1>3. Clear(pool, pool, j)
  BY <1>2, ClearSame DEF Core
<1>4. CASE pool' \in Reported(pool, d, job[j].error) /\ ProbeLeaves(d, "ending", "fallback")
  BY <1>1, <1>3, <1>4, ClearReported, ProbeLeavesCore DEF Results
<1>5. CASE pool' = pool /\ ProbeLeaves(d, "ending", "aborted")
  BY <1>1, <1>3, <1>5, ProbeLeavesCore DEF Results
<1> QED BY <1>4, <1>5 DEF ProbeEnds

LEMMA ProbeFailsCore ==
  ASSUME Core, NEW d \in Downloads, ProbeFails(d)
  PROVE  Core'
<1> DEFINE j == ProbeOf(d)
           x == ProbeProxy(d)
<1>1. /\ ProbeFetches(d) /\ load[d].at = "probe" /\ j \in Jobs /\ x \in Proxies
      /\ job[j].at = "fetch" /\ j \notin Queued(pool)
  BY ProbeFacts DEF ProbeFails
<1>2. job[j] \in JobStates /\ job[j].failures \in Nat /\ load[d] \in Loads
  BY <1>1, CoreFacts DEF Core, Typed
<1>3. /\ load' = load /\ stopped' = stopped /\ aborted' = aborted
  BY DEF ProbeFails, NoReadback
<1>4. ASSUME NEW ps, \A p \in ps : Clear(pool, p, j), NEW r \in JobStates,
             pool' \in {Excluding(p, j, x) : p \in ps}, job' = [job EXCEPT ![j] = r],
             r.at = "again", r.part = 0
      PROVE  Core'
  <2> HIDE DEF x
  <2>1. PICK p \in ps : pool' = Excluding(p, j, x)
    BY <1>4
  <2>2. Clear(pool, pool', j)
    BY <1>1, <1>4, <2>1, ClearExcluding
  <2>3. JobFits(pool', j, r)
    BY <1>4, <2>2, NothingFits DEF Clear, Whole
  <2>4. load' = [load EXCEPT ![d] = load[d]]
    BY <1>3 DEF Core, Typed
  <2> QED BY <1>1, <1>2, <1>3, <1>4, <2>2, <2>3, <2>4, ProbeKeepsCore DEF Clear
<1>5. job[j].part = 0
  BY DEF Core, Stages, StageOf
<1>6. ASSUME NEW e \in {"origin", "busy503", "busy429"},
             pool' \in {Excluding(p, j, x) : p \in ProbeReleased(d, e)},
             job' = [job EXCEPT ![j].at = "again", ![j].error = e, ![j].failures = @ + 1]
      PROVE  Core'
  <2> DEFINE r == [job[j] EXCEPT !.at = "again", !.error = e, !.failures = @ + 1]
  <2>0. "again" \in {"idle", "next", "done"} \union Busy /\ e \in Errors /\ job[j].failures + 1 \in Nat
    BY <1>2 DEF Busy, Errors
  <2>1. r \in JobStates /\ r.at = "again" /\ r.part = 0
    BY <1>2, <1>5, <2>0 DEF JobStates
  <2>2. job' = [job EXCEPT ![j] = r]
    BY <1>1, <1>6 DEF Core, Typed
  <2> HIDE DEF r
  <2>3. \A p \in ProbeReleased(d, e) : Clear(pool, p, j)
    BY <1>1, ProbeReleasedClear
  <2> QED BY <1>4, <1>6, <2>1, <2>2, <2>3
<1>7. CASE /\ pool' \in {Excluding(p, j, x) : p \in Proxy!ReleasedFailed(pool, j, x)}
           /\ job' = [job EXCEPT ![j].at = "again"]
  <2> DEFINE r == [job[j] EXCEPT !.at = "again"]
  <2>1. r \in JobStates /\ r.at = "again" /\ r.part = 0 /\ job' = [job EXCEPT ![j] = r]
    BY <1>2, <1>5, <1>7 DEF JobStates, Busy
  <2> HIDE DEF r
  <2>2. \A p \in Proxy!ReleasedFailed(pool, j, x) : Clear(pool, p, j)
    BY <1>1, ReleasedFailedOK, ClearGaveBack DEF Core, Settles
  <2> QED BY <1>4, <1>7, <2>1, <2>2
<1> QED BY <1>6, <1>7 DEF ProbeFails

LEMMA AttemptCore ==
  ASSUME Core, NEW j \in Jobs, Attempt(j)
  PROVE  Core'
<1>1. PICK r : Becomes(j, r) /\ Carries(j, r) /\ r.at = "fetch" /\ job[j].at = "again"
  BY AttemptCarries
<1>2. load' = load /\ aborted' = aborted /\ r.part = 0
  BY <1>1, CoreFacts DEF Attempt, NoReadback, Carries, JobFits, Whole
<1> QED BY <1>1, <1>2, BecomesKeepsCore DEF Core, Typed

\* The list is loaded, and the download registered.
LEMMA LoadedCore ==
  ASSUME Core, NEW d \in Downloads, Loaded(d)
  PROVE  Core'
<1> DEFINE j == ProbeOf(d)
           r == [Idle EXCEPT !.at = "again"]
           l == Going(d, "probe", load[d].result)
<1>1. j \in Jobs /\ load[d].at = "load" /\ stopped' = stopped /\ aborted' = aborted
  BY JobFacts DEF Loaded, NoReadback
<1>2. PICK q \in Proxy!Limited(pool, LimitOf[d]) : \E p \in Proxy!Registered(q, d) :
        pool' = [p EXCEPT !.avoid[j] = {}]
  BY DEF Loaded
<1>3. PICK p \in Proxy!Registered(q, d) : pool' = [p EXCEPT !.avoid[j] = {}]
  BY <1>2
<1>4. Settles(q) /\ KeptBut(pool, q, {})
  BY LimitedOK, SegmentedAssumption DEF Core, Settles
<1>5. Settles(p) /\ KeptBut(q, p, {})
  BY <1>4, RegisteredOK DEF Settles
<1>6. KeptBut(pool, p, {})
  <2>1. KeptBut(pool, p, {} \union {})
    BY <1>4, <1>5, KeptTransitive
  <2> QED BY <2>1 DEF KeptBut
<1>7. Out(pool, j)
  BY <1>1, CoreFacts, FitsOut DEF Loading, Core, Stages, StageOf
<1>8. Clear(p, p, j)
  BY <1>1, <1>5, <1>6, <1>7, ClearSame DEF KeptBut, Out
<1>9. Clear(p, pool', j)
  <2>1. pool' = Avoiding(p, j, {})
    BY <1>3 DEF Avoiding
  <2> QED BY <1>1, <1>8, <2>1, ClearAvoids
<1>10. KeptBut(pool, pool', {j})
  <2>1. KeptBut(pool, pool', {} \union {j})
    BY <1>6, <1>9, KeptTransitive DEF Clear
  <2>2. {} \union {j} = {j}
    OBVIOUS
  <2> QED BY <2>1, <2>2
<1>11. r \in JobStates /\ r.at = "again" /\ r.part = 0 /\ job' = [job EXCEPT ![j] = r]
  BY DEF JobStates, Idle, Busy, Loaded
<1> HIDE DEF r
<1>12. JobFits(pool', j, r)
  BY <1>9, <1>11, NothingFits DEF Clear, Whole
<1>13. l \in Loads /\ l.at = "probe" /\ load' = [load EXCEPT ![d] = l]
  <2>1. load[d] \in Loads /\ load \in [Downloads -> Loads]
    BY LoadTyped DEF Core, Typed
  <2>2. l \in Loads /\ l.at = "probe"
    BY <2>1 DEF Loads, Going
  <2>3. load' = [load EXCEPT ![d] = l]
    BY <2>1 DEF Loaded, Going
  <2> QED BY <2>2, <2>3
<1> HIDE DEF l
<1> QED BY <1>1, <1>9, <1>10, <1>11, <1>12, <1>13, ProbeKeepsCore DEF Clear

\* The actions of a download that leave the coordinator alone keep the invariant.
LEMMA SamePool ==
  ASSUME Core, pool' = pool
  PROVE  Settles(pool') /\ KeptBut(pool, pool', {}) /\ pool'.groups = pool.groups
BY DEF Core, KeptBut

LEMMA NoListCore ==
  ASSUME Core, NEW d \in Downloads, NoList(d)
  PROVE  Core'
<1> DEFINE l == [load[d] EXCEPT !.at = "over", !.result = "fallback"]
<1>1. /\ load[d].at = "load" /\ job' = job /\ stopped' = stopped /\ pool' = pool
      /\ aborted' \subseteq Downloads
  BY DEF NoList, NoReadback, Core, Typed
<1>2. l \in Loads /\ l.at = "over" /\ load' = [load EXCEPT ![d] = l]
  <2>1. load[d] \in Loads /\ load \in [Downloads -> Loads]
    BY LoadTyped DEF Core, Typed
  <2>2. l \in Loads /\ l.at = "over"
    BY <2>1 DEF Loads
  <2>3. load' = [load EXCEPT ![d] = l]
    BY <2>1 DEF NoList
  <2> QED BY <2>2, <2>3
<1> HIDE DEF l
<1> QED BY <1>1, <1>2, SamePool, LoadKeepsCore

LEMMA PreparedCore ==
  ASSUME Core, NEW d \in Downloads, Prepared(d)
  PROVE  Core'
<1>1. /\ load[d].at = "prepare" /\ job' = job /\ stopped' = stopped /\ pool' = pool
      /\ aborted' \subseteq Downloads
  BY Zenon DEF Prepared, NoReadback, Core, Typed
<1>2. WorkersOf(d) # {}
  BY <1>1 DEF Core, Stages, StageOf
<1>3. \E l \in Loads : l.at \in {"allocate", "ending"} /\ load' = [load EXCEPT ![d] = l]
  <2>1. CASE load' = [load EXCEPT ![d].at = "allocate"]
    <3> DEFINE l == [load[d] EXCEPT !.at = "allocate"]
    <3>1. l \in Loads /\ l.at = "allocate" /\ load' = [load EXCEPT ![d] = l]
      <4>1. load[d] \in Loads /\ load \in [Downloads -> Loads]
        BY LoadTyped DEF Core, Typed
      <4>2. l \in Loads /\ l.at = "allocate"
        BY <2>1, <4>1 DEF Loads
      <4>3. load' = [load EXCEPT ![d] = l]
        BY <2>1, <4>1
      <4> QED BY <4>2, <4>3
    <3> HIDE DEF l
    <3> QED BY <3>1
  <2>2. ASSUME NEW result \in {"fallback", "failed"},
               load' = [load EXCEPT ![d].at = "ending", ![d].result = result]
        PROVE  \E l \in Loads : l.at = "ending" /\ load' = [load EXCEPT ![d] = l]
    <3> DEFINE l == [load[d] EXCEPT !.at = "ending", !.result = result]
    <3>1. l \in Loads /\ l.at = "ending" /\ load' = [load EXCEPT ![d] = l]
      <4>1. load[d] \in Loads /\ load \in [Downloads -> Loads]
        BY LoadTyped DEF Core, Typed
      <4>2. l \in Loads /\ l.at = "ending"
        BY <2>2, <4>1 DEF Loads
      <4>3. load' = [load EXCEPT ![d] = l]
        BY <2>2, <4>1
      <4> QED BY <4>2, <4>3
    <3> HIDE DEF l
    <3> QED BY <3>1
  <2> QED BY Zenon, <2>1, <2>2 DEF Prepared
<1>4. PICK l \in Loads : l.at \in {"allocate", "ending"} /\ load' = [load EXCEPT ![d] = l]
  BY <1>3
<1> QED BY <1>1, <1>2, <1>4, SamePool, LoadKeepsCore

\* The workers of a download begin, or all have ended.
LEMMA WorkersKeepCore ==
  ASSUME Core, NEW d \in Downloads, NEW r \in JobStates, NEW l \in Loads,
         load' = [load EXCEPT ![d] = l],
         job' = [j \in Jobs |-> IF j \in WorkersOf(d) THEN r ELSE job[j]],
         pool' = pool, stopped' = stopped, aborted' = aborted,
         \A j \in WorkersOf(d) : job[j].at \notin Loading,
         r.part = 0, r.at \notin Whole \union {"fetch"},
         load[d].at # "probe",
         \/ l.at = "segments" /\ r.at # "idle" /\ load[d].at = "allocate"
         \/ l.at \notin {"segments", "probe", "prepare", "allocate"} /\ r.at = "idle"
  PROVE  Core'
<1>1. /\ load' \in [Downloads -> Loads] /\ load'[d] = l
      /\ \A e \in Downloads \ {d} : load'[e] = load[e]
      /\ job' \in [Jobs -> JobStates]
      /\ \A j \in Jobs : job'[j] = IF j \in WorkersOf(d) THEN r ELSE job[j]
  BY DEF Core, Typed
<1>2. Typed'
  BY <1>1 DEF Core, Typed
<1>3. Fits'
  <2> SUFFICES ASSUME NEW j \in Jobs PROVE JobFits(pool', j, job'[j])
    BY DEF Fits
  <2>1. CASE j \in WorkersOf(d)
    <3>1. Out(pool, j)
      BY <2>1, CoreFacts, FitsOut
    <3>2. JobFits(pool', j, r)
      BY <3>1, NothingFits
    <3> QED BY <1>1, <2>1, <3>2
  <2>2. CASE j \notin WorkersOf(d)
    BY <1>1, <2>2, SamePool, FitsKept
  <2> QED BY <2>1, <2>2
<1>4. Stages'
  <2> SUFFICES ASSUME NEW e \in Downloads PROVE StageOf(e)'
    BY DEF Stages
  <2>1. CASE e # d
    <3>1. \A j \in Jobs : DownloadOf(j) = e => job'[j] = job[j]
      BY <1>1, <2>1, JobFacts
    <3> QED BY <1>1, <2>1, <3>1, StageKept DEF Core, Stages
  <2>2. CASE e = d
    <3>1. StageOf(d)
      BY DEF Core, Stages
    <3>2. job'[ProbeOf(d)] = job[ProbeOf(d)]
      BY <1>1, JobFacts
    <3>3. \A k \in 1..Connections : <<d, k>> \in Jobs
      BY SegmentedAssumption DEF Jobs
    <3>4. \A k \in 1..Connections :
            job'[<<d, k>>] = IF <<d, k>> \in WorkersOf(d) THEN r ELSE job[<<d, k>>]
      BY <1>1, <3>3
    <3>5. \A k \in 1..Connections :
            IF l.at = "segments" /\ <<d, k>> \in WorkersOf(d)
            THEN job'[<<d, k>>].at # "idle" ELSE job'[<<d, k>>].at = "idle"
      BY <3>1, <3>4 DEF StageOf
    <3>6. l.at = "segments" => WorkersOf(d) # {}
      BY <3>1 DEF StageOf
    <3> QED BY <1>1, <2>2, <3>1, <3>2, <3>5, <3>6 DEF StageOf
  <2> QED BY <2>1, <2>2
<1> QED BY <1>2, <1>3, <1>4 DEF Core

LEMMA AllocatedCore ==
  ASSUME Core, NEW d \in Downloads, Allocated(d)
  PROVE  Core'
<1>1. load[d].at = "allocate" /\ stopped' = stopped /\ pool' = pool /\ aborted' = aborted
  BY Zenon DEF Allocated, NoReadback
<1>2. \A j \in WorkersOf(d) : job[j].at = "idle"
  <2>0. \A k \in 1..Connections : job[<<d, k>>].at = "idle"
    BY <1>1 DEF Core, Stages, StageOf
  <2>1. \A j \in WorkersOf(d) : j \in Workers /\ DownloadOf(j) = d
    BY JobFacts
  <2> QED BY <2>0, <2>1 DEF Workers, DownloadOf
<1>3. CASE /\ load' = [load EXCEPT ![d].at = "segments", ![d].temp = TRUE]
           /\ job' = [j \in Jobs |-> IF j \in WorkersOf(d)
                                     THEN [Idle EXCEPT !.at = "next"] ELSE job[j]]
  <2> DEFINE l == [load[d] EXCEPT !.at = "segments", !.temp = TRUE]
             r == [Idle EXCEPT !.at = "next"]
  <2>1. l \in Loads /\ l.at = "segments" /\ load' = [load EXCEPT ![d] = l]
    <3>1. load[d] \in Loads /\ load \in [Downloads -> Loads]
      BY LoadTyped DEF Core, Typed
    <3>2. l \in Loads /\ l.at = "segments"
      BY <1>3, <3>1 DEF Loads
    <3>3. load' = [load EXCEPT ![d] = l]
      BY <1>3, <3>1
    <3> QED BY <3>2, <3>3
  <2>2. r \in JobStates /\ r.at = "next" /\ r.part = 0
    BY DEF JobStates, Idle
  <2>3. job' = [j \in Jobs |-> IF j \in WorkersOf(d) THEN r ELSE job[j]]
    BY <1>3
  <2> HIDE DEF l, r
  <2> QED BY <1>1, <1>2, <2>1, <2>2, <2>3, WorkersKeepCore DEF Loading, Whole
<1>4. ASSUME NEW temp \in BOOLEAN, NEW result \in Thrown(d),
             load' = [load EXCEPT ![d].at = "cleanup", ![d].temp = temp, ![d].result = result],
             job' = job
      PROVE  Core'
  <2> DEFINE l == [load[d] EXCEPT !.at = "cleanup", !.temp = temp, !.result = result]
  <2>1. result \in {"aborted", "failed", "fallback"}
    BY DEF Thrown
  <2>2. l \in Loads /\ l.at = "cleanup" /\ load' = [load EXCEPT ![d] = l]
    <3>1. load[d] \in Loads /\ load \in [Downloads -> Loads]
      BY LoadTyped DEF Core, Typed
    <3>2. l \in Loads /\ l.at = "cleanup"
      BY <1>4, <2>1, <3>1 DEF Loads
    <3>3. load' = [load EXCEPT ![d] = l]
      BY <1>4, <2>1, <3>1
    <3> QED BY <3>2, <3>3
  <2> HIDE DEF l
  <2>3. aborted' \subseteq Downloads
    BY <1>1 DEF Core, Typed
  <2> QED BY <1>1, <1>4, <2>2, <2>3, SamePool, LoadKeepsCore
<1> QED BY Zenon, <1>3, <1>4 DEF Allocated

LEMMA SettledCore ==
  ASSUME Core, NEW d \in Downloads, Settled(d)
  PROVE  Core'
<1>1. /\ load[d].at = "segments" /\ stopped' = stopped /\ pool' = pool /\ aborted' = aborted
      /\ \A j \in WorkersOf(d) : job[j].at \in {"done", "failed"}
      /\ job' = [j \in Jobs |-> IF j \in WorkersOf(d) THEN Idle ELSE job[j]]
  BY DEF Settled, NoReadback
<1>2. Idle \in JobStates /\ Idle.part = 0 /\ Idle.at = "idle"
  BY DEF Idle, JobStates
<1>3. \A l \in Loads : l.at \in {"commit", "cleanup"} /\ load' = [load EXCEPT ![d] = l] => Core'
  BY <1>1, <1>2, WorkersKeepCore DEF Loading, Whole
<1>4. CASE load' = [load EXCEPT ![d].at = "commit"]
  <2> DEFINE l == [load[d] EXCEPT !.at = "commit"]
  <2>1. l \in Loads /\ l.at = "commit" /\ load' = [load EXCEPT ![d] = l]
    <3>1. load[d] \in Loads /\ load \in [Downloads -> Loads]
      BY LoadTyped DEF Core, Typed
    <3>2. l \in Loads /\ l.at = "commit"
      BY <1>4, <3>1 DEF Loads
    <3>3. load' = [load EXCEPT ![d] = l]
      BY <1>4, <3>1
    <3> QED BY <3>2, <3>3
  <2> HIDE DEF l
  <2> QED BY <1>3, <2>1
<1>5. ASSUME NEW result \in {"aborted", "failed", "fallback", "changed"},
             load' = [load EXCEPT ![d].at = "cleanup", ![d].result = result]
      PROVE  Core'
  <2> DEFINE l == [load[d] EXCEPT !.at = "cleanup", !.result = result]
  <2>1. l \in Loads /\ l.at = "cleanup" /\ load' = [load EXCEPT ![d] = l]
    <3>1. load[d] \in Loads /\ load \in [Downloads -> Loads]
      BY LoadTyped DEF Core, Typed
    <3>2. l \in Loads /\ l.at = "cleanup"
      BY <1>5, <3>1 DEF Loads
    <3>3. load' = [load EXCEPT ![d] = l]
      BY <1>5, <3>1
    <3> QED BY <3>2, <3>3
  <2> HIDE DEF l
  <2> QED BY <1>3, <2>1
<1> DEFINE failed == {k \in 1..Connections : job[<<d, k>>].at = "failed"}
           error(k) == job[<<d, k>>].error
           causes == {k \in failed : error(k) # "abort"}
           result == CASE d \in stopped -> "aborted"
                       [] error(Min(failed)) = "disk" -> "failed"
                       [] \E k \in failed : error(k) = "origin" -> "fallback"
                       [] error(Min(causes)) = "changed" -> "changed"
                       [] OTHER -> "fallback"
<1>6. result \in {"aborted", "failed", "fallback", "changed"}
  <2> HIDE DEF failed, error, causes
  <2> QED OBVIOUS
<1>7. load' = IF failed = {} THEN [load EXCEPT ![d].at = "commit"]
              ELSE [load EXCEPT ![d].at = "cleanup", ![d].result = result]
  BY DEF Settled
<1> HIDE DEF failed, result
<1> QED BY <1>4, <1>5, <1>6, <1>7

LEMMA CommitCore ==
  ASSUME Core, NEW d \in Downloads, Commit(d)
  PROVE  Core'
<1>1. /\ load[d].at = "commit" /\ job' = job /\ stopped' = stopped /\ pool' = pool
      /\ aborted' \subseteq Downloads
  BY DEF Commit, NoReadback, Core, Typed
<1>2. \A l \in Loads : l.at \in {"ending", "cleanup"} /\ load' = [load EXCEPT ![d] = l] => Core'
  BY <1>1, SamePool, LoadKeepsCore
<1>3. CASE load' = [load EXCEPT ![d].at = "ending", ![d].temp = FALSE,
                                ![d].renamed = TRUE, ![d].result = "completed"]
  <2> DEFINE l == [load[d] EXCEPT !.at = "ending", !.temp = FALSE, !.renamed = TRUE,
                                  !.result = "completed"]
  <2>1. l \in Loads /\ l.at = "ending" /\ load' = [load EXCEPT ![d] = l]
    <3>1. load[d] \in Loads /\ load \in [Downloads -> Loads]
      BY LoadTyped DEF Core, Typed
    <3>2. l \in Loads /\ l.at = "ending"
      BY <1>3, <3>1 DEF Loads
    <3>3. load' = [load EXCEPT ![d] = l]
      BY <1>3, <3>1
    <3> QED BY <3>2, <3>3
  <2> HIDE DEF l
  <2> QED BY <1>2, <2>1
<1>4. ASSUME NEW result \in Thrown(d),
             load' = [load EXCEPT ![d].at = "cleanup", ![d].result = result]
      PROVE  Core'
  <2> DEFINE l == [load[d] EXCEPT !.at = "cleanup", !.result = result]
  <2>1. result \in {"aborted", "failed", "fallback"}
    BY DEF Thrown
  <2>2. l \in Loads /\ l.at = "cleanup" /\ load' = [load EXCEPT ![d] = l]
    <3>1. load[d] \in Loads /\ load \in [Downloads -> Loads]
      BY LoadTyped DEF Core, Typed
    <3>2. l \in Loads /\ l.at = "cleanup"
      BY <1>4, <2>1, <3>1 DEF Loads
    <3>3. load' = [load EXCEPT ![d] = l]
      BY <1>4, <2>1, <3>1
    <3> QED BY <3>2, <3>3
  <2> HIDE DEF l
  <2> QED BY <1>2, <2>2
<1> QED BY <1>3, <1>4 DEF Commit

LEMMA CleanupCore ==
  ASSUME Core, NEW d \in Downloads, Cleanup(d)
  PROVE  Core'
<1> DEFINE n == IF load[d].temp THEN 0 ELSE load[d].progress
           l == [load[d] EXCEPT !.at = "ending", !.temp = FALSE, !.valid = {}, !.progress = n]
<1>1. /\ load[d].at = "cleanup" /\ job' = job /\ stopped' = stopped /\ pool' = pool
      /\ aborted' \subseteq Downloads
  BY DEF Cleanup, NoReadback, Core, Typed
<1>2. n \in Nat
  BY LoadTyped DEF Core
<1>3. l \in Loads /\ l.at = "ending"
  <2>1. load[d] \in Loads /\ load \in [Downloads -> Loads]
    BY LoadTyped DEF Core, Typed
  <2>2. l \in Loads /\ l.at = "ending"
    BY <1>2, <2>1 DEF Loads
  <2> QED BY <2>2
<1>4. load' = [load EXCEPT ![d] = l]
  BY DEF Core, Typed, Cleanup
<1> HIDE DEF l
<1> QED BY <1>1, <1>3, <1>4, SamePool, LoadKeepsCore

\* The download leaves the coordinator.
LEMMA EndedCore ==
  ASSUME Core, NEW d \in Downloads, Ended(d)
  PROVE  Core'
<1>1. /\ load[d].at = "ending" /\ job' = job /\ stopped' = stopped
      /\ pool' \in Proxy!Unregistered(pool, d)
  BY DEF Ended
<1>2. Settles(pool') /\ KeptBut(pool, pool', {})
  BY <1>1, UnregisteredOK DEF Core, Settles
<1>3. aborted' \subseteq Downloads
  BY DEF Ended, Core, Typed
<1>4. \A l \in Loads : l.at \in {"load", "over"} /\ load' = [load EXCEPT ![d] = l] => Core'
  BY <1>1, <1>2, <1>3, LoadKeepsCore
<1>5. CASE load' = [load EXCEPT ![d].at = "load", ![d].run = 2, ![d].next = 1, ![d].result = "none"]
  <2> DEFINE l == [load[d] EXCEPT !.at = "load", !.run = 2, !.next = 1, !.result = "none"]
  <2>1. l \in Loads /\ l.at = "load" /\ load' = [load EXCEPT ![d] = l]
    <3>1. load[d] \in Loads /\ load \in [Downloads -> Loads]
      BY LoadTyped DEF Core, Typed
    <3>2. l \in Loads /\ l.at = "load"
      BY <1>5, <3>1 DEF Loads
    <3>3. load' = [load EXCEPT ![d] = l]
      BY <1>5, <3>1
    <3> QED BY <3>2, <3>3
  <2> HIDE DEF l
  <2> QED BY <1>4, <2>1
<1>6. ASSUME NEW result \in Results, load' = [load EXCEPT ![d].at = "over", ![d].result = result]
      PROVE  Core'
  <2> DEFINE l == [load[d] EXCEPT !.at = "over", !.result = result]
  <2>1. l \in Loads /\ l.at = "over" /\ load' = [load EXCEPT ![d] = l]
    <3>1. load[d] \in Loads /\ load \in [Downloads -> Loads]
      BY LoadTyped DEF Core, Typed
    <3>2. l \in Loads /\ l.at = "over"
      BY <1>6, <3>1 DEF Loads, Results
    <3>3. load' = [load EXCEPT ![d] = l]
      BY <1>6, <3>1
    <3> QED BY <3>2, <3>3
  <2> HIDE DEF l
  <2> QED BY <1>4, <2>1
<1> DEFINE twice == load[d].result = "changed" /\ load[d].run = 1
           result == IF twice THEN "aborted"
                     ELSE IF load[d].result = "changed" THEN "fallback" ELSE load[d].result
<1>7. result \in Results
  BY DEF Core, Typed, Loads, Results
<1>8. \/ load' = [load EXCEPT ![d].at = "load", ![d].run = 2, ![d].next = 1, ![d].result = "none"]
      \/ load' = [load EXCEPT ![d].at = "over", ![d].result = result]
  BY DEF Ended, Core, Typed
<1> HIDE DEF result
<1> QED BY <1>5, <1>6, <1>7, <1>8

\* Waiters that are told to end leave the coordinator.
LEMMA DispatchedCore ==
  ASSUME Core, NEW d \in Downloads, Dispatched(d), load' = load, job' = job,
         stopped' \subseteq Downloads
  PROVE  Core'
<1> DEFINE cs == {j \in Jobs : DownloadOf(j) = d}
<1>1. aborted' \subseteq Downloads
  BY DEF Dispatched, Readback!Abort, Core, Typed
<1>2. /\ Settles(pool') /\ KeptBut(pool, pool', cs)
      /\ \A c \in cs : pool'.lease[c] = pool.lease[c] /\ c \notin Queued(pool')
  <2>1. cs \in SUBSET Jobs
    OBVIOUS
  <2>2. pool' \in Proxy!Left(pool, cs)
    BY DEF Dispatched
  <2> HIDE DEF cs
  <2> QED BY <2>1, <2>2, LeftOK DEF Core, Settles
<1> HIDE DEF cs
<1> QED BY <1>1, <1>2, PoolKeepsCore

LEMMA CascadeCore ==
  ASSUME Core, NEW d \in Downloads, Cascade(d)
  PROVE  Core'
BY DispatchedCore DEF Cascade, Core, Typed

LEMMA StopCore ==
  ASSUME Core, NEW d \in Downloads, Stop(d)
  PROVE  Core'
<1>1. stopped' \subseteq Downloads /\ load' = load /\ job' = job
  BY DEF Stop, Core, Typed
<1>2. CASE d \in aborted
  <2>1. pool' = pool /\ aborted' = aborted
    BY <1>2 DEF Stop
  <2>2. aborted' \subseteq Downloads
    BY <2>1 DEF Core, Typed
  <2> QED BY <1>1, <2>1, <2>2, SamePool, PoolKeepsCore
<1>3. CASE d \notin aborted
  <2>1. Dispatched(d)
    BY <1>3 DEF Stop
  <2> QED BY <1>1, <2>1, DispatchedCore
<1> QED BY <1>2, <1>3

\* The timer of the coordinator.
LEMMA CooldownEndsCore ==
  ASSUME Core, CooldownEnds
  PROVE  Core'
<1>1. /\ load' = load /\ job' = job /\ stopped' \subseteq Downloads /\ aborted' \subseteq Downloads
  BY DEF CooldownEnds, NoReadback, Core, Typed
<1>2. Settles(pool') /\ KeptBut(pool, pool', {})
  BY ExpiredOK DEF Core, CooldownEnds
<1> QED BY <1>1, <1>2, PoolKeepsCore

\* The invariant holds at first, and every step keeps it.
LEMMA CoreInit ==
  ASSUME Init
  PROVE  Core
<1>1. /\ pool = Proxy!NewPool /\ job = [j \in Jobs |-> Idle] /\ stopped = {} /\ aborted = {}
      /\ load = [d \in Downloads |->
           [at |-> "load", run |-> 1, next |-> 1, valid |-> {}, progress |-> 0,
            temp |-> FALSE, renamed |-> FALSE, result |-> "none"]]
  BY DEF Init, Readback!Init
<1>2. Typed
  BY <1>1 DEF Typed, Loads, JobStates, Idle
<1>3. /\ pool.configured = 32 /\ pool.limit = 32 /\ pool.throttle = [g \in Downloads |-> 0]
      /\ pool.cooling = <<>> /\ pool.groups = {} /\ pool.queue = <<>>
      /\ pool.avoid = [c \in Jobs |-> {}] /\ pool.lease = [c \in Jobs |-> None]
      /\ pool.wake = None
  BY <1>1 DEF Proxy!NewPool, Proxy!DefaultLimit
<1>4. pool \in Pools
  BY <1>1 DEF Proxy!NewPool, Proxy!DefaultLimit, Pools
<1>5. Queued(pool) = {}
  BY <1>3 DEF Queued, Elems
<1>6. PoolOK(pool)
  BY <1>3, <1>4, <1>5 DEF PoolOK, Distinct
<1>7. Settles(pool)
  <2>1. Served(pool)
    BY <1>5, <1>6, ServedMeans
  <2>2. 1..Len(pool.cooling) = {}
    BY <1>3
  <2>3. TimerOK(pool)
    BY <1>3, <2>2 DEF TimerOK
  <2> QED BY <1>6, <2>1, <2>3 DEF Settles
<1>8. Fits
  <2> SUFFICES ASSUME NEW j \in Jobs PROVE JobFits(pool, j, job[j])
    BY DEF Fits
  <2>1. Out(pool, j) /\ job[j] = Idle
    BY <1>1, <1>3, <1>5 DEF Out
  <2> QED BY <2>1, NothingFits DEF Idle, Whole
<1>9. Stages
  <2> SUFFICES ASSUME NEW d \in Downloads PROVE StageOf(d)
    BY DEF Stages
  <2>1. load[d].at = "load" /\ \A j \in Jobs : job[j] = Idle
    BY <1>1
  <2>2. job[ProbeOf(d)] = Idle
    BY <2>1, JobFacts
  <2>3. \A k \in 1..Connections : job[<<d, k>>] = Idle
    BY <2>1, SegmentedAssumption DEF Jobs
  <2> QED BY <2>1, <2>2, <2>3 DEF StageOf, Idle
<1> QED BY <1>2, <1>7, <1>8, <1>9 DEF Core

\* A step of a worker.  What it does with the readback limiter leaves aborted as it is.
LEMMA WorkerActsLeave ==
  ASSUME NEW j \in Workers, WorkerActs(j)
  PROVE  aborted' = aborted
<1>1. CASE Written(j)
  BY <1>1 DEF Written, Readback!AcquireAborted, Readback!Acquire, Readback!Queue
<1>2. CASE ReadBack(j)
  BY <1>2 DEF ReadBack, Readback!Release
<1>3. CASE ~(Written(j) \/ ReadBack(j))
  BY <1>3 DEF WorkerActs, WorkerHears, NextSegment, GivesUp, ReadbackRejected, Suspected, CheckRejected,
     Flushed, FetchFails, PauseEnds, Checked, NoReadback
<1> QED BY <1>1, <1>2, <1>3

DownloadActs(d) ==
  ProbeEnds(d) \/ Cascade(d) \/ Settled(d) \/ Ended(d) \/ DownloadHears(d) \/ Stop(d)

\* Which steps there are.
LEMMA Steps ==
  ASSUME Next
  PROVE  \/ \E j \in Jobs : Attempt(j)
         \/ \E j \in Workers : WorkerActs(j)
         \/ \E d \in Downloads : DownloadActs(d)
         \/ CooldownEnds
BY DEF Next, Continues, WorkerActs, DownloadActs

\* Every step keeps the invariant of the coordinator and its callers.
LEMMA CoreStep ==
  ASSUME Core, [Next]_vars
  PROVE  Core'
<1>1. ASSUME NEW j \in Jobs, Attempt(j) PROVE Core'
  BY <1>1, AttemptCore
<1>2. ASSUME NEW j \in Workers, WorkerActs(j) PROVE Core'
  <2>1. PICK r : Becomes(j, r) /\ Kind(j, r)
    BY <1>2, WorkerHasAKind
  <2> QED BY <1>2, <2>1, WorkerActsLeave, WorkerKeepsCore
<1>3. ASSUME NEW d \in Downloads, DownloadActs(d) PROVE Core'
  <2>1. CASE ProbeEnds(d) BY <2>1, ProbeEndsCore
  <2>2. CASE Cascade(d) BY <2>2, CascadeCore
  <2>3. CASE Settled(d) BY <2>3, SettledCore
  <2>4. CASE Ended(d) BY <2>4, EndedCore
  <2>5. CASE Stop(d) BY <2>5, StopCore
  <2>6. CASE Loaded(d) BY <2>6, LoadedCore
  <2>7. CASE NoList(d) BY <2>7, NoListCore
  <2>8. CASE ProbeOk(d) BY <2>8, ProbeOkCore
  <2>9. CASE ProbeRefused(d) BY <2>9, ProbeRefusedCore
  <2>10. CASE ProbeFails(d) BY <2>10, ProbeFailsCore
  <2>11. CASE ProbeCut(d) BY <2>11, ProbeCutCore
  <2>12. CASE Prepared(d) BY <2>12, PreparedCore
  <2>13. CASE Allocated(d) BY <2>13, AllocatedCore
  <2>14. CASE Commit(d) BY <2>14, CommitCore
  <2>15. CASE Cleanup(d) BY <2>15, CleanupCore
  <2> QED BY <1>3, <2>1, <2>2, <2>3, <2>4, <2>5, <2>6, <2>7, <2>8, <2>9, <2>10, <2>11, <2>12,
             <2>13, <2>14, <2>15 DEF DownloadActs, DownloadHears
<1>4. CASE CooldownEnds
  BY <1>4, CooldownEndsCore
<1>5. CASE UNCHANGED vars
  <2>1. /\ pool' = pool /\ load' = load /\ job' = job /\ stopped' \subseteq Downloads
        /\ aborted' \subseteq Downloads
    BY <1>5 DEF vars, Core, Typed
  <2> QED BY <2>1, SamePool, PoolKeepsCore
<1> QED BY <1>1, <1>2, <1>3, <1>4, <1>5, Steps

(***************************************************************************)
(* SharedProxyCoordinator leaves no proxy idle while somebody waits who    *)
(* could load through it: whatever frees a connection, raises a limit,     *)
(* ends a cooldown or takes a waiter away serves the queue before it       *)
(* returns.                                                                *)
(***************************************************************************)
THEOREM NoProxyIdles == Spec => []NoIdleProxy
<1>1. Init => Core
  BY CoreInit
<1>2. Core /\ [Next]_vars => Core'
  BY CoreStep
<1>3. Core => NoIdleProxy
  BY DEF Core, Settles, Served, NoIdleProxy, Proxy!NoIdleProxy
<1> QED BY <1>1, <1>2, <1>3, PTL DEF Spec

-----------------------------------------------------------------------------
(***************************************************************************)
(* The limiter of the readbacks, as its workers use it, is the pool of     *)
(* slots of SlotPool; and something always goes on.                        *)
(***************************************************************************)

PhaseNames == {"new", "waiting", "holding", "released", "rejected"}

\* The counter, the queue and the phases of the readback limiter agree, and who waits
\* there finds every slot taken.
LimiterOK ==
  /\ phase \in [Workers -> PhaseNames]
  /\ active = Cardinality(Readback!Holding) /\ active <= ReadbackSlots
  /\ waiting \in Seq(Workers) /\ Distinct(waiting)
  /\ Elems(waiting) = {j \in Workers : phase[j] = "waiting"}
  /\ \A j \in Elems(waiting) : DownloadOf(j) \notin aborted
  /\ waiting # <<>> => active = ReadbackSlots

\* How the phase of a readback may change.
PhaseMoves ==
  \A j \in Workers :
    /\ phase[j] = "holding" => phase'[j] \in {"holding", "released"}
    /\ phase[j] = "waiting" => phase'[j] \in {"waiting", "holding", "rejected"}

HoldersOf(ph) == {j \in Workers : ph[j] = "holding"}

\* The sets the limiter is described with.
LEMMA LimiterFacts ==
  /\ IsFiniteSet(Workers) /\ ReadbackSlots \in Nat \ {0}
  /\ Readback!Holding = HoldersOf(phase) /\ Readback!Holding' = HoldersOf(phase')
  /\ Readback!Waiting = Elems(waiting) /\ Readback!Waiting' = Elems(waiting')
  /\ \A S : Readback!Cardinality(S) = Cardinality(S)
  /\ \A s, S : Readback!Only(s, S) = Only(s, S)
  /\ \A ph : IsFiniteSet(HoldersOf(ph)) /\ Cardinality(HoldersOf(ph)) \in Nat
<1>1. IsFiniteSet(Workers)
  <2>1. IsFiniteSet(1..Connections)
    BY SegmentedAssumption, FS_Interval
  <2> QED BY <2>1, SegmentedAssumption, FS_Product DEF Workers
<1>2. \A ph : IsFiniteSet(HoldersOf(ph)) /\ Cardinality(HoldersOf(ph)) \in Nat
  <2> SUFFICES ASSUME NEW ph
               PROVE  IsFiniteSet(HoldersOf(ph)) /\ Cardinality(HoldersOf(ph)) \in Nat
    OBVIOUS
  <2>1. HoldersOf(ph) \in SUBSET Workers
    BY DEF HoldersOf
  <2> QED BY <1>1, <2>1, FS_Subset, FS_CardinalityType
<1>3. Readback!Holding = HoldersOf(phase) /\ Readback!Holding' = HoldersOf(phase')
  BY DEF Readback!Holding, HoldersOf
<1>4. Readback!Waiting = Elems(waiting) /\ Readback!Waiting' = Elems(waiting')
  BY DEF Readback!Waiting, Elems
<1>5. \A S : Readback!Cardinality(S) = Cardinality(S)
  BY DEF Readback!Cardinality, Cardinality
<1>6. \A s, S : Readback!Only(s, S) = Only(s, S)
  BY <1>5 DEF Readback!Only, Only, Readback!Cardinality, Cardinality
<1> QED BY <1>1, <1>2, <1>3, <1>4, <1>5, <1>6, SegmentedAssumption

\* acquire() of the limiter: rejected, granted, or queued while every slot is taken.
LEMMA RejectedAtOnce ==
  ASSUME LimiterOK, NEW c \in Workers, Readback!AcquireAborted(c)
  PROVE  LimiterOK' /\ PhaseMoves /\ phase' = [phase EXCEPT ![c] = "rejected"] /\ aborted' = aborted
<1>1. /\ phase[c] \notin {"waiting", "holding"} /\ phase' = [phase EXCEPT ![c] = "rejected"]
      /\ active' = active /\ waiting' = waiting /\ aborted' = aborted
  BY DEF Readback!AcquireAborted
<1>2. phase' \in [Workers -> PhaseNames] /\ HoldersOf(phase') = HoldersOf(phase)
  BY <1>1 DEF LimiterOK, PhaseNames, HoldersOf
<1>3. Elems(waiting) = {j \in Workers : phase'[j] = "waiting"}
  BY <1>1 DEF LimiterOK
<1>4. LimiterOK'
  BY <1>1, <1>2, <1>3, LimiterFacts DEF LimiterOK
<1>5. PhaseMoves
  BY <1>1 DEF LimiterOK, PhaseMoves
<1> QED BY <1>1, <1>4, <1>5

LEMMA GrantedAtOnce ==
  ASSUME LimiterOK, NEW c \in Workers, Readback!Acquire(c)
  PROVE  LimiterOK' /\ PhaseMoves /\ phase' = [phase EXCEPT ![c] = "holding"] /\ aborted' = aborted
<1>1. /\ phase[c] \notin {"waiting", "holding"} /\ phase' = [phase EXCEPT ![c] = "holding"]
      /\ active < ReadbackSlots /\ active' = active + 1 /\ waiting' = waiting /\ aborted' = aborted
  BY DEF Readback!Acquire
<1>2. phase' \in [Workers -> PhaseNames] /\ HoldersOf(phase') = HoldersOf(phase) \union {c}
      /\ c \notin HoldersOf(phase)
  BY <1>1 DEF LimiterOK, PhaseNames, HoldersOf
<1>3. Elems(waiting) = {j \in Workers : phase'[j] = "waiting"}
  BY <1>1 DEF LimiterOK
<1>4. active' = Cardinality(HoldersOf(phase')) /\ active' <= ReadbackSlots
  <2>1. Cardinality(HoldersOf(phase) \union {c}) = Cardinality(HoldersOf(phase)) + 1
    BY <1>2, LimiterFacts, FS_AddElement
  <2>2. active = Cardinality(HoldersOf(phase)) /\ active \in Nat /\ ReadbackSlots \in Nat
    BY LimiterFacts DEF LimiterOK
  <2>3. Cardinality(HoldersOf(phase')) = active + 1
    BY <1>2, <2>1, <2>2
  <2> QED BY <1>1, <2>2, <2>3
<1>5. waiting = <<>>
  BY <1>1, LimiterFacts DEF LimiterOK
<1>6. LimiterOK'
  BY <1>1, <1>2, <1>3, <1>4, <1>5, LimiterFacts DEF LimiterOK
<1>7. PhaseMoves
  BY <1>1 DEF LimiterOK, PhaseMoves
<1> QED BY <1>1, <1>6, <1>7

LEMMA QueuedUp ==
  ASSUME LimiterOK, NEW c \in Workers, Readback!Queue(c)
  PROVE  LimiterOK' /\ PhaseMoves /\ phase' = [phase EXCEPT ![c] = "waiting"] /\ aborted' = aborted
<1>1. /\ phase[c] \notin {"waiting", "holding"} /\ phase' = [phase EXCEPT ![c] = "waiting"]
      /\ DownloadOf(c) \notin aborted
      /\ active >= ReadbackSlots /\ active' = active /\ waiting' = Append(waiting, c)
      /\ aborted' = aborted
  BY DEF Readback!Queue
<1>2. phase' \in [Workers -> PhaseNames] /\ HoldersOf(phase') = HoldersOf(phase)
  BY <1>1 DEF LimiterOK, PhaseNames, HoldersOf
<1>3. c \notin Elems(waiting)
  BY <1>1 DEF LimiterOK
<1>4. waiting' \in Seq(Workers) /\ Distinct(waiting') /\ Elems(waiting') = Elems(waiting) \union {c}
  BY <1>1, <1>3, AppendDistinct DEF LimiterOK
<1>5. Elems(waiting') = {j \in Workers : phase'[j] = "waiting"}
  BY <1>1, <1>4 DEF LimiterOK
<1>6. active = ReadbackSlots
  BY <1>1, LimiterFacts DEF LimiterOK
<1>7. LimiterOK'
  BY <1>1, <1>2, <1>4, <1>5, <1>6, LimiterFacts DEF LimiterOK
<1>8. PhaseMoves
  BY <1>1 DEF LimiterOK, PhaseMoves
<1> QED BY <1>1, <1>7, <1>8

\* A signal fires: its waiters are rejected, the holders go on.
LEMMA LimiterAborts ==
  ASSUME LimiterOK, NEW d \in Downloads, Readback!Abort(d)
  PROVE  /\ LimiterOK' /\ PhaseMoves /\ aborted' = aborted \union {d}
         /\ \A j \in Workers :
              phase'[j] = IF DownloadOf(j) = d /\ phase[j] = "waiting" THEN "rejected" ELSE phase[j]
<1> DEFINE S == {c \in Workers : DownloadOf(c) # d}
<1>1. /\ aborted' = aborted \union {d} /\ active' = active
      /\ phase' = [c \in Workers |->
           IF DownloadOf(c) = d /\ phase[c] = "waiting" THEN "rejected" ELSE phase[c]]
  BY DEF Readback!Abort
<1>2. waiting' = Only(waiting, S)
  BY LimiterFacts DEF Readback!Abort
<1>3. waiting' \in Seq(Workers) /\ Distinct(waiting') /\ Elems(waiting') = Elems(waiting) \intersect S
  BY <1>2, OnlyDistinct DEF LimiterOK
<1>4. phase' \in [Workers -> PhaseNames] /\ HoldersOf(phase') = HoldersOf(phase)
  BY <1>1 DEF LimiterOK, PhaseNames, HoldersOf
<1>5. Elems(waiting') = {j \in Workers : phase'[j] = "waiting"}
  BY <1>1, <1>3 DEF LimiterOK
<1>6. \A j \in Elems(waiting') : DownloadOf(j) \notin aborted'
  BY <1>1, <1>3 DEF LimiterOK
<1>7. waiting' # <<>> => active' = ReadbackSlots
  <2>1. waiting = <<>> => Elems(waiting) = {}
    BY DEF Elems
  <2>2. waiting' # <<>> => Elems(waiting') # {}
    <3> SUFFICES ASSUME waiting' # <<>> PROVE waiting'[1] \in Elems(waiting')
      OBVIOUS
    <3>1. 1 \in 1..Len(waiting')
      BY <1>3
    <3> QED BY <3>1 DEF Elems
  <2> QED BY <1>1, <1>3, <2>1, <2>2 DEF LimiterOK
<1>8. LimiterOK'
  BY <1>1, <1>3, <1>4, <1>5, <1>6, <1>7, LimiterFacts DEF LimiterOK
<1>9. PhaseMoves
  BY <1>1 DEF LimiterOK, PhaseMoves
<1> QED BY <1>1, <1>8, <1>9

\* The slot of a release goes to the first who waits.
LEMMA ServedFirst ==
  ASSUME LimiterOK
  PROVE  /\ waiting = <<>> => Readback!FirstServed(active - 1) = {}
         /\ waiting # <<>> => Readback!FirstServed(active - 1) = {1}
<1> DEFINE n == Len(waiting)
           alive == {k \in 1..n : DownloadOf(waiting[k]) \notin aborted}
<1>1. n \in Nat /\ \A k \in 1..n : waiting[k] \in Workers
  BY DEF LimiterOK
<1>2. alive = 1..n
  BY DEF LimiterOK, Elems
<1>3. Readback!FirstServed(active - 1)
        = {k \in 1..n : Cardinality({l \in 1..n : l <= k}) <= ReadbackSlots - (active - 1)}
  <2>1. {k \in 1..n : [j \in Workers |-> DownloadOf(j)][waiting[k]] \notin aborted} = 1..n
    BY <1>1, <1>2
  <2>2. Readback!FirstServed(active - 1)
          = LET live == {k \in 1..n : [j \in Workers |-> DownloadOf(j)][waiting[k]] \notin aborted}
            IN  {k \in live : Cardinality({l \in live : l <= k}) <= ReadbackSlots - (active - 1)}
    BY LimiterFacts DEF Readback!FirstServed
  <2> QED BY <2>1, <2>2
<1>4. CASE waiting = <<>>
  <2>1. 1..n = {}
    BY <1>4
  <2> QED BY <1>3, <1>4, <2>1
<1>5. CASE waiting # <<>>
  <2>1. active = ReadbackSlots /\ ReadbackSlots \in Nat
    BY <1>5, LimiterFacts DEF LimiterOK
  <2>2. ReadbackSlots - (active - 1) = 1
    BY <2>1
  <2>3. \A k \in 1..n : Cardinality({l \in 1..n : l <= k}) = k
    <3> SUFFICES ASSUME NEW k \in 1..n PROVE Cardinality({l \in 1..n : l <= k}) = k
      OBVIOUS
    <3>1. {l \in 1..n : l <= k} = 1..k /\ k \in Nat
      BY <1>1
    <3>2. Cardinality(1..k) = k
      BY <3>1, FS_Interval
    <3> QED BY <3>1, <3>2
  <2>4. 1 \in 1..n
    BY <1>5 DEF LimiterOK
  <2>5. {k \in 1..n : Cardinality({l \in 1..n : l <= k}) <= ReadbackSlots - (active - 1)}
          = {k \in 1..n : k <= 1}
    BY <2>2, <2>3
  <2>6. {k \in 1..n : k <= 1} = {1}
    BY <1>1, <2>4
  <2> QED BY <1>3, <1>5, <2>5, <2>6
<1> QED BY <1>4, <1>5

\* release(): the slot goes to the first who waits, and else it is free.
LEMMA LimiterReleases ==
  ASSUME LimiterOK, NEW c \in Workers, Readback!Release(c)
  PROVE  /\ LimiterOK' /\ PhaseMoves /\ aborted' = aborted /\ phase'[c] = "released"
         /\ \A j \in Workers \ {c} :
              phase'[j] = phase[j] \/ (phase[j] = "waiting" /\ phase'[j] = "holding")
<1> DEFINE served == Readback!FirstServed(active - 1)
           left == active - 1
           dropped == IF left + Cardinality(served) < ReadbackSlots THEN 1..Len(waiting)
                      ELSE {k \in 1..Len(waiting) : \E l \in served : k <= l}
<1>1. /\ phase[c] = "holding" /\ aborted' = aborted
      /\ active' = left + Cardinality(served)
      /\ waiting' = SubSeq(waiting, Cardinality(dropped) + 1, Len(waiting))
      /\ phase' = [j \in Workers |->
           IF j = c THEN "released"
           ELSE IF \E k \in served : waiting[k] = j THEN "holding"
           ELSE IF \E k \in dropped : waiting[k] = j THEN "rejected" ELSE phase[j]]
  BY LimiterFacts DEF Readback!Release
<1>2. /\ active = Cardinality(HoldersOf(phase)) /\ active \in Nat /\ active <= ReadbackSlots
      /\ ReadbackSlots \in Nat \ {0} /\ phase \in [Workers -> PhaseNames]
      /\ waiting \in Seq(Workers) /\ Len(waiting) \in Nat
      /\ c \in HoldersOf(phase) /\ IsFiniteSet(HoldersOf(phase))
  BY <1>1, LimiterFacts DEF LimiterOK, HoldersOf
<1>3. Cardinality(HoldersOf(phase) \ {c}) = active - 1 /\ active >= 1
  <2>1. Cardinality(HoldersOf(phase) \ {c}) = Cardinality(HoldersOf(phase)) - 1
    BY <1>2, FS_RemoveElement
  <2>2. Cardinality(HoldersOf(phase)) # 0
    BY <1>2, FS_EmptySet
  <2> QED BY <1>2, <2>1, <2>2
<1>4. CASE waiting = <<>>
  <2>1. served = {} /\ Cardinality(served) = 0
    BY <1>4, ServedFirst, FS_EmptySet
  <2>2. dropped = {} /\ Cardinality(dropped) = 0
    <3>1. 1..Len(waiting) = {}
      BY <1>4
    <3>2. dropped = {}
      BY <3>1
    <3> QED BY <3>2, FS_EmptySet
  <2> HIDE DEF served, dropped
  <2>3. waiting' = <<>>
    <3>1. waiting' = SubSeq(waiting, 1, Len(waiting))
      BY <1>1, <2>2
    <3> QED BY <1>2, <1>4, <3>1
  <2>4. active' = active - 1 /\ active' <= ReadbackSlots
    BY <1>1, <1>2, <2>1
  <2>5. phase' = [phase EXCEPT ![c] = "released"]
    BY <1>1, <1>2, <2>1, <2>2
  <2>6. phase' \in [Workers -> PhaseNames] /\ HoldersOf(phase') = HoldersOf(phase) \ {c}
    BY <1>2, <2>5 DEF PhaseNames, HoldersOf
  <2>7. Elems(waiting') = {j \in Workers : phase'[j] = "waiting"}
    BY <1>1, <1>2, <1>4, <2>3, <2>5 DEF LimiterOK
  <2>8. Distinct(waiting') /\ waiting' \in Seq(Workers) /\ Elems(waiting') = {}
    BY <2>3 DEF Distinct, Elems
  <2>9. LimiterOK'
    BY <1>3, <2>3, <2>4, <2>6, <2>7, <2>8, LimiterFacts DEF LimiterOK
  <2>10. PhaseMoves
    BY <1>1, <1>2, <2>5 DEF PhaseMoves
  <2> QED BY <1>1, <1>2, <2>5, <2>9, <2>10
<1>5. CASE waiting # <<>>
  <2> DEFINE w == waiting[1]
  <2>1. served = {1} /\ Cardinality(served) = 1
    BY <1>5, ServedFirst, FS_Singleton
  <2>2. active = ReadbackSlots /\ 1 \in 1..Len(waiting) /\ w \in Workers
    BY <1>2, <1>5 DEF LimiterOK
  <2>3. dropped = {1} /\ Cardinality(dropped) = 1
    <3>1. ~(left + Cardinality(served) < ReadbackSlots)
      BY <1>2, <2>1, <2>2
    <3>2. dropped = {k \in 1..Len(waiting) : \E l \in {1} : k <= l}
      BY <2>1, <3>1
    <3>3. {k \in 1..Len(waiting) : \E l \in {1} : k <= l} = {1}
      BY <2>2
    <3> HIDE DEF dropped
    <3> QED BY <3>2, <3>3, FS_Singleton
  <2> HIDE DEF served, dropped
  <2>4. waiting' = Tail(waiting)
    <3>1. waiting' = SubSeq(waiting, 2, Len(waiting))
      BY <1>1, <2>3
    <3> QED BY <1>2, <1>5, <3>1
  <2>5. active' = active
    BY <1>1, <1>2, <2>1
  <2>6. phase[w] = "waiting" /\ w # c /\ w \in Elems(waiting)
    BY <1>1, <2>2 DEF LimiterOK, Elems
  <2>7. phase' = [j \in Workers |-> IF j = c THEN "released" ELSE IF j = w THEN "holding" ELSE phase[j]]
    BY <1>1, <2>1, <2>3
  <2> HIDE DEF w
  <2>8. /\ phase' \in [Workers -> PhaseNames]
        /\ HoldersOf(phase') = (HoldersOf(phase) \ {c}) \union {w}
        /\ w \notin HoldersOf(phase)
    BY <1>2, <2>2, <2>6, <2>7 DEF PhaseNames, HoldersOf
  <2>9. active' = Cardinality(HoldersOf(phase'))
    <3>1. IsFiniteSet(HoldersOf(phase) \ {c}) /\ w \notin HoldersOf(phase) \ {c}
      BY <1>2, <2>8, FS_RemoveElement
    <3>2. Cardinality((HoldersOf(phase) \ {c}) \union {w}) = Cardinality(HoldersOf(phase) \ {c}) + 1
      BY <3>1, FS_AddElement
    <3>3. Cardinality(HoldersOf(phase')) = (active - 1) + 1
      BY <1>3, <2>8, <3>2
    <3> QED BY <1>2, <2>5, <3>3
  <2>10. /\ waiting' \in Seq(Workers) /\ Distinct(waiting')
         /\ Elems(waiting') = Elems(waiting) \ {w}
    <3>1. /\ Tail(waiting) \in Seq(Workers) /\ Distinct(Tail(waiting))
          /\ Len(Tail(waiting)) = Len(waiting) - 1
          /\ \A k \in 1..Len(Tail(waiting)) : Tail(waiting)[k] = waiting[k + 1]
          /\ Elems(Tail(waiting)) \subseteq Elems(waiting)
      BY <1>2, <1>5, TailDistinct DEF LimiterOK
    <3>2. w \notin Elems(Tail(waiting))
      <4> SUFFICES ASSUME NEW k \in 1..Len(Tail(waiting)), Tail(waiting)[k] = w PROVE FALSE
        BY DEF Elems
      <4>1. k + 1 \in 1..Len(waiting) /\ waiting[k + 1] = waiting[1] /\ k + 1 # 1
        BY <1>2, <3>1 DEF w
      <4> QED BY <2>2, <4>1 DEF LimiterOK, Distinct
    <3>3. ASSUME NEW k \in 1..Len(waiting), waiting[k] # w
          PROVE  waiting[k] \in Elems(Tail(waiting))
      <4> DEFINE i == k - 1
      <4>1. i \in 1..Len(Tail(waiting)) /\ i + 1 = k
        BY <1>2, <3>1, <3>3 DEF w
      <4>2. Tail(waiting)[i] = waiting[k]
        BY <3>1, <4>1
      <4> HIDE DEF i
      <4> QED BY <4>1, <4>2 DEF Elems
    <3>4. Elems(Tail(waiting)) = Elems(waiting) \ {w}
      BY <3>1, <3>2, <3>3 DEF Elems
    <3> QED BY <2>4, <3>1, <3>4
  <2>11. Elems(waiting') = {j \in Workers : phase'[j] = "waiting"}
    BY <1>1, <1>2, <2>6, <2>7, <2>10 DEF LimiterOK
  <2>12. LimiterOK'
    BY <1>1, <1>2, <2>2, <2>5, <2>8, <2>9, <2>10, <2>11, LimiterFacts DEF LimiterOK
  <2>13. PhaseMoves
    BY <1>1, <2>2, <2>6, <2>7 DEF PhaseMoves
  <2>14. \A j \in Workers \ {c} : phase'[j] = phase[j] \/ (phase[j] = "waiting" /\ phase'[j] = "holding")
    BY <2>6, <2>7
  <2> QED BY <1>1, <2>7, <2>12, <2>13, <2>14
<1> QED BY <1>4, <1>5

\* The limiter is left alone, and perhaps the signal of a download is a new one.
LEMMA LimiterSame ==
  ASSUME LimiterOK, active' = active, waiting' = waiting, phase' = phase, aborted' \subseteq aborted
  PROVE  LimiterOK' /\ PhaseMoves
BY LimiterFacts DEF LimiterOK, PhaseMoves

\* A readback that waits or has a slot is what its worker is at, and the other way round.
PhaseFits ==
  \A j \in Workers :
    /\ phase[j] \in {"waiting", "holding"} => job[j].at = "readback"
    /\ job[j].at = "readback" => phase[j] \in {"waiting", "holding", "rejected"}

ReadbackOK == LimiterOK /\ PhaseFits

\* What a worker does that has nothing to do with readbacks, or has been rejected there.
Quiet(j, r) ==
  r.at # "readback" /\ (job[j].at # "readback" \/ phase[j] = "rejected")

\* Only Written and ReadBack have to do with the limiter.
LEMMA WorkerIsQuiet ==
  ASSUME Core, NEW j \in Workers, Attempt(j) \/ WorkerActs(j), ~Written(j), ~ReadBack(j)
  PROVE  /\ \E r : Becomes(j, r) /\ Quiet(j, r)
         /\ UNCHANGED <<active, waiting, phase, aborted>>
<1>0. j \in Jobs
  BY JobFacts
<1>1. CASE Attempt(j)
  <2>1. PICK r : Becomes(j, r) /\ Carries(j, r) /\ r.at = "fetch" /\ job[j].at = "again"
    BY <1>0, <1>1, AttemptCarries
  <2> QED BY <1>1, <2>1 DEF Attempt, NoReadback, readbackVars, Quiet
<1>2. CASE NextSegment(j)
  <2>1. PICK r : Becomes(j, r) /\ (Takes(j, r) \/ Leaves(j, r))
    BY <1>2, NextSegmentMoves
  <2> QED BY <1>2, <2>1 DEF NextSegment, NoReadback, readbackVars, Quiet, Takes, Leaves
<1>3. CASE GivesUp(j)
  <2>1. PICK r : /\ Becomes(j, r) /\ Carries(j, r) /\ r.at = "failed"
                 /\ job[j].at \in {"again", "fetch", "pause"}
    BY <1>3, GivesUpCarries
  <2> QED BY <1>3, <2>1 DEF GivesUp, NoReadback, readbackVars, Quiet
<1>4. CASE ReadbackRejected(j)
  <2>1. PICK r : Becomes(j, r) /\ TakesBack(j, r) /\ job[j].at = "readback"
    BY <1>4, ReadbackRejectedTakesBack
  <2> QED BY <1>4, <2>1 DEF ReadbackRejected, NoReadback, readbackVars, Quiet, TakesBack
<1>5. CASE Suspected(j)
  <2>1. PICK r : Becomes(j, r) /\ (TakesBack(j, r) \/ (Carries(j, r) /\ r.at = "check"))
    BY <1>5, SuspectedMoves
  <2> QED BY <1>5, <2>1 DEF Suspected, NoReadback, readbackVars, Quiet, TakesBack
<1>6. CASE CheckRejected(j)
  <2>1. PICK r : Becomes(j, r) /\ TakesBack(j, r) /\ job[j].at = "check"
    BY <1>6, CheckRejectedTakesBack
  <2> QED BY <1>6, <2>1 DEF CheckRejected, NoReadback, readbackVars, Quiet, TakesBack
<1>7. CASE Flushed(j)
  <2>1. PICK r : Becomes(j, r) /\ Writes(j, r) /\ r.at = "fetch"
    BY <1>7, FlushedWrites
  <2> QED BY <1>7, <2>1 DEF Flushed, NoReadback, readbackVars, Quiet, Writes
<1>8. CASE FetchFails(j)
  <2>1. PICK r : Becomes(j, r) /\ TakesBack(j, r) /\ job[j].at = "fetch"
    BY <1>8, FetchFailsTakesBack
  <2> QED BY <1>8, <2>1 DEF FetchFails, NoReadback, readbackVars, Quiet, TakesBack
<1>9. CASE PauseEnds(j)
  <2>1. PICK r : Becomes(j, r) /\ Carries(j, r) /\ r.at = "again" /\ job[j].at = "pause"
    BY <1>9, PauseEndsCarries
  <2> QED BY <1>9, <2>1 DEF PauseEnds, NoReadback, readbackVars, Quiet
<1>10. CASE Checked(j)
  <2>1. PICK r : Becomes(j, r) /\ (TakesBack(j, r) \/ Accepts(j, r))
    BY <1>10, CheckedMoves
  <2>2. job[j].at = "check"
    BY <1>10, CheckedMoves
  <2> QED BY <1>10, <2>1, <2>2 DEF Checked, NoReadback, readbackVars, Quiet, TakesBack, Accepts
<1> QED BY <1>1, <1>2, <1>3, <1>4, <1>5, <1>6, <1>7, <1>8, <1>9, <1>10 DEF WorkerActs, WorkerHears

\* The readbacks go on as they did when the job of a worker changes.
LEMMA PhaseFitsStep ==
  ASSUME Typed, PhaseFits, NEW j \in Jobs, NEW r, job' = [job EXCEPT ![j] = r],
         j \in Workers =>
           /\ phase'[j] \in {"waiting", "holding"} => r.at = "readback"
           /\ r.at = "readback" => phase'[j] \in {"waiting", "holding", "rejected"},
         \A i \in Workers \ {j} :
           phase'[i] = phase[i] \/ (phase[i] = "waiting" /\ phase'[i] \in {"holding", "rejected"})
  PROVE  PhaseFits'
<1>1. \A i \in Workers : i \in Jobs /\ job'[i] = IF i = j THEN r ELSE job[i]
  BY JobFacts DEF Typed
<1> QED BY <1>1 DEF PhaseFits

\* What a worker does keeps the books of the limiter.
LEMMA WorkerReadback ==
  ASSUME Core, ReadbackOK, NEW j \in Workers, Attempt(j) \/ WorkerActs(j)
  PROVE  ReadbackOK' /\ PhaseMoves
<1>0. j \in Jobs /\ Typed /\ phase \in [Workers -> PhaseNames]
  BY JobFacts DEF Core, ReadbackOK, LimiterOK
<1>1. CASE Written(j)
  <2>1. PICK r : Becomes(j, r) /\ Writes(j, r) /\ r.at = "readback"
    BY <1>1, WrittenWrites
  <2>2. /\ LimiterOK' /\ PhaseMoves
        /\ \E new \in {"rejected", "holding", "waiting"} : phase' = [phase EXCEPT ![j] = new]
    <3>1. Readback!AcquireAborted(j) \/ Readback!Acquire(j) \/ Readback!Queue(j)
      BY <1>1 DEF Written
    <3> QED BY <3>1, RejectedAtOnce, GrantedAtOnce, QueuedUp DEF ReadbackOK
  <2>3. PhaseFits'
    <3>1. PICK new \in {"rejected", "holding", "waiting"} : phase' = [phase EXCEPT ![j] = new]
      BY <2>2
    <3>2. phase'[j] = new /\ \A i \in Workers \ {j} : phase'[i] = phase[i]
      BY <1>0, <3>1
    <3>3. job' = [job EXCEPT ![j] = r]
      BY <2>1 DEF Becomes
    <3> QED BY <1>0, <2>1, <3>2, <3>3, PhaseFitsStep DEF ReadbackOK
  <2> QED BY <2>2, <2>3 DEF ReadbackOK
<1>2. CASE ReadBack(j)
  <2>1. PICK r : /\ Becomes(j, r)
                 /\ \/ TakesBack(j, r) \/ Accepts(j, r)
                    \/ (Carries(j, r) /\ r.at = "suspect")
    BY <1>2, ReadBackMoves
  <2>2. r.at # "readback" /\ job' = [job EXCEPT ![j] = r]
    BY <2>1 DEF TakesBack, Accepts, Becomes
  <2>3. /\ LimiterOK' /\ PhaseMoves /\ phase'[j] = "released"
        /\ \A i \in Workers \ {j} :
             phase'[i] = phase[i] \/ (phase[i] = "waiting" /\ phase'[i] = "holding")
    BY <1>2, ReadBackMoves, LimiterReleases DEF ReadbackOK
  <2>4. PhaseFits'
    BY <1>0, <2>2, <2>3, PhaseFitsStep DEF ReadbackOK
  <2> QED BY <2>3, <2>4 DEF ReadbackOK
<1>3. CASE ~Written(j) /\ ~ReadBack(j)
  <2>1. PICK r : Becomes(j, r) /\ Quiet(j, r)
    BY <1>3, WorkerIsQuiet
  <2>2. UNCHANGED <<active, waiting, phase, aborted>>
    BY <1>3, WorkerIsQuiet
  <2>3. LimiterOK' /\ PhaseMoves
    BY <2>2, LimiterSame DEF ReadbackOK
  <2>4. PhaseFits'
    <3>1. job' = [job EXCEPT ![j] = r] /\ r.at # "readback"
      BY <2>1 DEF Becomes, Quiet
    <3>2. phase'[j] \notin {"waiting", "holding"}
      BY <2>1, <2>2 DEF Quiet, ReadbackOK, PhaseFits
    <3> QED BY <1>0, <2>2, <3>1, <3>2, PhaseFitsStep DEF ReadbackOK
  <2> QED BY <2>3, <2>4 DEF ReadbackOK
<1> QED BY <1>1, <1>2, <1>3

\* Nothing happens to the readbacks.
LEMMA NoReadbackHere ==
  ASSUME ReadbackOK, active' = active, waiting' = waiting, phase' = phase, aborted' \subseteq aborted,
         \A j \in Workers :
           job'[j] = job[j] \/ (job[j].at # "readback" /\ job'[j].at # "readback")
  PROVE  ReadbackOK' /\ PhaseMoves
<1>1. LimiterOK' /\ PhaseMoves
  BY LimiterSame DEF ReadbackOK
<1>2. PhaseFits'
  BY DEF ReadbackOK, PhaseFits
<1> QED BY <1>1, <1>2 DEF ReadbackOK

\* A probe leaves workers and limiter alone.
LEMMA ProbeAlone ==
  ASSUME Core, NEW d \in Downloads,
         \/ ProbeOk(d) \/ ProbeRefused(d) \/ ProbeFails(d) \/ ProbeCut(d) \/ ProbeEnds(d)
         \/ Loaded(d)
  PROVE  /\ \A j \in Jobs \ {ProbeOf(d)} : job'[j] = job[j]
         /\ UNCHANGED <<active, waiting, phase, aborted, stopped>>
<1>0. job \in [Jobs -> JobStates] /\ ProbeOf(d) \in Jobs
  BY JobFacts DEF Core, Typed
<1>1. ASSUME NEW at, NEW result, ProbeLeaves(d, at, result)
      PROVE  /\ \A j \in Jobs \ {ProbeOf(d)} : job'[j] = job[j]
             /\ UNCHANGED <<active, waiting, phase, aborted, stopped>>
  BY <1>0, <1>1 DEF ProbeLeaves, NoReadback, readbackVars
<1>2. CASE ProbeOk(d)
  BY <1>1, <1>2 DEF ProbeOk
<1>3. CASE ProbeRefused(d)
  BY Zenon, <1>1, <1>3 DEF ProbeRefused
<1>4. CASE ProbeCut(d)
  BY <1>1, <1>4 DEF ProbeCut
<1>5. CASE ProbeEnds(d)
  BY <1>1, <1>5 DEF ProbeEnds
<1>6. CASE ProbeFails(d)
  <2>1. UNCHANGED <<active, waiting, phase, aborted, stopped>>
    BY <1>6 DEF ProbeFails, NoReadback, readbackVars
  <2>2. \/ \E e : job' = [job EXCEPT ![ProbeOf(d)].at = "again", ![ProbeOf(d)].error = e,
                                    ![ProbeOf(d)].failures = @ + 1]
        \/ job' = [job EXCEPT ![ProbeOf(d)].at = "again"]
    BY Zenon, <1>6 DEF ProbeFails
  <2> QED BY Zenon, <1>0, <2>1, <2>2
<1>7. CASE Loaded(d)
  BY <1>0, <1>7 DEF Loaded, NoReadback, readbackVars
<1> QED BY <1>2, <1>3, <1>4, <1>5, <1>6, <1>7

\* Readbacks that are told to end.
LEMMA DispatchedReadback ==
  ASSUME ReadbackOK, NEW d \in Downloads, Dispatched(d), job' = job
  PROVE  ReadbackOK' /\ PhaseMoves /\ aborted' = aborted \union {d}
<1>1. /\ LimiterOK' /\ PhaseMoves /\ aborted' = aborted \union {d}
      /\ \A j \in Workers :
           phase'[j] = IF DownloadOf(j) = d /\ phase[j] = "waiting" THEN "rejected" ELSE phase[j]
  BY LimiterAborts DEF Dispatched, ReadbackOK
<1>2. PhaseFits'
  BY <1>1 DEF ReadbackOK, PhaseFits
<1> QED BY <1>1, <1>2 DEF ReadbackOK

LEMMA DownloadReadback ==
  ASSUME Core, ReadbackOK, NEW d \in Downloads, DownloadActs(d)
  PROVE  ReadbackOK' /\ PhaseMoves
<1>0. Workers \subseteq Jobs /\ ProbeOf(d) \notin Workers
  BY JobFacts
<1>1. CASE \/ ProbeOk(d) \/ ProbeRefused(d) \/ ProbeFails(d) \/ ProbeCut(d) \/ ProbeEnds(d)
           \/ Loaded(d)
  BY <1>0, <1>1, ProbeAlone, NoReadbackHere
<1>2. CASE NoList(d) \/ Prepared(d) \/ Commit(d) \/ Cleanup(d) \/ Ended(d)
  <2>1. job' = job /\ active' = active /\ waiting' = waiting /\ phase' = phase /\ aborted' \subseteq aborted
    BY Zenon, <1>2 DEF NoList, Prepared, Commit, Cleanup, Ended, NoReadback, readbackVars
  <2> QED BY <2>1, NoReadbackHere
<1>3. CASE Allocated(d)
  <2>1. /\ active' = active /\ waiting' = waiting /\ phase' = phase /\ aborted' \subseteq aborted
        /\ load[d].at = "allocate"
    BY Zenon, <1>3 DEF Allocated, NoReadback, readbackVars
  <2>2. job' = job \/ job' = [j \in Jobs |-> IF j \in WorkersOf(d)
                                             THEN [Idle EXCEPT !.at = "next"] ELSE job[j]]
    BY Zenon, <1>3 DEF Allocated
  <2>3. \A j \in WorkersOf(d) : job[j].at = "idle"
    <3>1. \A k \in 1..Connections : job[<<d, k>>].at = "idle"
      BY <2>1 DEF Core, Stages, StageOf
    <3>2. \A j \in WorkersOf(d) : j \in Workers /\ DownloadOf(j) = d
      BY JobFacts
    <3> QED BY <3>1, <3>2 DEF Workers, DownloadOf
  <2>4. \A j \in Workers : job'[j] = job[j] \/ (job[j].at = "idle" /\ job'[j].at = "next")
    BY <1>0, <2>2, <2>3 DEF Idle
  <2> QED BY <2>1, <2>4, NoReadbackHere
<1>4. CASE Settled(d)
  <2>1. /\ active' = active /\ waiting' = waiting /\ phase' = phase /\ aborted' \subseteq aborted
        /\ \A j \in WorkersOf(d) : job[j].at \in {"done", "failed"}
        /\ job' = [j \in Jobs |-> IF j \in WorkersOf(d) THEN Idle ELSE job[j]]
    BY <1>4 DEF Settled, NoReadback, readbackVars
  <2>2. \A j \in Workers : job'[j] = job[j] \/ (job[j].at \in {"done", "failed"} /\ job'[j].at = "idle")
    BY <1>0, <2>1 DEF Idle
  <2> QED BY <2>1, <2>2, NoReadbackHere
<1>5. CASE Cascade(d)
  BY <1>5, DispatchedReadback DEF Cascade
<1>6. CASE Stop(d)
  <2>1. CASE d \in aborted
    BY <1>6, <2>1, NoReadbackHere DEF Stop
  <2>2. CASE d \notin aborted
    BY <1>6, <2>2, DispatchedReadback DEF Stop
  <2> QED BY <2>1, <2>2
<1> QED BY <1>1, <1>2, <1>3, <1>4, <1>5, <1>6 DEF DownloadActs, DownloadHears

\* Every step keeps the books of the limiter.
LEMMA ReadbackStep ==
  ASSUME Core, ReadbackOK, [Next]_vars
  PROVE  ReadbackOK' /\ PhaseMoves
<1>1. ASSUME NEW j \in Jobs, Attempt(j) PROVE ReadbackOK' /\ PhaseMoves
  <2>1. CASE j \in Workers
    BY <1>1, <2>1, WorkerReadback
  <2>2. CASE j \notin Workers
    <3>1. \A i \in Workers : job'[i] = job[i]
      BY <1>1, <2>2, JobFacts DEF Attempt, Core, Typed
    <3> QED BY <1>1, <3>1, NoReadbackHere DEF Attempt, NoReadback, readbackVars
  <2> QED BY <2>1, <2>2
<1>2. ASSUME NEW j \in Workers, WorkerActs(j) PROVE ReadbackOK' /\ PhaseMoves
  BY <1>2, WorkerReadback
<1>3. ASSUME NEW d \in Downloads, DownloadActs(d) PROVE ReadbackOK' /\ PhaseMoves
  BY <1>3, DownloadReadback
<1>4. CASE CooldownEnds
  BY <1>4, NoReadbackHere DEF CooldownEnds, NoReadback, readbackVars
<1>5. CASE UNCHANGED vars
  BY <1>5, NoReadbackHere DEF vars
<1> QED BY <1>1, <1>2, <1>3, <1>4, <1>5, Steps

LEMMA ReadbackInit ==
  ASSUME Init
  PROVE  ReadbackOK
<1>1. /\ active = 0 /\ waiting = <<>> /\ phase = [j \in Workers |-> "new"] /\ aborted = {}
      /\ job = [j \in Jobs |-> Idle]
  BY DEF Init, Readback!Init
<1>2. HoldersOf(phase) = {} /\ Cardinality(HoldersOf(phase)) = 0
  <2>1. HoldersOf(phase) = {}
    BY <1>1 DEF HoldersOf
  <2> QED BY <2>1, FS_EmptySet
<1>3. Elems(waiting) = {} /\ Distinct(waiting) /\ waiting \in Seq(Workers)
  BY <1>1 DEF Elems, Distinct
<1>4. LimiterOK
  <2>1. active = Cardinality(Readback!Holding) /\ active <= ReadbackSlots
    <3>1. Readback!Holding = HoldersOf(phase)
      BY LimiterFacts
    <3>2. ReadbackSlots \in Nat
      BY LimiterFacts
    <3>3. Cardinality(Readback!Holding) = 0
      BY <1>2, <3>1
    <3> QED BY <1>1, <3>2, <3>3
  <2>2. Elems(waiting) = {j \in Workers : phase[j] = "waiting"}
    BY <1>1, <1>3
  <2> QED BY <1>1, <1>3, <2>1, <2>2 DEF LimiterOK, PhaseNames
<1>5. PhaseFits
  BY <1>1, JobFacts DEF PhaseFits, Idle
<1> QED BY <1>4, <1>5 DEF ReadbackOK

\* The limiter takes a step of the abstract pool.
LEMMA ServesAsAPool ==
  ASSUME ReadbackOK, ReadbackOK', PhaseMoves
  PROVE  Readback!Pool!ServeStep
<1> DEFINE gone == {j \in Workers : phase[j] \in {"released", "rejected"}}
<1>1. /\ phase \in [Workers -> PhaseNames] /\ phase' \in [Workers -> PhaseNames]
      /\ Elems(waiting) = {j \in Workers : phase[j] = "waiting"}
      /\ Elems(waiting') = {j \in Workers : phase'[j] = "waiting"}
      /\ active' = Cardinality(HoldersOf(phase')) /\ active' <= ReadbackSlots
      /\ waiting' # <<>> => active' = ReadbackSlots
  BY LimiterFacts DEF ReadbackOK, LimiterOK
<1>2. ReadbackSlots \in 1..ReadbackSlots
  BY LimiterFacts
<1>3. waiting' = <<>> => Elems(waiting') = {}
  BY DEF Elems
<1>4. \A S : Readback!Pool!Cardinality(S) = Cardinality(S)
  BY DEF Readback!Pool!Cardinality, Cardinality
<1>5. Elems(waiting') # {} => Readback!Pool!Cardinality(HoldersOf(phase')) >= ReadbackSlots
  BY <1>1, <1>2, <1>3, <1>4
<1>6. Readback!Pool!Cardinality(HoldersOf(phase')) <= ReadbackSlots
  BY <1>1, <1>4
<1>7. /\ Readback!Holding = HoldersOf(phase) /\ Readback!Holding' = HoldersOf(phase')
      /\ Readback!Waiting = Elems(waiting) /\ Readback!Waiting' = Elems(waiting')
  BY LimiterFacts
<1>8. HoldersOf(phase) \ gone' \subseteq HoldersOf(phase')
  BY <1>1 DEF PhaseMoves, HoldersOf
<1>9. Elems(waiting) \ gone' \subseteq Elems(waiting') \union HoldersOf(phase')
  BY <1>1 DEF PhaseMoves, HoldersOf
<1>10. HoldersOf(phase') \intersect (Elems(waiting') \union gone') = {}
  BY <1>1 DEF HoldersOf
<1>11. Elems(waiting') \intersect (HoldersOf(phase) \union gone') = {}
  BY <1>1 DEF PhaseMoves, HoldersOf
<1>12. Elems(waiting') \subseteq Workers /\ HoldersOf(phase') \subseteq Workers /\ gone' \subseteq Workers
  BY <1>1 DEF HoldersOf
<1> QED BY <1>2, <1>5, <1>6, <1>7, <1>8, <1>9, <1>10, <1>11, <1>12
        DEF Readback!Pool!ServeStep, Readback!Pool!Conserving

(***************************************************************************)
(* The limiter of the readbacks implements the pool of slots: segments     *)
(* wait only while every slot is taken, and no slot goes to one that was   *)
(* rejected.                                                               *)
(***************************************************************************)
THEOREM ReadbacksAreAPool == Spec => ReadbackIsAPool
<1> DEFINE I == Core /\ ReadbackOK
<1>1. Init => I
  BY CoreInit, ReadbackInit
<1>2. I /\ [Next]_vars => I'
  BY CoreStep, ReadbackStep
<1>3. Init => Readback!Pool!PoolInit
  <2> SUFFICES ASSUME Init PROVE Readback!Pool!PoolInit
    OBVIOUS
  <2>1. active = 0 /\ waiting = <<>> /\ phase = [j \in Workers |-> "new"]
    BY DEF Init, Readback!Init
  <2>2. Readback!Waiting = {} /\ Readback!Holding = {}
    BY <2>1 DEF Readback!Waiting, Readback!Holding
  <2>3. ReadbackSlots \in 1..ReadbackSlots
    BY LimiterFacts
  <2> QED BY <2>1, <2>2, <2>3 DEF Readback!Pool!PoolInit
<1>4. I /\ I' /\ [Next]_vars => [Readback!Pool!ServeStep]_(Readback!Pool!poolVars)
  BY ReadbackStep, ServesAsAPool
<1> HIDE DEF I
<1> QED BY <1>1, <1>2, <1>3, <1>4, PTL
        DEF Spec, ReadbackIsAPool, Readback!PoolSpec, Readback!Pool!ReusedSpec

\* If nothing goes on, every download has ended.
LEMMA GoesOnSomehow ==
  ASSUME Core, ReadbackOK
  PROVE  SomethingGoesOn
<1> SUFFICES ASSUME NEW d \in Downloads, load[d].at # "over",
                    ~Pending, \A j \in Jobs : job[j].at # "pause" /\ pool.lease[j] = None,
                    Readback!Holding = {},
                    \A e \in Downloads :
                      load[e].at \notin {"load", "prepare", "allocate", "commit", "cleanup"}
             PROVE  FALSE
  BY DEF SomethingGoesOn
\* nobody waits for a proxy: there would be one
<1>1. Queued(pool) = {}
  <2> SUFFICES ASSUME NEW c \in Queued(pool) PROVE FALSE
    OBVIOUS
  <2>1. PoolOK(pool) /\ c \in Jobs
    BY QueuedIsToSet DEF Core, Settles
  <2>2. PICK x \in Proxies : x \notin pool.avoid[c]
    BY <2>1 DEF Core, Fits, JobFits
  <2>3. Proxy!Active(pool) = {} /\ Proxy!ActiveProxies(pool) = {}
    BY ActiveSame
  <2>4. Proxy!MayConnect(pool, DownloadOf(c), TRUE)
    <3>1. pool.limit \in Nat /\ pool.limit >= 2 /\ pool.throttle[DownloadOf(c)] \in Nat
      BY <2>1, JobFacts DEF PoolOK, Pools
    <3>2. Proxy!ActiveOf(pool, DownloadOf(c)) = {}
      BY <2>3 DEF Proxy!ActiveOf
    <3>3. Proxy!Cardinality({}) = 0
      BY FS_EmptySet DEF Proxy!Cardinality, Cardinality
    <3> QED BY <2>3, <3>1, <3>2, <3>3 DEF Proxy!MayConnect
  <2>5. Proxy!Selectable(pool, c, TRUE) # {}
    BY <2>2, <2>3, <2>4 DEF Proxy!Selectable
  <2>6. Proxy!Selectable(pool, c, TRUE) = {}
    BY <2>1, ServedMeans DEF Core, Settles
  <2> QED BY <2>5, <2>6
\* no readback waits: somebody would have its slot
<1>2. \A j \in Workers : phase[j] \notin {"waiting", "holding"}
  <2>1. HoldersOf(phase) = {} /\ Cardinality(HoldersOf(phase)) = 0
    <3>1. HoldersOf(phase) = {}
      BY LimiterFacts
    <3> QED BY <3>1, FS_EmptySet
  <2>2. active = 0
    BY <2>1, LimiterFacts DEF ReadbackOK, LimiterOK
  <2>3. waiting = <<>>
    BY <2>2, LimiterFacts DEF ReadbackOK, LimiterOK
  <2>4. Elems(waiting) = {}
    BY <2>3 DEF Elems
  <2> QED BY <2>1, <2>4 DEF ReadbackOK, LimiterOK, HoldersOf
\* every job that has something to do could do it
<1>3. \A j \in Jobs : job[j].at \in {"idle", "done", "failed"}
  <2> SUFFICES ASSUME NEW j \in Jobs PROVE job[j].at \in {"idle", "done", "failed"}
    OBVIOUS
  <2>1. job[j].at \notin {"again", "next", "suspect"} /\ job[j].at # "pause"
    BY DEF Pending
  <2>2. job[j].at \notin {"fetch", "check"}
    <3>1. ~Rejected(j, "fetch") /\ ~Rejected(j, "check")
      BY DEF Pending
    <3>2. j \notin ToSet(pool.queue)
      BY <1>1, QueuedIsToSet DEF Core, Settles
    <3> QED BY <3>1, <3>2 DEF Rejected
  <2>3. job[j].at # "readback"
    <3> SUFFICES ASSUME job[j].at = "readback" PROVE FALSE
      OBVIOUS
    <3>1. phase[j] # "rejected"
      BY DEF Pending
    <3>2. j \in Workers
      <4>1. \A e \in Downloads : job[ProbeOf(e)].at # "readback"
        BY DEF Core, Stages, StageOf
      <4>2. \E e \in Downloads, k \in 0..Connections : j = <<e, k>>
        BY DEF Jobs
      <4>3. Connections \in Nat
        BY SegmentedAssumption
      <4> QED BY <4>1, <4>2, <4>3 DEF ProbeOf, Workers
    <3> QED BY <1>2, <3>1, <3>2 DEF ReadbackOK, PhaseFits
  <2>4. job[j].at \in {"idle", "next", "done"} \union Busy
    BY DEF Core, Typed, JobStates
  <2> QED BY <2>1, <2>2, <2>3, <2>4 DEF Busy
<1>4. load[d].at \in {"probe", "segments"}
  BY DEF Core, Typed, Loads, Pending
<1>5. CASE load[d].at = "probe"
  BY <1>3, <1>5, JobFacts DEF Core, Stages, StageOf
<1>6. CASE load[d].at = "segments"
  <2>1. \A j \in WorkersOf(d) : job[j].at # "idle"
    <3> SUFFICES ASSUME NEW j \in WorkersOf(d) PROVE job[j].at # "idle"
      OBVIOUS
    <3>1. PICK k \in 1..Connections : j = <<d, k>>
      BY JobFacts DEF Workers, DownloadOf
    <3> QED BY <1>6, <3>1 DEF Core, Stages, StageOf
  <2>2. \A j \in WorkersOf(d) : job[j].at \in {"done", "failed"}
    BY <1>3, <2>1, JobFacts
  <2> QED BY <1>6, <2>2 DEF Pending
<1> QED BY <1>4, <1>5, <1>6

(***************************************************************************)
(* As long as a download of downloadWithProxySegments() has not ended      *)
(* something goes on that will call back; there is no deadlock between the *)
(* coordinator of the proxies and the limiter of the readbacks.            *)
(***************************************************************************)
THEOREM DownloadsGoOn == Spec => []SomethingGoesOn
<1> DEFINE I == Core /\ ReadbackOK
<1>1. Init => I
  BY CoreInit, ReadbackInit
<1>2. I /\ [Next]_vars => I'
  BY CoreStep, ReadbackStep
<1>3. I => SomethingGoesOn
  BY GoesOnSomehow
<1> HIDE DEF I
<1> QED BY <1>1, <1>2, <1>3, PTL DEF Spec

-----------------------------------------------------------------------------
(***************************************************************************)
(* The books of the segments: each is with one worker, accepted, or still  *)
(* to be handed out; so that a file is renamed only when it is whole.      *)
(***************************************************************************)

\* The segments that have been handed to workers, and the workers that have one.
Taken(d) == 1..(load[d].next - 1)
AtWork(d) == {j \in WorkersOf(d) : job[j].at \in Busy}

\* A worker has a segment for itself, which was handed out and is not accepted.
InHand(d) ==
  /\ load[d].next \in 1..(SegmentsOf[d] + 1) /\ load[d].valid \subseteq Taken(d)
  /\ \A j \in AtWork(d) : job[j].segment \in Taken(d) \ load[d].valid
  /\ \A i, j \in AtWork(d) : job[i].segment = job[j].segment => i = j

\* While the workers of a download are at work every segment that was handed out is
\* accepted or with a worker, one of them ends only when there is none left or it is told
\* to, and nobody is told to end but because one has failed or the download is stopped.
Assigned(d) ==
  load[d].at = "segments" =>
    /\ \A s \in Taken(d) : s \in load[d].valid \/ \E j \in AtWork(d) : job[j].segment = s
    /\ \A j \in WorkersOf(d) : job[j].at = "done" => d \in aborted \/ load[d].next > SegmentsOf[d]
    /\ d \in aborted \ stopped => \E j \in WorkersOf(d) : job[j].at = "failed"

\* What a download has before its workers begin, and once they have ended.
Around(d) ==
  /\ load[d].at \in {"load", "probe", "prepare", "allocate"} =>
       load[d].next = 1 /\ (d \in aborted => d \in stopped)
  /\ load[d].at = "commit" /\ d \notin stopped => load[d].valid = 1..SegmentsOf[d]
  /\ load[d].temp => load[d].at \in {"segments", "commit", "cleanup"}
  /\ load[d].at \in {"segments", "commit"} => load[d].temp
  /\ load[d].at = "cleanup" /\ ~load[d].temp => load[d].valid = {}
  /\ load[d].result = "changed" =>
       load[d].at = "cleanup" \/ (load[d].at = "ending" /\ load[d].valid = {})
  /\ load[d].renamed =>
       /\ load[d].at \in {"ending", "over"} /\ load[d].result # "changed"
       /\ d \notin stopped => load[d].valid = 1..SegmentsOf[d]

BookOf(d) == InHand(d) /\ Assigned(d) /\ Around(d)

Books == \A d \in Downloads : BookOf(d)

\* Who has failed does nothing more.
LEMMA NotFailed ==
  ASSUME NEW j, Attempt(j) \/ WorkerActs(j)
  PROVE  job[j].at # "failed"
BY DEF Attempt, WorkerActs, WorkerHears, NextSegment, GivesUp, ReadbackRejected, Suspected,
       CheckRejected, Flushed, Written, FetchFails, PauseEnds, ReadBack, Checked, Has, Rejected

\* What is still true of a download when only others have acted.
LEMMA BookKept ==
  ASSUME NEW d \in Downloads, BookOf(d), load'[d] = load[d],
         \A j \in WorkersOf(d) : job'[j] = job[j],
         d \in aborted' <=> d \in aborted, d \in stopped' <=> d \in stopped
  PROVE  BookOf(d)'
<1>2. AtWork(d)' = AtWork(d) /\ Taken(d)' = Taken(d)
  BY DEF AtWork, Taken
<1>3. \A j \in AtWork(d) : job'[j] = job[j]
  BY DEF AtWork
<1>4. InHand(d)'
  BY <1>2, <1>3 DEF BookOf, InHand
<1>5. Assigned(d)'
  BY <1>2, <1>3 DEF BookOf, Assigned
<1>6. Around(d)'
  BY DEF BookOf, Around
<1> QED BY <1>4, <1>5, <1>6 DEF BookOf

\* What a worker writes into the record of its download.
LEMMA KindWrites ==
  ASSUME Core, NEW j \in Workers, NEW d, d = DownloadOf(j), NEW r, Becomes(j, r), Kind(j, r)
  PROVE  /\ \A e \in Downloads \ {d} : load'[e] = load[e]
         /\ load'[d].at = load[d].at /\ load'[d].result = load[d].result
         /\ load'[d].renamed = load[d].renamed /\ load'[d].temp = load[d].temp
         /\ load'[d].run = load[d].run
         /\ load'[d].next = IF job[j].at = "next" /\ r.at = "again" THEN load[d].next + 1
                            ELSE load[d].next
         /\ load'[d].valid = IF r.at = "next" THEN load[d].valid \union {job[j].segment}
                             ELSE load[d].valid
         /\ ~Writes(j, r) /\ ~TakesBack(j, r) => load'[d].progress = load[d].progress
<1>1. d \in Downloads /\ load \in [Downloads -> Loads] /\ load[d] \in Loads
  BY JobFacts DEF Core, Typed
<1>2. ASSUME NEW n, load' = [load EXCEPT ![d].progress = n]
      PROVE  /\ \A e \in Downloads \ {d} : load'[e] = load[e]
             /\ load'[d].at = load[d].at /\ load'[d].result = load[d].result
             /\ load'[d].renamed = load[d].renamed /\ load'[d].temp = load[d].temp
             /\ load'[d].run = load[d].run
             /\ load'[d].next = load[d].next /\ load'[d].valid = load[d].valid
  BY <1>1, <1>2 DEF Loads
<1>3. CASE Carries(j, r)
  BY <1>1, <1>3 DEF Carries, Busy
<1>4. CASE Writes(j, r)
  <2> DEFINE n == Min({load[d].progress + (r.part - job[j].part), Bytes * SegmentsOf[d]})
  <2>1. load' = [load EXCEPT ![d].progress = n]
    BY <1>4 DEF Writes, Progress
  <2> HIDE DEF n
  <2>2. job[j].at = "fetch" /\ r.at \in {"fetch", "readback"}
    BY <1>4 DEF Writes
  <2> QED BY <1>2, <1>4, <2>1, <2>2
<1>5. CASE TakesBack(j, r)
  <2> DEFINE n == Max({0, load[d].progress - job[j].part})
  <2>1. load' = [load EXCEPT ![d].progress = n]
    BY <1>5 DEF TakesBack
  <2> HIDE DEF n
  <2>2. job[j].at # "next" /\ r.at \in {"pause", "failed", "again"}
    BY <1>5 DEF TakesBack, Busy
  <2> QED BY <1>2, <1>5, <2>1, <2>2
<1>6. CASE Accepts(j, r)
  <2> DEFINE S == load[d].valid \union {job[j].segment}
  <2>1. load' = [load EXCEPT ![d].valid = S] /\ r.at = "next"
    BY <1>6 DEF Accepts
  <2> HIDE DEF S
  <2>2. load'[d].valid = S
    BY <1>1, <2>1 DEF Loads
  <2> QED BY <1>1, <2>1, <2>2 DEF Loads, S
<1>7. CASE Takes(j, r)
  BY <1>1, <1>7 DEF Takes, Loads
<1>8. CASE Leaves(j, r)
  BY <1>1, <1>8 DEF Leaves
<1> QED BY <1>3, <1>4, <1>5, <1>6, <1>7, <1>8 DEF Kind

\* A worker that does something is one of a download whose segments are loading.
LEMMA WorkerPlace ==
  ASSUME Core, NEW j \in Workers, NEW r, Becomes(j, r), Kind(j, r)
  PROVE  /\ DownloadOf(j) \in Downloads /\ j \in WorkersOf(DownloadOf(j)) /\ j \in Jobs
         /\ load[DownloadOf(j)].at = "segments"
         /\ job'[j] = r /\ \A i \in Jobs \ {j} : job'[i] = job[i]
<1>1. /\ DownloadOf(j) \in Downloads /\ j \in Jobs /\ job[j].at # "idle"
      /\ job \in [Jobs -> JobStates] /\ job' = [job EXCEPT ![j] = r]
  BY JobFacts, KindOfLoad DEF Core, Typed, Becomes
<1>2. PICK k \in 1..Connections : j = <<DownloadOf(j), k>>
  BY DEF Workers, DownloadOf
<1>3. StageOf(DownloadOf(j))
  BY <1>1 DEF Core, Stages
<1>4. load[DownloadOf(j)].at = "segments" /\ j \in WorkersOf(DownloadOf(j))
  BY <1>1, <1>2, <1>3 DEF StageOf
<1> QED BY <1>1, <1>4

\* A worker keeps the book of the segments of its download.
LEMMA WorkerBook ==
  ASSUME Core, NEW j \in Workers, NEW d, d = DownloadOf(j), BookOf(d), NEW r, Becomes(j, r), Kind(j, r),
         job[j].at # "failed", aborted' = aborted
  PROVE  BookOf(d)'
<1> DEFINE n == load[d].next
           V == load[d].valid
           s == job[j].segment
           last == SegmentsOf[d]
<1>1. /\ d \in Downloads /\ j \in WorkersOf(d) /\ load[d].at = "segments" /\ load'[d].at = "segments"
      /\ job'[j] = r /\ \A i \in WorkersOf(d) \ {j} : job'[i] = job[i]
      /\ load'[d].result = load[d].result /\ load'[d].renamed = load[d].renamed
      /\ load'[d].temp = load[d].temp /\ aborted' = aborted /\ stopped' = stopped
  <2>1. /\ d \in Downloads /\ j \in WorkersOf(d) /\ load[d].at = "segments"
        /\ job'[j] = r /\ \A i \in Jobs \ {j} : job'[i] = job[i]
    BY WorkerPlace
  <2>2. /\ load'[d].at = load[d].at /\ load'[d].result = load[d].result
        /\ load'[d].renamed = load[d].renamed /\ load'[d].temp = load[d].temp
    BY KindWrites
  <2>3. WorkersOf(d) \subseteq Jobs
    BY <2>1, JobFacts
  <2> QED BY <2>1, <2>2, <2>3 DEF Becomes
<1>2. /\ n \in 1..(last + 1) /\ last \in Nat /\ V \subseteq 1..(n - 1) /\ n \in Nat
      /\ Taken(d) = 1..(n - 1) /\ Taken(d)' = 1..(load'[d].next - 1)
      /\ \A i \in AtWork(d) : job[i].segment \in (1..(n - 1)) \ V
      /\ \A i, k \in AtWork(d) : job[i].segment = job[k].segment => i = k
      /\ \A t \in 1..(n - 1) : t \in V \/ \E i \in AtWork(d) : job[i].segment = t
      /\ \A i \in WorkersOf(d) : job[i].at = "done" => d \in aborted \/ n > last
      /\ d \in aborted \ stopped => \E i \in WorkersOf(d) : job[i].at = "failed"
  <2>1. InHand(d) /\ Assigned(d) /\ last \in Nat
    BY <1>1, SegmentedAssumption DEF BookOf
  <2> QED BY <1>1, <2>1 DEF InHand, Assigned, Taken
<1>3. Around(d)'
  BY <1>1 DEF BookOf, Around
<1>4. d \in aborted' \ stopped' => \E i \in WorkersOf(d) : job'[i].at = "failed"
  BY <1>1, <1>2
<1>5. CASE job[j].at \in Busy /\ r.at \in Busy /\ r.segment = s /\ load'[d].next = n /\ load'[d].valid = V
  <2>1. AtWork(d)' = AtWork(d)
    BY <1>1, <1>5 DEF AtWork
  <2>2. \A i \in AtWork(d) : job'[i].segment = job[i].segment
    BY <1>1, <1>5 DEF AtWork
  <2>3. InHand(d)'
    BY <1>2, <1>5, <2>1, <2>2 DEF InHand
  <2>4. Assigned(d)'
    <3>1. \A t \in 1..(n - 1) : t \in V \/ \E i \in AtWork(d) : job'[i].segment = t
      BY <1>2, <2>2
    <3>2. \A i \in WorkersOf(d) : job'[i].at = "done" => d \in aborted \/ n > last
      BY <1>1, <1>2, <1>5 DEF Busy
    <3> QED BY <1>1, <1>2, <1>4, <1>5, <2>1, <3>1, <3>2 DEF Assigned
  <2> QED BY <1>3, <2>3, <2>4 DEF BookOf
<1>6. CASE Accepts(j, r)
  <2>1. /\ r.at = "next" /\ job[j].at \in Whole /\ load'[d].next = n /\ load'[d].valid = V \union {s}
    BY <1>6, KindWrites DEF Accepts, Whole
  <2>2. AtWork(d)' = AtWork(d) \ {j} /\ j \in AtWork(d)
    BY <1>1, <2>1 DEF AtWork, Busy, Whole
  <2>3. \A i \in AtWork(d) \ {j} : job'[i].segment = job[i].segment
    BY <1>1 DEF AtWork
  <2>4. s \in 1..(n - 1) /\ \A i \in AtWork(d) \ {j} : job[i].segment # s
    BY <1>2, <2>2
  <2>5. InHand(d)'
    BY <1>2, <2>1, <2>2, <2>3, <2>4 DEF InHand
  <2>6. Assigned(d)'
    <3>1. \A t \in 1..(n - 1) :
            t \in V \union {s} \/ \E i \in AtWork(d) \ {j} : job'[i].segment = t
      BY <1>2, <2>3
    <3>2. \A i \in WorkersOf(d) : job'[i].at = "done" => d \in aborted \/ n > last
      BY <1>1, <1>2, <2>1
    <3> QED BY <1>1, <1>2, <1>4, <2>1, <2>2, <3>1, <3>2 DEF Assigned
  <2> QED BY <1>3, <2>5, <2>6 DEF BookOf
<1>7. CASE Takes(j, r)
  <2>1. /\ job[j].at = "next" /\ r.at = "again" /\ r.segment = n /\ n <= last
        /\ load'[d].next = n + 1 /\ load'[d].valid = V
    <3>1. /\ job[j].at = "next" /\ r.at = "again" /\ r.segment = n /\ n <= last
      BY <1>7 DEF Takes
    <3>2. /\ load'[d].next = IF job[j].at = "next" /\ r.at = "again" THEN n + 1 ELSE n
          /\ load'[d].valid = IF r.at = "next" THEN V \union {s} ELSE V
      BY KindWrites
    <3>3. load'[d].next = n + 1 /\ load'[d].valid = V
      BY <3>1, <3>2
    <3> QED BY <3>1, <3>3
  <2>2. AtWork(d)' = AtWork(d) \union {j} /\ j \notin AtWork(d)
    BY <1>1, <2>1 DEF AtWork, Busy
  <2>3. /\ job'[j].segment = n /\ \A i \in AtWork(d) : job'[i].segment = job[i].segment
    BY <1>1, <2>1, <2>2 DEF AtWork
  <2>4. Taken(d)' = 1..n /\ n \notin 1..(n - 1) /\ 1..n = (1..(n - 1)) \union {n}
        /\ n + 1 \in 1..(last + 1)
    BY <1>2, <2>1
  <2>5. InHand(d)'
    <3>1. \A i \in AtWork(d) \union {j} : job'[i].segment \in (1..n) \ V
      BY <1>2, <2>3, <2>4
    <3>2. \A i, k \in AtWork(d) \union {j} : job'[i].segment = job'[k].segment => i = k
      BY <1>2, <2>3, <2>4
    <3> QED BY <1>2, <2>1, <2>2, <2>4, <3>1, <3>2 DEF InHand
  <2>6. Assigned(d)'
    <3>1. \A t \in 1..n : t \in V \/ \E i \in AtWork(d) \union {j} : job'[i].segment = t
      BY <1>2, <2>3, <2>4
    <3>2. \A i \in WorkersOf(d) : job[i].at = "done" => d \in aborted
      BY <1>2, <2>1
    <3>3. \A i \in WorkersOf(d) : job'[i].at = "done" => d \in aborted
      BY <1>1, <2>1, <3>2
    <3> QED BY <1>1, <1>4, <2>1, <2>2, <2>4, <3>1, <3>3 DEF Assigned
  <2> QED BY <1>3, <2>5, <2>6 DEF BookOf
<1>8. CASE Leaves(j, r)
  <2>1. /\ job[j].at = "next" /\ r.at = "done" /\ (d \in aborted \/ n > last)
        /\ load'[d].next = n /\ load'[d].valid = V
    BY <1>8, KindWrites DEF Leaves, Signalled
  <2>2. AtWork(d)' = AtWork(d)
    BY <1>1, <2>1 DEF AtWork, Busy
  <2>3. \A i \in AtWork(d) : job'[i].segment = job[i].segment
    BY <1>1, <2>1 DEF AtWork, Busy
  <2>4. InHand(d)'
    BY <1>2, <2>1, <2>2, <2>3 DEF InHand
  <2>5. Assigned(d)'
    <3>1. \A t \in 1..(n - 1) : t \in V \/ \E i \in AtWork(d) : job'[i].segment = t
      BY <1>2, <2>3
    <3>2. \A i \in WorkersOf(d) : job'[i].at = "done" => d \in aborted \/ n > last
      BY <1>1, <1>2, <2>1
    <3> QED BY <1>1, <1>2, <1>4, <2>1, <2>2, <3>1, <3>2 DEF Assigned
  <2> QED BY <1>3, <2>4, <2>5 DEF BookOf
<1>9. CASE Carries(j, r) \/ Writes(j, r) \/ TakesBack(j, r)
  <2>1. job[j].at \in Busy /\ r.at \in Busy /\ r.segment = s
    BY <1>9 DEF Carries, Writes, TakesBack, Busy
  <2>2. /\ load'[d].next = IF job[j].at = "next" /\ r.at = "again" THEN n + 1 ELSE n
        /\ load'[d].valid = IF r.at = "next" THEN V \union {s} ELSE V
    BY KindWrites
  <2>3. r.at # "next" /\ job[j].at # "next"
    BY <2>1 DEF Busy
  <2>4. load'[d].next = n /\ load'[d].valid = V
    BY <2>2, <2>3
  <2> QED BY <1>5, <2>1, <2>4
<1> QED BY <1>6, <1>7, <1>8, <1>9 DEF Kind

\* How a download goes on when its workers have ended.
LEMMA SettledLoad ==
  ASSUME NEW d \in Downloads, Settled(d)
  PROVE  \/ /\ load' = [load EXCEPT ![d].at = "commit"]
            /\ \A k \in 1..Connections : job[<<d, k>>].at # "failed"
         \/ \E result \in {"aborted", "failed", "fallback", "changed"} :
              load' = [load EXCEPT ![d].at = "cleanup", ![d].result = result]
<1> DEFINE failed == {k \in 1..Connections : job[<<d, k>>].at = "failed"}
           error(k) == job[<<d, k>>].error
           causes == {k \in failed : error(k) # "abort"}
           result == CASE d \in stopped -> "aborted"
                       [] error(Min(failed)) = "disk" -> "failed"
                       [] \E k \in failed : error(k) = "origin" -> "fallback"
                       [] error(Min(causes)) = "changed" -> "changed"
                       [] OTHER -> "fallback"
<1>1. result \in {"aborted", "failed", "fallback", "changed"}
  <2> HIDE DEF failed, error, causes
  <2> QED OBVIOUS
<1>2. load' = IF failed = {} THEN [load EXCEPT ![d].at = "commit"]
              ELSE [load EXCEPT ![d].at = "cleanup", ![d].result = result]
  BY DEF Settled
<1>3. failed = {} => \A k \in 1..Connections : job[<<d, k>>].at # "failed"
  OBVIOUS
<1> HIDE DEF failed, result
<1> QED BY <1>1, <1>2, <1>3

\* What an action of a download leaves alone for the others.
LEMMA OthersLeft ==
  ASSUME Core, NEW d \in Downloads, DownloadActs(d), NEW e \in Downloads \ {d}
  PROVE  /\ load'[e] = load[e] /\ \A j \in WorkersOf(e) : job'[j] = job[j]
         /\ e \in aborted' <=> e \in aborted
         /\ e \in stopped' <=> e \in stopped
<1> DEFINE goal == /\ load'[e] = load[e] /\ \A j \in WorkersOf(e) : job'[j] = job[j]
                   /\ e \in aborted' <=> e \in aborted
                   /\ e \in stopped' <=> e \in stopped
<1>1. /\ load \in [Downloads -> Loads] /\ job \in [Jobs -> JobStates]
      /\ WorkersOf(e) \subseteq Jobs /\ ProbeOf(d) \notin WorkersOf(e)
      /\ \A j \in WorkersOf(e) : j \notin WorkersOf(d)
  BY JobFacts DEF Core, Typed
<1>2. \A j \in WorkersOf(e) : j \in Jobs /\ j # ProbeOf(d)
  BY <1>1
<1>3. ASSUME NEW at, NEW result, ProbeLeaves(d, at, result) PROVE goal
  BY <1>1, <1>2, <1>3 DEF ProbeLeaves, NoReadback
<1>4. CASE \/ ProbeOk(d) \/ ProbeRefused(d) \/ ProbeCut(d) \/ ProbeEnds(d)
  BY Zenon, <1>3, <1>4 DEF ProbeOk, ProbeRefused, ProbeCut, ProbeEnds
<1>5. CASE ProbeFails(d)
  BY <1>1, <1>2, <1>5 DEF ProbeFails, NoReadback
<1>6. CASE Loaded(d)
  BY <1>1, <1>2, <1>6 DEF Loaded, NoReadback
<1>7. CASE NoList(d)
  BY <1>1, <1>7 DEF NoList, NoReadback
<1>8. CASE Prepared(d)
  BY Zenon, <1>1, <1>8 DEF Prepared, NoReadback
<1>9. CASE Allocated(d)
  <2>1. load'[e] = load[e]
    BY Zenon, <1>1, <1>9 DEF Allocated
  <2>2. \A j \in WorkersOf(e) : job'[j] = job[j]
    BY Zenon, <1>1, <1>2, <1>9 DEF Allocated
  <2> QED BY Zenon, <1>9, <2>1, <2>2 DEF Allocated, NoReadback
<1>10. CASE Settled(d)
  <2>1. load'[e] = load[e]
    <3>1. \/ load' = [load EXCEPT ![d].at = "commit"]
          \/ \E result : load' = [load EXCEPT ![d].at = "cleanup", ![d].result = result]
      BY <1>10, SettledLoad
    <3> QED BY <1>1, <3>1
  <2>2. \A j \in WorkersOf(e) : job'[j] = job[j]
    BY <1>1, <1>2, <1>10 DEF Settled
  <2> QED BY <1>10, <2>1, <2>2 DEF Settled, NoReadback
<1>11. CASE Commit(d)
  BY <1>1, <1>11 DEF Commit, NoReadback
<1>12. CASE Cleanup(d)
  BY <1>1, <1>12 DEF Cleanup, NoReadback
<1>13. CASE Ended(d)
  <2>1. load'[e] = load[e]
    <3>1. \E l : load' = [load EXCEPT ![d] = l]
      BY <1>1, <1>13 DEF Ended
    <3> QED BY <1>1, <3>1
  <2> QED BY <1>13, <2>1 DEF Ended
<1>14. CASE Cascade(d)
  BY <1>14 DEF Cascade, Dispatched, Readback!Abort
<1>15. CASE Stop(d)
  BY <1>15 DEF Stop, Dispatched, Readback!Abort
<1> QED BY <1>4, <1>5, <1>6, <1>7, <1>8, <1>9, <1>10, <1>11, <1>12, <1>13, <1>14, <1>15
        DEF DownloadActs, DownloadHears

\* A download none of whose workers is at work.
LEMMA Resting ==
  ASSUME NEW d \in Downloads, BookOf(d), StageOf(d)', load'[d].at # "segments",
         \/ load'[d].next = load[d].next /\ load'[d].valid = load[d].valid
         \/ load'[d].next \in {1, load[d].next} /\ load'[d].valid = {},
         Around(d)'
  PROVE  BookOf(d)'
<1>1. AtWork(d)' = {}
  <2> SUFFICES ASSUME NEW j \in WorkersOf(d) PROVE job'[j].at \notin Busy
    BY DEF AtWork
  <2>1. PICK k \in 1..Connections : j = <<d, k>>
    BY JobFacts DEF Workers, DownloadOf
  <2>2. job'[<<d, k>>].at = "idle"
    BY DEF StageOf
  <2> QED BY <2>1, <2>2 DEF Busy
<1>2. InHand(d)'
  <2>1. InHand(d) /\ SegmentsOf[d] \in Nat \ {0}
    BY SegmentedAssumption DEF BookOf
  <2>2. load'[d].next \in 1..(SegmentsOf[d] + 1) /\ load'[d].valid \subseteq 1..(load'[d].next - 1)
    BY <2>1 DEF InHand, Taken
  <2> QED BY <1>1, <2>2 DEF InHand, Taken
<1>3. Assigned(d)'
  BY DEF Assigned
<1> QED BY <1>2, <1>3 DEF BookOf

\* Before the first segment is handed out nothing is accepted.
LEMMA NothingYet ==
  ASSUME NEW d, BookOf(d), load[d].at \in {"load", "probe", "prepare", "allocate"}
  PROVE  load[d].next = 1 /\ load[d].valid = {}
<1>1. load[d].next = 1
  BY DEF BookOf, Around
<1> QED BY <1>1 DEF BookOf, InHand, Taken

\* The probe ends, and its download goes on to the file or to its end.
LEMMA ProbeLeavesBook ==
  ASSUME Core, Core', NEW d \in Downloads, BookOf(d), load[d].at = "probe",
         NEW at \in {"prepare", "ending"}, NEW result \in Results \ {"changed"},
         ProbeLeaves(d, at, result)
  PROVE  BookOf(d)'
<1>1. /\ load'[d].at = at /\ load'[d].result = result /\ load'[d].next = load[d].next
      /\ load'[d].valid = load[d].valid /\ load'[d].temp = load[d].temp
      /\ load'[d].renamed = load[d].renamed /\ aborted' = aborted /\ stopped' = stopped
  BY DEF ProbeLeaves, NoReadback, Core, Typed, Loads
<1>2. load[d].next = 1 /\ load[d].valid = {}
  BY NothingYet
<1>3. Around(d)'
  BY <1>1, <1>2 DEF BookOf, Around, Results
<1> QED BY <1>1, <1>3, Resting DEF Core, Stages

\* The probe keeps it, ...
LEMMA ProbeBook ==
  ASSUME Core, Core', NEW d \in Downloads, BookOf(d),
         \/ ProbeOk(d) \/ ProbeRefused(d) \/ ProbeFails(d) \/ ProbeCut(d) \/ ProbeEnds(d)
  PROVE  BookOf(d)'
<1>1. CASE ProbeFails(d)
  <2>1. load' = load /\ stopped' = stopped /\ aborted' = aborted
    BY <1>1 DEF ProbeFails, NoReadback
  <2>2. \A j \in Jobs \ {ProbeOf(d)} : job'[j] = job[j]
    BY <1>1, ProbeAlone
  <2>3. \A j \in WorkersOf(d) : job'[j] = job[j]
    BY <2>2, JobFacts
  <2> QED BY <2>1, <2>3, BookKept
<1>2. ASSUME NEW at \in {"prepare", "ending"}, NEW result \in {"none", "fallback", "failed", "aborted"},
             load[d].at = "probe", ProbeLeaves(d, at, result)
      PROVE  BookOf(d)'
  BY <1>2, ProbeLeavesBook DEF Results
<1>3. CASE ProbeOk(d)
  <2>1. load[d].at = "probe"
    BY <1>3, ProbeFacts DEF ProbeOk
  <2> QED BY <1>2, <1>3, <2>1 DEF ProbeOk
<1>4. CASE ProbeRefused(d)
  <2>1. load[d].at = "probe"
    BY Zenon, <1>4, ProbeFacts DEF ProbeRefused
  <2> QED BY Zenon, <1>2, <1>4, <2>1 DEF ProbeRefused
<1>5. CASE ProbeCut(d)
  <2>1. load[d].at = "probe"
    BY <1>5, ProbeFacts DEF ProbeCut
  <2> QED BY <1>2, <1>5, <2>1 DEF ProbeCut
<1>6. CASE ProbeEnds(d)
  BY <1>2, <1>6 DEF ProbeEnds
<1> QED BY <1>1, <1>3, <1>4, <1>5, <1>6

\* The list, and the path of the target.
LEMMA BeginningBook ==
  ASSUME Core, Core', NEW d \in Downloads, BookOf(d), Loaded(d) \/ NoList(d) \/ Prepared(d)
  PROVE  BookOf(d)'
<1>1. /\ load[d].at \in {"load", "prepare"}
      /\ load'[d].at \in {"probe", "over", "allocate", "ending"}
      /\ load'[d].result \in {load[d].result, "fallback", "failed"}
      /\ load'[d].next = load[d].next /\ load'[d].valid = load[d].valid
      /\ load'[d].temp = load[d].temp /\ load'[d].renamed = load[d].renamed
      /\ aborted' = aborted /\ stopped' = stopped
  <2>1. CASE Loaded(d)
    BY <2>1 DEF Loaded, NoReadback, Core, Typed, Loads
  <2>2. CASE NoList(d)
    BY <2>2 DEF NoList, NoReadback, Core, Typed, Loads
  <2>3. CASE Prepared(d)
    <3>1. load \in [Downloads -> Loads] /\ load[d] \in Loads
      BY DEF Core, Typed
    <3>2. load[d].at = "prepare" /\ aborted' = aborted /\ stopped' = stopped
      BY Zenon, <2>3 DEF Prepared, NoReadback
    <3>3. CASE load' = [load EXCEPT ![d].at = "allocate"]
      BY <3>1, <3>2, <3>3 DEF Loads
    <3>4. ASSUME NEW result \in {"fallback", "failed"},
                 load' = [load EXCEPT ![d].at = "ending", ![d].result = result]
          PROVE  /\ load'[d].at = "ending" /\ load'[d].result = result
                 /\ load'[d].next = load[d].next /\ load'[d].valid = load[d].valid
                 /\ load'[d].temp = load[d].temp /\ load'[d].renamed = load[d].renamed
      BY <3>1, <3>4 DEF Loads
    <3>5. \/ load' = [load EXCEPT ![d].at = "allocate"]
          \/ \E result \in {"fallback", "failed"} :
               load' = [load EXCEPT ![d].at = "ending", ![d].result = result]
      BY Zenon, <2>3 DEF Prepared
    <3> QED BY <3>2, <3>3, <3>4, <3>5
  <2> QED BY <2>1, <2>2, <2>3
<1>2. load[d].next = 1 /\ load[d].valid = {}
  BY <1>1, NothingYet
<1>3. Around(d)'
  BY <1>1, <1>2 DEF BookOf, Around
<1> QED BY <1>1, <1>3, Resting DEF Core, Stages

\* ... the workers begin with nothing handed out, ...
LEMMA AllocatedBook ==
  ASSUME Core, Core', NEW d \in Downloads, BookOf(d), Allocated(d)
  PROVE  BookOf(d)'
<1>1. /\ load[d].at = "allocate" /\ aborted' = aborted /\ stopped' = stopped
      /\ load \in [Downloads -> Loads] /\ load[d] \in Loads /\ SegmentsOf[d] \in Nat \ {0}
  BY Zenon, SegmentedAssumption DEF Allocated, NoReadback, Core, Typed
<1>2. load[d].next = 1 /\ load[d].valid = {}
  BY <1>1, NothingYet
<1>3. load[d].result # "changed" /\ ~load[d].renamed /\ (d \in aborted => d \in stopped)
  BY <1>1, <1>2 DEF BookOf, Around
<1>4. CASE /\ load' = [load EXCEPT ![d].at = "segments", ![d].temp = TRUE]
           /\ job' = [j \in Jobs |-> IF j \in WorkersOf(d)
                                     THEN [Idle EXCEPT !.at = "next"] ELSE job[j]]
  <2>1. /\ load'[d].at = "segments" /\ load'[d].temp /\ load'[d].next = 1 /\ load'[d].valid = {}
        /\ load'[d].result = load[d].result /\ load'[d].renamed = load[d].renamed
    BY <1>1, <1>2, <1>4 DEF Loads
  <2>2. \A j \in WorkersOf(d) : job'[j].at = "next"
    <3>1. \A j \in WorkersOf(d) : j \in Jobs
      BY JobFacts
    <3> QED BY <1>4, <3>1 DEF Idle
  <2>3. AtWork(d)' = {} /\ Taken(d)' = {}
    BY <2>1, <2>2 DEF AtWork, Taken, Busy
  <2>4. InHand(d)'
    BY <1>1, <2>1, <2>3 DEF InHand
  <2>5. Assigned(d)'
    BY <1>1, <1>3, <2>2, <2>3 DEF Assigned
  <2>6. Around(d)'
    BY <1>1, <1>3, <2>1 DEF Around
  <2> QED BY <2>4, <2>5, <2>6 DEF BookOf
<1>5. ASSUME NEW temp \in BOOLEAN, NEW result \in Thrown(d),
             load' = [load EXCEPT ![d].at = "cleanup", ![d].temp = temp, ![d].result = result]
      PROVE  BookOf(d)'
  <2>1. result \in {"aborted", "failed", "fallback"}
    BY DEF Thrown
  <2>2. /\ load'[d].at = "cleanup" /\ load'[d].next = load[d].next /\ load'[d].valid = load[d].valid
        /\ load'[d].result = result /\ load'[d].renamed = load[d].renamed
    BY <1>1, <1>5 DEF Loads
  <2>3. Around(d)'
    BY <1>1, <1>2, <1>3, <2>1, <2>2 DEF Around
  <2> QED BY <2>2, <2>3, Resting DEF Core, Stages
<1> QED BY Zenon, <1>4, <1>5 DEF Allocated

\* All segments are accepted when no worker has failed and nobody has stopped the download.
LEMMA SettledBook ==
  ASSUME Core, Core', NEW d \in Downloads, BookOf(d), Settled(d)
  PROVE  BookOf(d)'
<1>1. /\ load[d].at = "segments" /\ aborted' = aborted /\ stopped' = stopped
      /\ \A j \in WorkersOf(d) : job[j].at \in {"done", "failed"}
      /\ load \in [Downloads -> Loads] /\ load[d] \in Loads /\ SegmentsOf[d] \in Nat \ {0}
  BY SegmentedAssumption DEF Settled, NoReadback, Core, Typed
<1>2. load[d].result # "changed" /\ ~load[d].renamed /\ load[d].temp
  BY <1>1 DEF BookOf, Around
<1>3. CASE /\ load' = [load EXCEPT ![d].at = "commit"]
           /\ \A k \in 1..Connections : job[<<d, k>>].at # "failed"
  <2>1. /\ load'[d].at = "commit" /\ load'[d].next = load[d].next /\ load'[d].valid = load[d].valid
        /\ load'[d].result = load[d].result /\ load'[d].renamed = load[d].renamed
        /\ load'[d].temp = load[d].temp
    BY <1>1, <1>3 DEF Loads
  <2>2. \A j \in WorkersOf(d) : job[j].at = "done"
    <3> SUFFICES ASSUME NEW j \in WorkersOf(d) PROVE job[j].at # "failed"
      BY <1>1
    <3>1. PICK k \in 1..Connections : j = <<d, k>>
      BY JobFacts DEF Workers, DownloadOf
    <3> QED BY <1>3, <3>1
  <2>3. WorkersOf(d) # {}
    BY <1>1 DEF Core, Stages, StageOf
  <2>4. d \notin stopped => load[d].valid = 1..SegmentsOf[d]
    <3> SUFFICES ASSUME d \notin stopped PROVE load[d].valid = 1..SegmentsOf[d]
      OBVIOUS
    <3>1. d \notin aborted
      BY <1>1, <2>2 DEF BookOf, Assigned
    <3>2. load[d].next > SegmentsOf[d]
      BY <1>1, <2>2, <2>3, <3>1 DEF BookOf, Assigned
    <3>3. load[d].next \in 1..(SegmentsOf[d] + 1)
      BY DEF BookOf, InHand
    <3>4. Taken(d) = 1..SegmentsOf[d]
      BY <1>1, <3>2, <3>3 DEF Taken
    <3>5. AtWork(d) = {}
      BY <2>2 DEF AtWork, Busy
    <3> QED BY <1>1, <3>4, <3>5 DEF BookOf, InHand, Assigned
  <2>5. Around(d)'
    BY <1>1, <1>2, <2>1, <2>4 DEF Around
  <2> QED BY <2>1, <2>5, Resting DEF Core, Stages
<1>4. ASSUME NEW result \in {"aborted", "failed", "fallback", "changed"},
             load' = [load EXCEPT ![d].at = "cleanup", ![d].result = result]
      PROVE  BookOf(d)'
  <2>1. /\ load'[d].at = "cleanup" /\ load'[d].next = load[d].next /\ load'[d].valid = load[d].valid
        /\ load'[d].result = result /\ load'[d].renamed = load[d].renamed
        /\ load'[d].temp = load[d].temp
    BY <1>1, <1>4 DEF Loads
  <2>2. Around(d)'
    BY <1>1, <1>2, <2>1 DEF Around
  <2> QED BY <2>1, <2>2, Resting DEF Core, Stages
<1> QED BY <1>3, <1>4, SettledLoad

\* ... a file is renamed only with every segment, ...
LEMMA CommitBook ==
  ASSUME Core, Core', NEW d \in Downloads, BookOf(d), Commit(d)
  PROVE  BookOf(d)'
<1>1. /\ load[d].at = "commit" /\ aborted' = aborted /\ stopped' = stopped
      /\ load \in [Downloads -> Loads] /\ load[d] \in Loads
  <2>1. load \in [Downloads -> Loads] /\ load[d] \in Loads
    BY LoadTyped DEF Core, Typed
  <2>2. load[d].at = "commit" /\ aborted' = aborted /\ stopped' = stopped
    BY DEF Commit, NoReadback
  <2> QED BY <2>1, <2>2
<1>2. /\ load[d].result # "changed" /\ ~load[d].renamed /\ load[d].temp
      /\ d \notin stopped => load[d].valid = 1..SegmentsOf[d]
  BY <1>1 DEF BookOf, Around
<1>3. CASE load' = [load EXCEPT ![d].at = "ending", ![d].temp = FALSE,
                                ![d].renamed = TRUE, ![d].result = "completed"]
  <2>1. /\ load'[d].at = "ending" /\ load'[d].next = load[d].next /\ load'[d].valid = load[d].valid
        /\ load'[d].result = "completed" /\ load'[d].temp = FALSE
    BY <1>1, <1>3 DEF Loads
  <2>2. Around(d)'
    BY <1>1, <1>2, <2>1 DEF Around
  <2> QED BY <2>1, <2>2, Resting DEF Core, Stages
<1>4. ASSUME NEW result \in Thrown(d),
             load' = [load EXCEPT ![d].at = "cleanup", ![d].result = result]
      PROVE  BookOf(d)'
  <2>1. result \in {"aborted", "failed", "fallback"}
    BY DEF Thrown
  <2>2. /\ load'[d].at = "cleanup" /\ load'[d].next = load[d].next /\ load'[d].valid = load[d].valid
        /\ load'[d].result = result /\ load'[d].renamed = load[d].renamed
        /\ load'[d].temp = load[d].temp
    BY <1>1, <1>4 DEF Loads
  <2>3. Around(d)'
    BY <1>1, <1>2, <2>1, <2>2 DEF Around
  <2> QED BY <2>2, <2>3, Resting DEF Core, Stages
<1> QED BY <1>3, <1>4 DEF Commit

\* ... one that is removed has none, ...
LEMMA CleanupBook ==
  ASSUME Core, Core', NEW d \in Downloads, BookOf(d), Cleanup(d)
  PROVE  BookOf(d)'
<1> DEFINE n == IF load[d].temp THEN 0 ELSE load[d].progress
<1>1. /\ load[d].at = "cleanup" /\ aborted' = aborted /\ stopped' = stopped
      /\ load \in [Downloads -> Loads] /\ load[d] \in Loads
      /\ load' = [load EXCEPT ![d].at = "ending", ![d].temp = FALSE, ![d].valid = {},
                              ![d].progress = n]
  BY DEF Cleanup, NoReadback, Core, Typed
<1>2. ~load[d].renamed
  BY <1>1 DEF BookOf, Around
<1> HIDE DEF n
<1>3. /\ load'[d].at = "ending" /\ load'[d].next = load[d].next /\ load'[d].valid = {}
      /\ load'[d].renamed = load[d].renamed /\ load'[d].temp = FALSE
  BY <1>1 DEF Loads
<1>4. Around(d)'
  BY <1>2, <1>3 DEF Around
<1> QED BY <1>3, <1>4, Resting DEF Core, Stages

\* ... and a second run begins anew.
LEMMA EndedBook ==
  ASSUME Core, Core', NEW d \in Downloads, BookOf(d), Ended(d)
  PROVE  BookOf(d)'
<1>1. /\ load[d].at = "ending" /\ stopped' = stopped
      /\ load \in [Downloads -> Loads] /\ load[d] \in Loads
  BY DEF Ended, Core, Typed
<1>2. ~load[d].temp
  BY <1>1 DEF BookOf, Around
<1>3. CASE load[d].result = "changed" /\ load[d].run = 1 /\ d \notin stopped
  <2>1. /\ load' = [load EXCEPT ![d].at = "load", ![d].run = 2, ![d].next = 1, ![d].result = "none"]
        /\ aborted' = aborted \ {d}
    BY <1>3 DEF Ended
  <2>2. load[d].valid = {} /\ ~load[d].renamed
    BY <1>1, <1>3 DEF BookOf, Around
  <2>3. /\ load'[d].at = "load" /\ load'[d].next = 1 /\ load'[d].valid = {}
        /\ load'[d].result = "none" /\ load'[d].renamed = load[d].renamed
        /\ load'[d].temp = load[d].temp
    BY <1>1, <2>1, <2>2 DEF Loads
  <2>4. Around(d)'
    BY <1>2, <2>1, <2>2, <2>3 DEF Around
  <2> QED BY <2>3, <2>4, Resting DEF Core, Stages
<1>4. CASE ~(load[d].result = "changed" /\ load[d].run = 1 /\ d \notin stopped)
  <2> DEFINE result == IF load[d].result = "changed" /\ load[d].run = 1 THEN "aborted"
                       ELSE IF load[d].result = "changed" THEN "fallback" ELSE load[d].result
  <2>1. load' = [load EXCEPT ![d].at = "over", ![d].result = result] /\ aborted' = aborted
    BY <1>1, <1>4 DEF Ended, Loads
  <2>2. result # "changed"
    OBVIOUS
  <2> HIDE DEF result
  <2>3. /\ load'[d].at = "over" /\ load'[d].next = load[d].next /\ load'[d].valid = load[d].valid
        /\ load'[d].result = result /\ load'[d].renamed = load[d].renamed
        /\ load'[d].temp = load[d].temp
    BY <1>1, <2>1 DEF Loads
  <2>4. Around(d)'
    BY <1>1, <1>2, <2>2, <2>3 DEF BookOf, Around
  <2> QED BY <2>3, <2>4, Resting DEF Core, Stages
<1> QED BY <1>3, <1>4

\* The workers are told to end, by one of them or by whoever stops the download.
LEMMA ToldBook ==
  ASSUME Core, NEW d \in Downloads, BookOf(d), Cascade(d) \/ Stop(d)
  PROVE  BookOf(d)'
<1>1. /\ load' = load /\ job' = job /\ stopped' \in {stopped, stopped \union {d}}
      /\ aborted' \in {aborted, aborted \union {d}}
      /\ Cascade(d) => stopped' = stopped
      /\ Stop(d) => d \in stopped'
  BY DEF Cascade, Stop, Dispatched, Readback!Abort
<1>2. AtWork(d)' = AtWork(d) /\ Taken(d)' = Taken(d)
  BY <1>1 DEF AtWork, Taken
<1>3. InHand(d)'
  BY <1>1, <1>2 DEF BookOf, InHand
<1>4. Cascade(d) => \E j \in WorkersOf(d) : job[j].at = "failed"
  BY DEF Cascade
<1>5. Cascade(d) => load[d].at = "segments"
  <2> SUFFICES ASSUME NEW j \in WorkersOf(d), job[j].at = "failed" PROVE load[d].at = "segments"
    BY <1>4
  <2>1. PICK k \in 1..Connections : j = <<d, k>>
    BY JobFacts DEF Workers, DownloadOf
  <2> QED BY <2>1 DEF Core, Stages, StageOf
<1>6. Assigned(d)'
  <2>1. Assigned(d)
    BY DEF BookOf
  <2> SUFFICES ASSUME load[d].at = "segments"
               PROVE  /\ \A s \in Taken(d) : s \in load[d].valid \/ \E j \in AtWork(d) : job[j].segment = s
                      /\ \A j \in WorkersOf(d) :
                           job[j].at = "done" => d \in aborted' \/ load[d].next > SegmentsOf[d]
                      /\ d \in aborted' \ stopped' => \E j \in WorkersOf(d) : job[j].at = "failed"
    BY <1>1, <1>2 DEF Assigned
  <2>2. d \in aborted => d \in aborted'
    BY <1>1
  <2>3. d \in aborted' \ stopped' => \E j \in WorkersOf(d) : job[j].at = "failed"
    BY <1>1, <1>4
  <2> QED BY <2>1, <2>2, <2>3 DEF Assigned
<1>7. Around(d)'
  <2>1. CASE Stop(d)
    BY <1>1, <2>1 DEF BookOf, Around
  <2>2. CASE Cascade(d)
    BY <1>1, <1>5, <2>2 DEF BookOf, Around
  <2> QED BY <2>1, <2>2
<1> QED BY <1>3, <1>6, <1>7 DEF BookOf

LEMMA DownloadBook ==
  ASSUME Core, Core', NEW d \in Downloads, BookOf(d), DownloadActs(d)
  PROVE  BookOf(d)'
BY ProbeBook, BeginningBook, AllocatedBook, SettledBook, CommitBook, CleanupBook, EndedBook, ToldBook
   DEF DownloadActs, DownloadHears

\* Every step keeps the books of all downloads.
LEMMA BooksStep ==
  ASSUME Core, Books, [Next]_vars
  PROVE  Books'
<1> SUFFICES ASSUME NEW d \in Downloads PROVE BookOf(d)'
  BY DEF Books
<1>0. Core' /\ BookOf(d)
  BY CoreStep DEF Books
<1>1. ASSUME NEW j \in Workers, Attempt(j) \/ WorkerActs(j) PROVE BookOf(d)'
  <2>1. PICK r : Becomes(j, r) /\ Kind(j, r)
    BY <1>1, WorkerHasAKind
  <2>2. aborted' = aborted /\ stopped' = stopped /\ job[j].at # "failed"
    BY <1>1, <2>1, WorkerActsLeave, NotFailed DEF Attempt, NoReadback, Becomes
  <2>3. CASE DownloadOf(j) = d
    BY <1>0, <2>1, <2>2, <2>3, WorkerBook
  <2>4. CASE DownloadOf(j) # d
    <3>1. load'[d] = load[d]
      <4>1. \A e \in Downloads \ {DownloadOf(j)} : load'[e] = load[e]
        BY <2>1, KindWrites
      <4> QED BY <2>4, <4>1
    <3>2. \A i \in WorkersOf(d) : job'[i] = job[i]
      BY <2>1, <2>4, WorkerPlace, JobFacts
    <3> QED BY <1>0, <2>2, <3>1, <3>2, BookKept
  <2> QED BY <2>3, <2>4
<1>2. ASSUME NEW j \in Jobs \ Workers, Attempt(j) PROVE BookOf(d)'
  <2>1. load' = load /\ aborted' = aborted /\ stopped' = stopped
    BY <1>2 DEF Attempt, NoReadback
  <2>2. \A i \in WorkersOf(d) : job'[i] = job[i]
    BY <1>2, JobFacts DEF Attempt, Core, Typed
  <2> QED BY <1>0, <2>1, <2>2, BookKept
<1>3. ASSUME NEW e \in Downloads, DownloadActs(e) PROVE BookOf(d)'
  <2>1. CASE e = d
    BY <1>0, <1>3, <2>1, DownloadBook
  <2>2. CASE e # d
    BY <1>0, <1>3, <2>2, OthersLeft, BookKept
  <2> QED BY <2>1, <2>2
<1>4. CASE CooldownEnds \/ UNCHANGED vars
  <2>1. load' = load /\ job' = job /\ aborted' = aborted /\ stopped' = stopped
    BY <1>4 DEF CooldownEnds, NoReadback, vars
  <2> QED BY <1>0, <2>1, BookKept
<1> QED BY <1>1, <1>2, <1>3, <1>4, Steps

LEMMA BooksInit ==
  ASSUME Init
  PROVE  Books
<1> SUFFICES ASSUME NEW d \in Downloads PROVE BookOf(d)
  BY DEF Books
<1>1. /\ load[d].at = "load" /\ load[d].next = 1 /\ load[d].valid = {} /\ ~load[d].renamed
      /\ ~load[d].temp /\ load[d].result = "none" /\ aborted = {}
      /\ \A j \in Jobs : job[j].at = "idle" /\ SegmentsOf[d] \in Nat \ {0}
  BY SegmentedAssumption DEF Init, Readback!Init, Idle
<1>2. AtWork(d) = {} /\ Taken(d) = {}
  BY <1>1, JobFacts DEF AtWork, Taken, Busy
<1>3. SegmentsOf[d] \in Nat \ {0}
  BY SegmentedAssumption
<1> QED BY <1>1, <1>2, <1>3 DEF BookOf, InHand, Assigned, Around

(***************************************************************************)
(* A file that downloadWithProxySegments() has renamed to its target has   *)
(* every segment read back and accepted, unless somebody stopped the       *)
(* download.                                                               *)
(***************************************************************************)
THEOREM FilesAreWhole == Spec => []WholeUnlessStopped
<1> DEFINE I == Core /\ Books
<1>1. Init => I
  BY CoreInit, BooksInit
<1>2. I /\ [Next]_vars => I'
  BY CoreStep, BooksStep
<1>3. I => WholeUnlessStopped
  BY DEF Books, BookOf, Around, WholeUnlessStopped
<1> HIDE DEF I
<1> QED BY <1>1, <1>2, <1>3, PTL DEF Spec

-----------------------------------------------------------------------------
(***************************************************************************)
(* The progress of a download is the number of writes in its file.         *)
(***************************************************************************)

ExactOf(d) == load[d].progress = Cardinality(Held(d))

\* The writes a+1, ..., b of a segment.
Row(s, a, b) == {s} \X ((a + 1)..b)

\* A row has as many writes as it is long, and adds as many to a set it has none of.
LEMMA RowCount ==
  ASSUME NEW s, NEW a \in Nat, NEW b \in Nat, a <= b
  PROVE  IsFiniteSet(Row(s, a, b)) /\ Cardinality(Row(s, a, b)) = b - a
<1>1. IsFiniteSet({s}) /\ Cardinality({s}) = 1
  BY FS_Singleton
<1>2. IsFiniteSet((a + 1)..b) /\ Cardinality((a + 1)..b) = b - a
  <2>1. /\ IsFiniteSet((a + 1)..b)
        /\ Cardinality((a + 1)..b) = IF a + 1 > b THEN 0 ELSE b - (a + 1) + 1
    BY FS_Interval
  <2> QED BY <2>1
<1>3. /\ IsFiniteSet({s} \X ((a + 1)..b))
      /\ Cardinality({s} \X ((a + 1)..b)) = Cardinality({s}) * Cardinality((a + 1)..b)
  BY <1>1, <1>2, FS_Product
<1>4. Cardinality({s} \X ((a + 1)..b)) = b - a
  BY <1>1, <1>2, <1>3
<1> QED BY <1>3, <1>4 DEF Row

LEMMA RowAdds ==
  ASSUME NEW S, IsFiniteSet(S), NEW s, NEW a \in Nat, NEW b \in Nat, a <= b, S \intersect Row(s, a, b) = {}
  PROVE  Cardinality(S \union Row(s, a, b)) = Cardinality(S) + (b - a)
<1> DEFINE R == Row(s, a, b)
<1>1. IsFiniteSet(R) /\ Cardinality(R) = b - a /\ S \intersect R = {}
  BY RowCount
<1> HIDE DEF R
<1>2. Cardinality(S \union R) = Cardinality(S) + Cardinality(R) - Cardinality(S \intersect R)
  BY <1>1, FS_Union
<1>3. Cardinality(S \intersect R) = 0
  BY <1>1, FS_EmptySet
<1>4. Cardinality(S) \in Nat
  BY FS_CardinalityType
<1>5. Cardinality(S \union R) = Cardinality(S) + (b - a)
  BY <1>1, <1>2, <1>3, <1>4
<1> QED BY <1>5 DEF R

\* A file has room for all writes.
LEMMA FileFinite ==
  ASSUME NEW d \in Downloads, NEW H \in SUBSET ((1..SegmentsOf[d]) \X (1..Bytes))
  PROVE  IsFiniteSet(H) /\ Cardinality(H) \in Nat /\ Cardinality(H) <= Bytes * SegmentsOf[d]
<1> DEFINE n == SegmentsOf[d]
           File == (1..n) \X (1..Bytes)
<1>1. n \in Nat \ {0} /\ Bytes \in Nat \ {0}
  BY SegmentedAssumption
<1>2. IsFiniteSet(1..n) /\ Cardinality(1..n) = n
  <2>1. n \in Int /\ 1 \in Int /\ ~(1 > n) /\ n - 1 + 1 = n
    BY <1>1
  <2>2. IsFiniteSet(1..n) /\ Cardinality(1..n) = IF 1 > n THEN 0 ELSE n - 1 + 1
    BY <2>1, FS_Interval, Zenon
  <2> QED BY <2>1, <2>2
<1>3. IsFiniteSet(1..Bytes) /\ Cardinality(1..Bytes) = Bytes
  <2>1. Bytes \in Int /\ 1 \in Int /\ ~(1 > Bytes) /\ Bytes - 1 + 1 = Bytes
    BY <1>1
  <2>2. IsFiniteSet(1..Bytes) /\ Cardinality(1..Bytes) = IF 1 > Bytes THEN 0 ELSE Bytes - 1 + 1
    BY <2>1, FS_Interval, Zenon
  <2> QED BY <2>1, <2>2
<1> HIDE DEF n
<1>4. IsFiniteSet(File) /\ Cardinality(File) = n * Bytes
  BY Zenon, <1>2, <1>3, FS_Product
<1>5. H \in SUBSET File
  BY DEF n
<1> HIDE DEF File
<1>6. IsFiniteSet(H) /\ Cardinality(H) <= Cardinality(File) /\ Cardinality(H) \in Nat
  BY <1>4, <1>5, FS_Subset, FS_CardinalityType
<1>7. n * Bytes = Bytes * n
  BY <1>1
<1> QED BY <1>4, <1>6, <1>7 DEF n

\* Only who is at work has written something of a segment that is not accepted.
LEMMA WritersAtWork ==
  ASSUME Core, NEW d \in Downloads, NEW i \in WorkersOf(d)
  PROVE  /\ i \in Jobs /\ job[i].part \in Nat /\ job[i].segment \in Nat
         /\ job[i].part # 0 => i \in AtWork(d)
<1>1. i \in Jobs
  BY JobFacts
<1>2. JobFits(pool, i, job[i]) /\ job[i] \in JobStates
  BY <1>1, CoreFacts
<1>3. job[i].part \in Nat /\ job[i].segment \in Nat
  BY <1>2 DEF JobStates
<1>4. job[i].part # 0 => job[i].at \in Busy
  BY <1>2 DEF JobFits, Whole, Busy
<1> QED BY <1>1, <1>3, <1>4 DEF AtWork

\* What a file holds is what it held.
LEMMA SameHeld ==
  ASSUME Core, Core', NEW d \in Downloads, ExactOf(d),
         load'[d].valid = load[d].valid, load'[d].progress = load[d].progress,
         \A i \in WorkersOf(d) :
           \/ job'[i].segment = job[i].segment /\ job'[i].part = job[i].part
           \/ job'[i].part = 0 /\ job[i].part = 0
  PROVE  ExactOf(d)'
<1>1. Held(d)' = Held(d)
  <2> SUFFICES ASSUME NEW w \in (1..SegmentsOf[d]) \X (1..Bytes)
               PROVE  (\E i \in WorkersOf(d) : job'[i].segment = w[1] /\ w[2] <= job'[i].part)
                      <=> \E i \in WorkersOf(d) : job[i].segment = w[1] /\ w[2] <= job[i].part
    BY DEF Held
  <2>1. w[2] \in Nat /\ ~(w[2] <= 0)
    BY SegmentedAssumption
  <2> QED BY <2>1
<1> QED BY <1>1 DEF ExactOf

\* What the file of a worker's download holds of other segments, and of its own.
LEMMA HeldOfOthers ==
  ASSUME Core, Books, NEW j \in Workers, NEW d, d = DownloadOf(j), NEW r, Becomes(j, r), Kind(j, r),
         job[j].at \in Busy, r.at \in Busy, r.segment = job[j].segment, r.part \in Nat,
         load'[d].valid = load[d].valid,
         NEW w \in (1..SegmentsOf[d]) \X (1..Bytes)
  PROVE  /\ w[1] # job[j].segment => (w \in Held(d)' <=> w \in Held(d))
         /\ w[1] = job[j].segment => (w \in Held(d) <=> w[2] <= job[j].part)
         /\ w[1] = job[j].segment => (w \in Held(d)' <=> w[2] <= r.part)
<1> DEFINE s == job[j].segment
<1>1. /\ d \in Downloads /\ j \in WorkersOf(d) /\ j \in AtWork(d) /\ j \in Jobs
      /\ job'[j] = r /\ \A i \in WorkersOf(d) \ {j} : job'[i] = job[i]
  BY WorkerPlace, JobFacts DEF AtWork
<1>2. s \notin load[d].valid /\ \A i \in AtWork(d) : job[i].segment = s => i = j
  BY <1>1 DEF Books, BookOf, InHand
<1>3. \A i \in WorkersOf(d) : job[i].part \in Nat /\ (job[i].part # 0 => i \in AtWork(d))
  BY <1>1, WritersAtWork
<1>4. w[2] \in Nat /\ w[2] # 0 /\ w = <<w[1], w[2]>>
  BY SegmentedAssumption
<1>5. w \in Held(d) <=> \/ w[1] \in load[d].valid
                        \/ \E i \in WorkersOf(d) : job[i].segment = w[1] /\ w[2] <= job[i].part
  BY DEF Held
<1>6. w \in Held(d)' <=> \/ w[1] \in load[d].valid
                         \/ \E i \in WorkersOf(d) : job'[i].segment = w[1] /\ w[2] <= job'[i].part
  BY DEF Held
<1>7. \A i \in WorkersOf(d) \ {j} : ~(job[i].segment = s /\ w[2] <= job[i].part)
  BY <1>2, <1>3, <1>4
<1>8. CASE w[1] # s
  BY <1>1, <1>5, <1>6, <1>8
<1>9. CASE w[1] = s
  <2>1. w \in Held(d) <=> w[2] <= job[j].part
    BY <1>1, <1>2, <1>5, <1>7, <1>9
  <2>2. w \in Held(d)' <=> w[2] <= r.part
    BY <1>1, <1>2, <1>6, <1>7, <1>9
  <2> QED BY <1>9, <2>1, <2>2
<1> QED BY <1>8, <1>9

\* A flush adds to the file what it adds to the progress.
LEMMA WritesExact ==
  ASSUME Core, Core', Books, NEW j \in Workers, NEW d, d = DownloadOf(j), ExactOf(d),
         NEW r, Becomes(j, r), Writes(j, r)
  PROVE  ExactOf(d)'
<1> DEFINE s == job[j].segment
           a == job[j].part
           b == r.part
           File == (1..SegmentsOf[d]) \X (1..Bytes)
           full == Bytes * SegmentsOf[d]
<1>1. /\ d \in Downloads /\ j \in WorkersOf(d) /\ Kind(j, r)
      /\ job[j].at \in Busy /\ r.at \in Busy /\ r.segment = s
      /\ b \in 1..Bytes /\ b > a /\ a \in Nat
  BY WorkerPlace, JobFacts, CoreFacts DEF Writes, Kind, Busy
<1>2. Bytes \in Nat \ {0} /\ SegmentsOf[d] \in Nat \ {0} /\ b \in Nat /\ a <= b /\ load[d].progress \in Nat
  BY <1>1, SegmentedAssumption, LoadTyped DEF Core
<1>3. load'[d].valid = load[d].valid
  BY <1>1, KindWrites DEF Writes
<1>4. load'[d].progress = Min({load[d].progress + (b - a), full})
  BY <1>1 DEF Writes, Progress, Core, Typed, Loads
<1>5. s \in 1..SegmentsOf[d]
  <2>1. j \in AtWork(d)
    BY <1>1 DEF AtWork
  <2> QED BY <1>1, <1>2, <2>1 DEF Books, BookOf, InHand, Taken
<1>6. Row(s, a, b) \subseteq File
  BY <1>1, <1>2, <1>5 DEF Row
<1>7. Held(d) \in SUBSET File /\ Held(d)' \in SUBSET File
  BY DEF Held
<1>8. \A w \in File : w \in Row(s, a, b) <=> w[1] = s /\ w[2] > a /\ w[2] <= b
  BY <1>1, <1>2 DEF Row
<1>9. \A w \in File : /\ w[1] # s => (w \in Held(d)' <=> w \in Held(d))
                      /\ w[1] = s => (w \in Held(d) <=> w[2] <= a)
                      /\ w[1] = s => (w \in Held(d)' <=> w[2] <= b)
  BY <1>1, <1>2, <1>3, HeldOfOthers
<1>10. \A w \in File : w[2] \in Nat
  BY <1>2
<1> HIDE DEF File, s, a, b
<1>11. Held(d)' = Held(d) \union Row(s, a, b) /\ Held(d) \intersect Row(s, a, b) = {}
  <2>1. \A w \in File : w \in Held(d)' <=> w \in Held(d) \/ w \in Row(s, a, b)
    BY <1>1, <1>2, <1>8, <1>9, <1>10
  <2>2. \A w \in File : ~(w \in Held(d) /\ w \in Row(s, a, b))
    BY <1>1, <1>2, <1>8, <1>9, <1>10
  <2> QED BY <1>6, <1>7, <2>1, <2>2
<1>12. IsFiniteSet(Held(d)) /\ Cardinality(Held(d)') <= full /\ Cardinality(Held(d)') \in Nat
  <2>1. Held(d) \in SUBSET ((1..SegmentsOf[d]) \X (1..Bytes))
        /\ Held(d)' \in SUBSET ((1..SegmentsOf[d]) \X (1..Bytes))
    BY <1>7 DEF File
  <2> QED BY <1>1, <2>1, FileFinite
<1>13. Cardinality(Held(d)') = Cardinality(Held(d)) + (b - a)
  BY <1>2, <1>11, <1>12, RowAdds, <1>1
<1>14. load[d].progress + (b - a) = Cardinality(Held(d)')
  BY <1>13 DEF ExactOf
<1>15. full \in Nat
  BY <1>2
<1> HIDE DEF full
<1>16. Min({Cardinality(Held(d)'), full}) = Cardinality(Held(d)')
  BY <1>12, <1>15, MinPair
<1> QED BY <1>4, <1>14, <1>16 DEF ExactOf

\* A failed attempt takes from the progress what it takes from the file.
LEMMA TakesBackExact ==
  ASSUME Core, Core', Books, NEW j \in Workers, NEW d, d = DownloadOf(j), ExactOf(d),
         NEW r, Becomes(j, r), TakesBack(j, r)
  PROVE  ExactOf(d)'
<1> DEFINE s == job[j].segment
           a == job[j].part
           File == (1..SegmentsOf[d]) \X (1..Bytes)
<1>1. /\ d \in Downloads /\ j \in WorkersOf(d) /\ Kind(j, r)
      /\ job[j].at \in Busy /\ r.at \in Busy /\ r.segment = s /\ r.part = 0 /\ a \in Nat
      /\ r.at # "next" /\ job[j].at # "next"
  <2>1. /\ job[j].at \in Busy /\ r.at \in Busy /\ r.segment = s /\ r.part = 0
        /\ r.at # "next" /\ job[j].at # "next" /\ Kind(j, r)
    BY DEF TakesBack, Kind, Busy
  <2>2. d \in Downloads /\ j \in WorkersOf(d) /\ j \in Jobs
    BY <2>1, WorkerPlace
  <2>3. a \in Nat
    BY <2>2, CoreFacts
  <2> QED BY <2>1, <2>2, <2>3
<1>2. /\ Bytes \in Nat \ {0} /\ SegmentsOf[d] \in Nat \ {0} /\ load[d].progress \in Nat /\ 0 <= a
      /\ a <= Bytes
  <2>1. JobFits(pool, j, job[j])
    BY <1>1, JobFacts, CoreFacts
  <2> QED BY <1>1, <2>1, SegmentedAssumption, LoadTyped DEF Core, JobFits
<1>3. load'[d].valid = load[d].valid
  BY <1>1, KindWrites
<1>4. load'[d].progress = Max({0, load[d].progress - a})
  BY <1>1 DEF TakesBack, Core, Typed, Loads
<1>5. s \in 1..SegmentsOf[d]
  <2>1. j \in AtWork(d)
    BY <1>1 DEF AtWork
  <2> QED BY <1>1, <1>2, <2>1 DEF Books, BookOf, InHand, Taken
<1>6. Row(s, 0, a) \subseteq File
  BY <1>1, <1>2, <1>5 DEF Row
<1>7. Held(d) \in SUBSET File /\ Held(d)' \in SUBSET File
  BY DEF Held
<1>8. \A w \in File : w \in Row(s, 0, a) <=> w[1] = s /\ w[2] > 0 /\ w[2] <= a
  BY <1>1, <1>2 DEF Row
<1>9. \A w \in File : /\ w[1] # s => (w \in Held(d)' <=> w \in Held(d))
                      /\ w[1] = s => (w \in Held(d) <=> w[2] <= a)
                      /\ w[1] = s => (w \in Held(d)' <=> w[2] <= r.part)
  BY <1>1, <1>2, <1>3, HeldOfOthers
<1>10. \A w \in File : w[2] \in Nat /\ w[2] > 0
  BY <1>2
<1> HIDE DEF File, s, a
<1>11. Held(d) = Held(d)' \union Row(s, 0, a) /\ Held(d)' \intersect Row(s, 0, a) = {}
  <2>1. \A w \in File : w \in Held(d) <=> w \in Held(d)' \/ w \in Row(s, 0, a)
    BY <1>1, <1>2, <1>8, <1>9, <1>10
  <2>2. \A w \in File : ~(w \in Held(d)' /\ w \in Row(s, 0, a))
    BY <1>1, <1>2, <1>8, <1>9, <1>10
  <2> QED BY <1>6, <1>7, <2>1, <2>2
<1>12. IsFiniteSet(Held(d)') /\ Cardinality(Held(d)') \in Nat
  <2>1. Held(d)' \in SUBSET ((1..SegmentsOf[d]) \X (1..Bytes))
    BY <1>7 DEF File
  <2> QED BY <1>1, <2>1, FileFinite
<1>13. Cardinality(Held(d)) = Cardinality(Held(d)') + (a - 0)
  <2> DEFINE H == Held(d)'
  <2>1. IsFiniteSet(H) /\ H \intersect Row(s, 0, a) = {} /\ a \in Nat /\ 0 <= a /\ 0 \in Nat
    BY <1>1, <1>2, <1>11, <1>12
  <2> HIDE DEF H
  <2>2. Cardinality(H \union Row(s, 0, a)) = Cardinality(H) + (a - 0)
    BY <2>1, RowAdds
  <2>3. Held(d) = H \union Row(s, 0, a)
    BY <1>11 DEF H
  <2>4. Cardinality(Held(d)) = Cardinality(H) + (a - 0)
    BY <2>2, <2>3
  <2> QED BY <2>4 DEF H
<1>14. load[d].progress - a = Cardinality(Held(d)')
  BY <1>1, <1>12, <1>13 DEF ExactOf
<1>15. Max({0, Cardinality(Held(d)')}) = Cardinality(Held(d)')
  BY <1>12, MaxPair
<1> QED BY <1>4, <1>14, <1>15 DEF ExactOf

\* An accepted segment stays in the file, and in the progress.
LEMMA AcceptsExact ==
  ASSUME Core, Core', Books, NEW j \in Workers, NEW d, d = DownloadOf(j), ExactOf(d),
         NEW r, Becomes(j, r), Accepts(j, r)
  PROVE  ExactOf(d)'
<1> DEFINE s == job[j].segment
<1>1. /\ d \in Downloads /\ j \in WorkersOf(d) /\ Kind(j, r) /\ j \in Jobs
      /\ job'[j] = r /\ \A i \in WorkersOf(d) \ {j} : job'[i] = job[i]
      /\ job[j].part = Bytes /\ r.part = 0 /\ r.at = "next" /\ job[j].at \in Busy
  <2>1. Kind(j, r)
    BY DEF Kind
  <2>2. /\ d \in Downloads /\ j \in WorkersOf(d) /\ j \in Jobs /\ job'[j] = r
        /\ \A i \in WorkersOf(d) \ {j} : job'[i] = job[i]
    BY <2>1, WorkerPlace, JobFacts
  <2> QED BY <2>1, <2>2 DEF Accepts, Busy, Whole
<1>2. load'[d].valid = load[d].valid \union {s}
  <2>1. load'[d].valid = IF r.at = "next" THEN load[d].valid \union {job[j].segment} ELSE load[d].valid
    BY <1>1, KindWrites
  <2> QED BY <1>1, <2>1
<1>3. load'[d].progress = load[d].progress
  <2>1. ~Writes(j, r) /\ ~TakesBack(j, r)
    BY <1>1 DEF Writes, TakesBack
  <2> QED BY <1>1, <2>1, KindWrites
<1>4. Held(d)' = Held(d)
  <2> SUFFICES ASSUME NEW w \in (1..SegmentsOf[d]) \X (1..Bytes)
               PROVE  \/ w[1] \in load'[d].valid
                      \/ \E i \in WorkersOf(d) : job'[i].segment = w[1] /\ w[2] <= job'[i].part
                      <=> \/ w[1] \in load[d].valid
                          \/ \E i \in WorkersOf(d) : job[i].segment = w[1] /\ w[2] <= job[i].part
    BY DEF Held
  <2>1. w[2] \in Nat /\ w[2] <= Bytes /\ ~(w[2] <= 0)
    BY SegmentedAssumption
  <2>2. ~(w[2] <= job'[j].part) /\ w[2] <= job[j].part
    BY <1>1, <2>1
  <2> QED BY <1>1, <1>2, <2>2
<1> QED BY <1>3, <1>4 DEF ExactOf

\* Whatever a worker does, progress and file agree after it.
LEMMA WorkerExact ==
  ASSUME Core, Core', Books, NEW j \in Workers, NEW d, d = DownloadOf(j), ExactOf(d),
         NEW r, Becomes(j, r), Kind(j, r)
  PROVE  ExactOf(d)'
<1>1. CASE Carries(j, r) \/ Takes(j, r) \/ Leaves(j, r)
  <2>1. /\ d \in Downloads /\ j \in WorkersOf(d) /\ j \in Jobs /\ job'[j] = r
        /\ \A i \in WorkersOf(d) \ {j} : job'[i] = job[i]
    BY WorkerPlace, JobFacts
  <2>2. r.at # "next"
    BY <1>1 DEF Carries, Takes, Leaves, Busy
  <2>3. load'[d].valid = load[d].valid
    <3>1. load'[d].valid = IF r.at = "next" THEN load[d].valid \union {job[j].segment}
                           ELSE load[d].valid
      BY KindWrites
    <3> QED BY <2>2, <3>1
  <2>4. load'[d].progress = load[d].progress
    <3>1. load' = load \/ load' = [load EXCEPT ![d].next = @ + 1]
      BY <1>1 DEF Carries, Takes, Leaves
    <3> QED BY <2>1, <3>1 DEF Core, Typed, Loads
  <2>5. \/ r.segment = job[j].segment /\ r.part = job[j].part
        \/ r.part = 0 /\ job[j].part = 0
    <3>1. CASE Carries(j, r)
      BY <3>1 DEF Carries
    <3>2. CASE Takes(j, r) \/ Leaves(j, r)
      BY <2>1, <3>2, CoreFacts DEF Takes, Leaves, JobFits, Whole
    <3> QED BY <1>1, <3>1, <3>2
  <2> QED BY <2>1, <2>3, <2>4, <2>5, SameHeld
<1>2. CASE Writes(j, r)
  BY <1>2, WritesExact
<1>3. CASE TakesBack(j, r)
  BY <1>3, TakesBackExact
<1>4. CASE Accepts(j, r)
  BY <1>4, AcceptsExact
<1> QED BY <1>1, <1>2, <1>3, <1>4 DEF Kind

\* A file that is removed takes all progress with it.
LEMMA CleanupExact ==
  ASSUME Core, Core', Books, NEW d \in Downloads, ExactOf(d), Cleanup(d)
  PROVE  ExactOf(d)'
<1> DEFINE n == IF load[d].temp THEN 0 ELSE load[d].progress
<1>1. /\ load[d].at = "cleanup" /\ job' = job /\ load \in [Downloads -> Loads] /\ load[d] \in Loads
      /\ load' = [load EXCEPT ![d].at = "ending", ![d].temp = FALSE, ![d].valid = {},
                              ![d].progress = n]
  BY DEF Cleanup, Core, Typed
<1>2. \A i \in WorkersOf(d) : job[i].part = 0
  <2> SUFFICES ASSUME NEW i \in WorkersOf(d) PROVE job[i].part = 0
    OBVIOUS
  <2>1. PICK k \in 1..Connections : i = <<d, k>>
    BY JobFacts DEF Workers, DownloadOf
  <2>2. job[i].at = "idle"
    BY <1>1, <2>1 DEF Core, Stages, StageOf
  <2> QED BY <2>2, WritersAtWork DEF AtWork, Busy
<1>3. \A w \in (1..SegmentsOf[d]) \X (1..Bytes) : ~(w[2] <= 0)
  BY SegmentedAssumption
<1>4. ~load[d].temp => load[d].progress = 0
  <2> SUFFICES ASSUME ~load[d].temp PROVE load[d].progress = 0
    OBVIOUS
  <2>1. load[d].valid = {}
    BY <1>1 DEF Books, BookOf, Around
  <2>2. Held(d) = {}
    BY <1>2, <1>3, <2>1 DEF Held
  <2> QED BY <2>2, FS_EmptySet DEF ExactOf
<1>5. n = 0
  BY <1>4
<1> HIDE DEF n
<1>6. load'[d].valid = {} /\ load'[d].progress = 0
  BY <1>1, <1>5 DEF Loads
<1>7. Held(d)' = {}
  BY <1>1, <1>2, <1>3, <1>6 DEF Held
<1> QED BY <1>6, <1>7, FS_EmptySet DEF ExactOf

\* No other action of a download counts anything.
LEMMA OnlyCleanupCounts ==
  ASSUME Core, NEW d \in Downloads, DownloadActs(d), ~Cleanup(d)
  PROVE  load'[d].valid = load[d].valid /\ load'[d].progress = load[d].progress
<1>1. load \in [Downloads -> Loads] /\ load[d] \in Loads
  BY DEF Core, Typed
<1>2. ASSUME NEW at, NEW result, ProbeLeaves(d, at, result)
      PROVE  load'[d].valid = load[d].valid /\ load'[d].progress = load[d].progress
  BY <1>1, <1>2 DEF ProbeLeaves, Loads
<1>3. CASE \/ ProbeOk(d) \/ ProbeRefused(d) \/ ProbeCut(d) \/ ProbeEnds(d)
  BY Zenon, <1>2, <1>3 DEF ProbeOk, ProbeRefused, ProbeCut, ProbeEnds
<1>4. CASE ProbeFails(d) \/ Cascade(d) \/ Stop(d)
  BY <1>4 DEF ProbeFails, Cascade, Stop
<1>5. CASE Loaded(d)
  BY <1>1, <1>5 DEF Loaded, Loads
<1>6. CASE NoList(d)
  BY <1>1, <1>6 DEF NoList, Loads
<1>7. CASE Prepared(d)
  <2>1. \/ load' = [load EXCEPT ![d].at = "allocate"]
        \/ \E result : load' = [load EXCEPT ![d].at = "ending", ![d].result = result]
    BY Zenon, <1>7 DEF Prepared
  <2> QED BY <1>1, <2>1 DEF Loads
<1>8. CASE Allocated(d)
  <2>1. CASE load' = [load EXCEPT ![d].at = "segments", ![d].temp = TRUE]
    BY <1>1, <2>1 DEF Loads
  <2>2. ASSUME NEW temp, NEW result,
               load' = [load EXCEPT ![d].at = "cleanup", ![d].temp = temp, ![d].result = result]
        PROVE  load'[d].valid = load[d].valid /\ load'[d].progress = load[d].progress
    BY <1>1, <2>2 DEF Loads
  <2> QED BY Zenon, <1>8, <2>1, <2>2 DEF Allocated
<1>9. CASE Settled(d)
  <2>1. \/ load' = [load EXCEPT ![d].at = "commit"]
        \/ \E result : load' = [load EXCEPT ![d].at = "cleanup", ![d].result = result]
    BY <1>9, SettledLoad
  <2> QED BY <1>1, <2>1 DEF Loads
<1>10. CASE Commit(d)
  <2>1. \/ load' = [load EXCEPT ![d].at = "ending", ![d].temp = FALSE,
                                ![d].renamed = TRUE, ![d].result = "completed"]
        \/ \E result : load' = [load EXCEPT ![d].at = "cleanup", ![d].result = result]
    BY <1>10 DEF Commit
  <2> QED BY <1>1, <2>1 DEF Loads
<1>11. CASE Ended(d)
  <2>1. \/ load' = [load EXCEPT ![d].at = "load", ![d].run = 2, ![d].next = 1, ![d].result = "none"]
        \/ \E result : load' = [load EXCEPT ![d].at = "over", ![d].result = result]
    BY <1>1, <1>11 DEF Ended
  <2> QED BY <1>1, <2>1 DEF Loads
<1> QED BY <1>3, <1>4, <1>5, <1>6, <1>7, <1>8, <1>9, <1>10, <1>11 DEF DownloadActs, DownloadHears

\* Nor does it touch what a worker has written.
LEMMA WritersLeft ==
  ASSUME Core, Core', NEW d \in Downloads, DownloadActs(d), NEW i \in WorkersOf(d)
  PROVE  job'[i] = job[i] \/ (job'[i].part = 0 /\ job[i].part = 0)
<1>1. i \in Jobs /\ i # ProbeOf(d) /\ job \in [Jobs -> JobStates]
  BY JobFacts DEF Core, Typed
<1>2. CASE \/ ProbeOk(d) \/ ProbeRefused(d) \/ ProbeFails(d) \/ ProbeCut(d) \/ ProbeEnds(d)
           \/ Loaded(d)
  BY <1>1, <1>2, ProbeAlone
<1>3. CASE Allocated(d)
  <2>1. load[d].at = "allocate"
    BY Zenon, <1>3 DEF Allocated
  <2>2. PICK k \in 1..Connections : i = <<d, k>>
    BY JobFacts DEF Workers, DownloadOf
  <2>3. job[i].at = "idle"
    BY <2>1, <2>2 DEF Core, Stages, StageOf
  <2>4. job[i].part = 0
    BY <2>3, WritersAtWork DEF AtWork, Busy
  <2>5. job'[i] = job[i] \/ job'[i] = [Idle EXCEPT !.at = "next"]
    BY Zenon, <1>1, <1>3 DEF Allocated
  <2> QED BY <2>4, <2>5 DEF Idle
<1>4. CASE Settled(d)
  <2>1. job[i].at \in {"done", "failed"} /\ job'[i] = Idle
    BY <1>1, <1>4 DEF Settled
  <2>2. job[i].part = 0
    BY <1>1, <2>1, CoreFacts DEF JobFits, Whole
  <2> QED BY <2>1, <2>2 DEF Idle
<1>5. CASE NoList(d) \/ Prepared(d) \/ Commit(d) \/ Cleanup(d) \/ Ended(d) \/ Cascade(d) \/ Stop(d)
  BY Zenon, <1>5 DEF NoList, Prepared, Commit, Cleanup, Ended, Cascade, Stop
<1> QED BY <1>2, <1>3, <1>4, <1>5 DEF DownloadActs, DownloadHears

Exact == \A d \in Downloads : ExactOf(d)

\* Every step keeps progress and file in agreement.
LEMMA ExactStep ==
  ASSUME Core, Books, Exact, [Next]_vars
  PROVE  Exact'
<1> SUFFICES ASSUME NEW d \in Downloads PROVE ExactOf(d)'
  BY DEF Exact
<1>0. Core' /\ ExactOf(d)
  BY CoreStep DEF Exact
<1>1. ASSUME NEW j \in Workers, Attempt(j) \/ WorkerActs(j) PROVE ExactOf(d)'
  <2>1. PICK r : Becomes(j, r) /\ Kind(j, r)
    BY <1>1, WorkerHasAKind
  <2>2. CASE DownloadOf(j) = d
    BY <1>0, <2>1, <2>2, WorkerExact
  <2>3. CASE DownloadOf(j) # d
    <3>1. load'[d] = load[d]
      <4>1. \A e \in Downloads \ {DownloadOf(j)} : load'[e] = load[e]
        BY <2>1, KindWrites
      <4> QED BY <2>3, <4>1
    <3>2. \A i \in WorkersOf(d) : job'[i] = job[i]
      BY <2>1, <2>3, WorkerPlace, JobFacts
    <3> QED BY <1>0, <3>1, <3>2, SameHeld
  <2> QED BY <2>2, <2>3
<1>2. ASSUME NEW j \in Jobs \ Workers, Attempt(j) PROVE ExactOf(d)'
  <2>1. load' = load
    BY <1>2 DEF Attempt
  <2>2. \A i \in WorkersOf(d) : job'[i] = job[i]
    BY <1>2, JobFacts DEF Attempt, Core, Typed
  <2> QED BY <1>0, <2>1, <2>2, SameHeld
<1>3. ASSUME NEW e \in Downloads, DownloadActs(e) PROVE ExactOf(d)'
  <2>1. CASE e # d
    <3>1. load'[d] = load[d] /\ \A i \in WorkersOf(d) : job'[i] = job[i]
      BY <1>3, <2>1, OthersLeft
    <3> QED BY <1>0, <3>1, SameHeld
  <2>2. CASE e = d /\ Cleanup(d)
    BY <1>0, <2>2, CleanupExact
  <2>3. CASE e = d /\ ~Cleanup(d)
    <3>1. load'[d].valid = load[d].valid /\ load'[d].progress = load[d].progress
      BY <1>3, <2>3, OnlyCleanupCounts
    <3>2. \A i \in WorkersOf(d) : job'[i] = job[i] \/ (job'[i].part = 0 /\ job[i].part = 0)
      BY <1>0, <1>3, <2>3, WritersLeft
    <3> QED BY <1>0, <3>1, <3>2, SameHeld
  <2> QED BY <2>1, <2>2, <2>3
<1>4. CASE CooldownEnds \/ UNCHANGED vars
  <2>1. load' = load /\ job' = job
    BY <1>4 DEF CooldownEnds, vars
  <2> QED BY <1>0, <2>1, SameHeld
<1> QED BY <1>1, <1>2, <1>3, <1>4, Steps

LEMMA ExactInit ==
  ASSUME Init
  PROVE  Exact
<1> SUFFICES ASSUME NEW d \in Downloads PROVE ExactOf(d)
  BY DEF Exact
<1>1. load[d].progress = 0 /\ load[d].valid = {} /\ \A j \in Jobs : job[j].part = 0
  BY DEF Init, Idle
<1>2. \A i \in WorkersOf(d) : job[i].part = 0
  BY <1>1, JobFacts
<1>3. \A w \in (1..SegmentsOf[d]) \X (1..Bytes) : ~(w[2] <= 0)
  BY SegmentedAssumption
<1>4. Held(d) = {}
  BY <1>1, <1>2, <1>3 DEF Held
<1> QED BY <1>1, <1>4, FS_EmptySet DEF ExactOf

(***************************************************************************)
(* The progress a download reports is what its file holds, whatever fails, *)
(* is taken back, is fetched again or is removed.                          *)
(***************************************************************************)
THEOREM ProgressStaysExact == Spec => []ProgressIsExact
<1> DEFINE I == Core /\ Books /\ Exact
<1>1. Init => I
  BY CoreInit, BooksInit, ExactInit
<1>2. I /\ [Next]_vars => I'
  BY CoreStep, BooksStep, ExactStep
<1>3. I => ProgressIsExact
  BY DEF Exact, ExactOf, ProgressIsExact
<1> HIDE DEF I
<1> QED BY <1>1, <1>2, <1>3, PTL DEF Spec

-----------------------------------------------------------------------------
(***************************************************************************)
(* Who waits for a proxy is wanted, and whom the coordinator knows is      *)
(* under way: with the invariants above, the type invariant of the module. *)
(***************************************************************************)

\* Who waits for a proxy has not been told to end.
Waiters == \A j \in Queued(pool) : ~Signalled(j)

\* The coordinator knows the downloads that are under way.
Known == \A d \in Downloads : d \in pool.groups <=> load[d].at \notin {"load", "over"}

Desk == Waiters /\ Known

\* Nobody comes to wait but by asking.
LEMMA NoNewWaiter ==
  ASSUME NEW p, PoolOK(p), NEW q, PoolOK(q), NEW cs, KeptBut(p, q, cs), NEW c \in Queued(q), c \notin cs
  PROVE  c \in Queued(p)
<1>1. c \in Jobs /\ q.lease[c] = None
  BY QueuedIsToSet DEF PoolOK
<1> QED BY <1>1 DEF KeptBut

\* Who asks has not been told to end.
LEMMA AskersAreWanted ==
  ASSUME Core, NEW j \in Workers, Attempt(j) \/ WorkerActs(j), job'[j].at \in Loading
  PROVE  ~Signalled(j) \/ pool' = pool
<1>0. j \in Jobs /\ \A r : Becomes(j, r) => job'[j] = r
  BY JobFacts DEF Becomes, Core, Typed
<1>1. CASE Attempt(j)
  BY <1>1 DEF Attempt
<1>2. CASE NextSegment(j)
  BY <1>0, <1>2, NextSegmentMoves DEF Takes, Leaves, Loading
<1>3. CASE GivesUp(j)
  BY <1>0, <1>3, GivesUpCarries DEF Loading
<1>4. CASE ReadbackRejected(j)
  BY <1>0, <1>4, ReadbackRejectedTakesBack DEF TakesBack, Loading
<1>5. CASE Suspected(j)
  BY <1>0, <1>5, SuspectedMoves DEF TakesBack, Loading
<1>6. CASE CheckRejected(j)
  BY <1>0, <1>6, CheckRejectedTakesBack DEF TakesBack, Loading
<1>7. CASE Flushed(j)
  BY <1>7 DEF Flushed
<1>8. CASE Written(j)
  BY <1>0, <1>8, WrittenWrites DEF Loading
<1>9. CASE FetchFails(j)
  BY <1>0, <1>9, FetchFailsTakesBack DEF TakesBack, Loading
<1>10. CASE PauseEnds(j)
  BY <1>0, <1>10, PauseEndsCarries DEF Loading
<1>11. CASE ReadBack(j)
  BY <1>0, <1>11, ReadBackMoves DEF TakesBack, Accepts, Loading
<1>12. CASE Checked(j)
  BY <1>0, <1>12, CheckedMoves DEF TakesBack, Accepts, Loading
<1> QED BY <1>1, <1>2, <1>3, <1>4, <1>5, <1>6, <1>7, <1>8, <1>9, <1>10, <1>11, <1>12
        DEF WorkerActs, WorkerHears

\* A worker that has been told to end does not come to wait.
LEMMA WorkerDesk ==
  ASSUME Core, Core', Desk, NEW j \in Workers, Attempt(j) \/ WorkerActs(j)
  PROVE  Desk'
<1>1. PICK r : Becomes(j, r) /\ Kind(j, r)
  BY WorkerHasAKind
<1>2. /\ KeptBut(pool, pool', {j}) /\ pool'.groups = pool.groups /\ JobFits(pool', j, r)
      /\ job'[j] = r /\ PoolOK(pool) /\ PoolOK(pool')
  BY <1>1, WorkerPlace DEF Becomes, Core, Settles
<1>3. aborted' = aborted
  BY WorkerActsLeave DEF Attempt, NoReadback
<1>4. \A d \in Downloads : load'[d].at = load[d].at
  BY <1>1, KindOfLoad
<1>5. Known'
  BY <1>2, <1>4 DEF Desk, Known
<1>6. Waiters'
  <2> SUFFICES ASSUME NEW c \in Queued(pool') PROVE ~(DownloadOf(c) \in aborted)
    BY <1>3 DEF Waiters, Signalled
  <2>1. CASE c # j
    <3>1. c \in Queued(pool)
      BY <1>2, <2>1, NoNewWaiter
    <3> QED BY <3>1 DEF Desk, Waiters, Signalled
  <2>2. CASE c = j
    <3>1. job'[j].at \in Loading
      BY <1>2, <2>2 DEF JobFits, In
    <3>2. ~Signalled(j) \/ pool' = pool
      BY <3>1, AskersAreWanted
    <3> QED BY <2>2, <3>2 DEF Desk, Waiters, Signalled
  <2> QED BY <2>1, <2>2
<1> QED BY <1>5, <1>6 DEF Desk

\* What the actions of a probe do to the coordinator.
LEMMA ProbeClear ==
  ASSUME Core, NEW d \in Downloads,
         ProbeOk(d) \/ ProbeRefused(d) \/ ProbeFails(d) \/ ProbeCut(d) \/ ProbeEnds(d)
  PROVE  Clear(pool, pool', ProbeOf(d))
<1> DEFINE j == ProbeOf(d)
           x == ProbeProxy(d)
<1>0. j \in Jobs
  BY JobFacts
<1>1. CASE ProbeOk(d)
  BY <1>1, ProbeWellClear DEF ProbeOk
<1>2. CASE ProbeRefused(d)
  <2>1. ProbeFetches(d)
    BY Zenon, <1>2 DEF ProbeRefused
  <2>2. \A p \in ProbeReleased(d, "certificate") : Clear(pool, p, j)
    BY <2>1, ProbeReleasedClear
  <2>3. \/ pool' \in Proxy!ReleasedWell(pool, j, x)
        \/ \E p \in ProbeReleased(d, "certificate") : pool' \in Reported(p, d, job[j].error)
        \/ pool' \in ProbeReleased(d, "disk")
    BY Zenon, <1>2 DEF ProbeRefused
  <2> QED BY <1>0, <2>1, <2>2, <2>3, ProbeWellClear, ProbeReleasedClear, ClearReported
<1>3. CASE ProbeFails(d)
  <2>1. ProbeFetches(d) /\ x \in Proxies /\ j \notin Queued(pool)
    BY <1>3, ProbeFacts DEF ProbeFails
  <2>2. \A e : \A p \in ProbeReleased(d, e) : Clear(pool, p, j)
    BY <2>1, ProbeReleasedClear
  <2>3. \A p \in Proxy!ReleasedFailed(pool, j, x) : Clear(pool, p, j)
    BY <1>0, <2>1, ReleasedFailedOK, ClearGaveBack DEF Core, Settles
  <2>4. PICK p : Clear(pool, p, j) /\ pool' = Excluding(p, j, x)
    BY <1>3, <2>2, <2>3 DEF ProbeFails
  <2> QED BY <1>0, <2>1, <2>4, ClearExcluding
<1>4. CASE ProbeCut(d)
  BY <1>4, ProbeReleasedClear DEF ProbeCut
<1>5. CASE ProbeEnds(d)
  <2>1. Out(pool, j)
    <3>1. CASE job[j].at = "again"
      BY <1>0, <3>1, CoreFacts, FitsOut DEF Loading
    <3>2. CASE Rejected(j, "fetch")
      BY <1>0, <3>2, OutRejected DEF Core, Rejected
    <3> QED BY <1>5, <3>1, <3>2 DEF ProbeEnds
  <2>2. Clear(pool, pool, j)
    BY <2>1, ClearSame DEF Core
  <2>3. pool' \in Reported(pool, d, job[j].error) \/ pool' = pool
    BY <1>5 DEF ProbeEnds
  <2> QED BY <1>0, <2>2, <2>3, ClearReported
<1> QED BY <1>1, <1>2, <1>3, <1>4, <1>5

\* The downloads that have not begun, or have ended.
Apart(d) == load[d].at \in {"load", "over"}

\* What keeps Desk as it is.
LEMMA WaitersKept ==
  ASSUME Core, Core', Waiters, NEW cs, KeptBut(pool, pool', cs),
         \A c \in cs : c \notin Queued(pool'),
         \A c \in Queued(pool') : DownloadOf(c) \in aborted' => DownloadOf(c) \in aborted
  PROVE  Waiters'
<1> SUFFICES ASSUME NEW c \in Queued(pool') PROVE DownloadOf(c) \notin aborted'
  BY DEF Waiters, Signalled
<1>1. PoolOK(pool) /\ PoolOK(pool')
  BY DEF Core, Settles
<1>2. c \in Queued(pool)
  BY <1>1, NoNewWaiter
<1> QED BY <1>2 DEF Waiters, Signalled

LEMMA KnownKept ==
  ASSUME Known, pool'.groups = pool.groups, \A e \in Downloads : Apart(e)' <=> Apart(e)
  PROVE  Known'
BY DEF Known, Apart

\* The coordinator is not asked.
LEMMA SamePoolDesk ==
  ASSUME Core, Core', Desk, pool' = pool, aborted' = aborted,
         \A e \in Downloads : Apart(e)' <=> Apart(e)
  PROVE  Desk'
<1>1. Waiters'
  BY DEF Desk, Waiters, Signalled
<1>2. pool'.groups = pool.groups
  OBVIOUS
<1> QED BY <1>1, <1>2, KnownKept DEF Desk

\* What the record of one download becomes says on which side it is.
LEMMA OneApart ==
  ASSUME Core, NEW d \in Downloads, \A e \in Downloads \ {d} : load'[e] = load[e],
         load'[d].at \in {"load", "over"} <=> load[d].at \in {"load", "over"}
  PROVE  \A e \in Downloads : Apart(e)' <=> Apart(e)
BY DEF Apart

\* What a probe does keeps it, ...
LEMMA ProbeDesk ==
  ASSUME Core, Core', Desk, NEW d \in Downloads,
         ProbeOk(d) \/ ProbeRefused(d) \/ ProbeFails(d) \/ ProbeCut(d) \/ ProbeEnds(d)
  PROVE  Desk'
<1>1. Clear(pool, pool', ProbeOf(d)) /\ aborted' = aborted
  BY ProbeClear, ProbeAlone
<1>2. Waiters'
  BY <1>1, WaitersKept DEF Clear, Out, Desk
<1>3. load[d].at = "probe"
  <2>1. ProbeFetches(d) \/ ProbeEnds(d)
    BY Zenon DEF ProbeOk, ProbeRefused, ProbeFails, ProbeCut
  <2> QED BY <2>1, ProbeFacts DEF ProbeEnds
<1>4. load'[d].at \in {"probe", "ending", "prepare"}
  <2>0. load \in [Downloads -> Loads]
    BY DEF Core, Typed
  <2>1. CASE load' = load
    BY <1>3, <2>1
  <2>2. ASSUME NEW at \in {"ending", "prepare"}, NEW result, ProbeLeaves(d, at, result)
        PROVE  load'[d].at \in {"probe", "ending", "prepare"}
    BY <2>0, <2>2 DEF ProbeLeaves, Loads
  <2>3. load' = load \/ \E at \in {"ending", "prepare"} : \E result : ProbeLeaves(d, at, result)
    BY Zenon DEF ProbeOk, ProbeRefused, ProbeFails, ProbeCut, ProbeEnds
  <2> QED BY <2>1, <2>2, <2>3
<1>5. \A e \in Downloads \ {d} : load'[e] = load[e]
  BY OthersLeft DEF DownloadActs, DownloadHears
<1>6. \A e \in Downloads : Apart(e)' <=> Apart(e)
  BY <1>3, <1>4, <1>5, OneApart
<1> QED BY <1>1, <1>2, <1>6, KnownKept DEF Clear, Desk

\* ... a download that is loaded comes to be known, ...
LEMMA LoadedDesk ==
  ASSUME Core, Core', Desk, NEW d \in Downloads, Loaded(d)
  PROVE  Desk'
<1> DEFINE j == ProbeOf(d)
<1>1. j \in Jobs /\ load[d].at = "load" /\ aborted' = aborted /\ load'[d].at = "probe"
  BY JobFacts DEF Loaded, NoReadback, Core, Typed
<1>2. PICK q \in Proxy!Limited(pool, LimitOf[d]) : \E p \in Proxy!Registered(q, d) :
        pool' = [p EXCEPT !.avoid[j] = {}]
  BY DEF Loaded
<1>3. PICK p \in Proxy!Registered(q, d) : pool' = [p EXCEPT !.avoid[j] = {}]
  BY <1>2
<1>4. Settles(q) /\ KeptBut(pool, q, {}) /\ q.groups = pool.groups
  BY LimitedOK, SegmentedAssumption DEF Core, Settles
<1>5. Settles(p) /\ KeptBut(q, p, {}) /\ p.groups = q.groups \union {d}
  BY <1>4, RegisteredOK DEF Settles
<1>6. pool'.queue = p.queue /\ pool'.lease = p.lease /\ pool'.groups = p.groups
  BY <1>3, <1>5 DEF Settles, PoolOK, Pools
<1>7. \A c \in Queued(pool') : c \in Queued(pool)
  <2> SUFFICES ASSUME NEW c \in Queued(pool') PROVE c \in Queued(pool)
    OBVIOUS
  <2>1. c \in Queued(p)
    BY <1>6 DEF Queued
  <2>2. c \in Queued(q)
    BY <1>4, <1>5, <2>1, NoNewWaiter DEF Settles
  <2> QED BY <1>4, <2>2, NoNewWaiter DEF Settles, Core
<1>8. Waiters'
  BY <1>1, <1>7 DEF Desk, Waiters, Signalled
<1>9. \A e \in Downloads \ {d} : load'[e] = load[e]
  BY OthersLeft DEF DownloadActs, DownloadHears
<1>10. pool'.groups = pool.groups \union {d}
  BY <1>4, <1>5, <1>6
<1>11. Known'
  BY <1>1, <1>9, <1>10 DEF Desk, Known
<1> QED BY <1>8, <1>11 DEF Desk

\* ... and is forgotten when it ends.
LEMMA EndedDesk ==
  ASSUME Core, Core', Desk, NEW d \in Downloads, Ended(d)
  PROVE  Desk'
<1>1. pool' \in Proxy!Unregistered(pool, d) /\ load'[d].at \in {"load", "over"}
      /\ aborted' \subseteq aborted
  BY DEF Ended, Core, Typed, Loads
<1>2. KeptBut(pool, pool', {}) /\ pool'.groups = pool.groups \ {d}
  BY <1>1, UnregisteredOK DEF Core, Settles
<1>3. Waiters'
  BY <1>1, <1>2, WaitersKept DEF Desk
<1>4. \A e \in Downloads \ {d} : load'[e] = load[e]
  BY OthersLeft DEF DownloadActs, DownloadHears
<1>5. Known'
  BY <1>1, <1>2, <1>4 DEF Desk, Known
<1> QED BY <1>3, <1>5 DEF Desk

\* Who is told to end does not wait any more.
LEMMA DispatchedDesk ==
  ASSUME Core, Core', Desk, NEW d \in Downloads, Dispatched(d), load' = load
  PROVE  Desk'
<1> DEFINE cs == {j \in Jobs : DownloadOf(j) = d}
<1>1. aborted' = aborted \union {d} /\ pool' \in Proxy!Left(pool, cs)
  BY DEF Dispatched, Readback!Abort
<1>2. /\ KeptBut(pool, pool', cs) /\ pool'.groups = pool.groups
      /\ \A c \in cs : c \notin Queued(pool')
  <2>1. cs \in SUBSET Jobs
    OBVIOUS
  <2> HIDE DEF cs
  <2> QED BY <1>1, <2>1, LeftOK DEF Core, Settles
<1>3. \A c \in Queued(pool') : DownloadOf(c) # d
  <2>1. Queued(pool') \subseteq Jobs
    BY QueuedIsToSet DEF Core, Settles
  <2> QED BY <1>2, <2>1
<1> HIDE DEF cs
<1>4. Waiters'
  BY <1>1, <1>2, <1>3, WaitersKept DEF Desk
<1>5. \A e \in Downloads : Apart(e)' <=> Apart(e)
  BY DEF Apart
<1> QED BY <1>2, <1>4, <1>5, KnownKept DEF Desk

LEMMA DownloadDesk ==
  ASSUME Core, Core', Desk, NEW d \in Downloads, DownloadActs(d)
  PROVE  Desk'
<1>0. \A e \in Downloads \ {d} : load'[e] = load[e]
  BY OthersLeft
<1>1. CASE ProbeOk(d) \/ ProbeRefused(d) \/ ProbeFails(d) \/ ProbeCut(d) \/ ProbeEnds(d)
  BY <1>1, ProbeDesk
<1>2. CASE Loaded(d)
  BY <1>2, LoadedDesk
<1>3. CASE Ended(d)
  BY <1>3, EndedDesk
<1>4. CASE Cascade(d)
  BY <1>4, DispatchedDesk DEF Cascade
<1>5. CASE Stop(d)
  <2>1. CASE d \in aborted
    <3>1. pool' = pool /\ aborted' = aborted /\ load' = load
      BY <1>5, <2>1 DEF Stop
    <3>2. \A e \in Downloads : Apart(e)' <=> Apart(e)
      BY <3>1 DEF Apart
    <3> QED BY <3>1, <3>2, SamePoolDesk
  <2>2. CASE d \notin aborted
    BY <1>5, <2>2, DispatchedDesk DEF Stop
  <2> QED BY <2>1, <2>2
<1>6. CASE NoList(d)
  <2>0. load[d] \in Loads /\ load \in [Downloads -> Loads]
    BY LoadTyped DEF Core, Typed
  <2>1. pool' = pool /\ aborted' = aborted /\ load[d].at = "load"
        /\ load' = [load EXCEPT ![d].at = "over", ![d].result = "fallback"]
    BY <1>6 DEF NoList, NoReadback
  <2>2. load'[d].at = "over"
    BY <2>0, <2>1 DEF Loads
  <2> QED BY <1>0, <2>1, <2>2, OneApart, SamePoolDesk
<1>7. CASE Prepared(d) \/ Allocated(d) \/ Commit(d) \/ Cleanup(d) \/ Settled(d)
  <2>1. pool' = pool /\ aborted' = aborted
    BY <1>7, Zenon DEF Prepared, Allocated, Commit, Cleanup, Settled, NoReadback
  <2>2. load[d].at \notin {"load", "over"}
    BY Zenon, <1>7 DEF Prepared, Allocated, Commit, Cleanup, Settled
  <2>3. load'[d].at \notin {"load", "over"}
    <3>0. load \in [Downloads -> Loads]
      BY DEF Core, Typed
    <3>1. CASE Prepared(d) BY Zenon, <3>0, <3>1 DEF Prepared, Loads
    <3>2. CASE Allocated(d)
      <4>1. \/ load' = [load EXCEPT ![d].at = "segments", ![d].temp = TRUE]
            \/ \E temp \in BOOLEAN, r \in Thrown(d) :
                 load' = [load EXCEPT ![d].at = "cleanup", ![d].temp = temp, ![d].result = r]
        BY Zenon, <3>2 DEF Allocated
      <4>2. ASSUME NEW temp, NEW r,
                   load' = [load EXCEPT ![d].at = "cleanup", ![d].temp = temp, ![d].result = r]
            PROVE  load'[d].at = "cleanup"
        BY <3>0, <4>2 DEF Loads
      <4>3. CASE load' = [load EXCEPT ![d].at = "segments", ![d].temp = TRUE]
        BY <3>0, <4>3 DEF Loads
      <4> QED BY Zenon, <4>1, <4>2, <4>3
    <3>3. CASE Commit(d) BY <3>0, <3>3 DEF Commit, Loads
    <3>4. CASE Cleanup(d) BY <3>0, <3>4 DEF Cleanup, Loads
    <3>5. CASE Settled(d)
      <4>1. ASSUME NEW r, load' = [load EXCEPT ![d].at = "cleanup", ![d].result = r]
            PROVE  load'[d].at = "cleanup"
        BY <3>0, <4>1 DEF Loads
      <4>2. CASE load' = [load EXCEPT ![d].at = "commit"]
        BY <3>0, <4>2 DEF Loads
      <4>3. \/ load' = [load EXCEPT ![d].at = "commit"]
            \/ \E r : load' = [load EXCEPT ![d].at = "cleanup", ![d].result = r]
        BY <3>5, SettledLoad
      <4> QED BY <4>1, <4>2, <4>3
    <3> QED BY <1>7, <3>1, <3>2, <3>3, <3>4, <3>5
  <2> QED BY <1>0, <2>1, <2>2, <2>3, OneApart, SamePoolDesk
<1> QED BY <1>1, <1>2, <1>3, <1>4, <1>5, <1>6, <1>7 DEF DownloadActs, DownloadHears

\* Every step keeps it.
LEMMA DeskStep ==
  ASSUME Core, Desk, [Next]_vars
  PROVE  Desk'
<1>0. Core'
  BY CoreStep
<1>1. ASSUME NEW j \in Workers, Attempt(j) \/ WorkerActs(j) PROVE Desk'
  BY <1>0, <1>1, WorkerDesk
<1>2. ASSUME NEW j \in Jobs \ Workers, Attempt(j) PROVE Desk'
  <2>1. /\ KeptBut(pool, pool', {j}) /\ pool'.groups = pool.groups
        /\ ~Signalled(j) /\ load' = load /\ aborted' = aborted
    BY <1>2, AttemptCarries DEF Attempt, NoReadback, Becomes
  <2>2. Waiters'
    <3> SUFFICES ASSUME NEW c \in Queued(pool') PROVE DownloadOf(c) \notin aborted
      BY <2>1 DEF Waiters, Signalled
    <3>1. CASE c = j
      BY <2>1, <3>1 DEF Signalled
    <3>2. CASE c # j
      <4>1. c \in Queued(pool)
        BY <1>0, <2>1, <3>2, NoNewWaiter DEF Core, Settles
      <4> QED BY <4>1 DEF Desk, Waiters, Signalled
    <3> QED BY <3>1, <3>2
  <2>3. \A e \in Downloads : Apart(e)' <=> Apart(e)
    BY <2>1 DEF Apart
  <2> QED BY <2>1, <2>2, <2>3, KnownKept DEF Desk
<1>3. ASSUME NEW e \in Downloads, DownloadActs(e) PROVE Desk'
  BY <1>0, <1>3, DownloadDesk
<1>4. CASE CooldownEnds \/ UNCHANGED vars
  <2>1. load' = load /\ aborted' = aborted
    BY <1>4 DEF CooldownEnds, NoReadback, vars
  <2>2. KeptBut(pool, pool', {}) /\ pool'.groups = pool.groups
    <3>1. CASE CooldownEnds
      BY <3>1, ExpiredOK DEF CooldownEnds, Core
    <3>2. CASE UNCHANGED vars
      <4>1. pool' = pool
        BY <3>2 DEF vars
      <4> QED BY <4>1, SamePool
    <3> QED BY <1>4, <3>1, <3>2
  <2>3. Waiters'
    BY <1>0, <2>1, <2>2, WaitersKept DEF Desk
  <2>4. \A e \in Downloads : Apart(e)' <=> Apart(e)
    BY <2>1 DEF Apart
  <2> QED BY <2>2, <2>3, <2>4, KnownKept DEF Desk
<1> QED BY <1>1, <1>2, <1>3, <1>4, Steps

LEMMA DeskInit ==
  ASSUME Init
  PROVE  Desk
<1>1. pool.queue = <<>> /\ pool.groups = {}
  BY DEF Init, Proxy!NewPool
<1>2. Queued(pool) = {}
  BY <1>1 DEF Queued, Elems
<1>3. \A d \in Downloads : load[d].at = "load"
  BY DEF Init
<1> QED BY <1>1, <1>2, <1>3 DEF Desk, Waiters, Known

\* Who has a proxy has it alone, so that there are as many of them as proxies in use.
LEMMA OneEach ==
  ASSUME NEW p, PoolOK(p)
  PROVE  Cardinality(Proxy!ActiveProxies(p)) = Cardinality(Proxy!Active(p))
<1> DEFINE A == Proxy!Active(p)
           B == Proxy!ActiveProxies(p)
           f == [c \in A |-> p.lease[c]]
<1>1. A = {c \in Jobs : p.lease[c] # None} /\ B = {p.lease[c] : c \in A}
  BY ActiveSame DEF Proxy!ActiveProxies
<1>2. IsFiniteSet(A)
  <2>1. IsFiniteSet(Jobs)
    <3>1. IsFiniteSet(Downloads) /\ Connections \in Nat
      BY SegmentedAssumption
    <3>2. IsFiniteSet(0..Connections)
      BY <3>1, FS_Interval
    <3> QED BY <3>1, <3>2, FS_Product DEF Jobs
  <2> QED BY <1>1, <2>1, FS_Subset
<1>3. \A b, c \in A : f[b] = f[c] => b = c
  BY <1>1 DEF PoolOK
<1> HIDE DEF A, B
<1>4. f \in Bijection(A, B)
  BY <1>1, <1>3 DEF Bijection, Injection, Surjection, IsInjective
<1>5. ExistsBijection(A, B)
  BY <1>4 DEF ExistsBijection
<1> QED BY <1>2, <1>5, FS_Bijection DEF A, B

\* The fields of the coordinator are what they should be.
LEMMA PoolTypes ==
  ASSUME Core
  PROVE  Proxy!PoolTypeOK
<1>1. /\ pool \in Pools /\ PoolOK(pool) /\ TimerOK(pool)
  BY DEF Core, Settles, PoolOK
<1>2. /\ pool.configured \in Nat /\ pool.limit \in 2..pool.configured
      /\ \A g \in Downloads : pool.throttle[g] = 0 \/ pool.throttle[g] \in 2..pool.configured
      /\ pool.groups \subseteq Downloads
  BY <1>1 DEF PoolOK, Pools
<1>3. Proxy!IsInjective(pool.cooling) /\ Proxy!IsInjective(pool.queue)
  <2>1. pool.cooling \in Seq(Proxies) /\ pool.queue \in Seq(Jobs)
    BY <1>1 DEF Pools
  <2>2. DOMAIN pool.cooling = 1..Len(pool.cooling) /\ DOMAIN pool.queue = 1..Len(pool.queue)
    BY <2>1
  <2>3. Distinct(pool.cooling) /\ Distinct(pool.queue)
    BY <1>1 DEF PoolOK
  <2> QED BY <2>2, <2>3, Zenon DEF Distinct, Proxy!IsInjective
<1>4. ToSet(pool.cooling) \subseteq Proxies
  BY <1>1 DEF Pools, ToSet
<1>5. ToSet(pool.queue) \intersect Proxy!Active(pool) = {}
  BY <1>1, QueuedIsToSet, ActiveSame DEF PoolOK
<1>6. Proxy!ActiveProxies(pool) \subseteq Proxies
  BY <1>1, ActiveSame DEF Pools
<1>7. pool.wake \in ToSet(pool.cooling) \union {None}
  BY <1>1 DEF TimerOK, Elems, ToSet, Pools
<1>8. Proxy!Cardinality(Proxy!ActiveProxies(pool)) = Proxy!Cardinality(Proxy!Active(pool))
  BY <1>1, OneEach, ProxyOperators
<1> QED BY <1>2, <1>3, <1>4, <1>5, <1>6, <1>7, <1>8, ProxyOperators
        DEF Proxy!PoolTypeOK, Proxy!LowestLimit

(***************************************************************************)
(* SharedProxyCoordinator, downloadWithProxySegments() and the limiter of  *)
(* the readbacks keep one book: nobody waits twice or loads through a      *)
(* proxy that another uses, whoever waits or loads is registered and       *)
(* wanted, and a slot for reading back belongs to a segment that is read.  *)
(***************************************************************************)
THEOREM SegmentsTyped == Spec => []SegmentsTypeOK
<1> DEFINE I == Core /\ ReadbackOK /\ Books /\ Desk
<1>1. Init => I
  BY CoreInit, ReadbackInit, BooksInit, DeskInit
<1>2. I /\ [Next]_vars => I'
  BY CoreStep, ReadbackStep, BooksStep, DeskStep
<1>3. I => SegmentsTypeOK
  <2> SUFFICES ASSUME I PROVE SegmentsTypeOK
    OBVIOUS
  <2>1. Proxy!PoolTypeOK
    BY PoolTypes
  <2>2. ASSUME NEW j \in Jobs
        PROVE  /\ pool.lease[j] # None => job[j].at \in {"fetch", "check"}
               /\ j \in ToSet(pool.queue) => job[j].at \in {"fetch", "check"} /\ ~Signalled(j)
    <3>1. In(pool, j) => job[j].at \in Loading
      BY DEF Core, Fits, JobFits
    <3>2. j \in ToSet(pool.queue) <=> j \in Queued(pool)
      BY QueuedIsToSet DEF Core, Settles
    <3> QED BY <3>1, <3>2 DEF In, Loading, Desk, Waiters
  <2>3. \A j \in Workers : phase[j] \in {"waiting", "holding"} => job[j].at = "readback"
    BY DEF ReadbackOK, PhaseFits
  <2>4. active = Cardinality(Readback!Holding)
    BY DEF ReadbackOK, LimiterOK
  <2>5. \A d \in Downloads :
          /\ d \in pool.groups <=> load[d].at \notin {"load", "over"}
          /\ load[d].temp => load[d].at \in {"segments", "commit", "cleanup"}
    BY DEF Desk, Known, Books, BookOf, Around
  <2> HIDE DEF I
  <2> QED BY <2>1, <2>2, <2>3, <2>4, <2>5 DEF SegmentsTypeOK
<1> HIDE DEF I
<1> QED BY <1>1, <1>2, <1>3, PTL DEF Spec
=============================================================================

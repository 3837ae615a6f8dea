-------------------------- MODULE ProxyCoordinator --------------------------
(***************************************************************************)
(* SharedProxyCoordinator of src/main/proxy-segmented-download.ts: the one *)
(* place where the downloads of the program get a proxy to load through.   *)
(*                                                                         *)
(* Its fields are the record pool.  Nothing in it awaits, so each of its   *)
(* methods is an operator that gives the set of records the fields may be  *)
(* after the call.  There is more than one because a choice by measured    *)
(* speed is any choice here, and because how much time has passed and how  *)
(* many transfers were counted since a limit was lowered is left open.     *)
(***************************************************************************)
EXTENDS Integers, Sequences, FiniteSets, Subsequences, SequencesExt, FiniteSetsExt

CONSTANTS
  Proxies,    \* the proxies of the list
  Groups,     \* the downloads; the addresses they load from are all different
  Callers,    \* who asks for leases: the probe and the workers of a download
  GroupOf(_), \* the download of a caller
  None        \* no proxy

VARIABLE pool

\* DEFAULT_CONNECTION_LIMIT, and the numbers of reportOriginStatus.
DefaultLimit == 32
LowestLimit == 2
Lowered_NoMinimum(limit) == limit - 2
Lowered(limit) == Max({LowestLimit, limit - 2})

(***************************************************************************)
(* configured, limit: the configured and the adaptive connection limit     *)
(* throttle: the limit of each address that has answered 503; 0 is none    *)
(* cooling:  the proxies whose cooldownUntil is to come, in that order     *)
(* groups:   registeredGroups                                              *)
(* queue:    waiters; avoid: what each caller has excluded                 *)
(* lease:    the proxy a caller occupies a connection with                 *)
(* wake:     the proxy whose end of cooldown the timer waits for           *)
(***************************************************************************)
NewPool ==
  [configured |-> DefaultLimit, limit |-> DefaultLimit,
   throttle |-> [g \in Groups |-> 0], cooling |-> <<>>, groups |-> {},
   queue |-> <<>>, avoid |-> [c \in Callers |-> {}],
   lease |-> [c \in Callers |-> None], wake |-> None]

Active(p) == {c \in Callers : p.lease[c] # None}
ActiveOf(p, g) == {c \in Active(p) : GroupOf(c) = g}
ActiveProxies(p) == {p.lease[c] : c \in Active(p)}

CeilDiv(a, b) == (a + b - 1) \div b

\* groupLimit: what a download may have before it has to borrow.
Share(p, g) ==
  LET fair == CeilDiv(p.limit, Max({1, Cardinality(p.groups)}))
      own  == IF p.throttle[g] > 0 THEN p.throttle[g] ELSE p.limit
  IN  Max({1, Min({fair, own})})

MayConnect(p, g, borrow) ==
  /\ Cardinality(Active(p)) < p.limit
  /\ p.throttle[g] > 0 => Cardinality(ActiveOf(p, g)) < p.throttle[g]
  /\ ~borrow => Cardinality(ActiveOf(p, g)) < Share(p, g)

\* The proxies selectProxy() may return; one that cools down only while the
\* whole list lies idle.
Selectable(p, c, borrow) ==
  LET free   == Proxies \ (p.avoid[c] \union ActiveProxies(p))
      rested == free \ ToSet(p.cooling)
  IN  IF ~MayConnect(p, GroupOf(c), borrow) THEN {}
      ELSE IF rested = {} /\ Active(p) = {} THEN free ELSE rested

\* The places of the queue that could be served.
Servable(p, borrow) ==
  {k \in 1..Len(p.queue) : Selectable(p, p.queue[k], borrow) # {}}

\* One turn of the loop of drain(): those that keep to their share come first.
OneMore(p) ==
  LET borrow == Servable(p, FALSE) = {}
      k == Min(Servable(p, borrow))
  IN  IF Servable(p, TRUE) = {} THEN {p}
      ELSE {[p EXCEPT !.queue = RemoveAt(@, k), !.lease[p.queue[k]] = x] :
              x \in Selectable(p, p.queue[k], borrow)}

\* scheduleCooldownWake()
Armed(p) ==
  LET usable == {k \in 1..Len(p.cooling) :
        /\ p.cooling[k] \notin ActiveProxies(p)
        /\ \E l \in 1..Len(p.queue) : p.cooling[k] \notin p.avoid[p.queue[l]]}
  IN  IF usable # {} /\ Cardinality(Active(p)) < p.limit
      THEN p.cooling[Min(usable)] ELSE None

\* drain().  Waiters whose signal has fired are not in the queue any more: their
\* listeners take them out while the signal is dispatched.
Drained(p) ==
  LET after[n \in 0..Len(p.queue)] ==
        IF n = 0 THEN {p} ELSE UNION {OneMore(q) : q \in after[n - 1]}
  IN  {[q EXCEPT !.wake = Armed(q)] : q \in after[Len(p.queue)]}

DrainedAll(ps) == UNION {Drained(p) : p \in ps}

-----------------------------------------------------------------------------
\* acquire(), when not every proxy is excluded and the signal has not fired.
Asked(p, c) == Drained([p EXCEPT !.queue = Append(@, c)])

\* The signal of these waiters has fired: each leaves the queue.
Left(p, cs) == Drained([p EXCEPT !.queue = Only(@, Callers \ cs)])

\* setConnectionLimit()
Limited(p, limit) ==
  Drained(IF limit # p.configured
          THEN [p EXCEPT !.configured = limit, !.limit = limit,
                         !.throttle = [g \in Groups |-> 0]]
          ELSE [p EXCEPT !.limit = Min({@, limit})])

\* registerGroup().  Throttles of addresses nobody loads from are forgotten when
\* they are old; how old they are is left open.
Registered(p, g) ==
  DrainedAll({[p EXCEPT !.groups = @ \union {g},
                        !.throttle = [h \in Groups |-> IF h \in old THEN 0 ELSE @[h]]] :
                old \in SUBSET {h \in Groups \ p.groups : p.throttle[h] > 0}})

\* The function registerGroup() returns.
Unregistered(p, g) == Drained([p EXCEPT !.groups = @ \ {g}])

\* reportOriginStatus(503): the address is throttled, unless it was just now.
Reported503(p, g) ==
  LET share == Max({LowestLimit,
                    CeilDiv(p.limit, Max({1, Cardinality(p.groups)}))})
      base  == IF p.throttle[g] > 0 THEN Min({p.throttle[g], share}) ELSE share
  IN  Drained([p EXCEPT !.throttle[g] = Lowered(base)])
      \union (IF p.throttle[g] > 0 THEN {p} ELSE {})

\* reportOriginStatus(429): everybody is throttled, unless they were just now.
Reported429(p) ==
  Drained([p EXCEPT !.limit = Lowered(@)])
  \union (IF p.limit < p.configured THEN {p} ELSE {})

\* The two limits that may have grown.
Retuned(p, g, origin, common) == [p EXCEPT !.throttle[g] = origin, !.limit = common]

\* restoreAdaptiveCapacity(): after enough time and transfers limits grow again.
Restored(p, g) ==
  LET raised == Min({p.configured, p.throttle[g] + CeilDiv(p.throttle[g], 4)})
      origin == {p.throttle[g]}
        \union (IF p.throttle[g] = 0 THEN {}
                ELSE IF raised >= p.configured THEN {0} ELSE {raised})
      common == {p.limit} \union (IF p.limit < p.configured THEN {p.limit + 1} ELSE {})
  IN  {Retuned(p, g, o, l) : o \in origin, l \in common}

\* releaseCapacity(), which does nothing the second time.
Freed(p, c) == [p EXCEPT !.lease[c] = None]

\* The cooldown of a proxy begins, again if it had begun before.
Cooled(p, x) == [p EXCEPT !.cooling = Append(Only(@, Proxies \ {x}), x)]

\* releaseSlot() of a lease, which stays with its caller.
SlotGiven_NoDrain(p, c) == {Freed(p, c)}
SlotGiven(p, c) == Drained(Freed(p, c))

\* release() of the lease of proxy x: it went wrong, it went well, and it went well
\* and something was transferred and measured.
ReleasedFailed(p, c, x) == Drained(Cooled(Freed(p, c), x))
ReleasedWell(p, c, x) == Drained([Freed(p, c) EXCEPT !.cooling = Only(@, Proxies \ {x})])
ReleasedMeasured(p, c, x) ==
  DrainedAll(Restored([Freed(p, c) EXCEPT !.cooling = Only(@, Proxies \ {x})], GroupOf(c)))

\* reportContentMismatch()
Mismatched(p, x) == Drained(Cooled(p, x))

\* The first cooldown ends; the timer drains if that is what it waited for.
Expired(p) ==
  LET rest == [p EXCEPT !.cooling = Tail(@)]
  IN  IF p.wake = Head(p.cooling) THEN Drained(rest) ELSE {rest}

-----------------------------------------------------------------------------
\* Every caller and waiter keeps one proxy to itself, and nobody waits twice.
PoolTypeOK ==
  /\ pool.configured \in Nat /\ pool.limit \in LowestLimit..pool.configured
  /\ \A g \in Groups : pool.throttle[g] = 0 \/ pool.throttle[g] \in LowestLimit..pool.configured
  /\ pool.groups \subseteq Groups
  /\ IsInjective(pool.cooling) /\ ToSet(pool.cooling) \subseteq Proxies
  /\ IsInjective(pool.queue) /\ ToSet(pool.queue) \intersect Active(pool) = {}
  /\ ActiveProxies(pool) \subseteq Proxies
  /\ Cardinality(ActiveProxies(pool)) = Cardinality(Active(pool))
  /\ pool.wake \in ToSet(pool.cooling) \union {None}

(***************************************************************************)
(* No waiter is left behind while the limits, the throttle of its address  *)
(* and the proxies it may use would let it connect: what frees a           *)
(* connection, raises a limit or ends a cooldown also serves the queue.    *)
(***************************************************************************)
NoIdleProxy == Servable(pool, TRUE) = {}
=============================================================================

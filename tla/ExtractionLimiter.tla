------------------------- MODULE ExtractionLimiter -------------------------
(***************************************************************************)
(* The counting limiter of src/main/extraction-limiter.ts as its callers   *)
(* use it: withProcessingBudget (src/main/processing-budget.ts) and        *)
(* extractSingleArchive (src/main/extractor.ts).                           *)
(*                                                                         *)
(* A task is one call of acquire() with its AbortSignal and the release    *)
(* function it may be granted.  A step is one run of JavaScript to         *)
(* completion: the continuation after the await is a step of its own,      *)
(* because other callbacks run between the grant and it.                   *)
(***************************************************************************)
EXTENDS Integers, Sequences, FiniteSets

CONSTANTS
  Tasks,      \* the calls of acquire()
  Ceiling,    \* the constructor argument of the same name
  Requests    \* the limits callers pass to acquire() and updateLimit()

ASSUME LimiterAssumption ==
  /\ IsFiniteSet(Tasks)
  /\ Ceiling \in Nat \ {0}
  /\ Requests \subseteq Int

VARIABLES
  active,     \* this.active
  limit,      \* this.limit
  waiters,    \* this.waiters, in the order of the calls
  phase,      \* what became of each call
  aborted     \* the tasks whose AbortSignal has fired

vars == <<active, limit, waiters, phase, aborted>>

(***************************************************************************)
(* "granted": the promise is resolved, its continuation has not run yet.   *)
(* "running": the protected work runs.  "released": release() was called.  *)
(* "rejected": the promise was rejected with the abort message.            *)
(***************************************************************************)
Phases == {"new", "waiting", "granted", "running", "released", "rejected"}

HoldersIn(ph) == {t \in Tasks : ph[t] \in {"granted", "running"}}

Holders == HoldersIn(phase)

Elements(queue) == {queue[i] : i \in 1..Len(queue)}

Waiting == Elements(waiters)

Clamp(n) == IF n < 1 THEN 1 ELSE IF n > Ceiling THEN Ceiling ELSE n

-----------------------------------------------------------------------------
\* Mutant: the loop condition reads active <= limit.
Grants_OffByOne(act, lim, queue) ==
  IF act > lim THEN 0
  ELSE IF Len(queue) < lim + 1 - act THEN Len(queue) ELSE lim + 1 - act

\* How many waiters the while loop of drain() grants.
Grants(act, lim, queue) ==
  IF act >= lim THEN 0
  ELSE IF Len(queue) < lim - act THEN Len(queue) ELSE lim - act

(***************************************************************************)
(* drain(): grant from the front while there is capacity.  The arguments   *)
(* are the values the loop starts from.                                    *)
(***************************************************************************)
Drain(act, lim, queue, ph) ==
  LET n == Grants(act, lim, queue)
      first == {queue[i] : i \in 1..n}
  IN  /\ active' = act + n
      /\ waiters' = SubSeq(queue, n + 1, Len(queue))
      /\ phase' = [t \in Tasks |-> IF t \in first THEN "granted" ELSE ph[t]]

\* waiters.filter(entry => entry !== waiter), for the entry at place k.
Without(queue, k) ==
  [i \in 1..Len(queue) - 1 |-> IF i < k THEN queue[i] ELSE queue[i + 1]]

-----------------------------------------------------------------------------
Init ==
  /\ active = 0
  /\ limit = 1
  /\ waiters = <<>>
  /\ phase = [t \in Tasks |-> "new"]
  /\ aborted = {}

\* acquire(): an aborted signal rejects before the limit is touched.
AcquireAborted(t) ==
  /\ phase[t] = "new"
  /\ t \in aborted
  /\ phase' = [phase EXCEPT ![t] = "rejected"]
  /\ UNCHANGED <<active, limit, waiters, aborted>>

Acquire(t, n) ==
  /\ phase[t] = "new"
  /\ t \notin aborted
  /\ limit' = Clamp(n)
  /\ Drain(active, limit', Append(waiters, t), [phase EXCEPT ![t] = "waiting"])
  /\ UNCHANGED aborted

UpdateLimit(n) ==
  /\ limit' = Clamp(n)
  /\ Drain(active, limit', waiters, phase)
  /\ UNCHANGED aborted

(***************************************************************************)
(* The signal fires.  Only a waiting call still listens: it leaves the     *)
(* queue, rejects and drains.  A granted one has removed its listener.     *)
(***************************************************************************)
AbortWaiter(t) ==
  \E k \in 1..Len(waiters) :
    /\ waiters[k] = t
    /\ Drain(active, limit, Without(waiters, k), [phase EXCEPT ![t] = "rejected"])

Abort(t) ==
  /\ t \notin aborted
  /\ aborted' = aborted \union {t}
  /\ \/ AbortWaiter(t)
     \/ /\ phase[t] # "waiting"
        /\ UNCHANGED <<active, waiters, phase>>
  /\ UNCHANGED limit

\* Mutant: the slot is given back and the queue is not drained.
GiveBack_NoDrain(t) ==
  /\ active' = active - 1
  /\ phase' = [phase EXCEPT ![t] = "released"]
  /\ UNCHANGED waiters

\* The release function a grant hands out; the callers call it once.
GiveBack(t) ==
  Drain(active - 1, limit, waiters, [phase EXCEPT ![t] = "released"])

(***************************************************************************)
(* The continuation after the await.  A signal that fired since the grant  *)
(* makes it throw before the work starts, and the finally gives the slot   *)
(* back.                                                                   *)
(***************************************************************************)
Resume(t) ==
  /\ phase[t] = "granted"
  /\ \/ /\ t \in aborted
        /\ GiveBack(t)
     \/ /\ t \notin aborted
        /\ phase' = [phase EXCEPT ![t] = "running"]
        /\ UNCHANGED <<active, waiters>>
  /\ UNCHANGED <<limit, aborted>>

\* The work settles, by itself or because its signal fired.
Release(t) ==
  /\ phase[t] = "running"
  /\ GiveBack(t)
  /\ UNCHANGED <<limit, aborted>>

Next ==
  \/ \E t \in Tasks :
       \/ AcquireAborted(t)
       \/ \E n \in Requests : Acquire(t, n)
       \/ Abort(t)
       \/ Resume(t)
       \/ Release(t)
  \/ \E n \in Requests : UpdateLimit(n)

Spec == Init /\ [][Next]_vars

(***************************************************************************)
(* Continuations run, and the work done under a slot ends: a remux, a disk *)
(* write or an extractor process settles or is killed.  Nothing forces a   *)
(* caller to acquire, to abort or to change the limit.                     *)
(***************************************************************************)
Fairness == \A t \in Tasks : WF_vars(Resume(t)) /\ WF_vars(Release(t))

FairSpec == Spec /\ Fairness

-----------------------------------------------------------------------------
TypeOK ==
  /\ active \in Nat
  /\ limit \in 1..Ceiling
  /\ waiters \in Seq(Tasks)
  /\ phase \in [Tasks -> Phases]
  /\ aborted \subseteq Tasks

(***************************************************************************)
(* The counter is the number of calls that hold a slot: no path through    *)
(* grant, abort and release gives a slot back twice or keeps one.          *)
(***************************************************************************)
ActiveCountsHolders == active = Cardinality(Holders)

\* The queue holds exactly the pending calls, each once.
QueueIsPending ==
  /\ Waiting = {t \in Tasks : phase[t] = "waiting"}
  /\ \A i, j \in 1..Len(waiters) : waiters[i] = waiters[j] => i = j

(***************************************************************************)
(* No lost wake-up: while a call waits, every slot the limit allows is     *)
(* taken, also right after the limit was raised or a waiter was aborted.   *)
(***************************************************************************)
NoIdleSlot == waiters # <<>> => active >= limit

(***************************************************************************)
(* Nobody is granted a slot above the limit of that moment.  (A lowered    *)
(* limit may leave more holders than slots; they drain off.)               *)
(***************************************************************************)
GrantsRespectLimit ==
  [][(\E t \in Tasks : phase[t] # "granted" /\ phase'[t] = "granted")
       => Cardinality(Holders') <= limit']_vars

\* First come, first served: nobody is granted past a call that waits on.
FirstComeFirstServed ==
  [][\A i, j \in 1..Len(waiters) :
       i < j /\ phase'[waiters[j]] = "granted"
         => phase'[waiters[i]] # "waiting"]_vars

\* Work never starts under a signal that has already fired.
AbortedNeverStarts ==
  [][\A t \in Tasks : phase[t] # "running" /\ phase'[t] = "running"
       => t \notin aborted]_vars

\* Every call that waits is answered: granted a slot, or rejected.
EveryWaiterAnswered ==
  \A t \in Tasks : phase[t] = "waiting" ~> phase[t] \in {"granted", "rejected"}

-----------------------------------------------------------------------------
\* The abstract pool this limiter implements.
Pool == INSTANCE SlotPool WITH
  Calls <- Tasks, MaxLimit <- Ceiling,
  bound <- limit,
  queued <- Waiting,
  holding <- Holders,
  gone <- {t \in Tasks : phase[t] \in {"released", "rejected"}}

PoolSpec == Pool!PoolSpec
=============================================================================

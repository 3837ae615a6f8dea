--------------------------- MODULE ReadbackLimiter ---------------------------
(***************************************************************************)
(* The limiter of src/main/proxy-readback-limiter.ts as                    *)
(* src/main/proxy-segmented-download.ts uses it: every segment that has    *)
(* been written is read back and hashed under one of its slots.  All       *)
(* segments of a download share that download's AbortSignal.               *)
(***************************************************************************)
EXTENDS Integers, Sequences, FiniteSets, Subsequences

CONSTANTS
  Calls,      \* the segments that are read back
  Downloads,  \* their downloads, one AbortSignal each
  SignalOf,   \* the download of each call
  Limit       \* the constructor argument of the same name

VARIABLES
  active,     \* this.active
  waiting,    \* this.waiting
  phase,      \* what became of each call
  aborted     \* the downloads whose signal has fired

vars == <<active, waiting, phase, aborted>>

Phases == {"new", "waiting", "holding", "released", "rejected"}

Waiting == {waiting[k] : k \in 1..Len(waiting)}
Holding == {c \in Calls : phase[c] = "holding"}

Init ==
  /\ active = 0
  /\ waiting = <<>>
  /\ phase = [c \in Calls |-> "new"]
  /\ aborted = {}

\* acquire(): rejected at once, granted at once, or queued.
AcquireAborted(c) ==
  /\ phase[c] \notin {"waiting", "holding"} /\ SignalOf[c] \in aborted
  /\ phase' = [phase EXCEPT ![c] = "rejected"]
  /\ UNCHANGED <<active, waiting, aborted>>

Acquire(c) ==
  /\ phase[c] \notin {"waiting", "holding"} /\ SignalOf[c] \notin aborted
  /\ active < Limit
  /\ active' = active + 1
  /\ phase' = [phase EXCEPT ![c] = "holding"]
  /\ UNCHANGED <<waiting, aborted>>

Queue(c) ==
  /\ phase[c] \notin {"waiting", "holding"} /\ SignalOf[c] \notin aborted
  /\ active >= Limit
  /\ waiting' = Append(waiting, c)
  /\ phase' = [phase EXCEPT ![c] = "waiting"]
  /\ UNCHANGED <<active, aborted>>

\* The signal of a download fires: each of its calls that waits leaves the
\* queue and is rejected, in one dispatch.  One that holds a slot keeps it until
\* the hashing has noticed the signal.
Abort(d) ==
  /\ d \notin aborted
  /\ aborted' = aborted \union {d}
  /\ waiting' = Only(waiting, {c \in Calls : SignalOf[c] # d})
  /\ phase' = [c \in Calls |->
       IF SignalOf[c] = d /\ phase[c] = "waiting" THEN "rejected" ELSE phase[c]]
  /\ UNCHANGED active

Release_NoHandOver(c) ==
  /\ phase[c] = "holding"
  /\ active' = active - 1
  /\ phase' = [phase EXCEPT ![c] = "released"]
  /\ UNCHANGED <<waiting, aborted>>

\* The places of the queue that the loop of a release serves when it has left
\* this many slots taken; it skips calls whose signal has fired.
FirstServed(left) ==
  LET alive == {k \in 1..Len(waiting) : SignalOf[waiting[k]] \notin aborted}
  IN  {k \in alive : Cardinality({l \in alive : l <= k}) <= Limit - left}

\* release(), which each holder calls once.
Release(c) ==
  /\ phase[c] = "holding"
  /\ LET left == active - 1
         served == FirstServed(left)
         dropped == IF left + Cardinality(served) < Limit
                    THEN 1..Len(waiting)
                    ELSE {k \in 1..Len(waiting) : \E l \in served : k <= l}
     IN  /\ active' = left + Cardinality(served)
         /\ waiting' = SubSeq(waiting, Cardinality(dropped) + 1, Len(waiting))
         /\ phase' = [d \in Calls |->
              IF d = c THEN "released"
              ELSE IF \E k \in served : waiting[k] = d THEN "holding"
              ELSE IF \E k \in dropped : waiting[k] = d THEN "rejected" ELSE phase[d]]
  /\ UNCHANGED aborted

Next ==
  \/ \E c \in Calls : AcquireAborted(c) \/ Acquire(c) \/ Queue(c) \/ Release(c)
  \/ \E d \in Downloads : Abort(d)

Spec == Init /\ [][Next]_vars

-----------------------------------------------------------------------------
\* The limiter does what the main process expects of one.
Pool == INSTANCE SlotPool WITH
  Calls <- Calls, MaxLimit <- Limit,
  bound <- Limit,
  queued <- Waiting,
  holding <- Holding,
  gone <- {c \in Calls : phase[c] \in {"released", "rejected"}}

PoolSpec == Pool!ReusedSpec
=============================================================================

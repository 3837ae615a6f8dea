------------------------- MODULE NotificationOutbox -------------------------
(***************************************************************************)
(* The outbox for Discord notifications (src/main/notification-outbox.ts): *)
(* a queue in memory, its copy in a file, and one drain that sends the     *)
(* first event until the queue is empty or the service refuses.            *)
(*                                                                         *)
(* Everything that touches the queue goes through runExclusive, so that an *)
(* operation, with the save at its end, is one step here; what happens     *)
(* while it waits for its turn happens before it.  A save replaces the     *)
(* file as a whole or fails and leaves it as it was.  The service, the     *)
(* disk and the clock are not the program's: a send is accepted, refused   *)
(* or accepted without an answer, a save fails, a time passes.             *)
(*                                                                         *)
(* An event is named by its createdAt.                                     *)
(***************************************************************************)
EXTENDS Integers, FiniteSets, Sequences, SequencesExt, Subsequences

CONSTANTS
  Events,         \* the notifications, by the time they are created
  Errors,         \* those whose priority is "error"
  MaxEvents,      \* MAX_EVENTS
  MaxTrouble      \* bound: saves that fail, answers that are lost and ends of the
                  \* program, by the user or by a crash

ASSUME EventsAssumption == Events \subseteq Nat /\ IsFiniteSet(Events)
ASSUME ErrorsAssumption == Errors \subseteq Events
ASSUME BoundsAssumption ==
  MaxEvents \in Nat \ {0} /\ MaxTrouble \in Nat

VARIABLES
  up,             \* the program runs
  stopping,       \* shutdownRequested
  events,         \* events, in the order they are sent
  waiting,        \* the events whose nextAttemptAt lies ahead
  unsaved,        \* persistenceRequired
  timer,          \* retryTimer: none, or what it does when it fires
  recovering,     \* a recoverPersistence is under way
  drain,          \* where performDrain is, "idle" without one
  current,        \* the event performDrain has in hand
  disk,           \* the file: the events and those that wait
  expired,        \* the queued events whose expiresAt has passed
  received,       \* how often the service has taken an event
  acked,          \* the events whose enqueue() has returned without an error
  reported,       \* the events onDelivered was called for
  dropped,        \* the events given up: expired, no room, or a file not read
  faults,         \* saves that have failed and answers that were lost
  restarts        \* ends of the program

memory == <<stopping, events, waiting, unsaved, timer, recovering, drain, current>>
history == <<received, acked, reported, dropped>>
vars == <<up, memory, disk, expired, history, faults, restarts>>

NoEvent == -1
Empty == [events |-> <<>>, waiting |-> {}]
Phases == {"idle", "take", "sending", "sent", "refused", "report"}

\* inFlightEvent
InFlight == IF drain \in {"sending", "sent", "refused"} THEN {current} ELSE {}

\* The program has been started for the first time: there is no file yet.
Init ==
  /\ up = TRUE
  /\ stopping = FALSE
  /\ events = <<>>
  /\ waiting = {}
  /\ unsaved = FALSE
  /\ timer = "none"
  /\ recovering = FALSE
  /\ drain = "take"
  /\ current = NoEvent
  /\ disk = Empty
  /\ expired = {}
  /\ received = [e \in Events |-> 0]
  /\ acked = {}
  /\ reported = {}
  /\ dropped = {}
  /\ faults = 0
  /\ restarts = 0

-----------------------------------------------------------------------------
(* The queue and its file. *)

\* events.splice: an event is queued only once.
Without(s, e) == Only(s, Events \ {e})

Oldest(S) == CHOOSE e \in S : \A f \in S : e <= f

\* The event that has to go when there are too many: a success before an error.
Victim(s, held) ==
  LET free == ToSet(s) \ held
  IN  Oldest(IF free \ Errors # {} THEN free \ Errors ELSE free)

\* enforceLimits: expired events go, then, for room, one at a time; what is in
\* flight stays.
Limited(s, held) ==
  LET alive == Only(s, held \union (Events \ expired))
  IN  IF Len(alive) > MaxEvents /\ ~ToSet(alive) \subseteq held
      THEN Without(alive, Victim(alive, held))
      ELSE alive

\* scheduleDrain and schedulePersistenceRetry share one timer.
Scheduled(what) == IF stopping THEN timer ELSE what

\* An event that is no longer queued takes its expiresAt with it.
Forget == expired' = expired \intersect (ToSet(events') \union ToSet(disk'.events))

\* persist, of a queue s of which w wait and nothing but held is in flight.  A
\* failure sets the timer itself; a success leaves it at whatever comes next.
Persist(s, w, held, next) ==
  /\ events' = Limited(s, held)
  /\ waiting' = w \intersect ToSet(events')
  /\ dropped' = dropped \union (ToSet(s) \ ToSet(events'))
  /\ \/ /\ unsaved' = FALSE
        /\ disk' = [events |-> events', waiting |-> waiting']
        /\ timer' = next
        /\ UNCHANGED faults
     \/ /\ faults + restarts < MaxTrouble
        /\ faults' = faults + 1
        /\ unsaved' = TRUE
        /\ timer' = Scheduled("persist")
        /\ UNCHANGED disk
  /\ Forget

-----------------------------------------------------------------------------
Put_BehindReport(e) ==
  /\ up /\ drain # "report"
  /\ Persist(IF e \in ToSet(events) THEN events ELSE Append(events, e),
             waiting, InFlight, Scheduled("drain"))
  /\ acked' = IF unsaved' THEN acked ELSE acked \union {e}
  /\ UNCHANGED <<up, stopping, recovering, drain, current, received,
                 reported, restarts>>

Put_ErrorSwallowed(e) ==
  /\ up
  /\ Persist(IF e \in ToSet(events) THEN events ELSE Append(events, e),
             waiting, InFlight, Scheduled("drain"))
  /\ acked' = acked \union {e}
  /\ UNCHANGED <<up, stopping, recovering, drain, current, received,
                 reported, restarts>>

\* enqueue.  It fails if the queue cannot be saved, and may be called again for the
\* same event.
Put(e) ==
  /\ up
  /\ Persist(IF e \in ToSet(events) THEN events ELSE Append(events, e),
             waiting, InFlight, Scheduled("drain"))
  /\ acked' = IF unsaved' THEN acked ELSE acked \union {e}
  /\ UNCHANGED <<up, stopping, recovering, drain, current, received,
                 reported, restarts>>

\* drain: there is one at a time.
Drained == IF drain = "idle" THEN "take" ELSE drain

\* The timer fires.
TimerFires ==
  /\ up /\ timer # "none"
  /\ timer' = "none"
  /\ IF timer = "drain"
     THEN drain' = Drained /\ UNCHANGED recovering
     ELSE recovering' = TRUE /\ UNCHANGED drain
  /\ UNCHANGED <<up, stopping, events, waiting, unsaved, current, disk, expired,
                 history, faults, restarts>>

\* recoverPersistence, and the drain that follows it unless it has failed.
Recover ==
  /\ up /\ recovering
  /\ recovering' = FALSE
  /\ IF unsaved
     THEN Persist(events, waiting, InFlight, timer)
     ELSE UNCHANGED <<events, waiting, dropped, unsaved, disk, timer, expired, faults>>
  /\ drain' = IF unsaved' \/ stopping THEN drain ELSE Drained
  /\ UNCHANGED <<up, stopping, current, received, acked, reported, restarts>>

\* performDrain saves what could not be saved before; another failure ends it.
TakeSaves ==
  /\ up /\ drain = "take" /\ unsaved
  /\ Persist(events, waiting, {}, timer)
  /\ drain' = IF unsaved' THEN "idle" ELSE "take"
  /\ UNCHANGED <<up, stopping, recovering, current, received, acked,
                 reported, restarts>>

\* It looks at the first event: there is none, or it has to wait ...
TakeNothing ==
  LET kept == Limited(events, {})
  IN  /\ up /\ drain = "take" /\ ~unsaved
      /\ kept # <<>> => Head(kept) \in waiting
      /\ Persist(events, waiting, {}, IF kept = <<>> THEN "none" ELSE Scheduled("drain"))
      /\ drain' = "idle"
      /\ UNCHANGED <<up, stopping, recovering, current, received, acked,
                     reported, restarts>>

\* ... or it is taken.
TakeNext ==
  /\ up /\ drain = "take" /\ ~unsaved
  /\ events' = Limited(events, {})
  /\ events' # <<>> /\ Head(events') \notin waiting
  /\ waiting' = waiting \intersect ToSet(events')
  /\ dropped' = dropped \union (ToSet(events) \ ToSet(events'))
  /\ current' = Head(events')
  /\ drain' = "sending"
  /\ UNCHANGED disk /\ Forget
  /\ UNCHANGED <<up, stopping, unsaved, timer, recovering, received, acked, reported,
                 faults, restarts>>

\* The service answers, or its answer is lost.
SendSettles ==
  /\ up /\ drain = "sending"
  /\ \/ /\ received' = [received EXCEPT ![current] = @ + 1]
        /\ drain' = "sent"
        /\ UNCHANGED faults
     \/ /\ drain' = "refused"
        /\ UNCHANGED <<received, faults>>
     \/ /\ faults + restarts < MaxTrouble
        /\ faults' = faults + 1
        /\ received' = [received EXCEPT ![current] = @ + 1]
        /\ drain' = "refused"
  /\ UNCHANGED <<up, stopping, events, waiting, unsaved, timer, recovering, current,
                 disk, expired, acked, reported, dropped, restarts>>

Refused_NoTimer ==
  /\ up /\ drain = "refused"
  /\ Persist(events, waiting \union {current}, {}, timer)
  /\ drain' = "idle"
  /\ current' = NoEvent
  /\ UNCHANGED <<up, stopping, recovering, received, acked, reported, restarts>>

\* The event is not delivered: it waits, and the drain is over.
Refused ==
  /\ up /\ drain = "refused"
  /\ Persist(events, waiting \union {current}, {}, Scheduled("drain"))
  /\ drain' = "idle"
  /\ current' = NoEvent
  /\ UNCHANGED <<up, stopping, recovering, received, acked, reported, restarts>>

Delivered_StillQueued ==
  /\ up /\ drain = "sent"
  /\ Persist(events, waiting, {}, timer)
  /\ drain' = IF unsaved' THEN "idle" ELSE "report"
  /\ current' = IF unsaved' THEN NoEvent ELSE current
  /\ UNCHANGED <<up, stopping, recovering, received, acked, reported, restarts>>

\* The event is delivered: it leaves the queue.  If that cannot be saved, the
\* drain is over and the delivery not reported.
Delivered ==
  /\ up /\ drain = "sent"
  /\ Persist(Without(events, current), waiting, {}, timer)
  /\ drain' = IF unsaved' THEN "idle" ELSE "report"
  /\ current' = IF unsaved' THEN NoEvent ELSE current
  /\ UNCHANGED <<up, stopping, recovering, received, acked, reported, restarts>>

\* onDelivered is called and has returned: whatever it did, the drain goes on.
Reported ==
  /\ up /\ drain = "report"
  /\ reported' = reported \union {current}
  /\ drain' = "take"
  /\ current' = NoEvent
  /\ UNCHANGED <<up, stopping, events, waiting, unsaved, timer, recovering, disk,
                 expired, received, acked, dropped, restarts>>

\* A retry time passes ...
Due(e) ==
  /\ e \in waiting \union disk.waiting
  /\ waiting' = waiting \ {e}
  /\ disk' = [disk EXCEPT !.waiting = @ \ {e}]
  /\ UNCHANGED <<up, stopping, events, unsaved, timer, recovering, drain, current,
                 expired, history, faults, restarts>>

\* ... and the time an event is of interest.
Expire(e) ==
  /\ e \in (ToSet(events) \union ToSet(disk.events)) \ expired
  /\ expired' = expired \union {e}
  /\ UNCHANGED <<up, memory, disk, history, faults, restarts>>

-----------------------------------------------------------------------------
(* The program ends and is started again. *)

\* drainForShutdown
Shutdown ==
  /\ up /\ ~stopping
  /\ stopping' = TRUE
  /\ timer' = "none"
  /\ recovering' = TRUE
  /\ drain' = Drained
  /\ UNCHANGED <<up, events, waiting, unsaved, current, disk, expired, history,
                 faults, restarts>>

\* The process ends: three seconds after the user has closed it, or at any time.
Exit ==
  /\ up /\ faults + restarts < MaxTrouble
  /\ restarts' = restarts + 1
  /\ up' = FALSE
  /\ stopping' = FALSE
  /\ events' = <<>>
  /\ waiting' = {}
  /\ unsaved' = FALSE
  /\ timer' = "none"
  /\ recovering' = FALSE
  /\ drain' = "idle"
  /\ current' = NoEvent
  /\ UNCHANGED disk /\ Forget
  /\ UNCHANGED <<history, faults>>

\* The constructor, and the drain its owner asks for.  A file that cannot be read
\* counts as an empty one, and is replaced at once.
Restart ==
  /\ ~up
  /\ up' = TRUE
  /\ drain' = "take"
  /\ \E found \in {disk.events, <<>>} :
       LET kept == Limited(found, {})
       IN  /\ events' = kept
           /\ waiting' = disk.waiting \intersect ToSet(kept)
           /\ dropped' = dropped \union (ToSet(disk.events) \ ToSet(kept))
           /\ \/ /\ disk' = [events |-> kept, waiting |-> waiting']
                 /\ timer' = IF kept = <<>> THEN "none" ELSE "drain"
                 /\ UNCHANGED <<unsaved, faults>>
              \/ /\ faults + restarts < MaxTrouble
                 /\ faults' = faults + 1
                 /\ unsaved' = TRUE
                 /\ timer' = "persist"
                 /\ UNCHANGED disk
  /\ Forget
  /\ UNCHANGED <<stopping, recovering, current, received, acked, reported, restarts>>

-----------------------------------------------------------------------------
DrainSteps ==
  TakeSaves \/ TakeNothing \/ TakeNext \/ SendSettles \/ Refused \/ Delivered

\* What the outbox does by itself, and what happens to it.
OutboxSteps ==
  \/ \E e \in Events : Due(e) \/ Expire(e)
  \/ TimerFires \/ Recover \/ DrainSteps \/ Shutdown

-----------------------------------------------------------------------------
TypeOK ==
  /\ up \in BOOLEAN /\ stopping \in BOOLEAN /\ unsaved \in BOOLEAN /\ recovering \in BOOLEAN
  /\ events \in Seq(Events) /\ Len(events) <= MaxEvents
  /\ waiting \in SUBSET Events
  /\ timer \in {"none", "drain", "persist"}
  /\ drain \in Phases
  /\ current \in Events \union {NoEvent}
  /\ disk.events \in Seq(Events) /\ disk.waiting \in SUBSET Events
  /\ expired \in SUBSET Events
  /\ received \in [Events -> Nat]
  /\ acked \in SUBSET Events /\ reported \in SUBSET Events /\ dropped \in SUBSET Events
  /\ faults + restarts \in 0..MaxTrouble

\* What a caller was told is in the outbox survives every crash and failed save:
\* it is in the file until the service has it, or it was given up.
AcknowledgedIsKept ==
  \A e \in acked : e \in ToSet(disk.events) \/ received[e] > 0 \/ e \in dropped

\* Every time the service gets an event again, an answer was lost, a save had
\* failed or the program had ended: once for the queue that still held it, once
\* for the caller that did not know it had been queued.
AgainOnlyAfterTrouble == \A e \in Events : received[e] <= 1 + faults + 2 * restarts

\* The outbox does not fall asleep: while something is queued or not saved, a
\* drain runs or something will start one.
NeverAsleep ==
  up /\ ~stopping /\ (events # <<>> \/ unsaved) => timer # "none" \/ drain # "idle" \/ recovering
=============================================================================

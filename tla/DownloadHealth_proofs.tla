------------------------ MODULE DownloadHealth_proofs ------------------------
(***************************************************************************)
(* The monitor and the outbox together, for every set of events and every  *)
(* bound: the outbox never falls asleep over what is queued or not saved,  *)
(* keeps what it has acknowledged, sends nothing again without a reason,   *)
(* and the monitor keeps its cooldowns and tells of no end it has not told *)
(* the beginning of.                                                       *)
(***************************************************************************)
EXTENDS DownloadHealth, Basics_proofs

(***************************************************************************)
(* Never asleep.  The invariant is inductive as it stands: each operation  *)
(* that ends a drain leaves a timer behind, each timer that fires starts a *)
(* drain or a recovery, and a report hands the drain back.                 *)
(***************************************************************************)

\* A save that settles leaves nothing to save, or the timer that tries again.
LEMMA PersistWakes ==
  ASSUME NEW s, NEW w, NEW held, NEW next, Persist(s, w, held, next), ~stopping
  PROVE  /\ unsaved' \in BOOLEAN
         /\ unsaved' => timer' = "persist"
         /\ ~unsaved' => timer' = next
BY DEF Persist, Scheduled

LEMMA DrainedIsOn == Drained # "idle"
BY DEF Drained

\* What performDrain does keeps it going or leaves a timer.
LEMMA DrainAwake == ASSUME NeverAsleep, DrainSteps PROVE NeverAsleep'
<1> SUFFICES ASSUME up', ~stopping', events' # <<>> \/ unsaved'
             PROVE  timer' # "none" \/ drain' # "idle" \/ recovering'
  BY DEF NeverAsleep
<1>1. ~stopping
  BY DEF DrainSteps, TakeSaves, TakeNothing, TakeNext, SendSettles, Refused, Delivered
<1>2. CASE TakeSaves
  BY <1>1, <1>2, PersistWakes DEF TakeSaves
<1>3. CASE TakeNothing
  <2> DEFINE kept == Limited(events, {})
  <2>1. /\ events' = kept
        /\ Persist(events, waiting, {}, IF kept = <<>> THEN "none" ELSE Scheduled("drain"))
    BY <1>3 DEF TakeNothing, Persist
  <2>2. CASE unsaved'
    BY <1>1, <2>1, <2>2, PersistWakes
  <2>3. CASE ~unsaved'
    <3>1. kept # <<>>
      BY <2>1, <2>3
    <3>2. timer' = Scheduled("drain")
      BY <1>1, <2>1, <2>3, <3>1, PersistWakes
    <3> QED BY <1>1, <3>2 DEF Scheduled
  <2> QED BY <2>2, <2>3
<1>4. CASE TakeNext BY <1>4 DEF TakeNext
<1>5. CASE SendSettles BY <1>5 DEF SendSettles
<1>6. CASE Refused
  BY <1>1, <1>6, PersistWakes DEF Refused, Scheduled
<1>7. CASE Delivered
  BY <1>1, <1>7, PersistWakes DEF Delivered
<1> QED BY <1>2, <1>3, <1>4, <1>5, <1>6, <1>7 DEF DrainSteps

\* So does everything else the outbox does by itself, and what time does to it.
LEMMA OutboxAwake == ASSUME NeverAsleep, OutboxSteps PROVE NeverAsleep'
<1> SUFFICES ASSUME up', ~stopping', events' # <<>> \/ unsaved'
             PROVE  timer' # "none" \/ drain' # "idle" \/ recovering'
  BY DEF NeverAsleep
<1>1. CASE DrainSteps BY <1>1, DrainAwake DEF NeverAsleep
<1>2. ASSUME NEW e \in Events, Due(e) \/ Expire(e)
      PROVE  timer' # "none" \/ drain' # "idle" \/ recovering'
  BY <1>2 DEF Due, Expire, memory, NeverAsleep
<1>3. CASE TimerFires BY <1>3, DrainedIsOn DEF TimerFires
<1>4. CASE Recover
  <2>1. ~stopping BY <1>4 DEF Recover
  <2>2. CASE ~unsaved' BY <1>4, <2>1, <2>2, DrainedIsOn DEF Recover
  <2>3. CASE unsaved' /\ unsaved
    BY <1>4, <2>1, <2>3, PersistWakes DEF Recover
  <2>4. ~(unsaved' /\ ~unsaved) BY <1>4 DEF Recover
  <2> QED BY <2>2, <2>3, <2>4
<1>5. CASE Shutdown BY <1>5 DEF Shutdown
<1> QED BY <1>1, <1>2, <1>3, <1>4, <1>5 DEF OutboxSteps

\* What leaves the outbox alone leaves it awake.
LEMMA UntouchedAwake == ASSUME NeverAsleep, UNCHANGED outbox PROVE NeverAsleep'
BY DEF outbox, memory, NeverAsleep

LEMMA HealthAwake == ASSUME NeverAsleep, [HealthNext]_allVars PROVE NeverAsleep'
<1>1. CASE SampleQuiet BY <1>1, UntouchedAwake DEF SampleQuiet, SampleBegins
<1>2. CASE SampleEvent BY <1>2, UntouchedAwake DEF SampleEvent, SampleBegins
<1>3. CASE Announce
  <2> SUFFICES ASSUME ~stopping' PROVE timer' # "none"
    BY DEF NeverAsleep
  <2>1. ~stopping BY <1>3 DEF Announce, Put
  <2> QED BY <1>3, <2>1, PersistWakes DEF Announce, Put, Scheduled
<1>4. CASE SaveHealth BY <1>4 DEF SaveHealth, memory, NeverAsleep
<1>5. CASE Acknowledge BY <1>5 DEF Acknowledge, Reported, NeverAsleep
<1>6. ASSUME NEW s \in Stalls, Cool(s) PROVE NeverAsleep'
  BY <1>6, UntouchedAwake DEF Cool
<1>7. CASE OutboxAlone BY <1>7, OutboxAwake DEF OutboxAlone
<1>8. CASE HealthExit BY <1>8 DEF HealthExit, Exit, NeverAsleep
<1>9. CASE HealthRestart BY <1>9 DEF HealthRestart, Restart, NeverAsleep
<1>10. CASE UNCHANGED allVars
  BY <1>10, UntouchedAwake DEF allVars, vars, outbox
<1> QED
  BY <1>1, <1>2, <1>3, <1>4, <1>5, <1>6, <1>7, <1>8, <1>9, <1>10 DEF HealthNext

\* While the program runs and is not being closed, an outbox that holds events, or
\* a queue it could not save, has a drain under way or something that starts one,
\* whatever the monitor puts in and whenever it is told of a delivery.
THEOREM AlwaysAwake == HealthSpec => []NeverAsleep
<1>1. HealthInit => NeverAsleep BY DEF HealthInit, Init, NeverAsleep
<1>2. NeverAsleep /\ [HealthNext]_allVars => NeverAsleep' BY HealthAwake
<1> QED BY <1>1, <1>2, PTL DEF HealthSpec

-----------------------------------------------------------------------------
(* The queue and its file. *)

InHand == drain \in {"sending", "sent", "refused"}

\* What performDrain has in hand is the first of the queue, and has reached the service
\* once it was sent.
OutboxKnown ==
  /\ events \in Seq(Events) /\ disk \in [events : Seq(Events), waiting : SUBSET Events]
  /\ received \in [Events -> Nat] /\ faults \in Nat /\ restarts \in Nat
  /\ drain \in Phases
  /\ InHand => events # <<>> /\ Head(events) = current
  /\ drain = "sent" => received[current] > 0
  /\ ~up => drain = "idle" /\ events = <<>> /\ restarts > 0

\* q has elements of s only, in the order they have there.
Within(q, s) ==
  /\ q \in Seq(Events)
  /\ ToSet(q) \subseteq ToSet(s)
  /\ InOrder(q, s)

LEMMA WithinItself == ASSUME NEW s \in Seq(Events) PROVE Within(s, s)
BY DEF Within, InOrder

LEMMA WithinTwice ==
  ASSUME NEW s, NEW q, NEW r, Within(q, s), Within(r, q)
  PROVE  Within(r, s)
<1>1. InOrder(r, s)
  <2> SUFFICES ASSUME NEW m \in 1..Len(r), NEW n \in 1..Len(r), m < n
               PROVE  \E j, k \in 1..Len(s) : j < k /\ r[m] = s[j] /\ r[n] = s[k]
    BY DEF InOrder
  <2>1. PICK j, k \in 1..Len(q) : j < k /\ r[m] = q[j] /\ r[n] = q[k]
    BY DEF Within, InOrder
  <2> QED BY <2>1 DEF Within, InOrder
<1> QED BY <1>1 DEF Within

LEMMA OnlyWithin ==
  ASSUME NEW s \in Seq(Events), NEW S PROVE Within(Only(s, S), s)
<1>1. Only(s, S) \in Seq(Events)
  BY OnlySeq
<1>2. ToSet(Only(s, S)) \subseteq ToSet(s)
  BY OnlyToSet
<1>3. InOrder(Only(s, S), s)
  BY OnlyOrder
<1> QED BY <1>1, <1>2, <1>3 DEF Within

LEMMA ToSetOfEvents ==
  ASSUME NEW s \in Seq(Events)
  PROVE  ToSet(s) = {s[k] : k \in 1..Len(s)} /\ ToSet(s) \subseteq Events
<1>1. DOMAIN s = 1..Len(s) OBVIOUS
<1>2. ToSet(s) = {s[k] : k \in 1..Len(s)}
  BY <1>1 DEF ToSet
<1>3. \A k \in 1..Len(s) : s[k] \in Events OBVIOUS
<1> QED BY <1>2, <1>3

\* The event that has to go is not one that is held.
LEMMA VictimIsFree ==
  ASSUME NEW s \in Seq(Events), NEW held, ~(ToSet(s) \subseteq held)
  PROVE  Victim(s, held) \notin held
<1> DEFINE free == ToSet(s) \ held
           S == IF free \ Errors # {} THEN free \ Errors ELSE free
<1>1. S # {} /\ S \subseteq free
  OBVIOUS
<1>2. free \subseteq Nat
  BY ToSetOfEvents, EventsAssumption
<1>3. \E e \in S : \A f \in S : e <= f
  <2> HIDE DEF S
  <2> QED BY <1>1, <1>2, MinNat
<1>4. Oldest(S) \in S
  BY <1>3 DEF Oldest
<1>5. Victim(s, held) = Oldest(S)
  BY DEF Victim
<1> HIDE DEF S
<1> QED BY <1>1, <1>4, <1>5

\* enforceLimits takes nothing that is held, and leaves the order.
LEMMA LimitedKeeps ==
  ASSUME NEW s \in Seq(Events), NEW held \in SUBSET Events
  PROVE  /\ Within(Limited(s, held), s)
         /\ ToSet(s) \intersect held \subseteq ToSet(Limited(s, held))
         /\ s # <<>> /\ Head(s) \in held =>
              Limited(s, held) # <<>> /\ Head(Limited(s, held)) = Head(s)
<1> DEFINE S == held \union (Events \ expired)
           alive == Only(s, S)
           T == Events \ {Victim(alive, held)}
<1>1. /\ alive \in Seq(Events) /\ Within(alive, s)
      /\ ToSet(alive) = ToSet(s) \intersect S
      /\ s # <<>> /\ Head(s) \in held => alive # <<>> /\ Head(alive) = Head(s)
  <2>1. alive \in Seq(Events) /\ Within(alive, s) /\ ToSet(alive) = ToSet(s) \intersect S
    BY OnlySeq, OnlyWithin, OnlyToSet
  <2>2. ASSUME s # <<>>, Head(s) \in held PROVE alive # <<>> /\ Head(alive) = Head(s)
    <3>1. Head(s) \in S BY <2>2
    <3> HIDE DEF S
    <3> QED BY <2>2, <3>1, OnlyHead
  <2> QED BY <2>1, <2>2
<1>2. CASE Len(alive) > MaxEvents /\ ~ToSet(alive) \subseteq held
  <2>1. Limited(s, held) = Only(alive, T)
    BY <1>2 DEF Limited, Without
  <2> HIDE DEF alive
  <2>2. Victim(alive, held) \notin held
    BY <1>1, <1>2, VictimIsFree
  <2>3. /\ Within(Only(alive, T), alive)
        /\ ToSet(Only(alive, T)) = ToSet(alive) \intersect T
    BY <1>1, OnlyWithin, OnlyToSet
  <2>4. held \subseteq T
    BY <2>2
  <2>5. ASSUME alive # <<>>, Head(alive) \in held
        PROVE  Only(alive, T) # <<>> /\ Head(Only(alive, T)) = Head(alive)
    <3>1. Head(alive) \in T BY <2>4, <2>5
    <3> HIDE DEF T
    <3> QED BY <1>1, <2>5, <3>1, OnlyHead
  <2> HIDE DEF T
  <2>6. Within(Only(alive, T), s)
    BY <1>1, <2>3, WithinTwice
  <2> QED BY <1>1, <2>1, <2>3, <2>4, <2>5, <2>6
<1>3. CASE ~(Len(alive) > MaxEvents /\ ~ToSet(alive) \subseteq held)
  <2>1. Limited(s, held) = alive
    BY <1>3 DEF Limited
  <2> QED BY <1>1, <2>1
<1> QED BY <1>2, <1>3

-----------------------------------------------------------------------------
(* What the steps of the outbox come to. *)

\* A file with the queue q.
FileOf(q) == [events : {q}, waiting : SUBSET Events]

Saved(s, held) ==
  /\ events' = Limited(s, held)
  /\ dropped' = dropped \union (ToSet(s) \ ToSet(events'))
  /\ \/ disk' \in FileOf(events') /\ faults' = faults /\ ~unsaved'
     \/ disk' = disk /\ faults' = faults + 1 /\ unsaved'

Starts == drain' = drain \/ (up /\ drain = "idle" /\ drain' = "take")

\* Nothing happens to the queue ...
Settles ==
  /\ UNCHANGED <<up, events, received, acked, reported, dropped, faults, restarts, current>>
  /\ disk' \in FileOf(disk.events)
  /\ Starts

\* ... or it is saved, beside a drain or by it.
Saves ==
  /\ up /\ UNCHANGED <<up, received, acked, reported, restarts>>
  /\ \/ Saved(events, InFlight) /\ Starts /\ UNCHANGED current
     \/ Saved(events, {}) /\ drain \in {"take", "refused"} /\ drain' \in {"idle", "take"}

LEMMA InFlightIsFirst ==
  ASSUME OutboxKnown
  PROVE  /\ InFlight \in SUBSET Events
         /\ InHand => events # <<>> /\ Head(events) \in InFlight /\ current \in Events
<1>1. CASE InHand
  <2>1. events # <<>> /\ Head(events) = current /\ events \in Seq(Events) /\ InFlight = {current}
    BY <1>1 DEF OutboxKnown, InHand, InFlight
  <2> QED BY <2>1
<1>2. CASE ~InHand
  BY <1>2 DEF InHand, InFlight
<1> QED BY <1>1, <1>2

LEMMA PersistSaves ==
  ASSUME NEW s \in Seq(Events), NEW w, NEW held \in SUBSET Events, NEW next,
         Persist(s, w, held, next)
  PROVE  Saved(s, held)
<1>1. Limited(s, held) \in Seq(Events)
  BY LimitedKeeps DEF Within
<1>2. ToSet(Limited(s, held)) \subseteq Events
  BY <1>1, ToSetOfEvents
<1>3. /\ events' = Limited(s, held)
      /\ waiting' = w \intersect ToSet(Limited(s, held))
      /\ dropped' = dropped \union (ToSet(s) \ ToSet(Limited(s, held)))
  BY DEF Persist
<1>4. waiting' \subseteq Events
  BY <1>2, <1>3
<1>5. \/ ~unsaved' /\ faults' = faults /\ disk' = [events |-> Limited(s, held), waiting |-> waiting']
      \/ unsaved' /\ faults' = faults + 1 /\ disk' = disk
  BY DEF Persist
<1> HIDE DEF Persist
<1> QED BY <1>3, <1>4, <1>5 DEF Saved, FileOf

LEMMA StepsOfOutbox ==
  ASSUME OutboxKnown, OutboxSteps
  PROVE  Settles \/ Saves \/ TakeNext \/ SendSettles \/ Delivered
<1>1. /\ events \in Seq(Events) /\ disk \in FileOf(disk.events)
      /\ InFlight \in SUBSET Events /\ {} \in SUBSET Events
  BY InFlightIsFirst DEF OutboxKnown, FileOf
<1>2. ASSUME NEW e \in Events, Due(e) PROVE Settles
  BY <1>1, <1>2 DEF Due, Settles, Starts, FileOf, history
<1>3. ASSUME NEW e \in Events, Expire(e) PROVE Settles
  BY <1>1, <1>3 DEF Expire, Settles, Starts, memory, history
<1>4. CASE TimerFires
  BY <1>1, <1>4 DEF TimerFires, Settles, Starts, Drained, history
<1>5. CASE Shutdown
  BY <1>1, <1>5 DEF Shutdown, Settles, Starts, Drained, history
<1>6. CASE Recover
  <2>1. Starts /\ up /\ UNCHANGED <<up, received, acked, reported, restarts, current>>
    BY <1>6 DEF Recover, Starts, Drained
  <2>2. CASE unsaved
    <3>1. Persist(events, waiting, InFlight, timer)
      BY <1>6, <2>2 DEF Recover
    <3>2. Saved(events, InFlight)
      BY <1>1, <3>1, PersistSaves
    <3> QED BY <2>1, <3>2 DEF Saves
  <2>3. CASE ~unsaved
    BY <1>1, <1>6, <2>1, <2>3 DEF Recover, Settles
  <2> QED BY <2>2, <2>3
<1>7. CASE TakeSaves
  <2>1. Persist(events, waiting, {}, timer)
    BY <1>7 DEF TakeSaves
  <2>2. Saved(events, {})
    BY <1>1, <2>1, PersistSaves
  <2> QED BY <1>7, <2>2 DEF TakeSaves, Saves
<1>8. CASE TakeNothing
  <2>1. PICK next : Persist(events, waiting, {}, next)
    BY <1>8 DEF TakeNothing
  <2>2. Saved(events, {})
    BY <1>1, <2>1, PersistSaves
  <2> QED BY <1>8, <2>2 DEF TakeNothing, Saves
<1>9. CASE Refused
  <2>1. Persist(events, waiting \union {current}, {}, Scheduled("drain"))
    BY <1>9 DEF Refused
  <2>2. Saved(events, {})
    BY <1>1, <2>1, PersistSaves
  <2> QED BY <1>9, <2>2 DEF Refused, Saves
<1> QED
  BY <1>2, <1>3, <1>4, <1>5, <1>6, <1>7, <1>8, <1>9 DEF OutboxSteps, DrainSteps

\* What Delivered, enqueue() and the first save after a start leave behind.
LEMMA DeliveredSaves ==
  ASSUME OutboxKnown, Delivered
  PROVE  /\ up /\ drain = "sent" /\ drain' \in {"idle", "report"}
         /\ drain' = "report" => current' = current
         /\ Saved(Without(events, current), {})
         /\ Without(events, current) \in Seq(Events)
         /\ UNCHANGED <<up, received, acked, reported, restarts>>
<1>1. Without(events, current) \in Seq(Events)
  BY OnlySeq DEF OutboxKnown, Without
<1>2. Persist(Without(events, current), waiting, {}, timer)
  BY DEF Delivered
<1>3. Saved(Without(events, current), {})
  BY <1>1, <1>2, PersistSaves
<1> QED BY <1>1, <1>3 DEF Delivered

Appended(e) == IF e \in ToSet(events) THEN events ELSE Append(events, e)

LEMMA PutSaves ==
  ASSUME OutboxKnown, NEW e \in Events, Put(e)
  PROVE  /\ up /\ Saved(Appended(e), InFlight) /\ Appended(e) \in Seq(Events)
         /\ ToSet(Appended(e)) = ToSet(events) \union {e}
         /\ events # <<>> => Appended(e) # <<>> /\ Head(Appended(e)) = Head(events)
         /\ acked' = IF unsaved' THEN acked ELSE acked \union {e}
         /\ UNCHANGED <<up, drain, current, received, reported, restarts>>
<1>1. events \in Seq(Events) /\ Len(events) \in Nat /\ InFlight \in SUBSET Events
  BY InFlightIsFirst DEF OutboxKnown
<1>2. Append(events, e) \in Seq(Events) /\ Len(Append(events, e)) = Len(events) + 1
      /\ (\A k \in 1..Len(events) : Append(events, e)[k] = events[k])
      /\ Append(events, e)[Len(events) + 1] = e
  BY <1>1
<1>3. {Append(events, e)[k] : k \in 1..(Len(events) + 1)} = {events[k] : k \in 1..Len(events)} \union {e}
  <2>1. 1..(Len(events) + 1) = (1..Len(events)) \union {Len(events) + 1}
    BY <1>1
  <2> QED BY <1>2, <2>1
<1>4. ToSet(Append(events, e)) = ToSet(events) \union {e}
  BY <1>1, <1>2, <1>3, ToSetOfEvents
<1>5. events # <<>> => Append(events, e) # <<>> /\ Head(Append(events, e)) = Head(events)
  BY <1>1, <1>2
<1>6. Appended(e) \in Seq(Events)
  BY <1>1, <1>2 DEF Appended
<1>7. Persist(Appended(e), waiting, InFlight, Scheduled("drain"))
  BY DEF Put, Appended
<1>8. Saved(Appended(e), InFlight)
  BY <1>1, <1>6, <1>7, PersistSaves
<1>9. ToSet(Appended(e)) = ToSet(events) \union {e}
  BY <1>4 DEF Appended
<1>10. events # <<>> => Appended(e) # <<>> /\ Head(Appended(e)) = Head(events)
  BY <1>5 DEF Appended
<1> QED BY <1>6, <1>8, <1>9, <1>10 DEF Put

LEMMA RestartSaves ==
  ASSUME OutboxKnown, Restart
  PROVE  /\ ~up /\ up' /\ drain' = "take"
         /\ UNCHANGED <<received, acked, reported, restarts, current>>
         /\ Within(events', disk.events) /\ events' \in Seq(Events)
         /\ dropped' = dropped \union (ToSet(disk.events) \ ToSet(events'))
         /\ \/ disk' \in FileOf(events') /\ faults' = faults
            \/ disk' = disk /\ faults' = faults + 1
<1>1. disk.events \in Seq(Events)
  BY DEF OutboxKnown
<1>2. PICK found \in {disk.events, <<>>} :
        /\ events' = Limited(found, {})
        /\ waiting' = disk.waiting \intersect ToSet(events')
        /\ dropped' = dropped \union (ToSet(disk.events) \ ToSet(events'))
        /\ \/ /\ disk' = [events |-> events', waiting |-> waiting'] /\ faults' = faults
           \/ /\ disk' = disk /\ faults' = faults + 1
  BY DEF Restart
<1>3. found \in Seq(Events)
  <2>1. <<>> \in Seq(Events) OBVIOUS
  <2> QED BY <1>1, <1>2, <2>1
<1>4. Within(events', found) /\ events' \in Seq(Events)
  <2>1. {} \in SUBSET Events OBVIOUS
  <2>2. Within(Limited(found, {}), found)
    BY <1>3, <2>1, LimitedKeeps
  <2>3. Within(events', found)
    BY <1>2, <2>2
  <2> QED BY <2>3 DEF Within
<1>5. Within(found, disk.events)
  <2>1. CASE found = disk.events
    BY <1>1, <2>1, WithinItself
  <2>2. CASE found = <<>>
    <3>1. ToSet(found) = {} /\ Len(found) = 0
      BY <2>2 DEF ToSet
    <3> QED BY <1>3, <3>1 DEF Within, InOrder
  <2> QED BY <1>2, <2>1, <2>2
<1>6. Within(events', disk.events)
  BY <1>4, <1>5, WithinTwice
<1>7. waiting' \subseteq Events
  BY <1>2, <1>4, ToSetOfEvents
<1>8. ~up /\ up' /\ drain' = "take" /\ UNCHANGED <<received, acked, reported, restarts, current>>
  BY DEF Restart
<1> QED BY <1>2, <1>4, <1>6, <1>7, <1>8 DEF FileOf

-----------------------------------------------------------------------------
(* What a sample comes to. *)

LEMMA StallsAreNumbers ==
  /\ Stalls \subseteq Errors /\ Stalls \subseteq Events /\ Stalls \subseteq Nat
  /\ None \notin Stalls /\ Events \subseteq Nat
  /\ \A s \in Stalls : s + 1 \notin Stalls /\ s + 1 # None /\ s \in Nat
BY StallsAssumption, ErrorsAssumption, EventsAssumption DEF None

\* An evaluation of the state h: it announces nothing and has no incident, the one it
\* had or the next; or the incident it had; or its end.
Verdict(h, o) ==
  /\ o[1] \in States /\ o[1].delivered = h.delivered
  /\ o[1].samples > 0 => o[1].incident # None
  /\ \/ /\ o[2] = None
        /\ \/ o[1].incident = None /\ ~o[1].alerted
           \/ o[1].incident = h.incident /\ o[1].alerted = h.alerted
           \/ o[1].incident \in Unused /\ o[1].incident = Min(Unused) /\ ~o[1].alerted
     \/ /\ o[2] \in Stalls /\ o[1].incident = o[2] /\ o[1].alerted
        /\ o[2] = h.incident /\ ~h.alerted
        /\ h.delivered = None \/ h.delivered \in cooled
     \/ /\ o[2] \in Events \ {None} /\ h.alerted /\ o[2] = h.incident + 1
        /\ o[1].incident = None /\ ~o[1].alerted

\* What a state may be: a suspicion has an incident, and so has an alert.
Sound(h) ==
  /\ h \in States
  /\ h.samples > 0 => h.incident # None
  /\ h.alerted => h.incident \in Stalls

LEMMA SoundFields ==
  ASSUME NEW h \in States
  PROVE  /\ h.run \in BOOLEAN /\ h.samples \in 0..MinSamples /\ h.incident \in Stalls \union {None}
         /\ h.alerted \in BOOLEAN /\ h.recovery \in 0..1
         /\ h.delivered \in Stalls \union {None} /\ h.pending \in 0..2
BY DEF States

LEMMA FirstUnused == Unused # {} => Min(Unused) \in Unused /\ \A u \in Unused : Min(Unused) <= u
<1> SUFFICES ASSUME Unused # {} PROVE Min(Unused) \in Unused /\ \A u \in Unused : Min(Unused) <= u
  OBVIOUS
<1>1. Unused \in SUBSET Nat
  BY StallsAreNumbers DEF Unused
<1>2. \E m \in Unused : \A k \in Unused : m <= k
  BY <1>1, MinNat
<1> QED BY <1>2 DEF Min

LEMMA ResetIsSound ==
  ASSUME NEW h, Sound(h)
  PROVE  /\ Sound(EndIncident(h)) /\ Sound(ResetFor(h))
         /\ EndIncident(h).incident = None /\ ~EndIncident(h).alerted
         /\ EndIncident(h).delivered = h.delivered
         /\ EndIncident(h).samples = 0 /\ ResetFor(h).samples = 0
         /\ ResetFor(h).incident = None /\ ~ResetFor(h).alerted
         /\ ResetFor(h).delivered = h.delivered
<1>1. h.delivered \in Stalls \union {None} /\ MinSamples \in Nat
  BY SoundFields, MinSamplesAssumption DEF Sound
<1> DEFINE g == EndIncident(h)
<1>2. /\ g.run = FALSE /\ g.samples = 0 /\ g.incident = None /\ g.alerted = FALSE
      /\ g.recovery = 0 /\ g.delivered = h.delivered /\ g.pending = 0
  BY DEF EndIncident, NewHealth
<1>3. g \in States
  <2>1. 0 \in 0..MinSamples /\ 0 \in 0..1 /\ 0 \in 0..2 /\ None \in Stalls \union {None}
    BY <1>1
  <2>2. NewHealth \in States
    BY <2>1 DEF NewHealth, States
  <2>3. [NewHealth EXCEPT !.delivered = h.delivered] \in States
    BY <1>1, <2>2 DEF States
  <2> QED BY <2>3 DEF EndIncident
<1> HIDE DEF g
<1> DEFINE r == [g EXCEPT !.run = TRUE]
<1>4. r \in States
  BY <1>3 DEF States
<1>5. r.samples = 0 /\ r.incident = None /\ r.alerted = FALSE /\ r.delivered = h.delivered
  BY <1>2, <1>3 DEF States
<1>6. ResetFor(h) = r
  BY DEF ResetFor, g
<1> HIDE DEF r
<1>7. Sound(g) /\ Sound(r)
  BY <1>2, <1>3, <1>4, <1>5 DEF Sound
<1> QED BY <1>2, <1>5, <1>6, <1>7 DEF g

LEMMA SuspiciousVerdict ==
  ASSUME NEW h, Sound(h), ~h.alerted, NEW o \in Suspicious(h)
  PROVE  Verdict(h, o)
<1> DEFINE incident == IF h.incident # None THEN h.incident ELSE Min(Unused)
           n == IF h.samples < MinSamples THEN h.samples + 1 ELSE h.samples
           seen == [h EXCEPT !.incident = incident,
                             !.samples = IF @ < MinSamples THEN @ + 1 ELSE @]
           hot == h.delivered # None /\ h.delivered \notin cooled
           alert == [seen EXCEPT !.alerted = TRUE, !.recovery = 0]
<1>1. ~(h.incident = None /\ Unused = {})
  BY DEF Suspicious
<1>2. \/ o = <<seen, None>>
      \/ o = <<alert, incident>> /\ seen.samples >= MinSamples /\ ~hot
  BY <1>1 DEF Suspicious, Quiet
<1>3. /\ h.run \in BOOLEAN /\ h.samples \in 0..MinSamples /\ h.incident \in Stalls \union {None}
      /\ h.alerted \in BOOLEAN /\ h.recovery \in 0..1
      /\ h.delivered \in Stalls \union {None} /\ h.pending \in 0..2
  BY SoundFields DEF Sound
<1>4. h.incident = None => incident \in Unused /\ incident = Min(Unused)
  BY <1>1, FirstUnused
<1>5. incident \in Stalls /\ incident # None
  BY <1>3, <1>4, StallsAreNumbers DEF Unused
<1>6. MinSamples \in Nat /\ MinSamples > 1
  BY MinSamplesAssumption
<1>7. n \in 0..MinSamples
  BY <1>3, <1>6
<1>8. h \in States
  BY DEF Sound
<1> HIDE DEF incident
<1>9. /\ seen \in States /\ seen.incident = incident /\ seen.samples = n
      /\ seen.alerted = h.alerted /\ seen.delivered = h.delivered
  BY <1>5, <1>7, <1>8 DEF States
<1> HIDE DEF seen
<1>10. /\ alert \in States /\ alert.incident = incident /\ alert.samples = n
       /\ alert.alerted /\ alert.delivered = h.delivered
  <2> HIDE DEF n
  <2>1. alert \in States
    <3>1. 0 \in 0..1 /\ TRUE \in BOOLEAN OBVIOUS
    <3>2. seen \in States BY <1>9
    <3> QED BY <3>1, <3>2 DEF States
  <2>2. alert.incident = seen.incident /\ alert.samples = seen.samples /\ alert.alerted = TRUE
        /\ alert.delivered = seen.delivered
    BY <1>9 DEF States
  <2> QED BY <1>9, <2>1, <2>2
<1> HIDE DEF alert
<1>11. CASE o = <<seen, None>>
  <2>1. o[1] = seen /\ o[2] = None
    BY <1>11
  <2>2. \/ seen.incident = h.incident /\ seen.alerted = h.alerted
        \/ seen.incident \in Unused /\ seen.incident = Min(Unused) /\ ~seen.alerted
    BY <1>4, <1>9 DEF incident
  <2> QED BY <1>5, <1>9, <2>1, <2>2 DEF Verdict
<1>12. CASE o = <<alert, incident>> /\ seen.samples >= MinSamples /\ ~hot
  <2>1. o[1] = alert /\ o[2] = incident
    BY <1>12
  <2>2. h.samples > 0
    BY <1>3, <1>6, <1>9, <1>12
  <2>3. h.incident # None /\ incident = h.incident
    BY <2>2 DEF Sound, incident
  <2> QED BY <1>5, <1>10, <1>12, <2>1, <2>3 DEF Verdict
<1> QED BY <1>2, <1>11, <1>12

LEMMA JudgedVerdict ==
  ASSUME NEW h, Sound(h), NEW o \in Judged(h)
  PROVE  Verdict(h, o)
<1>1. /\ h \in States /\ h.run \in BOOLEAN /\ h.samples \in 0..MinSamples
      /\ h.incident \in Stalls \union {None} /\ h.alerted \in BOOLEAN /\ h.recovery \in 0..1
      /\ h.delivered \in Stalls \union {None} /\ h.pending \in 0..2
  BY SoundFields DEF Sound
<1>2. CASE o = <<h, None>>
  <2>1. o[1] = h /\ o[2] = None BY <1>2
  <2> QED BY <1>1, <2>1 DEF Verdict, Sound
<1>3. CASE ~h.alerted /\ o = <<Unsuspicious(h), None>>
  <2> DEFINE u == Unsuspicious(h)
  <2>1. MinSamples \in Nat BY MinSamplesAssumption
  <2>2. u \in States
    <3>1. 0 \in 0..MinSamples /\ 0 \in 0..1 /\ None \in Stalls \union {None}
      BY <2>1
    <3>2. h \in States BY <1>1
    <3>3. [h EXCEPT !.samples = 0] \in States BY <3>1, <3>2 DEF States
    <3>4. [[h EXCEPT !.samples = 0] EXCEPT !.incident = None] \in States BY <3>1, <3>3 DEF States
    <3>5. [[[h EXCEPT !.samples = 0] EXCEPT !.incident = None] EXCEPT !.recovery = 0] \in States
      BY <3>1, <3>4 DEF States
    <3> QED BY <3>5 DEF Unsuspicious
  <2>3. u.samples = 0 /\ u.incident = None /\ u.alerted = h.alerted /\ u.delivered = h.delivered
    BY <1>1 DEF Unsuspicious, States
  <2> HIDE DEF u
  <2>4. o[1] = u /\ o[2] = None BY <1>3 DEF u
  <2> QED BY <1>3, <2>2, <2>3, <2>4 DEF Verdict
<1>4. CASE h.alerted /\ o = <<ResetFor(h), RecoveryOf(h.incident)>>
  <2> DEFINE g == ResetFor(h)
  <2>1. o[1] = g /\ o[2] = RecoveryOf(h.incident)
    BY <1>4
  <2>2. Sound(g) /\ g.incident = None /\ ~g.alerted /\ g.delivered = h.delivered /\ g.samples = 0
    BY ResetIsSound
  <2>3. h.incident \in Stalls
    BY <1>4 DEF Sound
  <2>4. o[2] = None \/ (o[2] \in Events \ {None} /\ o[2] = h.incident + 1)
    BY <2>1, <2>3, StallsAreNumbers DEF RecoveryOf
  <2> HIDE DEF g
  <2>5. g \in States
    BY <2>2 DEF Sound
  <2>6. CASE o[2] = None
    BY <2>1, <2>2, <2>5, <2>6 DEF Verdict
  <2>7. CASE o[2] \in Events \ {None} /\ o[2] = h.incident + 1
    <3>1. /\ o[1] \in States /\ o[1].delivered = h.delivered /\ ~(o[1].samples > 0)
          /\ o[1].incident = None /\ ~o[1].alerted
      BY <2>1, <2>2, <2>5
    <3> QED BY <1>4, <2>7, <3>1, Zenon DEF Verdict
  <2> QED BY <2>4, <2>6, <2>7
<1>5. CASE h.alerted /\ o = <<[h EXCEPT !.recovery = 1], None>>
  <2> DEFINE g == [h EXCEPT !.recovery = 1]
  <2>1. g \in States /\ g.samples = h.samples /\ g.incident = h.incident /\ g.alerted = h.alerted
        /\ g.delivered = h.delivered
    BY <1>1 DEF States
  <2> HIDE DEF g
  <2>2. o[1] = g /\ o[2] = None BY <1>5 DEF g
  <2> QED BY <2>1, <2>2 DEF Verdict, Sound
<1>6. \/ o = <<h, None>>
      \/ ~h.alerted /\ o = <<Unsuspicious(h), None>>
      \/ h.alerted /\ o = <<ResetFor(h), RecoveryOf(h.incident)>>
      \/ h.alerted /\ o = <<[h EXCEPT !.recovery = 1], None>>
      \/ ~h.alerted /\ o \in Suspicious(h)
  BY DEF Judged, Quiet, Recovering
<1> QED BY <1>2, <1>3, <1>4, <1>5, <1>6, SuspiciousVerdict

LEMMA EvaluationVerdict ==
  ASSUME NEW h, Sound(h), NEW o \in Evaluations(h)
  PROVE  Verdict(h, o)
<1>1. /\ h \in States /\ h.run \in BOOLEAN /\ h.samples \in 0..MinSamples
      /\ h.incident \in Stalls \union {None} /\ h.alerted \in BOOLEAN /\ h.recovery \in 0..1
      /\ h.delivered \in Stalls \union {None} /\ h.pending \in 0..2
  BY SoundFields DEF Sound
<1>2. CASE o = <<h, None>>
  <2>1. o[1] = h /\ o[2] = None BY <1>2
  <2> QED BY <1>1, <2>1 DEF Verdict, Sound
<1>3. CASE o = <<EndIncident(h), None>>
  <2>1. o[1] = EndIncident(h) /\ o[2] = None BY <1>3
  <2>2. EndIncident(h) \in States BY ResetIsSound DEF Sound
  <2> QED BY <2>1, <2>2, ResetIsSound DEF Verdict
<1>4. CASE o \in Judged(ResetFor(h))
  <2> DEFINE g == ResetFor(h)
  <2>1. Sound(g) /\ g.incident = None /\ ~g.alerted /\ g.delivered = h.delivered
    BY ResetIsSound
  <2> HIDE DEF g
  <2>2. Verdict(g, o)
    BY <1>4, <2>1, JudgedVerdict DEF g
  <2> QED BY <2>1, <2>2, StallsAreNumbers DEF Verdict
<1>5. CASE o = <<[h EXCEPT !.pending = 1], None>>
  <2> DEFINE g == [h EXCEPT !.pending = 1]
  <2>1. g \in States /\ g.samples = h.samples /\ g.incident = h.incident /\ g.alerted = h.alerted
        /\ g.delivered = h.delivered
    BY <1>1 DEF States
  <2> HIDE DEF g
  <2>2. o[1] = g /\ o[2] = None BY <1>5 DEF g
  <2> QED BY <2>1, <2>2 DEF Verdict, Sound
<1>6. CASE o \in Judged([h EXCEPT !.pending = 0])
  <2> DEFINE g == [h EXCEPT !.pending = 0]
  <2>1. g \in States /\ g.samples = h.samples /\ g.incident = h.incident /\ g.alerted = h.alerted
        /\ g.delivered = h.delivered
    BY <1>1 DEF States
  <2> HIDE DEF g
  <2>2. Sound(g)
    BY <2>1 DEF Sound
  <2>3. Verdict(g, o)
    BY <1>6, <2>2, JudgedVerdict DEF g
  <2> QED BY <2>1, <2>3 DEF Verdict
<1>7. \/ o = <<h, None>> \/ o = <<EndIncident(h), None>> \/ o \in Judged(ResetFor(h))
      \/ o \in Fresh(h)
  BY DEF Evaluations, Quiet
<1>8. o \in Fresh(h) =>
        o = <<[h EXCEPT !.pending = 1], None>> \/ o \in Judged([h EXCEPT !.pending = 0])
  BY DEF Fresh, Quiet
<1> QED BY <1>2, <1>3, <1>4, <1>5, <1>6, <1>7, <1>8

-----------------------------------------------------------------------------
(* What is known of the outbox and the monitor at any time. *)

\* The outcome in hand is an alert, or the end of an incident whose alert the outbox
\* has acknowledged.
OutcomeKnown ==
  /\ Sound(outcome[1]) /\ outcome[1].delivered = health.delivered
  /\ outcome[2] \in Events
  /\ \/ /\ outcome[2] \in Stalls \intersect announced
        /\ outcome[1].incident = outcome[2] /\ outcome[1].alerted
     \/ \E s \in Stalls \intersect acked \intersect announced :
          outcome[2] = s + 1 /\ outcome[1].incident = None /\ ~outcome[1].alerted
  /\ monitor = "save" => outcome[2] \in acked

\* An alert that is on record has been acknowledged.
AlertKnown(h) == Sound(h) /\ (h.alerted => h.incident \in announced \intersect acked)

MonitorKnown ==
  /\ announced \subseteq Stalls /\ monitor \in {"idle", "enqueue", "save"}
  /\ AlertKnown(health) /\ AlertKnown(healthFile)
  /\ ~up => monitor = "idle"
  /\ monitor # "idle" => OutcomeKnown

Known == OutboxKnown /\ MonitorKnown

LEMMA SavedIsKnown ==
  ASSUME OutboxKnown, NEW s \in Seq(Events), NEW held \in SUBSET Events, Saved(s, held)
  PROVE  /\ events' \in Seq(Events) /\ Within(events', s)
         /\ disk' \in [events : Seq(Events), waiting : SUBSET Events]
         /\ faults' \in Nat
         /\ s # <<>> /\ Head(s) \in held => events' # <<>> /\ Head(events') = Head(s)
         /\ ToSet(s) \intersect held \subseteq ToSet(events')
<1>1. /\ Within(events', s) /\ ToSet(s) \intersect held \subseteq ToSet(events')
      /\ s # <<>> /\ Head(s) \in held => events' # <<>> /\ Head(events') = Head(s)
  <2>1. events' = Limited(s, held)
    BY DEF Saved
  <2> QED BY <2>1, LimitedKeeps
<1>2. events' \in Seq(Events)
  BY <1>1 DEF Within
<1>3. faults' \in Nat
  BY DEF Saved, OutboxKnown
<1>4. disk' \in [events : Seq(Events), waiting : SUBSET Events]
  BY <1>2 DEF Saved, OutboxKnown, FileOf
<1> QED BY <1>1, <1>2, <1>3, <1>4

LEMMA OutboxStepKnown == ASSUME OutboxKnown, OutboxSteps PROVE OutboxKnown'
<1>1. CASE Settles
  <2>1. disk' \in [events : Seq(Events), waiting : SUBSET Events]
    <3>1. disk.events \in Seq(Events)
      BY DEF OutboxKnown
    <3>2. disk' \in [events : {disk.events}, waiting : SUBSET Events]
      BY <1>1 DEF Settles, FileOf
    <3> QED BY <3>1, <3>2
  <2>2. /\ UNCHANGED <<up, events, received, faults, restarts, current>>
        /\ drain' = drain \/ (up /\ drain = "idle" /\ drain' = "take")
    BY <1>1 DEF Settles, Starts
  <2>3. CASE drain' = drain
    BY <2>1, <2>2, <2>3 DEF OutboxKnown, InHand
  <2>4. CASE up /\ drain = "idle" /\ drain' = "take"
    BY <2>1, <2>2, <2>4 DEF OutboxKnown, InHand, Phases
  <2> QED BY <2>2, <2>3, <2>4
<1>2. CASE Saves
  <2>1. events \in Seq(Events) /\ InFlight \in SUBSET Events /\ {} \in SUBSET Events
    BY InFlightIsFirst DEF OutboxKnown
  <2>2. CASE Saved(events, InFlight) /\ Starts /\ UNCHANGED current
    <3>1. /\ events' \in Seq(Events) /\ faults' \in Nat
          /\ disk' \in [events : Seq(Events), waiting : SUBSET Events]
          /\ events # <<>> /\ Head(events) \in InFlight => events' # <<>> /\ Head(events') = Head(events)
      BY <2>1, <2>2, SavedIsKnown
    <3>2. InHand => events' # <<>> /\ Head(events') = Head(events)
      BY <3>1, InFlightIsFirst
    <3> QED BY <1>2, <2>2, <3>1, <3>2 DEF Saves, Starts, OutboxKnown, InHand, Phases
  <2>3. CASE Saved(events, {}) /\ drain' \in {"idle", "take"}
    <3>1. /\ events' \in Seq(Events) /\ faults' \in Nat
          /\ disk' \in [events : Seq(Events), waiting : SUBSET Events]
      BY <2>1, <2>3, SavedIsKnown
    <3> QED BY <1>2, <2>3, <3>1 DEF Saves, OutboxKnown, InHand, Phases
  <2> QED BY <1>2, <2>2, <2>3 DEF Saves
<1>3. CASE TakeNext
  <2>1. events \in Seq(Events) /\ {} \in SUBSET Events
    BY DEF OutboxKnown
  <2>2. Limited(events, {}) \in Seq(Events)
    BY <2>1, LimitedKeeps DEF Within
  <2> QED BY <1>3, <2>2 DEF TakeNext, OutboxKnown, InHand, Phases
<1>4. CASE SendSettles
  <2>1. current \in Events
    BY <1>4, InFlightIsFirst DEF SendSettles, InHand
  <2>2. received' \in [Events -> Nat]
    BY <1>4, <2>1 DEF SendSettles, OutboxKnown
  <2>3. drain' = "sent" => received'[current] > 0
    BY <1>4, <2>1 DEF SendSettles, OutboxKnown
  <2> QED BY <1>4, <2>2, <2>3 DEF SendSettles, OutboxKnown, InHand, Phases
<1>5. CASE Delivered
  <2>1. /\ up /\ drain' \in {"idle", "report"}
        /\ Saved(Without(events, current), {}) /\ Without(events, current) \in Seq(Events)
        /\ UNCHANGED <<up, received, acked, reported, restarts>>
    BY <1>5, DeliveredSaves
  <2>2. {} \in SUBSET Events OBVIOUS
  <2>3. /\ events' \in Seq(Events) /\ faults' \in Nat
        /\ disk' \in [events : Seq(Events), waiting : SUBSET Events]
    BY <2>1, <2>2, SavedIsKnown
  <2> QED BY <2>1, <2>3 DEF OutboxKnown, InHand, Phases
<1> QED BY <1>1, <1>2, <1>3, <1>4, <1>5, StepsOfOutbox

LEMMA PutKnown == ASSUME OutboxKnown, NEW e \in Events, Put(e) PROVE OutboxKnown'
<1>1. /\ up /\ Saved(Appended(e), InFlight) /\ Appended(e) \in Seq(Events)
      /\ events # <<>> => Appended(e) # <<>> /\ Head(Appended(e)) = Head(events)
      /\ UNCHANGED <<up, drain, current, received, reported, restarts>>
  BY PutSaves
<1>2. InFlight \in SUBSET Events
  BY InFlightIsFirst
<1>3. /\ events' \in Seq(Events) /\ faults' \in Nat
      /\ disk' \in [events : Seq(Events), waiting : SUBSET Events]
      /\ Appended(e) # <<>> /\ Head(Appended(e)) \in InFlight =>
           events' # <<>> /\ Head(events') = Head(Appended(e))
  BY <1>1, <1>2, SavedIsKnown
<1>4. InHand => events' # <<>> /\ Head(events') = current
  BY <1>1, <1>3, InFlightIsFirst DEF OutboxKnown
<1> QED BY <1>1, <1>3, <1>4 DEF OutboxKnown, InHand

LEMMA ExitKnown == ASSUME OutboxKnown, Exit PROVE OutboxKnown'
<1>1. <<>> \in Seq(Events) OBVIOUS
<1> QED BY <1>1 DEF Exit, OutboxKnown, InHand, Phases, history

LEMMA RestartKnown == ASSUME OutboxKnown, Restart PROVE OutboxKnown'
<1>1. /\ up' /\ drain' = "take" /\ UNCHANGED <<received, restarts>> /\ events' \in Seq(Events)
      /\ \/ disk' \in FileOf(events') /\ faults' = faults
         \/ disk' = disk /\ faults' = faults + 1
  BY RestartSaves
<1>2. disk' \in [events : Seq(Events), waiting : SUBSET Events]
  BY <1>1 DEF OutboxKnown, FileOf
<1> QED BY <1>1, <1>2 DEF OutboxKnown, InHand, Phases

\* What the monitor does besides asking the outbox leaves that alone, but for the
\* faults it counts.
Apart ==
  /\ UNCHANGED <<up, events, disk, received, dropped, acked, restarts>>
  /\ faults' \in {faults, faults + 1}

LEMMA MonitorApart ==
  /\ SampleQuiet \/ SampleEvent \/ SaveHealth \/ (\E s \in Stalls : Cool(s)) =>
       Apart /\ UNCHANGED <<drain, current, reported>>
  /\ Acknowledge => Apart /\ drain = "report" /\ drain' = "take" /\ reported' = reported \union {current}
<1>1. SampleQuiet \/ SampleEvent => Apart /\ UNCHANGED <<drain, current, reported>>
  BY DEF SampleQuiet, SampleEvent, SampleBegins, outbox, memory, history, Apart
<1>2. SaveHealth => Apart /\ UNCHANGED <<drain, current, reported>>
  BY DEF SaveHealth, memory, history, Apart
<1>3. (\E s \in Stalls : Cool(s)) => Apart /\ UNCHANGED <<drain, current, reported>>
  BY DEF Cool, outbox, memory, history, Apart
<1>4. Acknowledge => Apart /\ drain = "report" /\ drain' = "take" /\ reported' = reported \union {current}
  BY DEF Acknowledge, Reported, Apart
<1> QED BY <1>1, <1>2, <1>3, <1>4

LEMMA ApartKnown ==
  ASSUME OutboxKnown, Apart, UNCHANGED <<drain, current>> \/ (up /\ drain' = "take")
  PROVE  OutboxKnown'
<1>1. faults' \in Nat
  BY DEF OutboxKnown, Apart
<1> QED BY <1>1 DEF OutboxKnown, Apart, InHand, Phases

LEMMA OutboxStaysKnown == ASSUME Known, [HealthNext]_allVars PROVE OutboxKnown'
<1>1. OutboxKnown
  BY DEF Known
<1>2. CASE SampleQuiet \/ SampleEvent \/ SaveHealth \/ \E s \in Stalls : Cool(s)
  BY <1>1, <1>2, MonitorApart, ApartKnown
<1>3. CASE Acknowledge
  <2>1. up
    BY <1>3 DEF Acknowledge, Reported
  <2> QED BY <1>1, <1>3, <2>1, MonitorApart, ApartKnown
<1>4. CASE Announce
  <2>1. outcome[2] \in Events /\ Put(outcome[2])
    BY <1>4 DEF Announce, Known, MonitorKnown, OutcomeKnown
  <2> QED BY <1>1, <2>1, PutKnown
<1>5. CASE OutboxAlone
  BY <1>1, <1>5, OutboxStepKnown DEF OutboxAlone
<1>6. CASE HealthExit
  BY <1>1, <1>6, ExitKnown DEF HealthExit
<1>7. CASE HealthRestart
  BY <1>1, <1>7, RestartKnown DEF HealthRestart
<1>8. CASE UNCHANGED allVars
  <2>1. Apart /\ UNCHANGED <<drain, current>>
    BY <1>8 DEF Apart, allVars, vars, memory, history
  <2> QED BY <1>1, <2>1, ApartKnown
<1> QED BY <1>2, <1>3, <1>4, <1>5, <1>6, <1>7, <1>8 DEF HealthNext

\* An alert on record stays known while more is announced and acknowledged.
LEMMA AlertStaysKnown ==
  ASSUME NEW h, AlertKnown(h), announced \subseteq announced', acked \subseteq acked'
  PROVE  Sound(h) /\ (h.alerted => h.incident \in announced' \intersect acked')
BY DEF AlertKnown

LEMMA VerdictIsSound ==
  ASSUME NEW h, NEW o, Verdict(h, o), AlertKnown(h), announced \subseteq Stalls
  PROVE  /\ Sound(o[1]) /\ o[1].delivered = h.delivered
         /\ o[2] = None => (o[1].alerted => o[1].incident \in announced \intersect acked)
         /\ o[2] # None =>
              \/ /\ o[2] \in Stalls /\ o[1].incident = o[2] /\ o[1].alerted
                 /\ o[2] = h.incident /\ ~h.alerted
                 /\ h.delivered = None \/ h.delivered \in cooled
              \/ /\ o[2] \in Events /\ o[2] \notin Stalls
                 /\ h.alerted /\ h.incident \in Stalls \intersect acked \intersect announced
                 /\ o[2] = h.incident + 1 /\ o[1].incident = None /\ ~o[1].alerted
<1>1. o[1] \in States /\ (o[1].samples > 0 => o[1].incident # None)
  BY DEF Verdict
<1>2. h.alerted => h.incident \in Stalls \intersect acked \intersect announced
  BY DEF AlertKnown
<1>3. CASE o[2] = None
  <2>1. o[1].alerted => o[1].incident \in announced \intersect acked
    BY <1>2, <1>3, StallsAreNumbers DEF Verdict
  <2> QED BY <1>1, <1>3, <2>1 DEF Sound, Verdict
<1>4. CASE o[2] # None
  <2>1. \/ /\ o[2] \in Stalls /\ o[1].incident = o[2] /\ o[1].alerted
           /\ o[2] = h.incident /\ ~h.alerted
           /\ h.delivered = None \/ h.delivered \in cooled
        \/ /\ o[2] \in Events \ {None} /\ h.alerted /\ o[2] = h.incident + 1
           /\ o[1].incident = None /\ ~o[1].alerted
    BY <1>4 DEF Verdict
  <2>2. o[1].alerted => o[1].incident \in Stalls
    BY <2>1
  <2>3. h.alerted /\ o[2] = h.incident + 1 => o[2] \notin Stalls
    BY <1>2, StallsAreNumbers
  <2> QED BY <1>1, <1>2, <1>4, <2>1, <2>2, <2>3 DEF Sound, Verdict
<1> QED BY <1>3, <1>4

LEMMA MonitorStaysKnown == ASSUME Known, [HealthNext]_allVars PROVE MonitorKnown'
<1>1. /\ announced \subseteq Stalls /\ AlertKnown(health) /\ AlertKnown(healthFile)
      /\ Sound(health) /\ Sound(healthFile) /\ OutboxKnown
  BY DEF Known, MonitorKnown, AlertKnown
<1>2. CASE SampleQuiet
  <2>1. PICK o \in Evaluations(health) : o[2] = None /\ health' = o[1] /\ healthFile' = o[1]
    BY <1>2 DEF SampleQuiet
  <2>2. Verdict(health, o)
    BY <1>1, EvaluationVerdict
  <2>3. Sound(o[1]) /\ (o[1].alerted => o[1].incident \in announced \intersect acked)
    BY <1>1, <2>1, <2>2, VerdictIsSound
  <2>4. monitor' = "idle" /\ announced' = announced /\ acked' = acked
    BY <1>2, MonitorApart DEF SampleQuiet, SampleBegins, Apart
  <2> QED BY <1>1, <2>1, <2>3, <2>4 DEF MonitorKnown, AlertKnown
<1>3. CASE SampleEvent
  <2> DEFINE o == outcome'
  <2>1. o \in Evaluations(health) /\ o[2] # None /\ announced' = announced \union ({o[2]} \intersect Stalls)
    BY <1>3 DEF SampleEvent
  <2>2. Verdict(health, o)
    BY <1>1, <2>1, EvaluationVerdict
  <2>3. up' /\ monitor' = "enqueue" /\ acked' = acked /\ UNCHANGED <<health, healthFile>>
    BY <1>3, MonitorApart DEF SampleEvent, SampleBegins, Apart
  <2>4. announced \subseteq announced' /\ announced' \subseteq Stalls
    BY <1>1, <2>1
  <2>5. AlertKnown(health)' /\ AlertKnown(healthFile)'
    BY <1>1, <2>3, <2>4, AlertStaysKnown DEF AlertKnown
  <2> HIDE DEF o
  <2>6. /\ Sound(o[1]) /\ o[1].delivered = health.delivered
        /\ \/ /\ o[2] \in Stalls /\ o[1].incident = o[2] /\ o[1].alerted
           \/ /\ o[2] \in Events /\ o[2] \notin Stalls
              /\ health.incident \in Stalls \intersect acked \intersect announced
              /\ o[2] = health.incident + 1 /\ o[1].incident = None /\ ~o[1].alerted
    BY <1>1, <2>1, <2>2, VerdictIsSound
  <2>7. o[2] \in Events
    BY <2>6, StallsAreNumbers
  <2>8. \/ /\ o[2] \in Stalls \intersect announced' /\ o[1].incident = o[2] /\ o[1].alerted
        \/ \E s \in Stalls \intersect acked' \intersect announced' :
             o[2] = s + 1 /\ o[1].incident = None /\ ~o[1].alerted
    BY <2>1, <2>3, <2>4, <2>6
  <2>9. OutcomeKnown'
    BY <2>3, <2>6, <2>7, <2>8 DEF OutcomeKnown, o
  <2> QED BY <2>3, <2>4, <2>5, <2>9 DEF MonitorKnown
<1>4. CASE Announce
  <2>1. OutcomeKnown /\ outcome[2] \in Events /\ Put(outcome[2]) /\ up' = up
    BY <1>4 DEF Announce, Known, MonitorKnown, OutcomeKnown, Put
  <2>2. /\ up /\ acked' = IF unsaved' THEN acked ELSE acked \union {outcome[2]}
        /\ acked \subseteq acked' /\ announced \subseteq announced'
        /\ announced' = announced /\ UNCHANGED <<health, healthFile>>
    BY <1>1, <1>4, <2>1, PutSaves DEF Announce
  <2>3. AlertKnown(health)' /\ AlertKnown(healthFile)'
    BY <1>1, <2>2, AlertStaysKnown DEF AlertKnown
  <2>4. CASE unsaved'
    <3>1. monitor' = "idle" BY <1>4, <2>4 DEF Announce
    <3> QED BY <1>1, <2>2, <2>3, <3>1 DEF MonitorKnown
  <2>5. CASE ~unsaved'
    <3>1. monitor' = "save" /\ outcome' = outcome
      BY <1>4, <2>5 DEF Announce
    <3>2. OutcomeKnown'
      BY <2>1, <2>2, <2>5, <3>1 DEF OutcomeKnown
    <3> QED BY <1>1, <2>1, <2>2, <2>3, <3>1, <3>2 DEF MonitorKnown
  <2> QED BY <2>4, <2>5
<1>5. CASE SaveHealth
  <2>1. OutcomeKnown /\ monitor' = "idle" /\ announced' = announced /\ acked' = acked
    BY <1>5, MonitorApart DEF SaveHealth, Known, MonitorKnown, Apart
  <2>2. AlertKnown(outcome[1])
    BY <1>5, <2>1, StallsAreNumbers DEF OutcomeKnown, AlertKnown, SaveHealth
  <2>3. \/ health' = outcome[1] /\ healthFile' = outcome[1]
        \/ UNCHANGED <<health, healthFile>>
    BY <1>5 DEF SaveHealth
  <2> QED BY <1>1, <2>1, <2>2, <2>3 DEF MonitorKnown, AlertKnown
<1>6. CASE Acknowledge
  <2>1. monitor' = "idle" /\ announced' = announced /\ acked' = acked
    BY <1>6, MonitorApart DEF Acknowledge, Apart
  <2> DEFINE g == [health EXCEPT !.delivered = current]
  <2>2. \/ health' = health \/ (current \in Stalls /\ health' = g)
    BY <1>6 DEF Acknowledge
  <2>3. healthFile' \in {healthFile, health'}
    BY <1>6 DEF Acknowledge
  <2>4. current \in Stalls => g \in States /\ g.samples = health.samples
                              /\ g.incident = health.incident /\ g.alerted = health.alerted
    BY <1>1 DEF Sound, States
  <2> HIDE DEF g
  <2>5. AlertKnown(health)'
    BY <1>1, <2>1, <2>2, <2>4 DEF AlertKnown, Sound
  <2>6. AlertKnown(healthFile)'
    BY <1>1, <2>1, <2>3, <2>5 DEF AlertKnown
  <2> QED BY <1>1, <2>1, <2>5, <2>6 DEF MonitorKnown
<1>7. CASE \E s \in Stalls : Cool(s)
  <2>1. UNCHANGED <<up, acked, health, healthFile, monitor, outcome, announced>>
    BY <1>7, MonitorApart DEF Cool, Apart
  <2> QED BY <2>1 DEF Known, MonitorKnown, AlertKnown, OutcomeKnown
<1>8. CASE OutboxAlone
  <2>1. up' = up
    BY <1>8 DEF OutboxAlone, OutboxSteps, DrainSteps, Due, Expire, TimerFires, Recover, TakeSaves,
                TakeNothing, TakeNext, SendSettles, Refused, Delivered, Shutdown
  <2>3. UNCHANGED <<health, healthFile, monitor, outcome, announced>>
    BY <1>8 DEF OutboxAlone, healthVars
  <2>4. acked' = acked
    <3>1. Settles \/ Saves \/ TakeNext \/ SendSettles \/ Delivered => acked' = acked
      BY DEF Settles, Saves, TakeNext, SendSettles, Delivered
    <3> QED BY <1>1, <1>8, <3>1, StepsOfOutbox DEF OutboxAlone
  <2> QED BY <2>1, <2>3, <2>4 DEF Known, MonitorKnown, AlertKnown, OutcomeKnown
<1>9. CASE HealthExit
  <2>1. /\ health' = NewHealth /\ monitor' = "idle" /\ acked' = acked
        /\ UNCHANGED <<healthFile, announced>>
    BY <1>9 DEF HealthExit, Exit, history
  <2>2. Sound(NewHealth) /\ ~NewHealth.alerted
    <3>1. MinSamples \in Nat BY MinSamplesAssumption
    <3>2. 0 \in 0..MinSamples /\ 0 \in 0..1 /\ 0 \in 0..2 /\ None \in Stalls \union {None}
      BY <3>1
    <3> QED BY <3>2 DEF Sound, NewHealth, States
  <2> QED BY <1>1, <2>1, <2>2 DEF MonitorKnown, AlertKnown
<1>10. CASE HealthRestart
  <2>1. /\ health' = Loaded(healthFile) /\ acked' = acked /\ monitor' = monitor
        /\ ~up /\ UNCHANGED <<healthFile, announced>>
    BY <1>10, <1>1, RestartSaves DEF HealthRestart
  <2>2. monitor = "idle"
    BY <2>1 DEF Known, MonitorKnown
  <2> DEFINE g == Loaded(healthFile)
  <2>3. /\ g \in States /\ g.samples = healthFile.samples /\ g.incident = healthFile.incident
        /\ g.alerted = healthFile.alerted
    BY <1>1 DEF Sound, States, Loaded
  <2> HIDE DEF g
  <2>4. AlertKnown(g)
    BY <1>1, <2>3 DEF AlertKnown, Sound
  <2> QED BY <1>1, <2>1, <2>2, <2>4 DEF MonitorKnown, AlertKnown, g
<1>11. CASE UNCHANGED allVars
  BY <1>11 DEF allVars, vars, history, healthVars, Known, MonitorKnown, AlertKnown, OutcomeKnown
<1> QED
  BY <1>2, <1>3, <1>4, <1>5, <1>6, <1>7, <1>8, <1>9, <1>10, <1>11 DEF HealthNext

LEMMA InitiallyKnown == ASSUME HealthInit PROVE Known
<1>1. <<>> \in Seq(Events) /\ MinSamples \in Nat
  BY MinSamplesAssumption
<1>2. OutboxKnown
  BY <1>1 DEF HealthInit, Init, OutboxKnown, Empty, InHand, Phases
<1>3. Sound(NewHealth) /\ ~NewHealth.alerted
  <2>1. 0 \in 0..MinSamples /\ 0 \in 0..1 /\ 0 \in 0..2 /\ None \in Stalls \union {None}
    BY <1>1
  <2> QED BY <2>1 DEF Sound, NewHealth, States
<1>4. MonitorKnown
  BY <1>3 DEF HealthInit, Init, MonitorKnown, AlertKnown
<1> QED BY <1>2, <1>4 DEF Known

LEMMA AlwaysKnown == HealthSpec => []Known
<1>1. HealthInit => Known BY InitiallyKnown
<1>2. Known /\ [HealthNext]_allVars => Known'
  BY OutboxStaysKnown, MonitorStaysKnown DEF Known
<1> QED BY <1>1, <1>2, PTL DEF HealthSpec

-----------------------------------------------------------------------------
(***************************************************************************)
(* What was acknowledged is kept.  While the program runs, whatever the    *)
(* file holds is queued as well, unless the service has it or it was given *)
(* up: the next save puts nothing less into the file.                      *)
(***************************************************************************)

Cared(e) == e \in ToSet(events) \/ received[e] > 0 \/ e \in dropped

KeptInv ==
  /\ AcknowledgedIsKept /\ acked \subseteq Events
  /\ up => \A e \in ToSet(disk.events) : Cared(e)

LEMMA SavedKeeps ==
  ASSUME OutboxKnown, KeptInv, up, up', UNCHANGED received,
         NEW s \in Seq(Events), NEW held, Saved(s, held),
         \A e \in ToSet(events) : e \in ToSet(s) \/ received[e] > 0,
         acked' \subseteq Events,
         \A e \in acked' : e \in acked \/ (~unsaved' /\ e \in ToSet(s))
  PROVE  KeptInv'
<1>1. /\ dropped' = dropped \union (ToSet(s) \ ToSet(events'))
      /\ \/ ~unsaved' /\ disk'.events = events'
         \/ unsaved' /\ disk' = disk
  BY DEF Saved, FileOf
<1>2. \A e : Cared(e) => Cared(e)'
  BY <1>1 DEF Cared
<1>3. \A e \in ToSet(disk.events) : Cared(e)'
  BY <1>2 DEF KeptInv
<1>4. \A e \in ToSet(s) : Cared(e)'
  BY <1>1 DEF Cared
<1>5. \A e \in acked : e \in ToSet(disk.events) \/ Cared(e)'
  BY <1>2 DEF KeptInv, AcknowledgedIsKept, Cared
<1>6. \A e \in acked : (e \in ToSet(disk'.events) \/ received'[e] > 0 \/ e \in dropped')
  <2>1. CASE disk'.events = events'
    <3>1. \A e \in acked : Cared(e)'
      BY <1>3, <1>5
    <3> QED BY <2>1, <3>1 DEF Cared
  <2>2. CASE disk' = disk
    BY <1>1, <2>2 DEF KeptInv, AcknowledgedIsKept
  <2> QED BY <1>1, <2>1, <2>2
<1>7. \A e \in acked' : (e \in ToSet(disk'.events) \/ received'[e] > 0 \/ e \in dropped')
  BY <1>1, <1>4, <1>6 DEF Cared
<1>8. \A e \in ToSet(disk'.events) : Cared(e)'
  BY <1>1, <1>3 DEF Cared
<1> QED BY <1>7, <1>8 DEF KeptInv, AcknowledgedIsKept

LEMMA OutboxKeeps == ASSUME OutboxKnown, KeptInv, OutboxSteps PROVE KeptInv'
<1>1. events \in Seq(Events) /\ received \in [Events -> Nat] /\ disk.events \in Seq(Events)
  BY DEF OutboxKnown
<1>2. CASE Settles
  <2>1. disk'.events = disk.events
    BY <1>2 DEF Settles, FileOf
  <2> QED BY <1>2, <2>1 DEF Settles, KeptInv, AcknowledgedIsKept, Cared
<1>3. CASE Saves
  <2>1. PICK held : Saved(events, held)
    BY <1>3 DEF Saves
  <2>2. up /\ up' /\ UNCHANGED <<received, acked>> /\ acked \subseteq Events
    BY <1>3 DEF Saves, KeptInv
  <2> QED BY <1>1, <2>1, <2>2, SavedKeeps
<1>4. CASE TakeNext
  <2>1. /\ UNCHANGED <<up, disk, received, acked>>
        /\ dropped' = dropped \union (ToSet(events) \ ToSet(events'))
    BY <1>4 DEF TakeNext
  <2>2. \A e : Cared(e) => Cared(e)'
    BY <2>1 DEF Cared
  <2> QED BY <2>1, <2>2 DEF KeptInv, AcknowledgedIsKept
<1>5. CASE SendSettles
  <2>1. current \in Events
    BY <1>5, InFlightIsFirst DEF SendSettles, InHand
  <2>2. received' = [received EXCEPT ![current] = @ + 1] \/ received' = received
    BY <1>5 DEF SendSettles
  <2>3. \A e \in Events : received[e] > 0 => received'[e] > 0
    BY <1>1, <2>1, <2>2
  <2>4. UNCHANGED <<up, events, disk, acked, dropped>>
    BY <1>5 DEF SendSettles
  <2>5. ToSet(disk.events) \subseteq Events
    BY <1>1, ToSetOfEvents
  <2> QED BY <2>3, <2>4, <2>5 DEF KeptInv, AcknowledgedIsKept, Cared
<1>6. CASE Delivered
  <2> DEFINE s == Without(events, current)
  <2>1. /\ up /\ up' /\ drain = "sent" /\ Saved(s, {}) /\ s \in Seq(Events)
        /\ UNCHANGED <<received, acked>>
    BY <1>6, DeliveredSaves
  <2>2. received[current] > 0
    BY <2>1 DEF OutboxKnown
  <2>3. ToSet(s) = ToSet(events) \intersect (Events \ {current})
    BY <1>1, OnlyToSet DEF Without
  <2>4. ToSet(events) \subseteq Events
    BY <1>1, ToSetOfEvents
  <2>5. \A e \in ToSet(events) : e \in ToSet(s) \/ received[e] > 0
    BY <2>2, <2>3, <2>4
  <2>6. acked' \subseteq Events /\ acked' = acked
    BY <2>1 DEF KeptInv
  <2> HIDE DEF s
  <2> QED BY <2>1, <2>5, <2>6, SavedKeeps
<1> QED BY <1>2, <1>3, <1>4, <1>5, <1>6, StepsOfOutbox

LEMMA HealthKeeps == ASSUME Known, KeptInv, [HealthNext]_allVars PROVE KeptInv'
<1>1. OutboxKnown
  BY DEF Known
<1>2. ASSUME Apart PROVE KeptInv'
  BY <1>2 DEF Apart, KeptInv, AcknowledgedIsKept, Cared
<1>3. CASE Announce
  <2> DEFINE e == outcome[2]
             s == Appended(e)
  <2>1. e \in Events /\ Put(e)
    BY <1>3 DEF Announce, Known, MonitorKnown, OutcomeKnown
  <2> HIDE DEF e
  <2>2. /\ up /\ up' /\ Saved(s, InFlight) /\ s \in Seq(Events) /\ UNCHANGED received
        /\ ToSet(s) = ToSet(events) \union {e}
        /\ acked' = IF unsaved' THEN acked ELSE acked \union {e}
    BY <1>1, <2>1, PutSaves
  <2>3. acked' \subseteq Events
    BY <2>1, <2>2 DEF KeptInv
  <2>4. \A f \in acked' : f \in acked \/ (~unsaved' /\ f \in ToSet(s))
    BY <2>2
  <2>5. \A f \in ToSet(events) : f \in ToSet(s) \/ received[f] > 0
    BY <2>2
  <2> HIDE DEF s
  <2> QED BY <1>1, <2>2, <2>3, <2>4, <2>5, SavedKeeps
<1>4. CASE HealthExit
  BY <1>4 DEF HealthExit, Exit, history, KeptInv, AcknowledgedIsKept
<1>5. CASE HealthRestart
  <2>1. /\ UNCHANGED <<received, acked>>
        /\ dropped' = dropped \union (ToSet(disk.events) \ ToSet(events'))
        /\ disk'.events = events' \/ disk' = disk
    BY <1>1, <1>5, RestartSaves DEF HealthRestart, FileOf
  <2>2. \A e \in ToSet(disk.events) : Cared(e)'
    BY <2>1 DEF Cared
  <2>3. \A e \in ToSet(disk'.events) : Cared(e)'
    BY <2>1, <2>2 DEF Cared
  <2>4. \A e \in acked : e \in ToSet(disk'.events) \/ received'[e] > 0 \/ e \in dropped'
    BY <2>1, <2>2 DEF KeptInv, AcknowledgedIsKept, Cared
  <2> QED BY <2>1, <2>3, <2>4 DEF KeptInv, AcknowledgedIsKept
<1>6. CASE UNCHANGED allVars
  BY <1>6 DEF allVars, vars, memory, history, KeptInv, AcknowledgedIsKept, Cared
<1> QED
  BY <1>1, <1>2, <1>3, <1>4, <1>5, <1>6, MonitorApart, OutboxKeeps DEF HealthNext, OutboxAlone

\* An event whose enqueue() has returned is in the file until the service has it or it
\* was given up, whichever saves fail and wherever the program ends.
THEOREM AcknowledgedStays == HealthSpec => []AcknowledgedIsKept
<1>1. HealthInit => KeptInv
  BY DEF HealthInit, Init, Empty, KeptInv, AcknowledgedIsKept, ToSet
<1>2. Known /\ KeptInv /\ [HealthNext]_allVars => KeptInv'
  BY HealthKeeps
<1>3. KeptInv => AcknowledgedIsKept
  BY DEF KeptInv
<1> QED BY <1>1, <1>2, <1>3, AlwaysKnown, PTL DEF HealthSpec

-----------------------------------------------------------------------------
(***************************************************************************)
(* News of an end follow the news of the standstill, in the queue and in   *)
(* the file it is read from after a restart.                               *)
(***************************************************************************)

\* Where the events of the queue and of the file come from.
LEMMA OutboxSources ==
  ASSUME OutboxKnown, OutboxSteps
  PROVE  /\ ToSet(events') \subseteq ToSet(events)
         /\ ToSet(disk'.events) \subseteq ToSet(disk.events) \union ToSet(events')
         /\ acked' = acked
<1>1. events \in Seq(Events) /\ InFlight \in SUBSET Events /\ {} \in SUBSET Events
  BY InFlightIsFirst DEF OutboxKnown
<1>2. CASE Settles
  BY <1>2 DEF Settles, FileOf
<1>3. ASSUME NEW s \in Seq(Events), NEW held \in SUBSET Events, Saved(s, held),
             ToSet(s) \subseteq ToSet(events)
      PROVE  /\ ToSet(events') \subseteq ToSet(events)
             /\ ToSet(disk'.events) \subseteq ToSet(disk.events) \union ToSet(events')
  <2>1. ToSet(events') \subseteq ToSet(s)
    BY <1>3, SavedIsKnown DEF Within
  <2> QED BY <1>3, <2>1 DEF Saved, FileOf
<1>4. CASE Saves
  BY <1>1, <1>3, <1>4 DEF Saves
<1>5. CASE TakeNext
  <2>1. events' = Limited(events, {}) /\ UNCHANGED <<disk, acked>>
    BY <1>5 DEF TakeNext
  <2>2. ToSet(events') \subseteq ToSet(events)
    BY <1>1, <2>1, LimitedKeeps DEF Within
  <2> QED BY <2>1, <2>2
<1>6. CASE SendSettles
  BY <1>6 DEF SendSettles
<1>7. CASE Delivered
  <2> DEFINE s == Without(events, current)
  <2>1. Saved(s, {}) /\ s \in Seq(Events) /\ acked' = acked
    BY <1>7, DeliveredSaves
  <2>2. ToSet(s) \subseteq ToSet(events)
    BY <1>1, OnlyToSet DEF Without
  <2> HIDE DEF s
  <2> QED BY <1>1, <1>3, <2>1, <2>2
<1> QED BY <1>2, <1>4, <1>5, <1>6, <1>7, StepsOfOutbox

LEMMA PutSources ==
  ASSUME OutboxKnown, NEW e \in Events, Put(e)
  PROVE  /\ ToSet(events') \subseteq ToSet(events) \union {e}
         /\ ToSet(disk'.events) \subseteq ToSet(disk.events) \union ToSet(events')
         /\ acked \subseteq acked'
<1>1. /\ Saved(Appended(e), InFlight) /\ Appended(e) \in Seq(Events)
      /\ ToSet(Appended(e)) = ToSet(events) \union {e} /\ acked \subseteq acked'
  BY PutSaves
<1>2. InFlight \in SUBSET Events
  BY InFlightIsFirst
<1>3. ToSet(events') \subseteq ToSet(Appended(e))
  BY <1>1, <1>2, SavedIsKnown DEF Within
<1> QED BY <1>1, <1>3 DEF Saved, FileOf

FollowsAlert(e) == e # None /\ \A s \in Stalls : e = s + 1 => s \in acked

NewsInOrder == \A e \in ToSet(events) \union ToSet(disk.events) : FollowsAlert(e)

LEMMA NewsStay ==
  ASSUME NewsInOrder, acked \subseteq acked', NEW q, \A e \in q : FollowsAlert(e),
         ToSet(events') \subseteq ToSet(events) \union ToSet(disk.events) \union q,
         ToSet(disk'.events) \subseteq ToSet(disk.events) \union ToSet(events')
  PROVE  NewsInOrder'
<1>1. \A e \in ToSet(events) \union ToSet(disk.events) \union q : FollowsAlert(e)'
  BY DEF NewsInOrder, FollowsAlert
<1> QED BY <1>1 DEF NewsInOrder

\* What the monitor has in hand is an alert or follows one.
LEMMA OutcomeFollows ==
  ASSUME Known, monitor # "idle" PROVE outcome[2] \in Events /\ FollowsAlert(outcome[2])
<1>1. OutcomeKnown
  BY DEF Known, MonitorKnown
<1>2. CASE outcome[2] \in Stalls
  BY <1>2, StallsAreNumbers DEF FollowsAlert
<1>3. CASE \E s \in Stalls \intersect acked : outcome[2] = s + 1
  <2>1. PICK s \in Stalls \intersect acked : outcome[2] = s + 1
    BY <1>3
  <2>2. \A r \in Stalls : outcome[2] = r + 1 => r = s
    BY <2>1, StallsAreNumbers
  <2> QED BY <1>1, <2>1, <2>2, StallsAreNumbers DEF FollowsAlert, OutcomeKnown
<1> QED BY <1>1, <1>2, <1>3 DEF OutcomeKnown

LEMMA NewsStayInOrder == ASSUME Known, NewsInOrder, [HealthNext]_allVars PROVE NewsInOrder'
<1>1. OutboxKnown
  BY DEF Known
<1>2. ASSUME Apart PROVE NewsInOrder'
  BY <1>2 DEF Apart, NewsInOrder, FollowsAlert
<1>3. CASE Announce
  <2>1. outcome[2] \in Events /\ FollowsAlert(outcome[2]) /\ Put(outcome[2])
    BY <1>3, OutcomeFollows DEF Announce
  <2> DEFINE q == {outcome[2]}
  <2>2. /\ ToSet(events') \subseteq ToSet(events) \union ToSet(disk.events) \union q
        /\ ToSet(disk'.events) \subseteq ToSet(disk.events) \union ToSet(events')
        /\ acked \subseteq acked'
    BY <1>1, <2>1, PutSources
  <2>3. \A e \in q : FollowsAlert(e)
    BY <2>1
  <2> HIDE DEF q
  <2> QED BY <2>2, <2>3, NewsStay
<1>4. CASE OutboxAlone
  <2> DEFINE q == {}
  <2>1. /\ ToSet(events') \subseteq ToSet(events) \union ToSet(disk.events) \union q
        /\ ToSet(disk'.events) \subseteq ToSet(disk.events) \union ToSet(events')
        /\ acked \subseteq acked' /\ \A e \in q : FollowsAlert(e)
    BY <1>1, <1>4, OutboxSources DEF OutboxAlone
  <2> HIDE DEF q
  <2> QED BY <2>1, NewsStay
<1>5. CASE HealthExit
  <2>1. events' = <<>> /\ disk' = disk /\ acked' = acked
    BY <1>5 DEF HealthExit, Exit, history
  <2>2. ToSet(events') = {}
    BY <2>1 DEF ToSet
  <2> QED BY <2>1, <2>2 DEF NewsInOrder, FollowsAlert
<1>6. CASE HealthRestart
  <2>1. ToSet(events') \subseteq ToSet(disk.events) /\ acked' = acked
    BY <1>1, <1>6, RestartSaves DEF HealthRestart, Within
  <2>2. disk'.events = events' \/ disk' = disk
    BY <1>1, <1>6, RestartSaves DEF HealthRestart, FileOf
  <2> QED BY <2>1, <2>2 DEF NewsInOrder, FollowsAlert
<1>7. CASE UNCHANGED allVars
  BY <1>7 DEF allVars, vars, memory, history, NewsInOrder, FollowsAlert
<1> QED
  BY <1>2, <1>3, <1>4, <1>5, <1>6, <1>7, MonitorApart DEF HealthNext

\* The queue tells of the end of a standstill only if the outbox has acknowledged, or
\* had, the news of the standstill itself.
THEOREM NewsOfAnEndFollow == HealthSpec => []RecoveryFollowsAlert
<1>1. HealthInit => NewsInOrder
  BY DEF HealthInit, Init, Empty, NewsInOrder, ToSet
<1>2. Known /\ NewsInOrder /\ [HealthNext]_allVars => NewsInOrder'
  BY NewsStayInOrder
<1>3. NewsInOrder => RecoveryFollowsAlert
  BY DEF NewsInOrder, FollowsAlert, RecoveryFollowsAlert, RecoveryOf
<1> QED BY <1>1, <1>2, <1>3, AlwaysKnown, PTL DEF HealthSpec

-----------------------------------------------------------------------------
(***************************************************************************)
(* Nothing is sent again without a reason.  What the service may still get *)
(* of an event has its place in the bound: once if the event is queued and *)
(* not sent yet, once if the monitor may announce it again.  An event that *)
(* is announced and saved moves from the one to the other; a fault may add *)
(* one of them, and the end of the program both.                           *)
(***************************************************************************)

Queued(e) == e \in ToSet(events) /\ ~(drain = "sent" /\ current = e)

\* The incident is not announced, or not known to be; or it is the event of its end.
Open(e) ==
  \/ e \in Stalls /\ (e \notin announced \/ (health.incident = e /\ ~health.alerted))
  \/ \E s \in Stalls :
       /\ e = s + 1
       /\ \/ s \notin announced \/ health.incident = s
          \/ monitor # "idle" /\ outcome[1].incident = s

Owed(e) ==
  \/ monitor = "enqueue" /\ outcome[2] = e
  \/ Open(e) /\ ~(monitor = "save" /\ outcome[2] = e)

Chances(e) ==
  IF up THEN (IF Queued(e) THEN 1 ELSE 0) + (IF Owed(e) THEN 1 ELSE 0) ELSE 2

Fits(e) == received[e] + Chances(e) <= 1 + faults + 2 * restarts

Room == \A e \in Events : Fits(e)

LEMMA ChancesBound == ASSUME NEW e PROVE Chances(e) \in 0..2
BY DEF Chances

LEMMA FitsStill ==
  ASSUME OutboxKnown, OutboxKnown', NEW e \in Events, Fits(e), up' = up,
         UNCHANGED <<received, restarts>>, faults' >= faults,
         Queued(e)' => Queued(e), Owed(e)' => Owed(e)
  PROVE  Fits(e)'
<1>1. /\ received[e] \in Nat /\ faults \in Nat /\ faults' \in Nat /\ restarts \in Nat
      /\ Chances(e) \in 0..2 /\ Chances(e)' \in 0..2
  BY ChancesBound DEF OutboxKnown, Chances
<1>2. Chances(e)' <= Chances(e)
  BY DEF Chances
<1> HIDE DEF Chances
<1> QED BY <1>1, <1>2 DEF Fits

LEMMA FitsWithFault ==
  ASSUME OutboxKnown, NEW e \in Events, Fits(e), up, up',
         UNCHANGED <<received, restarts>>, faults' = faults + 1,
         (Queued(e)' => Queued(e)) \/ Owed(e)
  PROVE  Fits(e)'
<1>1. /\ received[e] \in Nat /\ faults \in Nat /\ restarts \in Nat
      /\ Chances(e) \in 0..2 /\ Chances(e)' \in 0..2
  BY ChancesBound DEF OutboxKnown, Chances
<1>2. Chances(e)' <= Chances(e) + 1
  BY DEF Chances
<1> HIDE DEF Chances
<1> QED BY <1>1, <1>2 DEF Fits

\* The outbox by itself.
LEMMA OutboxFits ==
  ASSUME OutboxKnown, OutboxKnown', OutboxAlone, NEW e \in Events, Fits(e)
  PROVE  Fits(e)'
<1>1. /\ events \in Seq(Events) /\ ToSet(events') \subseteq ToSet(events) /\ faults \in Nat
      /\ InFlight \in SUBSET Events /\ {} \in SUBSET Events
  BY OutboxSources, InFlightIsFirst DEF OutboxKnown, OutboxAlone
<1>2. Owed(e)' = Owed(e)
  BY DEF OutboxAlone, healthVars, Owed, Open
<1>3. CASE Settles
  <2>1. Queued(e)' => Queued(e)
    BY <1>3 DEF Settles, Starts, Queued
  <2>2. up' = up /\ UNCHANGED <<received, restarts>> /\ faults' >= faults
    BY <1>1, <1>3 DEF Settles
  <2> QED BY <1>2, <2>1, <2>2, FitsStill
<1>4. CASE Saves
  <2>1. Queued(e)' => Queued(e)
    BY <1>1, <1>4 DEF Saves, Starts, Queued
  <2>2. up' = up /\ UNCHANGED <<received, restarts>> /\ faults' >= faults
    BY <1>1, <1>4 DEF Saves, Saved
  <2> QED BY <1>2, <2>1, <2>2, FitsStill
<1>5. CASE TakeNext
  <2>1. Queued(e)' => Queued(e)
    BY <1>1, <1>5 DEF TakeNext, Queued
  <2>2. up' = up /\ UNCHANGED <<received, restarts>> /\ faults' >= faults
    BY <1>1, <1>5 DEF TakeNext
  <2> QED BY <1>2, <2>1, <2>2, FitsStill
<1>6. CASE SendSettles
  <2>1. /\ drain = "sending" /\ up /\ up' /\ UNCHANGED <<events, current, restarts>>
        /\ \/ received' = [received EXCEPT ![current] = @ + 1] /\ drain' = "sent" /\ faults' = faults
           \/ received' = received /\ drain' = "refused" /\ faults' = faults
           \/ received' = [received EXCEPT ![current] = @ + 1] /\ drain' = "refused"
              /\ faults' = faults + 1
    BY <1>6 DEF SendSettles
  <2>2. current \in Events /\ events # <<>> /\ Head(events) = current
    BY <2>1, InFlightIsFirst DEF OutboxKnown, InHand
  <2>3. current \in ToSet(events)
    <3>1. 1 \in 1..Len(events) /\ events[1] = current
      BY <1>1, <2>2
    <3> QED BY <1>1, <3>1, ToSetOfEvents
  <2>4. received[e] \in Nat /\ restarts \in Nat /\ received \in [Events -> Nat]
    BY DEF OutboxKnown
  <2>5. CASE e # current
    <3>1. received'[e] = received[e] /\ Queued(e)' = Queued(e) /\ faults' >= faults
      BY <1>1, <2>1, <2>2, <2>4, <2>5 DEF Queued
    <3>2. Chances(e)' = Chances(e) /\ Chances(e) \in 0..2
      BY <1>2, <2>1, <3>1, ChancesBound DEF Chances
    <3>3. faults' \in Nat BY DEF OutboxKnown
    <3> HIDE DEF Chances
    <3> QED BY <1>1, <2>1, <2>4, <3>1, <3>2, <3>3 DEF Fits
  <2>6. CASE e = current
    <3> DEFINE owed == IF Owed(e) THEN 1 ELSE 0
    <3>1. Chances(e) = 1 + owed
      BY <2>1, <2>3, <2>6 DEF Queued, Chances
    <3>2. Chances(e)' = IF drain' = "sent" THEN owed ELSE 1 + owed
      BY <1>2, <2>1, <2>3, <2>6 DEF Queued, Chances
    <3>3. owed \in {0, 1}
      OBVIOUS
    <3>4. received' = [received EXCEPT ![current] = @ + 1] => received'[e] = received[e] + 1
      BY <2>2, <2>4, <2>6
    <3> HIDE DEF Chances, owed
    <3> QED BY <1>1, <2>1, <2>4, <3>1, <3>2, <3>3, <3>4 DEF Fits
  <2> QED BY <2>5, <2>6
<1>7. CASE Delivered
  <2> DEFINE s == Without(events, current)
  <2>1. up' = up /\ UNCHANGED <<received, restarts>> /\ Saved(s, {}) /\ s \in Seq(Events)
    BY <1>7, DeliveredSaves
  <2>2. ToSet(s) \subseteq ToSet(events) \ {current}
    BY <1>1, OnlyToSet DEF Without
  <2> HIDE DEF s
  <2>3. ToSet(events') \subseteq ToSet(s)
    BY <1>1, <2>1, SavedIsKnown DEF Within
  <2>4. Queued(e)' => Queued(e)
    BY <2>2, <2>3 DEF Queued
  <2>5. faults' >= faults
    BY <1>1, <2>1 DEF Saved
  <2> QED BY <1>2, <2>1, <2>4, <2>5, FitsStill
<1> QED BY <1>3, <1>4, <1>5, <1>6, <1>7, StepsOfOutbox DEF OutboxAlone

\* A sample announces only what may be announced, and opens nothing anew.
LEMMA SamplesFit ==
  ASSUME Known, OutboxKnown', SampleQuiet \/ SampleEvent, NEW e \in Events, Fits(e)
  PROVE  Fits(e)'
<1>1. /\ AlertKnown(health) /\ Sound(health) /\ announced \subseteq Stalls /\ OutboxKnown
      /\ faults \in Nat
  BY DEF Known, MonitorKnown, AlertKnown, OutboxKnown
<1>2. monitor = "idle" /\ UNCHANGED <<up, events, received, restarts, faults, drain, current>>
  BY DEF SampleQuiet, SampleEvent, SampleBegins, outbox, memory, history
<1>3. Queued(e)' = Queued(e) /\ faults' >= faults
  BY <1>1, <1>2 DEF Queued
<1>4. Owed(e) <=> Open(e)
  BY <1>2 DEF Owed
<1>5. CASE SampleQuiet
  <2>1. PICK o \in Evaluations(health) : o[2] = None /\ health' = o[1]
    BY <1>5 DEF SampleQuiet
  <2>2. Verdict(health, o)
    BY <1>1, EvaluationVerdict
  <2>3. \/ health'.incident = None
        \/ health'.incident = health.incident /\ health'.alerted = health.alerted
        \/ health'.incident \notin announced
    BY <2>1, <2>2, StallsAreNumbers DEF Verdict, Unused
  <2>4. monitor' = "idle" /\ announced' = announced
    BY <1>2, <1>5 DEF SampleQuiet
  <2>5. Open(e)' => Open(e)
    BY <1>2, <2>3, <2>4, StallsAreNumbers DEF Open
  <2>6. Owed(e)' => Owed(e)
    BY <1>4, <2>4, <2>5 DEF Owed
  <2> QED BY <1>1, <1>2, <1>3, <2>6, FitsStill
<1>6. CASE SampleEvent
  <2> DEFINE o == outcome'
  <2>1. /\ o \in Evaluations(health) /\ o[2] # None /\ monitor' = "enqueue"
        /\ announced \subseteq announced' /\ health' = health
    BY <1>6 DEF SampleEvent
  <2>2. Verdict(health, o)
    BY <1>1, <2>1, EvaluationVerdict
  <2>3. Owed(e)' => e = o[2] \/ Open(e)'
    BY <2>1 DEF Owed
  <2> HIDE DEF o
  <2>4. \/ o[2] \in Stalls /\ o[1].incident = o[2] /\ o[2] = health.incident /\ ~health.alerted
        \/ /\ health.incident \in Stalls /\ o[2] = health.incident + 1 /\ o[1].incident = None
    BY <1>1, <2>1, <2>2, VerdictIsSound
  <2>5. e = o[2] => Open(e)
    BY <2>4 DEF Open
  <2>6. \A s \in Stalls : o[1].incident = s => health.incident = s
    BY <2>4, StallsAreNumbers
  <2>7. Open(e)' => Open(e)
    BY <2>1, <2>6 DEF Open, o
  <2>8. Owed(e)' => Owed(e)
    BY <1>4, <2>3, <2>5, <2>7
  <2> QED BY <1>1, <1>2, <1>3, <2>8, FitsStill
<1> QED BY <1>5, <1>6

\* What is put into the outbox is owed no more, unless that fails.
LEMMA AnnounceFits ==
  ASSUME Known, OutboxKnown', Announce, NEW e \in Events, Fits(e)
  PROVE  Fits(e)'
<1>1. monitor = "enqueue" /\ outcome[2] \in Events /\ Put(outcome[2]) /\ OutboxKnown /\ faults \in Nat
  BY DEF Announce, Known, MonitorKnown, OutcomeKnown, OutboxKnown
<1>2. /\ up /\ Saved(Appended(outcome[2]), InFlight)
      /\ UNCHANGED <<up, drain, current, received, restarts>>
  BY <1>1, PutSaves
<1>3. ToSet(events') \subseteq ToSet(events) \union {outcome[2]}
  BY <1>1, PutSources
<1>4. health' = health /\ announced' = announced
  BY DEF Announce
<1>5. unsaved' => monitor' = "idle"
  BY DEF Announce
<1>6. ~unsaved' => monitor' = "save" /\ outcome' = outcome
  BY DEF Announce
<1>7. (~unsaved' /\ faults' = faults) \/ (unsaved' /\ faults' = faults + 1)
  BY <1>2 DEF Saved
<1>8. CASE unsaved'
  <2>1. Owed(e) \/ (Queued(e)' => Queued(e))
    BY <1>1, <1>2, <1>3 DEF Owed, Queued
  <2>2. up' /\ faults' = faults + 1
    BY <1>2, <1>7, <1>8
  <2> QED BY <1>1, <1>2, <2>1, <2>2, FitsWithFault
<1>9. CASE ~unsaved' /\ e # outcome[2]
  <2>1. Queued(e)' => Queued(e)
    BY <1>2, <1>3, <1>9 DEF Queued
  <2>2. monitor' = "save" /\ outcome' = outcome
    BY <1>6, <1>9
  <2>3. Open(e)' => Open(e)
    BY <1>1, <1>4, <2>2 DEF Open
  <2>4. Owed(e)' => Owed(e)
    BY <1>1, <2>2, <2>3 DEF Owed
  <2>5. faults' >= faults
    BY <1>1, <1>7
  <2> QED BY <1>1, <1>2, <2>1, <2>4, <2>5, FitsStill
<1>10. CASE ~unsaved' /\ e = outcome[2]
  <2>1. monitor' = "save" /\ outcome' = outcome
    BY <1>6, <1>10
  <2>2. ~Owed(e)' /\ up' /\ faults' = faults
    BY <1>2, <1>7, <1>10, <2>1 DEF Owed
  <2>3. Owed(e)
    BY <1>1, <1>10 DEF Owed
  <2>4. Chances(e)' <= Chances(e) /\ Chances(e) \in 0..2 /\ Chances(e)' \in 0..2
    BY <1>2, <2>2, <2>3 DEF Chances
  <2>5. received[e] \in Nat /\ restarts \in Nat
    BY <1>1 DEF OutboxKnown
  <2> HIDE DEF Chances
  <2> QED BY <1>1, <1>2, <2>2, <2>4, <2>5 DEF Fits
<1> QED BY <1>8, <1>9, <1>10

\* A state that is saved owes neither the event that was announced for it nor another.
LEMMA SaveFits ==
  ASSUME Known, OutboxKnown', SaveHealth, NEW e \in Events, Fits(e)
  PROVE  Fits(e)'
<1>1. /\ monitor = "save" /\ OutcomeKnown /\ OutboxKnown /\ up /\ faults \in Nat
      /\ announced \subseteq Stalls
  BY DEF SaveHealth, Known, MonitorKnown, OutboxKnown
<1>2. UNCHANGED <<up, events, received, restarts, drain, current, announced>> /\ monitor' = "idle"
  BY DEF SaveHealth, memory, history
<1>3. Queued(e)' = Queued(e)
  BY <1>2 DEF Queued
<1>4. CASE faults' = faults + 1
  BY <1>1, <1>2, <1>3, <1>4, FitsWithFault
<1>5. CASE faults' = faults /\ health' = outcome[1]
  <2>1. \/ /\ outcome[2] \in Stalls \intersect announced
           /\ health'.incident = outcome[2] /\ health'.alerted
        \/ \E s \in Stalls \intersect announced :
             outcome[2] = s + 1 /\ health'.incident = None
    BY <1>1, <1>5 DEF OutcomeKnown
  <2>2. ASSUME e # outcome[2], Open(e)' PROVE Open(e)
    <3>1. e \in Stalls => ~(health'.incident = e /\ ~health'.alerted)
      BY <2>1, <2>2, StallsAreNumbers
    <3>2. \A s \in Stalls : health'.incident = s => outcome[1].incident = s
      BY <1>5
    <3> QED BY <1>1, <1>2, <2>2, <3>1, <3>2 DEF Open
  <2>3. ASSUME e = outcome[2], e \in Stalls PROVE ~Open(e)'
    <3>1. e \in announced /\ health'.alerted
      BY <2>1, <2>3, StallsAreNumbers
    <3>2. \A s \in Stalls : e # s + 1
      BY <2>3, StallsAreNumbers
    <3> QED BY <1>2, <3>1, <3>2 DEF Open
  <2>4. ASSUME e = outcome[2], e \notin Stalls PROVE ~Open(e)'
    <3>1. PICK s \in Stalls \intersect announced : e = s + 1 /\ health'.incident = None
      BY <2>1, <2>4
    <3>2. \A r \in Stalls : e = r + 1 => r = s
      BY <3>1, StallsAreNumbers
    <3> QED BY <1>2, <2>4, <3>1, <3>2, StallsAreNumbers DEF Open
  <2>5. Owed(e)' => Owed(e)
    BY <1>1, <1>2, <2>2, <2>3, <2>4 DEF Owed
  <2>6. faults' >= faults
    BY <1>1, <1>5
  <2> QED BY <1>1, <1>2, <1>3, <2>5, <2>6, FitsStill
<1> QED BY <1>4, <1>5 DEF SaveHealth

LEMMA HealthFits ==
  ASSUME Known, OutboxKnown', Room, [HealthNext]_allVars PROVE Room'
<1> SUFFICES ASSUME NEW e \in Events, Fits(e) PROVE Fits(e)'
  BY DEF Room
<1>1. OutboxKnown /\ AlertKnown(health) /\ health \in States /\ faults \in Nat
  BY DEF Known, MonitorKnown, AlertKnown, Sound, OutboxKnown
<1>2. CASE Acknowledge
  <2>1. /\ monitor = "idle" /\ monitor' = "idle" /\ drain = "report" /\ drain' = "take"
        /\ UNCHANGED <<up, events, received, restarts, announced>> /\ faults' \in {faults, faults + 1}
    BY <1>2, MonitorApart DEF Acknowledge, Apart
  <2>2. Queued(e)' => Queued(e)
    BY <2>1 DEF Queued
  <2>3. health'.incident = health.incident /\ health'.alerted = health.alerted
    BY <1>1, <1>2 DEF Acknowledge, States
  <2>4. Owed(e)' => Owed(e)
    BY <2>1, <2>3 DEF Owed, Open
  <2>5. faults' >= faults
    BY <1>1, <2>1
  <2> QED BY <1>1, <2>1, <2>2, <2>4, <2>5, FitsStill
<1>3. CASE \E s \in Stalls : Cool(s)
  BY <1>3 DEF Cool, outbox, memory, history, Fits, Chances, Queued, Owed, Open
<1>4. CASE HealthExit
  <2>1. ~up' /\ up /\ restarts' = restarts + 1 /\ UNCHANGED <<received, faults>>
    BY <1>4 DEF HealthExit, Exit, history
  <2>2. /\ received[e] \in Nat /\ restarts \in Nat /\ Chances(e) \in 0..2 /\ Chances(e)' = 2
    BY <1>1, <2>1, ChancesBound DEF OutboxKnown, Chances
  <2> HIDE DEF Chances
  <2> QED BY <1>1, <2>1, <2>2 DEF Fits
<1>5. CASE HealthRestart
  <2>1. ~up /\ UNCHANGED <<received, restarts>> /\ faults' \in {faults, faults + 1}
    BY <1>1, <1>5, RestartSaves DEF HealthRestart
  <2>2. received[e] \in Nat /\ restarts \in Nat /\ Chances(e) = 2 /\ Chances(e)' \in 0..2
    BY <1>1, <2>1, ChancesBound DEF OutboxKnown, Chances
  <2> HIDE DEF Chances
  <2> QED BY <1>1, <2>1, <2>2 DEF Fits
<1>6. CASE UNCHANGED allVars
  BY <1>6 DEF allVars, vars, memory, history, healthVars, Fits, Chances, Queued, Owed, Open
<1> QED
  BY <1>1, <1>2, <1>3, <1>4, <1>5, <1>6, SamplesFit, AnnounceFits, SaveFits, OutboxFits DEF HealthNext

\* Each time the service gets an event once more, an answer was lost, a save had
\* failed or the program had ended.
THEOREM NothingIsSentForNothing == HealthSpec => []AgainOnlyAfterTrouble
<1>1. HealthInit => Room
  <2> SUFFICES ASSUME HealthInit, NEW e \in Events PROVE Fits(e)
    BY DEF Room
  <2>1. received[e] = 0 /\ faults = 0 /\ restarts = 0 /\ up /\ ~Queued(e)
    BY DEF HealthInit, Init, Queued, ToSet
  <2>2. Chances(e) <= 1 /\ Chances(e) \in 0..2
    BY <2>1, ChancesBound DEF Chances
  <2> HIDE DEF Chances
  <2> QED BY <2>1, <2>2 DEF Fits
<1>2. Known /\ Known' /\ Room /\ [HealthNext]_allVars => Room'
  BY HealthFits DEF Known
<1>3. Known /\ Room => AgainOnlyAfterTrouble
  <2> SUFFICES ASSUME Known, Room, NEW e \in Events
               PROVE  received[e] <= 1 + faults + 2 * restarts
    BY DEF AgainOnlyAfterTrouble
  <2>1. received[e] \in Nat /\ faults \in Nat /\ restarts \in Nat /\ Chances(e) \in 0..2
    BY ChancesBound DEF Known, OutboxKnown
  <2> HIDE DEF Chances
  <2> QED BY <2>1 DEF Room, Fits
<1> QED BY <1>1, <1>2, <1>3, AlwaysKnown, PTL DEF HealthSpec

-----------------------------------------------------------------------------
(***************************************************************************)
(* Cooldowns hold.  Incidents are named in the order they begin, their     *)
(* alerts are queued, sent, reported and cooled in that order, and the     *)
(* state records the last of the reported ones.  So if the recorded one    *)
(* has cooled, all have.  Only the loss of the record ends that: a save    *)
(* that failed, and then an end of the program.                            *)
(***************************************************************************)

Calm == faults = 0 \/ restarts = 0

\* The state h records the last alert that was reported, and its incident is the last
\* announced or the next.
Ordered(h) ==
  /\ \A r \in reported \intersect Stalls : h.delivered # None /\ r <= h.delivered
  /\ h.delivered # None => h.delivered \in reported
  /\ h.incident # None =>
       /\ \A a \in announced : a <= h.incident
       /\ \A b \in Stalls : b < h.incident => b \in announced

Ascending(q) ==
  \A j, k \in 1..Len(q) : j < k /\ q[j] \in Stalls /\ q[k] \in Stalls => q[j] <= q[k]

\* No later alert than e has been reported, or is about to be.
NotOvertaken(e) ==
  /\ e \in announced
  /\ \A r \in reported \intersect Stalls : r <= e
  /\ drain = "report" /\ current \in Stalls => current <= e

Lined(q) == Ascending(q) /\ \A e \in ToSet(q) \intersect Stalls : NotOvertaken(e)

FileOrdered ==
  /\ Lined(disk.events)
  /\ up => healthFile.incident = health.incident /\ healthFile.delivered = health.delivered
  /\ ~up => Ordered(healthFile)

ReportsOrdered ==
  /\ reported \intersect Stalls \subseteq announced
  /\ cooled \subseteq reported \intersect Stalls
  /\ \A s \in cooled, r \in reported \intersect Stalls : r < s => r \in cooled
  /\ drain = "report" /\ current \in Stalls =>
       current \in announced /\ \A r \in reported \intersect Stalls : r <= current

AlertsInOrder ==
  /\ \A a \in announced, b \in Stalls : b < a => b \in announced
  /\ up => Ordered(health)
  /\ monitor # "idle" => Ordered(outcome[1])
  /\ monitor = "enqueue" /\ outcome[2] \in Stalls => reported \intersect Stalls \subseteq cooled
  /\ Lined(events)
  /\ faults = 0 => FileOrdered
  /\ ReportsOrdered

Cooling == Calm => AlertsInOrder

LEMMA WithinAscends ==
  ASSUME NEW q, NEW s, Within(q, s), Ascending(s) PROVE Ascending(q)
BY DEF Within, InOrder, Ascending

\* Nothing overtakes an alert while nothing is reported.
LEMMA StaysInLine ==
  ASSUME NEW q, NEW s, Within(q, s), Lined(s), announced \subseteq announced', reported' = reported,
         drain' = "report" => drain = "report" /\ current' = current
  PROVE  Ascending(q) /\ \A e \in ToSet(q) \intersect Stalls : NotOvertaken(e)'
<1>1. Ascending(q)
  BY WithinAscends DEF Lined
<1>2. ToSet(q) \subseteq ToSet(s)
  BY DEF Within
<1> QED BY <1>1, <1>2 DEF Lined, NotOvertaken

\* The outbox by itself: the queue keeps its order, and what is delivered was first in it.
LEMMA OutboxInOrder ==
  ASSUME Known, AlertsInOrder, OutboxAlone
  PROVE  AlertsInOrder'
<1>1. /\ OutboxKnown /\ events \in Seq(Events) /\ disk.events \in Seq(Events) /\ faults \in Nat
      /\ InFlight \in SUBSET Events /\ {} \in SUBSET Events
  BY InFlightIsFirst DEF Known, OutboxKnown
<1>2. /\ UNCHANGED <<health, healthFile, monitor, outcome, announced, cooled>>
      /\ Settles \/ Saves \/ TakeNext \/ SendSettles \/ Delivered
  BY <1>1, StepsOfOutbox DEF OutboxAlone, healthVars
<1>3. UNCHANGED <<up, reported>>
  <2>1. Delivered => UNCHANGED <<up, reported>>
    BY <1>1, DeliveredSaves
  <2> QED BY <1>2, <2>1 DEF Settles, Saves, TakeNext, SendSettles
<1>4. (up => Ordered(health)') /\ (monitor' # "idle" => Ordered(outcome[1])')
      /\ (~up /\ faults = 0 => Ordered(healthFile)')
  BY <1>2, <1>3 DEF AlertsInOrder, Ordered, FileOrdered
<1>5. SUFFICES /\ Lined(events)' /\ (faults' = 0 => faults = 0 /\ Lined(disk.events)')
               /\ drain' = "report" /\ current' \in Stalls =>
                    current' \in announced /\ \A r \in reported \intersect Stalls : r <= current'
  BY <1>2, <1>3, <1>4 DEF AlertsInOrder, FileOrdered, ReportsOrdered
<1>6. ASSUME NEW s \in Seq(Events), NEW held \in SUBSET Events, Within(s, events), Saved(s, held),
             drain' = "report" => drain = "report" /\ current' = current
      PROVE  Lined(events)' /\ (faults' = 0 => faults = 0 /\ Lined(disk.events)')
  <2>1. Within(events', events)
    BY <1>1, <1>6, SavedIsKnown, WithinTwice
  <2>2. Ascending(events') /\ \A e \in ToSet(events') \intersect Stalls : NotOvertaken(e)'
    BY <1>2, <1>3, <1>6, <2>1, StaysInLine DEF AlertsInOrder
  <2>3. faults' = 0 => faults = 0 /\ disk'.events = events'
    BY <1>1, <1>6 DEF Saved, FileOf
  <2> QED BY <2>2, <2>3 DEF Lined
<1>7. ASSUME events' = events \/ events' = Limited(events, {}),
             disk'.events = disk.events, faults' >= faults,
             drain' = "report" => drain = "report" /\ current' = current
      PROVE  Lined(events)' /\ (faults' = 0 => faults = 0 /\ Lined(disk.events)')
  <2>1. Within(events', events) /\ Within(disk.events, disk.events)
    BY <1>1, <1>7, WithinItself, LimitedKeeps
  <2>2. Ascending(events') /\ \A e \in ToSet(events') \intersect Stalls : NotOvertaken(e)'
    BY <1>2, <1>3, <1>7, <2>1, StaysInLine DEF AlertsInOrder
  <2>3. faults' = 0 => faults = 0
    BY <1>1, <1>7 DEF OutboxAlone
  <2>4. ASSUME faults = 0
        PROVE  Ascending(disk.events) /\ \A e \in ToSet(disk.events) \intersect Stalls : NotOvertaken(e)'
    <3>1. Lined(disk.events)
      BY <2>4 DEF AlertsInOrder, FileOrdered
    <3> QED BY <1>2, <1>3, <1>7, <2>1, <3>1, StaysInLine
  <2> QED BY <1>7, <2>2, <2>3, <2>4 DEF Lined
<1>8. CASE Settles
  <2>1. disk'.events = disk.events /\ events' = events /\ faults' >= faults
        /\ (drain' = "report" => drain = "report" /\ current' = current)
    BY <1>1, <1>8 DEF Settles, FileOf, Starts
  <2> QED BY <1>2, <1>3, <1>7, <2>1 DEF AlertsInOrder, ReportsOrdered
<1>9. CASE Saves
  <2>1. drain' = "report" => drain = "report" /\ current' = current
    BY <1>9 DEF Saves, Starts
  <2>2. PICK held \in SUBSET Events : Saved(events, held)
    BY <1>1, <1>9 DEF Saves
  <2>3. Within(events, events)
    BY <1>1, WithinItself
  <2> QED BY <1>1, <1>2, <1>3, <1>6, <2>1, <2>2, <2>3 DEF AlertsInOrder, ReportsOrdered
<1>10. CASE TakeNext
  <2>1. events' = Limited(events, {}) /\ disk' = disk /\ faults' >= faults /\ drain' = "sending"
    BY <1>1, <1>10 DEF TakeNext
  <2> QED BY <1>7, <2>1
<1>11. CASE SendSettles
  <2>1. events' = events /\ disk' = disk /\ faults' >= faults /\ drain' \in {"sent", "refused"}
    BY <1>1, <1>11 DEF SendSettles
  <2> QED BY <1>7, <2>1
<1>12. CASE Delivered
  <2> DEFINE s == Without(events, current)
  <2>1. /\ drain = "sent" /\ drain' = "report" => current' = current
        /\ Saved(s, {}) /\ s \in Seq(Events)
    BY <1>1, <1>12, DeliveredSaves
  <2>2. drain = "sent"
    BY <1>12 DEF Delivered
  <2>3. events # <<>> /\ Head(events) = current
    BY <1>1, <2>2 DEF OutboxKnown, InHand
  <2>4. Within(s, events)
    BY <1>1, OnlyWithin DEF Without
  <2> HIDE DEF s
  <2>5. Within(events', events)
    BY <1>1, <2>1, <2>4, SavedIsKnown, WithinTwice
  <2>6. Ascending(events')
    BY <2>5, WithinAscends DEF AlertsInOrder, Lined
  <2>7. current \in Stalls => NotOvertaken(current)
    <3>1. current \in ToSet(events)
      <4>1. 1 \in 1..Len(events) /\ events[1] = current
        BY <1>1, <2>3
      <4> QED BY <1>1, <4>1, ToSetOfEvents
    <3> QED BY <3>1 DEF AlertsInOrder, Lined
  <2>8. ASSUME NEW e \in ToSet(events') \intersect Stalls PROVE NotOvertaken(e)'
    <3>1. e \in ToSet(events)
      BY <2>5 DEF Within
    <3>2. NotOvertaken(e)
      BY <3>1 DEF AlertsInOrder, Lined
    <3>3. current \in Stalls => current <= e
      <4>1. PICK k \in 1..Len(events) : events[k] = e
        BY <1>1, <3>1, ToSetOfEvents
      <4>2. 1 \in 1..Len(events) /\ events[1] = current
        BY <1>1, <2>3
      <4>3. e \in Nat
        BY StallsAreNumbers
      <4>4. k = 1 \/ 1 < k
        OBVIOUS
      <4> QED BY <4>1, <4>2, <4>3, <4>4 DEF AlertsInOrder, Lined, Ascending
    <3> QED BY <1>2, <1>3, <2>1, <2>2, <3>2, <3>3 DEF NotOvertaken
  <2>9. faults' = 0 => faults = 0 /\ disk'.events = events'
    BY <1>1, <2>1 DEF Saved, FileOf
  <2> QED BY <1>3, <2>1, <2>2, <2>6, <2>7, <2>8, <2>9 DEF Lined, NotOvertaken
<1> QED BY <1>2, <1>8, <1>9, <1>10, <1>11, <1>12

\* What a sample looks at and its event, if any, are in order.
LEMMA SampleInOrder ==
  ASSUME Known, AlertsInOrder, up, NEW o, Verdict(health, o)
  PROVE  /\ o[2] = None => Ordered(o[1])
         /\ o[2] \in Stalls => o[2] = health.incident /\ reported \intersect Stalls \subseteq cooled
<1>1. /\ AlertKnown(health) /\ announced \subseteq Stalls /\ health.delivered \in Stalls \union {None}
      /\ Ordered(health) /\ \A a \in announced, b \in Stalls : b < a => b \in announced
      /\ ReportsOrdered
  BY SoundFields DEF Known, MonitorKnown, AlertKnown, Sound, AlertsInOrder
<1>2. o[1].delivered = health.delivered
  BY DEF Verdict
<1>3. ASSUME o[2] = None PROVE Ordered(o[1])
  <2>1. CASE o[1].incident = None \/ o[1].incident = health.incident
    BY <1>1, <1>2, <2>1 DEF Ordered
  <2>2. CASE o[1].incident \in Unused /\ o[1].incident = Min(Unused)
    <3> DEFINE i == o[1].incident
    <3>1. i \in Stalls /\ i \notin announced /\ \A u \in Stalls \ announced : i <= u
      BY <2>2, FirstUnused DEF Unused
    <3> HIDE DEF i
    <3>2. \A a \in announced : a <= i
      BY <1>1, <3>1, StallsAreNumbers
    <3>3. \A b \in Stalls : b < i => b \in announced
      BY <1>1, <3>1, StallsAreNumbers
    <3> QED BY <1>1, <1>2, <3>2, <3>3 DEF Ordered, i
  <2> QED BY <1>3, <2>1, <2>2, StallsAreNumbers DEF Verdict
<1>4. ASSUME o[2] \in Stalls PROVE o[2] = health.incident /\ reported \intersect Stalls \subseteq cooled
  <2>1. o[2] = health.incident /\ (health.delivered = None \/ health.delivered \in cooled)
    BY <1>1, <1>4, VerdictIsSound, StallsAreNumbers
  <2>2. \A r \in reported \intersect Stalls : health.delivered \in cooled /\ r <= health.delivered
    BY <1>1, <2>1 DEF Ordered
  <2>3. cooled \subseteq Stalls
    BY <1>1 DEF ReportsOrdered
  <2>4. ASSUME NEW r \in reported \intersect Stalls PROVE r = health.delivered \/ r < health.delivered
    <3>1. health.delivered \in Stalls /\ r \in Stalls /\ r <= health.delivered
      BY <2>2, <2>3
    <3>2. health.delivered \in Nat /\ r \in Nat
      BY <3>1, StallsAreNumbers
    <3> QED BY <3>1, <3>2
  <2>5. \A r \in reported \intersect Stalls : r \in cooled
    BY <1>1, <2>2, <2>4 DEF ReportsOrdered
  <2> QED BY <2>1, <2>5
<1> QED BY <1>3, <1>4

LEMMA SamplesInOrder ==
  ASSUME Known, AlertsInOrder, SampleQuiet \/ SampleEvent
  PROVE  AlertsInOrder'
<1>1. /\ Sound(health) /\ announced \subseteq Stalls /\ monitor = "idle" /\ up /\ AlertKnown(health)
      /\ UNCHANGED <<up, events, disk, drain, current, reported, cooled, faults>>
  BY DEF Known, MonitorKnown, AlertKnown, SampleQuiet, SampleEvent, SampleBegins, outbox, memory, history
<1>2. CASE SampleQuiet
  <2>1. PICK o \in Evaluations(health) : o[2] = None /\ health' = o[1]
    BY <1>2 DEF SampleQuiet
  <2>2. Verdict(health, o)
    BY <1>1, EvaluationVerdict
  <2>3. Ordered(o[1])
    BY <1>1, <2>1, <2>2, SampleInOrder
  <2>4. UNCHANGED <<monitor, outcome, announced>> /\ healthFile' = health'
    BY <1>2 DEF SampleQuiet
  <2>5. Ordered(health)'
    BY <1>1, <2>1, <2>3, <2>4 DEF Ordered
  <2>6. ReportsOrdered' /\ Lined(events)' /\ (faults' = 0 => FileOrdered')
    BY <1>1, <2>4 DEF AlertsInOrder, ReportsOrdered, Lined, NotOvertaken, FileOrdered
  <2> QED BY <1>1, <2>4, <2>5, <2>6 DEF AlertsInOrder
<1>3. CASE SampleEvent
  <2> DEFINE o == outcome'
  <2>1. /\ o \in Evaluations(health) /\ o[2] # None /\ monitor' = "enqueue"
        /\ announced' = announced \union ({o[2]} \intersect Stalls)
        /\ UNCHANGED <<health, healthFile>>
    BY <1>3 DEF SampleEvent
  <2>2. Verdict(health, o)
    BY <1>1, <2>1, EvaluationVerdict
  <2>3. o[2] \in Stalls => o[2] = health.incident /\ reported \intersect Stalls \subseteq cooled
    BY <1>1, <2>2, SampleInOrder
  <2>4. /\ o[1].delivered = health.delivered
        /\ o[1].incident = None \/ (o[2] \in Stalls /\ o[1].incident = o[2])
    BY <1>1, <2>1, <2>2, VerdictIsSound
  <2>5. Ordered(health)
    BY <1>1 DEF AlertsInOrder
  <2> HIDE DEF o
  <2>6. \A a \in announced' : a \in announced \/ (a = o[2] /\ a \in Stalls /\ a = health.incident)
    BY <2>1, <2>3
  <2>7. ASSUME health.incident # None, NEW a \in announced' PROVE a <= health.incident
    <3>1. CASE a \in announced
      BY <2>5, <2>7, <3>1 DEF Ordered
    <3>2. CASE a \in Stalls /\ a = health.incident
      <4>1. a \in Nat
        BY <3>2, StallsAreNumbers
      <4> QED BY <3>2, <4>1
    <3> QED BY <2>6, <3>1, <3>2
  <2>8. announced \subseteq announced'
    BY <2>1
  <2>9. health.incident # None => \A b \in Stalls : b < health.incident => b \in announced'
    BY <2>5, <2>8 DEF Ordered
  <2>10. Ordered(health)'
    BY <1>1, <2>1, <2>5, <2>7, <2>9 DEF Ordered
  <2>11. Ordered(outcome[1])'
    BY <1>1, <2>3, <2>4, <2>5, <2>7, <2>9 DEF Ordered, o
  <2>12. \A a \in announced', b \in Stalls : b < a => b \in announced'
    <3> SUFFICES ASSUME NEW a \in announced', NEW b \in Stalls, b < a PROVE b \in announced'
      OBVIOUS
    <3>1. CASE a \in announced
      BY <2>8, <3>1 DEF AlertsInOrder
    <3>2. CASE a \in Stalls /\ a = health.incident
      BY <2>9, <3>2, StallsAreNumbers
    <3> QED BY <2>6, <3>1, <3>2
  <2>13. ReportsOrdered' /\ Lined(events)' /\ (faults' = 0 => FileOrdered')
    BY <1>1, <2>1, <2>8 DEF AlertsInOrder, ReportsOrdered, Lined, NotOvertaken, FileOrdered
  <2> QED BY <1>1, <2>3, <2>10, <2>11, <2>12, <2>13 DEF AlertsInOrder, o
<1> QED BY <1>2, <1>3

LEMMA AnnounceInOrder ==
  ASSUME Known, AlertsInOrder, Announce
  PROVE  AlertsInOrder'
<1> DEFINE e == outcome[2]
           s == Appended(e)
<1>1. /\ OutboxKnown /\ OutcomeKnown /\ announced \subseteq Stalls /\ monitor = "enqueue"
      /\ events \in Seq(Events) /\ Len(events) \in Nat /\ e \in Events /\ Put(e) /\ faults \in Nat
  BY DEF Announce, Known, MonitorKnown, OutboxKnown, OutcomeKnown
<1>2. UNCHANGED <<health, healthFile, announced, cooled>>
  BY DEF Announce
<1>3. monitor' = "idle" \/ (monitor' = "save" /\ outcome' = outcome)
  BY DEF Announce
<1>4. e \in Stalls => e \in announced /\ \A a \in announced : a <= e
  <2>1. Ordered(outcome[1])
    BY <1>1 DEF AlertsInOrder
  <2>2. e \in Stalls => e \in announced /\ outcome[1].incident = e
    BY <1>1, StallsAreNumbers DEF OutcomeKnown
  <2> QED BY <2>1, <2>2, StallsAreNumbers DEF Ordered
<1> HIDE DEF e
<1>5. /\ up /\ Saved(s, InFlight) /\ s \in Seq(Events) /\ ToSet(s) = ToSet(events) \union {e}
      /\ UNCHANGED <<up, drain, current, reported>>
  BY <1>1, PutSaves
<1>6. Lined(events) /\ ReportsOrdered /\ Ordered(health) /\ (faults = 0 => FileOrdered)
  BY <1>5 DEF AlertsInOrder
<1>7. Ascending(s)
  <2>1. CASE s = events
    BY <1>6, <2>1 DEF Lined
  <2>2. CASE s = Append(events, e)
    <3>1. /\ Len(s) = Len(events) + 1 /\ s[Len(events) + 1] = e
          /\ \A k \in 1..Len(events) : s[k] = events[k]
      BY <1>1, <2>2
    <3>2. \A k \in 1..Len(events) : events[k] \in ToSet(events)
      BY <1>1, ToSetOfEvents
    <3>3. \A k \in 1..Len(events) : events[k] \in Stalls /\ e \in Stalls => events[k] <= e
      BY <1>4, <1>6, <3>2 DEF Lined, NotOvertaken
    <3> SUFFICES ASSUME NEW j \in 1..Len(s), NEW k \in 1..Len(s), j < k, s[j] \in Stalls, s[k] \in Stalls
                 PROVE  s[j] <= s[k]
      BY DEF Ascending
    <3>4. j \in 1..Len(events) /\ (k \in 1..Len(events) \/ k = Len(events) + 1)
      BY <1>1, <3>1
    <3>5. CASE k \in 1..Len(events)
      BY <1>6, <3>1, <3>4, <3>5 DEF Lined, Ascending
    <3>6. CASE k = Len(events) + 1
      BY <3>1, <3>3, <3>4, <3>6
    <3> QED BY <3>4, <3>5, <3>6
  <2> QED BY <2>1, <2>2 DEF Appended
<1>8. ASSUME e \in Stalls PROVE NotOvertaken(e)
  BY <1>4, <1>6, <1>8 DEF NotOvertaken, ReportsOrdered
<1>9. Lined(s)
  BY <1>5, <1>6, <1>7, <1>8 DEF Lined
<1>10. InFlight \in SUBSET Events
  BY <1>1, InFlightIsFirst
<1> HIDE DEF s
<1>11. Within(events', s)
  BY <1>1, <1>5, <1>10, SavedIsKnown
<1>12. Ascending(events') /\ \A f \in ToSet(events') \intersect Stalls : NotOvertaken(f)'
  BY <1>2, <1>5, <1>9, <1>11, StaysInLine
<1>13. faults' = 0 => faults = 0 /\ disk'.events = events'
  BY <1>1, <1>5 DEF Saved, FileOf
<1>14. Lined(events)' /\ (faults' = 0 => FileOrdered')
  BY <1>2, <1>5, <1>6, <1>12, <1>13 DEF Lined, FileOrdered
<1>15. Ordered(health)' /\ (monitor' # "idle" => Ordered(outcome[1])') /\ ReportsOrdered'
  BY <1>1, <1>2, <1>3, <1>5, <1>6 DEF AlertsInOrder, Ordered, ReportsOrdered
<1> QED BY <1>2, <1>3, <1>14, <1>15 DEF AlertsInOrder

LEMMA SaveInOrder ==
  ASSUME Known, AlertsInOrder, SaveHealth
  PROVE  AlertsInOrder'
<1>1. /\ UNCHANGED <<up, events, disk, drain, current, reported, cooled, announced>> /\ up
      /\ monitor = "save" /\ monitor' = "idle" /\ faults \in Nat
      /\ \/ health' = outcome[1] /\ healthFile' = outcome[1] /\ faults' = faults
         \/ faults' = faults + 1 /\ health' = health
  BY DEF SaveHealth, memory, history, Known, OutboxKnown
<1>2. Ordered(outcome[1]) /\ Ordered(health)
  BY <1>1 DEF AlertsInOrder
<1>3. Ordered(health)'
  BY <1>1, <1>2 DEF Ordered
<1>4. ReportsOrdered' /\ Lined(events)' /\ (faults' = 0 => FileOrdered')
  BY <1>1 DEF AlertsInOrder, ReportsOrdered, Lined, NotOvertaken, FileOrdered
<1> QED BY <1>1, <1>3, <1>4 DEF AlertsInOrder

LEMMA AcknowledgeInOrder ==
  ASSUME Known, AlertsInOrder, Acknowledge, Calm'
  PROVE  AlertsInOrder'
<1>1. /\ OutboxKnown /\ Sound(health) /\ monitor = "idle" /\ faults \in Nat
      /\ UNCHANGED <<monitor, outcome, announced, cooled, up, events, disk>> /\ up
      /\ drain = "report" /\ drain' = "take" /\ reported' = reported \union {current}
  BY DEF Known, MonitorKnown, AlertKnown, OutboxKnown, Acknowledge, Reported
<1>2. Ordered(health) /\ ReportsOrdered /\ Lined(events) /\ (faults = 0 => FileOrdered)
  BY <1>1 DEF AlertsInOrder
<1>3. /\ health'.incident = health.incident
      /\ health'.delivered = IF current \in Stalls THEN current ELSE health.delivered
  <2>1. health \in States
    BY <1>1 DEF Sound
  <2>2. CASE current \in Stalls /\ health.delivered # current
    <3>1. health' = [health EXCEPT !.delivered = current]
      BY <2>2 DEF Acknowledge
    <3> QED BY <2>1, <2>2, <3>1 DEF States
  <2>3. CASE ~(current \in Stalls /\ health.delivered # current)
    <3>1. health' = health
      BY <2>3 DEF Acknowledge
    <3> QED BY <2>3, <3>1
  <2> QED BY <2>2, <2>3
<1>4. \/ faults' = faults /\ (healthFile' = health' \/ (healthFile' = healthFile /\ health' = health))
      \/ faults' = faults + 1
  BY DEF Acknowledge
<1>5. current \in Stalls => current \in announced /\ current \in Nat
                            /\ \A r \in reported \intersect Stalls : r <= current
  BY <1>1, <1>2, StallsAreNumbers DEF ReportsOrdered
<1>6. Ordered(health)'
  <2>1. CASE current \in Stalls
    <3>1. health'.delivered = current /\ current # None
      BY <1>3, <2>1, StallsAreNumbers
    <3>2. \A r \in reported' \intersect Stalls : r <= current
      BY <1>1, <1>5, <2>1
    <3> QED BY <1>1, <1>2, <1>3, <3>1, <3>2 DEF Ordered
  <2>2. CASE current \notin Stalls
    <3>1. health'.delivered = health.delivered /\ reported' \intersect Stalls = reported \intersect Stalls
      BY <1>1, <1>3, <2>2
    <3> QED BY <1>1, <1>2, <1>3, <3>1 DEF Ordered
  <2> QED BY <2>1, <2>2
<1>7. \A e \in Stalls : NotOvertaken(e) => NotOvertaken(e)'
  <2> SUFFICES ASSUME NEW e \in Stalls, NotOvertaken(e) PROVE NotOvertaken(e)'
    OBVIOUS
  <2>1. \A r \in reported' \intersect Stalls : r <= e
    BY <1>1 DEF NotOvertaken
  <2> QED BY <1>1, <2>1 DEF NotOvertaken
<1>8. Lined(events)' /\ (faults = 0 => Lined(disk.events)')
  BY <1>1, <1>2, <1>7 DEF Lined, FileOrdered
<1>9. faults' = 0 => FileOrdered'
  <2> SUFFICES ASSUME faults' = 0 PROVE FileOrdered'
    OBVIOUS
  <2>1. faults = 0 /\ (healthFile' = health' \/ (healthFile' = healthFile /\ health' = health))
    BY <1>1, <1>4
  <2> QED BY <1>1, <1>2, <1>8, <2>1 DEF FileOrdered
<1>10. ReportsOrdered'
  <2>1. reported' \intersect Stalls \subseteq announced
    BY <1>1, <1>2, <1>5 DEF ReportsOrdered
  <2>2. cooled \subseteq reported' \intersect Stalls
    BY <1>1, <1>2 DEF ReportsOrdered
  <2>3. ASSUME NEW s \in cooled, NEW r \in reported' \intersect Stalls, r < s PROVE r \in cooled
    <3>1. s \in reported \intersect Stalls
      BY <1>2 DEF ReportsOrdered
    <3>2. ASSUME r = current PROVE FALSE
      <4>1. current \in Nat /\ s <= current /\ s \in Nat /\ current < s
        BY <1>5, <2>3, <3>1, <3>2, StallsAreNumbers
      <4> QED BY <4>1
    <3> QED BY <1>1, <1>2, <2>3, <3>2 DEF ReportsOrdered
  <2> QED BY <1>1, <2>1, <2>2, <2>3 DEF ReportsOrdered
<1> QED BY <1>1, <1>2, <1>6, <1>8, <1>9, <1>10 DEF AlertsInOrder

LEMMA CoolInOrder ==
  ASSUME Known, AlertsInOrder, NEW s \in Stalls, Cool(s)
  PROVE  AlertsInOrder'
<1>1. /\ UNCHANGED <<up, events, disk, drain, current, reported, faults>>
      /\ UNCHANGED <<health, healthFile, monitor, outcome, announced>>
      /\ s \in reported \ cooled /\ cooled' = cooled \union {s}
      /\ \A r \in (reported \ cooled) \intersect Stalls : s <= r
  BY DEF Cool, outbox, memory, history
<1>2. \A t \in cooled', r \in reported \intersect Stalls : r < t => r \in cooled'
  <2> SUFFICES ASSUME NEW t \in cooled', NEW r \in reported \intersect Stalls, r < t, r \notin cooled
               PROVE  FALSE
    BY <1>1
  <2>1. t = s
    BY <1>1 DEF AlertsInOrder, ReportsOrdered
  <2>2. s <= r /\ s \in Nat /\ r \in Nat
    BY <1>1, StallsAreNumbers
  <2> QED BY <2>1, <2>2
<1>3. ReportsOrdered'
  BY <1>1, <1>2 DEF AlertsInOrder, ReportsOrdered
<1> QED BY <1>1, <1>3 DEF AlertsInOrder, Ordered, Lined, NotOvertaken, FileOrdered

LEMMA ExitInOrder ==
  ASSUME Known, AlertsInOrder, HealthExit, Calm'
  PROVE  AlertsInOrder'
<1>1. /\ up /\ ~up' /\ restarts' = restarts + 1 /\ faults' = faults /\ restarts \in Nat
      /\ events' = <<>> /\ drain' = "idle" /\ monitor' = "idle"
      /\ UNCHANGED <<disk, reported, healthFile, announced, cooled>>
  BY DEF HealthExit, Exit, history, Known, OutboxKnown
<1>2. disk'.events = disk.events
  BY <1>1
<1>3. faults = 0
  BY <1>1 DEF Calm
<1>4. FileOrdered /\ Ordered(health)
  BY <1>1, <1>3 DEF AlertsInOrder
<1>5. Ordered(healthFile)'
  BY <1>1, <1>4 DEF FileOrdered, Ordered
<1>6. FileOrdered'
  BY <1>1, <1>4, <1>5 DEF FileOrdered, Lined, NotOvertaken
<1>7. Lined(events)'
  BY <1>1 DEF Lined, Ascending, ToSet
<1>8. ReportsOrdered'
  BY <1>1 DEF AlertsInOrder, ReportsOrdered
<1> QED BY <1>1, <1>6, <1>7, <1>8 DEF AlertsInOrder

LEMMA RestartInOrder ==
  ASSUME Known, AlertsInOrder, HealthRestart, Calm'
  PROVE  AlertsInOrder'
<1>1. /\ OutboxKnown /\ faults \in Nat /\ restarts \in Nat /\ monitor = "idle"
      /\ disk.events \in Seq(Events) /\ healthFile \in States
  BY RestartSaves DEF Known, MonitorKnown, OutboxKnown, AlertKnown, Sound, HealthRestart
<1>2. /\ ~up /\ up' /\ drain' = "take" /\ UNCHANGED <<reported, restarts>>
      /\ Within(events', disk.events)
      /\ \/ disk' \in FileOf(events') /\ faults' = faults
         \/ faults' = faults + 1
  BY <1>1, RestartSaves DEF HealthRestart
<1>3. restarts > 0
  BY <1>1, <1>2 DEF OutboxKnown
<1>4. faults' = 0 /\ faults = 0 /\ disk'.events = events'
  BY <1>1, <1>2, <1>3 DEF Calm, FileOf
<1>5. Lined(disk.events) /\ Ordered(healthFile)
  BY <1>2, <1>4 DEF AlertsInOrder, FileOrdered
<1>6. /\ health' = Loaded(healthFile) /\ healthFile' = healthFile /\ monitor' = "idle"
      /\ UNCHANGED <<announced, cooled>>
  BY <1>1 DEF HealthRestart
<1>7. Ascending(events') /\ \A e \in ToSet(events') \intersect Stalls : NotOvertaken(e)'
  BY <1>2, <1>5, <1>6, StaysInLine
<1>8. Lined(events)' /\ Lined(disk.events)'
  BY <1>4, <1>7 DEF Lined
<1>9. health'.incident = healthFile.incident /\ health'.delivered = healthFile.delivered
  BY <1>1, <1>6 DEF Loaded, States
<1>10. Ordered(health)'
  BY <1>2, <1>5, <1>6, <1>9 DEF Ordered
<1>11. FileOrdered' /\ ReportsOrdered'
  BY <1>2, <1>6, <1>8, <1>9 DEF FileOrdered, AlertsInOrder, ReportsOrdered
<1> QED BY <1>6, <1>8, <1>10, <1>11 DEF AlertsInOrder

LEMMA CoolingStays == ASSUME Known, Cooling, [HealthNext]_allVars PROVE Cooling'
<1> SUFFICES ASSUME Calm' PROVE AlertsInOrder'
  BY DEF Cooling
<1>1. Calm
  <2>1. faults \in Nat /\ restarts \in Nat /\ OutboxKnown
    BY DEF Known, OutboxKnown
  <2>2. faults' >= faults /\ restarts' >= restarts
    <3>1. Apart => faults' >= faults /\ restarts' >= restarts
      BY <2>1 DEF Apart
    <3>2. Announce => faults' >= faults /\ restarts' >= restarts
      <4>1. Announce => outcome[2] \in Events /\ Put(outcome[2])
        BY DEF Announce, Known, MonitorKnown, OutcomeKnown
      <4>2. Announce => Saved(Appended(outcome[2]), InFlight) /\ restarts' = restarts
        BY <2>1, <4>1, PutSaves
      <4> QED BY <2>1, <4>2 DEF Saved
    <3>3. OutboxAlone => faults' >= faults /\ restarts' >= restarts
      <4>1. Delivered => faults' >= faults /\ restarts' >= restarts
        BY <2>1, DeliveredSaves DEF Saved
      <4> QED BY <2>1, <4>1, StepsOfOutbox
              DEF OutboxAlone, Settles, Saves, Saved, TakeNext, SendSettles
    <3>4. HealthExit => faults' >= faults /\ restarts' >= restarts
      BY <2>1 DEF HealthExit, Exit
    <3>5. HealthRestart => faults' >= faults /\ restarts' >= restarts
      BY <2>1, RestartSaves DEF HealthRestart
    <3>6. UNCHANGED allVars => faults' >= faults /\ restarts' >= restarts
      BY <2>1 DEF allVars, vars
    <3> QED BY <3>1, <3>2, <3>3, <3>4, <3>5, <3>6, MonitorApart DEF HealthNext
  <2> QED BY <2>1, <2>2 DEF Calm, Known, OutboxKnown
<1>2. AlertsInOrder
  BY <1>1 DEF Cooling
<1>3. CASE UNCHANGED allVars
  BY <1>2, <1>3 DEF allVars, vars, memory, history, healthVars, AlertsInOrder, Ordered, Lined,
                    NotOvertaken, FileOrdered, ReportsOrdered
<1> QED
  BY <1>2, <1>3, OutboxInOrder, SamplesInOrder, AnnounceInOrder, SaveInOrder, AcknowledgeInOrder,
     CoolInOrder, ExitInOrder, RestartInOrder DEF HealthNext

\* No alert is put in the outbox before the cooldowns of all that were reported have
\* passed, unless the record of one was lost.
THEOREM CooldownsHold == HealthSpec => CooldownHolds
<1>1. HealthInit => Cooling
  <2> SUFFICES ASSUME HealthInit PROVE AlertsInOrder
    BY DEF Cooling
  <2>1. /\ events = <<>> /\ disk.events = <<>> /\ reported = {} /\ announced = {} /\ cooled = {} /\ up
        /\ health = NewHealth /\ healthFile = NewHealth /\ monitor = "idle" /\ drain = "take"
    BY DEF HealthInit, Init, Empty
  <2>2. NewHealth.delivered = None /\ NewHealth.incident = None
    BY DEF NewHealth
  <2>3. Lined(<<>>)
    BY DEF Lined, Ascending, ToSet
  <2> QED BY <2>1, <2>2, <2>3 DEF AlertsInOrder, Ordered, FileOrdered, ReportsOrdered
<1>2. Known /\ Cooling /\ [HealthNext]_allVars => Cooling'
  BY CoolingStays
<1>3. Cooling =>
        (Announce /\ outcome[2] \in Stalls /\ (faults = 0 \/ restarts = 0) =>
           reported \intersect Stalls \subseteq cooled)
  BY DEF Cooling, Calm, AlertsInOrder, Announce
<1> QED BY <1>1, <1>2, <1>3, AlwaysKnown, PTL DEF HealthSpec, CooldownHolds
=============================================================================

--------------------------- MODULE DownloadHealth ---------------------------
(***************************************************************************)
(* The monitor that tells the user of a download that has come to a        *)
(* standstill (src/main/download-health-monitor.ts), at work with the      *)
(* outbox its notifications go through.                                    *)
(*                                                                         *)
(* A sample is judged, what it announces is put in the outbox, the new     *)
(* state is saved and only then becomes the monitor's.  The outbox in turn *)
(* tells the monitor of every delivered event, and waits for it.  Both do  *)
(* one thing at a time, each on a chain of its own.                        *)
(*                                                                         *)
(* What a snapshot says is the queue's and not the monitor's: a sample may *)
(* find anything.  An incident, incidentStartedAt in the code, is named by *)
(* the event that announces it; it gets the first name not used before.    *)
(***************************************************************************)
EXTENDS NotificationOutbox, FiniteSetsExt

CONSTANTS
  Stalls,         \* the events that announce a standstill, one for each incident
  MinSamples      \* MIN_SUSPICIOUS_SAMPLES

ASSUME StallsAssumption ==
  /\ Stalls \subseteq Errors \ {0}
  /\ \A s \in Stalls : s + 1 \notin Errors
\* An alert takes one sample more at least than the one its incident began with.
ASSUME MinSamplesAssumption == MinSamples \in Nat \ {0, 1}

VARIABLES
  health,         \* the monitor's state
  healthFile,     \* its file
  monitor,        \* where sample() is, "idle" without one
  outcome,        \* the evaluation sample() has in hand: a state and an event
  announced,      \* the incidents an event was made for
  cooled          \* the incidents whose cooldownUntil has passed

healthVars == <<health, healthFile, monitor, outcome, announced, cooled>>

None == 0

\* The event that announces the end of an incident.
RecoveryOf(s) == IF s + 1 \in Events THEN s + 1 ELSE None

\* createDownloadHealthState
NewHealth ==
  [run |-> FALSE,           \* runFingerprint and queueFingerprint are known
   samples |-> 0,           \* suspiciousSamples
   incident |-> None,       \* incidentStartedAt
   alerted |-> FALSE,       \* alertedAt is set
   recovery |-> 0,          \* recoverySamples
   delivered |-> None,      \* lastDeliveredStallEventId, and with it cooldownUntil
   pending |-> 0]           \* restartPending: the fresh samples still missing

\* endIncident
EndIncident(h) == [NewHealth EXCEPT !.delivered = h.delivered]

\* resetForSnapshot
ResetFor(h) == [EndIncident(h) EXCEPT !.run = TRUE]

\* loadDownloadHealthState
Loaded(h) == [h EXCEPT !.pending = IF h.run THEN 2 ELSE 0]

\* No evaluation.
Nothing == <<NewHealth, None>>

HealthInit ==
  /\ Init
  /\ health = NewHealth
  /\ healthFile = NewHealth
  /\ monitor = "idle"
  /\ outcome = Nothing
  /\ announced = {}
  /\ cooled = {}

-----------------------------------------------------------------------------
(* evaluateDownloadHealth, for one sample: the states and events it may come to. *)

Quiet(h) == {<<h, None>>}

\* An alerted incident ends with an item that is complete, or the second sample in
\* which bytes have come.
Recovering(h) ==
  {<<ResetFor(h), RecoveryOf(h.incident)>>,
   IF h.recovery = 1 THEN <<ResetFor(h), RecoveryOf(h.incident)>>
                     ELSE <<[h EXCEPT !.recovery = 1], None>>}

Unused == Stalls \ announced

\* A sample without progress, wait or excuse.  Whether the standstill has lasted
\* long enough is a matter of the clock.
Suspicious(h) ==
  LET incident == IF h.incident # None THEN h.incident ELSE Min(Unused)
      seen == [h EXCEPT !.incident = incident,
                        !.samples = IF @ < MinSamples THEN @ + 1 ELSE @]
      hot == h.delivered # None /\ h.delivered \notin cooled
  IN  IF h.incident = None /\ Unused = {} THEN {}
      ELSE Quiet(seen) \union
           (IF seen.samples >= MinSamples /\ ~hot
            THEN {<<[seen EXCEPT !.alerted = TRUE, !.recovery = 0], incident>>}
            ELSE {})

Unsuspicious(h) == [h EXCEPT !.samples = 0, !.incident = None, !.recovery = 0]

\* A sample that counts, in a run that is known.  A wait that is expected, or an alert
\* that goes on, changes nothing.
Judged(h) ==
  IF h.alerted
  THEN Quiet(h) \union Recovering(h)
  ELSE Quiet(h) \union Quiet(Unsuspicious(h)) \union Suspicious(h)

\* The first of two samples after a restart says nothing.
Fresh(h) ==
  IF h.pending = 2 THEN Quiet([h EXCEPT !.pending = 1])
                   ELSE Judged([h EXCEPT !.pending = 0])

Evaluations(h) ==
  UNION {IF h.pending > 0 THEN Quiet(h) ELSE {},        \* not started again yet
         Quiet(EndIncident(h)),                         \* no run, or it is ending
         Judged(ResetFor(h)),                           \* another run
         IF h.run THEN Fresh(h) ELSE {}}                \* the same one

-----------------------------------------------------------------------------
outbox == <<up, memory, disk, expired, history, faults, restarts>>

\* sample() takes its turn behind a delivery that is being reported, and evaluates.
SampleBegins ==
  /\ up /\ ~stopping /\ monitor = "idle" /\ drain # "report"
  /\ UNCHANGED <<outbox, cooled>>

\* With nothing to announce the new state is saved, or the sample changes nothing.
SampleQuiet ==
  /\ SampleBegins
  /\ health' \in {o[1] : o \in {q \in Evaluations(health) : q[2] = None}}
  /\ healthFile' = health'
  /\ UNCHANGED <<monitor, outcome, announced>>

SampleEvent ==
  /\ SampleBegins
  /\ outcome' \in {o \in Evaluations(health) : o[2] # None}
  /\ monitor' = "enqueue"
  /\ announced' = announced \union ({outcome'[2]} \intersect Stalls)
  /\ UNCHANGED <<health, healthFile>>

Announce_Regardless ==
  /\ monitor = "enqueue"
  /\ Put(outcome[2])
  /\ monitor' = "save"
  /\ UNCHANGED <<health, healthFile, outcome, announced, cooled>>

\* enqueue: an event that cannot be saved leaves the monitor as it was.
Announce ==
  /\ monitor = "enqueue"
  /\ Put(outcome[2])
  /\ monitor' = IF unsaved' THEN "idle" ELSE "save"
  /\ outcome' = IF unsaved' THEN Nothing ELSE outcome
  /\ UNCHANGED <<health, healthFile, announced, cooled>>

\* So does a state that cannot be saved, with the event in the outbox.
SaveHealth ==
  /\ up /\ monitor = "save"
  /\ monitor' = "idle"
  /\ outcome' = Nothing
  /\ \/ /\ health' = outcome[1]
        /\ healthFile' = outcome[1]
        /\ UNCHANGED faults
     \/ /\ faults + restarts < MaxTrouble
        /\ faults' = faults + 1
        /\ UNCHANGED <<health, healthFile>>
  /\ UNCHANGED <<up, memory, disk, expired, history, restarts, announced, cooled>>

Acknowledge_Beside ==
  /\ Reported
  /\ IF current \in Stalls /\ health.delivered # current
     THEN /\ health' = [health EXCEPT !.delivered = current]
          /\ \/ healthFile' = health' /\ UNCHANGED faults
             \/ faults + restarts < MaxTrouble /\ faults' = faults + 1 /\ UNCHANGED healthFile
     ELSE UNCHANGED <<health, healthFile, faults>>
  /\ UNCHANGED <<monitor, outcome, announced, cooled>>

\* acknowledgeDelivery, for which onDelivered waits.  It begins a cooldown, in memory
\* even if that cannot be saved.
Acknowledge ==
  /\ monitor = "idle"
  /\ Reported
  /\ IF current \in Stalls /\ health.delivered # current
     THEN /\ health' = [health EXCEPT !.delivered = current]
          /\ \/ healthFile' = health' /\ UNCHANGED faults
             \/ faults + restarts < MaxTrouble /\ faults' = faults + 1 /\ UNCHANGED healthFile
     ELSE UNCHANGED <<health, healthFile, faults>>
  /\ UNCHANGED <<monitor, outcome, announced, cooled>>

\* Time passes: cooldowns are equally long and end in the order they began.
Cool(s) ==
  /\ s \in reported \ cooled
  /\ \A r \in (reported \ cooled) \intersect Stalls : s <= r
  /\ cooled' = cooled \union {s}
  /\ UNCHANGED <<outbox, health, healthFile, monitor, outcome, announced>>

\* The program ends, in the midst of a sample or not, and is started again.  The
\* monitor's file is one that can be read; one that cannot is a fresh state in the
\* code, in which a cooldown is forgotten.
HealthExit ==
  /\ Exit
  /\ health' = NewHealth
  /\ monitor' = "idle"
  /\ outcome' = Nothing
  /\ UNCHANGED <<healthFile, announced, cooled>>

HealthRestart ==
  /\ Restart
  /\ health' = Loaded(healthFile)
  /\ UNCHANGED <<healthFile, monitor, outcome, announced, cooled>>

-----------------------------------------------------------------------------
OutboxAlone == OutboxSteps /\ UNCHANGED healthVars

HealthNext ==
  \/ SampleQuiet \/ SampleEvent \/ Announce \/ SaveHealth \/ Acknowledge \/ \E s \in Stalls : Cool(s)
  \/ OutboxAlone \/ HealthExit \/ HealthRestart

allVars == <<vars, healthVars>>

HealthSpec == HealthInit /\ [][HealthNext]_allVars

\* Timers fire, and saves and sends settle; the service owes nobody an acceptance.
HealthFairSpec ==
  /\ HealthSpec
  /\ WF_allVars(Announce \/ SaveHealth \/ Acknowledge)
  /\ WF_allVars((TimerFires \/ Recover) /\ UNCHANGED healthVars)
  /\ WF_allVars(DrainSteps /\ UNCHANGED healthVars)

-----------------------------------------------------------------------------
States ==
  [run : BOOLEAN, samples : 0..MinSamples, incident : Stalls \union {None}, alerted : BOOLEAN,
   recovery : 0..1, delivered : Stalls \union {None}, pending : 0..2]

HealthTypeOK ==
  /\ TypeOK
  /\ health \in States /\ healthFile \in States
  /\ monitor \in {"idle", "enqueue", "save"}
  /\ outcome \in States \X (Events \union {None})
  /\ announced \subseteq Stalls /\ cooled \subseteq Stalls

\* While the cooldown that a delivered alert has begun lasts, no alert is put in the
\* outbox, whatever samples, deliveries and restarts come in between.  The cooldown
\* is lost only if it could not be saved and the program ended.
CooldownHolds ==
  [][Announce /\ outcome[2] \in Stalls /\ (faults = 0 \/ restarts = 0) =>
       reported \intersect Stalls \subseteq cooled]_allVars

\* The user is told that downloads run again only if the outbox has, or had, the
\* news of the standstill.
RecoveryFollowsAlert ==
  \A s \in Stalls : RecoveryOf(s) \in ToSet(events) => s \in acked

\* A sample comes to its end, and so does the delivery that waits for it: the monitor
\* waits for the outbox while the outbox waits for the monitor.
SamplesEnd == []<>(monitor = "idle" /\ drain # "report")
=============================================================================

---------------------- MODULE DownloadScheduler_proofs ----------------------
(***************************************************************************)
(* Proofs about DownloadScheduler, for any items, packages, parallel and   *)
(* retry limits, and any number of calls and pieces of trouble.            *)
(***************************************************************************)
EXTENDS DownloadScheduler, FiniteSetTheorems, TLAPS

\* Every start() that waits was called.
PendingWasCalled == pendingStarts <= calls

Typed == TypeOK /\ PendingWasCalled

LEMMA NoOutcomesTyped == NoOutcomes \in [Items -> Outcomes \union {"none"}]
BY DEF NoOutcomes

LEMMA InitTyped == Init => Typed
<1> SUFFICES ASSUME Init PROVE Typed
  OBVIOUS
<1>1. /\ status \in [Items -> Statuses]
      /\ task \in [Items -> Phases \union {"none"}]
      /\ reason \in [Items -> Reasons \union {"none"}]
      /\ outcome \in [Items -> Outcomes \union {"none"}]
  BY NoOutcomesTyped DEF Init, Statuses, Waiting
<1>2. /\ retries \in [Items -> 0..RetryLimit] /\ attempts \in [Items -> 0..MaxAttempts]
      /\ enabled \in [Packages -> BOOLEAN]
  BY BoundsAssumption DEF Init, MaxAttempts
<1>3. /\ running \in BOOLEAN /\ paused \in BOOLEAN /\ reconnect \in BOOLEAN
      /\ loop \in {"none", "fresh", "stale"}
      /\ delayed = {} /\ runItems = {} /\ runPkgs = {} /\ post = {}
      /\ pendingStarts = 0 /\ calls = 0 /\ trouble = 0
  BY DEF Init
<1> QED
  BY <1>1, <1>2, <1>3, BoundsAssumption DEF Typed, TypeOK, PendingWasCalled

LEMMA TaskTyped == ASSUME Typed, NEW i \in Items, TaskSteps(i) PROVE Typed'
<1> USE BoundsAssumption, PackageOfAssumption
    DEF Typed, PendingWasCalled, TypeOK, control, runSets, Statuses, Waiting, Working, Finished,
        Phases, Reasons, Outcomes, Aborted, Recorded, Settle, Moved, Recovers, Recovering,
        MaxAttempts
<1>1. CASE PreflightFinalizes(i) BY <1>1 DEF PreflightFinalizes, Complete
<1>2. CASE PreflightPasses(i) BY <1>2 DEF PreflightPasses
<1>3. CASE Cooldown(i) BY <1>3 DEF Cooldown, Requeue
<1>4. CASE Unrestricted(i) BY <1>4 DEF Unrestricted
<1>5. CASE SetupDone(i) BY <1>5 DEF SetupDone
<1>6. CASE DiskFull(i) BY <1>6 DEF DiskFull, Requeue
<1>7. CASE RequestReconnect(i) BY <1>7 DEF RequestReconnect
<1>8. CASE TransferStalls(i) BY <1>8 DEF TransferStalls
<1>9. CASE TransferDone(i) BY <1>9 DEF TransferDone
<1>10. CASE CheckPasses(i) BY <1>10 DEF CheckPasses, Complete
<1>11. CASE CheckFails(i) BY <1>11 DEF CheckFails
<1>12. CASE Fails(i) BY <1>12 DEF Fails
<1>13. CASE UnwindStopped(i) BY <1>13 DEF UnwindStopped, GiveUp
<1>14. CASE UnwindParked(i) BY <1>14 DEF UnwindParked, GiveUp
<1>15. CASE UnwindReconnect(i) BY <1>15 DEF UnwindReconnect, GiveUp
<1>16. CASE UnwindToggled(i) BY <1>16 DEF UnwindToggled, GiveUp
<1>17. CASE RecoveryFinalizes(i) BY <1>17 DEF RecoveryFinalizes, Complete
<1>18. CASE RecoveryRetries(i) BY <1>18 DEF RecoveryRetries, Requeue
<1>19. CASE RecoveryFails(i) BY <1>19 DEF RecoveryFails, GiveUp
<1>20. CASE HostBusy(i) BY <1>20 DEF HostBusy, Requeue
<1>21. CASE SetupCompletes(i) BY <1>21 DEF SetupCompletes, Complete
<1> QED BY <1>1, <1>2, <1>3, <1>4, <1>5, <1>6, <1>7, <1>8, <1>9, <1>10, <1>11, <1>12,
           <1>13, <1>14, <1>15, <1>16, <1>17, <1>18, <1>19, <1>20, <1>21 DEF TaskSteps

\* The scheduler loop, the timers, and what the environment does to an item.
LoopSide(i) ==
  \/ Launch(i) \/ LaunchFinalizes(i) \/ Paced(i)
  \/ PreflightHolds(i) \/ TransferHolds(i) \/ ChunkWritten(i)
  \/ WatchdogAborts(i) \/ RetryDue(i) \/ StartFinalizes(i) \/ StartRequeues(i)
  \/ PostFinalizes(i) \/ PostRequeues(i)

LEMMA LoopSideTyped == ASSUME Typed, NEW i \in Items, LoopSide(i) PROVE Typed'
<1> USE BoundsAssumption, PackageOfAssumption
    DEF Typed, PendingWasCalled, TypeOK, control, runSets, Statuses, Waiting, Working, Finished,
        Phases, Reasons, Outcomes, Recorded, Settle, MaxAttempts
<1>1. CASE Launch(i) BY <1>1 DEF Launch
<1>2. CASE LaunchFinalizes(i) BY <1>2 DEF LaunchFinalizes, Complete
<1>3. CASE Paced(i) BY <1>3 DEF Paced
<1>4. CASE PreflightHolds(i) BY <1>4 DEF PreflightHolds
<1>5. CASE TransferHolds(i) BY <1>5 DEF TransferHolds
<1>6. CASE ChunkWritten(i) BY <1>6 DEF ChunkWritten
<1>7. CASE WatchdogAborts(i) BY <1>7 DEF WatchdogAborts
<1>8. CASE RetryDue(i) BY <1>8 DEF RetryDue
<1>9. CASE StartFinalizes(i) BY <1>9 DEF StartFinalizes
<1>10. CASE StartRequeues(i) BY <1>10 DEF StartRequeues
<1>11. CASE PostFinalizes(i) BY <1>11 DEF PostFinalizes
<1>12. CASE PostRequeues(i) BY <1>12 DEF PostRequeues
<1> QED BY <1>1, <1>2, <1>3, <1>4, <1>5, <1>6, <1>7, <1>8, <1>9, <1>10, <1>11, <1>12
        DEF LoopSide

\* What concerns the run as a whole and is no call of the user.
RunSide ==
  \/ FinishRun \/ LoopExit \/ MarkReconnectWait \/ StartContinues \/ ReconnectOver
  \/ \E p \in Packages : PostProcessed(p)

\* What a run that begins has for its books.
LEMMA BeginRunTyped ==
  ASSUME Typed, NEW chosen \in SUBSET Items, BeginRun(chosen)
  PROVE  /\ running' = TRUE /\ paused' = FALSE /\ reconnect' = FALSE
         /\ loop' \in {"fresh", "stale"}
         /\ runItems' \in SUBSET Items
         /\ runPkgs' \in SUBSET Packages
         /\ outcome' = NoOutcomes
         /\ retries' \in [Items -> 0..RetryLimit]
         /\ delayed' = {}
BY PackageOfAssumption, BoundsAssumption DEF Typed, TypeOK, BeginRun, LoopEnsured, RetriesCleared

LEMMA ResumedTyped ==
  ASSUME Typed, NEW scope
  PROVE  Resumed(scope) \in [Items -> Statuses]
BY DEF Typed, TypeOK, Resumed, Statuses, Waiting

LEMMA ExtractionsTyped ==
  ASSUME Typed, NEW on, NEW st, ExtractionsTriggered(on, st)
  PROVE  post' \in SUBSET Packages
BY DEF Typed, TypeOK, ExtractionsTriggered, Extractable

LEMMA StartContinuesTyped == ASSUME Typed, StartContinues PROVE Typed'
<1>1. status' \in [Items -> Statuses]
  BY ResumedTyped DEF StartContinues
<1>2. post' \in SUBSET Packages
  BY ExtractionsTyped DEF StartContinues
<1>3. /\ pendingStarts' \in 0..MaxCalls /\ pendingStarts' <= calls'
      /\ UNCHANGED <<enabled, task, reason, attempts, calls, trouble>>
  BY BoundsAssumption DEF Typed, TypeOK, PendingWasCalled, StartContinues
<1>4. /\ running' \in BOOLEAN /\ paused' \in BOOLEAN /\ reconnect' \in BOOLEAN
      /\ loop' \in {"none", "fresh", "stale"}
      /\ runItems' \in SUBSET Items
      /\ runPkgs' \in SUBSET Packages
      /\ outcome' \in [Items -> Outcomes \union {"none"}]
      /\ retries' \in [Items -> 0..RetryLimit]
      /\ delayed' \in SUBSET Items
  <2> DEFINE chosen == {i \in EnabledItems : status'[i] \in Waiting}
  <2>1. chosen \in SUBSET Items
    BY DEF EnabledItems
  <2>2. CASE BeginRun(chosen)
    BY <2>1, <2>2, BeginRunTyped, NoOutcomesTyped
  <2>3. CASE ~BeginRun(chosen)
    <3>1. RetriesCleared \in [Items -> 0..RetryLimit]
      BY BoundsAssumption DEF RetriesCleared, Typed, TypeOK
    <3>2. LoopEnsured \in {"none", "fresh", "stale"}
      BY DEF LoopEnsured, Typed, TypeOK
    <3>3. running' \in BOOLEAN /\ paused' = FALSE /\ runItems' = {} /\ runPkgs' = {}
          /\ outcome' = NoOutcomes
      BY <2>3 DEF StartContinues
    <3>4. /\ loop' \in {LoopEnsured, loop}
          /\ retries' \in {RetriesCleared, retries}
          /\ delayed' \in {{}, delayed}
          /\ reconnect' \in {FALSE, reconnect}
      BY <2>3 DEF StartContinues
    <3> QED BY <3>1, <3>2, <3>3, <3>4, NoOutcomesTyped DEF Typed, TypeOK
  <2> QED BY <2>2, <2>3
<1> QED BY <1>1, <1>2, <1>3, <1>4 DEF Typed, TypeOK, PendingWasCalled

LEMMA RunSideTyped == ASSUME Typed, RunSide PROVE Typed'
<1> USE BoundsAssumption DEF Typed, PendingWasCalled, TypeOK, control, work, runSets
<1>1. CASE FinishRun
  <2>1. retries' \in [Items -> 0..RetryLimit]
    BY <1>1 DEF FinishRun, RetriesCleared
  <2>2. outcome' \in [Items -> Outcomes \union {"none"}]
    BY <1>1, NoOutcomesTyped DEF FinishRun
  <2> QED BY <1>1, <2>1, <2>2 DEF FinishRun
<1>2. CASE LoopExit BY <1>2 DEF LoopExit, Respawned
<1>3. CASE MarkReconnectWait BY <1>3 DEF MarkReconnectWait, Statuses, Waiting
<1>4. CASE StartContinues BY <1>4, StartContinuesTyped
<1>5. CASE ReconnectOver BY <1>5 DEF ReconnectOver
<1>6. CASE \E p \in Packages : PostProcessed(p) BY <1>6 DEF PostProcessed
<1> QED BY <1>1, <1>2, <1>3, <1>4, <1>5, <1>6 DEF RunSide

LEMMA StartSelectedTyped ==
  ASSUME Typed, NEW wanted \in SUBSET Items, StartSelected(wanted) PROVE Typed'
<1>1. status' \in [Items -> Statuses]
  BY ResumedTyped DEF StartSelected
<1>2. /\ enabled' \in [Packages -> BOOLEAN]
      /\ calls' \in 0..MaxCalls /\ pendingStarts' <= calls'
      /\ UNCHANGED <<pendingStarts, task, reason, attempts, trouble>>
  BY BoundsAssumption DEF Typed, TypeOK, PendingWasCalled, StartSelected, Called
<1>3. post' \in SUBSET Packages
  BY ExtractionsTyped DEF StartSelected, Typed, TypeOK
<1>4. /\ running' \in BOOLEAN /\ paused' \in BOOLEAN /\ reconnect' \in BOOLEAN
      /\ loop' \in {"none", "fresh", "stale"}
      /\ runItems' \in SUBSET Items
      /\ runPkgs' \in SUBSET Packages
      /\ outcome' \in [Items -> Outcomes \union {"none"}]
      /\ retries' \in [Items -> 0..RetryLimit]
      /\ delayed' \in SUBSET Items
  <2> DEFINE chosen == {i \in wanted : status'[i] \in Waiting}
  <2>1. chosen \in SUBSET Items
    OBVIOUS
  <2>2. CASE BeginRun(chosen)
    BY <2>1, <2>2, BeginRunTyped, NoOutcomesTyped
  <2>3. CASE ~BeginRun(chosen)
    BY <2>1, <2>3, PackageOfAssumption DEF StartSelected, Typed, TypeOK, runSets
  <2> QED BY <2>2, <2>3
<1> QED BY <1>1, <1>2, <1>3, <1>4 DEF Typed, TypeOK, PendingWasCalled

LEMMA UserTyped == ASSUME Typed, UserSteps PROVE Typed'
<1> USE BoundsAssumption
    DEF Typed, PendingWasCalled, TypeOK, Called, work, runSets
<1>1. CASE Start BY <1>1 DEF Start, GenerationBumped
<1>2. CASE StartPackages
  <2>1. PICK ps \in SUBSET Packages : StartSelected({i \in Items : PackageOf[i] \in ps})
    BY <1>2 DEF StartPackages
  <2> HIDE DEF Typed
  <2> QED BY <2>1, StartSelectedTyped
<1>3. CASE StartItems
  <2>1. PICK is \in SUBSET Items : StartSelected(is)
    BY <1>3 DEF StartItems
  <2> HIDE DEF Typed
  <2> QED BY <2>1, StartSelectedTyped
<1>4. CASE \E r \in {"stop", "shutdown"} : Stop(r)
  <2>1. PICK r \in {"stop", "shutdown"} : Stop(r)
    BY <1>4
  <2>2. /\ status' \in [Items -> Statuses]
        /\ retries' \in [Items -> 0..RetryLimit]
    BY <2>1 DEF Stop, RetriesCleared, Statuses, Waiting
  <2>3. reason' \in [Items -> Reasons \union {"none"}]
    BY <2>1 DEF Stop, AbortLive, Reasons
  <2>4. outcome' \in [Items -> Outcomes \union {"none"}]
    BY <2>1, NoOutcomesTyped DEF Stop
  <2>5. /\ running' = FALSE /\ paused' = FALSE /\ reconnect' = FALSE
        /\ loop' \in {"none", "fresh", "stale"}
        /\ delayed' = {} /\ runItems' = {} /\ runPkgs' = {}
        /\ calls' \in 0..MaxCalls /\ calls' >= calls
        /\ UNCHANGED <<pendingStarts, enabled, task, attempts, post, trouble>>
    BY <2>1 DEF Stop, GenerationBumped
  <2>6. PendingWasCalled'
    BY <2>5
  <2>7. TypeOK'
    BY <2>2, <2>3, <2>4, <2>5
  <2> QED BY <2>6, <2>7
<1>5. CASE PrepareForShutdown
  <2>1. status' \in [Items -> Statuses]
    BY <1>5 DEF PrepareForShutdown, Statuses, Waiting
  <2>2. reason' \in [Items -> Reasons \union {"none"}]
    BY <1>5 DEF PrepareForShutdown, AbortLive, Reasons
  <2>3. outcome' \in [Items -> Outcomes \union {"none"}]
    BY <1>5, NoOutcomesTyped DEF PrepareForShutdown
  <2>4. /\ running' = FALSE /\ paused' = FALSE /\ reconnect' = FALSE
        /\ delayed' = {} /\ runItems' = {} /\ runPkgs' = {}
        /\ calls' \in 0..MaxCalls /\ calls' >= calls
        /\ UNCHANGED <<loop, pendingStarts, enabled, task, retries, attempts, post, trouble>>
    BY <1>5 DEF PrepareForShutdown
  <2>5. PendingWasCalled'
    BY <2>4
  <2>6. TypeOK'
    BY <2>1, <2>2, <2>3, <2>4
  <2> QED BY <2>5, <2>6
<1>6. CASE Pause BY <1>6 DEF Pause
<1>7. CASE Resume
  <2>1. post' \in SUBSET Packages
    BY <1>7, ExtractionsTyped DEF Resume
  <2>2. PICK stuck \in SUBSET Items :
          reason' = [i \in Items |-> IF i \in stuck THEN "stall" ELSE reason[i]]
    BY <1>7 DEF Resume, Live
  <2>3. reason' \in [Items -> Reasons \union {"none"}]
    BY <2>2 DEF Reasons
  <2>4. /\ paused' = FALSE /\ delayed' = {}
        /\ calls' \in 0..MaxCalls /\ calls' >= calls
        /\ UNCHANGED <<running, loop, pendingStarts, enabled, status, task, retries,
                       attempts, runItems, runPkgs, outcome, reconnect, trouble>>
    BY <1>7 DEF Resume
  <2>5. PendingWasCalled'
    BY <2>4
  <2>6. TypeOK'
    BY <2>1, <2>3, <2>4
  <2> QED BY <2>5, <2>6
<1>8. CASE \E p \in Packages : Disable(p) \/ Enable(p)
  <2>1. PICK p \in Packages : Disable(p) \/ Enable(p)
    BY <1>8
  <2>2. CASE Disable(p) BY <2>2 DEF Disable, Statuses, Waiting, Reasons
  <2>3. CASE Enable(p) BY <2>3 DEF Enable, LoopEnsured, ItemsOf
  <2> QED BY <2>1, <2>2, <2>3
<1> QED BY <1>1, <1>2, <1>3, <1>4, <1>5, <1>6, <1>7, <1>8 DEF UserSteps

\* Every step is one of these, or changes nothing.
LEMMA Cases ==
  ASSUME [Next]_vars
  PROVE  \/ \E i \in Items : TaskSteps(i) \/ LoopSide(i)
         \/ RunSide
         \/ UserSteps
         \/ UNCHANGED vars
BY DEF Next, LoopSteps, LoopSide, RunSide

LEMMA NextTyped == Typed /\ [Next]_vars => Typed'
<1> SUFFICES ASSUME Typed, [Next]_vars PROVE Typed'
  OBVIOUS
<1>1. ASSUME UNCHANGED vars PROVE Typed'
  BY <1>1 DEF Typed, PendingWasCalled, TypeOK, vars, control, work, runSets
<1> QED BY <1>1, Cases, TaskTyped, LoopSideTyped, RunSideTyped, UserTyped

\* The scheduler's state always has the shape the code gives it: retry counters
\* stay within the limit, and no more start() calls wait than were made.
THEOREM TypeCorrect == Spec => []TypeOK
<1>1. Spec => []Typed
  BY InitTyped, NextTyped, PTL DEF Spec
<1> QED BY <1>1, PTL DEF Typed

-----------------------------------------------------------------------------
(* The safety invariants.  Each is inductive together with the types.  What  *)
(* a task, the loop or a timer may do to them is summed up once, in Tame.    *)

Safe ==
  NotLeaderless /\ DisabledIsAborted /\ ReconnectAbortsAll /\ BooksNeedRun /\ OutcomeOfRunItem

\* The run's control is left alone, only the run's items get an outcome, and
\* whatever is alive afterwards was alive and stays aborted if it was, or was
\* launched for an enabled package with no reconnect on.
Tame ==
  /\ UNCHANGED <<running, loop, pendingStarts, enabled, runItems, runPkgs>>
  /\ \A j \in Items : outcome'[j] # "none" => outcome[j] # "none" \/ j \in runItems
  /\ runItems = {} => outcome' = outcome
  /\ \A j \in Items : task'[j] # "none" =>
       \/ task[j] # "none" /\ (reason[j] # "none" => reason'[j] # "none")
       \/ enabled[PackageOf[j]] /\ ~reconnect'
  /\ reconnect' => \/ reconnect
                   \/ \A j \in Items : task'[j] # "none" => reason'[j] # "none"

LEMMA TameIsSafe == ASSUME Typed, Safe, Tame PROVE Safe'
<1>1. NotLeaderless'
  BY DEF Safe, Tame, NotLeaderless
<1>2. DisabledIsAborted'
  BY DEF Safe, Tame, DisabledIsAborted, Live, Aborted
<1>3. ReconnectAbortsAll'
  BY DEF Safe, Tame, ReconnectAbortsAll, Live, Aborted
<1>4. BooksNeedRun'
  BY DEF Safe, Tame, BooksNeedRun, NoOutcomes
<1>5. OutcomeOfRunItem'
  BY DEF Safe, Tame, OutcomeOfRunItem
<1> QED BY <1>1, <1>2, <1>3, <1>4, <1>5 DEF Safe

\* recordRunOutcome does nothing to an item outside the run.
LEMMA RecordedOutcomes ==
  ASSUME Typed, NEW i \in Items, NEW r
  PROVE  /\ \A j \in Items : Recorded(i, r)[j] # "none" => outcome[j] # "none" \/ j \in runItems
         /\ runItems = {} => Recorded(i, r) = outcome
BY DEF Typed, TypeOK, Recorded

\* A task whose step ends it, or moves it on, is tame ...
LEMMA SettleTame ==
  ASSUME Typed, NEW i \in Items, Settle(i)
  PROVE  \A j \in Items : task'[j] # "none" => task[j] # "none" /\ reason'[j] = reason[j]
BY DEF Typed, TypeOK, Settle

LEMMA CompleteTame == ASSUME Typed, NEW i \in Items, Complete(i) PROVE Tame
BY SettleTame, RecordedOutcomes DEF Complete, Tame, control

LEMMA RequeueTame == ASSUME Typed, NEW i \in Items, NEW n, Requeue(i, n) PROVE Tame
BY SettleTame DEF Requeue, Tame, control, runSets

LEMMA GiveUpTame ==
  ASSUME Typed, NEW i \in Items, NEW s, NEW r, NEW n, GiveUp(i, s, r, n) PROVE Tame
BY SettleTame, RecordedOutcomes DEF GiveUp, Tame, control

LEMMA TaskTame == ASSUME Typed, NEW i \in Items, TaskSteps(i) PROVE Tame
<1>1. CASE PreflightFinalizes(i) \/ CheckPasses(i) \/ RecoveryFinalizes(i) \/ SetupCompletes(i)
  BY <1>1, CompleteTame DEF PreflightFinalizes, CheckPasses, RecoveryFinalizes, SetupCompletes
<1>2. CASE Cooldown(i) \/ HostBusy(i) \/ DiskFull(i) \/ RecoveryRetries(i)
  BY <1>2, RequeueTame DEF Cooldown, HostBusy, DiskFull, RecoveryRetries
<1>3. CASE UnwindStopped(i) \/ UnwindParked(i) \/ UnwindReconnect(i) \/ UnwindToggled(i)
           \/ RecoveryFails(i)
  BY <1>3, GiveUpTame
  DEF UnwindStopped, UnwindParked, UnwindReconnect, UnwindToggled, RecoveryFails
<1>4. CASE \/ PreflightPasses(i) \/ Unrestricted(i) \/ SetupDone(i) \/ TransferDone(i)
           \/ CheckFails(i) \/ Fails(i) \/ TransferStalls(i)
  <2>1. /\ UNCHANGED <<running, loop, pendingStarts, enabled, runItems, runPkgs, outcome, reconnect>>
    BY <1>4 DEF PreflightPasses, Unrestricted, SetupDone, TransferDone, CheckFails, Fails,
       TransferStalls, control, runSets
  <2>2. task[i] # "none" /\ \A j \in Items \ {i} : task'[j] = task[j]
    BY <1>4 DEF PreflightPasses, Unrestricted, SetupDone, TransferDone, CheckFails, Fails,
       TransferStalls, Recovers, Recovering, Moved, Phases, Typed, TypeOK
  <2>3. \A j \in Items : reason'[j] = reason[j] \/ reason'[j] = "stall"
    BY <1>4 DEF PreflightPasses, Unrestricted, SetupDone, TransferDone, CheckFails, Fails,
       TransferStalls, Typed, TypeOK
  <2> QED BY <2>1, <2>2, <2>3 DEF Tame
<1>5. CASE RequestReconnect(i)
  <2>1. \A j \in Items : task'[j] # "none" => task[j] # "none" /\ reason'[j] = "reconnect"
    BY <1>5 DEF RequestReconnect, Live, Typed, TypeOK
  <2>2. UNCHANGED <<running, loop, pendingStarts, enabled, runItems, runPkgs, outcome>>
    BY <1>5 DEF RequestReconnect, control, runSets
  <2> QED BY <2>1, <2>2 DEF Tame
<1> QED BY <1>1, <1>2, <1>3, <1>4, <1>5 DEF TaskSteps

\* ... and so is what the loop and the timers do.
LEMMA LoopSideTame == ASSUME Typed, NEW i \in Items, LoopSide(i) PROVE Tame
<1>1. CASE Launch(i)
  <2>1. /\ UNCHANGED <<running, loop, pendingStarts, enabled, runItems, runPkgs, outcome, reconnect>>
        /\ ~reconnect /\ enabled[PackageOf[i]]
    BY <1>1 DEF Launch, Eligible, InRun, control, runSets
  <2>2. \A j \in Items \ {i} : task'[j] = task[j] /\ reason'[j] = reason[j]
    BY <1>1 DEF Launch, Typed, TypeOK
  <2> QED BY <2>1, <2>2 DEF Tame
<1>2. CASE LaunchFinalizes(i)
  BY <1>2, CompleteTame DEF LaunchFinalizes
<1>3. CASE \/ Paced(i) \/ PreflightHolds(i) \/ TransferHolds(i) \/ ChunkWritten(i)
           \/ RetryDue(i) \/ StartRequeues(i) \/ PostRequeues(i)
  BY <1>3 DEF Paced, PreflightHolds, TransferHolds, ChunkWritten, RetryDue, StartRequeues,
     PostRequeues, Tame, control, runSets
<1>4. CASE WatchdogAborts(i)
  BY <1>4 DEF WatchdogAborts, Tame, control, runSets, Typed, TypeOK
<1>5. CASE StartFinalizes(i) \/ PostFinalizes(i)
  BY <1>5, RecordedOutcomes DEF StartFinalizes, PostFinalizes, Tame, control
<1> QED BY <1>1, <1>2, <1>3, <1>4, <1>5 DEF LoopSide

LEMMA InitSafe == Init => Safe
BY DEF Init, Safe, NotLeaderless, DisabledIsAborted, ReconnectAbortsAll, BooksNeedRun,
   OutcomeOfRunItem, NoOutcomes, Live

\* Books that are emptied are in order.
LEMMA EmptyBooks ==
  ASSUME runItems' = {}, runPkgs' = {}, outcome' = NoOutcomes
  PROVE  BooksNeedRun' /\ OutcomeOfRunItem'
BY DEF BooksNeedRun, OutcomeOfRunItem, NoOutcomes

\* A step that touches neither tasks, switches nor a reconnect keeps the tasks
\* aborted that are.
LEMMA TasksAlone ==
  ASSUME Safe, UNCHANGED <<task, reason, enabled>>, reconnect' => reconnect
  PROVE  DisabledIsAborted' /\ ReconnectAbortsAll'
BY DEF Safe, DisabledIsAborted, ReconnectAbortsAll, Live, Aborted

LEMMA BeginRunSafe ==
  ASSUME Typed, NEW chosen \in SUBSET Items, BeginRun(chosen)
  PROVE  NotLeaderless' /\ BooksNeedRun' /\ OutcomeOfRunItem' /\ (reconnect' => reconnect)
BY DEF Typed, TypeOK, BeginRun, LoopEnsured, NotLeaderless, BooksNeedRun, OutcomeOfRunItem,
   NoOutcomes

LEMMA RunSideSafe == ASSUME Typed, Safe, RunSide PROVE Safe'
<1>1. CASE FinishRun
  <2>1. NotLeaderless'
    BY <1>1 DEF FinishRun, NotLeaderless
  <2>2. BooksNeedRun' /\ OutcomeOfRunItem'
    BY <1>1, EmptyBooks DEF FinishRun
  <2>3. DisabledIsAborted' /\ ReconnectAbortsAll'
    BY <1>1, TasksAlone DEF FinishRun
  <2> QED BY <2>1, <2>2, <2>3 DEF Safe
<1>2. CASE LoopExit
  <2>1. NotLeaderless'
    BY <1>2 DEF LoopExit, Respawned, NotLeaderless
  <2>2. BooksNeedRun' /\ OutcomeOfRunItem'
    BY <1>2 DEF Safe, LoopExit, runSets, BooksNeedRun, OutcomeOfRunItem
  <2>3. DisabledIsAborted' /\ ReconnectAbortsAll'
    BY <1>2, TasksAlone DEF LoopExit, work
  <2> QED BY <2>1, <2>2, <2>3 DEF Safe
<1>3. CASE MarkReconnectWait \/ ReconnectOver \/ \E p \in Packages : PostProcessed(p)
  <2>1. Tame
    BY <1>3 DEF MarkReconnectWait, ReconnectOver, PostProcessed, Tame, control, work, runSets
  <2> QED BY <2>1, TameIsSafe
<1>4. CASE StartContinues
  <2> DEFINE chosen == {i \in EnabledItems : status'[i] \in Waiting}
  <2>1. chosen \in SUBSET Items
    BY DEF EnabledItems
  <2>2. UNCHANGED <<task, reason, enabled>>
    BY <1>4 DEF StartContinues
  <2>3. CASE BeginRun(chosen)
    BY <2>1, <2>2, <2>3, BeginRunSafe, TasksAlone DEF Safe
  <2>4. CASE ~BeginRun(chosen)
    <3>1. /\ runItems' = {} /\ runPkgs' = {} /\ outcome' = NoOutcomes
          /\ running' => loop' = LoopEnsured
          /\ reconnect' => reconnect
      BY <1>4, <2>4 DEF StartContinues
    <3>2. NotLeaderless'
      BY <3>1 DEF NotLeaderless, LoopEnsured, Typed, TypeOK
    <3> QED BY <2>2, <3>1, <3>2, EmptyBooks, TasksAlone DEF Safe
  <2> QED BY <2>3, <2>4
<1> QED BY <1>1, <1>2, <1>3, <1>4 DEF RunSide

LEMMA StartSelectedSafe ==
  ASSUME Typed, Safe, NEW wanted \in SUBSET Items, StartSelected(wanted) PROVE Safe'
<1> DEFINE chosen == {i \in wanted : status'[i] \in Waiting}
<1>1. UNCHANGED <<task, reason, pendingStarts>>
  BY DEF StartSelected
<1>2. \A p \in Packages : enabled[p] => enabled'[p]
  BY DEF StartSelected
<1>3. DisabledIsAborted'
  BY <1>1, <1>2, PackageOfAssumption DEF Safe, DisabledIsAborted, Live, Aborted
<1>4. CASE BeginRun(chosen)
  BY <1>1, <1>3, <1>4, BeginRunSafe DEF Safe, ReconnectAbortsAll, Live, Aborted
<1>5. CASE ~BeginRun(chosen)
  <2>1. /\ UNCHANGED <<running, loop, outcome, reconnect>>
        /\ (running /\ runItems \subseteq runItems') \/ UNCHANGED <<runItems, runPkgs>>
    BY <1>5 DEF StartSelected, runSets
  <2> QED
    BY <1>1, <1>3, <2>1
    DEF Safe, NotLeaderless, BooksNeedRun, OutcomeOfRunItem, ReconnectAbortsAll, Live, Aborted,
        NoOutcomes
<1> QED BY <1>4, <1>5

\* Everything that is alive has been aborted.
LEMMA AbortAll ==
  ASSUME Typed, NEW r \in Reasons, reason' = AbortLive(r), UNCHANGED task
  PROVE  DisabledIsAborted' /\ ReconnectAbortsAll'
<1>1. \A i \in Items : task'[i] # "none" => reason'[i] # "none"
  BY DEF AbortLive, Reasons, Live
<1> QED BY <1>1 DEF DisabledIsAborted, ReconnectAbortsAll, Live, Aborted

LEMMA UserSafe == ASSUME Typed, Safe, UserSteps PROVE Safe'
<1>1. CASE Start
  <2>1. NotLeaderless'
    BY <1>1 DEF Start, NotLeaderless, Typed, TypeOK
  <2>2. BooksNeedRun' /\ OutcomeOfRunItem'
    BY <1>1 DEF Safe, Start, runSets, BooksNeedRun, OutcomeOfRunItem
  <2>3. DisabledIsAborted' /\ ReconnectAbortsAll'
    BY <1>1, TasksAlone DEF Start, work
  <2> QED BY <2>1, <2>2, <2>3 DEF Safe
<1>2. CASE StartPackages
  BY <1>2, StartSelectedSafe DEF StartPackages
<1>3. CASE StartItems
  BY <1>3, StartSelectedSafe DEF StartItems
<1>4. CASE (\E r \in {"stop", "shutdown"} : Stop(r)) \/ PrepareForShutdown
  <2>1. /\ running' = FALSE
        /\ runItems' = {} /\ runPkgs' = {} /\ outcome' = NoOutcomes
        /\ UNCHANGED task
        /\ \E r \in Reasons : reason' = AbortLive(r)
    BY <1>4 DEF Stop, PrepareForShutdown, Reasons
  <2>2. NotLeaderless'
    BY <2>1 DEF NotLeaderless
  <2> QED BY <2>1, <2>2, EmptyBooks, AbortAll DEF Safe
<1>5. CASE Pause
  BY <1>5, TasksAlone DEF Pause, work, runSets, Safe, NotLeaderless, BooksNeedRun, OutcomeOfRunItem
<1>6. CASE Resume
  <2>1. \A i \in Items : reason'[i] = reason[i] \/ reason'[i] = "stall"
    BY <1>6 DEF Resume
  <2>2. UNCHANGED <<running, loop, pendingStarts, enabled, task, runItems, runPkgs, outcome, reconnect>>
    BY <1>6 DEF Resume, runSets
  <2>3. Tame
    BY <2>1, <2>2 DEF Tame
  <2> QED BY <2>3, TameIsSafe
<1>7. ASSUME NEW p \in Packages, Disable(p) PROVE Safe'
  <2>1. \A i \in Items : task'[i] = task[i] /\ (reason[i] # "none" => reason'[i] # "none")
    BY <1>7 DEF Disable
  <2>2. DisabledIsAborted'
    <3>1. \A i \in Items : PackageOf[i] = p /\ task[i] # "none" => reason'[i] # "none"
      BY <1>7 DEF Disable, ItemsOf, Live
    <3>2. \A q \in Packages \ {p} : enabled'[q] = enabled[q]
      BY <1>7 DEF Disable, Typed, TypeOK
    <3> QED
      BY <2>1, <3>1, <3>2, PackageOfAssumption DEF Safe, DisabledIsAborted, Live, Aborted
  <2>3. ReconnectAbortsAll'
    BY <1>7, <2>1 DEF Disable, Safe, ReconnectAbortsAll, Live, Aborted
  <2>4. NotLeaderless'
    BY <1>7 DEF Disable, Safe, NotLeaderless
  <2>5. BooksNeedRun' /\ OutcomeOfRunItem'
    BY <1>7 DEF Disable, Safe, BooksNeedRun, OutcomeOfRunItem
  <2> QED BY <2>2, <2>3, <2>4, <2>5 DEF Safe
<1>8. ASSUME NEW p \in Packages, Enable(p) PROVE Safe'
  <2>1. DisabledIsAborted'
    BY <1>8, PackageOfAssumption
    DEF Enable, work, Safe, DisabledIsAborted, Live, Aborted, Typed, TypeOK
  <2>2. ReconnectAbortsAll'
    BY <1>8 DEF Enable, work, Safe, ReconnectAbortsAll, Live, Aborted
  <2>3. NotLeaderless'
    BY <1>8 DEF Enable, LoopEnsured, Safe, NotLeaderless
  <2>4. OutcomeOfRunItem'
    BY <1>8 DEF Enable, Safe, OutcomeOfRunItem
  <2>5. BooksNeedRun'
    BY <1>8 DEF Enable, Safe, BooksNeedRun, NoOutcomes
  <2> QED BY <2>1, <2>2, <2>3, <2>4, <2>5 DEF Safe
<1> QED BY <1>1, <1>2, <1>3, <1>4, <1>5, <1>6, <1>7, <1>8 DEF UserSteps

LEMMA NextSafe == Typed /\ Safe /\ [Next]_vars => Safe'
<1> SUFFICES ASSUME Typed, Safe, [Next]_vars PROVE Safe'
  OBVIOUS
<1>1. ASSUME NEW i \in Items, TaskSteps(i) \/ LoopSide(i) PROVE Safe'
  BY <1>1, TaskTame, LoopSideTame, TameIsSafe
<1>2. ASSUME UNCHANGED vars PROVE Safe'
  <2>1. Tame
    BY <1>2 DEF Tame, vars, control, work, runSets
  <2> QED BY <2>1, TameIsSafe
<1> QED BY <1>1, <1>2, Cases, RunSideSafe, UserSafe

LEMMA AlwaysSafe == Spec => [](Typed /\ Safe)
<1>1. Init => Typed /\ Safe
  BY InitTyped, InitSafe
<1>2. Typed /\ Safe /\ [Next]_vars => (Typed /\ Safe)'
  BY NextTyped, NextSafe
<1> QED BY <1>1, <1>2, PTL DEF Spec

\* Whatever order stops, starts and the ends of old loops come in, a queue that
\* runs has a scheduler loop (the respawn at the end of ensureScheduler).
THEOREM NeverLeaderless == Spec => []NotLeaderless
BY AlwaysSafe, PTL DEF Safe

\* A task of a package that was switched off is never left to go on.
THEOREM DisabledTasksAborted == Spec => []DisabledIsAborted
BY AlwaysSafe, PTL DEF Safe

\* During a reconnect no task is left to go on.
THEOREM ReconnectStopsAll == Spec => []ReconnectAbortsAll
BY AlwaysSafe, PTL DEF Safe

\* Outside a run nothing is booked, in a run only what belongs to it.
THEOREM BooksInOrder == Spec => []BooksOfRun
BY AlwaysSafe, PTL DEF Safe, BooksOfRun

-----------------------------------------------------------------------------
(* The parallel limit.  Only a launch adds a task, and it finds a free slot.  *)

NoNewTask == \A j \in Items : task'[j] # "none" => task[j] # "none"

LEMMA TaskStepsAddNone == ASSUME Typed, NEW i \in Items, TaskSteps(i) PROVE NoNewTask
<1>1. CASE \/ PreflightFinalizes(i) \/ CheckPasses(i) \/ RecoveryFinalizes(i) \/ SetupCompletes(i)
           \/ Cooldown(i) \/ HostBusy(i) \/ DiskFull(i) \/ RecoveryRetries(i)
           \/ UnwindStopped(i) \/ UnwindParked(i) \/ UnwindReconnect(i) \/ UnwindToggled(i)
           \/ RecoveryFails(i)
  <2>1. Settle(i)
    BY <1>1 DEF PreflightFinalizes, CheckPasses, RecoveryFinalizes, SetupCompletes, Cooldown, HostBusy, DiskFull,
       RecoveryRetries, UnwindStopped, UnwindParked, UnwindReconnect, UnwindToggled,
       RecoveryFails, Complete, Requeue, GiveUp
  <2> QED BY <2>1, SettleTame DEF NoNewTask
<1>2. CASE \/ PreflightPasses(i) \/ Unrestricted(i) \/ SetupDone(i) \/ TransferDone(i)
           \/ CheckFails(i) \/ Fails(i) \/ TransferStalls(i) \/ RequestReconnect(i)
  BY <1>2 DEF PreflightPasses, Unrestricted, SetupDone, TransferDone, CheckFails, Fails,
     TransferStalls, RequestReconnect, Recovers, Recovering, Moved, Phases, NoNewTask, Typed, TypeOK
<1> QED BY <1>1, <1>2 DEF TaskSteps

LEMMA LoopSideAddsNone ==
  ASSUME Typed, NEW i \in Items, LoopSide(i), ~Launch(i) PROVE NoNewTask
<1>1. CASE LaunchFinalizes(i)
  BY <1>1, SettleTame DEF LaunchFinalizes, Complete, NoNewTask
<1>2. CASE ~LaunchFinalizes(i)
  <2>1. UNCHANGED task
    BY <1>2 DEF LoopSide, Paced, PreflightHolds, TransferHolds, ChunkWritten, WatchdogAborts,
       RetryDue, StartFinalizes, StartRequeues, PostFinalizes, PostRequeues
  <2> QED BY <2>1 DEF NoNewTask
<1> QED BY <1>1, <1>2

LEMMA RunAndUserAddNone == ASSUME RunSide \/ UserSteps PROVE UNCHANGED task
<1>1. CASE RunSide
  BY <1>1 DEF RunSide, FinishRun, LoopExit, MarkReconnectWait, StartContinues, ReconnectOver,
     PostProcessed, work
<1>2. CASE UserSteps
  BY <1>2 DEF UserSteps, Start, StartPackages, StartItems, StartSelected, Stop,
     PrepareForShutdown, Pause, Resume, Disable, Enable, work
<1> QED BY <1>1, <1>2

LEMMA LiveFinite == IsFiniteSet(Live) /\ Cardinality(Live) \in Nat
BY ItemsAssumption, FS_Subset, FS_CardinalityType DEF Live

\* Fewer tasks, or the same ones, stay within the limit.
LEMMA FewerIsWithin ==
  ASSUME ParallelLimit, NoNewTask PROVE ParallelLimit'
<1>1. Live' \subseteq Live
  BY DEF Live, NoNewTask
<1>2. Cardinality(Live') <= Cardinality(Live) /\ Cardinality(Live') \in Nat
  BY <1>1, LiveFinite, FS_Subset, FS_CardinalityType
<1> QED BY <1>2, LiveFinite, BoundsAssumption DEF ParallelLimit

LEMMA LaunchIsWithin ==
  ASSUME Typed, NEW i \in Items, Launch(i) PROVE ParallelLimit'
<1>1. Live' = Live \union {i}
  BY DEF Launch, Live, Typed, TypeOK
<1>2. Cardinality(Live) < MaxParallel
  BY DEF Launch, FreeSlot
<1>3. Cardinality(Live \union {i}) <= Cardinality(Live) + 1
  <2>1. Cardinality(Live \union {i}) = IF i \in Live THEN Cardinality(Live) ELSE Cardinality(Live) + 1
    BY LiveFinite, FS_AddElement
  <2> QED BY <2>1, LiveFinite
<1>4. Cardinality(Live \union {i}) \in Nat
  BY LiveFinite, FS_AddElement, FS_CardinalityType
<1> QED BY <1>1, <1>2, <1>3, <1>4, LiveFinite, BoundsAssumption DEF ParallelLimit

LEMMA NextWithinLimit == Typed /\ ParallelLimit /\ [Next]_vars => ParallelLimit'
<1> SUFFICES ASSUME Typed, ParallelLimit, [Next]_vars PROVE ParallelLimit'
  OBVIOUS
<1>1. ASSUME NEW i \in Items, TaskSteps(i) PROVE ParallelLimit'
  BY <1>1, TaskStepsAddNone, FewerIsWithin
<1>2. ASSUME NEW i \in Items, LoopSide(i) PROVE ParallelLimit'
  BY <1>2, LoopSideAddsNone, FewerIsWithin, LaunchIsWithin
<1>3. ASSUME UNCHANGED task PROVE ParallelLimit'
  BY <1>3, FewerIsWithin DEF NoNewTask
<1> QED BY <1>1, <1>2, <1>3, Cases, RunAndUserAddNone DEF vars, work

\* However many tasks of earlier runs still unwind, the tasks alive never exceed
\* settings.maxParallel.
THEOREM WithinParallelLimit == Spec => []ParallelLimit
<1>1. Init => ParallelLimit
  <2>1. ASSUME Init PROVE Live = {}
    BY <2>1 DEF Init, Live
  <2> QED BY <2>1, FS_EmptySet, BoundsAssumption DEF ParallelLimit
<1> QED BY <1>1, InitTyped, NextTyped, NextWithinLimit, PTL DEF Spec

-----------------------------------------------------------------------------
(* Aborts.  An item is completed by its task only where the abort signal is   *)
(* looked at, by the inspections of the disk before and after the transfer,   *)
(* or while it has no task.                                                   *)

Completes(i) == status[i] # "completed" /\ status'[i] = "completed"

LEMMA CompletedByTask ==
  ASSUME Typed, NEW i \in Items, NEW j \in Items, TaskSteps(j), Completes(i)
  PROVE  i = j /\ (task[i] \in {"preflight"} \union Recovering \/ ~Aborted(i))
<1>1. CASE PreflightFinalizes(j) \/ CheckPasses(j) \/ RecoveryFinalizes(j) \/ SetupCompletes(j)
  BY <1>1 DEF PreflightFinalizes, CheckPasses, RecoveryFinalizes, SetupCompletes, Complete, Completes,
     Recovering, Typed, TypeOK
<1>2. CASE Cooldown(j) \/ HostBusy(j) \/ DiskFull(j) \/ RecoveryRetries(j)
  <2>1. status' = [status EXCEPT ![j] = "queued"]
    BY <1>2 DEF Cooldown, HostBusy, DiskFull, RecoveryRetries, Requeue
  <2> QED BY <2>1 DEF Completes, Typed, TypeOK
<1>3. CASE UnwindStopped(j) \/ UnwindParked(j) \/ UnwindReconnect(j) \/ UnwindToggled(j)
           \/ RecoveryFails(j)
  <2>1. \E s \in {status[j], "stopped", "queued", "failed"} : status' = [status EXCEPT ![j] = s]
    BY <1>3 DEF UnwindStopped, UnwindParked, UnwindReconnect, UnwindToggled, RecoveryFails, GiveUp
  <2> QED BY <2>1 DEF Completes, Typed, TypeOK
<1>4. CASE \/ PreflightPasses(j) \/ Unrestricted(j) \/ SetupDone(j) \/ TransferDone(j)
           \/ CheckFails(j) \/ Fails(j) \/ TransferStalls(j) \/ RequestReconnect(j)
  <2>1. \E s \in {status[j], "downloading", "integrity_check", "queued"} :
          status' = [status EXCEPT ![j] = s]
    BY <1>4 DEF PreflightPasses, Unrestricted, SetupDone, TransferDone, CheckFails, Fails,
       TransferStalls, RequestReconnect, Typed, TypeOK
  <2> QED BY <2>1 DEF Completes, Typed, TypeOK
<1> QED BY <1>1, <1>2, <1>3, <1>4 DEF TaskSteps

LEMMA CompletedByLoop ==
  ASSUME Typed, NEW i \in Items, NEW j \in Items, LoopSide(j), Completes(i)
  PROVE  task[i] = "none"
<1>1. CASE LaunchFinalizes(j) \/ StartFinalizes(j) \/ PostFinalizes(j)
  BY <1>1 DEF LaunchFinalizes, StartFinalizes, PostFinalizes, Eligible, Complete, Live,
     Completes, Typed, TypeOK
<1>2. CASE ~(LaunchFinalizes(j) \/ StartFinalizes(j) \/ PostFinalizes(j))
  <2>1. \E s \in {status[j], "validating", "queued", "paused", "downloading"} :
          status' = [status EXCEPT ![j] = s]
    BY <1>2 DEF LoopSide, Launch, Paced, PreflightHolds, TransferHolds, ChunkWritten,
       WatchdogAborts, RetryDue, StartRequeues, PostRequeues, Typed, TypeOK
  <2> QED BY <2>1 DEF Completes, Typed, TypeOK
<1> QED BY <1>1, <1>2

LEMMA CompletedByNobodyElse ==
  ASSUME Typed, NEW i \in Items, RunSide \/ UserSteps PROVE ~Completes(i)
<1>1. CASE RunSide
  BY <1>1 DEF RunSide, FinishRun, LoopExit, MarkReconnectWait, StartContinues, ReconnectOver,
     PostProcessed, Resumed, work, Completes, Typed, TypeOK
<1>2. CASE UserSteps
  <2>1. CASE StartPackages \/ StartItems
    BY <2>1 DEF StartPackages, StartItems, StartSelected, Resumed, Completes, Typed, TypeOK
  <2>2. CASE \/ (\E r \in {"stop", "shutdown"} : Stop(r)) \/ PrepareForShutdown
             \/ \E p \in Packages : Disable(p)
    BY <2>2 DEF Stop, PrepareForShutdown, Disable, Completes, Typed, TypeOK
  <2>3. CASE Start \/ Pause \/ Resume \/ \E p \in Packages : Enable(p)
    BY <2>3 DEF Start, Pause, Resume, Enable, work, Completes
  <2> QED BY <1>2, <2>1, <2>2, <2>3 DEF UserSteps
<1> QED BY <1>1, <1>2

\* A transfer that was aborted never completes its item, not even if the file
\* passes the check that was under way.
THEOREM AbortsAreHonoured == Spec => AbortIsHonoured
<1>1. ASSUME Typed, [Next]_vars, NEW i \in Items,
             task[i] \in {"setup", "transfer", "check"}, Aborted(i), status'[i] = "completed"
      PROVE  status[i] = "completed"
  <2> SUFFICES ASSUME Completes(i) PROVE FALSE
    BY <1>1 DEF Completes
  <2>1. ASSUME UNCHANGED vars PROVE FALSE
    BY <2>1 DEF Completes, vars, work
  <2> QED
    BY <1>1, <2>1, Cases, CompletedByTask, CompletedByLoop, CompletedByNobodyElse
    DEF Recovering
<1>2. Typed /\ [Next]_vars =>
        [\A i \in Items : (task[i] \in {"setup", "transfer", "check"} /\ Aborted(i))
            => (status'[i] = "completed" => status[i] = "completed")]_vars
  BY <1>1
<1> QED BY <1>2, InitTyped, NextTyped, PTL DEF Spec, AbortIsHonoured

-----------------------------------------------------------------------------
(* The books of a run against what its items show, and against what is left   *)
(* of them when the run ends.                                                 *)

\* What is true of each item: a task never works on an item that is finished, an
\* idle item is not shown as being worked on unless a stopped task has left it
\* downloading, an item of the run that has not come to an end may still be
\* launched, and one that has shows what is recorded.
Accounted(i) ==
  /\ task[i] # "none" => status[i] \notin Finished
  /\ task[i] = "none" => status[i] \notin Working \ {"downloading"}
  /\ task[i] # "none" /\ reason[i] = "stop" => status[i] \in Waiting \union {"downloading"}
  /\ i \in runItems /\ outcome[i] = "none" =>
       status[i] \notin Finished /\ enabled[PackageOf[i]] /\ PackageOf[i] \in runPkgs
  /\ pendingStarts = 0 /\ outcome[i] \in {"completed", "failed"} => status[i] = outcome[i]

AllAccounted == \A i \in Items : Accounted(i)

RunKept == UNCHANGED <<enabled, pendingStarts, runItems, runPkgs>>

ItemKept(i) == task'[i] = task[i] /\ status'[i] = status[i] /\ outcome'[i] = outcome[i]

\* Signalling an abort, other than a stop, changes nothing of this.
LEMMA KeptAccounted ==
  ASSUME NEW i \in Items, Accounted(i), RunKept, ItemKept(i),
         reason'[i] = "stop" => reason[i] = "stop"
  PROVE  Accounted(i)'
BY DEF Accounted, RunKept, ItemKept

\* A task ends, with its item put back or left downloading.
LEMMA PutBackAccounted ==
  ASSUME NEW i \in Items, Accounted(i), RunKept, task[i] # "none", outcome'[i] = outcome[i],
         task'[i] = "none", status'[i] \in Waiting \union {"downloading"}
  PROVE  Accounted(i)'
BY DEF Accounted, RunKept, Waiting, Working, Finished

\* An item comes to its end, which is recorded if it belongs to the run.
LEMMA EndAccounted ==
  ASSUME Typed, Safe, NEW i \in Items, NEW s \in {"completed", "failed"}, Accounted(i), RunKept,
         outcome' = Recorded(i, s), task'[i] = "none", status'[i] = s
  PROVE  Accounted(i)'
<1>1. i \in runItems => outcome'[i] = s
  BY DEF Recorded, Typed, TypeOK
<1>2. i \notin runItems => outcome'[i] = "none"
  BY DEF Recorded, Safe, OutcomeOfRunItem
<1> QED BY <1>1, <1>2 DEF Accounted, RunKept, Working

\* The other items are left alone by what a task does about its own.
LEMMA OthersKept ==
  ASSUME Typed, NEW i \in Items, NEW t, NEW s, NEW r, NEW j \in Items \ {i},
         task' = [task EXCEPT ![i] = t] \/ UNCHANGED task,
         status' = [status EXCEPT ![i] = s] \/ UNCHANGED status,
         outcome' = Recorded(i, r) \/ UNCHANGED outcome
  PROVE  ItemKept(j)
BY DEF Typed, TypeOK, ItemKept, Recorded

LEMMA SettleReasons ==
  ASSUME Typed, NEW i \in Items, Settle(i), NEW j \in Items
  PROVE  reason'[j] = "stop" => reason[j] = "stop"
BY DEF Typed, TypeOK, Settle

LEMMA CompleteAccounted ==
  ASSUME Typed, Safe, AllAccounted, NEW i \in Items, Complete(i) PROVE AllAccounted'
<1>1. RunKept
  BY DEF Complete, RunKept, control
<1>2. Accounted(i)'
  <2>1. task'[i] = "none" /\ status'[i] = "completed"
    BY DEF Complete, Settle, Typed, TypeOK
  <2> QED BY <1>1, <2>1, EndAccounted DEF Complete, AllAccounted
<1>3. ASSUME NEW j \in Items \ {i} PROVE Accounted(j)'
  <2>1. ItemKept(j)
    BY OthersKept DEF Complete, Settle
  <2> QED BY <1>1, <2>1, KeptAccounted, SettleReasons DEF AllAccounted, Complete
<1> QED BY <1>2, <1>3 DEF AllAccounted

LEMMA RequeueAccounted ==
  ASSUME Typed, AllAccounted, NEW i \in Items, task[i] # "none", NEW n, Requeue(i, n)
  PROVE  AllAccounted'
<1>1. RunKept
  BY DEF Requeue, RunKept, control, runSets
<1>2. Accounted(i)'
  <2>1. task'[i] = "none" /\ status'[i] = "queued" /\ outcome'[i] = outcome[i]
    BY DEF Requeue, Settle, runSets, Typed, TypeOK
  <2> QED BY <1>1, <2>1, PutBackAccounted DEF AllAccounted, Waiting
<1>3. ASSUME NEW j \in Items \ {i} PROVE Accounted(j)'
  <2>1. ItemKept(j)
    BY OthersKept DEF Requeue, Settle, runSets
  <2> QED BY <1>1, <2>1, KeptAccounted, SettleReasons DEF AllAccounted, Requeue
<1> QED BY <1>2, <1>3 DEF AllAccounted

LEMMA GiveUpAccounted ==
  ASSUME Typed, Safe, AllAccounted, NEW i \in Items, task[i] # "none",
         NEW s, NEW r, NEW n, GiveUp(i, s, r, n),
         \/ s \in Waiting \union {"downloading"} /\ r = "none"
         \/ s = "failed" /\ r = "failed"
         \/ s = "stopped" /\ r = "cancelled" /\ ~running
  PROVE  AllAccounted'
<1>1. RunKept
  BY DEF GiveUp, RunKept, control
<1>2. task'[i] = "none" /\ status'[i] = s
  BY DEF GiveUp, Settle, Typed, TypeOK
<1>3. Accounted(i)'
  <2>1. CASE s \in Waiting \union {"downloading"} /\ r = "none"
    BY <1>1, <1>2, <2>1, PutBackAccounted DEF GiveUp, AllAccounted
  <2>2. CASE s = "failed" /\ r = "failed"
    BY <1>1, <1>2, <2>2, EndAccounted DEF GiveUp, AllAccounted
  <2>3. CASE s = "stopped" /\ r = "cancelled" /\ ~running
    <3>1. i \notin runItems /\ outcome'[i] = "none"
      BY <2>3 DEF GiveUp, Recorded, Safe, BooksNeedRun, OutcomeOfRunItem
    <3> QED BY <1>1, <1>2, <2>3, <3>1 DEF Accounted, RunKept, Working
  <2> QED BY <2>1, <2>2, <2>3
<1>4. ASSUME NEW j \in Items \ {i} PROVE Accounted(j)'
  <2>1. ItemKept(j)
    BY OthersKept DEF GiveUp, Settle
  <2> QED BY <1>1, <2>1, KeptAccounted, SettleReasons DEF AllAccounted, GiveUp
<1> QED BY <1>3, <1>4 DEF AllAccounted

\* A task that goes on.
LEMMA GoesOnAccounted ==
  ASSUME Typed, AllAccounted, NEW i \in Items, RunKept, UNCHANGED outcome, task[i] # "none",
         NEW t \in Phases, NEW s \in Waiting \union Working,
         task' = [task EXCEPT ![i] = t], status' = [status EXCEPT ![i] = s],
         \A j \in Items : reason'[j] = "stop" => reason[j] = "stop",
         reason'[i] = "stop" => s \in {status[i], "downloading"}
  PROVE  AllAccounted'
<1>1. Accounted(i)'
  <2>1. task'[i] # "none" /\ status'[i] = s /\ s \notin Finished
    BY DEF Typed, TypeOK, Phases, Waiting, Working, Finished
  <2>2. status[i] \notin Finished
    BY DEF AllAccounted, Accounted
  <2>3. outcome[i] \in {"completed", "failed"} => pendingStarts # 0
    BY <2>2 DEF AllAccounted, Accounted, Finished
  <2> QED BY <2>1, <2>2, <2>3 DEF AllAccounted, Accounted, RunKept
<1>2. ASSUME NEW j \in Items \ {i} PROVE Accounted(j)'
  <2>1. ItemKept(j)
    BY OthersKept
  <2> QED BY <2>1, KeptAccounted DEF AllAccounted
<1> QED BY <1>1, <1>2 DEF AllAccounted

LEMMA LiveUnfinished ==
  ASSUME Typed, AllAccounted, NEW i \in Items, task[i] # "none"
  PROVE  status[i] \in Waiting \union Working /\ status = [status EXCEPT ![i] = status[i]]
BY DEF Typed, TypeOK, Statuses, AllAccounted, Accounted

LEMMA TaskAccounted ==
  ASSUME Typed, Safe, AllAccounted, NEW i \in Items, TaskSteps(i) PROVE AllAccounted'
<1>1. CASE PreflightFinalizes(i) \/ CheckPasses(i) \/ RecoveryFinalizes(i) \/ SetupCompletes(i)
  BY <1>1, CompleteAccounted DEF PreflightFinalizes, CheckPasses, RecoveryFinalizes, SetupCompletes
<1>2. CASE Cooldown(i) \/ HostBusy(i) \/ DiskFull(i) \/ RecoveryRetries(i)
  BY <1>2, RequeueAccounted DEF Cooldown, HostBusy, DiskFull, RecoveryRetries, Recovering
<1>3. CASE UnwindStopped(i)
  <2>1. task[i] # "none" /\ reason[i] = "stop"
    BY <1>3 DEF UnwindStopped, Unwinding, Phases
  <2>2. status[i] \in Waiting \union {"downloading"}
    BY <2>1 DEF AllAccounted, Accounted
  <2> QED BY <1>3, <2>1, <2>2, GiveUpAccounted DEF UnwindStopped
<1>4. CASE UnwindParked(i) \/ UnwindReconnect(i) \/ UnwindToggled(i)
  <2>1. task[i] # "none" /\ \E n : GiveUp(i, "queued", "none", n)
    BY <1>4 DEF UnwindParked, UnwindReconnect, UnwindToggled, Unwinding, Phases
  <2> QED BY <2>1, GiveUpAccounted DEF Waiting
<1>5. CASE RecoveryFails(i)
  BY <1>5, GiveUpAccounted DEF RecoveryFails, Recovering
<1>6. CASE PreflightPasses(i) \/ Unrestricted(i) \/ CheckFails(i) \/ Fails(i) \/ TransferStalls(i)
  <2>1. /\ RunKept /\ UNCHANGED <<outcome, status>>
        /\ task[i] # "none"
        /\ \E t \in Phases : task' = [task EXCEPT ![i] = t]
    BY <1>6 DEF PreflightPasses, Unrestricted, CheckFails, Fails, TransferStalls, RunKept,
       Recovers, Recovering, Moved, Phases, control, runSets
  <2>2. \A j \in Items : reason'[j] = "stop" => reason[j] = "stop"
    BY <1>6 DEF PreflightPasses, Unrestricted, CheckFails, Fails, TransferStalls, Typed, TypeOK
  <2> QED BY <2>1, <2>2, LiveUnfinished, GoesOnAccounted
<1>7. CASE SetupDone(i) \/ TransferDone(i)
  <2>1. /\ RunKept /\ UNCHANGED <<outcome, reason>>
        /\ task[i] # "none"
        /\ \E t \in Phases : task' = [task EXCEPT ![i] = t]
    BY <1>7 DEF SetupDone, TransferDone, RunKept, Moved, Phases, control, runSets
  <2>2. \E s \in {"downloading", "integrity_check"} :
           /\ status' = [status EXCEPT ![i] = s]
           /\ reason[i] = "stop" => s = "downloading"
    BY <1>7 DEF SetupDone, TransferDone, Aborted
  <2> QED BY <2>1, <2>2, GoesOnAccounted DEF Working
<1>8. CASE RequestReconnect(i)
  <2>1. /\ RunKept /\ UNCHANGED outcome
        /\ status' = [status EXCEPT ![i] = "queued"]
        /\ task' = [task EXCEPT ![i] = "none"]
        /\ task[i] # "none"
    BY <1>8 DEF RequestReconnect, RunKept, control, runSets
  <2>2. \A j \in Items : reason'[j] # "stop"
    BY <1>8 DEF RequestReconnect
  <2>3. Accounted(i)'
    <3>1. task'[i] = "none" /\ status'[i] = "queued"
      BY <2>1 DEF Typed, TypeOK
    <3> QED BY <2>1, <3>1, PutBackAccounted DEF AllAccounted, Waiting
  <2>4. ASSUME NEW j \in Items \ {i} PROVE Accounted(j)'
    <3>1. ItemKept(j)
      BY <2>1, OthersKept
    <3> QED BY <2>1, <2>2, <3>1, KeptAccounted DEF AllAccounted
  <2> QED BY <2>3, <2>4 DEF AllAccounted
<1> QED BY <1>1, <1>2, <1>3, <1>4, <1>5, <1>6, <1>7, <1>8 DEF TaskSteps

\* An idle item that waits for a launch, or is put back into the queue.
LEMMA IdleAccounted ==
  ASSUME Typed, AllAccounted, NEW i \in Items, RunKept, UNCHANGED <<task, outcome, reason>>,
         task[i] = "none", status' = [status EXCEPT ![i] = "queued"],
         status[i] \in Waiting \/ pendingStarts > 0
  PROVE  AllAccounted'
<1>1. Accounted(i)'
  <2>1. status'[i] = "queued"
    BY DEF Typed, TypeOK
  <2> QED BY <2>1 DEF AllAccounted, Accounted, RunKept, Waiting, Working, Finished, Typed, TypeOK
<1>2. ASSUME NEW j \in Items \ {i} PROVE Accounted(j)'
  <2>1. ItemKept(j)
    BY OthersKept
  <2> QED BY <2>1, KeptAccounted DEF AllAccounted
<1> QED BY <1>1, <1>2 DEF AllAccounted

LEMMA LoopSideAccounted ==
  ASSUME Typed, Safe, AllAccounted, NEW i \in Items, LoopSide(i) PROVE AllAccounted'
<1>1. CASE Launch(i)
  <2>1. /\ RunKept /\ UNCHANGED outcome
        /\ status' = [status EXCEPT ![i] = "validating"]
        /\ task' = [task EXCEPT ![i] = "preflight"]
        /\ reason' = [reason EXCEPT ![i] = "none"]
        /\ status[i] \in Waiting
    BY <1>1 DEF Launch, RunKept, control, runSets, Eligible
  <2>2. Accounted(i)'
    <3>1. task'[i] = "preflight" /\ status'[i] = "validating" /\ reason'[i] = "none"
      BY <2>1 DEF Typed, TypeOK
    <3>2. outcome[i] \in {"completed", "failed"} => pendingStarts # 0
      BY <2>1 DEF AllAccounted, Accounted, Waiting
    <3> QED BY <2>1, <3>1, <3>2 DEF AllAccounted, Accounted, RunKept, Finished
  <2>3. ASSUME NEW j \in Items \ {i} PROVE Accounted(j)'
    <3>1. ItemKept(j)
      BY <2>1, OthersKept
    <3>2. reason'[j] = reason[j]
      BY <2>1 DEF Typed, TypeOK
    <3> QED BY <2>1, <3>1, <3>2, KeptAccounted DEF AllAccounted
  <2> QED BY <2>2, <2>3 DEF AllAccounted
<1>2. CASE LaunchFinalizes(i)
  BY <1>2, CompleteAccounted DEF LaunchFinalizes
<1>3. CASE Paced(i) \/ StartRequeues(i)
  BY <1>3, IdleAccounted
  DEF Paced, StartRequeues, Eligible, Live, RunKept, control, runSets
<1>4. CASE PreflightHolds(i) \/ TransferHolds(i) \/ ChunkWritten(i)
  <2>1. /\ RunKept /\ UNCHANGED <<outcome, reason, task>>
        /\ task[i] \in Phases
        /\ task' = [task EXCEPT ![i] = task[i]]
        /\ \E s \in {"paused", "downloading"} :
             /\ status' = [status EXCEPT ![i] = s]
             /\ reason[i] = "stop" => s = "downloading"
    BY <1>4 DEF PreflightHolds, TransferHolds, ChunkWritten, RunKept, control, runSets, Phases,
       Aborted, Typed, TypeOK
  <2>2. task[i] # "none"
    BY <2>1 DEF Phases
  <2> QED BY <2>1, <2>2, GoesOnAccounted DEF Working
<1>5. CASE WatchdogAborts(i) \/ RetryDue(i)
  <2>1. RunKept /\ UNCHANGED <<task, status, outcome>>
    BY <1>5 DEF WatchdogAborts, RetryDue, RunKept, control, runSets
  <2>2. \A j \in Items : reason'[j] = "stop" => reason[j] = "stop"
    BY <1>5 DEF WatchdogAborts, RetryDue, Typed, TypeOK
  <2> QED BY <2>1, <2>2, KeptAccounted DEF AllAccounted, ItemKept
<1>6. CASE StartFinalizes(i) \/ PostFinalizes(i)
  <2>1. /\ RunKept /\ UNCHANGED <<task, reason>>
        /\ status' = [status EXCEPT ![i] = "completed"]
        /\ outcome' = Recorded(i, "completed")
        /\ task[i] = "none"
    BY <1>6 DEF StartFinalizes, PostFinalizes, RunKept, control, Live
  <2>2. Accounted(i)'
    <3>1. status'[i] = "completed"
      BY <2>1 DEF Typed, TypeOK
    <3> QED BY <2>1, <3>1, EndAccounted DEF AllAccounted
  <2>3. ASSUME NEW j \in Items \ {i} PROVE Accounted(j)'
    <3>1. ItemKept(j)
      BY <2>1, OthersKept
    <3> QED BY <2>1, <3>1, KeptAccounted DEF AllAccounted
  <2> QED BY <2>2, <2>3 DEF AllAccounted
<1>7. CASE PostRequeues(i)
  <2>1. /\ RunKept /\ UNCHANGED <<outcome, reason, task>>
        /\ status' = [status EXCEPT ![i] = "queued"]
        /\ status[i] \in {"reconnect_wait", "paused"}
    BY <1>7 DEF PostRequeues, RunKept, control, runSets
  <2>2. Accounted(i)'
    <3>1. status'[i] = "queued"
      BY <2>1 DEF Typed, TypeOK
    <3> QED BY <2>1, <3>1 DEF AllAccounted, Accounted, RunKept, Waiting, Working, Finished
  <2>3. ASSUME NEW j \in Items \ {i} PROVE Accounted(j)'
    <3>1. ItemKept(j)
      BY <2>1, OthersKept
    <3> QED BY <2>1, <3>1, KeptAccounted DEF AllAccounted
  <2> QED BY <2>2, <2>3 DEF AllAccounted
<1> QED BY <1>1, <1>2, <1>3, <1>4, <1>5, <1>6, <1>7 DEF LoopSide

\* What the run as a whole and the user do to an item: its task is left alone, and
\* it is shown as before or waits again.
LEMMA ShownAccounted ==
  ASSUME NEW i \in Items, Accounted(i), task'[i] = task[i],
         reason'[i] = "stop" => reason[i] = "stop" \/ status'[i] \in Waiting,
         \/ status'[i] = status[i]
         \/ status'[i] \in Waiting /\ status[i] \notin {"completed", "failed"},
         \/ outcome'[i] = "none"
         \/ outcome'[i] = outcome[i] /\ pendingStarts' = pendingStarts,
         i \in runItems' /\ outcome'[i] = "none" =>
           status'[i] \notin Finished /\ enabled'[PackageOf[i]] /\ PackageOf[i] \in runPkgs'
  PROVE  Accounted(i)'
BY DEF Accounted, Waiting, Working, Finished

\* Books that have just been opened.
LEMMA NewBooksAccounted ==
  ASSUME AllAccounted, UNCHANGED <<task, reason>>, outcome' = NoOutcomes,
         runItems' \subseteq Items,
         \A i \in Items : \/ status'[i] = status[i]
                          \/ status'[i] \in Waiting /\ status[i] \notin {"completed", "failed"},
         \A i \in runItems' : /\ status'[i] \in Waiting
                              /\ enabled'[PackageOf[i]] /\ PackageOf[i] \in runPkgs'
  PROVE  AllAccounted'
BY ShownAccounted DEF AllAccounted, NoOutcomes, Waiting, Finished

LEMMA ResumedShown ==
  ASSUME Typed, NEW scope, status' = Resumed(scope)
  PROVE  \A i \in Items : \/ status'[i] = status[i]
                          \/ status'[i] \in Waiting /\ status[i] \notin {"completed", "failed"}
BY DEF Resumed, Waiting

LEMMA RunSideAccounted == ASSUME Typed, AllAccounted, RunSide PROVE AllAccounted'
<1>1. CASE FinishRun
  BY <1>1, NewBooksAccounted DEF FinishRun
<1>2. CASE LoopExit \/ ReconnectOver \/ \E p \in Packages : PostProcessed(p)
  <2>1. RunKept /\ UNCHANGED <<task, status, reason, outcome>>
    BY <1>2 DEF LoopExit, ReconnectOver, PostProcessed, RunKept, control, work, runSets
  <2> QED BY <2>1, KeptAccounted DEF AllAccounted, ItemKept
<1>3. CASE MarkReconnectWait
  <2>1. UNCHANGED <<task, reason, outcome, pendingStarts, runItems, runPkgs, enabled>>
    BY <1>3 DEF MarkReconnectWait, control, runSets
  <2>2. \A i \in Items : status'[i] = status[i] \/ (status'[i] = "reconnect_wait" /\ status[i] = "queued")
    BY <1>3 DEF MarkReconnectWait
  <2>3. ASSUME NEW i \in Items PROVE Accounted(i)'
    <3>1. Accounted(i)
      BY DEF AllAccounted
    <3>2. status[i] \notin Finished => status'[i] \notin Finished
      BY <2>2 DEF Finished
    <3> QED BY <2>1, <2>2, <3>1, <3>2, ShownAccounted DEF Accounted, Waiting
  <2> QED BY <2>3 DEF AllAccounted
<1>4. CASE StartContinues
  <2> DEFINE chosen == {i \in EnabledItems : status'[i] \in Waiting}
  <2>1. UNCHANGED <<task, reason, enabled>> /\ outcome' = NoOutcomes
    BY <1>4 DEF StartContinues, BeginRun
  <2>2. runItems' = {} \/ (runItems' = chosen /\ runPkgs' = {PackageOf[i] : i \in chosen})
    BY <1>4 DEF StartContinues, BeginRun
  <2>3. chosen \subseteq Items /\ \A i \in chosen : status'[i] \in Waiting /\ enabled'[PackageOf[i]]
    BY <2>1 DEF EnabledItems
  <2>4. \A i \in Items : \/ status'[i] = status[i]
                         \/ status'[i] \in Waiting /\ status[i] \notin {"completed", "failed"}
    BY <1>4, ResumedShown DEF StartContinues
  <2> QED BY <2>1, <2>2, <2>3, <2>4, NewBooksAccounted
<1> QED BY <1>1, <1>2, <1>3, <1>4 DEF RunSide

LEMMA StartSelectedAccounted ==
  ASSUME Typed, AllAccounted, NEW wanted \in SUBSET Items, StartSelected(wanted)
  PROVE  AllAccounted'
<1> DEFINE chosen == {i \in wanted : status'[i] \in Waiting}
<1>1. UNCHANGED <<task, reason, pendingStarts>>
  BY DEF StartSelected
<1>2. /\ \A i \in wanted : enabled'[PackageOf[i]]
      /\ \A i \in Items : enabled[PackageOf[i]] => enabled'[PackageOf[i]]
  BY PackageOfAssumption DEF StartSelected
<1>3. \A i \in Items : \/ status'[i] = status[i]
                       \/ status'[i] \in Waiting /\ status[i] \notin {"completed", "failed"}
  BY ResumedShown DEF StartSelected
<1>4. CASE BeginRun(chosen)
  <2>1. runItems' = chosen /\ runPkgs' = {PackageOf[i] : i \in chosen} /\ outcome' = NoOutcomes
    BY <1>4 DEF BeginRun
  <2> QED BY <1>1, <1>2, <1>3, <2>1, NewBooksAccounted
<1>5. CASE ~BeginRun(chosen)
  <2>1. UNCHANGED outcome
    BY <1>5 DEF StartSelected, runSets
  <2>2. \/ UNCHANGED <<runItems, runPkgs>>
        \/ /\ runItems' = runItems \union chosen
           /\ runPkgs' = runPkgs \union {PackageOf[i] : i \in chosen}
    BY <1>5 DEF StartSelected, runSets
  <2>3. ASSUME NEW i \in Items PROVE Accounted(i)'
    <3>1. Accounted(i)
      BY DEF AllAccounted
    <3>2. i \in runItems' => i \in runItems \/ (status'[i] \in Waiting /\ i \in chosen)
      BY <2>2
    <3>3. i \in runItems' /\ outcome'[i] = "none" =>
            status'[i] \notin Finished /\ enabled'[PackageOf[i]] /\ PackageOf[i] \in runPkgs'
      <4>1. CASE i \in runItems' /\ i \in chosen
        BY <1>2, <2>1, <2>2, <3>1, <4>1 DEF Accounted, Waiting, Finished
      <4>2. CASE i \in runItems' /\ i \in runItems
        BY <1>2, <1>3, <2>1, <2>2, <3>1, <4>2 DEF Accounted, Waiting, Finished
      <4> QED BY <3>2, <4>1, <4>2
    <3> QED BY <1>1, <1>3, <2>1, <3>1, <3>3, ShownAccounted
  <2> QED BY <2>3 DEF AllAccounted
<1> QED BY <1>4, <1>5

LEMMA UserAccounted == ASSUME Typed, Safe, AllAccounted, UserSteps PROVE AllAccounted'
<1>1. CASE Start
  <2>1. UNCHANGED <<task, status, reason, enabled, runItems, runPkgs, outcome>> /\ pendingStarts' # 0
    BY <1>1 DEF Start, work, runSets, Typed, TypeOK
  <2> QED BY <2>1 DEF AllAccounted, Accounted
<1>2. CASE StartPackages
  BY <1>2, StartSelectedAccounted DEF StartPackages
<1>3. CASE StartItems
  BY <1>3, StartSelectedAccounted DEF StartItems
<1>4. CASE (\E r \in {"stop", "shutdown"} : Stop(r)) \/ PrepareForShutdown
  <2>1. task' = task /\ runItems' = {} /\ outcome' = NoOutcomes
    BY <1>4 DEF Stop, PrepareForShutdown
  <2>2. ASSUME NEW i \in Items PROVE Accounted(i)'
    <3>1. Accounted(i)
      BY DEF AllAccounted
    <3>2. \/ status'[i] = status[i]
          \/ status'[i] \in Waiting /\ status[i] \notin {"completed", "failed"}
      BY <1>4 DEF Stop, PrepareForShutdown, Waiting, Finished
    <3>3. task[i] # "none" => status'[i] \in Waiting
      BY <1>4, <3>1 DEF Accounted, Stop, PrepareForShutdown, Live, Waiting
    <3>4. reason'[i] = "stop" => reason[i] = "stop" \/ status'[i] \in Waiting
      BY <1>4, <3>3 DEF Stop, PrepareForShutdown, AbortLive, Live
    <3>5. outcome'[i] = "none"
      BY <2>1 DEF NoOutcomes
    <3> QED BY <2>1, <3>1, <3>2, <3>4, <3>5, ShownAccounted
  <2> QED BY <2>2 DEF AllAccounted
<1>5. CASE Pause \/ Resume
  <2>1. RunKept /\ UNCHANGED <<task, status, outcome>>
    BY <1>5 DEF Pause, Resume, RunKept, work, runSets
  <2>2. \A i \in Items : reason'[i] = "stop" => reason[i] = "stop"
    BY <1>5 DEF Pause, Resume, work
  <2> QED BY <2>1, <2>2, KeptAccounted DEF AllAccounted, ItemKept
<1>6. ASSUME NEW p \in Packages, Disable(p) PROVE AllAccounted'
  <2>1. UNCHANGED <<task, outcome, pendingStarts>> /\ runItems' \subseteq runItems
    BY <1>6 DEF Disable
  <2>2. ASSUME NEW i \in Items PROVE Accounted(i)'
    <3>1. Accounted(i)
      BY DEF AllAccounted
    <3>2. status'[i] = status[i] \/ (status'[i] = "queued" /\ status[i] \in Waiting)
      BY <1>6 DEF Disable
    <3>3. reason'[i] = "stop" => reason[i] = "stop"
      BY <1>6 DEF Disable
    <3>4. i \in runItems' /\ outcome'[i] = "none" =>
            status'[i] \notin Finished /\ enabled'[PackageOf[i]] /\ PackageOf[i] \in runPkgs'
      <4> SUFFICES ASSUME i \in runItems', outcome'[i] = "none"
                   PROVE  status'[i] \notin Finished /\ enabled'[PackageOf[i]] /\ PackageOf[i] \in runPkgs'
        OBVIOUS
      <4>1. i \in runItems /\ outcome[i] = "none"
        BY <2>1
      <4>2. running
        BY <4>1 DEF Safe, BooksNeedRun
      <4>3. status[i] \notin Finished /\ enabled[PackageOf[i]] /\ PackageOf[i] \in runPkgs
        BY <3>1, <4>1 DEF Accounted
      <4>4. PackageOf[i] # p
        BY <1>6, <4>1, <4>2, <4>3 DEF Disable, ItemsOf
      <4>5. enabled'[PackageOf[i]] /\ PackageOf[i] \in runPkgs'
        BY <1>6, <4>3, <4>4, PackageOfAssumption DEF Disable, Typed, TypeOK
      <4> QED BY <3>2, <4>3, <4>5 DEF Finished
    <3> QED BY <2>1, <3>1, <3>2, <3>3, <3>4, ShownAccounted DEF Waiting
  <2> QED BY <2>2 DEF AllAccounted
<1>7. ASSUME NEW p \in Packages, Enable(p) PROVE AllAccounted'
  <2> DEFINE back == IF running THEN {i \in ItemsOf(p) : status[i] \notin Finished} ELSE {}
  <2>1. /\ UNCHANGED <<task, status, reason, pendingStarts>>
        /\ runItems' = runItems \union back
        /\ runPkgs' = IF back # {} THEN runPkgs \union {p} ELSE runPkgs
        /\ \A i \in Items : outcome'[i] = IF i \in back THEN "none" ELSE outcome[i]
    BY <1>7 DEF Enable, work
  <2>2. \A i \in Items : enabled'[PackageOf[i]] <=> enabled[PackageOf[i]] \/ PackageOf[i] = p
    BY <1>7, PackageOfAssumption DEF Enable, Typed, TypeOK
  <2>3. ASSUME NEW i \in Items PROVE Accounted(i)'
    <3>1. Accounted(i)
      BY DEF AllAccounted
    <3>2. i \in back => status'[i] \notin Finished /\ enabled'[PackageOf[i]] /\ PackageOf[i] \in runPkgs'
      BY <2>1, <2>2 DEF ItemsOf
    <3>3. i \in runItems' /\ outcome'[i] = "none" =>
            status'[i] \notin Finished /\ enabled'[PackageOf[i]] /\ PackageOf[i] \in runPkgs'
      BY <2>1, <2>2, <3>1, <3>2 DEF Accounted
    <3> HIDE DEF back
    <3> QED BY <2>1, <3>1, <3>3, ShownAccounted
  <2> QED BY <2>3 DEF AllAccounted
<1> QED BY <1>1, <1>2, <1>3, <1>4, <1>5, <1>6, <1>7 DEF UserSteps

LEMMA AlwaysAccounted == Spec => [](Typed /\ Safe /\ AllAccounted)
<1>1. Init => AllAccounted
  BY DEF Init, AllAccounted, Accounted, NoOutcomes, Working, Finished
<1>2. ASSUME Typed, Safe, AllAccounted, [Next]_vars PROVE AllAccounted'
  <2>1. ASSUME UNCHANGED vars PROVE AllAccounted'
    <3>1. RunKept /\ UNCHANGED <<task, status, outcome, reason>>
      BY <2>1 DEF RunKept, vars, control, work, runSets
    <3> QED BY <1>2, <3>1, KeptAccounted DEF AllAccounted, ItemKept
  <2> QED
    BY <1>2, <2>1, Cases, TaskAccounted, LoopSideAccounted, RunSideAccounted, UserAccounted
<1> QED BY <1>1, <1>2, InitTyped, NextTyped, InitSafe, NextSafe, PTL DEF Spec

\* What recordRunOutcome has put down about an item is what the item shows, whatever
\* stops, switches and overlapping tasks have come in between.
THEOREM BooksAreTrue == Spec => []OutcomeIsStatus
<1>1. AllAccounted /\ Typed => OutcomeIsStatus
  BY DEF AllAccounted, Accounted, OutcomeIsStatus, Typed, TypeOK
<1> QED BY <1>1, AlwaysAccounted, PTL

\* finishRun closes the books only when every item of the run has come to an end, but
\* for those a stopped task of an earlier run has left downloading.
THEOREM FinishedRunsAreAccountedFor == Spec => FinishAccountsForAll
<1>1. ASSUME Typed, Safe, AllAccounted, FinishRun, NEW i \in runItems, outcome[i] = "none"
      PROVE  status[i] = "downloading"
  <2>1. i \in Items /\ Accounted(i)
    BY <1>1 DEF AllAccounted, Typed, TypeOK
  <2>2. status[i] \notin Finished /\ InRun(PackageOf[i])
    BY <1>1, <2>1 DEF Accounted, InRun
  <2>3. task[i] = "none" /\ status[i] \notin Waiting
    BY <1>1, <2>1, <2>2 DEF FinishRun, Live, QueuePresence
  <2>4. status[i] \in Statuses
    BY <1>1, <2>1 DEF Typed, TypeOK
  <2> QED BY <2>1, <2>2, <2>3, <2>4 DEF Accounted, Statuses
<1>2. Typed /\ Safe /\ AllAccounted =>
        [FinishRun => \A i \in runItems : outcome[i] # "none" \/ status[i] = "downloading"]_vars
  BY <1>1
<1> QED BY <1>2, AlwaysAccounted, PTL DEF FinishAccountsForAll

\* Of all the ways in which a task ends, only the end of a stopped task in a newer run
\* leaves its item downloading.
THEOREM OnlyOvertakenTasksLeaveDownloading == Spec => LeftDownloading
<1>1. ASSUME Typed, [Next]_vars, NEW i \in Items,
             task[i] # "none", task'[i] = "none", status'[i] = "downloading"
      PROVE  reason[i] = "stop" /\ running
  <2>1. ASSUME NEW j \in Items, TaskSteps(j) PROVE reason[i] = "stop" /\ running
    <3>1. CASE PreflightFinalizes(j) \/ CheckPasses(j) \/ RecoveryFinalizes(j) \/ SetupCompletes(j)
      BY <1>1, <3>1 DEF PreflightFinalizes, CheckPasses, RecoveryFinalizes, SetupCompletes, Complete, Settle,
         Typed, TypeOK
    <3>2. CASE Cooldown(j) \/ HostBusy(j) \/ DiskFull(j) \/ RecoveryRetries(j)
      <4>1. task' = [task EXCEPT ![j] = "none"] /\ status' = [status EXCEPT ![j] = "queued"]
        BY <3>2 DEF Cooldown, HostBusy, DiskFull, RecoveryRetries, Requeue, Settle
      <4> QED BY <1>1, <4>1 DEF Typed, TypeOK
    <3>3. CASE UnwindStopped(j)
      BY <1>1, <3>3 DEF UnwindStopped, Unwinding, GiveUp, Settle, Typed, TypeOK
    <3>4. CASE UnwindParked(j) \/ UnwindReconnect(j) \/ UnwindToggled(j) \/ RecoveryFails(j)
      <4>1. /\ task' = [task EXCEPT ![j] = "none"]
            /\ \E s \in {"queued", "failed"} : status' = [status EXCEPT ![j] = s]
        BY <3>4 DEF UnwindParked, UnwindReconnect, UnwindToggled, RecoveryFails, GiveUp, Settle
      <4> QED BY <1>1, <4>1 DEF Typed, TypeOK
    <3>5. CASE RequestReconnect(j)
      BY <1>1, <3>5 DEF RequestReconnect, Typed, TypeOK
    <3>6. CASE \/ PreflightPasses(j) \/ Unrestricted(j) \/ SetupDone(j) \/ TransferDone(j)
               \/ CheckFails(j) \/ Fails(j) \/ TransferStalls(j)
      <4>1. \E t \in Phases : task' = [task EXCEPT ![j] = t]
        BY <3>6 DEF PreflightPasses, Unrestricted, SetupDone, TransferDone, CheckFails, Fails,
           TransferStalls, Recovers, Recovering, Moved, Phases
      <4> QED BY <1>1, <4>1 DEF Typed, TypeOK, Phases
    <3> QED BY <2>1, <3>1, <3>2, <3>3, <3>4, <3>5, <3>6 DEF TaskSteps
  <2>2. ASSUME NEW j \in Items, LoopSide(j) PROVE FALSE
    <3>1. CASE LaunchFinalizes(j)
      BY <1>1, <3>1 DEF LaunchFinalizes, Eligible, Live, Complete, Settle, Typed, TypeOK
    <3>2. CASE Launch(j)
      BY <1>1, <3>2 DEF Launch, Typed, TypeOK
    <3>3. CASE ~LaunchFinalizes(j) /\ ~Launch(j)
      BY <1>1, <2>2, <3>3 DEF LoopSide, Paced, PreflightHolds, TransferHolds, ChunkWritten,
         WatchdogAborts, RetryDue, StartFinalizes, StartRequeues, PostFinalizes, PostRequeues
    <3> QED BY <3>1, <3>2, <3>3
  <2> QED BY <1>1, <2>1, <2>2, Cases, RunAndUserAddNone DEF vars, work
<1>2. Typed /\ [Next]_vars =>
        [\A i \in Items : (task[i] # "none" /\ task'[i] = "none" /\ status'[i] = "downloading")
            => reason[i] = "stop" /\ running]_vars
  BY <1>1
<1> QED BY <1>2, InitTyped, NextTyped, PTL DEF Spec, LeftDownloading
=============================================================================

------------------------- MODULE DownloadScheduler -------------------------
(***************************************************************************)
(* The download queue of src/main/download-manager.ts: the user's start,   *)
(* stop, pause and package switches, the scheduler loop, and one           *)
(* asynchronous task (processItem) per item that is being worked on.       *)
(*                                                                         *)
(* JavaScript runs one callback at a time, so a step of this module is the *)
(* code between two awaits.  What makes the component hard is what may run *)
(* at an await: stop() and start() while tasks still unwind, an abort      *)
(* reason overwritten by another, a loop that outlives its run.            *)
(*                                                                         *)
(* Abstracted: which package comes first (priority, spreading, pacing      *)
(* decide among the eligible items: any of them may be launched), bytes    *)
(* and files (a transfer succeeds or fails, a file is complete on disk or  *)
(* not), times (a delay is over or not).  A round of post-processing looks *)
(* at one file in one step.  A task's "finally" callback runs in the       *)
(* microtask after its last step and is folded into that step.             *)
(***************************************************************************)
EXTENDS Integers, FiniteSets

CONSTANTS
  Items,          \* the links of the queue
  Packages,       \* the packages they are grouped in
  PackageOf,      \* the package of each item
  MaxParallel,    \* settings.maxParallel
  RetryLimit,     \* failed tries of an item before it fails for good
  MaxCalls,       \* bound: calls of the user
  MaxTrouble      \* bound: reconnects, full disks and cooldowns

ASSUME PackageOfAssumption == PackageOf \in [Items -> Packages]
ASSUME ItemsAssumption == IsFiniteSet(Items)
ASSUME BoundsAssumption ==
  /\ MaxParallel \in Nat \ {0}
  /\ RetryLimit \in Nat
  /\ MaxCalls \in Nat
  /\ MaxTrouble \in Nat

VARIABLES
  running,        \* session.running
  paused,         \* session.paused
  loop,           \* the scheduler loop: none, of this generation, or of an older one
  pendingStarts,  \* calls of start() that wait for recoverRetryableItems
  enabled,        \* package.enabled
  status,         \* item.status
  task,           \* where the item's processItem waits, "none" without one
  reason,         \* active.abortReason; a task is aborted unless it is "none"
  retries,        \* the retry counters of an item
  attempts,       \* item.attempts; those of a finished item are as good as none
  delayed,        \* the items whose retryAfterByItem lies ahead
  runItems,       \* runItemIds
  runPkgs,        \* runPackageIds
  outcome,        \* runOutcomes
  reconnect,      \* reconnectActive()
  post,           \* packagePostProcessTasks
  calls,          \* calls the user has made
  trouble         \* reconnects, full disks and cooldowns met

control == <<running, paused, loop, pendingStarts, enabled>>
runSets == <<runItems, runPkgs, outcome>>
work == <<status, task, reason, retries, attempts, delayed>>
vars == <<control, work, runSets, reconnect, post, calls, trouble>>

-----------------------------------------------------------------------------
Waiting == {"queued", "reconnect_wait"}
Working == {"validating", "paused", "downloading", "integrity_check"}

\* isFinishedStatus; "stopped" is "cancelled" with the text "Gestoppt", the
\* one cancelled item that a start puts back into the queue.
Finished == {"completed", "failed", "stopped"}

Statuses == Waiting \union Working \union Finished
Phases == {"preflight", "unrestrict", "setup", "transfer", "check", "recovery", "recovery_idle"}

\* The catch block waits for the disk; "recovery_idle" is that of an item that was not
\* shown as being worked on when it began to.
Recovering == {"recovery", "recovery_idle"}
Reasons == {"stop", "shutdown", "reconnect", "package_toggle", "stall"}
Outcomes == {"completed", "failed", "cancelled"}

Live == {i \in Items : task[i] # "none"}
ItemsOf(p) == {i \in Items : PackageOf[i] = p}
Aborted(i) == reason[i] # "none"
\* maxItemAttempts
MaxAttempts == RetryLimit + 1

NoOutcomes == [i \in Items |-> "none"]

\* retryStateByItem.clear(): a task keeps the counters it was started with.
RetriesCleared == [i \in Items |-> IF i \in Live THEN retries[i] ELSE 0]

\* ensureScheduler: a loop that still runs, of whatever generation, is left alone.
LoopEnsured == IF loop = "none" THEN "fresh" ELSE loop

\* schedulerGeneration += 1: a loop that runs belongs to an older generation.
GenerationBumped == IF loop = "none" THEN "none" ELSE "stale"

Recorded_ForAnyItem(i, result) == [outcome EXCEPT ![i] = result]

\* recordRunOutcome
Recorded(i, result) ==
  IF i \in runItems THEN [outcome EXCEPT ![i] = result] ELSE outcome

Init ==
  /\ running = FALSE
  /\ paused = FALSE
  /\ loop = "none"
  /\ pendingStarts = 0
  /\ enabled = [p \in Packages |-> TRUE]
  /\ status = [i \in Items |-> "queued"]
  /\ task = [i \in Items |-> "none"]
  /\ reason = [i \in Items |-> "none"]
  /\ retries = [i \in Items |-> 0]
  /\ attempts = [i \in Items |-> 0]
  /\ delayed = {}
  /\ runItems = {}
  /\ runPkgs = {}
  /\ outcome = NoOutcomes
  /\ reconnect = FALSE
  /\ post = {}
  /\ calls = 0
  /\ trouble = 0

-----------------------------------------------------------------------------
(* How a task ends. *)

\* The "finally" of startItem: the item leaves activeTasks.
Settle(i) ==
  /\ task' = [task EXCEPT ![i] = "none"]
  /\ reason' = [reason EXCEPT ![i] = "none"]

\* The item is complete: finalizeItemFromDiskState and the end of the try
\* block of processItem.  Post-processing starts only while the queue runs.
Complete(i) ==
  /\ status' = [status EXCEPT ![i] = "completed"]
  /\ outcome' = Recorded(i, "completed")
  /\ retries' = [retries EXCEPT ![i] = 0]
  /\ attempts' = [attempts EXCEPT ![i] = 0]
  /\ post' = IF running THEN post \union {PackageOf[i]} ELSE post
  /\ Settle(i)
  /\ UNCHANGED <<control, delayed, runItems, runPkgs, reconnect, calls, trouble>>

\* queueRetry, and the task that returns after it.
Requeue(i, used) ==
  /\ status' = [status EXCEPT ![i] = "queued"]
  /\ retries' = [retries EXCEPT ![i] = used]
  /\ attempts' = [attempts EXCEPT ![i] = 0]
  /\ delayed' = delayed \union {i}
  /\ Settle(i)
  /\ UNCHANGED <<control, runSets, reconnect, post, calls>>

\* The item is given back as s: the branches of the catch block.
GiveUp(i, s, result, left) ==
  /\ status' = [status EXCEPT ![i] = s]
  /\ outcome' = IF result = "none" THEN outcome ELSE Recorded(i, result)
  /\ retries' = [retries EXCEPT ![i] = left]
  /\ attempts' = IF s = "failed" THEN [attempts EXCEPT ![i] = 0] ELSE attempts
  /\ Settle(i)
  /\ UNCHANGED <<control, delayed, runItems, runPkgs, reconnect, post, calls, trouble>>

-----------------------------------------------------------------------------
(* The scheduler loop. *)

Ticking == loop = "fresh" /\ running /\ ~paused

InRun(p) == enabled[p] /\ (runPkgs = {} \/ p \in runPkgs)

\* findNextQueuedItem
Eligible(i) ==
  /\ InRun(PackageOf[i])
  /\ status[i] \in Waiting
  /\ i \notin Live
  /\ i \notin delayed

FreeSlot == Cardinality(Live) < MaxParallel

\* startItem: the item gets a task ...
Launch(i) ==
  /\ Ticking /\ ~reconnect /\ FreeSlot /\ Eligible(i)
  /\ status' = [status EXCEPT ![i] = "validating"]
  /\ task' = [task EXCEPT ![i] = "preflight"]
  /\ reason' = [reason EXCEPT ![i] = "none"]
  /\ UNCHANGED <<control, retries, attempts, delayed, runSets, reconnect, post, calls, trouble>>

\* ... or its file turns out to be complete on disk already.
LaunchFinalizes(i) ==
  /\ Ticking /\ ~reconnect /\ FreeSlot /\ Eligible(i)
  /\ Complete(i)

\* delayPacedStartForItem: the provider wants its starts apart.
Paced(i) ==
  /\ Ticking /\ ~reconnect /\ FreeSlot /\ Eligible(i)
  /\ trouble < MaxTrouble
  /\ trouble' = trouble + 1
  /\ status' = [status EXCEPT ![i] = "queued"]
  /\ delayed' = delayed \union {i}
  /\ UNCHANGED <<control, task, reason, retries, attempts, runSets, reconnect, post, calls>>

\* getQueuePresence: something is left to download, now or later.
QueuePresence ==
  \E i \in Items : InRun(PackageOf[i]) /\ status[i] \in Waiting

\* finishRun, and the end of the loop that called it.
FinishRun ==
  /\ Ticking /\ ~reconnect
  /\ Live = {} /\ ~QueuePresence /\ post = {}
  /\ running' = FALSE
  /\ paused' = FALSE
  /\ loop' = "none"
  /\ runItems' = {}
  /\ runPkgs' = {}
  /\ outcome' = NoOutcomes
  /\ retries' = RetriesCleared
  /\ delayed' = {}
  /\ UNCHANGED <<pendingStarts, enabled, status, task, reason, attempts,
                 reconnect, post, calls, trouble>>

\* markQueuedAsReconnectWait
MarkReconnectWait ==
  /\ Ticking /\ reconnect
  /\ status' = [i \in Items |->
       IF /\ status[i] = "queued" /\ enabled[PackageOf[i]]
          /\ runItems = {} \/ i \in runItems
       THEN "reconnect_wait" ELSE status[i]]
  /\ status' # status
  /\ UNCHANGED <<control, task, reason, retries, attempts, delayed, runSets, reconnect,
                 post, calls, trouble>>

Respawned_Never == "none"

\* The loop finds that the run, or its generation, is over.  It makes room
\* for a new loop if a run of a newer generation is on.
Respawned == IF running /\ loop = "stale" THEN "fresh" ELSE "none"

LoopExit ==
  /\ loop = "stale" \/ (loop = "fresh" /\ ~running)
  /\ loop' = Respawned
  /\ UNCHANGED <<running, paused, pendingStarts, enabled, work, runSets,
                 reconnect, post, calls, trouble>>

\* runGlobalStallWatchdog: a task that makes no progress is aborted.
WatchdogAborts(i) ==
  /\ Ticking /\ ~reconnect
  /\ i \in Live /\ ~Aborted(i)
  /\ status[i] \in {"validating", "downloading"}
  /\ reason' = [reason EXCEPT ![i] = "stall"]
  /\ UNCHANGED <<control, status, task, retries, attempts, delayed, runSets, reconnect,
                 post, calls, trouble>>

\* A retry time passes.
RetryDue(i) ==
  /\ i \in delayed
  /\ delayed' = delayed \ {i}
  /\ UNCHANGED <<control, status, task, reason, retries, attempts, runSets, reconnect,
                 post, calls, trouble>>

\* reconnectUntil passes.
ReconnectOver ==
  /\ reconnect
  /\ reconnect' = FALSE
  /\ UNCHANGED <<control, work, runSets, post, calls, trouble>>

\* A round of post-processing looks at the files of its package's idle items: one
\* that is complete on disk is completed ...
PostFinalizes(i) ==
  /\ PackageOf[i] \in post
  /\ i \notin Live /\ status[i] \in Waiting
  /\ status' = [status EXCEPT ![i] = "completed"]
  /\ outcome' = Recorded(i, "completed")
  /\ attempts' = [attempts EXCEPT ![i] = 0]
  /\ UNCHANGED <<control, task, reason, retries, delayed, runItems, runPkgs,
                 reconnect, post, calls, trouble>>

\* ... and the beginning of one is deleted, even if a task holds the item paused.
PostRequeues(i) ==
  /\ PackageOf[i] \in post
  /\ status[i] \in {"reconnect_wait", "paused"}
  /\ status' = [status EXCEPT ![i] = "queued"]
  /\ attempts' = [attempts EXCEPT ![i] = 0]
  /\ UNCHANGED <<control, task, reason, retries, delayed, runSets, reconnect,
                 post, calls, trouble>>

\* runPackagePostProcessing settles.
PostProcessed(p) ==
  /\ p \in post
  /\ post' = post \ {p}
  /\ UNCHANGED <<control, work, runSets, reconnect, calls, trouble>>

-----------------------------------------------------------------------------
(* One task: processItem and downloadToFile, from await to await. *)

Moved(i, phase) == task' = [task EXCEPT ![i] = phase]

\* The inspection of the disk before the link is converted finds the whole
\* file, and nobody has changed the item meanwhile.
PreflightFinalizes(i) ==
  /\ task[i] = "preflight" /\ status[i] = "validating"
  /\ Complete(i)

\* The task holds while the queue is paused.
PreflightHolds(i) ==
  /\ task[i] = "preflight" /\ ~Aborted(i)
  /\ paused /\ running /\ status[i] # "paused"
  /\ status' = [status EXCEPT ![i] = "paused"]
  /\ UNCHANGED <<control, task, reason, retries, attempts, delayed, runSets, reconnect,
                 post, calls, trouble>>

\* The link is sent to a provider.
PreflightPasses(i) ==
  /\ task[i] = "preflight" /\ ~Aborted(i)
  /\ ~(paused /\ running)
  /\ Moved(i, "unrestrict")
  /\ UNCHANGED <<control, status, reason, retries, attempts, delayed, runSets, reconnect,
                 post, calls, trouble>>

\* Every provider is in cooldown.
Cooldown(i) ==
  /\ task[i] = "preflight" /\ ~Aborted(i)
  /\ ~(paused /\ running)
  /\ trouble < MaxTrouble
  /\ trouble' = trouble + 1
  /\ Requeue(i, retries[i])

\* The provider asked first has no room: the item waits, aborted while it asked or not.
HostBusy(i) ==
  /\ task[i] = "unrestrict"
  /\ trouble < MaxTrouble
  /\ trouble' = trouble + 1
  /\ Requeue(i, retries[i])

\* A provider has answered with a direct link.
Unrestricted(i) ==
  /\ task[i] = "unrestrict" /\ ~Aborted(i)
  /\ Moved(i, "setup")
  /\ UNCHANGED <<control, status, reason, retries, attempts, delayed, runSets, reconnect,
                 post, calls, trouble>>

\* The folder, the path and the disk space are there.  Whatever was awaited
\* for them, no abort is looked at before the item is shown as downloading; an
\* attempt is counted when the transfer begins.
SetupDone(i) ==
  /\ task[i] = "setup"
  /\ attempts[i] < MaxAttempts \/ Aborted(i)
  /\ Moved(i, "transfer")
  /\ status' = [status EXCEPT ![i] = "downloading"]
  /\ attempts' = IF attempts[i] < MaxAttempts THEN [attempts EXCEPT ![i] = @ + 1] ELSE attempts
  /\ UNCHANGED <<control, reason, retries, delayed, runSets, reconnect, post,
                 calls, trouble>>

\* The attempts are used up before the first: the loop over them is skipped, and
\* the item is completed without a transfer.
SetupCompletes(i) ==
  /\ task[i] = "setup" /\ ~Aborted(i)
  /\ attempts[i] >= MaxAttempts
  /\ Complete(i)

\* The disk has no room: the item is retried later, aborted or not.
DiskFull(i) ==
  /\ task[i] = "setup"
  /\ trouble < MaxTrouble
  /\ trouble' = trouble + 1
  /\ Requeue(i, retries[i])

\* The transfer holds while the queue is paused ...
TransferHolds(i) ==
  /\ task[i] = "transfer" /\ ~Aborted(i)
  /\ paused /\ running /\ status[i] # "paused"
  /\ status' = [status EXCEPT ![i] = "paused"]
  /\ UNCHANGED <<control, task, reason, retries, attempts, delayed, runSets, reconnect,
                 post, calls, trouble>>

\* ... and a chunk that has been written shows the item as downloading, even
\* if the task was aborted while the chunk was flushed.
ChunkWritten(i) ==
  /\ task[i] = "transfer" /\ status[i] # "downloading"
  /\ status' = [status EXCEPT ![i] = "downloading"]
  /\ UNCHANGED <<control, task, reason, retries, attempts, delayed, runSets, reconnect,
                 post, calls, trouble>>

RequestReconnect_OthersGoOn(i) ==
  /\ task[i] = "transfer"
  /\ trouble < MaxTrouble
  /\ trouble' = trouble + 1
  /\ reconnect' = TRUE
  /\ status' = [status EXCEPT ![i] = "queued"]
  /\ Settle(i)
  /\ UNCHANGED <<control, retries, attempts, delayed, runSets, post, calls>>

\* requestReconnect: the server refuses with 429 or 503.  Every task is
\* aborted, with whatever reason it may have had before overwritten.
RequestReconnect(i) ==
  /\ task[i] = "transfer"
  /\ trouble < MaxTrouble
  /\ trouble' = trouble + 1
  /\ reconnect' = TRUE
  /\ status' = [status EXCEPT ![i] = "queued"]
  /\ task' = [task EXCEPT ![i] = "none"]
  /\ reason' = [j \in Items |-> IF j \in Live \ {i} THEN "reconnect" ELSE "none"]
  /\ UNCHANGED <<control, retries, attempts, delayed, runSets, post, calls>>

\* The catch block awaits the disk before it decides.
Recovers(i) ==
  /\ Moved(i, IF status[i] \in Working THEN "recovery" ELSE "recovery_idle")
  /\ attempts' = [attempts EXCEPT ![i] = 0]

\* No data, or too little: stall_timeout and slow_throughput abort the task
\* themselves, over whatever reason it may have had.
TransferStalls(i) ==
  /\ task[i] = "transfer"
  /\ reason' = [reason EXCEPT ![i] = "stall"]
  /\ Recovers(i)
  /\ UNCHANGED <<control, status, retries, delayed, runSets, reconnect, post,
                 calls, trouble>>

\* The file is there, and its integrity is checked.
TransferDone(i) ==
  /\ task[i] = "transfer" /\ ~Aborted(i)
  /\ Moved(i, "check")
  /\ status' = [status EXCEPT ![i] = "integrity_check"]
  /\ UNCHANGED <<control, reason, retries, attempts, delayed, runSets, reconnect, post,
                 calls, trouble>>

CheckPasses_NoAbortCheck(i) ==
  /\ task[i] = "check"
  /\ Complete(i)

\* validateFileAgainstManifest has accepted the file.
CheckPasses(i) ==
  /\ task[i] = "check" /\ ~Aborted(i)
  /\ Complete(i)

\* It has refused it, and the same task transfers the file again.
CheckFails(i) ==
  /\ task[i] = "check" /\ ~Aborted(i)
  /\ attempts[i] < MaxAttempts
  /\ attempts' = [attempts EXCEPT ![i] = @ + 1]
  /\ Moved(i, "transfer")
  /\ UNCHANGED <<control, status, reason, retries, delayed, runSets, reconnect, post,
                 calls, trouble>>

\* An error that is no abort, and a stall that somebody else has signalled.
Fails(i) ==
  /\ \/ task[i] \in {"unrestrict", "setup", "transfer", "check"} /\ ~Aborted(i)
     \/ task[i] \in Phases \ Recovering /\ reason[i] = "stall"
  /\ Recovers(i)
  /\ UNCHANGED <<control, status, reason, retries, delayed, runSets, reconnect,
                 post, calls, trouble>>

\* The rest of the catch block: what an aborted item becomes.
Unwinding(i, r) == task[i] \in Phases \ Recovering /\ reason[i] = r

\* A task that was stopped leaves an item that a new start has taken over alone.
UnwindStopped(i) ==
  /\ Unwinding(i, "stop")
  /\ IF running
     THEN GiveUp(i, status[i], "none", 0)
     ELSE GiveUp(i, "stopped", "cancelled", 0)

UnwindParked_WhileRunning(i) ==
  Unwinding(i, "shutdown") /\ running /\ GiveUp(i, "queued", "none", 0)

UnwindParked(i) == Unwinding(i, "shutdown") /\ GiveUp(i, "queued", "none", 0)

UnwindReconnect_StatusKept(i) ==
  Unwinding(i, "reconnect") /\ GiveUp(i, status[i], "none", retries[i])

UnwindReconnect(i) ==
  Unwinding(i, "reconnect") /\ GiveUp(i, "queued", "none", retries[i])

UnwindToggled(i) ==
  Unwinding(i, "package_toggle") /\ GiveUp(i, "queued", "none", retries[i])

\* The file is complete on disk after all, and nobody has changed the item.
RecoveryFinalizes(i) ==
  /\ task[i] = IF status[i] \in Working THEN "recovery" ELSE "recovery_idle"
  /\ Complete(i)

\* The item is tried again later, whatever has aborted the task meanwhile ...
RecoveryRetries(i) ==
  /\ task[i] \in Recovering
  /\ retries[i] < RetryLimit
  /\ Requeue(i, retries[i] + 1)
  /\ UNCHANGED trouble

RecoveryFails_NotRecorded(i) ==
  /\ task[i] \in Recovering
  /\ retries[i] >= RetryLimit
  /\ GiveUp(i, "failed", "none", 0)

\* ... until its tries are used up.
RecoveryFails(i) ==
  /\ task[i] \in Recovering
  /\ retries[i] >= RetryLimit
  /\ GiveUp(i, "failed", "failed", 0)

-----------------------------------------------------------------------------
(* The user. *)

Called == calls < MaxCalls /\ calls' = calls + 1

BeginRun_OutcomesKept(chosen) ==
  /\ running' = TRUE
  /\ paused' = FALSE
  /\ runItems' = chosen
  /\ runPkgs' = {PackageOf[i] : i \in chosen}
  /\ outcome' = outcome
  /\ retries' = RetriesCleared
  /\ delayed' = {}
  /\ reconnect' = FALSE
  /\ loop' = LoopEnsured

\* A run that starts with the items chosen.
BeginRun(chosen) ==
  /\ running' = TRUE
  /\ paused' = FALSE
  /\ runItems' = chosen
  /\ runPkgs' = {PackageOf[i] : i \in chosen}
  /\ outcome' = NoOutcomes
  /\ retries' = RetriesCleared
  /\ delayed' = {}
  /\ reconnect' = FALSE
  /\ loop' = LoopEnsured

\* Items the user has stopped are queued again.
Resumed(scope) ==
  [i \in Items |-> IF i \in scope /\ status[i] = "stopped" THEN "queued" ELSE status[i]]

EnabledItems == {i \in Items : enabled[PackageOf[i]]}

\* triggerPendingExtractions: packages with archives left to extract.  Which
\* of those that may have some do have some is not modelled.
Extractable(pkgOn, st) ==
  {p \in Packages : /\ pkgOn[p]
                    /\ \E i \in ItemsOf(p) : st[i] = "completed"
                    /\ \A i \in ItemsOf(p) : st[i] # "failed"}
ExtractionsTriggered(pkgOn, st) ==
  \E more \in SUBSET Extractable(pkgOn, st) : post' = post \union more

\* start(), up to its first await.
Start ==
  /\ Called
  /\ ~running
  /\ running' = TRUE
  /\ pendingStarts' = pendingStarts + 1
  /\ loop' = GenerationBumped
  /\ UNCHANGED <<paused, enabled, work, runSets, reconnect, post, trouble>>

\* recoverRetryableItems, while a start() waits for it: a file is complete on
\* disk ...
StartFinalizes(i) ==
  /\ pendingStarts > 0
  /\ i \notin Live
  /\ status[i] \in Waiting \union {"failed"}
  /\ status' = [status EXCEPT ![i] = "completed"]
  /\ outcome' = Recorded(i, "completed")
  /\ retries' = [retries EXCEPT ![i] = 0]
  /\ attempts' = [attempts EXCEPT ![i] = 0]
  /\ delayed' = delayed \ {i}
  /\ post' = IF running THEN post \union {PackageOf[i]} ELSE post
  /\ UNCHANGED <<control, task, reason, runItems, runPkgs, reconnect, calls, trouble>>

\* ... or a failed item is tried again, as is a completed one whose archive
\* turns out to be empty.
StartRequeues(i) ==
  /\ pendingStarts > 0
  /\ i \notin Live
  /\ status[i] \in {"failed", "completed"}
  /\ status' = [status EXCEPT ![i] = "queued"]
  /\ retries' = [retries EXCEPT ![i] = 0]
  /\ attempts' = [attempts EXCEPT ![i] = 0]
  /\ UNCHANGED <<control, task, reason, delayed, runSets, reconnect, post,
                 calls, trouble>>

\* start(), after the await: with something to download, with something to
\* extract only, or with nothing to do.  That the queue may have been stopped
\* meanwhile is not looked at.
StartContinues ==
  /\ pendingStarts > 0
  /\ pendingStarts' = pendingStarts - 1
  /\ status' = Resumed(EnabledItems)
  /\ ExtractionsTriggered(enabled, status')
  /\ LET chosen == {i \in EnabledItems : status'[i] \in Waiting}
     IN  \/ chosen # {} /\ BeginRun(chosen)
         \/ /\ chosen = {} /\ post' # {}
            /\ running' = TRUE
            /\ paused' = FALSE
            /\ runItems' = {} /\ runPkgs' = {} /\ outcome' = NoOutcomes
            /\ loop' = LoopEnsured
            /\ UNCHANGED <<retries, delayed, reconnect>>
         \/ /\ chosen = {} /\ post' = {}
            /\ running' = FALSE
            /\ paused' = FALSE
            /\ runItems' = {} /\ runPkgs' = {} /\ outcome' = NoOutcomes
            /\ retries' = RetriesCleared
            /\ delayed' = {}
            /\ reconnect' = FALSE
            /\ UNCHANGED loop
  /\ UNCHANGED <<enabled, task, reason, attempts, calls, trouble>>

\* startPackages (wanted = all items of the packages) and startItems: in a
\* run the items join it, otherwise they begin one.
StartSelected(wanted) ==
  /\ Called
  /\ enabled' = [p \in Packages |-> enabled[p] \/ \E i \in wanted : PackageOf[i] = p]
  /\ status' = Resumed(wanted)
  /\ LET chosen == {i \in wanted : status'[i] \in Waiting}
     IN  \/ /\ running
            /\ runItems' = runItems \union chosen
            /\ runPkgs' = runPkgs \union {PackageOf[i] : i \in chosen}
            /\ UNCHANGED <<running, paused, loop, retries, delayed, outcome,
                           reconnect, post>>
         \/ /\ ~running
            /\ ExtractionsTriggered(enabled', status')
            /\ IF chosen # {}
               THEN BeginRun(chosen)
               ELSE UNCHANGED <<running, paused, loop, retries, delayed,
                                runSets, reconnect>>
  /\ UNCHANGED <<pendingStarts, task, reason, attempts, trouble>>

StartPackages == \E ps \in SUBSET Packages \ {{}} :
                   StartSelected({i \in Items : PackageOf[i] \in ps})
StartItems == \E is \in SUBSET Items \ {{}} : StartSelected(is)

\* stop(): by the user, or to park the queue for a restart.
AbortLive(r) == [i \in Items |-> IF i \in Live THEN r ELSE reason[i]]

Stop(r) ==
  /\ Called
  /\ running' = FALSE
  /\ paused' = FALSE
  /\ reconnect' = FALSE
  /\ loop' = GenerationBumped
  /\ reason' = AbortLive(r)
  /\ status' = [i \in Items |-> IF status[i] \in Finished THEN status[i] ELSE "queued"]
  /\ retries' = RetriesCleared
  /\ delayed' = {}
  /\ runItems' = {} /\ runPkgs' = {} /\ outcome' = NoOutcomes
  /\ UNCHANGED <<pendingStarts, enabled, task, attempts, post, trouble>>

\* prepareForShutdown
PrepareForShutdown ==
  /\ Called
  /\ running' = FALSE
  /\ paused' = FALSE
  /\ reconnect' = FALSE
  /\ reason' = AbortLive("shutdown")
  /\ status' = [i \in Items |->
       IF i \in Live /\ status[i] \notin Finished THEN "queued" ELSE status[i]]
  /\ delayed' = {}
  /\ runItems' = {} /\ runPkgs' = {} /\ outcome' = NoOutcomes
  /\ UNCHANGED <<loop, pendingStarts, enabled, task, retries, attempts, post, trouble>>

\* togglePause: on resuming, the delays are forgotten and tasks that have
\* shown no progress for thirty seconds are aborted.
Pause ==
  /\ Called /\ running /\ ~paused
  /\ paused' = TRUE
  /\ UNCHANGED <<running, loop, pendingStarts, enabled, work, runSets,
                 reconnect, post, trouble>>

Resume ==
  /\ Called /\ running /\ paused
  /\ paused' = FALSE
  /\ delayed' = {}
  /\ \E stuck \in SUBSET {i \in Live : ~Aborted(i) /\ status[i] \in {"validating", "downloading"}} :
       reason' = [i \in Items |-> IF i \in stuck THEN "stall" ELSE reason[i]]
  /\ ExtractionsTriggered(enabled, status)
  /\ UNCHANGED <<running, loop, pendingStarts, enabled, status, task, retries, attempts,
                 runSets, reconnect, trouble>>

\* togglePackage
Disable(p) ==
  /\ Called /\ enabled[p]
  /\ enabled' = [enabled EXCEPT ![p] = FALSE]
  /\ post' = post \ {p}
  /\ runItems' = IF running
                 THEN runItems \ {i \in ItemsOf(p) : status[i] \notin Finished /\ outcome[i] = "none"}
                 ELSE runItems
  /\ runPkgs' = runPkgs \ {p}
  /\ reason' = [i \in Items |-> IF i \in ItemsOf(p) \intersect Live THEN "package_toggle" ELSE reason[i]]
  /\ status' = [i \in Items |-> IF i \in ItemsOf(p) \ Live /\ status[i] \in Waiting
                                THEN "queued" ELSE status[i]]
  /\ UNCHANGED <<running, paused, loop, pendingStarts, task, retries, attempts, delayed,
                 outcome, reconnect, trouble>>

Enable(p) ==
  /\ Called /\ ~enabled[p]
  /\ enabled' = [enabled EXCEPT ![p] = TRUE]
  /\ LET back == IF running THEN {i \in ItemsOf(p) : status[i] \notin Finished} ELSE {}
     IN  /\ runItems' = runItems \union back
         /\ outcome' = [i \in Items |-> IF i \in back THEN "none" ELSE outcome[i]]
         /\ runPkgs' = IF back # {} THEN runPkgs \union {p} ELSE runPkgs
  /\ loop' = IF running THEN LoopEnsured ELSE loop
  /\ UNCHANGED <<running, paused, pendingStarts, work, reconnect, post, trouble>>

-----------------------------------------------------------------------------
\* What a task does on its own in the end.
TaskSteps(i) ==
  \/ PreflightFinalizes(i) \/ PreflightPasses(i) \/ Cooldown(i)
  \/ HostBusy(i) \/ Unrestricted(i) \/ SetupDone(i) \/ SetupCompletes(i) \/ DiskFull(i)
  \/ RequestReconnect(i)
  \/ TransferStalls(i) \/ TransferDone(i)
  \/ CheckPasses(i) \/ CheckFails(i) \/ Fails(i)
  \/ UnwindStopped(i) \/ UnwindParked(i) \/ UnwindReconnect(i) \/ UnwindToggled(i)
  \/ RecoveryFinalizes(i) \/ RecoveryRetries(i) \/ RecoveryFails(i)

LoopSteps ==
  \/ \E i \in Items : Launch(i) \/ LaunchFinalizes(i)
  \/ FinishRun \/ LoopExit

UserSteps ==
  \/ Start \/ StartPackages \/ StartItems
  \/ \E r \in {"stop", "shutdown"} : Stop(r)
  \/ PrepareForShutdown \/ Pause \/ Resume
  \/ \E p \in Packages : Disable(p) \/ Enable(p)

Next ==
  \/ LoopSteps \/ MarkReconnectWait
  \/ \E i \in Items :
       \/ TaskSteps(i)
       \/ PreflightHolds(i) \/ TransferHolds(i) \/ ChunkWritten(i)
       \/ Paced(i) \/ WatchdogAborts(i) \/ RetryDue(i)
       \/ StartFinalizes(i) \/ StartRequeues(i)
       \/ PostFinalizes(i) \/ PostRequeues(i)
  \/ StartContinues \/ ReconnectOver
  \/ \E p \in Packages : PostProcessed(p)
  \/ UserSteps

Spec == Init /\ [][Next]_vars

\* Awaits settle (each is bounded by a timeout or an abort signal), timers
\* fire, and the loop is woken by its own timer.  A task that holds for a pause
\* may hold as long as the pause lasts.  The user owes nothing.
Progress ==
  /\ UNCHANGED <<calls, pendingStarts>>
  /\ \/ \E i \in Items : RetryDue(i)
     \/ ReconnectOver
     \/ \E p \in Packages : PostProcessed(p)
     \/ \E i \in Items : (~paused \/ Aborted(i)) /\ TaskSteps(i)
     \/ LoopSteps

\* It is enough that of all that is due something happens; each such step changes one of the
\* subscripts.  A start() that waits goes on by itself, however busy the rest is meanwhile.
Fairness == WF_<<work, loop, reconnect, post>>(Progress) /\ WF_pendingStarts(StartContinues)

FairSpec == Spec /\ Fairness

-----------------------------------------------------------------------------
(* Properties *)

\* The state has the shape the code gives it.
TypeOK ==
  /\ running \in BOOLEAN /\ paused \in BOOLEAN /\ reconnect \in BOOLEAN
  /\ loop \in {"none", "fresh", "stale"}
  /\ pendingStarts \in 0..MaxCalls
  /\ enabled \in [Packages -> BOOLEAN]
  /\ status \in [Items -> Statuses]
  /\ task \in [Items -> Phases \union {"none"}]
  /\ reason \in [Items -> Reasons \union {"none"}]
  /\ retries \in [Items -> 0..RetryLimit]
  /\ attempts \in [Items -> 0..MaxAttempts]
  /\ delayed \in SUBSET Items
  /\ runItems \in SUBSET Items
  /\ runPkgs \in SUBSET Packages
  /\ outcome \in [Items -> Outcomes \union {"none"}]
  /\ post \in SUBSET Packages
  /\ calls \in 0..MaxCalls
  /\ trouble \in 0..MaxTrouble

\* A run never sits leaderless: unless a start() is still under way, a queue
\* that runs has a scheduler loop.
NotLeaderless == running /\ pendingStarts = 0 => loop # "none"

\* The tasks alive never exceed the parallel limit, although those of an
\* earlier run still unwind while a new one launches.
ParallelLimit == Cardinality(Live) <= MaxParallel

\* Once a package is switched off, every task left in it has been aborted.
DisabledIsAborted ==
  \A i \in Live : ~enabled[PackageOf[i]] => Aborted(i)

\* While the queue waits for a reconnect no task goes on: whatever is alive has
\* been aborted.  (The test for a reconnect in the loop that reads chunks can
\* therefore never be the first to notice one, and is no action here.)
ReconnectAbortsAll == reconnect => \A i \in Live : Aborted(i)

BooksNeedRun ==
  ~running => runItems = {} /\ runPkgs = {} /\ outcome = NoOutcomes

OutcomeOfRunItem == \A i \in Items : outcome[i] # "none" => i \in runItems

\* Outside a run nothing is booked, and in a run only what its items have come to:
\* nothing that a task, a file or a switch of an earlier run leaves behind.
BooksOfRun == BooksNeedRun /\ OutcomeOfRunItem

\* What the run has recorded is what the item shows, except while a start() puts
\* items back that another run has accounted for.
OutcomeIsStatus ==
  pendingStarts = 0 => \A i \in runItems : outcome[i] \in {"completed", "failed"} => status[i] = outcome[i]

\* When a run ends, each of its items has an outcome.
FinishAccountsForAll ==
  [][FinishRun => \A i \in runItems : outcome[i] # "none" \/ status[i] = "downloading"]_vars

\* A task leaves its item as downloading only when it was stopped and a new
\* run had begun before it unwound.
LeftDownloading ==
  [][\A i \in Items : (task[i] # "none" /\ task'[i] = "none" /\ status'[i] = "downloading")
        => reason[i] = "stop" /\ running]_vars

\* An aborted task never completes its item by the transfer it was aborted in.
AbortIsHonoured ==
  [][\A i \in Items : (task[i] \in {"setup", "transfer", "check"} /\ Aborted(i))
        => (status'[i] = "completed" => status[i] = "completed")]_vars

\* A run ends, unless the user holds it.
EveryRunEnds == running ~> (~running \/ paused)

\* A task that was aborted ends: one property for each item.
EndsOnceAborted(i) == (i \in Live /\ Aborted(i)) ~> i \notin Live
=============================================================================

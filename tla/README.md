# Multi-Debrid Downloader: TLA+ models, checks and proofs

Models of the main process of Multi-Debrid Downloader (`src/main/`), model-checked with TLC on
small instances, with theorems that TLAPS proves for every value of the constants. Paths below
are relative to the repository; line numbers are those of the commit the models were written from.

Contents: [the system](#the-system) · [inventory](#inventory) · [how steps are modelled](#how-steps-are-modelled) ·
[modules](#modules) · [runs](#runs) · [fairness](#fairness) · [proofs](#proofs) ·
[findings](#findings) · [abstractions and gaps](#abstractions-and-gaps) · [plan](#plan) ·
[working with the project](#working-with-the-project)

## The system

An Electron application. Its **main process** (TypeScript, `src/main/`) owns the download queue:
packages of links, each link an *item*. A start puts a scheduler loop to work that launches up to
`settings.maxParallel` items at a time. Each item has one asynchronous task, `processItem`: it looks
at the disk, has the link converted by a debrid provider, transfers the file (directly, or in
segments through proxies), checks its integrity, and either completes the item, puts it back for a
retry or fails it. Completed files are unpacked per package by post-processing tasks, which compete
for slots, and inside them archive by archive for the process-wide extraction limiter. Everything
is persisted: session, settings, history, statistics, notifications. The **window**
(`src/renderer/`) shows snapshots and sends commands; a **remote control** endpoint (MCP) and a
debug server send the same commands. Two small servers (`services/`) pair remote callers with
installations and store encrypted backups.

All of the main process runs on one JavaScript thread. There are no data races; what is hard is
what may happen **at an `await`**: `stop()` while tasks unwind, `start()` before they have, an abort
reason that overwrites another, a save overtaken by a newer one, the end of the process between two
writes. The repository has no tests, so nothing of this is exercised there.

## Inventory

| Component (source) | State | Operations | Interacts with | What is hard | What makes it correct |
|---|---|---|---|---|---|
| **Download scheduler** (`download-manager.ts`: 3500–3570, 7240–7640, 10340–11640, 11876–13200, 15572–15698) | `session.running/paused/reconnectUntil`, `scheduleRunning`, `schedulerGeneration`, `activeTasks` (phase, abort controller and reason), `item.status`, `retryAfterByItem`, `retryStateByItem`, `runItemIds`, `runPackageIds`, `runOutcomes` | `start`, `startPackages`, `startItems`, `stop`, `prepareForShutdown`, `togglePause`, `togglePackage`, `ensureScheduler` (the loop), `startItem`, `processItem`, `queueRetry`, `requestReconnect`, `finishRun`, the stall watchdog | post-processing, storage, providers, notifications, window, remote control | runs that overlap, aborts at any await, retries, delays, reconnects | one live loop per run, parallel limit, aborts honoured, books of a run consistent, a run ends |
| **Item and package operations** (same file) | the same maps | remove, cancel, reset, skip, retry, offline-skip | scheduler, post-processing, files | each may hit a task at any await | nothing survives of an item removed; no file deleted under a task |
| **Post-processing slots** (9196–9335) | `packagePostProcessActive/Waiters/Tasks/AbortControllers`, `hybridExtractRequeue` | acquire, release, run, abort, reset | scheduler, settings, extractor | slots reset while held, replaced tasks still unwinding, limits changed while waiting | no slot lost, no waiter stranded, one task per package |
| **Post-processing rounds** (14589–15100) | item statuses, archives, history | recover items by their files, hybrid and deferred extraction, orders for more rounds | scheduler, extractor | state read before an await and used after it; orders per package, tasks replaced | no order lost, every order answered |
| **Extraction limiter, processing budget** (`extraction-limiter.ts`, `processing-budget.ts`) | `active`, `limit`, `waiters` | `acquire`, `updateLimit`, release, abort | extractor, rar recovery | aborts racing grants, limit changes | see `SlotPool` |
| **Proxy readback limiter** (`proxy-readback-limiter.ts`) | `active`, `waiting` | `acquire`, release, abort | segmented download | signals that fire between a grant and its continuation | see `SlotPool` |
| **Notification outbox** (`notification-outbox.ts`) | `events`, in-flight event, one timer, `persistenceRequired`, file | `enqueue`, `drain`, recovery, `drainForShutdown`, load | chat service, health monitor, shutdown | failed saves, lost answers, crashes, eviction while sending | what was acknowledged is kept; no duplicate without cause; never asleep |
| **Download health monitor** (`download-health-monitor.ts`) | incidents, exclusive chain, file | `sample`, delivery acknowledgement | outbox, scheduler | two chains that call each other | no deadlock; one report per incident |
| **Session and settings storage** (`storage.ts`) | files, backups, generations, queued saves, barrier | sync and async save, load, barrier | everything | two writers, failed saves, crash between renames | a newer state is never replaced by an older one; something loads |
| **Collector store** (`collector-store.ts`) | primary and backup file, revisions | save, load | window | crash between the two writes | the newest readable state is loaded |
| **Statistics ledger** (`statistics-ledger.ts`) | minute and day buckets | add, roll, save | scheduler | rollover | sums preserved |
| **Disk reservations** (`disk-space.ts`) | bytes reserved per volume | reserve, update, release | scheduler, extractor | release during an update | no byte booked without a lease |
| **Daily start** (`daily-start-scheduler.ts`) | pending, missed and handled dates, timer | evaluate, start, confirm | scheduler, settings | crash between decision and start | at most one start a day |
| **Provider limits and cooldowns** (`provider-daily-limits.ts`, `download-server-backoff.ts`, …) | counters per day and provider | count, back off | scheduler | rollover at midnight | limit not exceeded |
| **Debrid providers** (`debrid.ts`, `realdebrid*.ts`, …) | accounts, sessions | unrestrict, check | scheduler | external services | choice of provider and account |
| **Proxy segmented download** (`proxy-segmented-download.ts`) | coordinator: connections, registered downloads, cooldowns, adaptive limits, queue; a download: temporary file, next segment, progress | lease, release, adapt; probe, allocate, fetch, read back, retry, rename or clean up | scheduler, readback limiter, disk | several limits at once, workers that fail or are stopped at any await | no idle proxy, progress exact, a renamed file is whole |
| **Extractor, rar recovery, Java worker** | processes, folders | extract | limiter, disk | external processes | – |
| **Download completion, integrity** | none (pure) | decide whether a file is complete | scheduler | byte counts at boundaries | no false completion |
| **Account commands** | settings | add, edit, reorder | settings | – | – |
| **Updates, MCP update jobs, installer uploads** | job file, uploads | check, prepare, park, install, upload | scheduler, storage | process ends in the middle | a job is never called completed wrongly |
| **Remote control endpoint and tools** (`mcp/`) | pairing, permissions | route calls | all of the above | – | operations do what the tool texts say |
| **Relay and backup services** (`services/`) | waiting devices; stored backups | pair, store | – | – | – |
| **Controller, main, debug server, logging, window, scripts** | wiring | – | – | shutdown order | – |

`PROJECT.json` lists every one of them with its status, and under `hazards` the places in this code
that a test would hardly reach, each at its line, with the property that covers it or the reason
why none does yet.

## How steps are modelled

* **A step is the code between two awaits.** Continuations (microtasks) that run before any other
  event are part of the step that resolves them: a task's `finally`, a waiter that a release wakes.
  Where something else can come in between, as between a limiter's grant and the resumption of its
  caller, the continuation is a step of its own.
* **A handler is modelled whole.** `stop()` is one action with everything it clears; the `catch` block of
  `processItem`, which awaits the disk before it decides, is two.
* **Data is reduced to what the properties tell apart.** A transfer succeeds, fails, stalls or is
  refused; a file is complete on disk or is not; a delay is over or is not.
* **Bounds** are constants named `Max…` (or a set of identities, where the comment says so) and
  appear in guards only. The proofs hold for any value of them.
* A definition with an underscore in its name (`Launch` has `FreeSlot_OneTooMany`, and so on) is a
  plausible wrong version of the definition it is named after, kept to show that a property can
  fail: it is used by no specification.

## Modules

| Module | What it is |
|---|---|
| `SlotPool` | abstract: what the main process expects of a limiter |
| `ExtractionLimiter` (+ `_proofs`) | the extraction limiter and `withProcessingBudget`; implements `SlotPool` |
| `ReadbackLimiter` | the proxy readback limiter; implements `SlotPool` where the segmented download uses it |
| `PostProcessSlots` | slots and per-package tasks of post-processing |
| `DownloadScheduler` (+ `_proofs`), `MCDownloadScheduler` | the download queue: user, loop, tasks, books of a run |
| `SchedulerIntent`, `MCSchedulerIntent` | `DownloadScheduler` with a record of the user's last word |
| `TargetPaths` (+ `_proofs`), `MCTargetPaths` | items, tasks, claims and files of one name under stop, start, reset, removal and skip |
| `PostProcessRounds` (+ `_proofs`) | `PostProcessSlots` with what the rounds find and do: which orders a package gets and what becomes of them |
| `NotificationOutbox` | queue, file, drain, shutdown and restart of the outbox |
| `DownloadHealth` (+ `_proofs`) | the health monitor, composed with the outbox it reports to |
| `SessionStorage` | the session file with its backups, both ways of saving, the barrier, an import, the end of the program, crash and load |
| `InstallerUploads` | resumable uploads of an installer through the remote control |
| `RemoteUpdates` | the persistent update job, composed with the uploads, the installation and the parking of the queue |
| `ProxyCoordinator` | who gets which proxy: leases, queue, shares, adaptive limits, cooldowns |
| `SegmentedDownload` (+ `_proofs`), `MCSegmentedDownload` | downloads in segments over the proxies, composed with the coordinator and the readback limiter |
| `Subsequences`, `Basics_proofs` | what `Array.filter` leaves of a queue, and the lemmas several proofs need |

A `MC…` module only gives the constants of an instance.

### SlotPool, ExtractionLimiter, ReadbackLimiter

`SlotPool` has four variables (the limit, who waits, who holds, who is gone) and one step that may do
many things at once: the limit may change, calls may come, leave and be granted. What it
promises: whoever is granted fits below the limit now in force, no holder is robbed of its slot, a
call that has left never comes back, and **nobody waits while a slot is free**. `ReusedSpec` is the same without
"never comes back", for callers that ask again.

| `ExtractionLimiter` | Code |
|---|---|
| `Acquire`, `AcquireAborted` | `acquire()`: `updateLimit`, enqueue and `drain()` are one step; an aborted signal is rejected first |
| `Drain`, `Grants` | the `while` loop of `drain()`, as the number of waiters it grants |
| `Abort`, `AbortWaiter` | the abort listener: only a waiting call has one |
| `UpdateLimit`, `Clamp` | `updateLimit()`, also called when the setting changes |
| `Resume` | the continuation after the grant: `withProcessingBudget` looks at the signal once more |
| `Release`, `GiveBack` | the release function, called in the caller's `finally` |

The phase `granted` exists because other events can come between the grant and the continuation of
the caller: an abort there must not start the work and must give the slot back.

`ReadbackLimiter` differs: calls share the signal of their download, one dispatch rejects them all,
and a release serves as many waiters as there are slots and skips those whose signal has fired.
There is no waiter of the kind it skips: the listeners run within the dispatch.

Its calls are the workers of `SegmentedDownload`, which read back one segment after the other, hence `ReusedSpec`.

### PostProcessSlots

| Action | Code |
|---|---|
| `RunPostProcessing` | `runPackagePostProcessing()`: with a task on record, an order for one more round (`hybridExtractRequeue`); otherwise a new task on record, with `AcquireSlot` |
| `AcquireSlot` | `acquirePostProcessSlot()` up to its await; `seen` is `maxConcurrent`, read before |
| `FirstRound`, `AnotherRound` | the loop of rounds |
| `TaskEnds` | the `finally`: `ReleaseSlot`, and the record only if it is still this task's |
| `ReleaseSlot` | `releasePostProcessSlot()`: the waiter whose package is first in the queue is woken; its continuation is part of the step |
| `AbortPackage` | `abortPackagePostProcessing()`, called by switches, resets and cancellations |
| `AbortAll`, `ClearAll` | `stop()` without `autoExtractWhenStopped` and `clearAll()`: **the counter is set to zero while tasks that hold a slot still unwind** |
| `SetLimit` | the setting changes; nobody is woken |

The interesting part: after a reset the counter says less than the truth; every later release is
clamped at zero and a task that was aborted runs beside its replacement. `SlotsNeverLeak` says that this
never costs a slot; `NoOrphan` is what the identity checks in the `finally` are for.

### PostProcessRounds

Extends `PostProcessSlots`: every step of the rounds is a step of the slots with what it does to the
package. `work` is what the files of a package are (`open`, `complete`, `unpacked`), `saw` what the round of
a task has counted, `due` a history variable: packages whose last item has ordered an extraction that
nothing has answered.

| Action | Code |
|---|---|
| `ItemDone`, `LastItemDone` | a task of the queue completes an item and calls `runPackagePostProcessing` without awaiting it |
| `Trigger` | `triggerPendingExtractions` at a start, when a package is switched on, when a setting changes |
| `RoundBegins`, `CountItems`, `RoundEnds` | one turn of the loop in `runPackagePostProcessing`: the look at the files, the count, extraction or hybrid extraction |
| `Ended`, `SelfOrdered`, `Begun` | whether the loop goes on: an order (`hybridExtractRequeue`), `shouldCollapseQuickPostProcessRequeue`, an order the round gives itself |
| `Withdraw`, `WithdrawAll` | `togglePackage`, a reset, `stop()`, `clearAll()` |

### DownloadScheduler

State: see the comments of its variables. Three of them deserve a word.

* `loop` is `none`, `fresh` or `stale`: whether a scheduler loop runs and whether it is of the current
  `schedulerGeneration`. A start bumps the generation; a stale loop notices it when it wakes, ends, and
  starts its successor (`Respawned`). Between the two, `ensureScheduler` leaves it alone.
* `pendingStarts` counts calls of `start()` that wait for `recoverRetryableItems` (line 7257), while
  `session.running` is already true.
* `task[i]` is where the task of item *i* waits: `preflight` (inspection of the disk, pause, choice of a
  provider), `unrestrict`, `setup` (folder, path, disk space), `transfer`, `check` (integrity), `recovery` (the
  disk inspection inside the `catch` block) or `recovery_idle` (the same, of an item that did not show as being worked
  on when it began). `reason[i]` is `active.abortReason`.
* `attempts[i]` is `item.attempts`, which bounds the loop over the attempts of a task (line 11119) and is kept apart from
  the retry counters: an error resets it, an abort does not.

| Actions | Code |
|---|---|
| `Start`, `StartFinalizes`, `StartRequeues`, `StartContinues` | `start()` before, during and after its await |
| `StartPackages`, `StartItems` | `startPackages()`, `startItems()`, which have no await before they run |
| `Stop(r)` | `stop()`, `r = "shutdown"` with `parkForRestart` |
| `PrepareForShutdown` | `prepareForShutdown()` |
| `Pause`, `Resume`, `Disable`, `Enable` | `togglePause()`, `togglePackage()` |
| `Launch`, `LaunchFinalizes`, `Paced`, `FinishRun`, `MarkReconnectWait`, `LoopExit`, `WatchdogAborts` | one turn of the loop in `ensureScheduler`, piece by piece: any eligible item may be next |
| `Preflight…`, `Cooldown`, `HostBusy`, `Unrestricted`, `SetupDone`, `SetupCompletes`, `DiskFull`, `Transfer…`, `ChunkWritten`, `RequestReconnect`, `Check…` | `processItem` and `downloadToFile` from await to await |
| `Fails`, `Unwind…`, `Recovery…` | the `catch` block of `processItem`, by abort reason |
| `PostFinalizes`, `PostRequeues`, `PostProcessed` | what post-processing does to items of the queue |
| `RetryDue`, `ReconnectOver` | time passes |

Abort reasons overwrite each other (`stop` after `reconnect`, `stall` after anything), exactly as the
assignments in the code do; a retry that installs a fresh controller is part of the step that requeues.

`SchedulerIntent` adds a history variable, the user's last word (`stopped`), and states what the text of the
remote tool (`src/main/mcp/tools.ts:163`) says a stop does. The code does otherwise; see [findings](#findings).

### TargetPaths

The queue again, from the side of the files: which path a task downloads to, who claims it, and what the user's
calls delete. All items have one name, so all of them want path 0 and take "name (n)" when they cannot have it.
`DownloadScheduler` says when a task runs; here any queued item may be launched while a loop is alive.

`claims` holds both maps, `claimedTargetPathByItem` (`of`) and `reservedTargetPaths` (`by`); `item[i].target` is
`item.targetPath`, which outlives the claim; `disk[p]` says who has written the file at *p* and whether it is whole;
`begun` stands for `downloadedBytes > 0`; `bare` is a history variable: items whose claim a start has cleared while
their task was alive.

| Actions | Code |
|---|---|
| `Converted`, `FolderMade`, `Looked`, `Claims` | `processItem` up to the end of `claimTargetPathAsync`: the link, the folder, the old path, the look at the disk, each an await |
| `Claimed`, `Candidate`, `Found`, `Released` | `claimTargetPath` and `releaseTargetPath` |
| `Reserved`, `DiskFull` | the reservation of disk space; **nothing looks at the signal between the folder and the request**, and the item is shown as downloading whatever has become of it |
| `Inspected`, `Fetched`, `Created`, `ChunkWritten`, `TransferDone` | `downloadToFile`: too long a file is cut down, the request, the file is opened (unconditionally), chunks |
| `CheckPasses`, `DigestFails`, `TooSmall` | what `processItem` makes of a finished transfer |
| `Fails`, `RecoveryFinalizes`, `RetryResumes`, `RetryAnew`, `GivesUp` | errors: accept what is on the disk, try again with or without it, fail |
| `Unwind` | the `catch` block for an aborted task, after those awaits that look at the signal; a removed item's file goes |
| `Ends`, `Requeues` | the `finally` of `startItem` (the claim stays with an item that waits for a retry) and `queueRetry` |
| `Start`, `StartRequeues`, `StartContinues`, `StartSelected`, `Stop`, `LoopEnds`, `FinishRun` | the queue starts (claims are cleared, 7353–7359), stops and ends |
| `Reset`, `Remove`, `Skip` | `resetItems` and `resetPackage`, `removeItem`, `skipItems`, for one item |

### NotificationOutbox

Everything that touches the queue runs under `runExclusive`, one operation after the other, each with
its save at the end. Nothing else reads the queue, so one operation is one step; between operations come
the sending itself (outside the exclusive section), the single timer, calls of `enqueue`, the
shutdown and the end of the program.

| Actions | Code |
|---|---|
| `Enqueue` | `enqueue()`; it returns without an error (`acked`) only if the save did not fail |
| `TakeSaves`, `TakeNothing`, `TakeNext` | the first exclusive section of `performDrain` |
| `SendSettles` | the web request: accepted, refused, or accepted with the answer lost |
| `Refused`, `Delivered`, `Report` | the sections after the answer; `onDelivered` is called outside of them |
| `TimerFires`, `Recover` | `scheduleDrain`, `schedulePersistenceRetry`, `recoverPersistence` |
| `Shutdown`, `Exit`, `Restart` | `drainForShutdown`, the end of the process at any moment, the constructor's `load` |
| `Due`, `Expire` | `nextAttemptAt` and `expiresAt` pass |

`Persist` enforces the limits and then saves the whole queue or fails; `Limited` is `enforceLimits`, with
`Victim` the order in which events go: successes before errors, the oldest first, never the one in
flight. A file that cannot be read at a restart counts as empty and is overwritten (`Restart`).

### DownloadHealth

Extends `NotificationOutbox`. A sample may find anything: what the snapshot says belongs to the queue.

| Actions | Code |
|---|---|
| `Evaluations`, `Judged`, `Suspicious`, `Recovering`, `Fresh` | `evaluateDownloadHealth`: confirmation over several samples, cooldown, incident, recovery; the result is a state and an event |
| `SampleBegins`, `SampleQuiet`, `SampleEvent`, `Announce`, `SaveHealth` | `sample()`: evaluate, await the outbox, await the save, and only then take the new state over |
| `Acknowledge` | `acknowledgeDelivery`, which the outbox awaits and which waits for `sample()` on the monitor's chain |
| `Cool` | `cooldownUntil` passes |
| `HealthExit`, `HealthRestart` | the end of the program, and `loadDownloadHealthState` |

### SessionStorage

A session is a number, later ones are larger, 0 is the empty one. The rename of an asynchronous save is done by
another thread, so it may take effect before the await on it returns; the write and the copy may be cut off by
a crash, which leaves a torn file.

| Actions | Code |
|---|---|
| `SaveAsync`, `Enqueued`, `Written` … `CommitFails` | `saveSessionAsync`, the drain `startSessionSaveDrain` and `writeSessionPayload` from await to await |
| `SaveSync`, `SaveSyncFails`, `Overtake`, `Raise` | `saveSession`: one step; raises the generation and unlinks the sources of renames under way |
| `Acquire`, `Detach`, `TakeTurn`, `Settled`, `Unsettled`, `GivenBack`, `Replay`, `Drop` | `acquirePersistenceBarrier` and `replayBlockedSaves` |
| `ImportBegins`, `FullSaves`, `FullSucceeds`, `SettingsSave`, `SettingsSucceed`, `ImportFails` | `importBackup` and `applySettingsOnlyBackup`, with rollback |
| `ShutdownBegins`, `LastSave`, `FinalSave`, `Exit` | `shutdown()` and `prepareForShutdown()` |
| `Crash`, `Start`, `Load` | the process ends anywhere; `loadSessionWithStatus` with its order of files |

The generation counter is represented by what it is compared for: `passed` (a synchronous save came in between) on
each save, and `again` on saves that were set aside and got a generation anew.

### InstallerUploads, RemoteUpdates

Requests run side by side, each from await to await, and are repeated by clients that saw no answer. An upload is an
object that a request keeps hold of even when the service has moved on to another one.

| Actions | Code |
|---|---|
| `Begin`, `Replaced`, `Created`, `Chunk…`, `Commit`, `Hashed`, `Cancel`, `Removed` | `McpInstallerUploads`: `begin`, `chunk`, `commit`, `cancel`; `CallFails` is any of their awaits throwing |
| `StartRelease`, `Install`, `Accept`, `Accepted` | `start` and `startDirect` of `McpUpdateJobs`, `begin` with its save |
| `Checked`, `Downloading`, `Verified`, `Installing`, `BackedUp`, `HandedOver`, `Failed` | `execute`, `installLatestUpdate`, `installVerifiedLocalUpdate`, `beforeLaunch` with the second authorization |
| `Park`, `Error` | `runInstallWithResume`: the queue is stopped once and started again after a failure |
| `Restart`, `Judged` | the program ends, with the installer started or not; `load()` judges the job by the installed version, or finds its file unreadable |
| `UserInstall`, `UserParks`, `UserEnds` | the user's own installation, which parks the queue like a job's, and its end in an installer or in a queue that goes on |
| `Configure`, `Expire`, `Toggle` | what happens meanwhile |

### ProxyCoordinator, SegmentedDownload

The coordinator never awaits, so each of its methods is an operator from the record of its fields to the set of records
they may be afterwards. `Drained` is the loop of `drain()` with the timer it sets at the end.

| `ProxyCoordinator` | Code |
|---|---|
| `MayConnect`, `Share`, `Selectable` | the limits in `selectProxy`: of all, of an address that answered 503, and the fair share a download must not exceed before others are served |
| `Drained`, `OneMore`, `Servable`, `Armed` | `drain()`, first without and then with borrowing, and `scheduleCooldownWake` |
| `Asked`, `Left` | `acquire()` and its abort listener |
| `SlotGiven`, `Released…`, `Restored`, `Cooled` | the two ends of a lease: the connection first, the verdict later; limits that grow again |
| `Reported503`, `Reported429`, `Mismatched`, `Limited`, `Registered`, `Unregistered`, `Expired` | the methods of these names, and the timer |

A job of `SegmentedDownload` is a worker of a download (or, as number 0, its probe).

| `SegmentedDownload` | Code |
|---|---|
| `Loaded`, `NoList`, `Probe…` | the list of proxies and `probeRangeSupport` with its attempts |
| `Prepared`, `Allocated` | directory, target path, temporary file of the full size, the workers begin: **nothing here looks at the signal** |
| `NextSegment`, `Attempt`, `GivesUp` | the loops of the workers and of `downloadSegment` |
| `Flushed`, `Written`, `FetchFails`, `ReadBack`, `Suspected`, `Checked`, `Caught`, `PauseEnds` | `downloadSegmentOnce`, the readback, the second fetch of runs of zeros, the `catch` with its retries |
| `Cascade`, `Stop`, `Dispatched` | a worker that fails ends the others; `options.signal` |
| `Settled`, `Commit`, `Cleanup`, `Ended` | what the workers' ends lead to; rename or removal; the second run after the server's file has changed |

Continuations go before other events (`Pending`): an attempt that fails is caught, and the worker asks for the next
proxy, before anything else happens.

## Runs

A run that passes has visited every state its bounds allow.

| Run | Instance | Distinct states | What it asks |
|---|---|---|---|
| `limiter` | 4 calls, ceiling 2, limits 0, 1, 3 requested | 14 thousand | is the limiter a `SlotPool`, with an answer for everybody? |
| `slots` | 2 packages of which one is completed, 3 tasks alive, limits 1 and 2, 1 reset | 235 thousand | do slots and orders survive resets, replaced tasks, rounds and changed limits? |
| `scheduler` | 2 packages of 1 item, 1 task at a time, 1 retry, 3 calls, 1 trouble | 439 thousand | loop, limit, aborts and books of overlapping runs; does a run end, and does an aborted task? |
| `scheduler_pair` | 1 package of 2 items, 2 tasks at a time, 1 retry, 3 calls, 1 trouble | 1.4 million | two tasks of one package: reconnects and switches that hit both |
| `stop_is_lost` | 3 items in 2 packages, 2 calls | violation | does the queue stay stopped? (no) |
| `target_paths` | 2 items of one name, 4 paths, 3 calls, 2 failures | 945 thousand | one writer per path, removed files gone, finished files kept? |
| `reset_deletes` | the same, 2 calls, 1 failure | violation | does a reset of failed items spare finished files? (no) |
| `outbox` | 2 standstills and 1 recovery, room for 2, 1 piece of trouble | 510 thousand | monitor and outbox together: nothing lost, nothing twice, no alert in the cooldown, no deadlock of the two chains |
| `storage` | 3 sessions, 1 fault, 1 unreadable file, 1 start, 1 import of either kind | 444 thousand | what does a start find, after anything? |
| `remote_updates` | 1 manifest, 1 release, 4 requests of which 2 at a time, 1 block, 2 pieces of trouble | 917 thousand | uploads, the job and the installation together |
| `segments` | 2 downloads of 2 segments and of 1, 3 proxies, limits 3 and 2, 1 readback slot, 2 writes a segment, 1 piece of trouble that may recur | 758 thousand | coordinator, readbacks and workers together: no idle proxy, exact progress, whole files, no standstill |
| `incomplete_file` | the same | violation | is what is renamed to the target always the whole file? (no, if the download is stopped) |

### What the properties say

* **Limiters.** `PoolSpec` (implements `SlotPool`: no lost wake-up, no grant above the limit), `EveryWaiterAnswered`.
  Proved and not run: `FirstComeFirstServed` (aborts in the middle of the queue included), `NoIdleSlot`,
  `GrantsRespectLimit` (also right after the limit was lowered), `AbortedNeverStarts`.
* **Slots and rounds.** `SlotsNeverLeak`: the counter never exceeds the tasks that hold a slot, whatever resets and
  late releases do. `NoOrphan`: a task that has not been aborted is the one on record. `OrderIsKept`: while
  a package waits for the extraction that its last item has ordered, the task on record has yet to see
  the package complete. `EveryOrderIsAnswered`: such an order ends in a round that has seen the package complete;
  conditional on no new arrivals, because packages further up overtake.
* **Scheduler.** `NotLeaderless`: a queue that runs has a loop, unless a `start()` is still under way.
  `ReconnectAbortsAll`: no task slips through a reconnect. `BooksOfRun`: nothing
  that an earlier run left behind is booked in this one. `OutcomeIsStatus`: what was booked is what the item
  shows. `FinishAccountsForAll`: a run that ends has an outcome for each of its items. `LeftDownloading`: the one
  way an item can be left as "downloading" without a task. `AbortIsHonoured`: an aborted transfer never
  completes its item. `EveryRunEnds`, `AbortedTaskEnds` (stated for one
  item: neither the code nor the instance tells them apart): liveness. Proved and not run: `DisabledIsAborted`
  (no task slips through a switch) and `ParallelLimit`, with the unwinding tasks of earlier runs counted.
* **Outbox and monitor.** `AcknowledgedIsKept`: through failed saves and crashes, until the service has it or it was
  given up. `AgainOnlyAfterTrouble`: each time the service gets an event again, an answer was lost, a save had
  failed or the program had ended. `NeverAsleep`: while something is queued or not saved, a drain runs or a
  timer will start one. `CooldownHolds`: no alert within the cooldown a delivered one has begun, with samples,
  deliveries and restarts in between. `RecoveryFollowsAlert`: "downloads run again" is queued only if the outbox
  was given the alert. `SamplesEnd`: neither chain waits for the other for ever.
* **Storage.** `RecoversLastCommit`: every start finds the session last saved or the one before, with one
  file unreadable. `OnlySetAsideGoBack`: an older session replaces a newer one at most through a save that a barrier
  has set aside (it does, see below). `ResolvedIsDurable`: a promise kept is on
  the disk. `ImportSurvives`: once an import's session is on the disk, nobody changes the file but those
  who do not ask: a synchronous save of the running program, the rollback of an import that fails, and the last save of
  a program that ends before a full import has muted it. `EverySaveSettles`.
* **Updates.** `OncePerKey`: a repeated request never starts the installer again. `LaunchIsAuthorised`: what the job
  was accepted under holds at the launch. `InstalledIsCompleted`: a start that finds the new version reports the job that
  started its installer as completed, whatever was not saved. `JobEnds`. `QueueGoesOn`: a queue parked for an
  installation, of a job or of the user, is released in the end, and runs again unless an installer was started.

* **Segmented download.** `NoIdleProxy`: no waiter is left behind while the limits, the throttle of its address and the
  proxies it may use would let it connect. `SomethingGoesOn`: until all downloads are over, something is under way that
  will call back, so nobody waits for proxies and slots only other waiters could free. `ReadbackIsAPool`.
  `ProgressIsExact`: what was reported is what the file holds, through retries, readbacks that fail and removed
  files. `WholeUnlessStopped`: a renamed file has every segment accepted if nobody has stopped its download;
  `CompletedIsWhole` leaves the condition out, and is violated.
* **Target paths.** `OneWriter`: no two downloads that have not been aborted write to one path, unless a start has cleared the
  claim of one of them while it ran. `CancelTakesFile`: when the task of an item that was removed with its files has
  unwound, neither the file the item remembers nor the one the task was writing is left, through whatever happened to
  the claim in between, unless the task ended in a failure of its own or the item had been reset. `FinishedFileIsKept`: the path of a finished
  file goes to another item only if that item had the path before or has looked at the disk before the file came.
  `ResetSparesOthers` is violated.

The modules also define type invariants (`TypeOK`, `RoundsTypeOK`, `HealthTypeOK`, `SegmentsTypeOK`) and, in `TargetPaths`,
`ClaimsInOrder`, that no run lists: they were checked while the modules were written and are where the proofs begin.

`ProgressIsExact` is stated with `Held(d)`, the set of the writes in a download's file, instead of a sum over its
segments: the sum would say the same of numbers, the set also says of which writes, and that none is counted twice.

### Bounds, and why they are enough

* **Limiters.** Two slots and more calls than slots: a queue of two, an abort of its head and of its tail, a
  limit that is lowered below the holders and raised by more than one. The proofs cover every other size.
* **Slots and rounds.** Three tasks give a holder, a replaced task that still unwinds and a waiter; two packages give the
  priority among waiters; one reset is enough to make the counter say less than the truth while a task
  that held a slot, its replacement and a third task come and go.
* **Scheduler.** Three calls reach stop–start–stop and start–disable–enable; one retry makes an item
  fail for good on its second try; one "trouble" is a reconnect, a full disk or a cooldown, so two of
  them never meet. Two items are one more than may run in `scheduler`, and as many as may run in
  `scheduler_pair`. The safety theorems hold for every number of everything.
* **Intent.** Two calls are enough for the counterexample.
* **Target paths.** Two items of one name compete for one path; a third would wait for the same claims. Four paths are more
  than two items ever hold or leave behind at once (a free one was always found). Three calls are a start and two more, or
  start, stop and start; two failures are, for instance, a failed item and a retry of the other. Items are interchangeable
  (`SYMMETRY`; the properties are invariants and action properties that name no item).
* **Outbox.** Two alerts and a recovery for a room of two make both kinds of eviction happen; one piece of trouble
  makes each single failure, lost answer or restart happen at each point.
* **Storage.** Three sessions (an empty one, an older, a newer) are enough to tell what is older; one
  fault, one crash or end, one damaged file and one import happen at every point and in every order.
  With two faults the drain only repeats what it does after one.
* **Updates.** Four requests are begin, chunk, install and a repetition of any of them; two at a time race; two pieces of
  trouble are, for instance, a failed save and a crash. An upload is one block: more of them only repeat the request.
* **Segmented download.** One download has two workers of one segment each, so that one fails, is stopped, reads back or
  waits while the other goes on; the second is one that competes for proxies and leaves early because its file is too
  small. Beginning with another limit than the first, it changes the limits under the first one. Three proxies are as many
  as may be used at once, until one cools down, is excluded or a limit falls. One readback slot makes workers wait for
  it. What goes wrong may go wrong again (a server stays busy), but two different kinds of trouble, as an error followed by
  a stop, do not meet. Proxies are interchangeable (`SYMMETRY`), which is sound for these invariants and the action
  property: none names a proxy, and none is about liveness.

The runs allow deadlock (`CHECK_DEADLOCK FALSE`) where the instance really stops: a queue whose user has used
up his calls, downloads that are over.

## Fairness

* **Limiters, slots**: continuations run; work done under a slot ends (an extractor process ends or is
  killed, hashing ends by itself or on its signal, a round repeats only if it has unpacked something or
  was asked for). Nobody is forced to ask, to abort or to change a limit.
* **Scheduler**: the loop is woken by its own sleep (120–220 ms); each await of a task settles, because it is
  bounded by a timeout, by a watchdog or by the abort signal; timers pass; post-processing of a package ends. A
  task that holds for a pause may hold as long as the pause lasts, unless it is aborted: the fairness of a
  task is conditional on `~paused \/ Aborted(i)`. That is stated as one weak fairness: while anything of it is due,
  something of it happens (`Progress`). It asks for less than a step of each task and each timer; a `start()` that
  waits goes on by itself (`StartContinues`). The user owes nothing, and neither do providers: each may fail every
  time.
* **Rounds**: a round begins, counts and ends. Strong fairness on the end of a task: it does not repeat its
  rounds for ever, since each repetition has unpacked something or was ordered by an item that is done, and a
  package has finitely many of both.
* **Storage**: file operations settle, continuations run, an import and the end of the program go on. A crash and
  a start are not owed.
* **Updates**: `execute` goes on, and an installation the user has begun ends; requests, users and restarts are not owed.
* **Outbox and monitor**: timers fire; saves and sends settle (a request is cut off after five seconds, and waits for a rate
  limit are bounded); time passes. There is **no** fairness on the service accepting anything.

* **Segmented download**: none stated. Its steps lead forward but for the pauses before a busy server is asked again,
  and `SomethingGoesOn` says of each state that a request, a file operation, a delay or a timer is under way.

All of it is weak fairness, but for the end of a post-processing task.

## Proofs

The seven `*_proofs` modules hold theorems of the form `Spec => …` for every value of the constants under the named
assumptions of the module (`Items` finite, `MaxParallel` positive and the like). TLC evaluates the
assumptions in every run. Of the properties that passing runs check, every invariant and the refinements of `SlotPool` by
the two limiters are proved, and every action property of the queue, the claims, the outbox and the monitor.

| Theorem | Statement | Argument |
|---|---|---|
| `ExtractionLimiter_proofs!Invariance` | `NoIdleSlot`, with the counter and the queue | inductive invariant `IInv`: types, the counter is the number of holders, the queue is exactly the waiting calls, each once, and no idle slot. A release keeps the counter right only because the queue holds no call twice; no slot idles only because the counter is right |
| `NeverOverLimit`, `ServedInOrder`, `NoAbortedStart` | the three action properties | each step from a state of `IInv`; `DrainRestores`, `DrainStep` and `DrainInOrder` say once what `drain()` does |
| `ImplementsPool` | `Spec => PoolSpec` | initial states map to initial states and each step to a `PoolStep` or a stutter, from `IInv` |
| `PostProcessRounds_proofs!NoSlotIsLost`, `NobodyIsOrphaned`, `NoOrderIsLost` | `SlotsNeverLeak`, `NoOrphan`, `OrderIsKept` | one invariant, `RoundsInv`. A release clamped at zero costs no slot because the counter never exceeds the holders, and it is raised only with a new holder; the `finally` clears only the record of its own task, so that a task that is not aborted stays on record; an order is answered by the task on record or by a round of it that has yet to count |
| `DownloadScheduler_proofs!TypeCorrect` | `TypeOK` | with `pendingStarts <= calls` (`Typed`), which bounds the pending starts |
| `NeverLeaderless`, `DisabledTasksAborted`, `ReconnectStopsAll`, `BooksInOrder` | `NotLeaderless`, `DisabledIsAborted`, `ReconnectAbortsAll`, `BooksOfRun` | `Safe`, their conjunction, is inductive with `Typed`. What the steps of a task, of the loop and of the timers have in common is summed up in `Tame`; only the steps of the run and of the user are treated one by one |
| `WithinParallelLimit` | `ParallelLimit` | only `Launch` adds a task (`NoNewTask` for all the rest), and it finds a free slot |
| `AbortsAreHonoured` | `AbortIsHonoured` | the steps that complete an item are listed (`CompletedByTask`, `CompletedByLoop`): none completes an aborted task in setup, transfer or check |
| `BooksAreTrue`, `FinishedRunsAreAccountedFor`, `OnlyOvertakenTasksLeaveDownloading` | `OutcomeIsStatus`, `FinishAccountsForAll`, `LeftDownloading` | `Accounted(i)` of every item: a task never works on a finished item, an idle item is not shown as being worked on unless a stopped task has left it "downloading", an item of the run without an outcome can still be launched, and an outcome on the books is the status. None of these holds without the others: `FinishRun` finds no eligible item, and only the third part turns that into outcomes for all |
| `DownloadHealth_proofs!AlwaysAwake` | `NeverAsleep` of the outbox, in the composition with the monitor | inductive as it stands: whatever ends a drain leaves a timer, each timer that fires starts a drain or a recovery, and the monitor's own steps touch none of it |
| `AcknowledgedStays` | `AcknowledgedIsKept` | `KeptInv`: while the program is up, everything in the file is in memory too, has been received or was given up, so that the next save, whatever it saves, loses nothing. `Known` says what the queue, the file and the drain are to each other; that of a queue over its limit the event in flight is kept is `LimitedKeeps` |
| `NewsOfAnEndFollow` | `RecoveryFollowsAlert` | `NewsInOrder` for the queue and the file, and the monitor remembers as delivered or announced only what the outbox has acknowledged |
| `NothingIsSentForNothing` | `AgainOnlyAfterTrouble` | `Room`: what has been received of an event, and the chances it still has (it is queued, it is in the file although it was sent), never exceed one, one for each fault and two for each end of the program |
| `CooldownsHold` | `CooldownHolds` | `Cooling`: as long as no record was lost, the alerts in the queue and in the file are in the order of their incidents, none is overtaken by one reported later, and a monitor that announces an alert has seen the cooldowns of all reported ones pass |
| `TargetPaths_proofs!TypeCorrect`, `ClaimsAreOrdered` | `TypeOK`, `ClaimsInOrder` | conjuncts of the inductive invariant `IInv`. `FreedOrdered` and `ClaimedOrdered` say once that giving up a claim, and claiming a path nobody else claims, keep the two maps each other's inverse and leave the other items' claims alone; `FoundIsFree`, that the search ends at such a path |
| `OneWriterAtATime` | `OneWriter` | `IInv` adds `Good(i)`: a task that has not been aborted works on an item shown as being worked on, and from the moment it has chosen its path holds the claim on it, unless a start has robbed it (`bare`). The first half is needed for the second: what is queued may be skipped, and what has failed queued again, and both give the claim up. Steps about one item only need `Good` of that item (`LocalKeeps`) |
| `RemovedItemsTakeTheirFiles`, `FinishedFilesAreKept` | `CancelTakesFile`, `FinishedFileIsKept` | `IInv` and `AllSteady`: a claim is always for the path the item remembers, a task has no path before it chooses one, and from the opening of its file on it writes where the item remembers, unless the item was reset; so the `catch` block, which deletes what the item remembers, deletes what the task wrote |
| `SegmentedDownload_proofs!SegmentsTyped` | `SegmentsTypeOK` | `Desk`, on top of all the invariants below: who waits for a proxy has not been told to end, and the coordinator knows exactly the downloads under way |
| `NoProxyIdles` | `NoIdleProxy` | `Core`. Each method of the coordinator takes a record of fields for which `Settles` holds (no two leases of one proxy, nobody waits twice, nobody waits who could be served, the timer is set for the first cooldown somebody waits for) to one for which it holds again; the loop of `drain()` ends because the queue gets shorter. `Fits` says what each stage of a worker means for the coordinator, `Stages` which workers a stage of a download has |
| `ReadbacksAreAPool` | `ReadbackIsAPool` | `ReadbackOK`: the counter is the number of holders, the queue is exactly the waiting segments, all of them wanted, and somebody waits only while every slot is taken (`LimiterOK`); a worker waits or holds exactly while it reads back (`PhaseFits`). Each step is a `ServeStep` of the pool or leaves it alone |
| `DownloadsGoOn` | `SomethingGoesOn` | `Core` and `ReadbackOK`: if all that is left are waiters, no proxy is in use, so either one could be had (against `Settles`), or one cools down and the timer is set for it; and if a segment waits for its readback, another one is reading |
| `FilesAreWhole` | `WholeUnlessStopped` | `Books`: a segment that was handed out is accepted or in the hands of exactly one worker (`InHand`, `Assigned`); a worker that is done has found none left, or was told to end, which happens only if another has failed or the download was stopped |
| `ProgressStaysExact` | `ProgressIsExact` | `Exact` on top of `Books`: a step adds, or takes away, as many writes as it reports. That they are not in the file already, or are in nobody else's, is `InHand` |

**What replaces induction.** The provers cannot use an induction theorem, so an argument about a loop or a sequence takes the
least number that would be an exception: `MinNat` in `Basics_proofs` derives it from the well-foundedness of the natural
numbers, which the library proves. That `drain()` ends, that the first element of a queue over its limit can be named, and
that a set of positions has a rank function (`Rank…`) are proved that way. Likewise the prover cannot look into `SelectSeq`
and `Remove`; the modules that filter a queue use `Only` of `Subsequences`, whose definition names the chosen positions. `Only…` and `OnlyOrder` in `Basics_proofs` say what it keeps.

**Assumptions.** Two are narrower than "a positive number". `MinSamplesAssumption` has the monitor wait for at least two
samples (the code waits for three, `MIN_SUSPICIOUS_SAMPLES`): with one, a standstill could be alerted by the sample that begins
it. `SegmentedAssumption` allows each download its own number of segments and limits of
at least two, as `normalizeProxyConnectionLimit` does, but no download without a segment: `downloadWithProxySegments` cuts none.

The proofs about the limiter, the queue and the claims cover properties no run checks any more, because the theorem says
more than the run did: `NoIdleSlot`, `GrantsRespectLimit`, `AbortedNeverStarts`, `FirstComeFirstServed`, `ParallelLimit`,
`DisabledIsAborted`, `ClaimsInOrder` and the `TypeOK` of the scheduler and of `TargetPaths`.

**Only model-checked**: liveness (`EveryWaiterAnswered`, `EveryOrderIsAnswered`, `EveryRunEnds`, `AbortedTaskEnds`, `SamplesEnd`,
`EverySaveSettles`, `JobEnds`, `QueueGoesOn`), which is out of the prover's reach; and the action properties of `SessionStorage`
and `RemoteUpdates`, which are provable and not proved yet. The findings are counterexamples and need no proof.

## Findings

Each is a run with `expect: violation` and an entry in `PROJECT.json`.

1. **A stop is lost** (`stop_is_lost`). `start()` sets `running` and awaits `recoverRetryableItems`
   (`download-manager.ts:7257`); a `stop()` during the await clears it; afterwards `start()` sets it again (7366)
   without looking. The counterexample is three steps: start, stop, the start continues. `mcp/tools.ts:163`: "Stop
   current downloads through the existing scheduler."
2. **A stopped download leaves an incomplete file that counts as complete** (`incomplete_file`). Between the probe and
   the start of the workers nothing looks at `options.signal` (`proxy-segmented-download.ts:1492-1523`). If it fires
   there, `while (!signal.aborted)` (1678) ends all workers at once and without an error, so that the file, which
   `truncate` has given its full size, passes the comparison of sizes (1721), is renamed to the target and reported as
   completed with none of its segments in it. A signal that fires after the last read of the readbacks under way does
   the same with the segments that are left. `download-manager.ts:12085-12094` records the full size, and a later start
   accepts the file by it. `CHANGELOG.md:257`: "Read every completed proxy segment back from disk and compare its SHA-256
   digest with the bytes received before accepting the segment."; `CHANGELOG.md:301`: "atomic completion".
3. **The reset of a failed item deletes another item's finished file** (`reset_deletes`). `resetItems`
   (`download-manager.ts:6881`; `resetPackage`, 6795) deletes what is at `item.targetPath`. An item that fails between
   the claim (11069) and the opening of its file keeps `targetPath`, while the end of its task releases the claim
   (10873). The next item of that name claims the path and completes there; the reset of the failed one deletes the
   file. `CHANGELOG.md:250`: "Reset failed downloads and extraction-error items without deleting successful or already
   extracted files." A restart of the failed item without a reset goes to the same path (11061–11068) and
   cuts the finished file down (11940).

More things the models show, without a run of their own:

* Entries nobody selected are downloaded: `startItems()` fills `runItemIds` and `runPackageIds`, but `findNextQueuedItem`
  (`download-manager.ts:10606`) filters by packages only. `mcp/tools.ts:166`: "Start the selected file entries."
* An older session replaces a newer one: `replayBlockedSaves` (`storage.ts:1935`) and `requeueDetachedAsyncSaves` (1886)
  give a save that the barrier had set aside the generation of the moment it goes back to the queue. A synchronous
  save made in between is newer and is overwritten (`GoesBack` of a save marked `again`). `CHANGELOG.md:365`
  says of the barrier "preventing older writes from overwriting sync saves, updates, or shutdown state."
* A start clears the claims of tasks that are still alive (7358–7359; `bare`): its recovery of items takes a while, in
  which another start's tasks claim paths, or a stopped task goes on to write. Two downloads may then share a path.
* A removed item whose task is waiting for its retry to be decided, or for disk space, is put on record for a retry that
  never comes: its claim is never released (10873) and its file not deleted.
* An abort reason is overwritten by the next: an item removed with its files keeps them if a stop comes before the
  task has unwound (11288), and a skipped one turns into "Gestoppt" (11320).
* A task that is reset while its file is being opened makes it all the same (12437–12453) and leaves it behind; in the
  preparation of its target or at a chunk it also shows the item, which is queued again, as downloading
  (11096, 12775).
* More packages unpack at a time than any limit ever set: `acquirePostProcessSlot` reads `maxConcurrent` before it waits
  (`download-manager.ts:9197`) and compares with that value afterwards (9205). When the limit was raised meanwhile and
  the new slot is taken, the woken task goes on without being counted. The archives inside the packages are still bounded
  one by one by the extraction limiter.
* An item can stay "downloading" without a task when a stop and a new start fall into the preparation of its
  target (`download-manager.ts:11096`); the exact conditions are `LeftDownloading`.
* After `stop()` has reset the slot counter, tasks that still unwind and new ones together may hold more slots than
  the limit; no slot is lost by it (`SlotsNeverLeak`).
* Switching off the only selected package empties `runPackageIds` (3548), and the scheduler reads an empty set as "no
  restriction" (10606): packages nobody selected are then downloaded. `mcp/tools.ts:165`: "Start the selected packages."
* A task of post-processing that was aborted takes the order meant for its successor (9275, 9306, 9325), and an order
  that goes to an aborted task still on record after a stop and a start (9237) does nothing: the completed package
  stays packed until the next start or trigger. `OrderIsKept` leaves both out (`Taken`, `LastItemDone`).
* `packageDiskRetryAfterByPackage` is written when an extraction is put off for want of disk space (14861) and never
  read: it is not retried, although `CHANGELOG.md:792-793` says so.
* Two equal blocks of an upload that are under way together are both appended to the count (`installer-uploads.ts:120`,
  where the await of the write comes between the check and the sum); the upload can then only be cancelled.
  `mcp/tools.ts:249` says "Exact retries are safe".
* An item is completed without a transfer (`SetupCompletes`). The loop over the attempts is
  `while (!done && item.attempts < maxAttempts)` (`download-manager.ts:11119`), and `item.attempts` outlives a stop, a
  reconnect, a switch and a restart: it is reset by an error and by a reset, not by an abort. With as many aborted attempts
  as the limit allows (two, if one retry is allowed) the next task skips the loop and falls through to 11253, where
  the item becomes "completed" and is booked as such. No property of the scheduler is violated, because the books agree
  with the item.

## Abstractions and gaps

* **DownloadScheduler.** Which eligible item comes first (priority, spreading over providers, pacing) is left
  open. The several retry counters of an item are one counter with a finite limit, which
  bounds the attempts too;
  a setting of unlimited retries is not modelled (with it a run need not end). Bytes, speeds, file names and
  target paths are left out. A round of post-processing looks at one file in one step, although the
  code awaits the size of the file in between; deferred post-processing counts as post-processing. The recovery
  that runs once when the program starts is not modelled apart from the one each `start()` makes. Exclusions
  (`excludePackageIds`), which only the daily start and the update flow pass, are not modelled, nor is
  cancellation; removal, reset and skipping of items are in `TargetPaths`. The program's own end is `PrepareForShutdown`; what the
  next one loads belongs to the storage.
* **TargetPaths.** One name and one folder for all items; the order of items, the parallel limit, times and the books
  of a run are left to `DownloadScheduler`, so that tasks may be launched in any number. A file has a writer and is whole
  or not. Left out: names from response headers (12266–12282), finalisation before the link is converted, a second
  attempt on a direct link, deletion after an answer 416, claims restored at the start of the program (8135–8300),
  transfers in segments (a transfer is one to the file itself), switches and reconnects, post-processing. A removed
  item's package has the other items in it.
* **PostProcessSlots, PostProcessRounds.** Automatic and hybrid extraction are on; extraction is one await with any
  outcome; changes of the package order are left out. The look of a round at a file is one step, so that the
  awaited `stat` of an incomplete file (14677) cannot race with a task launched for it. An extraction put off for disk
  space counts as one that left the package as it was.
* **NotificationOutbox, DownloadHealth.** The number of attempts and the length of the backoff are left out (an event
  waits or is due); an event is named by its time of creation, and no two share it. Saving under
  `runExclusive` is part of its operation. That an unreadable outbox file is overwritten is modelled and counted as
  giving up (`dropped`); an unreadable file of the monitor is not modelled. Notifications of packages and runs are
  put in by others and left out of the composition; alerts and recoveries are taken as switched on. The failed save
  of a sample without an event changes nothing. The cooldown is the incident delivered last until its time has passed.
* **SessionStorage.** The same scheme for settings (`storage.ts:1400-1566`), history and accounts is not modelled. The
  process may end at any point; the power may not (writes reach the disk in order). `clearAll`, the end of a run and
  the renames after metadata arrive (`download-manager.ts:4637`) save synchronously without asking
  `blockAllPersistence` or the barrier, so they can overwrite an imported session in the second and a half before the
  restart (`main.ts:1284`); a quit in the middle of a full import does the same. `ImportSurvives` names them as the
  only ones. A file that could not be read at one start is read or not at the next, the latter being another
  piece of damage. A session loaded from a backup lifts the protection against being overwritten by an empty one, so
  `GoesBack` asks for readable files. Callers answered because a barrier drops their save, because the program ends, or
  behind a synchronous save that failed are exempt in `ResolvedIsDurable` (`CHANGELOG.md:315` knows of the first).
* **InstallerUploads, RemoteUpdates.** One principal; file operations happen or fail at their await. Two `begin` requests
  side by side both create an upload, and `cancel` and a replacement drop whichever is current when they come back. A job
  whose first save fails has already replaced its predecessor in memory; `OncePerKey` therefore exempts a key after
  which another was accepted. The queue is parked once per job: a queue the user starts again before the launch
  is running at the launch, which `LaunchIsAuthorised` allows if the request did. A change of
  the remote control's settings is one step (`Configure`): the revision it raises first (`mcp/service.ts:237`) already
  voids every authorization, and disabling takes effect there (239); the new scopes come later (249), but the recheck of the
  scopes (`update-jobs.ts:131`) can then only fail where the revision's has. The bound on trouble is shared by
  everything that comes from outside.
* **ProxyCoordinator, SegmentedDownload.** Which of several proxies is taken (measured speed, cursor, exploration) is left
  open, as are the 1.5 seconds in which a second report is ignored, and the 5 seconds and the transfers after which a limit
  grows. Every download loads from an address of its own. Budgets of attempts are those of at most eight attempts. Pauses
  and throttling within a transfer, redirects, the pool of connections and a reserved proxy are left out, as is the time
  after which a busy server is given up (it may be any). Closing the temporary file is taken to succeed, and
  bytes are counted in writes.
* **Extraction and readback limiters.** Nothing is left out.
* Not modelled: see the inventory in `PROJECT.json`. Pure input and output (window, logging, web requests, external
  extractors, the Java worker) has no state these properties are about; the rest is in the plan.

## Plan

Done: the limiters and slots, `DownloadScheduler` and `SchedulerIntent`, `TargetPaths`, `PostProcessRounds` on the slots, `NotificationOutbox` with
`DownloadHealth`, `SessionStorage`, `InstallerUploads` with `RemoteUpdates`, `ProxyCoordinator` with `SegmentedDownload`;
the proofs above.

Left, in this order:

1. **The rest of the package operations**: `cancelPackage`, the skipping of related offline links; package results and
   history.
2. **Disk reservations** (`disk-space.ts:105-171`; a lease released during its update, 154).
3. **Daily start** (`daily-start-scheduler.ts:176-262`; a start pending at the end of the program, 219), with exclusions.
4. **Collector store** (`collector-store.ts:133-231`): backup, then primary, with revisions.
5. Statistics ledger, provider limits, download completion as functions against reference definitions.

Composition still to come: the storage under the scheduler (what a restart finds), the rounds beside the scheduler item by item.

Abstract specification worth stating: a `DownloadQueue` (items queued, worked on, finished; a run with its selection) that
`DownloadScheduler` implements.

Theorems worth proving next: `RecoversLastCommit`, `OnlySetAsideGoBack`, `ResolvedIsDurable` and `ImportSurvives` of the storage;
`OncePerKey`, `LaunchIsAuthorised` and `InstalledIsCompleted` of the updates.

## Working with the project

Each run is one line, for example `tlc -config DownloadScheduler.cfg MCDownloadScheduler`; `PROJECT.json` lists module and
configuration of each, the definition-to-source map, and for every property a wrong version of one
definition that violates it. `tlapm DownloadScheduler_proofs.tla` checks a proof module;
`SegmentedDownload_proofs` takes about ten minutes, of which the prover spends half preparing it, the others one to four.
The runs need between a second and three minutes each.

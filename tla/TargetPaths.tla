---------------------------- MODULE TargetPaths ----------------------------
(***************************************************************************)
(* The files of the download queue (src/main/download-manager.ts): which   *)
(* path an item downloads to, the claims that keep two items from one path *)
(* (reservedTargetPaths and claimedTargetPathByItem), and the operations   *)
(* of the user that take an item away from its task: stop, reset, remove   *)
(* and skip.                                                               *)
(*                                                                         *)
(* All items have the same file name and folder, the case the claims are   *)
(* for.  An item remembers its path (item.targetPath) longer than it holds *)
(* the claim on it; an abort is looked at after some of a task's awaits    *)
(* and not after others.                                                   *)
(*                                                                         *)
(* Abstracted: the order of the items, the parallel limit and the times    *)
(* (DownloadScheduler has them), packages, retry counters, the number of   *)
(* bytes (a file is complete or not), names taken from response headers,   *)
(* attempts on a direct link (the last one counts).                        *)
(***************************************************************************)
EXTENDS Integers, FiniteSets

CONSTANTS
  Items,          \* the links, all with one file name
  Paths,          \* the paths that name leads to: 0 is the name, n is "name (n)"
  None,           \* no path, no item
  MaxCalls,       \* bound: calls of the user
  MaxTrouble      \* bound: failures met by tasks

ASSUME ItemsAssumption == IsFiniteSet(Items) /\ None \notin Items
ASSUME PathsAssumption == Paths \subseteq Nat /\ 0 \in Paths /\ None \notin Paths
ASSUME BoundsAssumption == MaxCalls \in Nat /\ MaxTrouble \in Nat

VARIABLES
  running,        \* session.running
  pendingStarts,  \* calls of start() that wait for recoverRetryableItems
  loop,           \* a scheduler loop is alive
  item,           \* what the session keeps of an item
  task,           \* where its processItem waits, and with what in its hands
  claims,         \* claimedTargetPathByItem and reservedTargetPaths
  retryAfter,     \* the keys of retryAfterByItem
  disk,           \* a path: who has written the file there, and is it whole
  bare,           \* the items whose claims a start has cleared below their tasks
  calls,          \* calls the user has made
  trouble         \* failures met

queue == <<running, pendingStarts, loop>>
vars == <<queue, item, task, claims, retryAfter, disk, bare, calls, trouble>>

Statuses == {"queued", "working", "completed", "failed", "stopped", "skipped",
             "removed"}
Finished == {"completed", "failed", "stopped", "skipped", "removed"}
Phases == {"none", "convert", "folder", "look", "claim", "reserve", "open", "fetch",
           "create", "transfer", "check", "recovery"}

NoFile == [by |-> None, whole |-> FALSE]
NoTask == [phase |-> "none", reason |-> "none", path |-> None, reuse |-> FALSE,
           saw |-> FALSE]
NoClaims == [of |-> [i \in Items |-> None], by |-> [p \in Paths |-> None]]

Live == {i \in Items : task[i].phase # "none"}
Aborted(i) == task[i].reason # "none"
Gone(i) == item[i].status = "removed"
Exists(p) == p # None /\ disk[p].by # None

\* item.status is of no interest once the session has forgotten the item.
Showing(i, s) == IF Gone(i) THEN "removed" ELSE s

\* fs.rmSync(path, { force: true })
Deleted(p) == IF p = None THEN disk ELSE [disk EXCEPT ![p] = NoFile]

Init ==
  /\ running = FALSE /\ pendingStarts = 0 /\ loop = FALSE
  /\ item = [i \in Items |-> [status |-> "queued", target |-> None,
                              begun |-> FALSE, known |-> FALSE]]
  /\ task = [i \in Items |-> NoTask]
  /\ claims = NoClaims
  /\ retryAfter = {} /\ bare = {}
  /\ disk = [p \in Paths |-> NoFile]
  /\ calls = 0 /\ trouble = 0

-----------------------------------------------------------------------------
(* The claims. *)

Without(held, i) ==
  LET p == held.of[i]
  IN  [of |-> [held.of EXCEPT ![i] = None],
       by |-> IF p # None /\ held.by[p] = i
              THEN [held.by EXCEPT ![p] = None] ELSE held.by]

\* releaseTargetPath
Released(i) == Without(claims, i)

Claimed_OldKept(i, p) ==
  [of |-> [claims.of EXCEPT ![i] = p], by |-> [claims.by EXCEPT ![p] = i]]

Claimed(i, p) ==
  LET free == Released(i)
  IN  [of |-> [free.of EXCEPT ![i] = p], by |-> [free.by EXCEPT ![p] = i]]

Candidate_DiskNotAsked(i, p, preferred, reuse) ==
  /\ p = preferred \/ p # 0
  /\ Released(i).by[p] = None

\* A path of the search: the preferred one, which may be there already if the
\* item brings it along, or one that is neither claimed nor on disk.
Candidate(i, p, preferred, reuse) ==
  /\ p = preferred \/ p # 0
  /\ Released(i).by[p] = None
  /\ ~Exists(p) \/ (reuse /\ p = preferred)

\* claimTargetPath: the preferred path, or else the first free one.
Found(i, preferred, reuse) ==
  IF Candidate(i, preferred, preferred, reuse) THEN {preferred}
  ELSE LET free == {p \in Paths : Candidate(i, p, preferred, reuse)}
       IN  {p \in free : \A q \in free : p <= q}

\* The end of claimTargetPathAsync: processItem remembers the path and asks for room.
HasPath(i, p) ==
  /\ claims' = Claimed(i, p)
  /\ item' = [item EXCEPT ![i].target = p, ![i].known = TRUE]
  /\ task' = [task EXCEPT ![i] = [@ EXCEPT !.phase = "reserve", !.path = p,
                                           !.reuse = FALSE, !.saw = FALSE]]

-----------------------------------------------------------------------------
(* How a task ends. *)

\* The "finally" of startItem: the claim is kept for a retry.
Ends(i, after, keys) ==
  /\ retryAfter' = keys
  /\ claims' = IF i \in keys THEN after ELSE Without(after, i)
  /\ task' = [task EXCEPT ![i] = NoTask]
  /\ bare' = bare \ {i}

\* queueRetry: the item waits for another try, whatever has become of it meanwhile.
Requeues(i, after) == Ends(i, after, retryAfter \union {i})

Unwinds_ClaimOnly(i) ==
  /\ Aborted(i)
  /\ Ends(i, claims, retryAfter)
  /\ disk' = IF Gone(i) /\ task[i].reason = "cancel"
             THEN Deleted(claims.of[i]) ELSE disk
  /\ item' = IF task[i].reason = "stop" /\ ~running
             THEN [item EXCEPT ![i].status = Showing(i, "stopped")] ELSE item
  /\ UNCHANGED <<queue, calls, trouble>>

\* The catch block for an aborted task.  A removed item takes its file along only
\* if the last abort was the removal; an item that was reset is left as it is.
Unwinds(i) ==
  /\ Aborted(i)
  /\ Ends(i, claims, retryAfter)
  /\ disk' = IF Gone(i) /\ task[i].reason = "cancel"
             THEN Deleted(IF claims.of[i] # None THEN claims.of[i] ELSE item[i].target)
             ELSE disk
  /\ item' = IF task[i].reason = "stop" /\ ~running
             THEN [item EXCEPT ![i].status = Showing(i, "stopped")] ELSE item
  /\ UNCHANGED <<queue, calls, trouble>>

\* The awaits after which a task looks at its signal.
Unwind(i) == task[i].phase \in {"convert", "fetch", "transfer", "check"} /\ Unwinds(i)

-----------------------------------------------------------------------------
(* A task of an item. *)

At(i, phase) == task[i].phase = phase
Goes(i, phase) == task' = [task EXCEPT ![i].phase = phase]

\* startItem
Launch(i) ==
  /\ running /\ loop
  /\ item[i].status = "queued" /\ i \notin Live
  /\ item' = [item EXCEPT ![i].status = "working"]
  /\ Goes(i, "convert")
  /\ retryAfter' = retryAfter \ {i}
  /\ UNCHANGED <<queue, claims, disk, bare, calls, trouble>>

\* The link is converted; the folder is made next.
Converted(i) ==
  /\ At(i, "convert") /\ ~Aborted(i)
  /\ Goes(i, "folder")
  /\ UNCHANGED <<queue, item, claims, retryAfter, disk, bare, calls, trouble>>

\* existingTargetPath is read, then the disk is asked for it.
FolderMade(i) ==
  /\ At(i, "folder")
  /\ task' = [task EXCEPT ![i].phase = "look", ![i].path = item[i].target]
  /\ UNCHANGED <<queue, item, claims, retryAfter, disk, bare, calls, trouble>>

\* canReuseExistingTarget and the first half of claimTargetPathAsync: the item's own
\* claim, a path claimed by another, or a look at the disk.
Looked(i) ==
  LET mine == task[i].path
      reuse == mine # None /\ (item[i].begun \/ Exists(mine))
      preferred == IF reuse THEN mine ELSE 0
  IN  /\ At(i, "look")
      /\ \/ /\ claims.of[i] = preferred /\ claims.by[preferred] = i
            /\ HasPath(i, preferred)
         \/ /\ claims.by[preferred] \notin {None, i}
            /\ \E p \in Found(i, preferred, reuse) : HasPath(i, p)
         \/ /\ \/ claims.by[preferred] = None
               \/ claims.by[preferred] = i /\ claims.of[i] # preferred
            /\ task' = [task EXCEPT ![i] =
                 [@ EXCEPT !.phase = "claim", !.path = preferred, !.reuse = reuse,
                           !.saw = Exists(preferred)]]
            /\ UNCHANGED <<item, claims>>
      /\ UNCHANGED <<queue, retryAfter, disk, bare, calls, trouble>>

Claims_OwnerNotAskedAgain(i) ==
  LET preferred == task[i].path
      reuse == task[i].reuse
  IN  /\ At(i, "claim")
      /\ \E there \in {task[i].saw, Exists(preferred)} :
           IF ~there \/ reuse
           THEN HasPath(i, preferred)
           ELSE \E p \in Found(i, preferred, reuse) : HasPath(i, p)
      /\ UNCHANGED <<queue, retryAfter, disk, bare, calls, trouble>>

\* The second half, after the look at the disk, which tells what was there at some
\* moment of the await.
Claims(i) ==
  LET preferred == task[i].path
      reuse == task[i].reuse
  IN  /\ At(i, "claim")
      /\ \E there \in {task[i].saw, Exists(preferred)} :
           IF claims.by[preferred] \in {None, i} /\ (~there \/ reuse)
           THEN HasPath(i, preferred)
           ELSE \E p \in Found(i, preferred, reuse) : HasPath(i, p)
      /\ UNCHANGED <<queue, retryAfter, disk, bare, calls, trouble>>

\* There is room.  The item shows as downloading whatever has happened to it, and the
\* transfer goes to the path it remembers now.
Reserved(i) ==
  /\ At(i, "reserve")
  /\ item' = [item EXCEPT ![i].status = Showing(i, "working")]
  /\ task' = [task EXCEPT ![i].phase = "open", ![i].path = item[i].target]
  /\ UNCHANGED <<queue, claims, retryAfter, disk, bare, calls, trouble>>

\* A DiskCapacityError
DiskFull(i) ==
  /\ At(i, "reserve") /\ trouble < MaxTrouble
  /\ trouble' = trouble + 1
  /\ item' = [item EXCEPT ![i].status = Showing(i, "queued")]
  /\ Requeues(i, Released(i))
  /\ UNCHANGED <<queue, disk, calls>>

\* downloadToFile: a file with more bytes than the item knows of is cut down to them.
Inspected(i) ==
  LET p == task[i].path
  IN  /\ At(i, "open")
      /\ disk' = IF Exists(p) /\ disk[p].by # i
                 THEN [disk EXCEPT ![p].whole = FALSE] ELSE disk
      /\ Goes(i, "fetch")
      /\ UNCHANGED <<queue, item, claims, retryAfter, bare, calls, trouble>>

\* The server answers.
Fetched(i) ==
  /\ At(i, "fetch") /\ ~Aborted(i) /\ task[i].path # None
  /\ Goes(i, "create")
  /\ UNCHANGED <<queue, item, claims, retryAfter, disk, bare, calls, trouble>>

\* The file is opened, and nobody looks at the signal before.
Created(i) ==
  /\ At(i, "create")
  /\ disk' = [disk EXCEPT ![task[i].path] = [by |-> i, whole |-> FALSE]]
  /\ Goes(i, "transfer")
  /\ UNCHANGED <<queue, item, claims, retryAfter, bare, calls, trouble>>

\* A chunk is on disk.  The one under way when the task is aborted counts as well.
ChunkWritten(i) ==
  /\ At(i, "transfer") /\ ~(item[i].begun /\ item[i].status \in {"working", "removed"})
  /\ item' = [item EXCEPT ![i].begun = TRUE, ![i].status = Showing(i, "working")]
  /\ UNCHANGED <<queue, task, claims, retryAfter, disk, bare, calls, trouble>>

\* The last one is; a file that has been deleted below the stream stays deleted.
TransferDone(i) ==
  /\ At(i, "transfer") /\ ~Aborted(i) /\ item[i].begun
  /\ disk' = IF disk[task[i].path].by = i
             THEN [disk EXCEPT ![task[i].path].whole = TRUE] ELSE disk
  /\ Goes(i, "check")
  /\ UNCHANGED <<queue, item, claims, retryAfter, bare, calls, trouble>>

\* The file passes its checks.
CheckPasses(i) ==
  /\ At(i, "check") /\ ~Aborted(i)
  /\ item' = [item EXCEPT ![i].status = Showing(i, "completed")]
  /\ Ends(i, claims, retryAfter)
  /\ UNCHANGED <<queue, disk, calls, trouble>>

\* The digest is wrong: the file is deleted and downloaded once more.
DigestFails(i) ==
  /\ At(i, "check") /\ ~Aborted(i) /\ trouble < MaxTrouble
  /\ trouble' = trouble + 1
  /\ disk' = Deleted(item[i].target)
  /\ item' = [item EXCEPT ![i].begun = FALSE]
  /\ task' = [task EXCEPT ![i].phase = "open", ![i].path = item[i].target]
  /\ UNCHANGED <<queue, claims, retryAfter, bare, calls>>

\* The file is too small for what it should be: it is deleted, and that is an error.
TooSmall(i) ==
  /\ At(i, "check") /\ ~Aborted(i) /\ trouble < MaxTrouble
  /\ trouble' = trouble + 1
  /\ disk' = Deleted(item[i].target)
  /\ claims' = Released(i)
  /\ item' = [item EXCEPT ![i].begun = FALSE]
  /\ Goes(i, "recovery")
  /\ UNCHANGED <<queue, retryAfter, bare, calls>>

\* Anything else goes wrong, a stall included.
Fails(i) ==
  /\ task[i].phase \in {"convert", "fetch", "transfer"} /\ ~Aborted(i) /\ ~Gone(i)
  /\ trouble < MaxTrouble
  /\ trouble' = trouble + 1
  /\ Goes(i, "recovery")
  /\ UNCHANGED <<queue, item, claims, retryAfter, disk, bare, calls>>

-----------------------------------------------------------------------------
(* What processItem makes of an error, after it has looked at the disk. *)

\* tryFinalizeItemFromDiskAsync: a whole file is where the item's should be.
RecoveryFinalizes(i) ==
  LET p == IF item[i].target = None THEN 0 ELSE item[i].target
  IN  /\ At(i, "recovery") /\ item[i].status = "working" /\ item[i].known
      /\ disk[p].whole
      /\ item' = [item EXCEPT ![i].status = "completed", ![i].begun = TRUE]
      /\ Ends(i, claims, retryAfter)
      /\ UNCHANGED <<queue, disk, calls, trouble>>

\* Another try that goes on with the file there is.
RetryResumes(i) ==
  /\ At(i, "recovery")
  /\ item' = [item EXCEPT ![i].status = Showing(i, "queued")]
  /\ Requeues(i, claims)
  /\ UNCHANGED <<queue, disk, calls, trouble>>

\* Another try from the beginning: the file is deleted and the claim given up, but
\* the item still remembers the path.
RetryAnew(i) ==
  /\ At(i, "recovery") /\ item[i].begun
  /\ disk' = Deleted(claims.of[i])
  /\ item' = [item EXCEPT ![i] = [@ EXCEPT !.status = Showing(i, "queued"),
                                           !.begun = FALSE, !.known = FALSE]]
  /\ Requeues(i, Released(i))
  /\ UNCHANGED <<queue, calls, trouble>>

\* The item has failed for good.
GivesUp(i) ==
  /\ At(i, "recovery")
  /\ item' = [item EXCEPT ![i].status = Showing(i, "failed")]
  /\ Ends(i, claims, retryAfter)
  /\ UNCHANGED <<queue, disk, calls, trouble>>

-----------------------------------------------------------------------------
(* The queue starts and stops. *)

Call == calls < MaxCalls /\ calls' = calls + 1

\* start(), up to the recovery of items
Start ==
  /\ Call /\ ~running
  /\ running' = TRUE
  /\ pendingStarts' = pendingStarts + 1
  /\ UNCHANGED <<loop, item, task, claims, retryAfter, disk, bare, trouble>>

\* recoverRetryableItems: a failed item goes back into the queue, some (HTTP 416, an
\* empty archive) without what is at their path.
StartRequeues(i) ==
  /\ pendingStarts > 0 /\ item[i].status = "failed" /\ i \notin Live
  /\ \/ /\ item' = [item EXCEPT ![i].status = "queued"]
        /\ UNCHANGED <<claims, disk>>
     \/ /\ item[i].target # None
        /\ item' = [item EXCEPT ![i] = [@ EXCEPT !.status = "queued", !.begun = FALSE,
                                                 !.known = FALSE]]
        /\ claims' = Released(i)
        /\ disk' = Deleted(item[i].target)
  /\ UNCHANGED <<queue, task, retryAfter, bare, calls, trouble>>

\* Stopped items of is go back into the queue.
Recovered(is) ==
  [i \in Items |-> IF i \in is /\ item[i].status = "stopped"
                   THEN [item[i] EXCEPT !.status = "queued"] ELSE item[i]]

\* Every claim goes, those of tasks included.
AllForgotten ==
  /\ retryAfter' = {}
  /\ claims' = NoClaims
  /\ bare' = bare \union {i \in Live : claims.of[i] # None}

\* The rest of start(): there is something to download, or nothing at all, or only
\* completed items that are being unpacked.
StartContinues ==
  /\ pendingStarts > 0
  /\ pendingStarts' = pendingStarts - 1
  /\ item' = Recovered(Items)
  /\ \/ /\ \E i \in Items : item'[i].status = "queued"
        /\ running' = TRUE /\ loop' = TRUE
        /\ AllForgotten
     \/ /\ \A i \in Items : item'[i].status # "queued"
        /\ running' = FALSE /\ UNCHANGED loop
        /\ AllForgotten
     \/ /\ \A i \in Items : item'[i].status # "queued"
        /\ \E i \in Items : item[i].status = "completed"
        /\ running' = TRUE /\ loop' = TRUE
        /\ UNCHANGED <<claims, retryAfter, bare>>
  /\ UNCHANGED <<task, disk, calls, trouble>>

\* startPackages and startItems
StartSelected(is) ==
  /\ Call
  /\ item' = Recovered(is)
  /\ IF ~running /\ \E i \in is : item'[i].status = "queued"
     THEN running' = TRUE /\ loop' = TRUE /\ AllForgotten
     ELSE UNCHANGED <<running, loop, claims, retryAfter, bare>>
  /\ UNCHANGED <<pendingStarts, task, disk, trouble>>

\* stop(): the claims stay until the tasks are gone.
Stop ==
  /\ Call
  /\ running' = FALSE
  /\ task' = [i \in Items |-> IF i \in Live THEN [task[i] EXCEPT !.reason = "stop"]
                              ELSE task[i]]
  /\ item' = [i \in Items |-> IF item[i].status \in Finished THEN item[i]
                              ELSE [item[i] EXCEPT !.status = "queued"]]
  /\ retryAfter' = {}
  /\ UNCHANGED <<pendingStarts, loop, claims, disk, bare, trouble>>

\* The loop notices that the queue does not run; it is replaced if it runs again.
LoopEnds ==
  /\ loop /\ ~running
  /\ loop' = FALSE
  /\ UNCHANGED <<running, pendingStarts, item, task, claims, retryAfter, disk, bare,
                 calls, trouble>>

\* finishRun
FinishRun ==
  /\ loop /\ running /\ Live = {}
  /\ \A i \in Items : item[i].status # "queued"
  /\ running' = FALSE /\ loop' = FALSE
  /\ retryAfter' = {} /\ claims' = NoClaims
  /\ UNCHANGED <<pendingStarts, item, task, disk, bare, calls, trouble>>

-----------------------------------------------------------------------------
(* The user takes items away from their tasks. *)

\* active.abortController.abort, where there is a task
AbortedFor(i, reason) ==
  IF i \in Live THEN [task EXCEPT ![i].reason = reason] ELSE task

\* resetItems and resetPackage, for one item
Reset(i) ==
  /\ Call /\ ~Gone(i)
  /\ task' = AbortedFor(i, "reset")
  /\ disk' = Deleted(item[i].target)
  /\ claims' = IF item[i].target = None THEN claims ELSE Released(i)
  /\ item' = [item EXCEPT ![i] = [status |-> "queued", target |-> None,
                                  begun |-> FALSE, known |-> FALSE]]
  /\ retryAfter' = retryAfter \ {i}
  /\ UNCHANGED <<queue, bare, trouble>>

\* removeItem: the claim of a task stays with it, but for the last item of the package.
Remove(i, preserveFiles) ==
  /\ Call /\ ~Gone(i)
  /\ task' = AbortedFor(i, IF preserveFiles THEN "stop" ELSE "cancel")
  /\ item' = [item EXCEPT ![i].status = "removed"]
  /\ claims' = IF i \in Live /\ \E j \in Items \ {i} : ~Gone(j)
               THEN claims ELSE Released(i)
  /\ retryAfter' = retryAfter \ {i}
  /\ UNCHANGED <<queue, disk, bare, trouble>>

\* skipItems
Skip(i) ==
  /\ Call /\ item[i].status = "queued"
  /\ item' = [item EXCEPT ![i].status = "skipped"]
  /\ claims' = Released(i)
  /\ retryAfter' = retryAfter \ {i}
  /\ UNCHANGED <<queue, task, disk, bare, trouble>>

-----------------------------------------------------------------------------
TaskSteps(i) ==
  \/ Launch(i) \/ Converted(i) \/ FolderMade(i) \/ Looked(i) \/ Claims(i)
  \/ Reserved(i) \/ DiskFull(i) \/ Inspected(i) \/ Fetched(i) \/ Created(i)
  \/ ChunkWritten(i) \/ TransferDone(i) \/ CheckPasses(i) \/ DigestFails(i) \/ TooSmall(i) \/ Fails(i)
  \/ RecoveryFinalizes(i) \/ RetryResumes(i) \/ RetryAnew(i) \/ GivesUp(i)
  \/ Unwind(i)

Next ==
  \/ \E i \in Items :
       \/ TaskSteps(i) \/ StartRequeues(i) \/ Reset(i) \/ Skip(i)
       \/ \E preserveFiles \in BOOLEAN : Remove(i, preserveFiles)
  \/ \E is \in SUBSET Items \ {{}} : StartSelected(is)
  \/ Start \/ StartContinues \/ Stop \/ LoopEnds \/ FinishRun

Spec == Init /\ [][Next]_vars

-----------------------------------------------------------------------------
ItemStates ==
  [status : Statuses, target : Paths \union {None}, begun : BOOLEAN, known : BOOLEAN]
TaskStates ==
  [phase : Phases, reason : {"none", "stop", "reset", "cancel"},
   path : Paths \union {None}, reuse : BOOLEAN, saw : BOOLEAN]

TypeOK ==
  /\ running \in BOOLEAN /\ pendingStarts \in Nat /\ loop \in BOOLEAN
  /\ item \in [Items -> ItemStates] /\ task \in [Items -> TaskStates]
  /\ \A i \in Items : task[i].phase = "claim" => task[i].path # None
  /\ claims \in [of : [Items -> Paths \union {None}], by : [Paths -> Items \union {None}]]
  /\ retryAfter \subseteq Items /\ bare \subseteq Items
  /\ disk \in [Paths -> [by : Items \union {None}, whole : BOOLEAN]]
  /\ calls \in Nat /\ trouble \in Nat

(* The claims of items and the owners of paths are each other's inverse: nothing is
   claimed twice, and no owner is left behind that nobody can release. *)
ClaimsInOrder ==
  \A i \in Items, p \in Paths : claims.of[i] = p <=> claims.by[p] = i

Writing(i) == task[i].phase \in {"open", "fetch", "create", "transfer", "check"}
              /\ ~Aborted(i)

(* Two downloads never write to one path, whatever was stopped, reset or failed
   while they looked for their paths, unless a start that came back from its recovery
   has cleared the claim of one below it. *)
OneWriter ==
  \A i, j \in Items :
    i # j /\ Writing(i) /\ Writing(j) /\ task[i].path = task[j].path
      => bare \intersect {i, j} # {}

(* An item that is removed with its files leaves neither the file it remembers nor the
   one its task has written behind when the task is gone, unless the task ended in a
   failure of its own, or the item had been reset. *)
CancelTakesFile ==
  [][\A i \in Items :
       /\ Gone(i) /\ task[i].reason = "cancel" /\ i \notin Live'
       /\ task[i].phase \notin {"reserve", "recovery"}
       /\ item[i].target # None
       => \A p \in {item[i].target, task[i].path} \ {None} : disk'[p].by # i]_vars

\* The path is one the item had before.
BroughtAlong(i, p) ==
  \/ p = item[i].target
  \/ At(i, "look") /\ p = task[i].path
  \/ At(i, "claim") /\ task[i].reuse

(* The path of a completed item's file is claimed by another item only if that item
   brings the path along from before, or has looked at the disk before the file came. *)
FinishedFileIsKept ==
  [][\A i, j \in Items :
       LET p == item[j].target
       IN  /\ i # j /\ item[j].status = "completed" /\ Exists(p)
           /\ claims.of[i] # p /\ claims'.of[i] = p
           => BroughtAlong(i, p) \/ (At(i, "claim") /\ ~task[i].saw)]_vars

(* Resetting failed items does not delete successful files. *)
ResetSparesOthers ==
  [][\A i \in Items : item[i].status = "failed" /\ Reset(i) =>
       \A j \in Items \ {i} :
         item[j].status = "completed" /\ Exists(item[j].target)
           => disk'[item[j].target] = disk[item[j].target]]_vars
=============================================================================

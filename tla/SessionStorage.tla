--------------------------- MODULE SessionStorage ---------------------------
(***************************************************************************)
(* How the session of the queue reaches the disk and comes back            *)
(* (src/main/storage.ts, with its callers in download-manager.ts and       *)
(* app-controller.ts).                                                     *)
(*                                                                         *)
(* Two ways lead to the session file.  saveSession writes it in one        *)
(* synchronous step; saveSessionAsync queues a payload for one drain,      *)
(* which writes, copies the old file and renames twice, with other code    *)
(* running between any two of these.  A generation counter tells an        *)
(* asynchronous save that a synchronous one has overtaken it, and the      *)
(* sources of renames that are under way are unlinked under it.  A save    *)
(* here carries the answer of that comparison (passed) and not the number. *)
(* Imports and the end of the program put a barrier up, which sets the     *)
(* saves aside that come meanwhile; again marks those it has given back.   *)
(*                                                                         *)
(* A step is the code between two awaits; the rename itself happens in     *)
(* another thread, any time before the await on it returns.  A session is  *)
(* a number, later ones are larger, 0 is the empty session.                *)
(***************************************************************************)
EXTENDS Integers, FiniteSets

CONSTANTS
  MaxSession,     \* bound: sessions that differ
  MaxFaults,      \* bound: writes, copies and renames that fail
  MaxStarts,      \* bound: starts of the program after the first
  MaxImports,     \* bound: imports
  MaxDamage,      \* bound: files that cannot be read at a start
  ImportKinds     \* the imports that happen, out of "full" and "settings"

ASSUME BoundsAssumption ==
  /\ MaxSession \in Nat /\ MaxFaults \in Nat /\ MaxStarts \in Nat /\ MaxImports \in Nat
  /\ MaxDamage \in Nat
  /\ ImportKinds \subseteq {"full", "settings"}

VARIABLES
  up,             \* the program runs
  file,           \* the session file, its backup and the two temporary files
  queued,         \* asyncSaveQueued
  active,         \* the save writeSessionPayload is busy with
  barrier,        \* activePersistenceBarrier: who holds it, "none" for nobody
  detached,       \* the save acquirePersistenceBarrier took out of the queue
  blocked,        \* blockedSession
  spoilt,         \* a write has failed that the barrier waits for
  at,             \* where the import and the end of the program are with it
  ended,          \* the end of the program has made its last save
  import,         \* the import: its kind, the session it saves, the files before
  live,           \* the session in memory
  shielded,       \* protectAgainstEmptyClobber
  muted,          \* blockAllPersistence and skipShutdownPersist
  clock,          \* the last session there was
  answer,         \* what the caller of saveSessionAsync knows
  former,         \* what the session file held before its last change
  copied,         \* no copy of the session file has gone wrong since
  faults, starts, damage, imports

saves == <<queued, active, detached, blocked, answer>>
barriers == <<barrier, spoilt, at, ended, import>>
session == <<live, shielded, muted, clock>>
history == <<former, copied>>
bounds == <<faults, starts, damage, imports>>
vars == <<up, file, saves, barriers, session, history, bounds>>

NoFile == -2
Torn == -1
NoSave == [v |-> NoFile, waiters |-> {}, passed |-> FALSE, again |-> FALSE]
Sessions == 0..MaxSession
Owners == {"import", "shutdown"}
NoFiles == [primary |-> NoFile, backup |-> NoFile, asyncTmp |-> NoFile, syncTmp |-> NoFile]
NoImport == [kind |-> "none", v |-> NoFile, files |-> NoFiles, former |-> NoFile, copied |-> TRUE]

Init ==
  /\ up = TRUE
  /\ file = NoFiles
  /\ queued = NoSave /\ active = NoSave /\ detached = NoSave /\ blocked = NoSave
  /\ barrier = "none" /\ spoilt = FALSE
  /\ at = [o \in Owners |-> "idle"] /\ ended = FALSE
  /\ import = NoImport
  /\ live = 0 /\ shielded = FALSE /\ muted = FALSE /\ clock = 0
  /\ answer = [v \in Sessions |-> "none"]
  /\ former = NoFile /\ copied = TRUE
  /\ faults = 0 /\ starts = 0 /\ damage = 0 /\ imports = 0

\* What the callers learn: "saved" is a promise kept, "none" everything else they may
\* be told.
Told(waiters, what) == [v \in Sessions |-> IF v \in waiters THEN what ELSE answer[v]]
Fault == faults < MaxFaults /\ faults' = faults + 1

\* A new content of the session file; former remembers the one it replaces.
Replaces(v) == former' = IF v = file.primary THEN former ELSE file.primary

-----------------------------------------------------------------------------
(* The drain. *)

\* startSessionSaveDrain takes up a save: the temporary file is opened and emptied.
Writing(s) == [v |-> s.v, waiters |-> s.waiters, passed |-> s.passed, again |-> s.again,
               pc |-> "write", copy |-> NoFile, source |-> "there"]

\* The drain after a save: on to the one that is queued, or to its end.
Onwards(f) ==
  IF queued = NoSave
  THEN /\ active' = NoSave
       /\ file' = f
       /\ UNCHANGED queued
  ELSE /\ active' = Writing(queued)
       /\ queued' = NoSave
       /\ file' = [f EXCEPT !.asyncTmp = Torn]

\* A save, or waiters of it, for the queue; the drain starts on it at once when idle.
Enqueued(s) ==
  IF active = NoSave
  THEN /\ active' = Writing(s)
       /\ queued' = NoSave
       /\ file' = [file EXCEPT !.asyncTmp = Torn]
  ELSE /\ queued' = s
       /\ UNCHANGED <<active, file>>

\* generation < syncSaveGeneration: the save gives way, and its callers are told it
\* is done.
Overtaken == active.passed

Resolve(f) ==
  /\ answer' = [v \in Sessions |-> IF v \notin active.waiters THEN answer[v]
                                   ELSE IF answer[v] = "void" THEN "none" ELSE "saved"]
  /\ Onwards(f)

\* writeSessionPayload throws: the save that waits behind is dropped as well.
Reject(f) ==
  /\ answer' = Told(active.waiters \union queued.waiters, "none")
  /\ active' = NoSave
  /\ queued' = NoSave
  /\ file' = f
  /\ spoilt' = (barrier # "none")

Step(pc) == up /\ active # NoSave /\ active.pc = pc
Rest == UNCHANGED <<up, detached, blocked, barrier, at, ended, import, session, starts, damage, imports>>

Written ==
  /\ Step("write")
  /\ LET f == [file EXCEPT !.asyncTmp = active.v]
     IN  IF Overtaken
         THEN Resolve([f EXCEPT !.asyncTmp = NoFile])
         ELSE /\ active' = [active EXCEPT !.pc = "copy"]
              /\ file' = f
              /\ UNCHANGED <<queued, answer>>
  /\ UNCHANGED <<spoilt, former, copied, faults>> /\ Rest

WriteFails ==
  /\ Step("write") /\ Fault
  /\ Reject(file)
  /\ UNCHANGED <<former, copied>> /\ Rest

\* The copy of the session file is done, or there is none to copy, or it fails.
Copied ==
  /\ Step("copy")
  /\ \/ UNCHANGED faults
     \/ file.primary # NoFile /\ Fault
  /\ LET ready == file.primary # NoFile /\ faults' = faults
     IN  /\ IF Overtaken
            THEN Resolve([file EXCEPT !.asyncTmp = NoFile])
            ELSE /\ active' = [active EXCEPT !.pc = IF ready THEN "backup" ELSE "commit",
                                             !.copy = file.primary]
                 /\ UNCHANGED <<file, queued, answer>>
         /\ copied' = (copied /\ (ready \/ Overtaken \/ file.primary = NoFile))
  /\ UNCHANGED <<spoilt, former>> /\ Rest

\* The rename of commitStorageFile takes place, in a thread of its own.
Renamed ==
  /\ up /\ active # NoSave /\ active.pc \in {"backup", "commit"} /\ active.source = "there"
  /\ active' = [active EXCEPT !.source = "moved"]
  /\ IF active.pc = "backup"
     THEN /\ file' = [file EXCEPT !.backup = active.copy]
          /\ copied' = TRUE
          /\ UNCHANGED former
     ELSE /\ file' = [file EXCEPT !.primary = active.v, !.asyncTmp = NoFile]
          /\ Replaces(active.v)
          /\ UNCHANGED copied
  /\ UNCHANGED <<queued, answer, spoilt, faults>> /\ Rest

\* The await on the first rename is over; an error of it is swallowed.
BackupDone ==
  /\ Step("backup")
  /\ \/ active.source # "there" /\ UNCHANGED <<faults, copied>>
     \/ active.source = "there" /\ Fault /\ copied' = FALSE
  /\ IF Overtaken
     THEN Resolve([file EXCEPT !.asyncTmp = NoFile])
     ELSE /\ active' = [active EXCEPT !.pc = "commit", !.source = "there"]
          /\ UNCHANGED <<file, queued, answer>>
  /\ UNCHANGED <<spoilt, former>> /\ Rest

\* The await on the second rename is over: the file has moved, or it was unlinked
\* by whoever raised the generation, which counts as done.
CommitDone ==
  /\ Step("commit") /\ active.source # "there"
  /\ Resolve(file)
  /\ UNCHANGED <<spoilt, former, copied, faults>> /\ Rest

CommitFails_Swallowed ==
  /\ Step("commit") /\ active.source = "there" /\ Fault
  /\ Resolve([file EXCEPT !.asyncTmp = NoFile])
  /\ UNCHANGED <<spoilt, former, copied>> /\ Rest

CommitFails ==
  /\ Step("commit") /\ active.source = "there" /\ Fault
  /\ Reject([file EXCEPT !.asyncTmp = NoFile])
  /\ UNCHANGED <<former, copied>> /\ Rest

Drain == Written \/ WriteFails \/ Copied \/ Renamed \/ BackupDone \/ CommitDone \/ CommitFails

-----------------------------------------------------------------------------
(* The saves of the program. *)

\* The session in memory has changed, or is still the empty one nobody has touched;
\* guardBlocksSessionSave keeps the latter off a file that could not be read.
Captured(v) ==
  \/ clock < MaxSession /\ v = clock + 1
  \/ v = live /\ v = 0 /\ ~shielded

Lives(v) ==
  /\ live' = v
  /\ clock' = IF v > clock THEN v ELSE clock
  /\ shielded' = (shielded /\ v = 0)

\* A save of the session there is now; it takes the place of the one that waits.
Fresh(v, waiters) == [v |-> v, waiters |-> waiters \union {v}, passed |-> FALSE, again |-> FALSE]

\* saveSessionAsync, called by persistNow.
SaveAsync(v) ==
  /\ up /\ ~muted /\ Captured(v) /\ answer[v] \notin {"pending", "void"}
  /\ Lives(v)
  /\ answer' = Told({v}, "pending")
  /\ IF barrier # "none"
     THEN /\ blocked' = Fresh(v, blocked.waiters)
          /\ UNCHANGED <<queued, active, file>>
     ELSE /\ Enqueued(Fresh(v, queued.waiters))
          /\ UNCHANGED blocked
  /\ UNCHANGED <<up, detached, barriers, muted, history, bounds>>

\* The generation is raised: what is queued or being written is overtaken, and
\* invalidatePendingStorageCommits unlinks the source of a rename that is under way.
Unlinked == active # NoSave /\ active.pc \in {"backup", "commit"} /\ active.source = "there"

Overtake_SourceLeft(a) == [a EXCEPT !.passed = TRUE]

Overtake(a) == IF Unlinked THEN [a EXCEPT !.passed = TRUE, !.source = "gone"]
               ELSE [a EXCEPT !.passed = TRUE]

Raise == active' = IF active = NoSave THEN NoSave ELSE Overtake(active)
Passed(q) == IF q = NoSave THEN NoSave ELSE [q EXCEPT !.passed = TRUE]

WithoutSource(f) == IF Unlinked /\ active.pc = "commit" THEN [f EXCEPT !.asyncTmp = NoFile] ELSE f

\* The callers in gone are answered; for those in void nothing newer will be written.
Learn(gone, void) ==
  [v \in Sessions |-> IF v \in gone THEN "none"
                      ELSE IF v \in void /\ answer[v] = "pending" THEN "void" ELSE answer[v]]
OnTheirWay == active.waiters \union queued.waiters

Copy_None(f) == f

Copy(f) == IF f.primary = NoFile THEN f ELSE [f EXCEPT !.backup = f.primary]

\* saveSession: the backup is a copy of the file it replaces; that the copy fails is
\* swallowed.
SaveSync(v) ==
  /\ Raise
  /\ queued' = Passed(queued)
  /\ \/ /\ file' = [Copy(WithoutSource(file)) EXCEPT !.primary = v, !.syncTmp = NoFile]
        /\ copied' = TRUE
        /\ UNCHANGED faults
     \/ /\ Fault
        /\ file' = [WithoutSource(file) EXCEPT !.primary = v, !.syncTmp = NoFile]
        /\ copied' = FALSE
  /\ Replaces(v)

\* saveSession throws after the copy: the file is as it was.
SaveSyncFails ==
  /\ Fault
  /\ Raise
  /\ queued' = Passed(queued)
  /\ file' = [Copy(WithoutSource(file)) EXCEPT !.syncTmp = NoFile]
  /\ UNCHANGED <<former, copied>>

\* finalizeResolvedMetadataTargetPath and recoverPendingMetadataRename save at once;
\* they ask neither for the barrier nor whether saving is muted.
SaveNow(v) ==
  /\ up /\ live > 0 /\ clock < MaxSession /\ v = clock + 1
  /\ Lives(v)
  /\ \/ SaveSync(v) /\ UNCHANGED answer
     \/ SaveSyncFails /\ answer' = Learn({}, OnTheirWay)
  /\ UNCHANGED <<up, detached, blocked, barriers, muted, starts, damage, imports>>

-----------------------------------------------------------------------------
(* The barrier. *)

\* acquirePersistenceBarrier, up to the await on the saves that are under way; it
\* waits for an earlier barrier first.
Acquire(o) ==
  IF barrier = "none"
  THEN /\ barrier' = o
       /\ spoilt' = FALSE
       /\ at' = [at EXCEPT ![o] = "settling"]
  ELSE /\ at' = [at EXCEPT ![o] = "turn"]
       /\ UNCHANGED <<barrier, spoilt>>

Detach == IF barrier = "none"
          THEN detached' = queued /\ queued' = NoSave
          ELSE UNCHANGED <<detached, queued>>

TakeTurn(o) ==
  /\ up /\ at[o] = "turn" /\ barrier = "none"
  /\ Acquire(o) /\ Detach
  /\ UNCHANGED <<up, file, active, blocked, answer, ended, import, session, history, bounds>>

\* release({ replayBlocked: false }): who has saved meanwhile is told it is done.
Drop == /\ answer' = Told(blocked.waiters, "none")
        /\ blocked' = NoSave
        /\ barrier' = "none"

Settled_DetachedForgotten(o) ==
  LET late == o = "shutdown" /\ ended
  IN  /\ up /\ at[o] = "settling" /\ active = NoSave /\ ~spoilt
      /\ detached' = NoSave
      /\ answer' = Told(IF late THEN blocked.waiters ELSE {}, "none")
      /\ at' = [at EXCEPT ![o] = IF late THEN "done" ELSE "held"]
      /\ IF late THEN blocked' = NoSave /\ barrier' = "none" ELSE UNCHANGED <<blocked, barrier>>
      /\ UNCHANGED <<up, file, queued, active, spoilt, ended, import, session, history, bounds>>

\* Nothing is under way any more: what was taken out of the queue is given up.  An
\* end of the program that has not waited so long releases the barrier at once.
Settled(o) ==
  LET late == o = "shutdown" /\ ended
  IN  /\ up /\ at[o] = "settling" /\ active = NoSave /\ ~spoilt
      /\ detached' = NoSave
      /\ answer' = Told(detached.waiters \union (IF late THEN blocked.waiters ELSE {}), "none")
      /\ at' = [at EXCEPT ![o] = IF late THEN "done" ELSE "held"]
      /\ IF late THEN blocked' = NoSave /\ barrier' = "none" ELSE UNCHANGED <<blocked, barrier>>
      /\ UNCHANGED <<up, file, queued, active, spoilt, ended, import, session, history, bounds>>

\* requeueDetachedAsyncSaves and replayBlockedSaves give a save the generation there
\* is now, whatever has been saved since.
GivenBack(s) == [s EXCEPT !.passed = FALSE, !.again = TRUE]

\* One of the saves the barrier waits for has failed, this one or that of another
\* store: later saves are rejected, and the one taken out of the queue goes back,
\* as if it were new.
Unsettled(o) ==
  /\ up /\ at[o] = "settling" /\ active = NoSave
  /\ IF spoilt THEN UNCHANGED faults ELSE Fault
  /\ Drop
  /\ IF detached = NoSave
     THEN UNCHANGED <<queued, active, file>>
     ELSE Enqueued(GivenBack(detached))
  /\ detached' = NoSave
  /\ at' = [at EXCEPT ![o] = "failed"]
  /\ UNCHANGED <<up, spoilt, ended, import, session, history, starts, damage, imports>>

-----------------------------------------------------------------------------
(* The import of a backup. *)

ImportBegins(kind) ==
  /\ up /\ at["import"] = "idle" /\ at["shutdown"] = "idle"
  /\ imports < MaxImports /\ imports' = imports + 1
  /\ import' = [NoImport EXCEPT !.kind = kind]
  /\ Acquire("import") /\ Detach
  /\ UNCHANGED <<up, file, active, blocked, answer, ended, session, history, faults, starts, damage>>

ImportTo(where) == at' = [at EXCEPT !["import"] = where]

\* importBackup keeps the files for the case it fails, and saves the new session,
\* which is not that of the running program.
FullSaves ==
  /\ up /\ at["import"] = "held" /\ import.kind = "full" /\ clock < MaxSession
  /\ import' = [import EXCEPT !.v = clock + 1, !.files = file,
                              !.former = former, !.copied = copied]
  /\ clock' = clock + 1
  /\ SaveSync(clock + 1)
  /\ ImportTo("swapped")
  /\ UNCHANGED <<up, detached, blocked, answer, barrier, spoilt, ended, live, shielded, muted,
                 starts, damage, imports>>

FullSucceeds_Replayed ==
  /\ up /\ at["import"] = "swapped" /\ import.kind = "full"
  /\ muted' = TRUE
  /\ blocked' = NoSave /\ barrier' = "none"
  /\ IF blocked = NoSave THEN UNCHANGED <<queued, active, file>> ELSE Enqueued(GivenBack(blocked))
  /\ ImportTo("done")
  /\ UNCHANGED <<up, detached, answer, spoilt, ended, import, live, shielded, clock, history,
                 bounds>>

FullSucceeds ==
  /\ up /\ at["import"] = "swapped" /\ import.kind = "full"
  /\ muted' = TRUE
  /\ Drop
  /\ ImportTo("done")
  /\ UNCHANGED <<up, file, queued, active, detached, spoilt, ended, import, live, shielded,
                 clock, history, bounds>>

\* The session the program has in memory at a save it makes for good.
Latest == IF live = 0 \/ clock = MaxSession THEN live ELSE clock + 1
Guarded == live = 0 /\ shielded

\* applySettingsOnlyBackup ends with persistNowSync, which saves the session and then
\* the settings.
SettingsSave ==
  /\ up /\ at["import"] = "held" /\ import.kind = "settings"
  /\ IF Guarded
     THEN UNCHANGED <<file, queued, active, history, faults, session>>
     ELSE /\ Lives(Latest)
          /\ SaveSync(Latest)
          /\ UNCHANGED muted
  /\ ImportTo("swapped")
  /\ UNCHANGED <<up, detached, blocked, answer, barrier, spoilt, ended, import, starts, damage, imports>>

SettingsSucceed ==
  /\ up /\ at["import"] = "swapped" /\ import.kind = "settings"
  /\ Drop
  /\ ImportTo("done")
  /\ UNCHANGED <<up, file, queued, active, detached, spoilt, ended, import, session, history,
                 bounds>>

\* Anything else an import does may fail; a full import puts the files back.
ImportFails ==
  /\ up /\ at["import"] \in {"held", "swapped"}
  /\ IF import.kind = "full" /\ at["import"] = "swapped"
     THEN file' = import.files /\ former' = import.former /\ copied' = import.copied
     ELSE UNCHANGED <<file, former, copied>>
  /\ ImportTo("failing")
  /\ UNCHANGED <<up, saves, barrier, spoilt, ended, import, session, bounds>>

\* release({ replayBlocked: true }), once around: what has been set aside is saved as
\* if it were new, and again as long as more has come meanwhile.
Replay ==
  /\ up /\ at["import"] \in {"failing", "replaying"} /\ active = NoSave
  /\ IF blocked = NoSave
     THEN /\ barrier' = "none"
          /\ ImportTo("done")
          /\ UNCHANGED <<queued, active, file, blocked>>
     ELSE /\ Enqueued(GivenBack(blocked))
          /\ blocked' = NoSave
          /\ ImportTo("replaying")
          /\ UNCHANGED barrier
  /\ UNCHANGED <<up, detached, answer, spoilt, ended, import, session, history, bounds>>

-----------------------------------------------------------------------------
(* The end of the program, and its start. *)

\* shutdown: cancelPendingAsyncSaves, then the barrier.
ShutdownBegins ==
  /\ up /\ at["shutdown"] = "idle" /\ starts < MaxStarts
  /\ Raise
  /\ file' = WithoutSource(file)
  /\ answer' = Learn(queued.waiters, active.waiters)
  /\ queued' = NoSave
  /\ Acquire("shutdown")
  /\ UNCHANGED <<up, detached, blocked, ended, import, session, history, bounds>>

LastSave ==
  IF muted \/ Guarded
  THEN UNCHANGED <<file, queued, active, history, faults, session>>
  ELSE Lives(Latest) /\ SaveSync(Latest) /\ UNCHANGED muted

\* The barrier is there, or failed, or a second has passed: prepareForShutdown saves,
\* and a barrier that is there is released.
FinalSave ==
  LET held == at["shutdown"] = "held"
      gone == IF held THEN blocked.waiters ELSE {}
  IN  /\ up /\ at["shutdown"] \in {"turn", "settling", "held", "failed"} /\ ~ended
      /\ ended' = TRUE
      /\ \/ LastSave /\ answer' = Learn(gone, {})
         \/ /\ ~muted /\ ~Guarded
            /\ SaveSyncFails
            /\ answer' = Learn(gone, OnTheirWay)
            /\ UNCHANGED session
      /\ IF held
         THEN /\ blocked' = NoSave /\ barrier' = "none"
              /\ at' = [at EXCEPT !["shutdown"] = "done"]
         ELSE UNCHANGED <<blocked, barrier, at>>
      /\ UNCHANGED <<up, detached, spoilt, import, starts, damage, imports>>

Exit ==
  /\ up /\ ended
  /\ up' = FALSE
  /\ UNCHANGED <<file, saves, barriers, session, history, bounds>>

\* The program is gone at once; a synchronous save may be half done.
Crash ==
  /\ up /\ starts < MaxStarts
  /\ up' = FALSE
  /\ \/ UNCHANGED <<file, copied>>
     \/ /\ file.primary # NoFile
        /\ file' = [WithoutSource(file) EXCEPT !.backup = Torn]
        /\ copied' = FALSE
     \/ \E tmp \in {Torn, live} :
          /\ file' = [WithoutSource(file) EXCEPT
                        !.backup = IF file.primary = NoFile THEN @ ELSE file.primary,
                        !.syncTmp = tmp]
          /\ UNCHANGED copied
  /\ UNCHANGED <<saves, barriers, session, former, bounds>>

\* loadSessionWithStatus, with some files that cannot be read.  A file is only taken
\* for the session when it can be; a temporary one only with packages in it.
Usable(f, broken) == f \notin broken /\ file[f] >= 0

Load(broken) ==
  LET spare == {f \in {"syncTmp", "asyncTmp"} : Usable(f, broken) /\ file[f] > 0}
  IN  CASE Usable("primary", broken) ->
             /\ live' = file.primary /\ shielded' = FALSE
             /\ UNCHANGED <<file, former, copied>>
        [] ~Usable("primary", broken) /\ Usable("backup", broken) ->
             /\ live' = file.backup /\ shielded' = FALSE
             /\ \/ /\ file' = [file EXCEPT !.primary = file.backup, !.syncTmp = NoFile]
                   /\ Replaces(file.backup)
                \/ UNCHANGED <<file, former>>
             /\ UNCHANGED copied
        [] ~Usable("primary", broken) /\ ~Usable("backup", broken) /\ spare # {} ->
             /\ LET f == IF "syncTmp" \in spare THEN "syncTmp" ELSE "asyncTmp"
                IN  /\ live' = file[f] /\ shielded' = FALSE
                    /\ \/ /\ file' = [file EXCEPT !.primary = file[f]]
                          /\ Replaces(file[f])
                          /\ copied' = FALSE
                       \/ UNCHANGED <<file, former, copied>>
        [] OTHER ->
             /\ live' = 0
             /\ shielded' = \E f \in DOMAIN file : file[f] # NoFile
             /\ UNCHANGED <<file, former, copied>>

Start(broken) ==
  /\ ~up /\ starts < MaxStarts /\ damage + Cardinality(broken) <= MaxDamage
  /\ up' = TRUE
  /\ starts' = starts + 1
  /\ damage' = damage + Cardinality(broken)
  /\ Load(broken)
  /\ queued' = NoSave /\ active' = NoSave /\ detached' = NoSave /\ blocked' = NoSave
  /\ barrier' = "none" /\ spoilt' = FALSE /\ ended' = FALSE
  /\ at' = [o \in Owners |-> "idle"]
  /\ import' = NoImport
  /\ muted' = FALSE
  /\ answer' = [v \in Sessions |-> "none"]
  /\ UNCHANGED <<clock, faults, imports>>

-----------------------------------------------------------------------------
Barriers == \E o \in Owners : TakeTurn(o) \/ Settled(o) \/ Unsettled(o)
Import == \/ FullSaves \/ FullSucceeds \/ SettingsSave \/ SettingsSucceed
          \/ ImportFails \/ Replay
Ending == FinalSave \/ Exit
Starting == \E broken \in SUBSET {"primary", "backup"} : Start(broken)

Next ==
  \/ Drain \/ Barriers \/ Import \/ Ending \/ Starting
  \/ \E v \in Sessions : SaveAsync(v) \/ SaveNow(v)
  \/ \E kind \in ImportKinds : ImportBegins(kind)
  \/ ShutdownBegins \/ Crash

Spec == Init /\ [][Next]_vars

\* The steps of a save, an import and an end of the program that has begun are taken.
FairSpec ==
  Spec /\ WF_vars(Drain) /\ WF_vars(Barriers) /\ WF_vars(Import) /\ WF_vars(Ending)

-----------------------------------------------------------------------------
(* Properties. *)

\* The rename of an asynchronous save reaches the session file.
Commits == active # NoSave /\ active.pc = "commit" /\ active' # NoSave
           /\ active.source = "there" /\ active'.source = "moved"

\* It puts an older session in place of a newer one, which every start could read.
GoesBack == Commits /\ damage = 0 /\ file'.primary < file.primary

\* An asynchronous save never puts an older session over a newer one, but for a save that
\* a barrier has set aside or taken out of the queue and given back: a synchronous save
\* that comes between any two awaits of an asynchronous one is never undone by it
\* (overtaking in saveSession and in writeSessionPayload).
OnlySetAsideGoBack == [][GoesBack => active.again]_vars

\* A promise of saveSessionAsync that is kept while a save still stands behind it is kept
\* for a session that is on the disk, or a newer one is; left out are the callers that
\* are told so because a barrier drops their save, the end of the program cancels it, or
\* a synchronous save that overtook it has failed.
ResolvedIsDurable ==
  [][\A v \in Sessions : answer[v] = "pending" /\ answer'[v] = "saved" => file'.primary >= v]_vars

\* After a crash at any point of a save, and with a file that cannot be read, the program
\* starts with the session last saved or the one before it, as long as no copy of the
\* session file has failed since (the backup is made before the rename and the load
\* order is file, backup, temporary files).
RecoversLastCommit ==
  [][~up /\ up' /\ copied /\ former # NoFile => live' \in {former, file.primary}]_vars

\* Once an import has put its session on the disk, and after a full one up to the end of the
\* program, the session file is changed by nobody but those who do not ask: a metadata
\* rename that saves at once, an import that fails and puts the files back, and an end of
\* the program before the import has muted it.  Whatever else is under way, queued or set
\* aside when the import comes stays off the file.
ImportSurvives ==
  [][up /\ (muted \/ at["import"] = "swapped") /\ file'.primary # file.primary
       => (\E v \in Sessions : SaveNow(v)) \/ ImportFails \/ (FinalSave /\ ~muted)]_vars

\* Every caller of saveSessionAsync gets an answer, whatever overtakes, rejects, sets
\* aside or drops the save, unless the program is gone.
EverySaveSettles ==
  \A v \in Sessions : answer[v] \in {"pending", "void"} ~> answer[v] \in {"none", "saved"} \/ ~up
=============================================================================

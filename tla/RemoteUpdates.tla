---------------------------- MODULE RemoteUpdates ----------------------------
(***************************************************************************)
(* Updates ordered from afar (src/main/mcp/update-jobs.ts) and what they   *)
(* run through: the uploads of installers, the installation in update.ts   *)
(* and the parking of the queue in update-install-flow.ts and              *)
(* app-controller.ts; wired in src/main/mcp/service.ts.                    *)
(*                                                                         *)
(* There is one job, kept in a file, under a request key.  It is accepted, *)
(* saved at each stage before the next begins, and checked again for its   *)
(* authorization after every await; the installer is started last, and     *)
(* only the version found after the restart makes the job a completed one. *)
(* The user can start an installation in the window too, start and stop    *)
(* the queue, and change the configuration of the remote control.          *)
(***************************************************************************)
EXTENDS InstallerUploads

CONSTANTS
  Released      \* request keys of updates that are fetched from the releases

ASSUME UpdatesAssumption == Released \intersect Manifests = {}

VARIABLES
  job,          \* this.job
  disk,         \* the job on the file
  loadError,    \* the job could not be taken over at the start
  at,           \* what execute() is waiting for; "idle" when nothing is executing
  mandate,      \* what authorize() of the job has captured
  active,       \* activeAbortController: who installs
  running,      \* the queue runs
  parked,       \* the job has stopped the queue, "running" if it was
  installer,    \* the key of the installer that has been started, "user" for the user's
  launched,     \* keys whose installer was started since another key was last accepted
  withdrawn     \* uploads whose removal has been confirmed to a client

jobVars == <<job, disk, loadError, at, mandate>>
flowVars == <<active, running, parked, installer>>
history == <<launched, withdrawn>>
vars == <<uploadVars, jobVars, flowVars, history>>

NoJob == [key |-> "none", source |-> 0, state |-> "none"]
NoMandate == [revision |-> 0, interrupt |-> FALSE]
Keys == Manifests \union Released
Terminal(j) == j.state \in {"none", "completed", "failed", "interrupted"}

Init ==
  /\ InitUploads
  /\ job = NoJob /\ disk = NoJob /\ loadError = FALSE
  /\ at = "idle" /\ mandate = NoMandate
  /\ active = "none" /\ running \in BOOLEAN /\ parked = "no" /\ installer = "none"
  /\ launched = {} /\ withdrawn = {}

-----------------------------------------------------------------------------
(* begin *)

\* The key is known: its job is answered, however it has ended.
Known(key) == ~loadError /\ job.key = key

MayAccept_AnyKey(key, source, interrupt) ==
  /\ ~loadError
  /\ at = "idle" /\ Terminal(job)
  /\ running => interrupt
  /\ source # 0 => GetValid(source)

\* A new job may begin, for an upload or (source 0) for a release.
MayAccept(key, source, interrupt) ==
  /\ ~loadError /\ job.key # key
  /\ at = "idle" /\ Terminal(job)
  /\ running => interrupt
  /\ source # 0 => GetValid(source)

Accept(key, source, interrupt) ==
  /\ MayAccept(key, source, interrupt)
  /\ at' = "accepted"
  /\ job' = [key |-> key, source |-> source, state |-> "accepted"]
  /\ mandate' = [revision |-> revision, interrupt |-> interrupt]
  /\ launched' = launched \intersect {key}
  /\ UNCHANGED <<disk, loadError>>

\* update_install.
StartRelease(key, interrupt) ==
  /\ Accept(key, 0, interrupt)
  /\ UNCHANGED <<uploadVars, flowVars, withdrawn>>

Committed(c) == uploads' = [uploads EXCEPT ![c.id].state = "committed"]

\* install() of a commit: a known key is answered with its job; an error is the
\* answer when no job may begin, and when the request has been aborted.
Install(c, interrupt) ==
  LET id == c.id
      key == uploads[id].manifest
  IN  /\ c \in Waiting("install")
      /\ \/ /\ GetValid(id) /\ Known(key)
            /\ Committed(c) /\ Answers(c)
            /\ UNCHANGED <<jobVars, launched>>
         \/ /\ Accept(key, id, interrupt)
            /\ Goes(c, "accepted")
            /\ UNCHANGED uploads
         \/ /\ Answers(c)
            /\ UNCHANGED <<uploads, jobVars, launched>>
      /\ UNCHANGED <<Settings, upload, requests, flowVars, withdrawn>>

\* The first save of the job is over; a commit that waits for it is answered.
Accepted ==
  LET waiting == Waiting("accepted")
  IN  /\ at = "accepted"
      /\ calls' = calls (-) SetToBag(waiting)
      /\ \/ /\ job' = [job EXCEPT !.state = "checking"]
            /\ disk' = job
            /\ at' = "checking"
            /\ uploads' = [id \in DOMAIN uploads |->
                             IF \E c \in waiting : c.id = id
                             THEN [uploads[id] EXCEPT !.state = "committed"] ELSE uploads[id]]
            /\ UNCHANGED <<mandate, trouble>>
         \/ /\ Trouble
            /\ job' = NoJob /\ mandate' = NoMandate
            /\ at' = "idle"
            /\ UNCHANGED <<disk, uploads>>
      /\ UNCHANGED <<version, revision, expired, upload, requests, loadError, flowVars, history>>

-----------------------------------------------------------------------------
(* execute *)

Execution ==
  UNCHANGED <<version, revision, expired, upload, uploads, calls, requests, loadError, withdrawn>>

\* authorize: what the job was accepted under still holds.
Authorized ==
  /\ revision = mandate.revision
  /\ job.source # 0 => GetValid(job.source)
  /\ running => mandate.interrupt

\* await persist()
Saved == disk' = job /\ UNCHANGED trouble
NotSaved == Trouble /\ UNCHANGED disk

Error_NotResumed ==
  /\ at' = "failing"
  /\ active' = IF active = "job" THEN "none" ELSE active
  /\ parked' = "no"
  /\ UNCHANGED <<job, running, installer, launched>>

\* An error, or an installation that did not start, leaves the installation and lets a
\* queue that was parked run again.
Error ==
  /\ at' = "failing"
  /\ active' = IF active = "job" THEN "none" ELSE active
  /\ running' = (running \/ parked = "running")
  /\ parked' = "no"
  /\ UNCHANGED <<job, installer, launched>>

GoesOn(where, state) ==
  /\ at' = where
  /\ job' = [job EXCEPT !.state = state]
  /\ UNCHANGED launched

\* The job is saved as "checking"; a release must offer the version asked for.
Checked ==
  /\ at = "checking"
  /\ \/ /\ Saved
        /\ \/ /\ Authorized /\ (job.source = 0 => version = "old")
              /\ GoesOn("downloading", "downloading") /\ UNCHANGED flowVars
           \/ /\ ~Authorized \/ job.source = 0
              /\ Error
     \/ NotSaved /\ Error
  /\ UNCHANGED mandate /\ Execution

\* Only one installation at a time.
Downloading ==
  /\ at = "downloading"
  /\ \/ /\ Saved
        /\ IF active = "none"
           THEN /\ GoesOn("verifying", "verifying")
                /\ active' = "job"
                /\ UNCHANGED <<running, parked, installer>>
           ELSE Error
     \/ NotSaved /\ Error
  /\ UNCHANGED mandate /\ Execution

Verified_NotMarked ==
  /\ at = "verifying"
  /\ \/ /\ job.source # 0 => Complete(job.source)
        /\ Authorized
        /\ GoesOn("installing", "verifying")
        /\ UNCHANGED flowVars
     \/ /\ job.source # 0 /\ Authorized => ~Complete(job.source)
        /\ Error
  /\ UNCHANGED <<disk, trouble, mandate>> /\ Execution

\* The installer has been verified, the one of an upload on its file.
Verified ==
  /\ at = "verifying"
  /\ \/ /\ job.source # 0 => Complete(job.source)
        /\ Authorized
        /\ GoesOn("installing", "installing")
        /\ UNCHANGED flowVars
     \/ /\ job.source # 0 /\ Authorized => ~Complete(job.source)
        /\ Error
  /\ UNCHANGED <<disk, trouble, mandate>> /\ Execution

\* park, for the first time: whether the queue was running is kept, and it is stopped.
Park ==
  IF parked = "no"
  THEN parked' = (IF running THEN "running" ELSE "idle") /\ running' = FALSE
  ELSE UNCHANGED <<parked, running>>

\* The installer is started.
Launch ==
  /\ at' = "launched"
  /\ installer' = job.key
  /\ launched' = launched \union {job.key}
  /\ UNCHANGED <<job, active>>

Installing_NotRechecked ==
  /\ at = "installing"
  /\ \/ /\ Saved
        /\ \/ /\ Park
              /\ IF job.source # 0 /\ parked = "no"
                 THEN at' = "backup" /\ UNCHANGED <<job, active, installer, launched>>
                 ELSE Launch
           \/ Error
     \/ NotSaved /\ Error
  /\ UNCHANGED mandate /\ Execution

\* The job is saved as "installing": a release is installed at once, for an upload the
\* queue is parked and settings and session are backed up before the second time.
Installing ==
  /\ at = "installing"
  /\ \/ /\ Saved
        /\ \/ /\ Authorized
              /\ Park
              /\ IF job.source # 0 /\ parked = "no"
                 THEN at' = "backup" /\ UNCHANGED <<job, active, installer, launched>>
                 ELSE Launch
           \/ Error
     \/ NotSaved /\ Error
  /\ UNCHANGED mandate /\ Execution

BackedUp ==
  /\ at = "backup"
  /\ \/ Authorized /\ GoesOn("installing", "installing") /\ UNCHANGED flowVars
     \/ Error
  /\ UNCHANGED <<disk, trouble, mandate>> /\ Execution

\* The installer runs; that this cannot be saved is put up with.
HandedOver ==
  /\ at = "launched"
  /\ GoesOn("quitting", "awaiting_restart")
  /\ active' = "none" /\ parked' = "no"
  /\ \/ disk' = job' /\ UNCHANGED trouble
     \/ NotSaved
  /\ UNCHANGED <<running, installer, mandate>> /\ Execution

Failed_NotNoted ==
  /\ at = "failing"
  /\ at' = "idle"
  /\ mandate' = NoMandate
  /\ UNCHANGED <<job, disk, trouble, flowVars, launched>> /\ Execution

\* The failure is noted, and if possible saved; the queue runs again by now.
Failed ==
  /\ at = "failing"
  /\ at' = "idle"
  /\ job' = [job EXCEPT !.state = "failed", !.source = 0]
  /\ mandate' = NoMandate
  /\ \/ disk' = job' /\ UNCHANGED trouble
     \/ NotSaved
  /\ UNCHANGED <<flowVars, launched>> /\ Execution

Execute ==
  \/ Accepted \/ Checked \/ Downloading \/ Verified \/ Installing \/ BackedUp
  \/ HandedOver \/ Failed

-----------------------------------------------------------------------------
(* The user, and the program. *)

Elsewhere == UNCHANGED <<version, revision, expired, upload, uploads, calls, requests, jobVars, history>>

\* The queue is started or stopped.
Toggle ==
  /\ Trouble
  /\ running' = ~running
  /\ UNCHANGED <<active, parked, installer>> /\ Elsewhere

\* INSTALL_UPDATE of the window: the same installation, of no job.
UserInstall ==
  /\ Trouble
  /\ active = "none" /\ version = "old"
  /\ active' = "user"
  /\ UNCHANGED <<running, parked, installer>> /\ Elsewhere

\* Its installer is there and has been verified: the queue is parked.
UserParks ==
  /\ active = "user" /\ parked = "no"
  /\ Park
  /\ UNCHANGED <<trouble, active, installer>> /\ Elsewhere

\* The installer is started, or the installation has failed, before this or after.
UserEnds ==
  /\ active = "user"
  /\ active' = "none" /\ parked' = "no"
  /\ \/ parked # "no" /\ installer' = "user" /\ UNCHANGED running
     \/ running' = (running \/ parked = "running") /\ UNCHANGED installer
  /\ UNCHANGED trouble /\ Elsewhere

\* load: a job that has not ended is judged by the version there is now.
Judged(j) ==
  IF Terminal(j) THEN j
  ELSE [j EXCEPT !.source = 0,
                 !.state = IF j.state \in {"installing", "awaiting_restart"} /\ version' = "new"
                           THEN "completed" ELSE "interrupted"]

\* The program quits after an installer was started, is quit or fails, and starts again;
\* an installer that was started has replaced it meanwhile, or not.  The job of the last
\* time is judged, which may fail to be saved, or cannot be read.
Restart ==
  /\ \/ Trouble
     \/ at = "quitting" /\ UNCHANGED trouble
  /\ version' \in IF installer = "none" THEN {version} ELSE {version, "new"}
  /\ \/ /\ job' = Judged(disk)
        /\ \/ disk' = job' /\ loadError' = FALSE
           \/ ~Terminal(disk) /\ UNCHANGED disk /\ loadError' = TRUE
     \/ /\ disk # NoJob
        /\ job' = NoJob /\ UNCHANGED disk /\ loadError' = TRUE
  /\ at' = "idle" /\ mandate' = NoMandate
  /\ active' = "none" /\ parked' = "no" /\ installer' = "none"
  /\ running' \in BOOLEAN
  /\ upload' = 0 /\ uploads' = <<>> /\ calls' = EmptyBag
  /\ withdrawn' = {}
  /\ UNCHANGED <<revision, expired, requests, launched>>

-----------------------------------------------------------------------------
Uploads ==
  /\ \/ /\ \/ Request(job.state \in {"failed", "interrupted"}) \/ Proceed
           \/ Configure
           \/ \E m \in Manifests : Expire(m)
        /\ UNCHANGED withdrawn
     \/ \E c \in Waiting("remove") : Removed(c) /\ withdrawn' = withdrawn \union {c.id}
  /\ UNCHANGED <<jobVars, flowVars, launched>>

Jobs ==
  \E interrupt \in BOOLEAN :
     \/ \E key \in Released : StartRelease(key, interrupt)
     \/ \E c \in Waiting("install") : Install(c, interrupt)

Next == Uploads \/ Jobs \/ Execute \/ Toggle \/ UserInstall \/ UserParks \/ UserEnds \/ Restart

Spec == Init /\ [][Next]_vars

\* Whatever an installation awaits comes to an end, that of a job and that of the user.
FairSpec == Spec /\ WF_at(Execute) /\ WF_active(UserEnds)

-----------------------------------------------------------------------------
(* Properties. *)

\* The installer of a job is started.
Launches == at # "launched" /\ at' = "launched"

\* "Reuse requestKey after an uncertain response": however often a request is repeated,
\* over failures, crashes and restarts, the installer of a key is started once, as long
\* as no other key has been accepted in between (the one job there is remembers its key).
OncePerKey == [][Launches => job.key \notin launched]_vars

\* When the installer is started, what the job was accepted under still holds, although
\* saves, checks, downloads and backups were awaited since: the remote control has not
\* been configured anew, a queue that runs may be interrupted, and an uploaded installer
\* is complete, not expired, and not one whose removal a client was told of.
LaunchIsAuthorised ==
  [][Launches =>
       /\ revision = mandate.revision
       /\ running => mandate.interrupt
       /\ job.source # 0 => /\ job.source \notin withdrawn
                            /\ uploads[job.source].manifest \notin expired
                            /\ Complete(job.source)]_vars

\* A start that finds the new version after a job has started its installer reports that
\* job as completed, wherever the program was ended and whatever save has failed.
InstalledIsCompleted ==
  [][version = "old" /\ installer \in Keys /\ version' = "new" /\ ~loadError'
       => job'.key = installer /\ job'.state = "completed"]_vars

\* A job that was accepted ends, or the program is about to quit for its installer.
JobEnds == ~Terminal(job) ~> Terminal(job) \/ at = "quitting"

\* A queue that was stopped for an installation, of a job or of the user, is released in
\* the end, and then runs again if no installer was started.
QueueGoesOn ==
  /\ parked = "running" ~> parked = "no"
  /\ [][parked = "running" /\ parked' = "no" => running' \/ installer' # "none" \/ Restart]_vars
=============================================================================

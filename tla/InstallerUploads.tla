-------------------------- MODULE InstallerUploads --------------------------
(***************************************************************************)
(* The transfer of an installer in blocks                                  *)
(* (src/main/mcp/installer-uploads.ts).                                    *)
(*                                                                         *)
(* The requests of a client run side by side, each from one await to the   *)
(* next; a client repeats a request whose answer it has not seen, while    *)
(* the first may still be under way.  There is one upload at a time, but a *)
(* request keeps the object it found when it began, and several may have   *)
(* begun.  A request that is refused, or only asks, changes nothing and is *)
(* not a step here.  A block is a number; what a client sends for one is   *)
(* always the same.  There is one principal, whose scopes change only with *)
(* the revision.  What is done with a complete installer is in             *)
(* RemoteUpdates.                                                          *)
(***************************************************************************)
EXTENDS Integers, Sequences, FiniteSets, Bags

CONSTANTS
  MaxCalls,     \* bound: requests that are under way at the same time
  Manifests,    \* signed manifests, each with a request key of its own
  Blocks,       \* blocks of an installer
  MaxRequests,  \* bound: requests that come
  MaxTrouble    \* bound: what comes in between

ASSUME UploadsAssumption ==
  /\ Blocks \in Nat \ {0} /\ MaxCalls \in Nat /\ MaxRequests \in Nat /\ MaxTrouble \in Nat

VARIABLES
  version,      \* the installed version, "old" or "new"
  revision,     \* revision of the service: authorize() answers with it
  expired,      \* the manifests whose time is over
  upload,       \* this.upload, an index of uploads, 0 for null
  uploads,      \* every Upload object there has been since the start
  calls,        \* the requests that wait for something, a bag
  requests,
  trouble

uploadVars == <<version, revision, expired, upload, uploads, calls, requests, trouble>>

NoCall == [pc |-> "none", id |-> 0, manifest |-> "none", authorization |-> 0, offset |-> 0]
States == {"receiving", "verified", "committed"}

InitUploads ==
  /\ version = "old"
  /\ revision = 0
  /\ expired = {}
  /\ upload = 0 /\ uploads = <<>>
  /\ calls = EmptyBag
  /\ requests = 0 /\ trouble = 0

\* validate: the manifest is in time and fits the version that is installed.
Valid(m) == m \notin expired /\ version = "old"

\* get: the upload is the present one and was begun under the present configuration.
Get(id) == id # 0 /\ upload = id /\ uploads[id].authorization = revision
GetValid(id) == Get(id) /\ Valid(uploads[id].manifest)

\* The file is the installer of the manifest.
Complete(id) == uploads[id].there /\ uploads[id].written = 0..(Blocks - 1)

Waiting(pc) == {c \in BagToSet(calls) : c.pc = pc}
One(c) == SetToBag({c})
Waits(c) ==
  /\ BagCardinality(calls) < MaxCalls /\ requests < MaxRequests
  /\ calls' = calls (+) One(c)
  /\ requests' = requests + 1
Goes(c, pc) == calls' = (calls (-) One(c)) (+) One([c EXCEPT !.pc = pc])
Answers(c) == calls' = calls (-) One(c)

Trouble == trouble < MaxTrouble /\ trouble' = trouble + 1
Settings == <<version, revision, expired, trouble>>

-----------------------------------------------------------------------------
\* begin: an upload of an earlier configuration, or one whose job has come to nothing,
\* makes room; otherwise the same manifest is answered with the upload there is.
Begin(m, canReplace) ==
  LET asks == [NoCall EXCEPT !.manifest = m, !.authorization = revision]
  IN  /\ Valid(m)
      /\ IF upload = 0
         THEN Waits([asks EXCEPT !.pc = "create"])
         ELSE /\ IF uploads[upload].state = "committed"
                 THEN canReplace
                 ELSE uploads[upload].authorization # revision
              /\ Waits([asks EXCEPT !.pc = "replace", !.id = upload])
      /\ UNCHANGED <<Settings, upload, uploads>>

\* The file of the old upload is gone, and whatever upload there is by now is forgotten.
Replaced(c) ==
  /\ c \in Waiting("replace")
  /\ uploads' = [uploads EXCEPT ![c.id].there = FALSE]
  /\ upload' = 0
  /\ Goes(c, "create")
  /\ UNCHANGED <<Settings, requests>>

\* Nobody looks whether another request has begun an upload meanwhile.
Created(c) ==
  /\ c \in Waiting("create")
  /\ uploads' = Append(uploads, [manifest |-> c.manifest,
                                 authorization |-> c.authorization,
                                 received |-> 0, state |-> "receiving",
                                 written |-> {}, there |-> TRUE])
  /\ upload' = Len(uploads) + 1
  /\ Answers(c)
  /\ UNCHANGED <<Settings, requests>>

\* The next block; one that has been received is only compared, which is no step here.
Chunk(id) ==
  /\ GetValid(id)
  /\ uploads[id].state = "receiving" /\ uploads[id].received < Blocks
  /\ Waits([NoCall EXCEPT !.pc = "open", !.id = id, !.offset = uploads[id].received])
  /\ UNCHANGED <<Settings, upload, uploads>>

\* The file is open: a block that has been received is only compared.
ChunkOpened(c) ==
  /\ c \in Waiting("open")
  /\ IF uploads[c.id].there /\ c.offset >= uploads[c.id].received
     THEN Goes(c, "write")
     ELSE Answers(c)
  /\ UNCHANGED <<Settings, requests, upload, uploads>>

\* The block is on the file, which may have been removed; a request for the same block
\* that was let through with it counts it once more.
ChunkWritten(c) ==
  /\ c \in Waiting("write")
  /\ uploads' = [uploads EXCEPT ![c.id].received = @ + 1,
                                ![c.id].written = @ \union {c.offset}]
  /\ Answers(c)
  /\ UNCHANGED <<Settings, requests, upload>>

\* commit; "install" waits for what RemoteUpdates does with the installer.
Commit(id) ==
  /\ GetValid(id)
  /\ uploads[id].received = Blocks
  /\ Waits([NoCall EXCEPT !.id = id,
                           !.pc = IF uploads[id].state = "receiving" THEN "hash" ELSE "install"])
  /\ UNCHANGED <<Settings, upload, uploads>>

Hashed(c) ==
  /\ c \in Waiting("hash")
  /\ IF Complete(c.id)
     THEN /\ uploads' = [uploads EXCEPT ![c.id].state = "verified"]
          /\ Goes(c, "install")
     ELSE Answers(c) /\ UNCHANGED uploads
  /\ UNCHANGED <<Settings, requests, upload>>

Cancel(id) ==
  /\ Get(id)
  /\ uploads[id].state # "committed"
  /\ Waits([NoCall EXCEPT !.pc = "remove", !.id = id])
  /\ UNCHANGED <<Settings, upload, uploads>>

\* The upload that is there by now is forgotten, whichever it is.
Removed(c) ==
  /\ c \in Waiting("remove")
  /\ uploads' = [uploads EXCEPT ![c.id].there = FALSE]
  /\ upload' = 0
  /\ Answers(c)
  /\ UNCHANGED <<Settings, requests>>

\* What the request awaits of the file system fails: an error is the answer.
CallFails(c) ==
  /\ c.pc \in {"replace", "create", "open", "write", "hash", "remove"}
  /\ Answers(c)
  /\ UNCHANGED <<Settings, requests, upload, uploads>>

Request(canReplace) ==
  \/ \E m \in Manifests : Begin(m, canReplace)
  \/ \E id \in DOMAIN uploads :
        Chunk(id) \/ Commit(id) \/ Cancel(id)

Proceed ==
  \E c \in BagToSet(calls) :
     \/ Replaced(c) \/ Created(c) \/ ChunkOpened(c) \/ ChunkWritten(c)
     \/ Hashed(c) \/ CallFails(c)

-----------------------------------------------------------------------------
\* configure: scopes and keys change only under a new revision.
Configure ==
  /\ Trouble
  /\ revision' = revision + 1
  /\ UNCHANGED <<version, expired, upload, uploads, calls, requests>>

\* expiresAt of a manifest has come.
Expire(m) ==
  /\ Trouble
  /\ expired' = expired \union {m}
  /\ UNCHANGED <<version, revision, upload, uploads, calls, requests>>

-----------------------------------------------------------------------------
=============================================================================

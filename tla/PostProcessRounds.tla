------------------------- MODULE PostProcessRounds -------------------------
(***************************************************************************)
(* What the rounds of post-processing do for a package                     *)
(* (handlePackagePostProcessing and the callers of runPackagePostProcessing *)
(* in src/main/download-manager.ts), on the slots and tasks of             *)
(* PostProcessSlots.                                                       *)
(*                                                                         *)
(* A round looks at the files of the package, which takes some awaits,     *)
(* counts its items, and then unpacks what the count allows.  Items that   *)
(* finish after the count need another round, which they order when they   *)
(* finish.                                                                 *)
(*                                                                         *)
(* Automatic and hybrid extraction are on.  A package that is unpacked has *)
(* been through its extraction, with or without success.                   *)
(***************************************************************************)
EXTENDS PostProcessSlots

CONSTANT Completing     \* bound: the packages whose last item is ever done

ASSUME CompletingAssumption == Completing \subseteq Packages

VARIABLES
  work,       \* a package: open, complete or unpacked
  saw,        \* the round of a task: what it has counted, or why it is over
  due         \* the packages whose last item has ordered their extraction

roundVars == <<work, saw, due>>
allVars == <<vars, roundVars>>

Works == {"open", "complete", "unpacked"}
Counts == {"none", "over", "open", "complete"}

RoundsInit ==
  /\ Init
  /\ work = [p \in Packages |-> "open"]
  /\ saw = [t \in Tasks |-> "none"]
  /\ due = {}

\* A round begins; with an aborted signal it is over at once.
Begun(t) == IF t \in aborted THEN "over" ELSE "none"

-----------------------------------------------------------------------------
(* Who asks for a round. *)

\* An item of a package is complete, and others are not.
ItemDone(p) ==
  /\ work[p] = "open"
  /\ RunPostProcessing(p)
  /\ UNCHANGED roundVars

\* The last one is.  If the task on record is already aborted, its next round will
\* do nothing.
LastItemDone(p) ==
  /\ p \in Completing /\ work[p] = "open"
  /\ work' = [work EXCEPT ![p] = "complete"]
  /\ RunPostProcessing(p)
  /\ due' = IF current'[p] \in aborted THEN due ELSE due \union {p}
  /\ UNCHANGED saw

\* triggerPendingExtractions, retryExtraction, extractNow: the user starts the queue,
\* switches the package on or asks for it.
Trigger(p) ==
  /\ current[p] = NoTask /\ work[p] # "unpacked"
  /\ RunPostProcessing(p)
  /\ due' = IF work[p] = "open" THEN due ELSE due \union {p}
  /\ UNCHANGED <<work, saw>>

-----------------------------------------------------------------------------
(* A round. *)

\* What is still due once a task begins a round, which takes the order for its package.
\* An aborted task does so too, and does nothing with it.
Taken(t) == IF t \in aborted /\ pkg[t] \in requeue THEN due \ {pkg[t]} ELSE due

RoundBegins(t) ==
  /\ FirstRound(t)
  /\ saw' = [saw EXCEPT ![t] = Begun(t)]
  /\ due' = Taken(t)
  /\ UNCHANGED work

\* The files have been looked at, and the items are counted.
CountItems(t) ==
  /\ phase[t] = "working" /\ saw[t] = "none"
  /\ saw' = [saw EXCEPT ![t] = CASE work[pkg[t]] = "open" -> "open"
                               [] work[pkg[t]] = "unpacked" -> "over"
                               [] OTHER -> "complete"]
  /\ UNCHANGED <<vars, work, due>>

\* What comes of a round: a complete package is unpacked, some of its items are to be
\* downloaded again, or it stays as it is for want of room on the disk.  What an
\* abort has interrupted may have been unpacked before.
Outcomes(t) ==
  IF saw[t] = "complete" /\ work[pkg[t]] = "complete"
  THEN {"complete", "unpacked"} \union (IF t \in aborted THEN {} ELSE {"open"})
  ELSE {work[pkg[t]]}

Ended_AlwaysCollapsed(t, wanted, now) == {FALSE}

\* Whether another round follows: one is wanted, and it is not dropped after a quick
\* round of a package that is not complete.
Ended(t, wanted, now) ==
  IF ~wanted THEN {FALSE} ELSE IF now = "open" THEN {TRUE, FALSE} ELSE {TRUE}

\* A round of unfinished items may unpack some of them, and then orders another.
SelfOrdered(t) == IF saw[t] = "open" /\ t \notin aborted THEN BOOLEAN ELSE {FALSE}

\* This round was the one that was ordered: it has seen that the package is complete
\* and has done what it can, even if that leaves it as it is.
Answered(t) == saw[t] = "complete" /\ current[pkg[t]] = t

\* The round is over.  The same task begins another or ends; an aborted task may so
\* take the order that was meant for the one that has replaced it.
RoundEnds(t) ==
  LET p == pkg[t]
  IN  /\ phase[t] = "working" /\ saw[t] # "none"
      /\ \E outcome \in Outcomes(t), more \in SelfOrdered(t) :
           /\ work' = [work EXCEPT ![p] = outcome]
           /\ \E again \in Ended(t, more \/ p \in requeue, outcome) :
                IF again
                THEN /\ requeue' = requeue \ {p}
                     /\ saw' = [saw EXCEPT ![t] = Begun(t)]
                     /\ due' = IF outcome # "complete" THEN due \ {p} ELSE Taken(t)
                     /\ UNCHANGED <<slots, phase, pkg, aborted, current, resets>>
                ELSE /\ TaskEnds(t)
                     /\ saw' = [saw EXCEPT ![t] = "none"]
                     /\ due' = IF outcome # "complete" \/ Answered(t) THEN due \ {p} ELSE due

-----------------------------------------------------------------------------
(* What the user withdraws. *)

\* A package is switched off, or reset and downloaded again.
Withdraw(p) ==
  /\ AbortPackage(p)
  /\ \/ UNCHANGED work
     \/ work' = [work EXCEPT ![p] = "open"]
  /\ due' = due \ {p}
  /\ UNCHANGED saw

\* The queue is stopped, or emptied.
WithdrawAll ==
  /\ \/ AbortAll /\ UNCHANGED work
     \/ ClearAll /\ work' = [p \in Packages |-> "open"]
  /\ due' = {}
  /\ UNCHANGED saw

-----------------------------------------------------------------------------
RoundsNext ==
  \/ \E p \in Packages : ItemDone(p) \/ LastItemDone(p) \/ Trigger(p) \/ Withdraw(p)
  \/ \E t \in Tasks : RoundBegins(t) \/ CountItems(t) \/ RoundEnds(t)
  \/ WithdrawAll
  \/ \E n \in Limits : SetLimit(n) /\ UNCHANGED roundVars

RoundsSpec == RoundsInit /\ [][RoundsNext]_allVars

\* Files are read, extractions end, and a task does not repeat its rounds for ever:
\* each repetition has unpacked something or was asked for by an item that is done.
RoundsFairSpec ==
  /\ RoundsSpec
  /\ \A t \in Tasks :
       /\ WF_allVars(RoundBegins(t)) /\ WF_allVars(CountItems(t)) /\ WF_allVars(RoundEnds(t))
       /\ SF_allVars(RoundEnds(t) /\ phase'[t] = "free")

-----------------------------------------------------------------------------
RoundsTypeOK ==
  /\ TypeOK
  /\ work \in [Packages -> Works]
  /\ saw \in [Tasks -> Counts]
  /\ due \in SUBSET Packages

\* No order is lost between the rounds: while a package waits for the extraction that
\* its last item has ordered, a task is on record for it that has yet to count the
\* items, has counted them as complete, or will begin another round.  What the user
\* withdraws is no longer due, nor is an order that went to an aborted task.
OrderIsKept ==
  \A p \in due :
    /\ current[p] # NoTask
    /\ \/ p \in requeue
       \/ phase[current[p]] \in {"waiting", "started"}
       \/ saw[current[p]] \in {"none", "complete"}

\* The order of the last item is answered: the package gets its slot and a round that
\* sees it complete, unless new tasks keep arriving, which packages further up may use
\* to go first.
EveryOrderIsAnswered ==
  <>[][Waiting' \subseteq Waiting]_allVars
    => \A p \in Completing : p \in due ~> p \notin due
=============================================================================

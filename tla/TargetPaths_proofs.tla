------------------------- MODULE TargetPaths_proofs -------------------------
(***************************************************************************)
(* Two downloads never write to one path unless a start has cleared the    *)
(* claim of one of them, for every set of items and paths and every bound. *)
(* The maps of claims are each other's inverse, so a path has one owner;   *)
(* and a task that has chosen its path keeps the claim on it as long as it *)
(* is neither aborted nor robbed of it.  That needs its item to show as    *)
(* being worked on, because what is queued may be skipped and what has     *)
(* failed or was stopped may be queued again.                              *)
(***************************************************************************)
EXTENDS TargetPaths, TLAPS

Maps == [of : [Items -> Paths \union {None}], by : [Paths -> Items \union {None}]]
Ordered(c) ==
  /\ c \in Maps
  /\ \A i \in Items, p \in Paths : c.of[i] = p <=> c.by[p] = i

HasChosen == {"reserve", "open", "fetch", "create", "transfer", "check"}

\* A task that has not been aborted works on an item that says so, and holds the claim
\* on the path it has chosen.
Good(i) ==
  task[i].phase # "none" /\ ~Aborted(i) =>
    /\ item[i].status = "working"
    /\ task[i].phase \in HasChosen /\ i \notin bare =>
         /\ item[i].target # None /\ claims.of[i] = item[i].target
         /\ task[i].phase = "reserve" \/ task[i].path = item[i].target

AllGood == \A i \in Items : Good(i)

IInv == TypeOK /\ ClaimsInOrder /\ AllGood

LEMMA InOrder == ASSUME TypeOK PROVE ClaimsInOrder <=> Ordered(claims)
BY DEF TypeOK, ClaimsInOrder, Ordered, Maps

-----------------------------------------------------------------------------
(* The claims. *)

\* An item without its claim leaves the others as they were.
LEMMA FreedOrdered ==
  ASSUME NEW c, Ordered(c), NEW i \in Items
  PROVE  /\ Ordered(Without(c, i))
         /\ Without(c, i).of[i] = None
         /\ \A j \in Items \ {i} : Without(c, i).of[j] = c.of[j]
         /\ \A p \in Paths : c.by[p] \in {None, i} => Without(c, i).by[p] = None
BY ItemsAssumption, PathsAssumption DEF Ordered, Maps, Without

\* A path that nobody else claims can be claimed.
LEMMA ClaimedOrdered ==
  ASSUME Ordered(claims), NEW i \in Items, NEW p \in Paths, Released(i).by[p] = None
  PROVE  /\ Ordered(Claimed(i, p))
         /\ Claimed(i, p).of[i] = p
         /\ \A j \in Items \ {i} : Claimed(i, p).of[j] = claims.of[j]
<1> DEFINE free == Released(i)
<1>1. /\ Ordered(free)
      /\ free.of[i] = None
      /\ \A j \in Items \ {i} : free.of[j] = claims.of[j]
  BY FreedOrdered DEF Released
<1>2. Claimed(i, p) = [of |-> [free.of EXCEPT ![i] = p], by |-> [free.by EXCEPT ![p] = i]]
  BY DEF Claimed
<1> HIDE DEF free
<1>3. free.by[p] = None
  BY DEF free
<1> QED BY <1>1, <1>2, <1>3, ItemsAssumption, PathsAssumption DEF Ordered, Maps

\* The search ends at a path that nobody else claims.
LEMMA FoundIsFree ==
  ASSUME NEW i \in Items, NEW preferred \in Paths, NEW reuse,
         NEW p \in Found(i, preferred, reuse)
  PROVE  p \in Paths /\ Released(i).by[p] = None
BY DEF Found, Candidate

-----------------------------------------------------------------------------
(* Steps that concern one item. *)

\* The others keep their item, task and claim; what becomes of this one is in order.
Local(i) ==
  /\ \E t \in TaskStates : /\ task' = [task EXCEPT ![i] = t]
                           /\ t.phase = "claim" => t.path # None
  /\ \E s \in ItemStates : item' = [item EXCEPT ![i] = s]
  /\ Ordered(claims')
  /\ \A j \in Items \ {i} : claims'.of[j] = claims.of[j]
  /\ bare' \subseteq Items
  /\ \A j \in Items \ {i} : j \in bare' <=> j \in bare
  /\ running' \in BOOLEAN /\ pendingStarts' \in Nat /\ loop' \in BOOLEAN
  /\ retryAfter' \subseteq Items
  /\ disk' \in [Paths -> [by : Items \union {None}, whole : BOOLEAN]]
  /\ calls' \in Nat /\ trouble' \in Nat

LEMMA LocalKeeps ==
  ASSUME IInv, NEW i \in Items, Local(i), Good(i)'
  PROVE  IInv'
<1>1. /\ task \in [Items -> TaskStates] /\ item \in [Items -> ItemStates]
      /\ \A j \in Items : task[j].phase = "claim" => task[j].path # None
  BY DEF IInv, TypeOK
<1>2. PICK t \in TaskStates : task' = [task EXCEPT ![i] = t] /\ (t.phase = "claim" => t.path # None)
  BY DEF Local
<1>3. PICK s \in ItemStates : item' = [item EXCEPT ![i] = s]
  BY DEF Local
<1>4. TypeOK'
  <2>1. /\ task' \in [Items -> TaskStates] /\ item' \in [Items -> ItemStates]
        /\ \A j \in Items : task'[j].phase = "claim" => task'[j].path # None
    BY <1>1, <1>2, <1>3
  <2> QED BY <2>1 DEF TypeOK, Local, Ordered, Maps
<1>5. ASSUME NEW j \in Items \ {i} PROVE Good(j)'
  <2>1. task'[j] = task[j] /\ item'[j] = item[j]
    BY <1>1, <1>2, <1>3
  <2>2. Good(j) /\ claims'.of[j] = claims.of[j] /\ (j \in bare' <=> j \in bare)
    BY DEF IInv, AllGood, Local
  <2> QED BY <2>1, <2>2 DEF Good, Aborted
<1> QED BY <1>4, <1>5 DEF IInv, AllGood, Local, Ordered, ClaimsInOrder

\* What follows from the types of the state and is needed throughout.
Usual(i) ==
  /\ task \in [Items -> TaskStates] /\ task[i] \in TaskStates
  /\ item \in [Items -> ItemStates] /\ item[i] \in ItemStates
  /\ item[i].target \in Paths \union {None} /\ task[i].path \in Paths \union {None}
  /\ Ordered(claims) /\ claims.of[i] \in Paths \union {None}
  /\ bare \subseteq Items /\ retryAfter \subseteq Items
  /\ running \in BOOLEAN /\ pendingStarts \in Nat /\ loop \in BOOLEAN
  /\ disk \in [Paths -> [by : Items \union {None}, whole : BOOLEAN]]
  /\ calls \in Nat /\ trouble \in Nat
  /\ Good(i)

LEMMA UsualState == ASSUME IInv, NEW i \in Items PROVE Usual(i)
BY InOrder DEF IInv, TypeOK, Usual, AllGood, Ordered, Maps, TaskStates, ItemStates

\* An item with another status, for one
LEMMA Shown ==
  ASSUME NEW r \in ItemStates, NEW s \in Statuses
  PROVE  [r EXCEPT !.status = s] \in ItemStates
BY DEF ItemStates

LEMMA DeletedTyped ==
  ASSUME NEW i \in Items, Usual(i), NEW p \in Paths \union {None}
  PROVE  Deleted(p) \in [Paths -> [by : Items \union {None}, whole : BOOLEAN]]
BY DEF Usual, Deleted, NoFile

\* An item gets a path nobody else claims, and the other items keep theirs.
LEMMA HasPathKeeps ==
  ASSUME IInv, NEW i \in Items, NEW p \in Paths, HasPath(i, p), Released(i).by[p] = None,
         task[i].phase # "none", UNCHANGED <<queue, retryAfter, disk, bare, calls, trouble>>
  PROVE  IInv'
<1> DEFINE t == [task[i] EXCEPT !.phase = "reserve", !.path = p, !.reuse = FALSE, !.saw = FALSE]
           s == [item[i] EXCEPT !.target = p, !.known = TRUE]
<1>1. Usual(i) /\ p # None
  BY UsualState, PathsAssumption
<1>2. t \in TaskStates /\ t.phase = "reserve" /\ t.reason = task[i].reason
  BY <1>1 DEF Usual, TaskStates, Phases
<1>3. s \in ItemStates /\ s.target = p /\ s.status = item[i].status
  BY <1>1 DEF Usual, ItemStates
<1>4. task' = [task EXCEPT ![i] = t] /\ item' = [item EXCEPT ![i] = s]
  BY <1>1 DEF HasPath, Usual
<1> HIDE DEF t, s
<1>5. /\ Ordered(claims')
      /\ claims'.of[i] = p
      /\ \A j \in Items \ {i} : claims'.of[j] = claims.of[j]
  BY <1>1, ClaimedOrdered DEF HasPath, Usual
<1>6. Local(i)
  BY <1>1, <1>2, <1>3, <1>4, <1>5 DEF Local, Usual, queue
<1>7. task'[i] = t /\ item'[i] = s
  BY <1>1, <1>4 DEF Usual
<1>8. Good(i)'
  BY <1>1, <1>2, <1>3, <1>5, <1>7 DEF Usual, Good, Aborted
<1> QED BY <1>6, <1>8, LocalKeeps

\* A task ends: its claim stays or goes, and that of nobody else.
LEMMA EndsKeeps ==
  ASSUME IInv, NEW i \in Items, NEW after, Ordered(after),
         \A j \in Items \ {i} : after.of[j] = claims.of[j],
         NEW keys \in SUBSET Items, Ends(i, after, keys),
         NEW s \in ItemStates, item' = [item EXCEPT ![i] = s],
         disk' \in [Paths -> [by : Items \union {None}, whole : BOOLEAN]],
         UNCHANGED queue, calls' \in Nat, trouble' \in Nat
  PROVE  IInv'
<1>1. Usual(i)
  BY UsualState
<1>2. /\ Ordered(claims')
      /\ \A j \in Items \ {i} : claims'.of[j] = claims.of[j]
  BY FreedOrdered DEF Ends
<1>3. NoTask \in TaskStates /\ NoTask.phase = "none"
  BY DEF NoTask, TaskStates, Phases
<1>4. task' = [task EXCEPT ![i] = NoTask] /\ task'[i] = NoTask
  BY <1>1 DEF Ends, Usual
<1>5. bare' = bare \ {i} /\ retryAfter' = keys
  BY DEF Ends
<1>6. Local(i)
  BY <1>1, <1>2, <1>3, <1>4, <1>5 DEF Local, Usual, queue
<1>7. Good(i)'
  BY <1>3, <1>4 DEF Good
<1> QED BY <1>6, <1>7, LocalKeeps

\* A task goes on to another await, and its claim stays with it.
LEMMA GoesKeeps ==
  ASSUME IInv, NEW i \in Items,
         NEW t \in TaskStates, task' = [task EXCEPT ![i] = t],
         t.phase = "claim" => t.path # None,
         NEW s \in ItemStates, item' = [item EXCEPT ![i] = s],
         disk' \in [Paths -> [by : Items \union {None}, whole : BOOLEAN]],
         UNCHANGED <<queue, claims, bare>>, retryAfter' \subseteq Items,
         calls' \in Nat, trouble' \in Nat,
         t.phase # "none" /\ t.reason = "none" =>
           /\ s.status = "working"
           /\ t.phase \in HasChosen /\ i \notin bare =>
                /\ s.target # None /\ claims.of[i] = s.target
                /\ t.phase = "reserve" \/ t.path = s.target
  PROVE  IInv'
<1>1. Usual(i)
  BY UsualState
<1>2. Local(i)
  BY <1>1 DEF Local, Usual, queue
<1>3. task'[i] = t /\ item'[i] = s
  BY <1>1 DEF Usual
<1>4. Good(i)'
  BY <1>3 DEF Good, Aborted
<1> QED BY <1>2, <1>4, LocalKeeps

-----------------------------------------------------------------------------
(* The steps of a task. *)

LEMMA SetupKeeps ==
  ASSUME IInv, NEW i \in Items,
         Launch(i) \/ Converted(i) \/ FolderMade(i) \/ Reserved(i)
  PROVE  IInv'
<1>1. Usual(i)
  BY UsualState
<1>2. CASE Launch(i)
  <2> DEFINE t == [task[i] EXCEPT !.phase = "convert"]
             s == [item[i] EXCEPT !.status = "working"]
  <2>1. t \in TaskStates /\ t.phase = "convert"
    BY <1>1 DEF Usual, TaskStates, Phases
  <2>2. s \in ItemStates /\ s.status = "working"
    BY <1>1 DEF Usual, ItemStates, Statuses
  <2>3. task' = [task EXCEPT ![i] = t] /\ item' = [item EXCEPT ![i] = s]
    BY <1>1, <1>2 DEF Launch, Goes, Usual
  <2> HIDE DEF t, s
  <2> QED BY <1>1, <1>2, <2>1, <2>2, <2>3, GoesKeeps DEF Launch, Usual, queue, HasChosen
<1>3. CASE Converted(i)
  <2> DEFINE t == [task[i] EXCEPT !.phase = "folder"]
  <2>1. t \in TaskStates /\ t.phase = "folder" /\ t.reason = task[i].reason
    BY <1>1 DEF Usual, TaskStates, Phases
  <2>2. task' = [task EXCEPT ![i] = t] /\ item' = [item EXCEPT ![i] = item[i]]
    BY <1>1, <1>3 DEF Converted, Goes, Usual
  <2>3. t.reason = "none" => item[i].status = "working"
    BY <1>1, <1>3, <2>1 DEF Usual, Good, Aborted, Converted, At
  <2> HIDE DEF t
  <2> QED BY <1>1, <1>3, <2>1, <2>2, <2>3, GoesKeeps DEF Converted, Usual, queue, HasChosen
<1>4. CASE FolderMade(i)
  <2> DEFINE t == [task[i] EXCEPT !.phase = "look", !.path = item[i].target]
  <2>1. t \in TaskStates /\ t.phase = "look" /\ t.reason = task[i].reason
    BY <1>1 DEF Usual, TaskStates, Phases
  <2>2. task' = [task EXCEPT ![i] = t] /\ item' = [item EXCEPT ![i] = item[i]]
    BY <1>1, <1>4 DEF FolderMade, Usual
  <2>3. t.reason = "none" => item[i].status = "working"
    BY <1>1, <1>4, <2>1 DEF Usual, Good, Aborted, FolderMade, At
  <2> HIDE DEF t
  <2>4. UNCHANGED <<queue, claims, bare, retryAfter, disk, calls, trouble>>
    BY <1>4 DEF FolderMade
  <2> QED BY <1>1, <2>1, <2>2, <2>3, <2>4, GoesKeeps DEF Usual, HasChosen
<1>5. CASE Reserved(i)
  <2> DEFINE t == [task[i] EXCEPT !.phase = "open", !.path = item[i].target]
             s == [item[i] EXCEPT !.status = Showing(i, "working")]
  <2>1. /\ t \in TaskStates /\ t.phase = "open" /\ t.reason = task[i].reason
        /\ t.path = item[i].target
    BY <1>1 DEF Usual, TaskStates, Phases
  <2>2. /\ s \in ItemStates /\ s.target = item[i].target
        /\ item[i].status = "working" => s.status = "working"
    BY <1>1 DEF Usual, ItemStates, Statuses, Showing, Gone
  <2>3. task' = [task EXCEPT ![i] = t] /\ item' = [item EXCEPT ![i] = s]
    BY <1>1, <1>5 DEF Reserved, Usual
  <2>4. t.reason = "none" => /\ item[i].status = "working"
                             /\ i \notin bare => item[i].target # None /\ claims.of[i] = item[i].target
    BY <1>1, <1>5, <2>1 DEF Usual, Good, Aborted, Reserved, At, HasChosen
  <2> HIDE DEF t, s
  <2>5. UNCHANGED <<queue, claims, bare, retryAfter, disk, calls, trouble>>
    BY <1>5 DEF Reserved
  <2> QED BY <1>1, <2>1, <2>2, <2>3, <2>4, <2>5, GoesKeeps DEF Usual
<1> QED BY <1>2, <1>3, <1>4, <1>5

\* The choice of a path.
LEMMA ChoiceKeeps ==
  ASSUME IInv, NEW i \in Items, Looked(i) \/ Claims(i)
  PROVE  IInv'
<1>1. Usual(i) /\ 0 \in Paths /\ None \notin Paths
  BY UsualState, PathsAssumption
<1>2. CASE Looked(i)
  <2> DEFINE mine == task[i].path
             reuse == mine # None /\ (item[i].begun \/ Exists(mine))
             preferred == IF reuse THEN mine ELSE 0
  <2>1. preferred \in Paths
    BY <1>1 DEF Usual
  <2>2. task[i].phase # "none" /\ UNCHANGED <<queue, retryAfter, disk, bare, calls, trouble>>
    BY <1>2 DEF Looked, At
  <2>3. CASE claims.of[i] = preferred /\ claims.by[preferred] = i /\ HasPath(i, preferred)
    <3>1. Released(i).by[preferred] = None
      BY <1>1, <2>1, <2>3, FreedOrdered DEF Usual, Released
    <3> HIDE DEF preferred
    <3> QED BY <2>1, <2>2, <2>3, <3>1, HasPathKeeps
  <2>4. CASE \E p \in Found(i, preferred, reuse) : HasPath(i, p)
    <3> HIDE DEF preferred, reuse
    <3> QED BY <2>1, <2>2, <2>4, FoundIsFree, HasPathKeeps
  <2>5. CASE /\ task' = [task EXCEPT ![i] =
                  [@ EXCEPT !.phase = "claim", !.path = preferred, !.reuse = reuse,
                            !.saw = Exists(preferred)]]
             /\ UNCHANGED <<item, claims>>
    <3> DEFINE t == [task[i] EXCEPT !.phase = "claim", !.path = preferred, !.reuse = reuse,
                                    !.saw = Exists(preferred)]
    <3>1. reuse \in BOOLEAN /\ Exists(preferred) \in BOOLEAN
      BY <1>1 DEF Exists, Usual, ItemStates
    <3>2. task' = [task EXCEPT ![i] = t] /\ item' = [item EXCEPT ![i] = item[i]]
      BY <1>1, <2>5 DEF Usual
    <3> HIDE DEF preferred, reuse
    <3>3. /\ t \in TaskStates /\ t.phase = "claim" /\ t.reason = task[i].reason
          /\ t.path # None
      BY <1>1, <2>1, <3>1 DEF Usual, TaskStates, Phases
    <3>4. t.reason = "none" => item[i].status = "working"
      BY <1>1, <2>2, <3>3 DEF Usual, Good, Aborted
    <3> HIDE DEF t
    <3> QED BY <1>1, <2>2, <2>5, <3>2, <3>3, <3>4, GoesKeeps DEF Usual, queue, HasChosen
  <2> QED BY <1>2, <2>3, <2>4, <2>5 DEF Looked
<1>3. CASE Claims(i)
  <2> DEFINE preferred == task[i].path
             reuse == task[i].reuse
  <2>1. preferred \in Paths
    BY <1>1, <1>3 DEF IInv, TypeOK, Usual, Claims, At
  <2>2. task[i].phase # "none" /\ UNCHANGED <<queue, retryAfter, disk, bare, calls, trouble>>
    BY <1>3 DEF Claims, At
  <2>3. CASE claims.by[preferred] \in {None, i} /\ HasPath(i, preferred)
    <3>1. Released(i).by[preferred] = None
      BY <1>1, <2>1, <2>3, FreedOrdered DEF Usual, Released
    <3> HIDE DEF preferred
    <3> QED BY <2>1, <2>2, <2>3, <3>1, HasPathKeeps
  <2>4. CASE \E p \in Found(i, preferred, reuse) : HasPath(i, p)
    <3> HIDE DEF preferred, reuse
    <3> QED BY <2>1, <2>2, <2>4, FoundIsFree, HasPathKeeps
  <2> QED BY <1>3, <2>3, <2>4 DEF Claims
<1> QED BY <1>2, <1>3

\* The transfer and what comes of it, as long as the task goes on.
LEMMA TransferKeeps ==
  ASSUME IInv, NEW i \in Items,
         \/ Inspected(i) \/ Fetched(i) \/ Created(i) \/ ChunkWritten(i) \/ TransferDone(i)
         \/ DigestFails(i) \/ TooSmall(i) \/ Fails(i)
  PROVE  IInv'
<1> DEFINE Disks == [Paths -> [by : Items \union {None}, whole : BOOLEAN]]
           Holds == /\ item[i].status = "working"
                    /\ i \notin bare => /\ item[i].target # None
                                        /\ claims.of[i] = item[i].target
                                        /\ task[i].path = item[i].target
<1>1. Usual(i)
  BY UsualState
<1>2. task[i].phase \in HasChosen \ {"reserve"} /\ ~Aborted(i) => Holds
  BY <1>1 DEF Usual, Good, HasChosen
<1>3. ASSUME NEW phase \in HasChosen \ {"reserve"}, Goes(i, phase),
             task[i].phase \in HasChosen \ {"reserve"},
             UNCHANGED <<queue, item, claims, bare, retryAfter, calls, trouble>>,
             disk' \in Disks
      PROVE  IInv'
  <2> DEFINE t == [task[i] EXCEPT !.phase = phase]
  <2>1. t \in TaskStates /\ t.phase = phase /\ t.reason = task[i].reason /\ t.path = task[i].path
    BY <1>1 DEF Usual, TaskStates, Phases, HasChosen
  <2>2. task' = [task EXCEPT ![i] = t] /\ item' = [item EXCEPT ![i] = item[i]]
    BY <1>1, <1>3 DEF Goes, Usual
  <2>3. t.phase # "claim"
    BY <2>1 DEF HasChosen
  <2>4. t.reason = "none" => Holds
    BY <1>2, <1>3, <2>1 DEF Aborted
  <2>5. /\ UNCHANGED <<queue, claims, bare>> /\ retryAfter' \subseteq Items
        /\ calls' \in Nat /\ trouble' \in Nat
        /\ disk' \in [Paths -> [by : Items \union {None}, whole : BOOLEAN]]
    BY <1>1, <1>3 DEF Usual
  <2>6. t.reason = "none" =>
          /\ item[i].status = "working"
          /\ i \notin bare => /\ item[i].target # None /\ claims.of[i] = item[i].target
                              /\ t.path = item[i].target
    BY <2>1, <2>4
  <2>7. item[i] \in ItemStates
    BY <1>1 DEF Usual
  <2> HIDE DEF t, Holds, Disks
  <2> QED BY <2>1, <2>2, <2>3, <2>5, <2>6, <2>7, GoesKeeps
<1>4. CASE Inspected(i)
  <2>1. disk' \in Disks
    BY <1>1, <1>4 DEF Inspected, Usual, Exists
  <2> QED BY <1>3, <1>4, <2>1 DEF Inspected, At, HasChosen
<1>5. CASE Fetched(i)
  BY <1>1, <1>3, <1>5 DEF Fetched, At, HasChosen, Usual
<1>6. CASE Created(i)
  <2>1. disk' \in Disks
    BY <1>1, <1>6 DEF Created, Usual
  <2> QED BY <1>3, <1>6, <2>1 DEF Created, At, HasChosen
<1>7. CASE ChunkWritten(i)
  <2> DEFINE s == [item[i] EXCEPT !.begun = TRUE, !.status = Showing(i, "working")]
  <2>1. /\ s \in ItemStates /\ s.target = item[i].target
        /\ item[i].status = "working" => s.status = "working"
    BY <1>1 DEF Usual, ItemStates, Statuses, Showing, Gone
  <2>2. task' = [task EXCEPT ![i] = task[i]] /\ item' = [item EXCEPT ![i] = s]
    BY <1>1, <1>7 DEF ChunkWritten, Usual
  <2>3. /\ UNCHANGED <<queue, claims, bare, retryAfter, disk, calls, trouble>>
        /\ task[i].phase = "transfer"
    BY <1>7 DEF ChunkWritten, At
  <2>4. task[i].reason = "none" => Holds
    BY <1>2, <2>3 DEF Aborted, HasChosen
  <2> HIDE DEF s
  <2> QED BY <1>1, <2>1, <2>2, <2>3, <2>4, GoesKeeps DEF Usual
<1>8. CASE TransferDone(i)
  <2>1. disk' \in Disks
    BY <1>1, <1>8 DEF TransferDone, Usual
  <2> QED BY <1>3, <1>8, <2>1 DEF TransferDone, At, HasChosen
<1>9. CASE DigestFails(i)
  <2> DEFINE t == [task[i] EXCEPT !.phase = "open", !.path = item[i].target]
             s == [item[i] EXCEPT !.begun = FALSE]
  <2>1. t \in TaskStates /\ t.phase = "open" /\ t.path = item[i].target
    BY <1>1 DEF Usual, TaskStates, Phases
  <2>2. s \in ItemStates /\ s.target = item[i].target /\ s.status = item[i].status
    BY <1>1 DEF Usual, ItemStates
  <2>3. task' = [task EXCEPT ![i] = t] /\ item' = [item EXCEPT ![i] = s]
    BY <1>1, <1>9 DEF DigestFails, Usual
  <2>4. /\ UNCHANGED <<queue, claims, bare, retryAfter, calls>>
        /\ trouble' \in Nat /\ disk' \in Disks
    BY <1>1, <1>9, DeletedTyped DEF DigestFails, Usual
  <2>5. Holds
    BY <1>2, <1>9 DEF DigestFails, At, HasChosen
  <2> HIDE DEF t, s
  <2> QED BY <1>1, <2>1, <2>2, <2>3, <2>4, <2>5, GoesKeeps DEF Usual
<1>10. CASE TooSmall(i)
  <2> DEFINE t == [task[i] EXCEPT !.phase = "recovery"]
             s == [item[i] EXCEPT !.begun = FALSE]
  <2>1. t \in TaskStates /\ t.phase = "recovery"
    BY <1>1 DEF Usual, TaskStates, Phases
  <2>2. s \in ItemStates /\ s.status = item[i].status
    BY <1>1 DEF Usual, ItemStates
  <2>3. task' = [task EXCEPT ![i] = t] /\ item' = [item EXCEPT ![i] = s]
    BY <1>1, <1>10 DEF TooSmall, Goes, Usual
  <2>4. /\ UNCHANGED <<queue, bare, retryAfter, calls>>
        /\ trouble' \in Nat /\ disk' \in Disks
    BY <1>1, <1>10, DeletedTyped DEF TooSmall, Usual
  <2>5. /\ Ordered(claims')
        /\ \A j \in Items \ {i} : claims'.of[j] = claims.of[j]
    BY <1>1, <1>10, FreedOrdered DEF TooSmall, Released, Usual
  <2>6. Holds
    BY <1>2, <1>10 DEF TooSmall, At, HasChosen
  <2> HIDE DEF t, s
  <2>7. Local(i)
    BY <1>1, <2>1, <2>2, <2>3, <2>4, <2>5 DEF Local, Usual, queue
  <2>8. task'[i] = t /\ item'[i] = s
    BY <1>1, <2>3 DEF Usual
  <2>9. Good(i)'
    BY <2>1, <2>2, <2>6, <2>8 DEF Good, HasChosen
  <2> QED BY <2>7, <2>9, LocalKeeps
<1>11. CASE Fails(i)
  <2> DEFINE t == [task[i] EXCEPT !.phase = "recovery"]
  <2>1. t \in TaskStates /\ t.phase = "recovery"
    BY <1>1 DEF Usual, TaskStates, Phases
  <2>2. task' = [task EXCEPT ![i] = t] /\ item' = [item EXCEPT ![i] = item[i]]
    BY <1>1, <1>11 DEF Fails, Goes, Usual
  <2>3. /\ UNCHANGED <<queue, claims, bare, retryAfter, disk, calls>>
        /\ trouble' \in Nat
    BY <1>1, <1>11 DEF Fails, Usual
  <2>4. item[i].status = "working"
    BY <1>1, <1>11 DEF Fails, Usual, Good
  <2> HIDE DEF t
  <2> QED BY <1>1, <2>1, <2>2, <2>3, <2>4, GoesKeeps DEF Usual, HasChosen
<1> QED BY <1>4, <1>5, <1>6, <1>7, <1>8, <1>9, <1>10, <1>11

\* The end of a task, with whatever outcome.
LEMMA EndKeeps ==
  ASSUME IInv, NEW i \in Items,
         \/ DiskFull(i) \/ CheckPasses(i) \/ RecoveryFinalizes(i) \/ RetryResumes(i)
         \/ RetryAnew(i) \/ GivesUp(i) \/ Unwind(i)
  PROVE  IInv'
<1> DEFINE Disks == [Paths -> [by : Items \union {None}, whole : BOOLEAN]]
<1>1. Usual(i) /\ Deleted(item[i].target) \in Disks /\ Deleted(claims.of[i]) \in Disks
  BY UsualState, DeletedTyped DEF Usual
<1>2. /\ Ordered(claims) /\ Ordered(Released(i))
      /\ \A j \in Items \ {i} : Released(i).of[j] = claims.of[j]
  BY <1>1, FreedOrdered DEF Usual, Released
<1>3. /\ retryAfter \in SUBSET Items /\ retryAfter \union {i} \in SUBSET Items
      /\ \A s \in Statuses : Showing(i, s) \in Statuses
      /\ {"queued", "completed", "failed", "stopped"} \subseteq Statuses
  BY <1>1 DEF Usual, Showing, Statuses
<1>4. ASSUME NEW shown \in Statuses, item' = [item EXCEPT ![i].status = shown],
             disk' \in Disks, UNCHANGED queue, calls' \in Nat, trouble' \in Nat,
             \/ Ends(i, claims, retryAfter)
             \/ Requeues(i, claims) \/ Requeues(i, Released(i))
      PROVE  IInv'
  <2> DEFINE s == [item[i] EXCEPT !.status = shown]
  <2>1. s \in ItemStates
    BY <1>1, Shown DEF Usual
  <2>2. item' = [item EXCEPT ![i] = s]
    BY <1>1, <1>4 DEF Usual
  <2> HIDE DEF s
  <2>3. disk' \in Disks /\ UNCHANGED queue /\ calls' \in Nat /\ trouble' \in Nat
    BY <1>4
  <2>4. CASE Ends(i, claims, retryAfter)
    BY <1>2, <1>3, <2>1, <2>2, <2>3, <2>4, EndsKeeps
  <2>5. CASE Requeues(i, claims)
    BY <1>2, <1>3, <2>1, <2>2, <2>3, <2>5, EndsKeeps DEF Requeues
  <2>6. CASE Requeues(i, Released(i))
    BY <1>2, <1>3, <2>1, <2>2, <2>3, <2>6, EndsKeeps DEF Requeues
  <2> QED BY <1>4, <2>4, <2>5, <2>6
<1>5. CASE DiskFull(i)
  <2>1. /\ Requeues(i, Released(i)) /\ UNCHANGED queue
        /\ calls' \in Nat /\ trouble' \in Nat /\ disk' \in Disks
    BY <1>1, <1>5 DEF DiskFull, Usual
  <2>2. item' = [item EXCEPT ![i].status = Showing(i, "queued")]
    BY <1>5 DEF DiskFull
  <2> HIDE DEF Disks
  <2> QED BY <1>3, <1>4, <2>1, <2>2
<1>6. CASE CheckPasses(i)
  BY <1>1, <1>3, <1>4, <1>6 DEF CheckPasses, Usual
<1>7. CASE RecoveryFinalizes(i)
  <2> DEFINE s == [item[i] EXCEPT !.status = "completed", !.begun = TRUE]
  <2>1. s \in ItemStates
    BY <1>1 DEF Usual, ItemStates, Statuses
  <2>2. item' = [item EXCEPT ![i] = s]
    BY <1>1, <1>7 DEF RecoveryFinalizes, Usual
  <2>3. Ends(i, claims, retryAfter) /\ UNCHANGED <<queue, disk, calls, trouble>>
    BY <1>7 DEF RecoveryFinalizes
  <2> HIDE DEF s
  <2> QED BY <1>1, <1>2, <1>3, <2>1, <2>2, <2>3, EndsKeeps DEF Usual
<1>8. CASE RetryResumes(i)
  BY <1>1, <1>3, <1>4, <1>8 DEF RetryResumes, Usual
<1>9. CASE RetryAnew(i)
  <2> DEFINE s == [item[i] EXCEPT !.status = Showing(i, "queued"), !.begun = FALSE, !.known = FALSE]
  <2>1. s \in ItemStates
    BY <1>1, <1>3 DEF Usual, ItemStates
  <2>2. item' = [item EXCEPT ![i] = s]
    BY <1>1, <1>9 DEF RetryAnew, Usual
  <2>3. /\ Ends(i, Released(i), retryAfter \union {i})
        /\ UNCHANGED <<queue, calls, trouble>> /\ disk' \in Disks
    BY <1>1, <1>9 DEF RetryAnew, Requeues
  <2> HIDE DEF s
  <2> QED BY <1>1, <1>2, <1>3, <2>1, <2>2, <2>3, EndsKeeps DEF Usual
<1>10. CASE GivesUp(i)
  BY <1>1, <1>3, <1>4, <1>10 DEF GivesUp, Usual
<1>11. CASE Unwind(i)
  <2>1. Ends(i, claims, retryAfter) /\ UNCHANGED <<queue, calls, trouble>>
    BY <1>11 DEF Unwind, Unwinds
  <2>2. disk' \in Disks
    BY <1>1, <1>11 DEF Unwind, Unwinds, Usual
  <2>3. CASE item' = [item EXCEPT ![i].status = Showing(i, "stopped")]
    BY <1>1, <1>3, <1>4, <2>1, <2>2, <2>3 DEF Usual
  <2>4. CASE item' = item
    <3>1. item' = [item EXCEPT ![i] = item[i]]
      BY <1>1, <2>4 DEF Usual
    <3> QED BY <1>1, <1>2, <1>3, <2>1, <2>2, <3>1, EndsKeeps DEF Usual
  <2> QED BY <1>11, <2>3, <2>4 DEF Unwind, Unwinds
<1> QED BY <1>5, <1>6, <1>7, <1>8, <1>9, <1>10, <1>11

LEMMA TaskStepsKeep ==
  ASSUME IInv, NEW i \in Items, TaskSteps(i)
  PROVE  IInv'
BY SetupKeeps, ChoiceKeeps, TransferKeeps, EndKeeps DEF TaskSteps
-----------------------------------------------------------------------------
(* What the user does to one item, and what a start makes of a failed one. *)

\* The task of an item, if there is one, is aborted; so it needs no claim any more.
LEMMA AbortedForGood ==
  ASSUME IInv, NEW i \in Items, NEW reason \in {"stop", "reset", "cancel"},
         task' = AbortedFor(i, reason)
  PROVE  /\ \E t \in TaskStates : /\ task' = [task EXCEPT ![i] = t]
                                  /\ t.phase = "claim" => t.path # None
         /\ Good(i)'
<1> DEFINE t == [task[i] EXCEPT !.reason = reason]
<1>1. Usual(i) /\ (task[i].phase = "claim" => task[i].path # None)
  BY UsualState DEF IInv, TypeOK
<1>2. t \in TaskStates /\ t.phase = task[i].phase /\ t.path = task[i].path /\ t.reason = reason
  BY <1>1 DEF Usual, TaskStates
<1>3. CASE i \in Live
  <2>1. task' = [task EXCEPT ![i] = t]
    BY <1>1, <1>3 DEF AbortedFor, Usual
  <2> HIDE DEF t
  <2>2. task'[i] = t
    BY <1>1, <2>1 DEF Usual
  <2> QED BY <1>1, <1>2, <2>1, <2>2 DEF Good, Aborted
<1>4. CASE i \notin Live
  <2>1. task' = [task EXCEPT ![i] = task[i]] /\ task'[i] = task[i]
    BY <1>1, <1>4 DEF AbortedFor, Usual
  <2> QED BY <1>1, <1>4, <2>1 DEF Good, Live, Usual
<1> QED BY <1>3, <1>4

LEMMA ResetKeeps == ASSUME IInv, NEW i \in Items, Reset(i) PROVE IInv'
<1> DEFINE s == [status |-> "queued", target |-> None, begun |-> FALSE, known |-> FALSE]
<1>1. Usual(i) /\ Deleted(item[i].target) \in [Paths -> [by : Items \union {None}, whole : BOOLEAN]]
  BY UsualState, DeletedTyped DEF Usual
<1>2. s \in ItemStates
  BY DEF ItemStates, Statuses
<1>3. item' = [item EXCEPT ![i] = s]
  BY DEF Reset
<1> HIDE DEF s
<1>4. /\ \E t \in TaskStates : /\ task' = [task EXCEPT ![i] = t]
                               /\ t.phase = "claim" => t.path # None
      /\ Good(i)'
  BY AbortedForGood DEF Reset
<1>5. /\ Ordered(claims')
      /\ \A j \in Items \ {i} : claims'.of[j] = claims.of[j]
  BY <1>1, FreedOrdered DEF Reset, Released, Usual
<1>6. /\ UNCHANGED <<queue, bare, trouble>> /\ calls' \in Nat /\ retryAfter' \subseteq Items
      /\ disk' \in [Paths -> [by : Items \union {None}, whole : BOOLEAN]]
  BY <1>1 DEF Reset, Call, Usual
<1>7. Local(i)
  BY <1>1, <1>2, <1>3, <1>4, <1>5, <1>6 DEF Local, Usual, queue
<1> QED BY <1>4, <1>7, LocalKeeps

LEMMA RemoveKeeps ==
  ASSUME IInv, NEW i \in Items, NEW preserveFiles \in BOOLEAN, Remove(i, preserveFiles)
  PROVE  IInv'
<1> DEFINE s == [item[i] EXCEPT !.status = "removed"]
<1>1. Usual(i)
  BY UsualState
<1>2. s \in ItemStates
  BY <1>1 DEF Usual, ItemStates, Statuses
<1>3. item' = [item EXCEPT ![i] = s]
  BY <1>1 DEF Remove, Usual
<1> HIDE DEF s
<1>4. /\ \E t \in TaskStates : /\ task' = [task EXCEPT ![i] = t]
                               /\ t.phase = "claim" => t.path # None
      /\ Good(i)'
  BY AbortedForGood DEF Remove
<1>5. /\ Ordered(claims')
      /\ \A j \in Items \ {i} : claims'.of[j] = claims.of[j]
  BY <1>1, FreedOrdered DEF Remove, Released, Usual
<1>6. UNCHANGED <<queue, disk, bare, trouble>> /\ calls' \in Nat /\ retryAfter' \subseteq Items
  BY <1>1 DEF Remove, Call, Usual
<1>7. Local(i)
  BY <1>1, <1>2, <1>3, <1>4, <1>5, <1>6 DEF Local, Usual, queue
<1> QED BY <1>4, <1>7, LocalKeeps

\* A queued item has no task but an aborted one, and a failed one has none to begin with.
LEMMA SkipKeeps == ASSUME IInv, NEW i \in Items, Skip(i) PROVE IInv'
<1> DEFINE s == [item[i] EXCEPT !.status = "skipped"]
<1>1. Usual(i) /\ (task[i].phase = "claim" => task[i].path # None)
  BY UsualState DEF IInv, TypeOK
<1>2. s \in ItemStates
  BY <1>1 DEF Usual, ItemStates, Statuses
<1>3. item' = [item EXCEPT ![i] = s]
  BY <1>1 DEF Skip, Usual
<1> HIDE DEF s
<1>4. task' = [task EXCEPT ![i] = task[i]] /\ task' = task
  BY <1>1 DEF Skip, Usual
<1>5. /\ Ordered(claims')
      /\ \A j \in Items \ {i} : claims'.of[j] = claims.of[j]
  BY <1>1, FreedOrdered DEF Skip, Released, Usual
<1>6. UNCHANGED <<queue, disk, bare, trouble>> /\ calls' \in Nat /\ retryAfter' \subseteq Items
  BY <1>1 DEF Skip, Call, Usual
<1>7. Local(i)
  BY <1>1, <1>2, <1>3, <1>4, <1>5, <1>6 DEF Local, Usual, queue
<1>8. Good(i)'
  BY <1>1, <1>4 DEF Skip, Usual, Good, Aborted
<1> QED BY <1>7, <1>8, LocalKeeps

LEMMA StartRequeuesKeeps == ASSUME IInv, NEW i \in Items, StartRequeues(i) PROVE IInv'
<1>1. /\ Usual(i) /\ (task[i].phase = "claim" => task[i].path # None)
      /\ Deleted(item[i].target) \in [Paths -> [by : Items \union {None}, whole : BOOLEAN]]
  BY UsualState, DeletedTyped DEF Usual, IInv, TypeOK
<1>2. \E s \in ItemStates : item' = [item EXCEPT ![i] = s]
  <2> DEFINE r == [item[i] EXCEPT !.status = "queued"]
             s == [item[i] EXCEPT !.status = "queued", !.begun = FALSE, !.known = FALSE]
  <2>1. r \in ItemStates /\ s \in ItemStates
    BY <1>1 DEF Usual, ItemStates, Statuses
  <2>2. item' = [item EXCEPT ![i] = r] \/ item' = [item EXCEPT ![i] = s]
    BY <1>1 DEF StartRequeues, Usual
  <2> HIDE DEF r, s
  <2> QED BY <2>1, <2>2
<1>3. task' = [task EXCEPT ![i] = task[i]] /\ task' = task
  BY <1>1 DEF StartRequeues, Usual
<1>4. /\ Ordered(claims')
      /\ \A j \in Items \ {i} : claims'.of[j] = claims.of[j]
  BY <1>1, FreedOrdered DEF StartRequeues, Released, Usual
<1>5. /\ UNCHANGED <<queue, retryAfter, bare, calls, trouble>>
      /\ disk' \in [Paths -> [by : Items \union {None}, whole : BOOLEAN]]
  BY <1>1 DEF StartRequeues, Usual
<1>6. Local(i)
  BY <1>1, <1>2, <1>3, <1>4, <1>5 DEF Local, Usual, queue
<1>7. Good(i)'
  BY <1>3 DEF StartRequeues, Live, Good
<1> QED BY <1>6, <1>7, LocalKeeps

-----------------------------------------------------------------------------
(* Steps of the queue. *)

LEMMA CountersTyped ==
  ASSUME IInv
  PROVE  /\ running \in BOOLEAN /\ pendingStarts \in Nat /\ loop \in BOOLEAN
         /\ calls \in Nat /\ calls + 1 \in Nat
         /\ pendingStarts > 0 => pendingStarts - 1 \in Nat
         /\ pendingStarts + 1 \in Nat
BY DEF IInv, TypeOK

\* No task, claim or item changes.
LEMMA QueueKeeps ==
  ASSUME IInv, Start \/ LoopEnds
  PROVE  IInv'
<1>1. /\ UNCHANGED <<item, task, claims, retryAfter, disk, bare, trouble>>
      /\ running' \in BOOLEAN /\ pendingStarts' \in Nat /\ loop' \in BOOLEAN /\ calls' \in Nat
  BY CountersTyped DEF Start, LoopEnds, Call
<1>2. TypeOK' /\ ClaimsInOrder'
  BY <1>1 DEF IInv, TypeOK, ClaimsInOrder
<1>3. AllGood'
  BY <1>1 DEF IInv, AllGood, Good, Aborted
<1> QED BY <1>2, <1>3 DEF IInv

\* Stopped items are queued again, and the claims stay or are all cleared; a task that
\* had one is robbed of it.
LEMMA RecoveryKeeps ==
  ASSUME IInv, NEW is \in SUBSET Items, item' = Recovered(is),
         AllForgotten \/ UNCHANGED <<claims, retryAfter, bare>>,
         UNCHANGED <<task, disk, trouble>>, calls' \in Nat,
         running' \in BOOLEAN, pendingStarts' \in Nat, loop' \in BOOLEAN
  PROVE  IInv'
<1>1. ASSUME NEW j \in Items
      PROVE  /\ item'[j] \in ItemStates /\ item'[j].target = item[j].target
             /\ item[j].status = "working" => item'[j].status = "working"
  <2> DEFINE s == [item[j] EXCEPT !.status = "queued"]
  <2>1. item[j] \in ItemStates /\ s \in ItemStates /\ s.target = item[j].target
    BY UsualState DEF Usual, ItemStates, Statuses
  <2>2. item'[j] = IF j \in is /\ item[j].status = "stopped" THEN s ELSE item[j]
    BY DEF Recovered
  <2> HIDE DEF s
  <2> QED BY <2>1, <2>2
<1>2. item' \in [Items -> ItemStates]
  BY <1>1 DEF Recovered
<1>3. NoClaims \in Maps /\ Ordered(NoClaims)
  BY ItemsAssumption, PathsAssumption DEF NoClaims, Maps, Ordered
<1>4. /\ claims' \in Maps /\ Ordered(claims')
      /\ retryAfter' \subseteq Items /\ bare' \subseteq Items
  BY <1>3, InOrder DEF IInv, TypeOK, AllForgotten, Live, Maps
<1>5. TypeOK'
  BY <1>2, <1>4 DEF IInv, TypeOK, Maps
<1>6. ClaimsInOrder'
  BY <1>4 DEF Ordered, ClaimsInOrder
<1>7. ASSUME NEW j \in Items PROVE Good(j)'
  <2>1. Usual(j) /\ None \notin Paths
    BY UsualState, PathsAssumption
  <2>2. CASE AllForgotten
    <3>1. j \notin bare' => j \notin bare /\ (task[j].phase = "none" \/ claims.of[j] = None)
      BY <2>2 DEF AllForgotten, Live
    <3> QED BY <1>1, <2>1, <3>1 DEF Usual, Good, Aborted
  <2>3. CASE UNCHANGED <<claims, retryAfter, bare>>
    BY <1>1, <2>1, <2>3 DEF Usual, Good, Aborted
  <2> QED BY <2>2, <2>3
<1> QED BY <1>5, <1>6, <1>7 DEF IInv, AllGood

LEMMA StartsKeep ==
  ASSUME IInv, StartContinues \/ \E is \in SUBSET Items : StartSelected(is)
  PROVE  IInv'
<1>1. CASE StartContinues
  <2>1. /\ item' = Recovered(Items)
        /\ AllForgotten \/ UNCHANGED <<claims, retryAfter, bare>>
        /\ UNCHANGED <<task, disk, calls, trouble>>
    BY <1>1 DEF StartContinues
  <2>2. calls' \in Nat /\ running' \in BOOLEAN /\ pendingStarts' \in Nat /\ loop' \in BOOLEAN
    BY <1>1, CountersTyped DEF StartContinues
  <2> QED BY <2>1, <2>2, RecoveryKeeps
<1>2. ASSUME NEW is \in SUBSET Items, StartSelected(is) PROVE IInv'
  <2>1. /\ item' = Recovered(is)
        /\ AllForgotten \/ UNCHANGED <<claims, retryAfter, bare>>
        /\ UNCHANGED <<task, disk, trouble>>
        /\ calls' \in Nat /\ running' \in BOOLEAN /\ pendingStarts' \in Nat /\ loop' \in BOOLEAN
    BY <1>2, CountersTyped DEF StartSelected, Call
  <2> QED BY <2>1, RecoveryKeeps
<1> QED BY <1>1, <1>2

\* Every task is aborted.
LEMMA StopKeeps == ASSUME IInv, Stop PROVE IInv'
<1>1. ASSUME NEW j \in Items
      PROVE  /\ task'[j] \in TaskStates
             /\ task'[j].phase = task[j].phase /\ task'[j].path = task[j].path
             /\ task[j].phase # "none" => task'[j].reason = "stop"
  BY UsualState DEF Stop, Usual, TaskStates, Live
<1>2. ASSUME NEW j \in Items PROVE item'[j] \in ItemStates
  BY Shown, UsualState DEF Stop, Usual, Statuses
<1>3. /\ task' \in [Items -> TaskStates] /\ item' \in [Items -> ItemStates]
      /\ \A j \in Items : task'[j].phase = "claim" => task'[j].path # None
  BY <1>1, <1>2 DEF Stop, IInv, TypeOK
<1>4. TypeOK'
  <2>1. /\ UNCHANGED <<pendingStarts, loop, claims, disk, bare, trouble>>
        /\ running' \in BOOLEAN /\ calls' \in Nat /\ retryAfter' \subseteq Items
    BY CountersTyped DEF Stop, Call
  <2> QED BY <1>3, <2>1 DEF IInv, TypeOK
<1>5. ClaimsInOrder'
  BY DEF Stop, IInv, ClaimsInOrder
<1>6. AllGood'
  BY <1>1 DEF AllGood, Good, Aborted
<1> QED BY <1>4, <1>5, <1>6 DEF IInv

\* There is no task that could miss its claim.
LEMMA FinishRunKeeps == ASSUME IInv, FinishRun PROVE IInv'
<1>1. NoClaims \in Maps /\ Ordered(NoClaims)
  BY ItemsAssumption, PathsAssumption DEF NoClaims, Maps, Ordered
<1>2. TypeOK'
  BY <1>1 DEF FinishRun, IInv, TypeOK, Maps
<1>3. ClaimsInOrder'
  BY <1>1 DEF FinishRun, Ordered, ClaimsInOrder
<1>4. AllGood'
  BY DEF FinishRun, AllGood, Good, Live
<1> QED BY <1>2, <1>3, <1>4 DEF IInv

-----------------------------------------------------------------------------
(* The theorems. *)

LEMMA InitGood == ASSUME Init PROVE IInv
<1>1. TypeOK
  BY DEF Init, TypeOK, ItemStates, TaskStates, Statuses, Phases, NoTask, NoClaims, NoFile
<1>2. ClaimsInOrder
  BY ItemsAssumption, PathsAssumption DEF Init, ClaimsInOrder, NoClaims
<1>3. AllGood
  BY DEF Init, AllGood, Good, NoTask
<1> QED BY <1>1, <1>2, <1>3 DEF IInv

LEMMA NextKeeps == ASSUME IInv, [Next]_vars PROVE IInv'
<1>1. CASE UNCHANGED vars
  <2>1. TypeOK' /\ ClaimsInOrder'
    BY <1>1 DEF vars, queue, IInv, TypeOK, ClaimsInOrder
  <2>2. AllGood'
    BY <1>1 DEF vars, queue, IInv, AllGood, Good, Aborted
  <2> QED BY <2>1, <2>2 DEF IInv
<1>2. ASSUME NEW i \in Items,
             \/ TaskSteps(i) \/ StartRequeues(i) \/ Reset(i) \/ Skip(i)
             \/ \E preserveFiles \in BOOLEAN : Remove(i, preserveFiles)
      PROVE  IInv'
  BY <1>2, TaskStepsKeep, StartRequeuesKeeps, ResetKeeps, SkipKeeps, RemoveKeeps
<1>3. CASE Start \/ LoopEnds
  BY <1>3, QueueKeeps
<1>4. CASE StartContinues \/ \E is \in SUBSET Items \ {{}} : StartSelected(is)
  BY <1>4, StartsKeep
<1>5. CASE Stop
  BY <1>5, StopKeeps
<1>6. CASE FinishRun
  BY <1>6, FinishRunKeeps
<1> QED BY <1>1, <1>2, <1>3, <1>4, <1>5, <1>6 DEF Next

LEMMA IndInv == Spec => []IInv
<1>1. Init => IInv
  BY InitGood
<1>2. IInv /\ [Next]_vars => IInv'
  BY NextKeeps
<1> QED BY <1>1, <1>2, PTL DEF Spec

\* Every item, task, claim and file is one the code knows of.
THEOREM TypeCorrect == Spec => []TypeOK
<1>1. IInv => TypeOK
  BY DEF IInv
<1> QED BY <1>1, IndInv, PTL

\* claimedTargetPathByItem and reservedTargetPaths are always each other's inverse.
THEOREM ClaimsAreOrdered == Spec => []ClaimsInOrder
<1>1. IInv => ClaimsInOrder
  BY DEF IInv
<1> QED BY <1>1, IndInv, PTL

\* Two downloads write to one path only after a start has cleared the claim of one of
\* them while its task was alive.
THEOREM OneWriterAtATime == Spec => []OneWriter
<1>1. ASSUME IInv PROVE OneWriter
  <2> SUFFICES ASSUME NEW i \in Items, NEW j \in Items, i # j,
                      Writing(i), Writing(j), task[i].path = task[j].path,
                      i \notin bare, j \notin bare
               PROVE  FALSE
    BY DEF OneWriter
  <2>1. ASSUME NEW k \in Items, Writing(k), k \notin bare
        PROVE  task[k].path \in Paths /\ claims.of[k] = task[k].path
    <3>1. Usual(k)
      BY <1>1, UsualState
    <3> QED BY <2>1, <3>1 DEF Writing, Usual, Good, HasChosen
  <2>2. claims.by[task[i].path] = i /\ claims.by[task[i].path] = j
    BY <1>1, <2>1 DEF IInv, ClaimsInOrder
  <2> QED BY <2>2
<1>2. IInv => OneWriter
  BY <1>1
<1> QED BY <1>2, IndInv, PTL

-----------------------------------------------------------------------------
(* The files of items that go away, and of those that stay.                  *)

\* What ties an item's claim, the path it remembers and the path of its task together:
\* a claim is always for the remembered path, and from the opening of its file on the
\* task writes where the item remembers, unless the item was reset.
Opened == {"open", "fetch", "create", "transfer", "check"}

Steady(i) ==
  /\ claims.of[i] \in {None, item[i].target}
  /\ task[i].phase \in {"none", "convert", "folder"} => task[i].path = None
  /\ task[i].phase \in Opened => item[i].target \in {None, task[i].path}
  /\ Aborted(i) => i \in Live

AllSteady == \A i \in Items : Steady(i)

\* One item takes a step and the others keep what they have.
LEMMA StepSteady ==
  ASSUME IInv, AllSteady, NEW i \in Items,
         NEW t \in TaskStates, task' = [task EXCEPT ![i] = t],
         NEW s \in ItemStates, item' = [item EXCEPT ![i] = s],
         \A j \in Items \ {i} : claims'.of[j] = claims.of[j],
         claims'.of[i] \in {None, s.target},
         t.phase \in {"none", "convert", "folder"} => t.path = None,
         t.phase \in Opened => s.target \in {None, t.path},
         t.reason # "none" => t.phase # "none"
  PROVE  AllSteady'
<1>1. task \in [Items -> TaskStates] /\ item \in [Items -> ItemStates]
  BY DEF IInv, TypeOK
<1>2. Steady(i)'
  <2>1. task'[i] = t /\ item'[i] = s
    BY <1>1
  <2> QED BY <2>1 DEF Steady, Aborted, Live
<1>3. ASSUME NEW j \in Items \ {i} PROVE Steady(j)'
  <2>1. task'[j] = task[j] /\ item'[j] = item[j] /\ claims'.of[j] = claims.of[j] /\ Steady(j)
    BY <1>1 DEF AllSteady
  <2> QED BY <2>1 DEF Steady, Aborted, Live
<1> QED BY <1>2, <1>3 DEF AllSteady

\* What an item loses of its claim, no other item gains.
LEMMA WithoutSteady ==
  ASSUME NEW i \in Items, Usual(i), Steady(i)
  PROVE  /\ claims.of[i] \in {None, item[i].target}
         /\ Released(i).of[i] = None
         /\ Without(Released(i), i).of[i] = None
         /\ \A j \in Items \ {i} : /\ Released(i).of[j] = claims.of[j]
                                   /\ Without(Released(i), i).of[j] = claims.of[j]
<1>1. Ordered(Released(i))
  BY FreedOrdered DEF Usual, Released
<1> QED BY <1>1, FreedOrdered DEF Usual, Steady, Released

LEMMA HasPathSteady ==
  ASSUME IInv, AllSteady, NEW i \in Items, NEW p \in Paths, HasPath(i, p)
  PROVE  AllSteady'
<1> DEFINE t == [task[i] EXCEPT !.phase = "reserve", !.path = p, !.reuse = FALSE, !.saw = FALSE]
           s == [item[i] EXCEPT !.target = p, !.known = TRUE]
<1>1. Usual(i) /\ Steady(i)
  BY UsualState DEF AllSteady
<1>2. t \in TaskStates /\ t.phase = "reserve"
  BY <1>1 DEF Usual, TaskStates, Phases
<1>3. s \in ItemStates /\ s.target = p
  BY <1>1 DEF Usual, ItemStates
<1>4. task' = [task EXCEPT ![i] = t] /\ item' = [item EXCEPT ![i] = s]
  BY <1>1 DEF HasPath, Usual
<1> HIDE DEF t, s
<1>5. claims'.of[i] = p /\ \A j \in Items \ {i} : claims'.of[j] = claims.of[j]
  <2>1. claims'.of = [Released(i).of EXCEPT ![i] = p]
    BY DEF HasPath, Claimed
  <2>2. Released(i).of \in [Items -> Paths \union {None}]
    BY <1>1, FreedOrdered DEF Usual, Released, Ordered, Maps
  <2> QED BY <1>1, <2>1, <2>2, WithoutSteady
<1> QED BY <1>2, <1>3, <1>4, <1>5, StepSteady DEF Opened

\* A task that ends leaves nothing behind that is not said of an idle item.
LEMMA EndsSteady ==
  ASSUME IInv, AllSteady, NEW i \in Items, NEW keys,
         Ends(i, claims, keys) \/ Ends(i, Released(i), keys),
         NEW s \in ItemStates, s.target = item[i].target, item' = [item EXCEPT ![i] = s]
  PROVE  AllSteady'
<1>1. Usual(i) /\ Steady(i)
  BY UsualState DEF AllSteady
<1>2. NoTask \in TaskStates /\ NoTask.phase = "none" /\ NoTask.path = None /\ NoTask.reason = "none"
  BY DEF NoTask, TaskStates, Phases
<1>3. task' = [task EXCEPT ![i] = NoTask]
  BY DEF Ends
<1>4. claims'.of[i] \in {None, s.target} /\ \A j \in Items \ {i} : claims'.of[j] = claims.of[j]
  BY <1>1, WithoutSteady DEF Ends, Released
<1> QED BY <1>2, <1>3, <1>4, StepSteady DEF Opened

LEMMA ShownTyped ==
  ASSUME NEW i \in Items, Usual(i), NEW w \in {"queued", "working", "completed", "failed", "stopped"}
  PROVE  [item[i] EXCEPT !.status = Showing(i, w)] \in ItemStates
BY DEF Usual, ItemStates, Statuses, Showing

\* A task goes on without its claim or the remembered path being touched.
LEMMA OnwardSteady ==
  ASSUME IInv, AllSteady, NEW i \in Items, NEW phase \in Phases \ {"none"}, Goes(i, phase),
         NEW s \in ItemStates, s.target = item[i].target, item' = [item EXCEPT ![i] = s],
         claims' \in {claims, Released(i)},
         phase \in {"convert", "folder"} => task[i].path = None,
         phase \in Opened => item[i].target \in {None, task[i].path}
  PROVE  AllSteady'
<1> DEFINE t == [task[i] EXCEPT !.phase = phase]
<1>1. Usual(i) /\ Steady(i)
  BY UsualState DEF AllSteady
<1>2. t \in TaskStates /\ t.phase = phase /\ t.path = task[i].path
  BY <1>1 DEF Usual, TaskStates
<1>3. task' = [task EXCEPT ![i] = t]
  BY <1>1 DEF Goes, Usual
<1> HIDE DEF t
<1>4. claims'.of[i] \in {None, s.target} /\ \A j \in Items \ {i} : claims'.of[j] = claims.of[j]
  BY <1>1, WithoutSteady
<1> QED BY <1>2, <1>3, <1>4, StepSteady

LEMMA TaskStepsSteady ==
  ASSUME IInv, AllSteady, NEW i \in Items, TaskSteps(i)
  PROVE  AllSteady'
<1>1. /\ Usual(i) /\ Steady(i)
      /\ item[i] \in ItemStates /\ [item EXCEPT ![i] = item[i]] = item
  BY UsualState DEF AllSteady, Usual
<1>2. CASE \/ Converted(i) \/ Inspected(i) \/ Fetched(i) \/ Created(i) \/ TransferDone(i)
           \/ Fails(i)
  <2>1. UNCHANGED <<item, claims>>
    BY <1>2 DEF Converted, Inspected, Fetched, Created, TransferDone, Fails
  <2>2. \E phase \in Phases \ {"none"} :
          /\ Goes(i, phase)
          /\ phase \in {"convert", "folder"} => task[i].phase \in {"none", "convert", "folder"}
          /\ phase \in Opened => task[i].phase \in Opened
    BY <1>2 DEF Converted, Inspected, Fetched, Created, TransferDone, Fails, At, Phases, Opened
  <2> QED BY <1>1, <2>1, <2>2, OnwardSteady DEF Steady
<1>3. CASE Launch(i)
  <2> DEFINE s == [item[i] EXCEPT !.status = "working"]
  <2>1. s \in ItemStates /\ s.target = item[i].target
    BY <1>1 DEF Usual, ItemStates, Statuses
  <2>2. item' = [item EXCEPT ![i] = s] /\ UNCHANGED claims /\ Goes(i, "convert")
    BY <1>1, <1>3 DEF Launch, Usual
  <2>3. task[i].path = None
    BY <1>1, <1>3 DEF Launch, Live, Steady
  <2>4. "convert" \in Phases \ {"none"} /\ "convert" \notin Opened
    BY DEF Phases, Opened
  <2> HIDE DEF s
  <2> QED BY <2>1, <2>2, <2>3, <2>4, OnwardSteady
<1>4. CASE TooSmall(i)
  <2> DEFINE s == [item[i] EXCEPT !.begun = FALSE]
  <2>1. s \in ItemStates /\ s.target = item[i].target
    BY <1>1 DEF Usual, ItemStates
  <2>2. item' = [item EXCEPT ![i] = s] /\ claims' = Released(i) /\ Goes(i, "recovery")
    BY <1>1, <1>4 DEF TooSmall, Usual
  <2>3. "recovery" \in Phases \ {"none"} /\ "recovery" \notin Opened
    BY DEF Phases, Opened
  <2> HIDE DEF s
  <2> QED BY <2>1, <2>2, <2>3, OnwardSteady
<1>5. CASE FolderMade(i)
  <2> DEFINE t == [task[i] EXCEPT !.phase = "look", !.path = item[i].target]
  <2>1. t \in TaskStates /\ t.phase = "look"
    BY <1>1 DEF Usual, TaskStates, Phases
  <2>2. task' = [task EXCEPT ![i] = t] /\ UNCHANGED <<item, claims>>
    BY <1>1, <1>5 DEF FolderMade, Usual
  <2> HIDE DEF t
  <2> QED BY <1>1, <2>1, <2>2, StepSteady DEF Opened, Steady
<1>6. CASE Looked(i) \/ Claims(i)
  <2>1. 0 \in Paths /\ None \notin Paths
    BY PathsAssumption
  <2>2. CASE \E p \in Paths : HasPath(i, p)
    BY <2>2, HasPathSteady
  <2>3. CASE ~ \E p \in Paths : HasPath(i, p)
    <3>1. CASE Claims(i)
      <4>1. task[i].path \in Paths
        BY <1>1, <3>1 DEF IInv, TypeOK, Usual, Claims, At
      <4> QED BY <2>3, <3>1, <4>1, FoundIsFree DEF Claims
    <3>2. CASE Looked(i)
      <4> DEFINE mine == task[i].path
                 reuse == mine # None /\ (item[i].begun \/ Exists(mine))
                 preferred == IF reuse THEN mine ELSE 0
                 t == [task[i] EXCEPT !.phase = "claim", !.path = preferred, !.reuse = reuse,
                                      !.saw = Exists(preferred)]
      <4>1. preferred \in Paths /\ reuse \in BOOLEAN /\ Exists(preferred) \in BOOLEAN
        BY <1>1, <2>1 DEF Usual, Exists, ItemStates
      <4>2. task' = [task EXCEPT ![i] = t] /\ UNCHANGED <<item, claims>>
        <5>1. ~HasPath(i, preferred)
          BY <2>3, <4>1
        <5>2. ~ \E p \in Found(i, preferred, reuse) : HasPath(i, p)
          <6> HIDE DEF preferred, reuse
          <6> QED BY <2>3, <4>1, FoundIsFree
        <5> QED BY <1>1, <3>2, <5>1, <5>2 DEF Looked, Usual
      <4> HIDE DEF preferred, reuse
      <4>3. t \in TaskStates /\ t.phase = "claim"
        BY <1>1, <4>1 DEF Usual, TaskStates, Phases
      <4> HIDE DEF t
      <4>4. t.reason # "none" => t.phase # "none"
        BY <4>3
      <4> QED BY <1>1, <4>2, <4>3, StepSteady DEF Opened, Steady
    <3> QED BY <1>6, <3>1, <3>2
  <2> QED BY <2>2, <2>3
<1>7. CASE Reserved(i) \/ DigestFails(i)
  <2> DEFINE t == [task[i] EXCEPT !.phase = "open", !.path = item[i].target]
             r == [item[i] EXCEPT !.status = Showing(i, "working")]
             s == [item[i] EXCEPT !.begun = FALSE]
  <2>1. t \in TaskStates /\ t.phase = "open" /\ t.path = item[i].target
    BY <1>1 DEF Usual, TaskStates, Phases
  <2>2. /\ r \in ItemStates /\ r.target = item[i].target
        /\ s \in ItemStates /\ s.target = item[i].target
    BY <1>1, ShownTyped DEF Usual, ItemStates
  <2>3. task' = [task EXCEPT ![i] = t] /\ UNCHANGED claims
    BY <1>1, <1>7 DEF Reserved, DigestFails, Usual
  <2>4. item' = [item EXCEPT ![i] = r] \/ item' = [item EXCEPT ![i] = s]
    BY <1>1, <1>7 DEF Reserved, DigestFails, Usual
  <2> HIDE DEF t, r, s
  <2> QED BY <1>1, <2>1, <2>2, <2>3, <2>4, StepSteady DEF Opened, Steady
<1>8. CASE ChunkWritten(i)
  <2> DEFINE s == [item[i] EXCEPT !.begun = TRUE, !.status = Showing(i, "working")]
  <2>1. s \in ItemStates /\ s.target = item[i].target
    BY <1>1 DEF Usual, ItemStates, Statuses, Showing
  <2>2. item' = [item EXCEPT ![i] = s] /\ task' = [task EXCEPT ![i] = task[i]] /\ UNCHANGED claims
    BY <1>1, <1>8 DEF ChunkWritten, Usual
  <2> HIDE DEF s
  <2> QED BY <1>1, <2>1, <2>2, StepSteady DEF Opened, Steady, Usual, Aborted, Live
<1>9. CASE DiskFull(i) \/ CheckPasses(i) \/ RetryResumes(i) \/ GivesUp(i)
  <2>1. PICK w \in {"queued", "completed", "failed"} :
          item' = [item EXCEPT ![i].status = Showing(i, w)]
    BY <1>9 DEF DiskFull, CheckPasses, RetryResumes, GivesUp
  <2> DEFINE s == [item[i] EXCEPT !.status = Showing(i, w)]
  <2>2. s \in ItemStates /\ s.target = item[i].target /\ item' = [item EXCEPT ![i] = s]
    BY <1>1, <2>1, ShownTyped DEF Usual, ItemStates
  <2>3. \E keys : Ends(i, claims, keys) \/ Ends(i, Released(i), keys)
    BY <1>9 DEF DiskFull, CheckPasses, RetryResumes, GivesUp, Requeues
  <2> HIDE DEF s
  <2> QED BY <2>2, <2>3, EndsSteady
<1>10. CASE RecoveryFinalizes(i)
  <2> DEFINE s == [item[i] EXCEPT !.status = "completed", !.begun = TRUE]
  <2>1. s \in ItemStates /\ s.target = item[i].target /\ item' = [item EXCEPT ![i] = s]
    BY <1>1, <1>10 DEF RecoveryFinalizes, Usual, ItemStates, Statuses
  <2> HIDE DEF s
  <2> QED BY <1>10, <2>1, EndsSteady DEF RecoveryFinalizes
<1>11. CASE RetryAnew(i)
  <2> DEFINE s == [item[i] EXCEPT !.status = Showing(i, "queued"), !.begun = FALSE, !.known = FALSE]
  <2>1. s \in ItemStates /\ s.target = item[i].target
    BY <1>1 DEF Usual, ItemStates, Statuses, Showing
  <2>2. item' = [item EXCEPT ![i] = s]
    BY <1>1, <1>11 DEF RetryAnew, Usual
  <2> HIDE DEF s
  <2> QED BY <1>11, <2>1, <2>2, EndsSteady DEF RetryAnew, Requeues
<1>12. CASE Unwind(i)
  <2> DEFINE s == [item[i] EXCEPT !.status = Showing(i, "stopped")]
  <2>1. s \in ItemStates /\ s.target = item[i].target
    BY <1>1, ShownTyped DEF Usual, ItemStates
  <2>2. item' = [item EXCEPT ![i] = s] \/ item' = [item EXCEPT ![i] = item[i]]
    BY <1>1, <1>12 DEF Unwind, Unwinds, Usual
  <2>3. Ends(i, claims, retryAfter)
    BY <1>12 DEF Unwind, Unwinds
  <2> HIDE DEF s
  <2> QED BY <1>1, <2>1, <2>2, <2>3, EndsSteady
<1> QED BY <1>2, <1>3, <1>4, <1>5, <1>6, <1>7, <1>8, <1>9, <1>10, <1>11, <1>12 DEF TaskSteps

\* The user, and a start that puts a failed item back.
LEMMA OneItemSteady ==
  ASSUME IInv, AllSteady, NEW i \in Items,
         \/ StartRequeues(i) \/ Reset(i) \/ Skip(i)
         \/ \E preserveFiles \in BOOLEAN : Remove(i, preserveFiles)
  PROVE  AllSteady'
<1>1. Usual(i) /\ Steady(i)
  BY UsualState DEF AllSteady
<1>2. PICK t \in TaskStates : /\ task' = [task EXCEPT ![i] = t]
                              /\ t.phase = task[i].phase /\ t.path = task[i].path
                              /\ t.reason # "none" => t.phase # "none"
  <2>1. CASE StartRequeues(i) \/ Skip(i)
    BY <1>1, <2>1 DEF StartRequeues, Skip, Usual, Steady, Aborted, Live
  <2>2. CASE Reset(i) \/ \E preserveFiles \in BOOLEAN : Remove(i, preserveFiles)
    <3>1. PICK reason \in {"reset", "stop", "cancel"} : task' = AbortedFor(i, reason)
      BY <2>2 DEF Reset, Remove
    <3> DEFINE t == [task[i] EXCEPT !.reason = reason]
    <3>2. t \in TaskStates /\ t.phase = task[i].phase /\ t.path = task[i].path
      BY <1>1 DEF Usual, TaskStates
    <3>3. IF i \in Live THEN task' = [task EXCEPT ![i] = t] ELSE task' = [task EXCEPT ![i] = task[i]]
      BY <1>1, <3>1 DEF AbortedFor, Usual
    <3> HIDE DEF t
    <3> QED BY <1>1, <3>2, <3>3 DEF Usual, Steady, Aborted, Live
  <2> QED BY <2>1, <2>2
<1>3. PICK s \in ItemStates : /\ item' = [item EXCEPT ![i] = s]
                              /\ s.target = item[i].target \/ (s.target = None /\ Reset(i))
  <2>1. CASE Reset(i)
    <3> DEFINE s == [status |-> "queued", target |-> None, begun |-> FALSE, known |-> FALSE]
    <3>1. s \in ItemStates /\ s.target = None
      BY DEF ItemStates, Statuses
    <3>2. item' = [item EXCEPT ![i] = s]
      BY <2>1 DEF Reset
    <3> HIDE DEF s
    <3> QED BY <2>1, <3>1, <3>2
  <2>2. CASE ~Reset(i)
    <3> DEFINE q(w) == [item[i] EXCEPT !.status = w]
               a == [item[i] EXCEPT !.status = "queued", !.begun = FALSE, !.known = FALSE]
    <3>1. /\ \A w \in Statuses : q(w) \in ItemStates /\ q(w).target = item[i].target
          /\ a \in ItemStates /\ a.target = item[i].target
      BY <1>1 DEF Usual, ItemStates, Statuses
    <3>2. \/ \E w \in {"queued", "skipped", "removed"} : item' = [item EXCEPT ![i] = q(w)]
          \/ item' = [item EXCEPT ![i] = a]
      BY <1>1, <2>2 DEF StartRequeues, Skip, Remove, Usual
    <3>3. {"queued", "skipped", "removed"} \subseteq Statuses
      BY DEF Statuses
    <3> HIDE DEF q, a
    <3> QED BY <3>1, <3>2, <3>3
  <2> QED BY <2>1, <2>2
<1>4. claims' \in {claims, Released(i)} /\ (Reset(i) => claims'.of[i] = None)
  <2>1. claims' \in {claims, Released(i)}
    BY DEF StartRequeues, Reset, Skip, Remove
  <2>2. ASSUME Reset(i) PROVE claims'.of[i] = None
    BY <1>1, <2>2, WithoutSteady DEF Reset
  <2> QED BY <2>1, <2>2
<1>5. claims'.of[i] \in {None, s.target} /\ \A j \in Items \ {i} : claims'.of[j] = claims.of[j]
  BY <1>1, <1>3, <1>4, WithoutSteady
<1> QED BY <1>1, <1>2, <1>3, <1>5, StepSteady DEF Steady

\* The queue as a whole changes neither a path nor, unless it clears them all, a claim.
LEMMA QueueSteady ==
  ASSUME IInv, AllSteady,
         \/ Start \/ LoopEnds \/ StartContinues \/ Stop \/ FinishRun
         \/ \E is \in SUBSET Items : StartSelected(is)
  PROVE  AllSteady'
<1>1. ASSUME NEW j \in Items
      PROVE  /\ task'[j].phase = task[j].phase /\ task'[j].path = task[j].path
             /\ task'[j].reason = task[j].reason \/ j \in Live
    <2>1. task[j] \in TaskStates
      BY UsualState DEF Usual
    <2>2. CASE Stop
      BY <2>1, <2>2 DEF Stop, TaskStates, Live
    <2>3. CASE ~Stop
      BY <2>3 DEF Start, LoopEnds, StartContinues, FinishRun, StartSelected
    <2> QED BY <2>2, <2>3
<1>2. ASSUME NEW j \in Items PROVE item'[j].target = item[j].target
    <2>1. item[j] \in ItemStates
      BY UsualState DEF Usual
    <2>2. item'[j] \in {item[j], [item[j] EXCEPT !.status = "queued"]}
      BY DEF Start, LoopEnds, StartContinues, Stop, FinishRun, StartSelected, Recovered
    <2> QED BY <2>1, <2>2 DEF ItemStates
<1>3. claims' = claims \/ claims' = NoClaims
  BY DEF Start, LoopEnds, StartContinues, Stop, FinishRun, StartSelected, AllForgotten
<1>4. ASSUME NEW j \in Items PROVE claims'.of[j] \in {None, claims.of[j]}
  BY <1>3 DEF NoClaims
<1> QED BY <1>1, <1>2, <1>4 DEF AllSteady, Steady, Aborted, Live

LEMMA AlwaysSteady == Spec => [](IInv /\ AllSteady)
<1>1. Init => AllSteady
  BY DEF Init, AllSteady, Steady, NoClaims, NoTask, Aborted, Opened
<1>2. ASSUME IInv, AllSteady, [Next]_vars PROVE AllSteady'
  <2>1. CASE UNCHANGED vars
    BY <1>2, <2>1 DEF vars, AllSteady, Steady, Aborted, Live
  <2> QED BY <1>2, <2>1, TaskStepsSteady, OneItemSteady, QueueSteady DEF Next
<1> QED BY <1>1, <1>2, InitGood, NextKeeps, PTL DEF Spec

\* The steps with which a removed item's task can end, once it has been told to.
LEMMA OnlyUnwinds ==
  ASSUME IInv, [Next]_vars, NEW i \in Items, i \in Live, Aborted(i), i \notin Live',
         task[i].phase \notin {"reserve", "recovery"}
  PROVE  Unwind(i)
<1>1. \A j \in Items : task[j] \in TaskStates /\ task \in [Items -> TaskStates]
  BY UsualState DEF Usual
<1>2. ASSUME NEW j \in Items, TaskSteps(j) PROVE j = i
  <2> SUFFICES ASSUME j # i PROVE task'[i] = task[i]
    BY DEF Live
  <2>1. \E t : task' = [task EXCEPT ![j] = t]
    <3>1. CASE TaskSteps(j) /\ UNCHANGED task
      <4>1. task' = [task EXCEPT ![j] = task[j]]
        BY <1>1, <3>1
      <4> QED BY <4>1
    <3>2. CASE \E phase : Goes(j, phase)
      <4>1. PICK phase : Goes(j, phase)
        BY <3>2
      <4>2. task' = [task EXCEPT ![j] = [task[j] EXCEPT !.phase = phase]]
        BY <1>1, <4>1 DEF Goes
      <4> QED BY <4>2
    <3>3. CASE \E after, keys : Ends(j, after, keys)
      BY <3>3 DEF Ends
    <3>4. CASE FolderMade(j) \/ Reserved(j) \/ DigestFails(j)
      <4>1. \E phase : task' = [task EXCEPT ![j] = [task[j] EXCEPT !.phase = phase, !.path = item[j].target]]
        BY <1>1, <3>4 DEF FolderMade, Reserved, DigestFails
      <4> QED BY <4>1
    <3>5. CASE Looked(j) \/ Claims(j)
      BY <1>1, <3>5 DEF Looked, Claims, HasPath
    <3> QED BY <1>2, <3>1, <3>2, <3>3, <3>4, <3>5
          DEF TaskSteps, Launch, Converted, Inspected, Fetched, Created, ChunkWritten,
              TransferDone, CheckPasses, TooSmall, Fails, DiskFull, RecoveryFinalizes,
              RetryResumes, RetryAnew, GivesUp, Unwind, Unwinds, Requeues
  <2> QED BY <1>1, <2>1
<1>3. ASSUME TaskSteps(i) PROVE Unwind(i)
  <2>1. ASSUME NEW phase, phase # "none", Goes(i, phase) PROVE FALSE
    BY <1>1, <2>1 DEF Goes, Live, TaskStates
  <2>2. ASSUME NEW p, HasPath(i, p) PROVE FALSE
    BY <1>1, <2>2 DEF HasPath, Live, TaskStates
  <2>3. ~(Launch(i) \/ Converted(i) \/ Inspected(i) \/ Fetched(i) \/ Created(i) \/ TransferDone(i)
          \/ TooSmall(i) \/ Fails(i))
    BY <2>1 DEF Launch, Converted, Inspected, Fetched, Created, TransferDone, TooSmall, Fails
  <2>4. ~(FolderMade(i) \/ Reserved(i) \/ DigestFails(i) \/ ChunkWritten(i))
    BY <1>1 DEF FolderMade, Reserved, DigestFails, ChunkWritten, Live, TaskStates
  <2>5. ~Claims(i)
    BY <2>2 DEF Claims
  <2>6. ~Looked(i)
    <3> DEFINE mine == task[i].path
               reuse == mine # None /\ (item[i].begun \/ Exists(mine))
               preferred == IF reuse THEN mine ELSE 0
               t == [task[i] EXCEPT !.phase = "claim", !.path = preferred, !.reuse = reuse,
                                    !.saw = Exists(preferred)]
    <3>1. ASSUME task' = [task EXCEPT ![i] = t] PROVE FALSE
      <4>1. t.phase = "claim"
        BY <1>1 DEF TaskStates
      <4> HIDE DEF t
      <4> QED BY <1>1, <3>1, <4>1 DEF Live
    <3>2. Looked(i) => (\E p : HasPath(i, p)) \/ task' = [task EXCEPT ![i] = t]
      BY <1>1 DEF Looked
    <3> QED BY <2>2, <3>1, <3>2
  <2>7. ~(DiskFull(i) \/ CheckPasses(i) \/ RecoveryFinalizes(i) \/ RetryResumes(i) \/ RetryAnew(i)
          \/ GivesUp(i))
    BY DEF DiskFull, CheckPasses, RecoveryFinalizes, RetryResumes, RetryAnew, GivesUp, At
  <2> QED BY <1>3, <2>3, <2>4, <2>5, <2>6, <2>7 DEF TaskSteps
<1>4. ASSUME NEW j \in Items,
             \/ StartRequeues(j) \/ Reset(j) \/ Skip(j)
             \/ \E preserveFiles \in BOOLEAN : Remove(j, preserveFiles)
      PROVE  FALSE
  BY <1>1, <1>4 DEF StartRequeues, Reset, Skip, Remove, AbortedFor, Live, TaskStates
<1>5. ASSUME \/ Start \/ LoopEnds \/ StartContinues \/ Stop \/ FinishRun
             \/ \E is \in SUBSET Items : StartSelected(is)
      PROVE  FALSE
  BY <1>1, <1>5 DEF Start, LoopEnds, StartContinues, Stop, FinishRun, StartSelected, Live, TaskStates
<1>6. ~UNCHANGED vars
  BY DEF vars, Live
<1> QED BY <1>2, <1>3, <1>4, <1>5, <1>6 DEF Next

\* An item that is removed with its files takes them along, whichever of its claim and its
\* remembered path is left to find them by.
THEOREM RemovedItemsTakeTheirFiles == Spec => CancelTakesFile
<1>1. ASSUME IInv, AllSteady, [Next]_vars, NEW i \in Items,
             Gone(i), task[i].reason = "cancel", i \notin Live',
             task[i].phase \notin {"reserve", "recovery"}, item[i].target # None,
             NEW p \in {item[i].target, task[i].path} \ {None}
      PROVE  disk'[p].by # i
  <2>1. Usual(i) /\ Steady(i) /\ Aborted(i) /\ i \in Live
    BY <1>1, UsualState DEF AllSteady, Steady, Aborted
  <2>2. Unwind(i)
    BY <1>1, <2>1, OnlyUnwinds
  <2>3. p = item[i].target
    BY <1>1, <2>1, <2>2 DEF Unwind, Steady, Opened
  <2>4. disk' = Deleted(item[i].target)
    BY <1>1, <2>1, <2>2 DEF Unwind, Unwinds, Steady
  <2>5. p \in Paths /\ disk'[p] = NoFile
    BY <1>1, <2>1, <2>3, <2>4 DEF Deleted, Usual
  <2> QED BY <2>5, ItemsAssumption DEF NoFile
<1>2. IInv /\ AllSteady /\ [Next]_vars =>
        [\A i \in Items :
           /\ Gone(i) /\ task[i].reason = "cancel" /\ i \notin Live'
           /\ task[i].phase \notin {"reserve", "recovery"}
           /\ item[i].target # None
           => \A p \in {item[i].target, task[i].path} \ {None} : disk'[p].by # i]_vars
  BY <1>1
<1> QED BY <1>2, AlwaysSteady, PTL DEF CancelTakesFile, Spec

\* A search for a path never ends at an existing file unless the item brings it along.
LEMMA FoundIsNew ==
  ASSUME NEW i \in Items, NEW preferred \in Paths, NEW reuse,
         NEW p \in Found(i, preferred, reuse), Exists(p)
  PROVE  reuse /\ p = preferred
BY DEF Found, Candidate

\* The path of a finished file is not given to another item, but to one that had it
\* before or had looked before the file was there.
THEOREM FinishedFilesAreKept == Spec => FinishedFileIsKept
<1>1. ASSUME IInv, [Next]_vars, NEW i \in Items, NEW p \in Paths, Exists(p),
             claims.of[i] # p, claims'.of[i] = p
      PROVE  BroughtAlong(i, p) \/ (At(i, "claim") /\ ~task[i].saw)
  <2>1. Usual(i) /\ p # None /\ 0 \in Paths
    BY <1>1, UsualState, PathsAssumption
  <2>2. ASSUME NEW j \in Items, Usual(j), claims' \in {claims, NoClaims} \/ claims' = Released(j)
                             \/ claims' = Without(Released(j), j)
        PROVE  FALSE
    <3>1. Ordered(Released(j)) /\ Released(j).of[i] \in {None, claims.of[i]}
      BY <2>2, FreedOrdered DEF Usual, Released
    <3>2. Without(Released(j), j).of[i] \in {None, claims.of[i]}
      BY <3>1, FreedOrdered
    <3>3. NoClaims.of[i] = None
      BY DEF NoClaims
    <3> QED BY <1>1, <2>1, <2>2, <3>1, <3>2, <3>3
  <2>3. ASSUME NEW j \in Items, NEW q \in Paths, HasPath(j, q) PROVE i = j /\ p = q
    <3>1. claims'.of = [Released(j).of EXCEPT ![j] = q]
      BY <2>3 DEF HasPath, Claimed
    <3>2. Usual(j) /\ Ordered(Released(j))
      BY <1>1, UsualState, FreedOrdered DEF Usual, Released
    <3>3. Released(j).of \in [Items -> Paths \union {None}]
      BY <3>2 DEF Ordered, Maps
    <3>4. i # j => Released(j).of[i] = claims.of[i]
      BY <3>2, FreedOrdered DEF Usual, Released
    <3> QED BY <1>1, <3>1, <3>3, <3>4
  <2>4. ASSUME NEW j \in Items, Looked(j) \/ Claims(j), NEW q \in Paths, HasPath(j, q)
        PROVE  BroughtAlong(i, p) \/ (At(i, "claim") /\ ~task[i].saw)
    <3>1. i = j /\ p = q
      BY <2>3, <2>4
    <3>2. CASE Looked(i)
      <4> DEFINE mine == task[i].path
                 reuse == mine # None /\ (item[i].begun \/ Exists(mine))
                 preferred == IF reuse THEN mine ELSE 0
      <4>1. preferred \in Paths
        BY <2>1 DEF Usual
      <4>2. claims' # claims
        BY <1>1
      <4>3. \/ claims.of[i] = preferred /\ HasPath(i, preferred)
            \/ \E r \in Found(i, preferred, reuse) : HasPath(i, r)
        BY <3>2, <4>2 DEF Looked
      <4>4. ~(claims.of[i] = preferred /\ HasPath(i, preferred))
        BY <1>1, <2>3, <4>1
      <4>5. p \in Found(i, preferred, reuse)
        <5> HIDE DEF preferred, reuse
        <5> QED BY <2>3, <4>1, <4>3, <4>4, FoundIsFree
      <4>6. reuse /\ p = preferred
        <5> HIDE DEF preferred, reuse
        <5> QED BY <1>1, <4>1, <4>5, FoundIsNew
      <4> QED BY <3>2, <4>6 DEF BroughtAlong, Looked
    <3>3. CASE Claims(i)
      <4> DEFINE preferred == task[i].path
                 reuse == task[i].reuse
      <4>1. preferred \in Paths /\ At(i, "claim")
        BY <1>1, <2>1, <3>3 DEF IInv, TypeOK, Usual, Claims, At
      <4>2. \/ (~task[i].saw \/ ~Exists(preferred) \/ reuse) /\ HasPath(i, preferred)
            \/ \E r \in Found(i, preferred, reuse) : HasPath(i, r)
        BY <3>3 DEF Claims
      <4>3. CASE (~task[i].saw \/ ~Exists(preferred) \/ reuse) /\ HasPath(i, preferred)
        BY <1>1, <2>3, <4>1, <4>3 DEF BroughtAlong
      <4>4. CASE \E r \in Found(i, preferred, reuse) : HasPath(i, r)
        <5>1. p \in Found(i, preferred, reuse)
          <6> HIDE DEF preferred, reuse
          <6> QED BY <2>3, <4>1, <4>4, FoundIsFree
        <5> QED BY <1>1, <4>1, <5>1, FoundIsNew DEF BroughtAlong
      <4> QED BY <4>2, <4>3, <4>4
    <3> QED BY <2>4, <3>1, <3>2, <3>3
  <2>5. ASSUME NEW j \in Items, TaskSteps(j)
        PROVE  BroughtAlong(i, p) \/ (At(i, "claim") /\ ~task[i].saw)
    <3>1. Usual(j)
      BY <1>1, UsualState
    <3>2. CASE \E q \in Paths : HasPath(j, q) /\ (Looked(j) \/ Claims(j))
      BY <2>4, <3>2
    <3>3. CASE ~(\E q \in Paths : HasPath(j, q) /\ (Looked(j) \/ Claims(j)))
      <4>1. \/ claims' \in {claims, Released(j)} \/ claims' = Without(Released(j), j)
        <5>1. CASE Looked(j)
          <6>1. \A q \in Paths : ~HasPath(j, q)
            BY <3>3, <5>1
          <6> DEFINE mine == task[j].path
                     reuse == mine # None /\ (item[j].begun \/ Exists(mine))
                     preferred == IF reuse THEN mine ELSE 0
          <6>2. preferred \in Paths
            BY <2>1, <3>1 DEF Usual
          <6>3. ~(\E q \in Found(j, preferred, reuse) : HasPath(j, q)) /\ ~HasPath(j, preferred)
            <7> HIDE DEF preferred, reuse
            <7> QED BY <6>1, <6>2, FoundIsFree
          <6> QED BY <5>1, <6>3 DEF Looked
        <5>2. CASE Claims(j)
          <6>1. task[j].path \in Paths
            BY <1>1, <3>1, <5>2 DEF IInv, TypeOK, Usual, Claims, At
          <6> QED BY <3>3, <5>2, <6>1, FoundIsFree DEF Claims
        <5>3. CASE ~(Looked(j) \/ Claims(j))
          BY <2>5, <5>3 DEF TaskSteps, Launch, Converted, FolderMade, Reserved, DiskFull, Inspected,
             Fetched, Created, ChunkWritten, TransferDone, CheckPasses, DigestFails, TooSmall,
             Fails, RecoveryFinalizes, RetryResumes, RetryAnew, GivesUp, Unwind, Unwinds,
             Requeues, Ends, Released
        <5> QED BY <5>1, <5>2, <5>3
      <4> QED BY <2>2, <3>1, <4>1
    <3> QED BY <3>2, <3>3
  <2>6. ASSUME NEW j \in Items,
               \/ StartRequeues(j) \/ Reset(j) \/ Skip(j)
               \/ \E preserveFiles \in BOOLEAN : Remove(j, preserveFiles)
        PROVE  FALSE
    <3>1. claims' \in {claims, Released(j)}
      BY <2>6 DEF StartRequeues, Reset, Skip, Remove
    <3> QED BY <1>1, <2>2, <3>1, UsualState
  <2>7. ASSUME \/ Start \/ LoopEnds \/ StartContinues \/ Stop \/ FinishRun \/ UNCHANGED vars
               \/ \E is \in SUBSET Items : StartSelected(is)
        PROVE  FALSE
    <3>1. claims' \in {claims, NoClaims}
      BY <2>7 DEF Start, LoopEnds, StartContinues, Stop, FinishRun, StartSelected, AllForgotten, vars
    <3> QED BY <2>1, <2>2, <3>1
  <2> QED BY <1>1, <2>5, <2>6, <2>7 DEF Next
<1>2. ASSUME IInv, NEW j \in Items, Exists(item[j].target) PROVE item[j].target \in Paths
  BY <1>2, UsualState DEF Exists, Usual
<1>3. IInv /\ [Next]_vars =>
        [\A i, j \in Items :
           LET p == item[j].target
           IN  /\ i # j /\ item[j].status = "completed" /\ Exists(p)
               /\ claims.of[i] # p /\ claims'.of[i] = p
               => BroughtAlong(i, p) \/ (At(i, "claim") /\ ~task[i].saw)]_vars
  BY <1>1, <1>2
<1> QED BY <1>3, IndInv, PTL DEF FinishedFileIsKept, Spec
=============================================================================

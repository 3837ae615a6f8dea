------------------------- MODULE SegmentedDownload -------------------------
(***************************************************************************)
(* Downloads in segments over many proxies:                                *)
(* downloadWithProxySegments() of src/main/proxy-segmented-download.ts.    *)
(* A download loads the list of proxies, probes whether the server serves  *)
(* ranges, makes a file of the full size, lets its workers fetch, write,   *)
(* read back and check one segment after the other, and renames the file   *)
(* once they have ended.  All downloads share the coordinator of the       *)
(* proxies and the limiter of the readbacks.                               *)
(*                                                                         *)
(* An action is what one callback does up to the next await.  What goes on *)
(* in the same turn of the event loop (a rejection on its way to a catch,  *)
(* a worker at the head of its loop) goes before any other event.          *)
(***************************************************************************)
EXTENDS Integers, Sequences, FiniteSets, SequencesExt, FiniteSetsExt

CONSTANTS
  Downloads,
  Proxies,        \* the proxies of the list
  None,           \* no proxy
  Connections,    \* requestedConnections
  LimitOf,        \* totalConnectionLimit, as it is when the download begins
  SegmentsOf,     \* into how many segments the file of a download is cut
  Bytes,          \* the writes a segment takes
  ReadbackSlots,  \* the argument of the limiter of the readbacks
  ProxyAttempts,  \* normalized.proxyAttempts
  MaxTrouble      \* bound on what goes wrong, stops included

Workers == Downloads \X (1..Connections)
Jobs == Downloads \X (0..Connections)
ProbeOf(d) == <<d, 0>>
DownloadOf(j) == j[1]

ASSUME SegmentedAssumption ==
  /\ IsFiniteSet(Downloads) /\ IsFiniteSet(Proxies) /\ None \notin Proxies
  /\ SegmentsOf \in [Downloads -> Nat \ {0}]
  /\ {Connections, Bytes, ReadbackSlots, ProxyAttempts} \subseteq Nat \ {0}
  /\ LimitOf \in [Downloads -> Nat \ {0, 1}]
  /\ MaxTrouble \in Nat

VARIABLES
  pool,     \* the coordinator
  load,     \* what each call of downloadWithProxySegments() keeps
  job,      \* what its probe and its workers keep
  stopped,  \* the downloads whose options.signal has fired
  trouble,  \* what has gone wrong, and with which download
  \* the readback limiter; aborted: the downloads whose workers are told to end
  active, waiting, phase, aborted

readbackVars == <<active, waiting, phase>>
vars == <<pool, load, job, stopped, trouble, active, waiting, phase, aborted>>

Readback == INSTANCE ReadbackLimiter WITH
  Calls <- Workers, SignalOf <- [j \in Workers |-> DownloadOf(j)], Limit <- ReadbackSlots

Proxy == INSTANCE ProxyCoordinator WITH
  Groups <- Downloads, Callers <- Jobs, GroupOf <- DownloadOf

Idle == [at |-> "idle", segment |-> 0, proxy |-> None, part |-> 0,
         failures |-> 0, error |-> "none"]

(***************************************************************************)
(* valid: the segments in the file that were read back and found equal     *)
(* progress: committedProgress, counted in writes                          *)
(* temp: tempCreated; renamed: the file is at its target                   *)
(* run: downloadWithProxySegmentsOnce() is called a second time at most    *)
(***************************************************************************)
Init ==
  /\ pool = Proxy!NewPool
  /\ load = [d \in Downloads |->
       [at |-> "load", run |-> 1, next |-> 1, valid |-> {}, progress |-> 0,
        temp |-> FALSE, renamed |-> FALSE, result |-> "none"]]
  /\ job = [j \in Jobs |-> Idle]
  /\ stopped = {} /\ trouble = {}
  /\ Readback!Init

Signalled(j) == DownloadOf(j) \in aborted

\* Something goes wrong with a download.  What has gone wrong may go wrong again: a
\* server that is busy stays busy, and a file that was replaced stays replaced.
Trouble(d, e) ==
  /\ trouble' = trouble \union {<<d, e>>}
  /\ Cardinality(trouble') <= MaxTrouble

WorkersOf(d) ==
  {<<d, k>> : k \in 1..Min({Connections, Cardinality(Proxies), SegmentsOf[d]})}

NoReadback == UNCHANGED <<readbackVars, aborted>>

-----------------------------------------------------------------------------
\* The list of proxies is read, the download is registered and probes.
Loaded(d) ==
  /\ load[d].at = "load"
  /\ pool' \in {[p EXCEPT !.avoid[ProbeOf(d)] = {}] :
                  p \in UNION {Proxy!Registered(q, d) : q \in Proxy!Limited(pool, LimitOf[d])}}
  /\ load' = [load EXCEPT ![d].at = "probe"]
  /\ job' = [job EXCEPT ![ProbeOf(d)] = [Idle EXCEPT !.at = "again"]]
  /\ UNCHANGED <<stopped, trouble>> /\ NoReadback

\* There is no list, or nothing in it.
NoList(d) ==
  /\ load[d].at = "load" /\ Trouble(d, "list")
  /\ load' = [load EXCEPT ![d].at = "over", ![d].result = "fallback"]
  /\ UNCHANGED <<pool, job, stopped>> /\ NoReadback

\* proxyAttemptBudget(): each attempt that counts has excluded one proxy more.
Budget == Min({Cardinality(Proxies), Max({ProxyAttempts, 8})})
MayTry(j) == Cardinality(pool.avoid[j]) < Budget /\ job[j].failures < ProxyAttempts

\* The next turn of the loop over the attempts asks for a proxy.  A job fetches as
\* soon as it has a lease.
Attempt(j) ==
  /\ job[j].at = "again" /\ MayTry(j) /\ ~Signalled(j)
  /\ pool' \in Proxy!Asked(pool, j)
  /\ job' = [job EXCEPT ![j].at = "fetch"]
  /\ UNCHANGED <<load, stopped, trouble>> /\ NoReadback

Has(j, at) == job[j].at = at /\ pool.lease[j] # None

\* Rejected by the coordinator: neither in its queue nor with a lease.
Rejected(j, at) ==
  job[j].at = at /\ pool.lease[j] = None /\ j \notin ToSet(pool.queue)

\* The attempt with proxy x has excluded it.
Excluding(p, j, x) == [p EXCEPT !.avoid[j] = @ \union {x}]

\* What the coordinator does when a server has refused.
Reported(p, d, e) ==
  CASE e = "busy503" -> Proxy!Reported503(p, d)
    [] e = "busy429" -> Proxy!Reported429(p)
    [] OTHER -> {p}

\* A lease released after an error: what the server answered, or the signal cut
\* off, does not count against the proxy.
ReleasedAfter(j, x, e) ==
  IF e \in {"origin", "busy503", "busy429", "changed"} \/ Signalled(j)
  THEN Proxy!ReleasedWell(pool, j, x) ELSE Proxy!ReleasedFailed(pool, j, x)

-----------------------------------------------------------------------------
\* The probe.  What it ends with decides how the download goes on.
ProbeFetches(d) == Has(ProbeOf(d), "fetch")
ProbeProxy(d) == pool.lease[ProbeOf(d)]

ProbeReleased(d, e) == ReleasedAfter(ProbeOf(d), ProbeProxy(d), e)

ProbeLeaves(d, at, result) ==
  /\ job' = [job EXCEPT ![ProbeOf(d)] = Idle]
  /\ load' = [load EXCEPT ![d].at = at, ![d].result = result]
  /\ UNCHANGED stopped /\ NoReadback

\* The server serves ranges, and the file is large enough for two connections.
ProbeOk(d) ==
  /\ ProbeFetches(d)
  /\ pool' \in Proxy!ReleasedWell(pool, ProbeOf(d), ProbeProxy(d))
  /\ IF Cardinality(WorkersOf(d)) < 2
     THEN ProbeLeaves(d, "ending", "fallback")
     ELSE ProbeLeaves(d, "prepare", "none")
  /\ UNCHANGED trouble

\* It serves none; its certificate is refused; the error is one of a disk.
ProbeRefused(d) ==
  /\ ProbeFetches(d)
  /\ \/ /\ Trouble(d, "no ranges")
        /\ pool' \in Proxy!ReleasedWell(pool, ProbeOf(d), ProbeProxy(d))
        /\ ProbeLeaves(d, "ending", "fallback")
     \/ /\ ~Signalled(ProbeOf(d)) /\ Trouble(d, "certificate")
        /\ pool' \in UNION {Reported(p, d, job[ProbeOf(d)].error) :
                              p \in ProbeReleased(d, "certificate")}
        /\ ProbeLeaves(d, "ending", "fallback")
     \/ /\ ~Signalled(ProbeOf(d)) /\ Trouble(d, "disk")
        /\ pool' \in ProbeReleased(d, "disk")
        /\ ProbeLeaves(d, "ending", "failed")

\* The server refuses, or the proxy fails: the next attempt decides.
ProbeFails(d) ==
  /\ ProbeFetches(d)
  /\ \/ \E e \in {"origin", "busy503", "busy429"} :
          /\ Trouble(d, e)
          /\ pool' \in {Excluding(p, ProbeOf(d), ProbeProxy(d)) : p \in ProbeReleased(d, e)}
          /\ job' = [job EXCEPT ![ProbeOf(d)].at = "again", ![ProbeOf(d)].error = e,
                                ![ProbeOf(d)].failures = @ + 1]
     \/ /\ Trouble(d, "other")
        /\ pool' \in {Excluding(p, ProbeOf(d), ProbeProxy(d)) :
                        p \in Proxy!ReleasedFailed(pool, ProbeOf(d), ProbeProxy(d))}
        /\ job' = [job EXCEPT ![ProbeOf(d)].at = "again"]
  /\ UNCHANGED <<load, stopped>> /\ NoReadback

\* The signal cuts the request off.
ProbeCut(d) ==
  /\ ProbeFetches(d) /\ Signalled(ProbeOf(d))
  /\ pool' \in ProbeReleased(d, "abort")
  /\ ProbeLeaves(d, "ending", "aborted")
  /\ UNCHANGED trouble

\* No attempt is left, or the coordinator rejects it.
ProbeEnds(d) ==
  LET j == ProbeOf(d)
  IN  /\ load[d].at = "probe"
      /\ \/ /\ job[j].at = "again" /\ ~MayTry(j)
            /\ pool' \in Reported(pool, d, job[j].error)
            /\ ProbeLeaves(d, "ending", "fallback")
         \/ /\ \/ job[j].at = "again" /\ MayTry(j) /\ Signalled(j)
               \/ Rejected(j, "fetch")
            /\ ProbeLeaves(d, "ending", "aborted")
            /\ UNCHANGED pool
      /\ UNCHANGED trouble
-----------------------------------------------------------------------------
\* The directory is made and the target path looked at: what has contents stays.
Prepared(d) ==
  /\ load[d].at = "prepare"
  /\ \/ /\ load' = [load EXCEPT ![d].at = "allocate"]
        /\ UNCHANGED trouble
     \/ /\ Trouble(d, "target taken")
        /\ load' = [load EXCEPT ![d].at = "ending", ![d].result = "fallback"]
     \/ /\ Trouble(d, "disk")
        /\ load' = [load EXCEPT ![d].at = "ending", ![d].result = "failed"]
  /\ UNCHANGED <<pool, job, stopped>> /\ NoReadback

\* How an error that no worker has thrown ends the download.
Thrown(d) == IF d \in stopped THEN {"aborted"} ELSE {"failed", "fallback"}

\* The temporary file is opened and given its full size, and the workers begin;
\* none of this looks at the signal.
Allocated(d) ==
  /\ load[d].at = "allocate"
  /\ \/ /\ load' = [load EXCEPT ![d].at = "segments", ![d].temp = TRUE]
        /\ job' = [j \in Jobs |-> IF j \in WorkersOf(d)
                                  THEN [Idle EXCEPT !.at = "next"] ELSE job[j]]
        /\ UNCHANGED trouble
     \/ /\ Trouble(d, "disk")
        /\ \E temp \in BOOLEAN, r \in Thrown(d) :
             load' = [load EXCEPT ![d].at = "cleanup", ![d].temp = temp, ![d].result = r]
        /\ UNCHANGED job
  /\ UNCHANGED <<pool, stopped>> /\ NoReadback

\* The head of a worker's loop: while (!signal.aborted).
NextSegment(j) ==
  LET d == DownloadOf(j)
  IN  /\ job[j].at = "next"
      /\ IF Signalled(j) \/ load[d].next > SegmentsOf[d]
         THEN /\ job' = [job EXCEPT ![j].at = "done"]
              /\ UNCHANGED <<pool, load>>
         ELSE /\ job' = [job EXCEPT ![j] =
                           [Idle EXCEPT !.at = "again", !.segment = load[d].next]]
              /\ load' = [load EXCEPT ![d].next = @ + 1]
              /\ pool' = [pool EXCEPT !.avoid[j] = {}]
      /\ UNCHANGED <<stopped, trouble>> /\ NoReadback

GivesUp_Swallowed(j) ==
  /\ job[j].at = "again" /\ (~MayTry(j) \/ Signalled(j))
  /\ job' = [job EXCEPT ![j].at = "next"]
  /\ UNCHANGED <<pool, load, stopped, trouble>> /\ NoReadback

\* A worker throws: no attempt is left, or the signal has fired.
GivesUp(j) ==
  /\ \/ job[j].at = "again" /\ (~MayTry(j) \/ Signalled(j))
     \/ Rejected(j, "fetch")
     \/ job[j].at = "pause" /\ Signalled(j)
  /\ job' = [job EXCEPT ![j].at = "failed",
       ![j].error = IF job[j].at = "again" /\ ~MayTry(j) THEN @ ELSE "abort"]
  /\ UNCHANGED <<pool, load, stopped, trouble>> /\ NoReadback

(***************************************************************************)
(* The catch of an attempt with proxy x, when its lease has been released  *)
(* and the coordinator is one of ps.  What the attempt has written is      *)
(* taken back.  A server that is busy is asked again after a delay,        *)
(* through any proxy, for as long as the budget of time lasts.             *)
(***************************************************************************)
Caught(j, e, x, ps) ==
  LET d == DownloadOf(j)
      busy == e \in {"busy503", "busy429"}
      told == UNION {Reported(p, d, e) : p \in ps}
      goesTo(at, error, more) ==
        job' = [job EXCEPT ![j] = [job[j] EXCEPT !.at = at, !.part = 0, !.proxy = None,
                                                 !.error = error, !.failures = @ + more]]
  IN  /\ load' = [load EXCEPT ![d].progress = Max({0, @ - job[j].part})]
      /\ \/ /\ busy /\ d \notin stopped
            /\ pool' \in {[p EXCEPT !.avoid[j] = @ \ {x}] : p \in told}
            /\ goesTo("pause", "origin", 0)
         \/ /\ pool' \in {Excluding(p, j, x) : p \in told}
            /\ goesTo(IF d \in stopped \/ e \in {"disk", "certificate"}
                      THEN "failed" ELSE "again",
                      IF busy THEN "origin" ELSE e,
                      IF busy \/ e = "origin" THEN 1 ELSE 0)
      /\ UNCHANGED stopped

\* What may go wrong with a request of a worker.
Errors == {"other", "origin", "busy503", "busy429", "changed", "disk", "certificate"}

\* The segment is accepted.
Accepted(j) ==
  /\ job' = [job EXCEPT ![j].at = "next", ![j].part = 0, ![j].proxy = None]
  /\ load' = [load EXCEPT ![DownloadOf(j)].valid = @ \union {job[j].segment}]
  /\ UNCHANGED stopped

\* updateProgress() of n writes of a segment
Progress(j, n) ==
  LET d == DownloadOf(j)
  IN  load' = [load EXCEPT ![d].progress = Min({@ + n, Bytes * SegmentsOf[d]})]

\* flushBuffered() while the response goes on; a write that is under way when the
\* signal fires is still counted.
Flushed(j) ==
  /\ Has(j, "fetch") /\ job[j].part + 1 < Bytes
  /\ Progress(j, 1)
  /\ job' = [job EXCEPT ![j].part = @ + 1]
  /\ UNCHANGED <<pool, stopped, trouble>> /\ NoReadback

\* The last flush: the proxy goes to the next, and the segment is to be read back.
Written(j) ==
  /\ Has(j, "fetch")
  /\ Progress(j, Bytes - job[j].part)
  /\ job' = [job EXCEPT ![j].at = "readback", ![j].part = Bytes, ![j].proxy = pool.lease[j]]
  /\ pool' \in Proxy!SlotGiven(Excluding(pool, j, pool.lease[j]), j)
  /\ Readback!AcquireAborted(j) \/ Readback!Acquire(j) \/ Readback!Queue(j)
  /\ UNCHANGED <<stopped, trouble>>

\* A request fails: the first one of a segment, or the second one that checks it.
RequestFails(j, x) ==
  LET y == pool.lease[j]
  IN  \/ \E e \in Errors : /\ Trouble(DownloadOf(j), e)
                           /\ Caught(j, e, x, ReleasedAfter(j, y, e))
      \/ /\ Signalled(j) /\ UNCHANGED trouble
         /\ Caught(j, "abort", x, ReleasedAfter(j, y, "abort"))

FetchFails(j) ==
  /\ Has(j, "fetch")
  /\ RequestFails(j, pool.lease[j])
  /\ NoReadback

\* The delay before a busy server is asked again is over.
PauseEnds(j) ==
  /\ job[j].at = "pause" /\ ~Signalled(j)
  /\ job' = [job EXCEPT ![j].at = "again"]
  /\ UNCHANGED <<pool, load, stopped, trouble>> /\ NoReadback

\* The signal fires while the worker waits for a slot of the readback limiter, or
\* has fired before it asked for one.
ReadbackRejected(j) ==
  /\ job[j].at = "readback" /\ phase[j] = "rejected"
  /\ Caught(j, "abort", job[j].proxy, ReleasedAfter(j, job[j].proxy, "abort"))
  /\ UNCHANGED trouble /\ NoReadback

\* The readback ends: equal and beyond doubt, equal but with long runs of zeros,
\* different or failed, or cut off by the signal, which is not looked at any more
\* after the last read.
ReadBack(j) ==
  /\ job[j].at = "readback" /\ phase[j] = "holding"
  /\ Readback!Release(j)
  /\ LET x == job[j].proxy
     IN  \/ /\ pool' \in Proxy!ReleasedMeasured(pool, j, x)
            /\ Accepted(j) /\ UNCHANGED trouble
         \/ /\ pool' \in Proxy!ReleasedMeasured(pool, j, x)
            /\ Trouble(DownloadOf(j), "zeros")
            /\ job' = [job EXCEPT ![j].at = "suspect"]
            /\ UNCHANGED <<load, stopped>>
         \/ \E e \in {"other", "disk"} : /\ Trouble(DownloadOf(j), e)
                                         /\ Caught(j, e, x, ReleasedAfter(j, x, e))
         \/ /\ Signalled(j) /\ UNCHANGED trouble
            /\ Caught(j, "abort", x, ReleasedAfter(j, x, "abort"))

\* Runs of zeros are fetched once more, through a proxy not yet excluded.
Suspected(j) ==
  /\ job[j].at = "suspect"
  /\ IF Signalled(j) \/ Proxies \subseteq pool.avoid[j]
     THEN Caught(j, IF Signalled(j) THEN "abort" ELSE "other", job[j].proxy, {pool})
     ELSE /\ pool' \in Proxy!Asked(pool, j)
          /\ job' = [job EXCEPT ![j].at = "check"]
          /\ UNCHANGED <<load, stopped>>
  /\ UNCHANGED trouble /\ NoReadback

CheckRejected(j) ==
  /\ Rejected(j, "check")
  /\ Caught(j, "abort", job[j].proxy, {pool})
  /\ UNCHANGED trouble /\ NoReadback

\* The second answer is the same, or another, or none comes.
Checked(j) ==
  /\ Has(j, "check")
  /\ LET released == Proxy!ReleasedMeasured(pool, j, pool.lease[j])
     IN  \/ pool' \in released /\ Accepted(j) /\ UNCHANGED trouble
         \/ /\ Trouble(DownloadOf(j), "other")
            /\ Caught(j, "other", job[j].proxy,
                 UNION {Proxy!Mismatched(p, job[j].proxy) : p \in released})
         \/ RequestFails(j, job[j].proxy)
  /\ NoReadback

-----------------------------------------------------------------------------
\* The signal of the workers fires: those that wait for a proxy or for a slot of
\* the readback limiter leave the queues.
Dispatched(d) ==
  /\ Readback!Abort(d)
  /\ pool' \in Proxy!Left(pool, {j \in Jobs : DownloadOf(j) = d})

\* A worker that has failed ends the others: segmentController.abort().
Cascade(d) ==
  /\ d \notin aborted
  /\ \E j \in WorkersOf(d) : job[j].at = "failed"
  /\ Dispatched(d)
  /\ UNCHANGED <<load, job, stopped, trouble>>

\* options.signal fires, and with it the signal of the workers.
Stop(d) ==
  /\ load[d].at # "over" /\ d \notin stopped /\ Trouble(d, "stop")
  /\ stopped' = stopped \union {d}
  /\ IF d \in aborted THEN UNCHANGED <<pool, active, waiting, phase, aborted>>
                      ELSE Dispatched(d)
  /\ UNCHANGED <<load, job>>

\* All workers have ended; what they threw decides.
Settled(d) ==
  LET failed  == {k \in 1..Connections : job[<<d, k>>].at = "failed"}
      error(k) == job[<<d, k>>].error
      causes  == {k \in failed : error(k) # "abort"}
      result ==
        CASE d \in stopped -> "aborted"
          [] error(Min(failed)) = "disk" -> "failed"
          [] \E k \in failed : error(k) = "origin" -> "fallback"
          [] error(Min(causes)) = "changed" -> "changed"
          [] OTHER -> "fallback"
  IN  /\ load[d].at = "segments"
      /\ \A j \in WorkersOf(d) : job[j].at \in {"done", "failed"}
      /\ load' = IF failed = {} THEN [load EXCEPT ![d].at = "commit"]
                 ELSE [load EXCEPT ![d].at = "cleanup", ![d].result = result]
      /\ job' = [j \in Jobs |-> IF j \in WorkersOf(d) THEN Idle ELSE job[j]]
      /\ UNCHANGED <<pool, stopped, trouble>> /\ NoReadback

\* The file is flushed, its size compared, and it is renamed.
Commit(d) ==
  /\ load[d].at = "commit"
  /\ \/ /\ load' = [load EXCEPT ![d].at = "ending", ![d].temp = FALSE,
                                ![d].renamed = TRUE, ![d].result = "completed"]
        /\ UNCHANGED trouble
     \/ /\ Trouble(d, "disk")
        /\ \E r \in Thrown(d) :
             load' = [load EXCEPT ![d].at = "cleanup", ![d].result = r]
  /\ UNCHANGED <<pool, job, stopped>> /\ NoReadback

Cleanup_ProgressKept(d) ==
  /\ load[d].at = "cleanup"
  /\ load' = [load EXCEPT ![d].at = "ending", ![d].temp = FALSE, ![d].valid = {}]
  /\ UNCHANGED <<pool, job, stopped, trouble>> /\ NoReadback

\* The temporary file is closed and removed, and its progress taken back.
Cleanup(d) ==
  /\ load[d].at = "cleanup"
  /\ load' = [load EXCEPT ![d].at = "ending", ![d].temp = FALSE, ![d].valid = {},
       ![d].progress = IF load[d].temp THEN 0 ELSE @]
  /\ UNCHANGED <<pool, job, stopped, trouble>> /\ NoReadback

\* The download leaves the coordinator.  If the server served another file than the
\* one that was probed, all begins once more.
Ended(d) ==
  LET twice == load[d].result = "changed" /\ load[d].run = 1
  IN  /\ load[d].at = "ending"
      /\ pool' \in Proxy!Unregistered(pool, d)
      /\ IF twice /\ d \notin stopped
         THEN /\ load' = [load EXCEPT ![d].at = "load", ![d].run = 2, ![d].next = 1,
                                      ![d].result = "none"]
              /\ aborted' = aborted \ {d}
         ELSE /\ load' = [load EXCEPT ![d].at = "over",
                   ![d].result = IF twice THEN "aborted"
                                 ELSE IF @ = "changed" THEN "fallback" ELSE @]
              /\ UNCHANGED aborted
      /\ UNCHANGED <<job, stopped, trouble, readbackVars>>

-----------------------------------------------------------------------------
\* What is left to do before the event loop turns.
Pending ==
  \/ \E j \in Jobs :
       \/ job[j].at \in {"again", "next", "suspect"}
       \/ Rejected(j, "fetch") \/ Rejected(j, "check")
       \/ job[j].at = "pause" /\ Signalled(j)
       \/ job[j].at = "readback" /\ phase[j] = "rejected"
       \/ job[j].at = "failed" /\ ~Signalled(j)
  \/ \E d \in Downloads :
       \/ load[d].at = "ending"
       \/ load[d].at = "segments" /\ \A j \in WorkersOf(d) : job[j].at \in {"done", "failed"}

Continues ==
  \/ \E j \in Jobs : Attempt(j)
  \/ \E j \in Workers :
       \/ NextSegment(j) \/ GivesUp(j) \/ ReadbackRejected(j)
       \/ Suspected(j) \/ CheckRejected(j)
  \/ \E d \in Downloads : ProbeEnds(d) \/ Cascade(d) \/ Settled(d) \/ Ended(d)

\* Callbacks that come because a request, a file operation or a delay has ended.
WorkerHears(j) ==
  Flushed(j) \/ Written(j) \/ FetchFails(j) \/ PauseEnds(j) \/ ReadBack(j) \/ Checked(j)
DownloadHears(d) ==
  \/ Loaded(d) \/ NoList(d)
  \/ ProbeOk(d) \/ ProbeRefused(d) \/ ProbeFails(d) \/ ProbeCut(d)
  \/ Prepared(d) \/ Allocated(d) \/ Commit(d) \/ Cleanup(d)

CooldownEnds ==
  /\ pool.cooling # <<>>
  /\ pool' \in Proxy!Expired(pool)
  /\ UNCHANGED <<load, job, stopped, trouble>> /\ NoReadback

Next ==
  \/ Pending /\ Continues
  \/ /\ ~Pending
     /\ \/ \E j \in Workers : WorkerHears(j)
        \/ \E d \in Downloads : DownloadHears(d) \/ Stop(d)
        \/ CooldownEnds

Spec == Init /\ [][Next]_vars

-----------------------------------------------------------------------------
\* The books of the coordinator and of the downloads agree: a proxy serves one
\* request at a time, which is on its way, and only downloads that are registered
\* wait or load.
SegmentsTypeOK ==
  /\ Proxy!PoolTypeOK
  /\ \A j \in Jobs :
       /\ pool.lease[j] # None => job[j].at \in {"fetch", "check"}
       /\ j \in ToSet(pool.queue) => job[j].at \in {"fetch", "check"} /\ ~Signalled(j)
  /\ \A j \in Workers : phase[j] \in {"waiting", "holding"} => job[j].at = "readback"
  /\ active = Cardinality(Readback!Holding)
  /\ \A d \in Downloads :
       /\ d \in pool.groups <=> load[d].at \notin {"load", "over"}
       /\ load[d].temp => load[d].at \in {"segments", "commit", "cleanup"}

NoIdleProxy == Proxy!NoIdleProxy

\* The limiter of the readbacks does what is expected of a limiter: a segment waits
\* only while every slot is taken, and no slot goes to one that has been rejected.
ReadbackIsAPool == Readback!PoolSpec

\* The writes of a download that are in its file: those of the segments that were
\* accepted, and those of the segments its workers have begun.
Held(d) ==
  {w \in (1..SegmentsOf[d]) \X (1..Bytes) :
     \/ w[1] \in load[d].valid
     \/ \E j \in WorkersOf(d) : job[j].segment = w[1] /\ w[2] <= job[j].part}

\* The progress a download has reported is what its file holds.  Nothing is counted
\* twice, and nothing of an attempt that failed, or of a file that was removed, stays
\* in it.
ProgressIsExact ==
  \A d \in Downloads : load[d].progress = Cardinality(Held(d))

\* A file that is at its target has every segment accepted, if nobody has stopped
\* the download: no segment is skipped, lost in a retry or left to a worker that has
\* ended.
WholeUnlessStopped ==
  \A d \in Downloads :
    load[d].renamed /\ d \notin stopped
      => load[d].valid = 1..SegmentsOf[d]

\* CHANGELOG.md:257 and 301: every segment is read back and compared before it is
\* accepted, and completion is atomic.  What is renamed to the target is the file.
CompletedIsWhole ==
  \A d \in Downloads :
    load[d].renamed => load[d].valid = 1..SegmentsOf[d]

(***************************************************************************)
(* As long as a download has not ended something goes on that will call    *)
(* back: a request, a file operation, a delay or a timer of the            *)
(* coordinator.  Nobody waits for proxies and slots that only others wait  *)
(* for.  A download makes finitely many attempts, so that all of them end. *)
(***************************************************************************)
SomethingGoesOn ==
  \/ \A d \in Downloads : load[d].at = "over"
  \/ Pending
  \/ \E j \in Jobs : job[j].at = "pause" \/ pool.lease[j] # None
  \/ Readback!Holding # {}
  \/ \E d \in Downloads : load[d].at \in {"load", "prepare", "allocate", "commit", "cleanup"}
  \/ pool.wake # None
=============================================================================

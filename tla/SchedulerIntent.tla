-------------------------- MODULE SchedulerIntent --------------------------
(***************************************************************************)
(* DownloadScheduler with a record of what the user has asked for, to      *)
(* compare it with what the tools interface (src/main/mcp/tools.ts) tells  *)
(* a caller each operation does.                                           *)
(***************************************************************************)
EXTENDS DownloadScheduler

VARIABLE stopped  \* the last start or stop the user called was a stop

intentVars == <<vars, stopped>>

IntentInit == Init /\ stopped = TRUE

AskStart ==
  /\ Start \/ \E is \in SUBSET Items \ {{}} : StartSelected(is)
  /\ stopped' = FALSE
AskStop == Stop("stop") /\ stopped' = TRUE

\* Everything the user does not do, and what neither starts nor stops the queue.
Otherwise ==
  /\ \/ LoopSteps \/ MarkReconnectWait \/ StartContinues \/ ReconnectOver
     \/ \E i \in Items :
          \/ TaskSteps(i)
          \/ PreflightHolds(i) \/ TransferHolds(i) \/ ChunkWritten(i)
          \/ Paced(i) \/ WatchdogAborts(i) \/ RetryDue(i)
          \/ StartFinalizes(i) \/ StartRequeues(i)
     \/ \E p \in Packages : PostProcessed(p) \/ Disable(p) \/ Enable(p)
     \/ Pause \/ Resume
  /\ UNCHANGED stopped

IntentNext == AskStart \/ AskStop \/ Otherwise

IntentSpec == IntentInit /\ [][IntentNext]_intentVars

-----------------------------------------------------------------------------
\* "Stop current downloads through the existing scheduler.": after a stop the
\* queue does not run before the user starts it again.
StopStops == stopped => ~running
=============================================================================

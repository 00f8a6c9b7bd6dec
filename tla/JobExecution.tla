---------------------------- MODULE JobExecution -----------------------------
(***************************************************************************)
(* What the download and the verify consumer have in common: the life of   *)
(* one BullMQ execution around process(), the failure ladder they record   *)
(* in the row and the video, and the worker's 'failed' listener for        *)
(* executions BullMQ declared stalled (both run with maxStalledCount 0).   *)
(***************************************************************************)
EXTENDS ArchiveState

WorkerRunning == phase \in {"up", "draining"}
Running(ids) == {j \in ids : pc[j] # "idle"}

\* Executions of j's queue running now, against the consumer's concurrency.
SlotFree(j) ==
    IF j \in Downloads
    THEN Cardinality(Running(Downloads)) < Concurrency
    ELSE Running(Verifies) = {}

\* process() of j goes on at step s.
Goto(j, s) ==
    /\ pc' = [pc EXCEPT ![j] = s]
    /\ UNCHANGED <<seen, fresh, ctl, chained>>

\* process() of j leaves, by its finally: the control entry is unregistered in
\* the same turn of the event loop.
Leave(j, how) ==
    /\ pc' = [pc EXCEPT ![j] = how]
    /\ ctl' = [ctl EXCEPT ![j] = "absent"]
    /\ UNCHANGED <<seen, fresh, chained>>

Registered(j) == ctl[j] # "absent"
Signalled(j) == ctl[j] \in Aborted

\* An error caught inside process(): an abort that fired wins over the failure;
\* otherwise the attempt fails, for good when it is the last one.
LastAttempt(j) == made[j] + 1 >= Attempts(j)
CatchStep(j) ==
    IF Signalled(j) THEN "abort"
    ELSE IF LastAttempt(j) THEN "failFinal" ELSE "failRetry"

-----------------------------------------------------------------------------
\* BullMQ around process()

\* A free slot takes a waiting execution and its lock.
Activate(j, first) ==
    /\ phase = "up"
    /\ bull[j] = "waiting"
    /\ pc[j] = "idle"
    /\ SlotFree(j)
    /\ bull' = [bull EXCEPT ![j] = "active"]
    /\ Goto(j, first)
    /\ UNCHANGED <<made, rowVars, copyState, staging, control, bootVars, lpc,
                   apiVars, faults>>

\* process() returned or threw: BullMQ completes, retries or fails the
\* execution it holds the lock of (removeOnComplete and removeOnFail drop it).
\* Without the lock nothing is written.
Settle(j) ==
    /\ pc[j] \in SettleSteps
    /\ IF bull[j] # "active"
       THEN UNCHANGED queueVars
       ELSE IF pc[j] = "settleThrow" /\ ~LastAttempt(j)
            THEN /\ bull' = [bull EXCEPT ![j] = "delayed"]
                 /\ made' = [made EXCEPT ![j] = @ + 1]
            ELSE /\ bull' = [bull EXCEPT ![j] = "absent"]
                 /\ made' = [made EXCEPT ![j] = 0]
    /\ pc' = [pc EXCEPT ![j] = "idle"]
    /\ seen' = [seen EXCEPT ![j] = "CANDIDATE"]
    /\ fresh' = [fresh EXCEPT ![j] = FALSE]
    /\ chained' = [chained EXCEPT ![j] = NoJob]
    /\ UNCHANGED <<ctl, rowVars, copyState, staging, control, bootVars, lpc,
                   apiVars, faults>>

\* The backoff of a retried execution is over.
BackoffOver(j) ==
    /\ bull[j] = "delayed"
    /\ bull' = [bull EXCEPT ![j] = "waiting"]
    /\ UNCHANGED <<made, rowVars, copyState, staging, control, bootVars,
                   execVars, lpc, apiVars, faults>>

\* Requests that have yet to touch the execution of their row.
BeforeQueue == {"add", "resumeAdd", "cancelRemove", "pauseRemove"}

\* The lock of an execution whose worker died expires; the stall checker of a
\* running worker finds it.  The lock lives for 30 seconds after the death: a
\* request on its way to the queue by then is there before.
StallDetected(j) ==
    /\ phase = "up"
    /\ bull[j] = "active"
    /\ pc[j] = "idle"
    /\ \A r \in Requests : hjob[r] = j => hpc[r] \notin BeforeQueue
    /\ bull' = [bull EXCEPT ![j] = "stalled"]
    /\ UNCHANGED <<made, rowVars, copyState, staging, control, bootVars,
                   execVars, lpc, apiVars, faults>>

\* The lock of a live execution expires (a blocked event loop, a Redis pause);
\* process() goes on, unaware.
LockLost(j) ==
    /\ WorkerRunning
    /\ bull[j] = "active"
    /\ pc[j] # "idle"
    /\ Fault("lock")
    /\ bull' = [bull EXCEPT ![j] = "stalled"]
    /\ UNCHANGED <<made, rowVars, copyState, staging, control, bootVars,
                   execVars, lpc, apiVars>>

\* A free slot re-picks a stalled execution: BullMQ fails and removes it
\* without running process(), and emits 'failed'.
StallFailed(j) ==
    /\ phase = "up"
    /\ bull[j] = "stalled"
    /\ lpc[j] = "idle"
    /\ SlotFree(j)
    /\ bull' = [bull EXCEPT ![j] = "absent"]
    /\ made' = [made EXCEPT ![j] = 0]
    /\ lpc' = [lpc EXCEPT ![j] = "row"]
    /\ UNCHANGED <<rowVars, copyState, staging, control, bootVars, execVars,
                   apiVars, faults>>

-----------------------------------------------------------------------------
\* handleFailure and its two recordings

\* Final failure: a video still in the job's working state becomes FAILED ...
FailFinal(j) ==
    /\ pc[j] = "failFinal"
    /\ TransitionCopy(jobVideo[j], WorkState(j), "FAILED")
    /\ Goto(j, "failRow")
    /\ UNCHANGED <<rowVars, staging, queueVars, control, bootVars, lpc,
                   apiVars, faults>>

\* ... and then the row is FAILED; BullMQ does not retry.
FailRow(j) ==
    /\ pc[j] = "failRow"
    /\ MarkFinished(j, "FAILED", FALSE)
    /\ Leave(j, "settleUnrecoverable")
    /\ UNCHANGED <<jobVideo, copyState, staging, queueVars, control, bootVars,
                   lpc, apiVars, faults>>

\* Transient failure: the row is handed back QUEUED for the backoff window.
FailRetry(j) ==
    /\ pc[j] = "failRetry"
    /\ MarkRequeued(j)
    /\ Leave(j, "settleThrow")
    /\ UNCHANGED <<jobVideo, stagingDir, copyState, staging, queueVars,
                   control, bootVars, lpc, apiVars, faults>>

\* The work is done: the row is COMPLETED and its staging pointer cleared.
Finish(j) ==
    /\ pc[j] = "finish"
    /\ MarkFinished(j, "COMPLETED", j \in Downloads)
    /\ Leave(j, "settleOk")
    /\ UNCHANGED <<jobVideo, copyState, staging, queueVars, control, bootVars,
                   lpc, apiVars, faults>>

\* A recorder write whose statement throws is swallowed: process() goes on as
\* if the row had been written.
RecorderSwallows(j) ==
    /\ Fault("db")
    /\ \/ pc[j] = "finish" /\ Leave(j, "settleOk")
       \/ pc[j] = "failRow" /\ Leave(j, "settleUnrecoverable")
       \/ pc[j] = "failRetry" /\ Leave(j, "settleThrow")
       \* failFinal has no guard of its own: its error leaves process().
       \/ pc[j] = "failFinal" /\ Leave(j, "settleThrow")
    /\ UNCHANGED <<rowVars, copyState, staging, queueVars, control, bootVars,
                   lpc, apiVars>>

\* So is the row write of the listener.
ListenerSwallows(j) ==
    /\ lpc[j] = "mark"
    /\ Fault("db")
    /\ lpc' = [lpc EXCEPT ![j] = "video"]
    /\ UNCHANGED <<rowVars, copyState, staging, queueVars, control, bootVars,
                   execVars, apiVars>>

-----------------------------------------------------------------------------
\* The 'failed' listener of a stalled execution (handleWorkerFailed)

\* Mutant: a RUNNING row is taken for one a live worker owns.
ListenSkipsRunning(j) == jobStatus[j] # "QUEUED"
\* A row the owner paused, or that already has its verdict, is left alone.
ListenSkips(j) == jobStatus[j] = "PAUSED" \/ Terminal(j)

ListenRow(j) ==
    /\ lpc[j] = "row"
    /\ lpc' = [lpc EXCEPT ![j] = IF ListenSkips(j) THEN "idle" ELSE "mark"]
    /\ UNCHANGED <<rowVars, copyState, staging, queueVars, control, bootVars,
                   execVars, apiVars, faults>>

ListenMark(j) ==
    /\ lpc[j] = "mark"
    /\ MarkFinished(j, "FAILED", FALSE)
    /\ lpc' = [lpc EXCEPT ![j] = "video"]
    /\ UNCHANGED <<jobVideo, copyState, staging, queueVars, control, bootVars,
                   execVars, apiVars, faults>>

\* A video left in the working state becomes FAILED; a QUEUED one under a
\* download may have lost its only owner.
ListenVideo(j) ==
    /\ lpc[j] = "video"
    /\ TransitionCopy(jobVideo[j], WorkState(j), "FAILED")
    /\ lpc' = [lpc EXCEPT ![j] =
                 IF j \in Downloads /\ copyState[jobVideo[j]] = "QUEUED"
                 THEN "owners" ELSE "idle"]
    /\ UNCHANGED <<rowVars, staging, queueVars, control, bootVars, execVars,
                   apiVars, faults>>

ListenOwners(j) ==
    /\ lpc[j] = "owners"
    /\ lpc' = [lpc EXCEPT ![j] =
                 IF ActiveDownloads(jobVideo[j]) \ {j} = {} THEN "heal" ELSE "idle"]
    /\ UNCHANGED <<rowVars, copyState, staging, queueVars, control, bootVars,
                   execVars, apiVars, faults>>

ListenHeal(j) ==
    /\ lpc[j] = "heal"
    /\ TransitionCopy(jobVideo[j], "QUEUED", "CANDIDATE")
    /\ lpc' = [lpc EXCEPT ![j] = "idle"]
    /\ UNCHANGED <<rowVars, staging, queueVars, control, bootVars, execVars,
                   apiVars, faults>>

Listen(j) ==
    \/ ListenRow(j) \/ ListenMark(j) \/ ListenVideo(j)
    \/ ListenOwners(j) \/ ListenHeal(j)

\* What the worker process does by itself once an execution is under way.
SharedStep(j) ==
    \/ Settle(j) \/ FailFinal(j) \/ FailRow(j) \/ FailRetry(j) \/ Finish(j)
=============================================================================

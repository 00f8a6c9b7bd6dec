--------------------------- MODULE DownloadConsumer --------------------------
(***************************************************************************)
(* The archive role's download consumer: process() of one DOWNLOAD         *)
(* execution, await by await, the abort branches of cancel, pause and      *)
(* shutdown, and the job:control subscriber that fires them.               *)
(***************************************************************************)
EXTENDS JobExecution

DownloadUnchanged == UNCHANGED <<control, bootVars, lpc, apiVars>>

\* Mutant: the first attempt of any execution counts, a resumed row's too.
FreshStartAttempt(j) == made[j] = 0
\* freshStart: the first execution of a row that has no partial on record.
FreshStart(j) == made[j] = 0 /\ ~stagingDir[j]

\* Row and video are read.  A video past DOWNLOADING only needs its verify
\* chained again; otherwise the job registers with the control plane, before
\* the claim.  freshStart is decided on this read of the row.
Load(j) ==
    /\ pc[j] = "load"
    /\ LET state == copyState[jobVideo[j]] IN
       IF state \in {"VERIFYING", "HEALTHY"}
       THEN Goto(j, "chain")
       ELSE /\ pc' = [pc EXCEPT ![j] = "claim"]
            /\ ctl' = [ctl EXCEPT ![j] = "clear"]
            /\ seen' = [seen EXCEPT ![j] = state]
            /\ fresh' = [fresh EXCEPT ![j] = FreshStart(j)]
            /\ UNCHANGED chained
    /\ UNCHANGED <<rowVars, copyState, staging, queueVars, faults>>
    /\ DownloadUnchanged

\* Mutant: the gate is dropped.
ClaimableAlways(j) == TRUE
\* claimForAttempt: a retried execution may also take a RUNNING row.
Claimable(j) ==
    jobStatus[j] = "QUEUED" \/ (made[j] > 0 /\ jobStatus[j] = "RUNNING")

Claim(j, next) ==
    /\ IF Claimable(j)
       THEN /\ jobStatus' = [jobStatus EXCEPT ![j] = "RUNNING"]
            /\ Goto(j, next)
       ELSE /\ Leave(j, "settleOk")
            /\ UNCHANGED jobStatus
    /\ UNCHANGED <<jobVideo, stagingDir, copyState, staging, queueVars, faults>>
    /\ DownloadUnchanged

ClaimDownload(j) == pc[j] = "claim" /\ Claim(j, "begin")

\* The row is FAILED and the video untouched; BullMQ must not retry.
Reject(j) ==
    /\ MarkFinished(j, "FAILED", FALSE)
    /\ Leave(j, "settleUnrecoverable")
    /\ UNCHANGED <<jobVideo, copyState>>

\* QUEUED -> DOWNLOADING, or go on with a video that already is.
Begin(j) ==
    /\ pc[j] = "begin"
    /\ CASE seen[j] = "QUEUED" ->
              /\ TransitionCopy(jobVideo[j], "QUEUED", "DOWNLOADING")
              /\ Goto(j, IF copyState[jobVideo[j]] = "QUEUED" THEN "prepare" ELSE "reread")
              /\ UNCHANGED rowVars
         [] seen[j] = "DOWNLOADING" ->
              /\ Goto(j, "prepare")
              /\ UNCHANGED <<rowVars, copyState>>
         [] OTHER -> Reject(j)
    /\ UNCHANGED <<staging, queueVars, faults>>
    /\ DownloadUnchanged

\* The hop was lost: only a video already DOWNLOADING goes on.
Reread(j) ==
    /\ pc[j] = "reread"
    /\ IF copyState[jobVideo[j]] = "DOWNLOADING"
       THEN Goto(j, "prepare") /\ UNCHANGED <<rowVars, copyState>>
       ELSE Reject(j)
    /\ UNCHANGED <<staging, queueVars, faults>>
    /\ DownloadUnchanged

\* Only a fresh start wipes what an earlier execution or row left in staging.
WipeIfFresh(j) == IF fresh[j] THEN Wipe(jobVideo[j]) ELSE UNCHANGED staging

\* Staging is wiped on a fresh start, the pointer persisted, yt-dlp spawned.
Prepare(j) ==
    /\ pc[j] = "prepare"
    /\ WipeIfFresh(j)
    /\ stagingDir' = [stagingDir EXCEPT ![j] = TRUE]
    /\ Goto(j, "run")
    /\ UNCHANGED <<jobStatus, jobVideo, copyState, queueVars, faults>>
    /\ DownloadUnchanged

\* yt-dlp writes: from here on the directory holds the partial of j.
Writes(j) ==
    /\ pc[j] = "run"
    /\ staging[jobVideo[j]] # j
    /\ staging' = [staging EXCEPT ![jobVideo[j]] = j]
    /\ UNCHANGED <<execVars, rowVars, copyState, queueVars, faults>>
    /\ DownloadUnchanged

\* yt-dlp ended (media pass, or the subtitle pass after it) with an abort fired.
RunAborted(j) ==
    /\ pc[j] = "run"
    /\ Signalled(j)
    /\ Goto(j, "abort")
    /\ UNCHANGED <<rowVars, copyState, staging, queueVars, faults>>
    /\ DownloadUnchanged

\* yt-dlp exited with a failure: a terminal kind (the source is gone) or a
\* transient one.
RunFailed(j) ==
    /\ pc[j] = "run"
    /\ ~Signalled(j)
    /\ \/ Goto(j, "failFinal")
       \/ Goto(j, CatchStep(j))
    /\ UNCHANGED <<rowVars, copyState, staging, queueVars, faults>>
    /\ DownloadUnchanged

\* A kept partial yt-dlp cannot resume: staging is wiped and the pass runs
\* again from scratch, once per execution.
RunUnresumable(j) ==
    /\ pc[j] = "run"
    /\ ~Signalled(j)
    /\ ~fresh[j]
    /\ fresh' = [fresh EXCEPT ![j] = TRUE]
    /\ Wipe(jobVideo[j])
    /\ UNCHANGED <<pc, seen, ctl, chained, rowVars, copyState, queueVars, faults>>
    /\ DownloadUnchanged

\* yt-dlp left its media and no abort had fired at the last check.  An abort that
\* fires from here on comes too late (the code's accepted window).
RunSucceeded(j) ==
    /\ pc[j] = "run"
    /\ ~Signalled(j)
    /\ staging[jobVideo[j]] = j
    /\ Goto(j, "publish")
    /\ UNCHANGED <<rowVars, copyState, staging, queueVars, faults>>
    /\ DownloadUnchanged

\* The artifacts are renamed into the vault and staging removed.
Publish(j) ==
    /\ pc[j] = "publish"
    /\ Wipe(jobVideo[j])
    /\ Goto(j, "advance")
    /\ UNCHANGED <<rowVars, copyState, queueVars, faults>>
    /\ DownloadUnchanged

\* No media in staging, or a file operation failed, half-way.
PublishFailed(j) ==
    /\ pc[j] = "publish"
    /\ Goto(j, CatchStep(j))
    /\ UNCHANGED <<rowVars, copyState, staging, queueVars, faults>>
    /\ DownloadUnchanged

\* DOWNLOADING -> VERIFYING with the metadata; a lost hop completes the row
\* without a verify.
Advance(j) ==
    /\ pc[j] = "advance"
    /\ TransitionCopy(jobVideo[j], "DOWNLOADING", "VERIFYING")
    /\ Goto(j, IF copyState[jobVideo[j]] = "DOWNLOADING" THEN "chain" ELSE "finish")
    /\ UNCHANGED <<rowVars, staging, queueVars, faults>>
    /\ DownloadUnchanged

\* chainVerify: the durable row first ...
Chain(j) ==
    /\ pc[j] = "chain"
    /\ \E k \in Verifies :
         /\ NextId(k, Verifies)
         /\ CreateRow(k, jobVideo[j])
         /\ chained' = [chained EXCEPT ![j] = k]
    /\ pc' = [pc EXCEPT ![j] = "chainAdd"]
    /\ UNCHANGED <<seen, fresh, ctl, copyState, staging, queueVars, faults>>
    /\ DownloadUnchanged

\* ... then its execution.
ChainAdd(j) ==
    /\ pc[j] = "chainAdd"
    /\ QueueAdd(chained[j])
    /\ Goto(j, "finish")
    /\ UNCHANGED <<rowVars, copyState, staging, faults>>
    /\ DownloadUnchanged

-----------------------------------------------------------------------------
\* handleAbort: never throws.
\* Only cancel throws the partial away, and only by the pointer of the row.
AbortWipes(j) == ctl[j] = "cancel" /\ stagingDir[j]

\* shutdown hands the row back QUEUED and pause parks it PAUSED, both keeping
\* staging; cancel first wipes the staging its row points to.
Abort(j) ==
    /\ pc[j] = "abort"
    /\ \/ ctl[j] = "shutdown" /\ MarkRequeued(j) /\ Leave(j, "settleOk")
       \/ ctl[j] = "pause" /\ MarkPaused(j) /\ Leave(j, "settleOk")
       \/ ctl[j] = "cancel" /\ UNCHANGED jobStatus /\ Goto(j, "abortRow")
    /\ IF AbortWipes(j) THEN Wipe(jobVideo[j]) ELSE UNCHANGED staging
    /\ UNCHANGED <<jobVideo, stagingDir, copyState, queueVars, faults>>
    /\ DownloadUnchanged

AbortRow(j) ==
    /\ pc[j] = "abortRow"
    /\ MarkFinished(j, "CANCELED", TRUE)
    /\ Goto(j, "abortHop")
    /\ UNCHANGED <<jobVideo, copyState, staging, queueVars, faults>>
    /\ DownloadUnchanged

AbortHop(j) ==
    /\ pc[j] = "abortHop"
    /\ TransitionCopy(jobVideo[j], "DOWNLOADING", "CANDIDATE")
    /\ Leave(j, "settleOk")
    /\ UNCHANGED <<rowVars, staging, queueVars, faults>>
    /\ DownloadUnchanged

-----------------------------------------------------------------------------
\* Statements that throw

\* Outside the inner try (the reads, the claim, the begin hop, the session
\* cookies) an error leaves process() with the row as it is.  So does an error
\* while re-chaining, where nothing is registered.
BareThrow(j) ==
    /\ \/ pc[j] \in {"load", "claim", "begin", "reread", "prepare"} /\ Fault("db")
       \/ pc[j] = "chain" /\ ~Registered(j) /\ Fault("db")
       \/ pc[j] = "chainAdd" /\ ~Registered(j) /\ Fault("redis")
    /\ Leave(j, "settleThrow")
    /\ UNCHANGED <<rowVars, copyState, staging, queueVars>>
    /\ DownloadUnchanged

\* Inside it, the error is caught and recorded.
CaughtThrow(j) ==
    /\ Registered(j)
    /\ \/ pc[j] \in {"prepare", "advance", "chain"} /\ Fault("db")
       \/ pc[j] = "chainAdd" /\ Fault("redis")
    /\ Goto(j, CatchStep(j))
    /\ UNCHANGED <<rowVars, copyState, staging, queueVars>>
    /\ DownloadUnchanged

\* The write of the staging pointer is best effort: the download goes on, and
\* nothing in the row tells where its partial lives.
PointerLost(j) ==
    /\ pc[j] = "prepare"
    /\ Fault("db")
    /\ WipeIfFresh(j)
    /\ Goto(j, "run")
    /\ UNCHANGED <<rowVars, copyState, queueVars>>
    /\ DownloadUnchanged

\* The verdict of a video that cannot be downloaded is not written: BullMQ is
\* told all the same not to retry.
RejectSwallows(j) ==
    /\ \/ pc[j] = "begin" /\ seen[j] \notin {"QUEUED", "DOWNLOADING"}
       \/ pc[j] = "reread" /\ copyState[jobVideo[j]] # "DOWNLOADING"
    /\ Fault("db")
    /\ Leave(j, "settleUnrecoverable")
    /\ UNCHANGED <<rowVars, copyState, staging, queueVars>>
    /\ DownloadUnchanged

\* handleAbort swallows every error; a row write the recorder swallows lets the
\* cancel branch go on to its video hop.
AbortSwallows(j) ==
    /\ Fault("db")
    /\ \/ pc[j] \in {"abort", "abortHop"} /\ Leave(j, "settleOk")
       \/ pc[j] = "abortRow" /\ Goto(j, "abortHop")
    /\ UNCHANGED <<rowVars, copyState, staging, queueVars>>
    /\ DownloadUnchanged

-----------------------------------------------------------------------------
\* ControlSubscriber.handleMessage: an unknown job is a no-op, a known one gets
\* the command as its mode and its abort fires.
Deliver(m) ==
    /\ m \in control
    /\ control' = control \ {m}
    /\ ctl' = IF WorkerRunning /\ Registered(m[2])
              THEN [ctl EXCEPT ![m[2]] = m[1]]
              ELSE ctl
    /\ UNCHANGED <<pc, seen, fresh, chained, rowVars, copyState, staging,
                   queueVars, bootVars, lpc, apiVars, faults>>

DownloadStep(j) ==
    \/ Load(j) \/ ClaimDownload(j) \/ Begin(j) \/ Reread(j) \/ Prepare(j)
    \/ RunAborted(j) \/ RunFailed(j) \/ RunSucceeded(j)
    \/ Publish(j) \/ PublishFailed(j) \/ Advance(j) \/ Chain(j) \/ ChainAdd(j)
    \/ Abort(j) \/ AbortRow(j) \/ AbortHop(j)

DownloadThrows(j) ==
    \/ BareThrow(j) \/ CaughtThrow(j) \/ PointerLost(j) \/ RejectSwallows(j)
    \/ AbortSwallows(j)
=============================================================================

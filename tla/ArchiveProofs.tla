--------------------------- MODULE ArchiveProofs -----------------------------
(***************************************************************************)
(* Proofs about ArchivePipeline: its types, the one active download of a   *)
(* video, the finality of a verdict, and that every writer of copyState    *)
(* implements CopyLifecycle.                                               *)
(*                                                                         *)
(* The invariant IInv adds to the types what ties the parts together: who  *)
(* works on a row works on one that exists, so the video it writes is one  *)
(* of the vault; and the boot sweep moves a video only along an edge.      *)
(***************************************************************************)
EXTENDS ArchivePipeline, TLAPS

Exists(j) == jobStatus[j] # "ABSENT"

\* A row has a video; executions, listeners and chained verifies have a row.
RowsLinked ==
    \A j \in Jobs :
        /\ Exists(j) => jobVideo[j] \in Videos
        /\ ~Exists(j) => pc[j] = "idle" /\ bull[j] = "absent" /\ lpc[j] = "idle"
        /\ pc[j] = "chainAdd" => chained[j] \in Verifies /\ Exists(chained[j])

\* A request at work is about a download that exists, and a cancel hops from a
\* state a cancel may hop from.
RequestsLinked ==
    \A r \in Requests :
        /\ hpc[r] # "idle" => hjob[r] \in Downloads /\ Exists(hjob[r])
        /\ hpc[r] = "cancelHop" => hfrom[r] \in {"QUEUED", "DOWNLOADING"}

\* The lists of the boot sweep hold rows that exist and hops that are edges.
ListsLinked ==
    /\ \A t \in rowTodo : Exists(t[1])
    /\ \A t \in videoTodo :
         /\ phase = "queued" => t[2] = "CANDIDATE"
         /\ phase = "verifying" => t[2] = "FAILED"

IInv == TypeOK /\ RowsLinked /\ RequestsLinked /\ ListsLinked

\* What a step may do to the rows: one moves from an active status to another
\* or to a verdict, or one is created, a download only for a video without an
\* active one.
RowsMove ==
    \/ /\ jobVideo' = jobVideo
       /\ \A i \in Jobs :
            \/ jobStatus'[i] = jobStatus[i]
            \/ Active(i) /\ jobStatus'[i] \in ActiveStatuses \cup TerminalStatuses
    \/ \E i \in Jobs, v \in Videos :
         /\ ~Exists(i)
         /\ CreateRow(i, v)
         /\ i \in Downloads => ActiveDownloads(v) = {}

\* What a step may do to the videos.
CopyMoves == UNCHANGED copyState \/ Lifecycle!Next

\* What every step keeps.
Kept == TypeOK' /\ RowsLinked' /\ RequestsLinked' /\ ListsLinked' /\ RowsMove /\ CopyMoves

-----------------------------------------------------------------------------
\* The value spaces, the groups of variables and the parts of what is kept are
\* expanded throughout; what an action does is cited where it is used.
USE DEF NoJob, Jobs, FaultKinds, CopyStates, Lifecycle!CopyStates,
        TerminalStatuses, ActiveStatuses, JobStatuses, BullStates, Commands,
        Aborted, CtlStates, Phases, DownloadSteps, VerifySteps, SettleSteps,
        SharedSteps, ListenSteps, RequestSteps

USE DEF rowVars, queueVars, execVars, bootVars, apiVars,
        DownloadUnchanged, VerifyUnchanged, BootUnchanged, ApiUnchanged

USE DEF IInv, TypeOK, RowsLinked, RequestsLinked, ListsLinked, Exists,
        Kept, RowsMove, CopyMoves, Active, Terminal,
        Lifecycle!Next, Lifecycle!Hop, Lifecycle!CopyEdges

\* An empty vault satisfies the invariant.
LEMMA InitKept == Init => IInv
BY JobsAssumption, VideosAssumption DEF Init

\* A compare-and-set along an edge is a hop of the lifecycle, or nothing.
LEMMA TransitionCopyHops ==
  ASSUME IInv, NEW v \in Videos, NEW from, NEW to,
         <<from, to>> \in Lifecycle!CopyEdges, TransitionCopy(v, from, to)
  PROVE  copyState' \in [Videos -> CopyStates] /\ CopyMoves
<1>1. to \in CopyStates
  OBVIOUS
<1>2. CASE copyState[v] = from
  <2>1. copyState' = [copyState EXCEPT ![v] = to]
    BY <1>2 DEF TransitionCopy
  <2>2. Lifecycle!Hop(v, to)
    BY <1>2, <2>1
  <2>3. copyState' \in [Videos -> CopyStates]
    BY <1>1, <2>1
  <2> HIDE DEF Lifecycle!Hop
  <2> QED BY <1>1, <2>2, <2>3
<1>3. CASE copyState[v] # from
  BY <1>3 DEF TransitionCopy
<1> QED BY <1>2, <1>3

-----------------------------------------------------------------------------
\* Executions and the listener

\* Every step of an execution that is not of its consumer keeps the invariant.
LEMMA SharedStepKeeps ==
  ASSUME IInv, NEW j \in Jobs, SharedStep(j)
  PROVE  Kept
<1> USE JobsAssumption DEF Goto, Leave, CasRow, MarkFinished
<1>1. CASE Settle(j)
  BY <1>1 DEF Settle
<1>2. CASE FailFinal(j)
  BY ZenonT(60), <1>2 DEF FailFinal, TransitionCopy, WorkState
<1>3. CASE FailRow(j)
  BY <1>3 DEF FailRow
<1>4. CASE FailRetry(j)
  BY <1>4 DEF FailRetry, MarkRequeued
<1>5. CASE Finish(j)
  BY <1>5 DEF Finish
<1> QED BY <1>1, <1>2, <1>3, <1>4, <1>5 DEF SharedStep

\* So does what BullMQ does around it, locks and backoff included.
LEMMA BullStepKeeps ==
  ASSUME IInv, NEW j \in Jobs,
         \/ Pickup(j) \/ BackoffOver(j) \/ StallDetected(j) \/ StallFailed(j)
         \/ LockLost(j)
  PROVE  Kept
<1>1. CASE Pickup(j)
  BY <1>1 DEF Pickup, Activate, Goto
<1>2. CASE BackoffOver(j)
  BY <1>2 DEF BackoffOver
<1>3. CASE StallDetected(j)
  BY <1>3 DEF StallDetected
<1>4. CASE StallFailed(j)
  BY <1>4 DEF StallFailed
<1>5. CASE LockLost(j)
  BY <1>5, BoundsAssumption DEF LockLost, Fault
<1> QED BY <1>1, <1>2, <1>3, <1>4, <1>5

\* So does the 'failed' listener, statement by statement.
LEMMA ListenKeeps ==
  ASSUME IInv, NEW j \in Jobs, Listen(j)
  PROVE  Kept
<1> USE JobsAssumption DEF TransitionCopy
<1>1. CASE ListenRow(j)
  BY <1>1 DEF ListenRow
<1>2. CASE ListenMark(j)
  BY <1>2 DEF ListenMark, MarkFinished, CasRow
<1>3. CASE ListenVideo(j)
  BY ZenonT(60), <1>3 DEF ListenVideo, WorkState
<1>4. CASE ListenOwners(j)
  BY <1>4 DEF ListenOwners
<1>5. CASE ListenHeal(j)
  BY ZenonT(60), <1>5 DEF ListenHeal
<1> QED BY <1>1, <1>2, <1>3, <1>4, <1>5 DEF Listen

\* And the errors of both.
LEMMA SharedThrowsKeeps ==
  ASSUME IInv, NEW j \in Jobs,
         RecorderSwallows(j) \/ ListenerSwallows(j) \/ ListenerThrows(j)
  PROVE  Kept
<1> USE BoundsAssumption DEF Fault
<1>1. CASE RecorderSwallows(j)
  BY <1>1 DEF RecorderSwallows, Leave
<1>2. CASE ListenerSwallows(j)
  BY <1>2 DEF ListenerSwallows
<1>3. CASE ListenerThrows(j)
  BY <1>3 DEF ListenerThrows, Dies, Stopped
<1> QED BY <1>1, <1>2, <1>3

-----------------------------------------------------------------------------
\* The download consumer

\* From the activation to the end of yt-dlp.
LEMMA DownloadStartKeeps ==
  ASSUME IInv, NEW j \in Downloads,
         \/ Load(j) \/ ClaimDownload(j) \/ Begin(j) \/ Reread(j) \/ Prepare(j)
         \/ RunAborted(j) \/ RunFailed(j) \/ RunSucceeded(j)
  PROVE  Kept
<1> USE JobsAssumption DEF Goto, Leave, CasRow, MarkFinished, TransitionCopy
<1>1. CASE Load(j)
  <2>1. CASE copyState[jobVideo[j]] \in {"VERIFYING", "HEALTHY"}
    BY <1>1, <2>1 DEF Load
  <2>2. CASE copyState[jobVideo[j]] \notin {"VERIFYING", "HEALTHY"}
    <3>0. /\ FreshStart(j) \in BOOLEAN
          /\ fresh' = [fresh EXCEPT ![j] = FreshStart(j)]
      BY <1>1, <2>2, Zenon DEF Load, FreshStart
    <3>1. fresh' \in [Jobs -> BOOLEAN]
      BY <3>0
    <3>2. /\ pc[j] = "load"
          /\ pc' = [pc EXCEPT ![j] = "claim"]
          /\ ctl' = [ctl EXCEPT ![j] = "clear"]
          /\ seen' = [seen EXCEPT ![j] = copyState[jobVideo[j]]]
          /\ UNCHANGED <<chained, rowVars, copyState, staging, queueVars, faults>>
          /\ DownloadUnchanged
      BY <1>1, <2>2, Zenon DEF Load
    <3> QED BY <3>1, <3>2
  <2> QED BY <2>1, <2>2
<1>2. CASE ClaimDownload(j)
  <2>1. /\ pc[j] = "claim"
        /\ UNCHANGED <<jobVideo, stagingDir, copyState, staging, queueVars, faults>>
        /\ DownloadUnchanged
    BY <1>2 DEF ClaimDownload, Claim
  <2>2. CASE Claimable(j)
    <3>1. Active(j)
      BY <2>2 DEF Claimable
    <3>2. jobStatus' = [jobStatus EXCEPT ![j] = "RUNNING"] /\ Goto(j, "begin")
      BY <1>2, <2>2 DEF ClaimDownload, Claim
    <3> QED BY <2>1, <3>1, <3>2
  <2>3. CASE ~Claimable(j)
    <3>1. Leave(j, "settleOk") /\ UNCHANGED jobStatus
      BY <1>2, <2>3 DEF ClaimDownload, Claim
    <3> QED BY <2>1, <3>1
  <2> QED BY <2>2, <2>3
<1>3. CASE Begin(j)
  <2>1. /\ pc[j] = "begin"
        /\ UNCHANGED <<staging, queueVars, faults>>
        /\ DownloadUnchanged
    BY <1>3 DEF Begin
  <2>2. CASE seen[j] = "QUEUED"
    BY SMTT(30), <1>3, <2>1, <2>2 DEF Begin
  <2>3. CASE seen[j] = "DOWNLOADING"
    BY <1>3, <2>1, <2>3 DEF Begin
  <2>4. CASE seen[j] \notin {"QUEUED", "DOWNLOADING"}
    <3>1. Reject(j)
      BY <1>3, <2>4 DEF Begin
    <3> QED BY <2>1, <3>1 DEF Reject
  <2> QED BY <2>2, <2>3, <2>4
<1>4. CASE Reread(j)
  <2>1. CASE copyState[jobVideo[j]] = "DOWNLOADING"
    BY <1>4, <2>1 DEF Reread
  <2>2. CASE copyState[jobVideo[j]] # "DOWNLOADING"
    <3>1. /\ pc[j] = "reread"
          /\ Reject(j)
          /\ UNCHANGED <<staging, queueVars, faults>>
          /\ DownloadUnchanged
      BY <1>4, <2>2 DEF Reread
    <3> QED BY <3>1 DEF Reject
  <2> QED BY <2>1, <2>2
<1>5. CASE Prepare(j)
  <2>1. staging' \in [Videos -> Downloads \cup {NoJob}]
    BY <1>5 DEF Prepare, WipeIfFresh, Wipe
  <2> QED BY <1>5, <2>1 DEF Prepare
<1>6. CASE RunAborted(j)
  BY <1>6 DEF RunAborted
<1>7. CASE RunFailed(j)
  BY <1>7 DEF RunFailed, CatchStep
<1>8. CASE RunSucceeded(j)
  BY <1>8 DEF RunSucceeded
<1> QED BY <1>1, <1>2, <1>3, <1>4, <1>5, <1>6, <1>7, <1>8

\* From the end of yt-dlp to the VERIFY row and its execution.
LEMMA DownloadEndKeeps ==
  ASSUME IInv, NEW j \in Downloads,
         Publish(j) \/ PublishFailed(j) \/ Advance(j) \/ Chain(j) \/ ChainAdd(j)
  PROVE  Kept
<1> USE JobsAssumption DEF Goto
<1>1. CASE Publish(j)
  BY <1>1 DEF Publish, Wipe
<1>2. CASE PublishFailed(j)
  BY <1>2 DEF PublishFailed, CatchStep
<1>3. CASE Advance(j)
  BY ZenonT(60), <1>3 DEF Advance, TransitionCopy
<1>4. CASE Chain(j)
  <2>1. PICK k \in Verifies :
          /\ NextId(k, Verifies)
          /\ CreateRow(k, jobVideo[j])
          /\ chained' = [chained EXCEPT ![j] = k]
    BY <1>4 DEF Chain
  <2>2. ~Exists(k) /\ Exists(j) /\ jobVideo[j] \in Videos /\ k \notin Downloads
    BY <1>4, <2>1 DEF Chain, NextId
  <2>3. TypeOK'
    BY <1>4, <2>1, <2>2 DEF Chain, CreateRow
  <2>4. RowsLinked' /\ RequestsLinked' /\ ListsLinked'
    BY <1>4, <2>1, <2>2 DEF Chain, CreateRow
  <2>5. RowsMove /\ CopyMoves
    BY <1>4, <2>1, <2>2 DEF Chain
  <2> QED BY <2>3, <2>4, <2>5
<1>5. CASE ChainAdd(j)
  BY <1>5 DEF ChainAdd, QueueAdd
<1> QED BY <1>1, <1>2, <1>3, <1>4, <1>5

\* The abort branches of cancel, pause and shutdown.
LEMMA AbortKeeps ==
  ASSUME IInv, NEW j \in Downloads, Abort(j) \/ AbortRow(j) \/ AbortHop(j)
  PROVE  Kept
<1> USE JobsAssumption DEF Goto, Leave, CasRow, MarkFinished
<1>1. CASE Abort(j)
  <2>1. staging' \in [Videos -> Downloads \cup {NoJob}]
    BY <1>1 DEF Abort, Wipe
  <2>2. \/ CasRow(j, {"RUNNING"}, "QUEUED") /\ Leave(j, "settleOk")
        \/ CasRow(j, {"RUNNING"}, "PAUSED") /\ Leave(j, "settleOk")
        \/ UNCHANGED jobStatus /\ Goto(j, "abortRow")
    BY <1>1 DEF Abort, MarkRequeued, MarkPaused
  <2>3. /\ pc[j] = "abort"
        /\ UNCHANGED <<jobVideo, stagingDir, copyState, queueVars, faults>>
        /\ DownloadUnchanged
    BY <1>1 DEF Abort
  <2> QED BY <2>1, <2>2, <2>3
<1>2. CASE AbortRow(j)
  BY <1>2 DEF AbortRow
<1>3. CASE AbortHop(j)
  <2>1. /\ pc[j] = "abortHop"
        /\ TransitionCopy(jobVideo[j], "DOWNLOADING", "CANDIDATE")
        /\ Leave(j, "settleOk")
        /\ UNCHANGED <<rowVars, staging, queueVars, faults>>
        /\ DownloadUnchanged
    BY <1>3 DEF AbortHop
  <2>2. jobVideo[j] \in Videos
    BY <2>1
  <2>3. <<"DOWNLOADING", "CANDIDATE">> \in Lifecycle!CopyEdges
    OBVIOUS
  <2> HIDE DEF CopyMoves, Lifecycle!CopyEdges
  <2>4. copyState' \in [Videos -> CopyStates] /\ CopyMoves
    BY <2>1, <2>2, <2>3, TransitionCopyHops
  <2> QED BY <2>1, <2>4
<1> QED BY <1>1, <1>2, <1>3

\* A restarted pass and the statements of the consumer that throw.
LEMMA DownloadThrowsKeeps ==
  ASSUME IInv, NEW j \in Downloads,
         RunUnresumable(j) \/ Writes(j) \/ DownloadThrows(j)
  PROVE  Kept
<1> USE JobsAssumption, BoundsAssumption DEF Goto, Leave, Fault
<1>1. CASE RunUnresumable(j)
  <2>1. staging' \in [Videos -> Downloads \cup {NoJob}]
    BY <1>1 DEF RunUnresumable, Wipe
  <2> QED BY <1>1, <2>1 DEF RunUnresumable
<1>6. CASE Writes(j)
  BY <1>6 DEF Writes
<1>2. CASE BareThrow(j) \/ RejectSwallows(j)
  BY <1>2 DEF BareThrow, RejectSwallows
<1>3. CASE CaughtThrow(j)
  BY <1>3 DEF CaughtThrow, CatchStep
<1>4. CASE PointerLost(j)
  <2>1. staging' \in [Videos -> Downloads \cup {NoJob}]
    BY <1>4 DEF PointerLost, WipeIfFresh, Wipe
  <2> QED BY <1>4, <2>1 DEF PointerLost
<1>5. CASE AbortSwallows(j)
  BY <1>5 DEF AbortSwallows
<1> QED BY <1>1, <1>2, <1>3, <1>4, <1>5, <1>6 DEF DownloadThrows

\* A command that arrives touches a control entry only.
LEMMA DeliverKeeps ==
  ASSUME IInv, NEW m \in control, Deliver(m)
  PROVE  Kept
BY DEF Deliver

-----------------------------------------------------------------------------
\* The verify consumer

\* Claim, read, probe, verdict and the errors of a verify keep the invariant.
LEMMA VerifyStepKeeps ==
  ASSUME IInv, NEW j \in Verifies, VerifyStep(j) \/ VerifyThrows(j)
  PROVE  Kept
<1> USE JobsAssumption DEF Goto, Leave
<1>1. CASE ClaimVerify(j)
  BY <1>1 DEF ClaimVerify
<1>2. CASE ReadVideo(j)
  <2>1. /\ pc[j] = "vread"
        /\ UNCHANGED <<jobVideo, copyState, faults>>
        /\ VerifyUnchanged
    BY <1>2 DEF ReadVideo
  <2>2. CASE copyState[jobVideo[j]] = "VERIFYING"
    BY <1>2, <2>1, <2>2 DEF ReadVideo
  <2>3. CASE copyState[jobVideo[j]] = "HEALTHY"
    <3>1. MarkFinished(j, "COMPLETED", FALSE) /\ Leave(j, "settleOk")
      BY <1>2, <2>3 DEF ReadVideo
    <3> QED BY <2>1, <3>1 DEF MarkFinished, CasRow
  <2>4. CASE copyState[jobVideo[j]] \notin {"VERIFYING", "HEALTHY"}
    <3>1. MarkFinished(j, "FAILED", FALSE) /\ Leave(j, "settleUnrecoverable")
      BY <1>2, <2>4 DEF ReadVideo
    <3> QED BY <2>1, <3>1 DEF MarkFinished, CasRow
  <2> QED BY <2>2, <2>3, <2>4
<1>3. CASE Probe(j)
  BY <1>3 DEF Probe, CatchStep
<1>4. CASE Verdict(j)
  BY <1>4 DEF Verdict, TransitionCopy
<1>5. CASE VerifyThrows(j)
  BY <1>5, BoundsAssumption DEF VerifyThrows, CatchStep, Fault
<1> QED BY <1>1, <1>2, <1>3, <1>4, <1>5 DEF VerifyStep

-----------------------------------------------------------------------------
\* The worker process and its boot

\* Drain, end, crash and failed boot of the worker keep the invariant.
LEMMA ProcessKeeps ==
  ASSUME IInv, Drain \/ Drained \/ Crash \/ BootFails
  PROVE  Kept
<1> USE BoundsAssumption DEF Fault
<1>1. CASE Drain
  BY <1>1 DEF Drain
<1>2. CASE Drained
  BY <1>2 DEF Drained, Stopped
<1>3. CASE Crash
  BY <1>3 DEF Crash, Dies, Stopped
<1>4. CASE BootFails
  BY <1>4 DEF BootFails, Dies, Stopped
<1> QED BY <1>1, <1>2, <1>3, <1>4

\* The sweep of the rows.
LEMMA RowSweepKeeps ==
  ASSUME IInv,
         \/ Boot
         \/ \E j \in Jobs, status \in {"QUEUED", "RUNNING"} : CheckRow(j, status)
         \/ \E j \in Jobs : ReAdd(j)
  PROVE  Kept
<1>1. CASE Boot
  <2>1. /\ phase' = "rows"
        /\ rowTodo' = {<<j, jobStatus[j]>> : j \in {i \in Jobs : jobStatus[i] \in {"QUEUED", "RUNNING"}}}
        /\ UNCHANGED <<videoTodo, jobStatus, copyState, queueVars>>
        /\ BootUnchanged
    BY <1>1 DEF Boot, SweptStatuses
  <2>2. \A t \in rowTodo' :
          \E j \in Jobs : t = <<j, jobStatus[j]>> /\ jobStatus[j] \in {"QUEUED", "RUNNING"}
    BY <2>1
  <2>3. rowTodo' \subseteq Jobs \X {"QUEUED", "RUNNING", "ADD"}
    BY <2>2
  <2>4. \A t \in rowTodo' : jobStatus[t[1]] # "ABSENT"
    BY <2>2
  <2>5. TypeOK'
    BY <2>1, <2>3
  <2>6. RowsLinked' /\ RequestsLinked' /\ ListsLinked'
    BY <2>1, <2>4
  <2> QED BY <2>1, <2>5, <2>6
<1>2. ASSUME NEW j \in Jobs, NEW status \in {"QUEUED", "RUNNING"}, CheckRow(j, status)
      PROVE  Kept
  <2>1. /\ phase = "rows"
        /\ <<j, status>> \in rowTodo
        /\ UNCHANGED <<phase, videoTodo, copyState, queueVars>>
        /\ BootUnchanged
    BY <1>2 DEF CheckRow, HandBack
  <2>2. Exists(j)
    BY <2>1
  <2>3. rowTodo' \subseteq rowTodo \cup {<<j, "ADD">>}
    BY <1>2 DEF CheckRow, HandBack
  <2>4. jobStatus' = jobStatus \/ CasRow(j, {"RUNNING"}, "QUEUED")
    BY <1>2 DEF CheckRow, HandBack, MarkRequeued
  <2>5. TypeOK'
    BY <2>1, <2>3, <2>4 DEF CasRow
  <2>6. \A i \in Jobs : Exists(i) <=> Exists(i)'
    BY <2>4 DEF CasRow
  <2>7. RowsLinked' /\ RequestsLinked'
    BY <2>1, <2>6, JobsAssumption
  <2>8. ListsLinked'
    BY <2>1, <2>2, <2>3, <2>6
  <2>9. RowsMove /\ CopyMoves
    BY <2>1, <2>4 DEF CasRow
  <2> QED BY <2>5, <2>7, <2>8, <2>9
<1>3. ASSUME NEW j \in Jobs, ReAdd(j)
      PROVE  Kept
  BY <1>3 DEF ReAdd, QueueAdd
<1> HIDE DEF Kept
<1> QED BY <1>1, <1>2, <1>3

\* The sweep of the videos: the lists hold edges of the lifecycle.
LEMMA VideoSweepKeeps ==
  ASSUME IInv,
         \/ NextList
         \/ \E v \in Videos, to \in {"CANDIDATE", "FAILED"} : SweepVideo(v, to)
         \/ Started
  PROVE  Kept
<1>1. CASE NextList
  <2>1. PICK next, state :
          /\ <<phase, next, state>> \in {<<"rows", "downloading", "DOWNLOADING">>,
                                        <<"downloading", "queued", "QUEUED">>,
                                        <<"queued", "verifying", "VERIFYING">>}
          /\ ReadList(next, state)
    BY <1>1 DEF NextList
  <2>2. \A t \in videoTodo' :
          /\ t \in Videos \X {"CANDIDATE", "FAILED"}
          /\ state = "QUEUED" => t[2] = "CANDIDATE"
          /\ state = "VERIFYING" => t[2] = "FAILED"
    BY <2>1 DEF ReadList, Zombies
  <2>3. TypeOK'
    BY <2>1, <2>2 DEF ReadList
  <2>4. RowsLinked' /\ RequestsLinked' /\ ListsLinked'
    BY <2>1, <2>2 DEF ReadList
  <2>5. RowsMove /\ CopyMoves
    BY <2>1 DEF ReadList
  <2> QED BY <2>3, <2>4, <2>5
<1>2. ASSUME NEW v \in Videos, NEW to \in {"CANDIDATE", "FAILED"}, SweepVideo(v, to)
      PROVE  Kept
  <2>1. /\ <<v, to>> \in videoTodo
        /\ videoTodo' = videoTodo \ {<<v, to>>}
        /\ TransitionCopy(v, SweptState, to)
        /\ UNCHANGED <<phase, rowTodo, jobStatus, queueVars>>
        /\ BootUnchanged
    BY <1>2 DEF SweepVideo
  <2>2. <<SweptState, to>> \in Lifecycle!CopyEdges
    <3>1. /\ phase = "queued" => to = "CANDIDATE"
          /\ phase = "verifying" => to = "FAILED"
          /\ phase \in {"downloading", "queued", "verifying"}
      BY <1>2, <2>1 DEF SweepVideo
    <3> QED BY <3>1 DEF SweptState
  <2>3. TypeOK'
    BY <2>1 DEF TransitionCopy
  <2>4. RowsLinked' /\ RequestsLinked' /\ ListsLinked'
    BY <2>1
  <2>5. CopyMoves
    BY <2>1, <2>2, TransitionCopyHops
  <2>6. RowsMove
    BY <2>1
  <2> QED BY <2>3, <2>4, <2>5, <2>6
<1>3. CASE Started
  BY <1>3 DEF Started
<1> HIDE DEF Kept
<1> QED BY <1>1, <1>2, <1>3

\* Every step of the boot keeps the invariant.
LEMMA BootKeeps ==
  ASSUME IInv, BootStep
  PROVE  Kept
BY RowSweepKeeps, VideoSweepKeeps DEF BootStep

-----------------------------------------------------------------------------
\* The queue service

\* What an owner asks for: a download is created only for a video without an
\* active one.
LEMMA AskKeeps ==
  ASSUME IInv, NEW r \in Requests, Ask(r)
  PROVE  Kept
<1> USE DEF Start, At
<1>1. ASSUME NEW v \in Videos, Enqueue(r, v)
      PROVE  Kept
  <2>1. PICK j \in Downloads :
          /\ NextId(j, Downloads)
          /\ CreateRow(j, v)
          /\ Start(r, "add", j, FALSE)
    BY <1>1 DEF Enqueue
  <2>2. /\ copyState[v] \in {"CANDIDATE", "FAILED", "PARTIAL_KEPT"}
        /\ ActiveDownloads(v) = {}
        /\ copyState' = [copyState EXCEPT ![v] = "QUEUED"]
        /\ UNCHANGED <<staging, queueVars, control, faults>>
        /\ ApiUnchanged
    BY <1>1 DEF Enqueue, EnqueueableStates
  <2>3. ~Exists(j)
    BY <2>1 DEF NextId
  <2>4. TypeOK'
    BY <2>1, <2>2, <2>3 DEF CreateRow
  <2>5. RowsLinked' /\ ListsLinked'
    BY <2>1, <2>2, <2>3, JobsAssumption DEF CreateRow
  <2>6. RequestsLinked'
    BY <2>1, <2>2, <2>3 DEF CreateRow
  <2>7. RowsMove
    BY <2>1, <2>2, <2>3
  <2>8. CopyMoves
    BY ZenonT(60), <2>2
  <2> QED BY <2>4, <2>5, <2>6, <2>7, <2>8
<1>2. ASSUME NEW j \in Downloads, Cancel(r, j)
      PROVE  Kept
  BY <1>2 DEF Cancel, Cancelable, Command
<1>3. ASSUME NEW j \in Downloads, Pause(r, j)
      PROVE  Kept
  BY <1>3 DEF Pause, Pausable, Command
<1>4. ASSUME NEW j \in Downloads, Resume(r, j)
      PROVE  Kept
  BY <1>4 DEF Resume
<1> QED BY <1>1, <1>2, <1>3, <1>4 DEF Ask

\* The statements that follow an enqueue.
LEMMA EnqueueServed ==
  ASSUME IInv, NEW r \in Requests,
         AddExecution(r) \/ AddRejected(r) \/ UndoRow(r) \/ UndoVideo(r)
  PROVE  Kept
<1> USE JobsAssumption DEF At, Then, Answer
<1>1. CASE AddExecution(r)
  BY <1>1 DEF AddExecution, QueueAdd
<1>2. CASE AddRejected(r)
  BY <1>2, BoundsAssumption DEF AddRejected, Fault
<1>3. CASE UndoRow(r)
  BY <1>3 DEF UndoRow, CasRow
<1>4. CASE UndoVideo(r)
  <2>1. jobVideo[hjob[r]] \in Videos
    BY <1>4 DEF UndoVideo
  <2>2. TypeOK'
    BY <1>4, <2>1 DEF UndoVideo, TransitionCopy
  <2>4. RowsLinked' /\ RequestsLinked' /\ ListsLinked' /\ RowsMove
    BY <1>4 DEF UndoVideo
  <2>3. CopyMoves
    BY <1>4, <2>1 DEF UndoVideo, TransitionCopy
  <2> QED BY <2>2, <2>3, <2>4
<1> QED BY <1>1, <1>2, <1>3, <1>4

\* The statements cancel and pause share, and the end of a request.
LEMMA CommandServed ==
  ASSUME IInv, NEW r \in Requests,
         \/ RemoveExecution(r, "cancelRemove", "cancelSettle")
         \/ RemoveExecution(r, "pauseRemove", "pauseSettle")
         \/ RereadRow(r, "cancelReread", "signalCancel")
         \/ RereadRow(r, "pauseReread", "signalPause")
         \/ Signal(r) \/ SignalRejected(r) \/ RequestDies(r)
  PROVE  Kept
<1> USE DEF At, Then, Answer
<1>1. CASE \/ RemoveExecution(r, "cancelRemove", "cancelSettle")
           \/ RemoveExecution(r, "pauseRemove", "pauseSettle")
  <2>1. /\ hpc[r] # "idle"
        /\ Then(r, "cancelSettle") \/ Then(r, "pauseSettle")
        /\ UNCHANGED <<rowVars, copyState, staging, control>>
        /\ ApiUnchanged
    BY <1>1 DEF RemoveExecution
  <2>2. \/ /\ bull' = [bull EXCEPT ![hjob[r]] = "absent"]
           /\ made' = [made EXCEPT ![hjob[r]] = 0]
           /\ UNCHANGED faults
        \/ UNCHANGED queueVars /\ (UNCHANGED faults \/ Fault("redis"))
    BY <1>1 DEF RemoveExecution
  <2>3. /\ bull' \in [Jobs -> BullStates]
        /\ made' \in [Jobs -> Nat]
        /\ faults' \in [FaultKinds -> Nat]
        /\ \A i \in Jobs : bull[i] = "absent" => bull'[i] = "absent"
    BY <2>2 DEF Fault
  <2> QED BY <2>1, <2>3
<1>2. CASE \/ RereadRow(r, "cancelReread", "signalCancel")
           \/ RereadRow(r, "pauseReread", "signalPause")
  <2>1. /\ UNCHANGED <<rowVars, copyState, staging, queueVars, control, faults>>
        /\ ApiUnchanged
        /\ hpc[r] # "idle"
    BY <1>2 DEF RereadRow
  <2>2. CASE jobStatus[hjob[r]] = "RUNNING"
    <3>1. Then(r, "signalCancel") \/ Then(r, "signalPause")
      BY <1>2, <2>2 DEF RereadRow
    <3> QED BY <2>1, <3>1
  <2>3. CASE jobStatus[hjob[r]] # "RUNNING"
    <3>1. Answer(r)
      BY <1>2, <2>3 DEF RereadRow
    <3> QED BY <2>1, <3>1
  <2> QED BY <2>2, <2>3
<1>3. CASE Signal(r)
  BY <1>3 DEF Signal
<1>4. CASE SignalRejected(r)
  BY <1>4, BoundsAssumption DEF SignalRejected, Fault
<1>5. CASE RequestDies(r)
  BY <1>5, BoundsAssumption DEF RequestDies, Fault
<1> QED BY <1>1, <1>2, <1>3, <1>4, <1>5

\* The statements of a cancel.
LEMMA CancelServed ==
  ASSUME IInv, NEW r \in Requests,
         CancelSettle(r) \/ CancelWipe(r) \/ CancelRead(r) \/ CancelHop(r)
  PROVE  Kept
<1> USE DEF At, Then, Answer
<1>1. CASE CancelSettle(r)
  <2>1. hjob[r] \in Downloads /\ Exists(hjob[r])
    BY <1>1 DEF CancelSettle
  <2>2. CASE jobStatus[hjob[r]] \in {"QUEUED", "PAUSED"}
    <3>1. /\ jobStatus' = [jobStatus EXCEPT ![hjob[r]] = "CANCELED"]
          /\ stagingDir' = [stagingDir EXCEPT ![hjob[r]] = FALSE]
          /\ Then(r, "cancelWipe")
          /\ UNCHANGED <<jobVideo, copyState, staging, queueVars, control, faults>>
          /\ ApiUnchanged
      BY <1>1, <2>2 DEF CancelSettle, Cancelable
    <3>2. TypeOK'
      BY <2>1, <3>1
    <3>3. RowsLinked' /\ RequestsLinked' /\ ListsLinked'
      BY <2>1, <3>1, JobsAssumption
    <3>4. RowsMove /\ CopyMoves
      BY <2>1, <2>2, <3>1
    <3> QED BY <3>2, <3>3, <3>4
  <2>3. CASE jobStatus[hjob[r]] \notin {"QUEUED", "PAUSED"}
    BY <1>1, <2>1, <2>3 DEF CancelSettle, Cancelable
  <2> QED BY <2>2, <2>3
<1>2. CASE CancelWipe(r)
  BY <1>2 DEF CancelWipe, Wipe
<1>3. CASE CancelRead(r)
  <2>1. copyState[jobVideo[hjob[r]]] \in CopyStates
    BY <1>3 DEF CancelRead
  <2>2. CASE copyState[jobVideo[hjob[r]]] \in {"QUEUED", "DOWNLOADING"}
    BY <1>3, <2>1, <2>2 DEF CancelRead
  <2>3. CASE copyState[jobVideo[hjob[r]]] \notin {"QUEUED", "DOWNLOADING"}
    <3>1. /\ Answer(r)
          /\ UNCHANGED <<rowVars, copyState, staging, queueVars, control, faults>>
          /\ ApiUnchanged
      BY <1>3, <2>3, Zenon DEF CancelRead
    <3> QED BY <3>1
  <2> QED BY <2>2, <2>3
<1>4. CASE CancelHop(r)
  <2>1. jobVideo[hjob[r]] \in Videos /\ hfrom[r] \in {"QUEUED", "DOWNLOADING"}
    BY <1>4 DEF CancelHop
  <2>2. TypeOK' /\ RowsLinked' /\ RequestsLinked' /\ ListsLinked' /\ RowsMove
    BY <1>4 DEF CancelHop, TransitionCopy
  <2>3. CopyMoves
    <3>1. TransitionCopy(jobVideo[hjob[r]], hfrom[r], "CANDIDATE")
      BY <1>4 DEF CancelHop
    <3>2. <<hfrom[r], "CANDIDATE">> \in Lifecycle!CopyEdges
      BY <2>1
    <3> QED BY <2>1, <3>1, <3>2, TransitionCopyHops
  <2> QED BY <2>2, <2>3
<1> QED BY <1>1, <1>2, <1>3, <1>4

\* The statements of a pause and of a resume.
LEMMA PauseServed ==
  ASSUME IInv, NEW r \in Requests,
         \/ PauseSettle(r) \/ ResumeFree(r) \/ ResumeTimeout(r) \/ ResumeCas(r)
         \/ ResumeAdd(r) \/ ResumeRejected(r) \/ ResumeUndo(r)
  PROVE  Kept
<1> USE JobsAssumption DEF At, Then, Answer, CasRow
<1>1. CASE PauseSettle(r)
  <2>1. /\ CasRow(hjob[r], {"QUEUED"}, "PAUSED")
        /\ hpc[r] # "idle"
        /\ UNCHANGED <<jobVideo, stagingDir, copyState, staging, queueVars, control, faults>>
        /\ ApiUnchanged
    BY <1>1 DEF PauseSettle, Pausable
  <2>2. Answer(r) \/ Then(r, "pauseReread")
    BY <1>1 DEF PauseSettle, Pausable
  <2>3. TypeOK'
    <3>1. jobStatus' \in [Jobs -> JobStatuses]
      BY <2>1
    <3>2. /\ hpc' \in [Requests -> RequestSteps]
          /\ hjob' \in [Requests -> Downloads \cup {NoJob}]
          /\ hptr' \in [Requests -> BOOLEAN]
          /\ hfrom' \in [Requests -> CopyStates]
      <4>1. CASE Answer(r)
        BY <4>1
      <4>2. CASE Then(r, "pauseReread")
        BY <4>2
      <4> QED BY <2>2, <4>1, <4>2
    <3> QED BY <2>1, <3>1, <3>2
  <2>4. \A i \in Jobs : Exists(i)' <=> Exists(i)
    BY <2>1
  <2>5. RowsLinked' /\ RequestsLinked' /\ ListsLinked'
    BY <2>1, <2>2, <2>4
  <2>6. RowsMove /\ CopyMoves
    BY <2>1
  <2> QED BY <2>3, <2>5, <2>6
<1>2. CASE ResumeFree(r)
  BY <1>2 DEF ResumeFree
<1>3. CASE ResumeTimeout(r)
  BY <1>3 DEF ResumeTimeout
<1>4. CASE ResumeCas(r)
  <2>1. /\ CasRow(hjob[r], {"PAUSED"}, "QUEUED")
        /\ hpc[r] # "idle"
        /\ UNCHANGED <<jobVideo, stagingDir, copyState, staging, queueVars, control, faults>>
        /\ ApiUnchanged
    BY <1>4 DEF ResumeCas
  <2>2. Answer(r) \/ Then(r, "resumeAdd")
    BY <1>4 DEF ResumeCas
  <2>3. TypeOK'
    <3>1. jobStatus' \in [Jobs -> JobStatuses]
      BY <2>1
    <3>2. /\ hpc' \in [Requests -> RequestSteps]
          /\ hjob' \in [Requests -> Downloads \cup {NoJob}]
          /\ hptr' \in [Requests -> BOOLEAN]
          /\ hfrom' \in [Requests -> CopyStates]
      <4>1. CASE Answer(r)
        BY <4>1
      <4>2. CASE Then(r, "resumeAdd")
        BY <4>2
      <4> QED BY <2>2, <4>1, <4>2
    <3> QED BY <2>1, <3>1, <3>2
  <2>4. \A i \in Jobs : Exists(i)' <=> Exists(i)
    BY <2>1
  <2>5. RowsLinked' /\ RequestsLinked' /\ ListsLinked'
    BY <2>1, <2>2, <2>4
  <2>6. RowsMove /\ CopyMoves
    BY <2>1
  <2> QED BY <2>3, <2>5, <2>6
<1>5. CASE ResumeAdd(r)
  BY <1>5 DEF ResumeAdd, QueueAdd
<1>6. CASE ResumeRejected(r)
  BY <1>6, BoundsAssumption DEF ResumeRejected, Fault
<1>7. CASE ResumeUndo(r)
  BY <1>7 DEF ResumeUndo
<1> QED BY <1>1, <1>2, <1>3, <1>4, <1>5, <1>6, <1>7

-----------------------------------------------------------------------------
\* Every step

\* Every step of the pipeline keeps the invariant, and moves rows and videos
\* only as RowsMove and CopyMoves say.
LEMMA NextKeeps ==
  ASSUME IInv, [Next]_vars
  PROVE  Kept
<1>1. ASSUME NEW j \in Jobs, ExecutionStep(j) \/ Restart(j) \/ Throws(j)
      PROVE  Kept
  <2>1. CASE j \in Downloads /\ (DownloadStep(j) \/ DownloadThrows(j) \/ Restart(j))
    BY ZenonT(60), <2>1, DownloadStartKeeps, DownloadEndKeeps, AbortKeeps, DownloadThrowsKeeps
       DEF DownloadStep, Restart
  <2>2. CASE j \in Verifies /\ (VerifyStep(j) \/ VerifyThrows(j))
    BY <2>2, VerifyStepKeeps
  <2>3. CASE \/ SharedStep(j) \/ RecorderSwallows(j) \/ ListenerSwallows(j)
             \/ ListenerThrows(j)
    BY <2>3, SharedStepKeeps, SharedThrowsKeeps
  <2> QED BY <1>1, <2>1, <2>2, <2>3 DEF ExecutionStep, Restart, Throws
<1>2. ASSUME NEW j \in Jobs,
             \/ Pickup(j) \/ BackoffOver(j) \/ StallDetected(j) \/ StallFailed(j)
             \/ Listen(j) \/ LockLost(j)
      PROVE  Kept
  BY <1>2, BullStepKeeps, ListenKeeps
<1>3. ASSUME NEW m \in control, Deliver(m)
      PROVE  Kept
  BY <1>3, DeliverKeeps
<1>4. CASE Drain \/ Drained \/ Crash \/ BootFails \/ BootStep
  BY <1>4, ProcessKeeps, BootKeeps
<1>5. ASSUME NEW r \in Requests, Ask(r) \/ Serve(r) \/ RequestFails(r)
      PROVE  Kept
  BY ZenonT(60), <1>5, AskKeeps, EnqueueServed, CommandServed, CancelServed, PauseServed
     DEF Serve, RequestFails
<1>6. CASE UNCHANGED vars
  BY <1>6 DEF vars
<1> QED BY <1>1, <1>2, <1>3, <1>4, <1>5, <1>6 DEF Next

\* Every state of the pipeline satisfies the invariant.
LEMMA Invariance == Spec => []IInv
<1>1. IInv /\ [Next]_vars => IInv'
  BY NextKeeps
<1> QED BY InitKept, <1>1, PTL DEF Spec

-----------------------------------------------------------------------------
\* Theorems

\* The variables keep their types, whatever api, worker, boot and faults do.
THEOREM TypeCorrect == Spec => []TypeOK
<1>1. IInv => TypeOK
  OBVIOUS
<1> QED BY Invariance, <1>1, PTL

\* A video never has two active downloads: an insert finds none, and no later
\* write brings a settled row back.
THEOREM OneActiveDownloadHolds == Spec => []OneActiveDownload
<1>1. Init => OneActiveDownload
  BY DEF Init, OneActiveDownload
<1>2. ASSUME IInv, OneActiveDownload, [Next]_vars
      PROVE  OneActiveDownload'
  <2>1. RowsMove
    BY <1>2, NextKeeps
  <2>2. CASE /\ jobVideo' = jobVideo
             /\ \A i \in Jobs :
                  \/ jobStatus'[i] = jobStatus[i]
                  \/ Active(i) /\ jobStatus'[i] \in ActiveStatuses \cup TerminalStatuses
    BY <1>2, <2>2 DEF OneActiveDownload
  <2>3. ASSUME NEW k \in Jobs, NEW v \in Videos,
               ~Exists(k), CreateRow(k, v), k \in Downloads => ActiveDownloads(v) = {}
        PROVE  OneActiveDownload'
    BY <1>2, <2>3 DEF OneActiveDownload, CreateRow, ActiveDownloads
  <2> QED BY <2>1, <2>2, <2>3
<1> QED BY Invariance, <1>1, <1>2, PTL DEF Spec

\* The first terminal verdict of a row is its last: no writer, however late,
\* changes it.
THEOREM VerdictFinalHolds == Spec => VerdictFinal
<1>1. IInv /\ [Next]_vars => [\A j \in Jobs : Terminal(j) => jobStatus'[j] = jobStatus[j]]_vars
  <2> SUFFICES ASSUME IInv, [Next]_vars, NEW j \in Jobs, Terminal(j)
               PROVE  jobStatus'[j] = jobStatus[j]
    BY Zenon
  <2>1. RowsMove
    BY NextKeeps
  <2> QED BY <2>1 DEF CreateRow
<1> QED BY Invariance, <1>1, PTL DEF Spec, VerdictFinal

\* The pipeline implements the lifecycle of packages/core: every hop any
\* component writes is one of ALLOWED_COPY_TRANSITIONS.
THEOREM LifecycleImplemented == Spec => FollowsLifecycle
<1>1. Init => Lifecycle!Init
  BY DEF Init, Lifecycle!Init
<1>2. IInv /\ [Next]_vars => [Lifecycle!Next]_copyState
  BY NextKeeps
<1> QED BY Invariance, <1>1, <1>2, PTL DEF Spec, FollowsLifecycle, Lifecycle!Spec
=============================================================================

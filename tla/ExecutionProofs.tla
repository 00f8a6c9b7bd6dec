--------------------------- MODULE ExecutionProofs ---------------------------
(***************************************************************************)
(* Proofs about the executions of ArchivePipeline: the claim gate, and,    *)
(* with the one active download of a video, that two yt-dlp runs never     *)
(* share a staging directory.                                              *)
(*                                                                         *)
(* Both hold as long as no lock is lost and no worker crashes.  Until then *)
(* an active execution has its process() and nothing is ever stalled, so a *)
(* RUNNING row is settled by its own execution only.                       *)
(*                                                                         *)
(* The second part is about the rows and videos an execution works for: a  *)
(* RUNNING download can be reached by a cancel, a VERIFYING video has a    *)
(* verify that will judge it, a paused row is left alone, and only the     *)
(* download that owns a video moves it to VERIFYING.                       *)
(***************************************************************************)
EXTENDS ArchiveProofs

Undisturbed == Without({"lock", "crash"})

\* Nothing runs while the worker is down or booting.
RunsInWorker == \A j \in Jobs : pc[j] # "idle" => WorkerRunning

\* BullMQ and the worker agree on what is active.
NothingStalled ==
    \A j \in Jobs :
        /\ bull[j] = "active" => pc[j] # "idle"
        /\ bull[j] # "stalled"
        /\ lpc[j] = "idle"

\* Before it registers and after it leaves an execution has no control entry.
EntriesClosed ==
    \A j \in Jobs : pc[j] \in {"idle", "load"} \cup SettleSteps => ~Registered(j)

\* The steps from which an abort can still act on the row: a registered
\* execution may fall back to it while it chains its verify.
ActsForRow(j) ==
    pc[j] \in ClaimedSteps \/ (pc[j] \in {"chain", "chainAdd"} /\ Registered(j))

RunnersClaimed ==
    \A j \in Downloads : ActsForRow(j) => jobStatus[j] = "RUNNING"

ExecInv ==
    Undisturbed => RunsInWorker /\ NothingStalled /\ EntriesClosed /\ RunnersClaimed

-----------------------------------------------------------------------------
\* The value spaces, the groups of variables and the parts of the invariant are
\* expanded throughout.
USE DEF Jobs, FaultKinds, TerminalStatuses, ActiveStatuses, Aborted, Commands,
        CtlStates, SettleSteps, Phases, BullStates
USE DEF rowVars, queueVars, execVars, bootVars, apiVars,
        DownloadUnchanged, VerifyUnchanged, BootUnchanged, ApiUnchanged
USE DEF IInv, TypeOK, RowsLinked, RequestsLinked, ListsLinked, Exists,
        ExecInv, Undisturbed, Without, RunsInWorker, NothingStalled, EntriesClosed, ActsForRow, RunnersClaimed,
        WorkerRunning, Registered, Signalled, ClaimedSteps, Active, Terminal

\* The failure ladder leaves a row to nobody else before process() is over.
LEMMA SharedStepRuns ==
  ASSUME IInv, ExecInv, NEW j \in Jobs, SharedStep(j)
  PROVE  ExecInv'
<1> USE JobsAssumption DEF Goto, Leave, CasRow, MarkFinished, Fault
<1>1. CASE Settle(j)
  <2>1. /\ pc[j] \in SettleSteps
        /\ pc' = [pc EXCEPT ![j] = "idle"]
        /\ UNCHANGED <<ctl, jobStatus, lpc, phase, faults>>
    BY <1>1 DEF Settle
  <2>2. \/ bull[j] # "active" /\ bull' = bull
        \/ bull' = [bull EXCEPT ![j] = "delayed"]
        \/ bull' = [bull EXCEPT ![j] = "absent"]
    BY <1>1 DEF Settle
  <2> QED BY <2>1, <2>2
<1>2. CASE FailFinal(j)
  BY <1>2 DEF FailFinal
<1>3. CASE FailRow(j)
  BY <1>3 DEF FailRow
<1>4. CASE FailRetry(j)
  BY <1>4 DEF FailRetry, MarkRequeued
<1>5. CASE Finish(j)
  BY <1>5 DEF Finish
<1> QED BY <1>1, <1>2, <1>3, <1>4, <1>5 DEF SharedStep

\* BullMQ starts an execution only for an idle job, and finds nothing to stall.
LEMMA BullStepRuns ==
  ASSUME IInv, ExecInv, NEW j \in Jobs,
         \/ Pickup(j) \/ BackoffOver(j) \/ StallDetected(j) \/ StallFailed(j)
         \/ LockLost(j)
  PROVE  ExecInv'
<1> USE JobsAssumption DEF Goto, Leave, CasRow, MarkFinished, Fault
<1>1. CASE Pickup(j)
  BY <1>1 DEF Pickup, Activate
<1>2. CASE BackoffOver(j)
  BY <1>2 DEF BackoffOver
<1>3. CASE StallDetected(j)
  BY <1>3 DEF StallDetected
<1>4. CASE StallFailed(j)
  BY <1>4 DEF StallFailed
<1>5. CASE LockLost(j)
  BY <1>5 DEF LockLost
<1> QED BY <1>1, <1>2, <1>3, <1>4, <1>5

\* There is no stalled execution to listen to; a swallowed write ends process().
LEMMA ListenRuns ==
  ASSUME IInv, ExecInv, NEW j \in Jobs,
         \/ Listen(j) \/ ListenerSwallows(j) \/ ListenerThrows(j)
         \/ RecorderSwallows(j)
  PROVE  ExecInv'
<1> USE JobsAssumption DEF Goto, Leave, CasRow, MarkFinished, Fault
<1>1. CASE Listen(j)
  BY <1>1 DEF Listen, ListenRow, ListenMark, ListenVideo, ListenOwners, ListenHeal
<1>2. CASE ListenerSwallows(j)
  BY <1>2 DEF ListenerSwallows
<1>3. CASE ListenerThrows(j)
  BY <1>3 DEF ListenerThrows, Dies, Stopped
<1>4. CASE RecorderSwallows(j)
  BY <1>4 DEF RecorderSwallows
<1> QED BY <1>1, <1>2, <1>3, <1>4

\* From its claim on a download acts for a RUNNING row, or lets go of it.
LEMMA DownloadStepRuns ==
  ASSUME IInv, ExecInv, NEW j \in Downloads, DownloadStep(j)
  PROVE  ExecInv'
<1> USE JobsAssumption DEF Goto, Leave, CasRow, MarkFinished, Fault
<1>1. CASE Load(j)
  BY <1>1 DEF Load
<1>2. CASE ClaimDownload(j)
  BY <1>2 DEF ClaimDownload, Claim, Claimable
<1>3. CASE Begin(j)
  BY <1>3 DEF Begin, Reject
<1>4. CASE Reread(j)
  BY <1>4 DEF Reread, Reject
<1>5. CASE Prepare(j)
  BY <1>5 DEF Prepare
<1>6. CASE RunAborted(j)
  BY <1>6 DEF RunAborted
<1>7. CASE RunFailed(j)
  BY <1>7 DEF RunFailed, CatchStep
<1>8. CASE RunSucceeded(j)
  <2>1. /\ pc[j] = "run"
        /\ Goto(j, "publish")
        /\ UNCHANGED <<jobStatus, bull, lpc, phase, faults>>
    BY <1>8 DEF RunSucceeded
  <2>2. (RunsInWorker' /\ NothingStalled') \/ ~Undisturbed
    BY <2>1
  <2>3. EntriesClosed' \/ ~Undisturbed
    BY <2>1
  <2>4. RunnersClaimed' \/ ~Undisturbed
    BY <2>1
  <2> QED BY <2>1, <2>2, <2>3, <2>4
<1>9. CASE Publish(j)
  BY <1>9 DEF Publish
<1>10. CASE PublishFailed(j)
  BY <1>10 DEF PublishFailed, CatchStep
<1>11. CASE Advance(j)
  BY <1>11 DEF Advance
<1>12. CASE Chain(j)
  BY <1>12 DEF Chain, CreateRow, NextId
<1>13. CASE ChainAdd(j)
  BY <1>13 DEF ChainAdd, QueueAdd
<1>14. CASE Abort(j)
  BY <1>14 DEF Abort, MarkRequeued, MarkPaused
<1>15. CASE AbortRow(j)
  BY <1>15 DEF AbortRow
<1>16. CASE AbortHop(j)
  BY <1>16 DEF AbortHop
<1> QED BY <1>1, <1>2, <1>3, <1>4, <1>5, <1>6, <1>7, <1>8, <1>9, <1>10, <1>11, <1>12, <1>13, <1>14, <1>15, <1>16 DEF DownloadStep

\* So it does when a statement throws.
LEMMA DownloadThrowsRuns ==
  ASSUME IInv, ExecInv, NEW j \in Downloads,
         RunUnresumable(j) \/ Writes(j) \/ DownloadThrows(j)
  PROVE  ExecInv'
<1> USE JobsAssumption DEF Goto, Leave, CasRow, MarkFinished, Fault
<1>1. CASE RunUnresumable(j) \/ Writes(j)
  BY <1>1 DEF RunUnresumable, Writes
<1>2. CASE BareThrow(j) \/ RejectSwallows(j)
  BY <1>2 DEF BareThrow, RejectSwallows
<1>3. CASE CaughtThrow(j)
  BY <1>3 DEF CaughtThrow, CatchStep
<1>4. CASE PointerLost(j)
  BY <1>4 DEF PointerLost
<1>5. CASE AbortSwallows(j)
  BY <1>5 DEF AbortSwallows
<1> QED BY <1>1, <1>2, <1>3, <1>4, <1>5 DEF DownloadThrows

\* A verify writes no download row.
LEMMA VerifyStepRuns ==
  ASSUME IInv, ExecInv, NEW j \in Verifies, VerifyStep(j) \/ VerifyThrows(j)
  PROVE  ExecInv'
<1> USE JobsAssumption DEF Goto, Leave, CasRow, MarkFinished, Fault
<1>1. CASE ClaimVerify(j)
  BY <1>1 DEF ClaimVerify
<1>2. CASE ReadVideo(j)
  BY <1>2 DEF ReadVideo
<1>3. CASE Probe(j)
  BY <1>3 DEF Probe, CatchStep
<1>4. CASE Verdict(j)
  BY <1>4 DEF Verdict
<1>5. CASE VerifyThrows(j)
  BY <1>5 DEF VerifyThrows, CatchStep
<1> QED BY <1>1, <1>2, <1>3, <1>4, <1>5 DEF VerifyStep

\* A worker ends with no execution left, or by a crash.
LEMMA ProcessRuns ==
  ASSUME IInv, ExecInv, Drain \/ Drained \/ Crash \/ BootFails
  PROVE  ExecInv'
<1> USE JobsAssumption DEF Goto, Leave, CasRow, MarkFinished, Fault
<1>1. CASE Drain
  BY <1>1 DEF Drain
<1>2. CASE Drained
  BY <1>2 DEF Drained, Stopped, Running
<1>3. CASE Crash
  BY <1>3 DEF Crash
<1>4. CASE BootFails
  BY <1>4 DEF BootFails, Dies, Stopped
<1> QED BY <1>1, <1>2, <1>3, <1>4

\* The boot writes rows while nothing runs.
LEMMA BootRuns ==
  ASSUME IInv, ExecInv, BootStep
  PROVE  ExecInv'
<1> USE JobsAssumption DEF Goto, Leave, CasRow, MarkFinished, Fault
<1>1. CASE Boot
  BY <1>1 DEF Boot
<1>2. ASSUME NEW j \in Jobs, NEW status \in {"QUEUED", "RUNNING"}, CheckRow(j, status)
      PROVE  ExecInv'
  BY <1>2 DEF CheckRow, HandBack, MarkRequeued
<1>3. ASSUME NEW j \in Jobs, ReAdd(j)
      PROVE  ExecInv'
  BY <1>3 DEF ReAdd, QueueAdd
<1>4. CASE NextList
  BY <1>4 DEF NextList, ReadList
<1>5. ASSUME NEW v \in Videos, NEW to \in {"CANDIDATE", "FAILED"}, SweepVideo(v, to)
      PROVE  ExecInv'
  BY <1>5 DEF SweepVideo
<1>6. CASE Started
  BY <1>6 DEF Started
<1> QED BY <1>1, <1>2, <1>3, <1>4, <1>5, <1>6 DEF BootStep

\* A command changes the mode of an entry, never whether there is one.
LEMMA DeliverRuns ==
  ASSUME IInv, ExecInv, NEW m \in control, Deliver(m)
  PROVE  ExecInv'
<1>1. CASE Deliver(m)
  BY <1>1 DEF Deliver
<1> QED BY <1>1

\* A request starts without a write to a row that exists.
LEMMA AskRuns ==
  ASSUME IInv, ExecInv, NEW r \in Requests, Ask(r)
  PROVE  ExecInv'
<1>1. ASSUME NEW v \in Videos, Enqueue(r, v)
      PROVE  ExecInv'
  BY <1>1 DEF Enqueue, NextId, CreateRow
<1>2. ASSUME NEW j \in Downloads, Cancel(r, j)
      PROVE  ExecInv'
  BY <1>2 DEF Cancel, Command
<1>3. ASSUME NEW j \in Downloads, Pause(r, j)
      PROVE  ExecInv'
  BY <1>3 DEF Pause, Command
<1>4. ASSUME NEW j \in Downloads, Resume(r, j)
      PROVE  ExecInv'
  BY <1>4 DEF Resume
<1> QED BY <1>1, <1>2, <1>3, <1>4 DEF Ask

\* The api settles rows that are QUEUED or PAUSED, and removes no active execution.
LEMMA ServeRuns ==
  ASSUME IInv, ExecInv, NEW r \in Requests, Serve(r) \/ RequestFails(r)
  PROVE  ExecInv'
<1> USE DEF At, Then, Answer, CasRow, Fault
<1>1. CASE AddExecution(r)
  BY <1>1 DEF AddExecution, QueueAdd
<1>2. CASE UndoRow(r)
  BY <1>2 DEF UndoRow
<1>3. CASE UndoVideo(r)
  BY <1>3 DEF UndoVideo
<1>4. CASE \/ RemoveExecution(r, "cancelRemove", "cancelSettle")
           \/ RemoveExecution(r, "pauseRemove", "pauseSettle")
  BY <1>4 DEF RemoveExecution
<1>5. CASE \/ RereadRow(r, "cancelReread", "signalCancel")
           \/ RereadRow(r, "pauseReread", "signalPause")
  BY <1>5 DEF RereadRow
<1>6. CASE Signal(r)
  BY <1>6 DEF Signal
<1>7. CASE CancelSettle(r)
  BY <1>7 DEF CancelSettle, Cancelable
<1>8. CASE CancelWipe(r)
  BY <1>8 DEF CancelWipe
<1>9. CASE CancelRead(r)
  BY <1>9 DEF CancelRead
<1>10. CASE CancelHop(r)
  BY <1>10 DEF CancelHop
<1>11. CASE PauseSettle(r)
  BY <1>11 DEF PauseSettle, Pausable
<1>12. CASE ResumeFree(r)
  BY <1>12 DEF ResumeFree
<1>13. CASE ResumeTimeout(r)
  BY <1>13 DEF ResumeTimeout
<1>14. CASE ResumeCas(r)
  BY <1>14 DEF ResumeCas
<1>15. CASE ResumeAdd(r)
  BY <1>15 DEF ResumeAdd, QueueAdd
<1>16. CASE ResumeUndo(r)
  BY <1>16 DEF ResumeUndo
<1>17. CASE RequestFails(r)
  BY <1>17 DEF RequestFails, AddRejected, ResumeRejected, SignalRejected, RequestDies
<1> QED BY <1>1, <1>2, <1>3, <1>4, <1>5, <1>6, <1>7, <1>8, <1>9, <1>10, <1>11, <1>12, <1>13, <1>14, <1>15, <1>16, <1>17 DEF Serve

-----------------------------------------------------------------------------
\* In an empty vault nothing runs ...
LEMMA InitRuns == Init => ExecInv
BY DEF Init

\* ... and every step keeps it.
LEMMA NextRuns ==
  ASSUME IInv, ExecInv, [Next]_vars
  PROVE  ExecInv'
<1>1. ASSUME NEW j \in Jobs, ExecutionStep(j) \/ Restart(j) \/ Throws(j)
      PROVE  ExecInv'
  <2>1. CASE j \in Downloads /\ (DownloadStep(j) \/ DownloadThrows(j) \/ Restart(j))
    BY <2>1, DownloadStepRuns, DownloadThrowsRuns DEF Restart
  <2>2. CASE j \in Verifies /\ (VerifyStep(j) \/ VerifyThrows(j))
    BY <2>2, VerifyStepRuns
  <2>3. CASE \/ SharedStep(j) \/ RecorderSwallows(j) \/ ListenerSwallows(j)
             \/ ListenerThrows(j)
    BY <2>3, SharedStepRuns, ListenRuns
  <2> QED BY <1>1, <2>1, <2>2, <2>3 DEF ExecutionStep, Restart, Throws
<1>2. ASSUME NEW j \in Jobs,
             \/ Pickup(j) \/ BackoffOver(j) \/ StallDetected(j) \/ StallFailed(j)
             \/ Listen(j) \/ LockLost(j)
      PROVE  ExecInv'
  BY <1>2, BullStepRuns, ListenRuns
<1>3. ASSUME NEW m \in control, Deliver(m)
      PROVE  ExecInv'
  BY <1>3, DeliverRuns
<1>4. CASE Drain \/ Drained \/ Crash \/ BootFails \/ BootStep
  BY <1>4, ProcessRuns, BootRuns
<1>5. ASSUME NEW r \in Requests, Ask(r) \/ Serve(r) \/ RequestFails(r)
      PROVE  ExecInv'
  BY <1>5, AskRuns, ServeRuns
<1>6. CASE UNCHANGED vars
  BY <1>6 DEF vars
<1> QED BY <1>1, <1>2, <1>3, <1>4, <1>5, <1>6 DEF Next

\* Every state of the pipeline satisfies it.
LEMMA ExecutionInvariance == Spec => []ExecInv
<1>1. IInv /\ ExecInv /\ [Next]_vars => ExecInv'
  BY NextRuns
<1> QED BY Invariance, InitRuns, <1>1, PTL DEF Spec

-----------------------------------------------------------------------------
\* From here on the parts of an invariant are expanded in its own section only.
HIDE DEF CtlStates, BullStates, ListsLinked, ExecInv, Undisturbed, RunsInWorker,
         NothingStalled, EntriesClosed, ActsForRow, RunnersClaimed, ClaimedSteps
USE DEF At

\* Nothing runs or listens while the worker is down or booting.
WorkInWorker ==
    \A j \in Jobs : pc[j] # "idle" \/ lpc[j] # "idle" => WorkerRunning

-----------------------------------------------------------------------------
\* A RUNNING download is never a cancel blind spot.

Locked == Without({"db", "lock"})

\* An execution at work holds its lock.
HoldsLock == \A j \in Downloads : pc[j] # "idle" => bull[j] = "active"

\* A RUNNING row belongs to a registered execution past its claim, or to none.
RunnersRegistered ==
    \A j \in Downloads : jobStatus[j] = "RUNNING" =>
        \/ pc[j] = "idle"
        \/ Registered(j) /\ pc[j] \notin {"load", "claim", "abortHop"}

\* Before it registers and after it left an execution is not registered.
LeaversClosed ==
    \A j \in Downloads :
        /\ pc[j] \in {"idle", "load"} \cup SettleSteps => ~Registered(j)
        /\ pc[j] = "claim" => Registered(j)

\* BullMQ never starts the execution of a RUNNING row once more, and no request
\* is about to touch one that stalled or is gone.
RunnersNotQueued ==
    \A j \in Downloads : jobStatus[j] = "RUNNING" =>
        /\ bull[j] \in {"active", "stalled", "absent"}
        /\ bull[j] # "active" => \A r \in Requests : hjob[r] = j => hpc[r] \notin BeforeQueue

\* The rows a boot is about to add again are not RUNNING.
AddedNotRunning ==
    /\ phase # "rows" => rowTodo = {}
    /\ \A j \in Downloads :
         <<j, "ADD">> \in rowTodo \/ <<j, "QUEUED">> \in rowTodo => jobStatus[j] # "RUNNING"

\* A RUNNING row has its execution, its listener, or a place in the boot's list.
RunnersOwned ==
    \A j \in Downloads : jobStatus[j] = "RUNNING" =>
        \/ bull[j] \in {"active", "stalled"}
        \/ phase = "down"
        \/ phase = "rows" /\ <<j, "RUNNING">> \in rowTodo
        \/ WorkerRunning /\ lpc[j] \in {"row", "mark"}

CancelInv ==
    Locked => /\ HoldsLock /\ RunnersRegistered /\ LeaversClosed /\ RunnersNotQueued
              /\ AddedNotRunning /\ RunnersOwned

-----------------------------------------------------------------------------
\* A VERIFYING video has its judge.

\* A verify that has not judged yet, the download about to chain one, or the
\* listener about to fail the video.
HasJudge(v) ==
    \/ \E k \in ActiveVerifies(v) : pc[k] \notin {"finish", "failRow"}
    \/ \E j \in Downloads : jobVideo[j] = v /\ pc[j] = "chain"
    \/ \E k \in Verifies : jobVideo[k] = v /\ lpc[k] = "video"

\* While a worker runs it has one; the last list of a boot holds the others.
JudgeInv ==
    Without({"db"}) =>
        \A v \in Videos : copyState[v] = "VERIFYING" =>
            /\ WorkerRunning => HasJudge(v)
            /\ phase = "verifying" => ActiveVerifies(v) # {} \/ <<v, "FAILED">> \in videoTodo

-----------------------------------------------------------------------------
\* A paused row is left alone.

Smooth == Without({"lock", "crash", "db", "redis"})

\* The steps of process() between a claim and the row's verdict.
WorkSteps == ClaimedSteps \cup {"chain", "chainAdd", "finish", "failFinal", "failRow",
                                "failRetry", "abortRow"}

\* A row is RUNNING only under an execution at work, and whoever works on a row
\* works on no QUEUED or PAUSED one.
WorkersMatch ==
    \A j \in Downloads :
        /\ jobStatus[j] = "RUNNING" => pc[j] \in WorkSteps
        /\ pc[j] \in WorkSteps => jobStatus[j] \notin {"QUEUED", "PAUSED"}

\* A download whose video is past DOWNLOADING has only to chain its verify.
DoneMovesOn ==
    \A j \in Downloads :
        Active(j) /\ copyState[jobVideo[j]] \in {"VERIFYING", "HEALTHY"} =>
            pc[j] \in {"chain", "chainAdd", "finish"}

PauseInv == Smooth => WorkersMatch /\ DoneMovesOn

\* No step but the owner's takes a row out of PAUSED.
PausedStays ==
    \A j \in Downloads :
        jobStatus[j] = "PAUSED" /\ jobStatus'[j] # "PAUSED" => EndedByOwner(j)

\* What the invariants say of a state without a fault, and what a step keeps.
Untroubled ==
    /\ WorkersMatch /\ DoneMovesOn
    /\ RunsInWorker /\ NothingStalled
    /\ \A j \in Downloads : pc[j] \in ClaimedSteps => jobStatus[j] = "RUNNING"
PauseKeeps == WorkersMatch' /\ DoneMovesOn' /\ PausedStays

-----------------------------------------------------------------------------
\* The life of the worker process

USE DEF WorkInWorker

\* An execution runs and listens in a running worker, or dies with it.
LEMMA ExecutionInWorker ==
  ASSUME IInv, WorkInWorker, NEW j \in Jobs, ExecutionStep(j) \/ Restart(j) \/ Throws(j)
  PROVE  WorkInWorker'
<1> USE JobsAssumption DEF Goto, Leave
<1>1. CASE SharedStep(j)
  BY <1>1 DEF SharedStep, Settle, FailFinal, FailRow, FailRetry, Finish
<1>2. CASE DownloadStep(j)
  <2>1. CASE Load(j) \/ ClaimDownload(j) \/ Begin(j) \/ Reread(j) \/ Prepare(j) \/ RunAborted(j)
    BY <2>1 DEF Load, ClaimDownload, Claim, Begin, Reread, Reject, Prepare, RunAborted
  <2>2. CASE RunFailed(j) \/ RunSucceeded(j) \/ Publish(j) \/ PublishFailed(j) \/ Advance(j)
    BY <2>2 DEF RunFailed, RunSucceeded, Publish, PublishFailed, Advance
  <2>3. CASE Chain(j) \/ ChainAdd(j) \/ Abort(j) \/ AbortRow(j) \/ AbortHop(j)
    BY <2>3 DEF Chain, ChainAdd, Abort, AbortRow, AbortHop
  <2> QED BY <1>2, <2>1, <2>2, <2>3 DEF DownloadStep
<1>3. CASE VerifyStep(j)
  BY <1>3 DEF VerifyStep, ClaimVerify, ReadVideo, Probe, Verdict
<1>4. CASE DownloadThrows(j) \/ Restart(j) \/ VerifyThrows(j) \/ RecorderSwallows(j)
  BY <1>4 DEF DownloadThrows, RunUnresumable, Writes, BareThrow, RejectSwallows, CaughtThrow, PointerLost, AbortSwallows, Restart, VerifyThrows, RecorderSwallows
<1>5. CASE ListenerSwallows(j)
  BY <1>5 DEF ListenerSwallows
<1>6. CASE ListenerThrows(j)
  BY <1>6 DEF ListenerThrows, Dies, Stopped
<1> QED BY <1>1, <1>2, <1>3, <1>4, <1>5, <1>6 DEF ExecutionStep, Throws, Restart

\* The api writes nothing of the worker.
LEMMA ApiOutsideWorker ==
  ASSUME IInv, WorkInWorker, NEW r \in Requests, Ask(r) \/ Serve(r) \/ RequestFails(r)
  PROVE  WorkInWorker'
BY DEF Ask, Serve, RequestFails, Enqueue, Cancel, Pause, Command, Resume, AddExecution, UndoRow, UndoVideo,
   RemoveExecution, RereadRow, Signal, CancelSettle, CancelWipe, CancelRead, CancelHop, PauseSettle, ResumeFree, ResumeTimeout,
   ResumeCas, ResumeAdd, ResumeUndo, AddRejected, ResumeRejected, SignalRejected, RequestDies

\* BullMQ starts an execution, and fails a stalled one, in a running worker only.
LEMMA BullInWorker ==
  ASSUME IInv, WorkInWorker, NEW j \in Jobs,
             \/ Pickup(j) \/ BackoffOver(j) \/ StallDetected(j) \/ StallFailed(j)
             \/ Listen(j) \/ LockLost(j)
  PROVE  WorkInWorker'
BY JobsAssumption DEF Pickup, Activate, Goto, BackoffOver, StallDetected, StallFailed, LockLost, Listen, ListenRow, ListenMark, ListenVideo, ListenOwners, ListenHeal

\* A worker stops with nothing left to do, or loses it; a boot starts nothing.
LEMMA ProcessInWorker ==
  ASSUME IInv, WorkInWorker, Drain \/ Drained \/ Crash \/ BootFails \/ BootStep
  PROVE  WorkInWorker'
<1>1. CASE Drain
  BY <1>1 DEF Drain
<1>2. CASE Drained \/ Crash \/ BootFails
  BY <1>2 DEF Drained, Crash, BootFails, Dies, Stopped
<1>3. CASE BootStep
  <2>1. UNCHANGED <<pc, lpc>> /\ (WorkerRunning => WorkerRunning')
    BY <1>3 DEF BootStep, Boot, CheckRow, HandBack, ReAdd, NextList, ReadList, SweepVideo, Started
  <2> QED BY <2>1
<1> QED BY <1>1, <1>2, <1>3
HIDE DEF WorkInWorker

-----------------------------------------------------------------------------
\* What the api may do to what the worker reads.

\* It settles, parks and hands back rows that are not RUNNING, and creates one
\* for a video it moves to QUEUED.
RowsByApi ==
    /\ \A k \in Verifies : jobStatus'[k] = jobStatus[k] /\ jobVideo'[k] = jobVideo[k]
    /\ \A j \in Downloads :
         /\ jobVideo'[j] = jobVideo[j] \/ ~Exists(j)
         /\ jobStatus'[j] = "RUNNING" <=> jobStatus[j] = "RUNNING"
         /\ jobStatus'[j] \in {"QUEUED", "PAUSED"} =>
              \/ jobStatus[j] \in {"QUEUED", "PAUSED"}
              \/ ~Exists(j) /\ copyState'[jobVideo'[j]] = "QUEUED"
         /\ jobStatus[j] = "PAUSED" /\ jobStatus'[j] # "PAUSED" => EndedByOwner(j)

\* It moves no video to VERIFYING or HEALTHY.
VideosByApi ==
    \A v \in Videos : copyState'[v] \in {"VERIFYING", "HEALTHY"} => copyState[v] = copyState'[v]

\* A request before its queue call adds an execution or removes an unlocked one.
QueueByApi ==
    \A j \in Downloads :
       \/ bull'[j] = bull[j]
       \/ /\ bull[j] # "active" /\ bull'[j] = "absent"
          /\ \E r \in Requests : hjob[r] = j /\ hpc[r] \in BeforeQueue
       \/ /\ bull[j] = "absent" /\ bull'[j] = "waiting"
          /\ \E r \in Requests : hjob[r] = j /\ hpc[r] \in BeforeQueue

\* No request comes to touch the queue for a RUNNING row.
RequestsByApi ==
    \A r \in Requests : hpc'[r] \in BeforeQueue /\ jobStatus'[hjob'[r]] = "RUNNING" =>
       hjob'[r] = hjob[r] /\ hpc[r] \in BeforeQueue

FaultsGrow == \A k \in FaultKinds : faults'[k] = 0 => faults[k] = 0

ApiFrame ==
    /\ UNCHANGED <<pc, ctl, lpc, phase, rowTodo, videoTodo>>
    /\ RowsByApi /\ VideosByApi /\ QueueByApi /\ RequestsByApi /\ FaultsGrow

\* A request that starts stays within that ...
LEMMA AskFrame ==
  ASSUME IInv, NEW r \in Requests, Ask(r)
  PROVE  ApiFrame
<1> USE JobsAssumption DEF ApiFrame, RowsByApi, VideosByApi, QueueByApi, RequestsByApi, FaultsGrow, BeforeQueue, Start
<1>1. ASSUME NEW v \in Videos, Enqueue(r, v)
      PROVE  ApiFrame
  BY <1>1 DEF Enqueue, NextId, CreateRow
<1>2. ASSUME NEW j \in Downloads, Cancel(r, j) \/ Pause(r, j)
      PROVE  ApiFrame
  BY <1>2 DEF Cancel, Pause, Command, Cancelable, Pausable
<1>3. ASSUME NEW j \in Downloads, Resume(r, j)
      PROVE  ApiFrame
  BY <1>3 DEF Resume
<1> QED BY <1>1, <1>2, <1>3 DEF Ask

\* ... and so does every statement of it, and every way it fails.
LEMMA ServeFrame ==
  ASSUME IInv, NEW r \in Requests, Serve(r) \/ RequestFails(r)
  PROVE  ApiFrame
<1> USE JobsAssumption DEF ApiFrame, RowsByApi, VideosByApi, QueueByApi, RequestsByApi, FaultsGrow, BeforeQueue,
        Then, Answer, CasRow, TransitionCopy, QueueAdd, Fault
<1>1. CASE AddExecution(r) \/ ResumeAdd(r)
  BY <1>1 DEF AddExecution, ResumeAdd
<1>2. CASE UndoRow(r)
  BY <1>2 DEF UndoRow
<1>3. CASE UndoVideo(r)
  BY <1>3 DEF UndoVideo
<1>4. CASE \/ RemoveExecution(r, "cancelRemove", "cancelSettle")
           \/ RemoveExecution(r, "pauseRemove", "pauseSettle")
  BY <1>4 DEF RemoveExecution
<1>5. CASE \/ RereadRow(r, "cancelReread", "signalCancel")
           \/ RereadRow(r, "pauseReread", "signalPause")
           \/ Signal(r)
  BY <1>5 DEF RereadRow, Signal
<1>6. CASE CancelSettle(r)
  BY <1>6 DEF CancelSettle, Cancelable, EndedByOwner
<1>7. CASE CancelWipe(r) \/ CancelRead(r)
  BY <1>7 DEF CancelWipe, CancelRead
<1>8. CASE CancelHop(r)
  BY <1>8 DEF CancelHop
<1>9. CASE PauseSettle(r)
  BY <1>9 DEF PauseSettle, Pausable
<1>10. CASE ResumeFree(r) \/ ResumeTimeout(r)
  BY <1>10 DEF ResumeFree, ResumeTimeout
<1>11. CASE ResumeCas(r)
  BY <1>11 DEF ResumeCas, EndedByOwner
<1>12. CASE ResumeUndo(r)
  BY <1>12 DEF ResumeUndo
<1>13. CASE RequestFails(r)
  BY <1>13 DEF RequestFails, AddRejected, ResumeRejected, SignalRejected, RequestDies, FaultKinds
<1> QED BY <1>1, <1>2, <1>3, <1>4, <1>5, <1>6, <1>7, <1>8, <1>9, <1>10, <1>11, <1>12, <1>13 DEF Serve

-----------------------------------------------------------------------------
\* A VERIFYING video has its judge

USE DEF JudgeInv, HasJudge, ActiveVerifies, WorkInWorker

\* A verify that has judged has moved the video on.
LEMMA SharedStepJudged ==
  ASSUME IInv, WorkInWorker, JudgeInv, NEW j \in Jobs, SharedStep(j)
  PROVE  JudgeInv'
<1> USE JobsAssumption DEF Goto, Leave, TransitionCopy, WorkState
<1>1. CASE Settle(j)
  <2>1. /\ pc[j] \in SettleSteps /\ pc' = [pc EXCEPT ![j] = "idle"]
        /\ UNCHANGED <<jobStatus, jobVideo, copyState, lpc, phase, videoTodo, faults>>
    BY <1>1 DEF Settle
  <2>2. WorkerRunning
    BY <2>1
  <2>3. ASSUME NEW v \in Videos, copyState[v] = "VERIFYING", HasJudge(v)
        PROVE  HasJudge(v)'
    <3>1. CASE \E i \in ActiveVerifies(v) : pc[i] \notin {"finish", "failRow"}
      BY <2>1, <3>1
    <3>2. CASE \E i \in Downloads : jobVideo[i] = v /\ pc[i] = "chain"
      BY <2>1, <3>2
    <3>3. CASE \E i \in Verifies : jobVideo[i] = v /\ lpc[i] = "video"
      BY <2>1, <3>3
    <3> QED BY <2>3, <3>1, <3>2, <3>3
  <2> HIDE DEF HasJudge, ActiveVerifies
  <2> QED BY <2>1, <2>2, <2>3
<1>2. CASE FailFinal(j)
  <2>1. /\ pc[j] = "failFinal" /\ pc' = [pc EXCEPT ![j] = "failRow"]
        /\ UNCHANGED <<jobStatus, jobVideo, lpc, phase, videoTodo, faults>>
    BY <1>2 DEF FailFinal
  <2>2. ASSUME NEW v \in Videos, copyState'[v] = "VERIFYING"
        PROVE  copyState[v] = "VERIFYING" /\ (j \in Downloads \/ jobVideo[j] # v)
    BY <1>2, <2>2 DEF FailFinal
  <2>3. ASSUME NEW v \in Videos, j \in Downloads \/ jobVideo[j] # v, HasJudge(v)
        PROVE  HasJudge(v)'
    <3>1. CASE \E i \in ActiveVerifies(v) : pc[i] \notin {"finish", "failRow"}
      BY <2>1, <2>3, <3>1
    <3>2. CASE \E i \in Downloads : jobVideo[i] = v /\ pc[i] = "chain"
      BY <2>1, <3>2
    <3>3. CASE \E i \in Verifies : jobVideo[i] = v /\ lpc[i] = "video"
      BY <2>1, <3>3
    <3> QED BY <2>3, <3>1, <3>2, <3>3
  <2>4. \A v \in Videos : ActiveVerifies(v)' = ActiveVerifies(v)
    BY <2>1
  <2> HIDE DEF HasJudge, ActiveVerifies
  <2> QED BY <2>1, <2>2, <2>3, <2>4
<1>3. CASE FailRow(j)
  BY <1>3 DEF FailRow, MarkFinished, CasRow
<1>4. CASE FailRetry(j)
  BY <1>4 DEF FailRetry, MarkRequeued, CasRow
<1>5. CASE Finish(j)
  BY <1>5 DEF Finish, MarkFinished, CasRow
<1> QED BY <1>1, <1>2, <1>3, <1>4, <1>5 DEF SharedStep

\* The download that moves a video to VERIFYING chains its verify next.
LEMMA DownloadStepJudged ==
  ASSUME IInv, WorkInWorker, JudgeInv, NEW j \in Downloads, DownloadStep(j)
  PROVE  JudgeInv'
<1> USE JobsAssumption DEF Goto, Leave, TransitionCopy
<1>1. CASE Load(j)
  BY <1>1 DEF Load
<1>2. CASE ClaimDownload(j) \/ Begin(j) \/ Reread(j)
  BY SMTT(30), <1>2 DEF ClaimDownload, Claim, Begin, Reread, Reject, MarkFinished, CasRow
<1>3. CASE Prepare(j) \/ RunAborted(j) \/ RunFailed(j) \/ RunSucceeded(j) \/ Publish(j) \/ PublishFailed(j)
  BY SMTT(30), <1>3 DEF Prepare, RunAborted, RunFailed, RunSucceeded, Publish, PublishFailed, CatchStep
<1>4. CASE Advance(j)
  BY <1>4 DEF Advance
<1>5. CASE Chain(j)
  <2>1. PICK k \in Verifies : NextId(k, Verifies) /\ CreateRow(k, jobVideo[j])
    BY <1>5 DEF Chain
  <2>2. /\ pc[j] = "chain" /\ pc' = [pc EXCEPT ![j] = "chainAdd"]
        /\ UNCHANGED <<copyState, lpc, phase, videoTodo, faults>>
    BY <1>5 DEF Chain
  <2>3. /\ ~Exists(k) /\ pc[k] = "idle" /\ k # j
        /\ jobStatus' = [jobStatus EXCEPT ![k] = "QUEUED"]
        /\ jobVideo' = [jobVideo EXCEPT ![k] = jobVideo[j]]
    BY <2>1, <2>2 DEF NextId, CreateRow
  <2>4. ASSUME NEW v \in Videos, HasJudge(v)
        PROVE  HasJudge(v)'
    <3>1. CASE \E i \in ActiveVerifies(v) : pc[i] \notin {"finish", "failRow"}
      BY <2>2, <2>3, <3>1
    <3>2. CASE \E i \in Downloads : jobVideo[i] = v /\ pc[i] = "chain"
      BY <2>2, <2>3, <3>2
    <3>3. CASE \E i \in Verifies : jobVideo[i] = v /\ lpc[i] = "video"
      BY <2>2, <2>3, <3>3
    <3> QED BY <2>4, <3>1, <3>2, <3>3
  <2>5. \A v \in Videos : ActiveVerifies(v) # {} => ActiveVerifies(v)' # {}
    BY <2>2, <2>3
  <2> HIDE DEF HasJudge, ActiveVerifies
  <2> QED BY <2>2, <2>4, <2>5
<1>6. CASE ChainAdd(j)
  BY <1>6 DEF ChainAdd
<1>7. CASE Abort(j) \/ AbortRow(j) \/ AbortHop(j)
  BY <1>7 DEF Abort, AbortRow, AbortHop, MarkRequeued, MarkPaused, MarkFinished, CasRow
<1> QED BY <1>1, <1>2, <1>3, <1>4, <1>5, <1>6, <1>7 DEF DownloadStep

\* No statement throws here; without one nothing leaves a chain.
LEMMA ThrowsJudged ==
  ASSUME IInv, WorkInWorker, JudgeInv, NEW j \in Jobs, Throws(j) \/ Restart(j)
  PROVE  JudgeInv'
<1> USE JobsAssumption DEF Goto, Leave, Fault, FaultKinds
<1>1. CASE RecorderSwallows(j) \/ ListenerSwallows(j)
  BY <1>1 DEF RecorderSwallows, ListenerSwallows
<1>2. CASE ListenerThrows(j)
  BY <1>2 DEF ListenerThrows, Dies, Stopped
<1>3. CASE j \in Downloads /\ DownloadThrows(j)
  BY <1>3 DEF DownloadThrows, BareThrow, RejectSwallows, CaughtThrow, PointerLost, AbortSwallows
<1>4. CASE j \in Verifies /\ VerifyThrows(j)
  BY <1>4 DEF VerifyThrows
<1>5. CASE Restart(j)
  BY <1>5 DEF Restart, RunUnresumable, Writes
<1> QED BY <1>1, <1>2, <1>3, <1>4, <1>5 DEF Throws

\* A verify gives its row up only for a video that is not VERIFYING.
LEMMA VerifyStepJudged ==
  ASSUME IInv, WorkInWorker, JudgeInv, NEW j \in Verifies, VerifyStep(j)
  PROVE  JudgeInv'
<1> USE JobsAssumption DEF Goto, Leave, TransitionCopy
<1>1. CASE ClaimVerify(j)
  BY <1>1 DEF ClaimVerify
<1>2. CASE ReadVideo(j)
  BY <1>2 DEF ReadVideo, MarkFinished, CasRow
<1>3. CASE Probe(j)
  BY <1>3 DEF Probe, CatchStep
<1>4. CASE Verdict(j)
  BY <1>4 DEF Verdict
<1> QED BY <1>1, <1>2, <1>3, <1>4 DEF VerifyStep

\* The listener fails the video after the row.
LEMMA BullStepJudged ==
  ASSUME IInv, WorkInWorker, JudgeInv, NEW j \in Jobs,
             \/ Pickup(j) \/ BackoffOver(j) \/ StallDetected(j) \/ StallFailed(j)
             \/ Listen(j) \/ LockLost(j)
  PROVE  JudgeInv'
<1> USE JobsAssumption DEF Goto, Fault, FaultKinds
<1>1. CASE Pickup(j)
  BY <1>1 DEF Pickup, Activate
<1>2. CASE BackoffOver(j) \/ StallDetected(j) \/ LockLost(j)
  BY <1>2 DEF BackoffOver, StallDetected, LockLost
<1>3. CASE StallFailed(j) \/ ListenRow(j) \/ ListenOwners(j)
  BY <1>3 DEF StallFailed, ListenRow, ListenOwners
<1>4. CASE ListenMark(j)
  <2>1. CASE j \in Downloads
    <3>1. /\ \A k \in Verifies : jobStatus'[k] = jobStatus[k] /\ lpc'[k] = lpc[k]
          /\ UNCHANGED <<jobVideo, copyState, pc, phase, videoTodo, faults>>
      BY <1>4, <2>1 DEF ListenMark, MarkFinished, CasRow
    <3>2. ASSUME NEW v \in Videos
          PROVE  ActiveVerifies(v)' = ActiveVerifies(v)
      <4>1. ASSUME NEW i \in Verifies
            PROVE  Active(i)' <=> Active(i)
        BY <3>1
      <4> QED BY ONLY <3>1, <4>1, Zenon DEF ActiveVerifies
    <3> HIDE DEF ActiveVerifies
    <3>3. ASSUME NEW v \in Videos, HasJudge(v)
          PROVE  HasJudge(v)'
      <4>1. CASE \E i \in ActiveVerifies(v) : pc[i] \notin {"finish", "failRow"}
        BY <3>1, <3>2, <4>1
      <4>2. CASE \E i \in Downloads : jobVideo[i] = v /\ pc[i] = "chain"
        BY <3>1, <4>2
      <4>3. CASE \E i \in Verifies : jobVideo[i] = v /\ lpc[i] = "video"
        BY <3>1, <4>3
      <4> QED BY <3>3, <4>1, <4>2, <4>3
    <3> HIDE DEF HasJudge
    <3> QED BY <3>1, <3>2, <3>3
  <2>2. CASE j \in Verifies
    <3>1. /\ lpc[j] = "mark" /\ lpc' = [lpc EXCEPT ![j] = "video"]
          /\ \A i \in Jobs : i # j => jobStatus'[i] = jobStatus[i]
          /\ UNCHANGED <<jobVideo, copyState, pc, phase, videoTodo, faults>>
      BY <1>4 DEF ListenMark, MarkFinished, CasRow
    <3>2. WorkerRunning
      BY <3>1
    <3>3. HasJudge(jobVideo[j])'
      BY <2>2, <3>1
    <3>4. ASSUME NEW v \in Videos, v # jobVideo[j], HasJudge(v)
          PROVE  HasJudge(v)'
      <4>1. CASE \E i \in ActiveVerifies(v) : pc[i] \notin {"finish", "failRow"}
        <5>1. PICK i \in ActiveVerifies(v) : pc[i] \notin {"finish", "failRow"}
          BY <4>1
        <5>2. i \in ActiveVerifies(v)' /\ pc'[i] = pc[i]
          BY <3>1, <3>4
        <5> QED BY <5>1, <5>2
      <4>2. CASE \E i \in Downloads : jobVideo[i] = v /\ pc[i] = "chain"
        BY <3>1, <4>2
      <4>3. CASE \E i \in Verifies : jobVideo[i] = v /\ lpc[i] = "video"
        BY <3>1, <3>4, <4>3
      <4> QED BY <3>4, <4>1, <4>2, <4>3
    <3> HIDE DEF HasJudge, ActiveVerifies
    <3> QED BY <3>1, <3>2, <3>3, <3>4
  <2> QED BY <2>1, <2>2
<1>5. CASE ListenVideo(j)
  <2>1. /\ lpc[j] = "video" /\ lpc'[j] # "video"
        /\ \A i \in Jobs : i # j => lpc'[i] = lpc[i]
        /\ UNCHANGED <<jobStatus, jobVideo, pc, phase, videoTodo, faults>>
    BY <1>5 DEF ListenVideo
  <2>2. ASSUME NEW v \in Videos, copyState'[v] = "VERIFYING"
        PROVE  copyState[v] = "VERIFYING" /\ (j \in Downloads \/ jobVideo[j] # v)
    BY <1>5, <2>2 DEF ListenVideo, TransitionCopy, WorkState
  <2>3. ASSUME NEW v \in Videos, j \in Downloads \/ jobVideo[j] # v, HasJudge(v)
        PROVE  HasJudge(v)'
    <3>1. CASE \E i \in ActiveVerifies(v) : pc[i] \notin {"finish", "failRow"}
      BY <2>1, <3>1
    <3>2. CASE \E i \in Downloads : jobVideo[i] = v /\ pc[i] = "chain"
      BY <2>1, <3>2
    <3>3. CASE \E i \in Verifies : jobVideo[i] = v /\ lpc[i] = "video"
      BY <2>1, <2>3, <3>3
    <3> QED BY <2>3, <3>1, <3>2, <3>3
  <2>4. \A v \in Videos : ActiveVerifies(v)' = ActiveVerifies(v)
    BY <2>1
  <2> HIDE DEF HasJudge, ActiveVerifies
  <2> QED BY <2>1, <2>2, <2>3, <2>4
<1>6. CASE ListenHeal(j)
  BY <1>6 DEF ListenHeal, TransitionCopy
<1> QED BY <1>1, <1>2, <1>3, <1>4, <1>5, <1>6 DEF Listen

\* The last list of a boot holds every VERIFYING video without a verify.
LEMMA ProcessJudged ==
  ASSUME IInv, WorkInWorker, JudgeInv, Drain \/ Drained \/ Crash \/ BootFails \/ BootStep
  PROVE  JudgeInv'
<1> USE DEF Fault, FaultKinds
<1>1. CASE Drain
  BY <1>1 DEF Drain
<1>2. CASE Drained
  BY <1>2 DEF Drained, Stopped
<1>3. CASE Crash
  BY <1>3 DEF Crash, Dies, Stopped
<1>4. CASE BootFails
  BY <1>4 DEF BootFails, Dies, Stopped
<1>5. CASE Boot \/ Started
  BY <1>5 DEF Boot, Started
<1>6. ASSUME NEW j \in Jobs, NEW status \in {"QUEUED", "RUNNING"}, CheckRow(j, status) \/ ReAdd(j)
      PROVE  JudgeInv'
  BY <1>6 DEF CheckRow, HandBack, ReAdd, MarkRequeued, CasRow
<1>7. CASE NextList
  BY <1>7 DEF NextList, ReadList, Zombies, Owners
<1>8. ASSUME NEW v \in Videos, NEW to \in {"CANDIDATE", "FAILED"}, SweepVideo(v, to)
      PROVE  JudgeInv'
  BY <1>8 DEF SweepVideo, TransitionCopy, SweptState
<1> HIDE DEF JudgeInv
<1> QED BY <1>1, <1>2, <1>3, <1>4, <1>5, <1>6, <1>7, <1>8 DEF BootStep

\* Nothing the api does takes a judge away.
LEMMA ApiJudged ==
  ASSUME IInv, JudgeInv, ApiFrame
  PROVE  JudgeInv'
BY SMTT(30) DEF ApiFrame, RowsByApi, VideosByApi, FaultsGrow

HIDE DEF JudgeInv, HasJudge, ActiveVerifies, WorkInWorker

-----------------------------------------------------------------------------
\* A RUNNING download is in reach of a cancel

\* The api leaves a RUNNING row and its execution alone.
LEMMA ApiReachable ==
  ASSUME IInv, CancelInv, ApiFrame
  PROVE  CancelInv'
<1> USE DEF Locked, FaultKinds
<1> SUFFICES ASSUME Locked'
             PROVE  /\ HoldsLock' /\ RunnersRegistered' /\ LeaversClosed'
                    /\ RunnersNotQueued' /\ AddedNotRunning' /\ RunnersOwned'
  BY DEF CancelInv
<1>1. Locked
  BY DEF ApiFrame, FaultsGrow
<1>2. /\ HoldsLock /\ RunnersRegistered /\ LeaversClosed
      /\ RunnersNotQueued /\ AddedNotRunning /\ RunnersOwned
  BY <1>1 DEF CancelInv
<1>3. HoldsLock' /\ RunnersRegistered' /\ LeaversClosed'
  BY <1>2 DEF ApiFrame, QueueByApi, RowsByApi, HoldsLock, RunnersRegistered, LeaversClosed, Registered
<1>4. RunnersNotQueued'
  BY <1>2 DEF ApiFrame, QueueByApi, RowsByApi, RequestsByApi, RunnersNotQueued
<1>5. AddedNotRunning' /\ RunnersOwned'
  BY <1>2 DEF ApiFrame, QueueByApi, RowsByApi, AddedNotRunning, RunnersOwned, RunnersNotQueued
<1> QED BY <1>3, <1>4, <1>5

USE DEF CancelInv, Locked, HoldsLock, RunnersRegistered, LeaversClosed,
        RunnersNotQueued, AddedNotRunning, RunnersOwned

\* A row is written before its execution leaves.
LEMMA SharedStepReachable ==
  ASSUME IInv, WorkInWorker, CancelInv, NEW j \in Jobs, SharedStep(j)
  PROVE  CancelInv'
<1> USE JobsAssumption DEF Goto, Leave, MarkFinished, CasRow
<1>1. CASE Settle(j)
  <2>1. /\ pc[j] \in SettleSteps /\ pc' = [pc EXCEPT ![j] = "idle"]
        /\ \A i \in Jobs : bull'[i] = bull[i] \/ (i = j /\ bull'[j] \in {"delayed", "absent"})
        /\ UNCHANGED <<jobStatus, ctl, lpc, rowTodo, phase, hpc, hjob, faults>>
    BY <1>1 DEF Settle
  <2>2. j \in Downloads /\ Without({"db", "lock"}) => jobStatus[j] # "RUNNING" /\ ~Registered(j)
    BY <2>1
  <2> QED BY <2>1, <2>2
<1>2. CASE FailFinal(j)
  BY <1>2 DEF FailFinal
<1>3. CASE FailRow(j)
  BY <1>3 DEF FailRow
<1>4. CASE FailRetry(j)
  BY <1>4 DEF FailRetry, MarkRequeued
<1>5. CASE Finish(j)
  BY <1>5 DEF Finish
<1> QED BY <1>1, <1>2, <1>3, <1>4, <1>5 DEF SharedStep

\* A download registers before it claims.
LEMMA DownloadStepReachable ==
  ASSUME IInv, WorkInWorker, CancelInv, NEW j \in Downloads, DownloadStep(j)
  PROVE  CancelInv'
<1> USE JobsAssumption DEF Goto, Leave, MarkFinished, CasRow
<1>1. CASE Load(j)
  BY <1>1 DEF Load
<1>2. CASE ClaimDownload(j)
  <2>1. /\ pc[j] = "claim"
        /\ UNCHANGED <<bull, phase, rowTodo, lpc, hpc, hjob, faults>>
    BY <1>2 DEF ClaimDownload, Claim
  <2>2. CASE Claimable(j)
    <3>1. /\ jobStatus' = [jobStatus EXCEPT ![j] = "RUNNING"]
          /\ pc' = [pc EXCEPT ![j] = "begin"]
          /\ UNCHANGED ctl
      BY <1>2, <2>2 DEF ClaimDownload, Claim
    <3>2. (bull[j] = "active" /\ rowTodo = {}) \/ ~Locked
      BY <2>1 DEF WorkInWorker
    <3>3. (HoldsLock' /\ RunnersRegistered' /\ LeaversClosed') \/ ~Locked
      BY <2>1, <3>1
    <3>4. RunnersNotQueued' \/ ~Locked
      BY <2>1, <3>1, <3>2
    <3>5. (AddedNotRunning' /\ RunnersOwned') \/ ~Locked
      BY <2>1, <3>1, <3>2
    <3> QED BY <2>1, <3>3, <3>4, <3>5
  <2>3. CASE ~Claimable(j)
    BY <1>2, <2>1, <2>3 DEF ClaimDownload, Claim
  <2> QED BY <2>2, <2>3
<1>3. CASE Begin(j) \/ Reread(j)
  BY <1>3 DEF Begin, Reread, Reject
<1>4. CASE Prepare(j) \/ RunAborted(j) \/ RunFailed(j) \/ RunSucceeded(j)
  BY <1>4 DEF Prepare, RunAborted, RunFailed, RunSucceeded, CatchStep
<1>5. CASE Publish(j) \/ PublishFailed(j) \/ Advance(j)
  BY <1>5 DEF Publish, PublishFailed, Advance, CatchStep
<1>6. CASE Chain(j)
  <2>1. PICK k \in Verifies : CreateRow(k, jobVideo[j])
    BY <1>6 DEF Chain
  <2>2. \A i \in Downloads : jobStatus'[i] = jobStatus[i]
    BY <2>1 DEF CreateRow
  <2>3. /\ pc[j] = "chain" /\ pc' = [pc EXCEPT ![j] = "chainAdd"]
        /\ UNCHANGED <<ctl, bull, phase, rowTodo, lpc, hpc, hjob, faults>>
    BY <1>6 DEF Chain
  <2>4. (HoldsLock' /\ RunnersRegistered' /\ LeaversClosed') \/ ~Locked
    BY <2>2, <2>3
  <2>5. (RunnersNotQueued' /\ AddedNotRunning' /\ RunnersOwned') \/ ~Locked
    BY <2>2, <2>3
  <2> QED BY <2>3, <2>4, <2>5
<1>7. CASE ChainAdd(j)
  BY <1>7 DEF ChainAdd, QueueAdd
<1>8. CASE Abort(j)
  <2>1. /\ pc[j] = "abort"
        /\ \/ pc' = [pc EXCEPT ![j] = "settleOk"] /\ ctl' = [ctl EXCEPT ![j] = "absent"]
           \/ pc' = [pc EXCEPT ![j] = "abortRow"] /\ UNCHANGED <<ctl, jobStatus>>
        /\ UNCHANGED <<bull, lpc, rowTodo, phase, hpc, hjob, faults>>
    BY <1>8 DEF Abort
  <2>2. /\ \A i \in Jobs \ {j} : jobStatus'[i] = jobStatus[i]
        /\ pc'[j] = "settleOk" => jobStatus'[j] # "RUNNING"
        /\ jobStatus'[j] = "RUNNING" => jobStatus[j] = "RUNNING"
    BY <1>8 DEF Abort, MarkRequeued, MarkPaused
  <2>3. (HoldsLock' /\ RunnersRegistered' /\ LeaversClosed') \/ ~Locked
    BY <2>1, <2>2
  <2>4. (RunnersNotQueued' /\ AddedNotRunning' /\ RunnersOwned') \/ ~Locked
    BY <2>1, <2>2
  <2>5. Locked' => Locked
    BY <2>1
  <2> QED BY <2>3, <2>4, <2>5
<1>9. CASE AbortRow(j) \/ AbortHop(j)
  BY <1>9 DEF AbortRow, AbortHop
<1> QED BY <1>1, <1>2, <1>3, <1>4, <1>5, <1>6, <1>7, <1>8, <1>9 DEF DownloadStep

\* Without a failed statement nothing leaves a claimed row behind.
LEMMA ThrowsReachable ==
  ASSUME IInv, WorkInWorker, CancelInv, NEW j \in Jobs, Throws(j) \/ Restart(j)
  PROVE  CancelInv'
<1> USE JobsAssumption DEF Goto, Leave, Fault, FaultKinds
<1>1. CASE RecorderSwallows(j) \/ ListenerSwallows(j)
  BY <1>1 DEF RecorderSwallows, ListenerSwallows
<1>2. CASE ListenerThrows(j)
  BY <1>2 DEF ListenerThrows, Dies, Stopped
<1>3. CASE j \in Downloads /\ (BareThrow(j) \/ RejectSwallows(j) \/ CaughtThrow(j))
  BY <1>3 DEF BareThrow, RejectSwallows, CaughtThrow, CatchStep
<1>4. CASE j \in Downloads /\ (PointerLost(j) \/ AbortSwallows(j))
  BY <1>4 DEF PointerLost, AbortSwallows
<1>5. CASE j \in Verifies /\ VerifyThrows(j)
  BY <1>5 DEF VerifyThrows
<1>6. CASE Restart(j)
  BY <1>6 DEF Restart, RunUnresumable, Writes
<1> QED BY <1>1, <1>2, <1>3, <1>4, <1>5, <1>6 DEF Throws, DownloadThrows

\* A verify concerns no download.
LEMMA VerifyStepReachable ==
  ASSUME IInv, WorkInWorker, CancelInv, NEW j \in Verifies, VerifyStep(j)
  PROVE  CancelInv'
<1> USE JobsAssumption DEF Goto, Leave, CasRow, MarkFinished
<1>0. ASSUME UNCHANGED <<bull, lpc, rowTodo, phase, hpc, hjob, faults>>,
             \A d \in Downloads : UNCHANGED <<jobStatus[d], pc[d], ctl[d]>>
      PROVE  CancelInv'
  <2>1. \A d \in Downloads : jobStatus'[d] = jobStatus[d] /\ pc'[d] = pc[d] /\ ctl'[d] = ctl[d]
    BY <1>0
  <2>2. ASSUME Locked
        PROVE  HoldsLock' /\ RunnersRegistered' /\ LeaversClosed'
    BY <1>0, <2>1, <2>2
  <2>3. ASSUME Locked
        PROVE  RunnersNotQueued' /\ AddedNotRunning'
    <3>1. RunnersNotQueued'
      BY <1>0, <2>1, <2>3
    <3>2. AddedNotRunning'
      BY <1>0, <2>1, <2>3
    <3> QED BY <3>1, <3>2
  <2>4. ASSUME Locked
        PROVE  RunnersOwned'
    BY <1>0, <2>1, <2>4
  <2>5. Locked' => Locked
    BY <1>0
  <2> QED BY <2>2, <2>3, <2>4, <2>5
<1>1. CASE ClaimVerify(j)
  <2>1. UNCHANGED <<bull, lpc, rowTodo, phase, hpc, hjob, faults>>
    BY <1>1 DEF ClaimVerify
  <2>2. \A d \in Downloads : UNCHANGED <<jobStatus[d], pc[d], ctl[d]>>
    BY <1>1 DEF ClaimVerify
  <2> QED BY <1>0, <2>1, <2>2
<1>2. CASE ReadVideo(j)
  <2>1. UNCHANGED <<bull, lpc, rowTodo, phase, hpc, hjob, faults>>
    BY <1>2 DEF ReadVideo
  <2>2. \A d \in Downloads : UNCHANGED <<jobStatus[d], pc[d], ctl[d]>>
    BY <1>2 DEF ReadVideo
  <2> QED BY <1>0, <2>1, <2>2
<1>3. CASE Probe(j) \/ Verdict(j)
  <2>1. UNCHANGED <<bull, lpc, rowTodo, phase, hpc, hjob, faults>>
    BY <1>3 DEF Probe, Verdict, CatchStep
  <2>2. \A d \in Downloads : UNCHANGED <<jobStatus[d], pc[d], ctl[d]>>
    BY <1>3 DEF Probe, Verdict, CatchStep
  <2> QED BY <1>0, <2>1, <2>2
<1> QED BY <1>1, <1>2, <1>3 DEF VerifyStep

\* A stalled execution goes over to the listener.
LEMMA BullStepReachable ==
  ASSUME IInv, WorkInWorker, CancelInv, NEW j \in Jobs,
             \/ Pickup(j) \/ BackoffOver(j) \/ StallDetected(j) \/ StallFailed(j)
             \/ Listen(j) \/ LockLost(j)
  PROVE  CancelInv'
<1> USE JobsAssumption DEF Goto, Fault, FaultKinds
<1>1. CASE Pickup(j)
  BY <1>1 DEF Pickup, Activate
<1>2. CASE BackoffOver(j)
  BY <1>2 DEF BackoffOver
<1>3. CASE StallDetected(j)
  BY <1>3 DEF StallDetected
<1>4. CASE StallFailed(j)
  BY <1>4 DEF StallFailed
<1>5. CASE LockLost(j)
  BY <1>5 DEF LockLost
<1>6. CASE ListenMark(j)
  BY <1>6 DEF ListenMark, MarkFinished, CasRow
<1>7. CASE ListenRow(j)
  BY <1>7 DEF ListenRow, ListenSkips
<1>8. CASE ListenVideo(j) \/ ListenOwners(j) \/ ListenHeal(j)
  BY <1>8 DEF ListenVideo, ListenOwners, ListenHeal
<1> QED BY <1>1, <1>2, <1>3, <1>4, <1>5, <1>6, <1>7, <1>8 DEF Listen

\* A boot hands back the RUNNING rows it finds without an execution.
LEMMA ProcessReachable ==
  ASSUME IInv, WorkInWorker, CancelInv, Drain \/ Drained \/ Crash \/ BootFails \/ BootStep
  PROVE  CancelInv'
<1> USE JobsAssumption DEF Fault, FaultKinds
<1>1. CASE Drain
  BY <1>1 DEF Drain
<1>2. CASE Drained
  BY <1>2 DEF Drained, Stopped
<1>3. CASE Crash \/ BootFails
  BY <1>3 DEF Crash, BootFails, Dies, Stopped
<1>4. CASE Boot
  BY <1>4 DEF Boot, SweptStatuses
<1>5. ASSUME NEW i \in Jobs, NEW status \in {"QUEUED", "RUNNING"}, CheckRow(i, status)
      PROVE  CancelInv'
  BY <1>5 DEF CheckRow, HandBack, MarkRequeued, CasRow
<1>6. ASSUME NEW i \in Jobs, ReAdd(i)
      PROVE  CancelInv'
  <2>1. /\ phase = "rows" /\ <<i, "ADD">> \in rowTodo
        /\ rowTodo' = rowTodo \ {<<i, "ADD">>}
        /\ bull' = bull \/ bull' = [bull EXCEPT ![i] = "waiting"]
        /\ UNCHANGED <<pc, ctl, phase, lpc, jobStatus, hpc, hjob, faults>>
    BY <1>6 DEF ReAdd, QueueAdd
  <2>2. Locked /\ i \in Downloads => jobStatus[i] # "RUNNING"
    BY <2>1
  <2>3. (HoldsLock' /\ RunnersRegistered' /\ LeaversClosed') \/ ~Locked
    BY <2>1 DEF WorkInWorker
  <2>4. RunnersNotQueued' \/ ~Locked
    BY <2>1, <2>2
  <2>5. AddedNotRunning => AddedNotRunning'
    <3>1. rowTodo' = rowTodo \ {<<i, "ADD">>}
      BY <2>1
    <3>2. \A t : t \in rowTodo' => t \in rowTodo
      BY <3>1, Zenon
    <3> QED BY <2>1, <3>2
  <2>6. RunnersOwned' \/ ~Locked
    BY <2>1, <2>2
  <2> QED BY <2>1, <2>3, <2>4, <2>5, <2>6
<1>7. CASE NextList
  BY <1>7 DEF NextList, ReadList
<1>8. ASSUME NEW v \in Videos, NEW to \in {"CANDIDATE", "FAILED"}, SweepVideo(v, to)
      PROVE  CancelInv'
  BY <1>8 DEF SweepVideo
<1>9. CASE Started
  BY <1>9 DEF Started
<1> HIDE DEF CancelInv
<1> QED BY <1>1, <1>2, <1>3, <1>4, <1>5, <1>6, <1>7, <1>8, <1>9 DEF BootStep

\* A command changes the mode of an entry, never whether there is one.
LEMMA DeliverReachable ==
  ASSUME IInv, WorkInWorker, CancelInv, NEW m \in control, Deliver(m)
  PROVE  CancelInv'
BY DEF Deliver, Commands

HIDE DEF CancelInv, Locked, HoldsLock, RunnersRegistered, LeaversClosed,
         RunnersNotQueued, AddedNotRunning, RunnersOwned

-----------------------------------------------------------------------------
\* A paused row is left alone

\* The api itself settles, parks and hands back the rows nobody works on.
LEMMA ApiLeavesPaused ==
  ASSUME IInv, PauseInv, ApiFrame
  PROVE  PauseInv' /\ (Smooth' => PausedStays)
<1> USE DEF Smooth, FaultKinds
<1> SUFFICES ASSUME Smooth'
             PROVE  WorkersMatch' /\ DoneMovesOn' /\ PausedStays
  BY DEF PauseInv
<1>1. Smooth
  BY DEF ApiFrame, FaultsGrow
<1>2. WorkersMatch /\ DoneMovesOn
  BY <1>1 DEF PauseInv
<1>3. WorkersMatch'
  BY <1>2 DEF ApiFrame, RowsByApi, WorkersMatch, WorkSteps, ClaimedSteps
<1>4. DoneMovesOn'
  BY <1>2 DEF ApiFrame, RowsByApi, VideosByApi, WorkersMatch, DoneMovesOn, WorkSteps, ClaimedSteps
<1>5. PausedStays
  BY DEF ApiFrame, RowsByApi, PausedStays
<1> QED BY <1>3, <1>4, <1>5

USE DEF Untroubled, PauseKeeps, PausedStays, WorkersMatch, DoneMovesOn, WorkSteps,
        ClaimedSteps, RunsInWorker, NothingStalled

\* The verdict of an execution is for the RUNNING row it worked on.
LEMMA SharedStepSpares ==
  ASSUME IInv, Untroubled, NEW j \in Jobs, SharedStep(j)
  PROVE  PauseKeeps
<1> USE JobsAssumption DEF Goto, Leave, MarkFinished, CasRow
<1>1. CASE Settle(j)
  <2>1. /\ pc[j] \in SettleSteps /\ pc' = [pc EXCEPT ![j] = "idle"]
        /\ UNCHANGED <<jobStatus, jobVideo, copyState>>
    BY <1>1 DEF Settle
  <2>2. \A i \in Jobs : i # j => pc'[i] = pc[i]
    BY <2>1
  <2> QED BY <2>1, <2>2
<1>2. CASE FailFinal(j)
  BY <1>2 DEF FailFinal, TransitionCopy, WorkState
<1>3. CASE FailRow(j)
  BY <1>3 DEF FailRow
<1>4. CASE FailRetry(j)
  BY <1>4 DEF FailRetry, MarkRequeued
<1>5. CASE Finish(j)
  BY <1>5 DEF Finish
<1> QED BY <1>1, <1>2, <1>3, <1>4, <1>5 DEF SharedStep

\* A download claims a QUEUED row, and moves its own video on.
LEMMA DownloadStepSpares ==
  ASSUME IInv, Untroubled, OneActiveDownload, NEW j \in Downloads, DownloadStep(j)
  PROVE  PauseKeeps
<1> USE JobsAssumption DEF Goto, Leave, MarkFinished, CasRow
<1>1. CASE Load(j)
  BY <1>1 DEF Load
<1>2. CASE ClaimDownload(j)
  BY <1>2 DEF ClaimDownload, Claim, Claimable
<1>3. CASE Begin(j)
  BY <1>3 DEF Begin, Reject, TransitionCopy
<1>4. CASE Reread(j)
  BY <1>4 DEF Reread, Reject
<1>5. CASE Prepare(j) \/ RunAborted(j) \/ RunFailed(j) \/ RunSucceeded(j)
  BY <1>5 DEF Prepare, RunAborted, RunFailed, RunSucceeded, CatchStep
<1>6. CASE Publish(j) \/ PublishFailed(j)
  BY <1>6 DEF Publish, PublishFailed, CatchStep
<1>7. CASE Advance(j)
  BY <1>7 DEF Advance, TransitionCopy, OneActiveDownload
<1>8. CASE Chain(j)
  <2>1. PICK k \in Verifies : CreateRow(k, jobVideo[j])
    BY <1>8 DEF Chain
  <2>2. ASSUME NEW i \in Downloads
        PROVE  jobStatus'[i] = jobStatus[i] /\ jobVideo'[i] = jobVideo[i]
    <3>1. i # k
      OBVIOUS
    <3> QED BY <2>1, <3>1 DEF CreateRow
  <2>3. /\ pc[j] = "chain" /\ pc' = [pc EXCEPT ![j] = "chainAdd"]
        /\ UNCHANGED copyState
    BY <1>8 DEF Chain
  <2> QED BY <2>2, <2>3
<1>9. CASE ChainAdd(j)
  BY <1>9 DEF ChainAdd
<1>10. CASE Abort(j)
  BY <1>10 DEF Abort, MarkRequeued, MarkPaused
<1>11. CASE AbortRow(j)
  BY <1>11 DEF AbortRow
<1>12. CASE AbortHop(j)
  BY <1>12 DEF AbortHop, TransitionCopy
<1> QED BY <1>1, <1>2, <1>3, <1>4, <1>5, <1>6, <1>7, <1>8, <1>9, <1>10, <1>11, <1>12 DEF DownloadStep

\* No statement of a smooth run throws; a restart of yt-dlp writes no row.
LEMMA ThrowsSpare ==
  ASSUME IInv, Untroubled, NEW j \in Jobs, Throws(j) \/ Restart(j), Smooth, Smooth'
  PROVE  PauseKeeps
<1>1. CASE Throws(j)
  BY <1>1, SMTT(30) DEF Throws, RecorderSwallows, ListenerSwallows, ListenerThrows, DownloadThrows, BareThrow, RejectSwallows, CaughtThrow,
    PointerLost, AbortSwallows, VerifyThrows, Fault, FaultKinds, Smooth
<1>2. CASE Restart(j)
  BY <1>2 DEF Restart, RunUnresumable, Writes
<1> QED BY <1>1, <1>2

\* A verify takes a video that is VERIFYING to HEALTHY, or out of both.
LEMMA VerifyStepSpares ==
  ASSUME IInv, Untroubled, NEW j \in Verifies, VerifyStep(j)
  PROVE  PauseKeeps
<1> USE JobsAssumption DEF Goto, Leave, CasRow, MarkFinished, TransitionCopy
<1>1. CASE ClaimVerify(j)
  BY <1>1 DEF ClaimVerify
<1>2. CASE ReadVideo(j)
  BY <1>2 DEF ReadVideo
<1>3. CASE Probe(j)
  BY <1>3 DEF Probe, CatchStep
<1>4. CASE Verdict(j)
  BY <1>4 DEF Verdict
<1> QED BY <1>1, <1>2, <1>3, <1>4 DEF VerifyStep

\* The listener has nothing to listen to ...
LEMMA ListenSpares ==
  ASSUME IInv, Untroubled, NEW j \in Jobs, Listen(j)
  PROVE  PauseKeeps
<1>1. lpc[j] # "idle"
  BY DEF Listen, ListenRow, ListenMark, ListenVideo, ListenOwners, ListenHeal
<1>2. lpc[j] = "idle"
  OBVIOUS
<1> QED BY <1>1, <1>2

\* ... and BullMQ nothing to stall.
LEMMA BullStepSpares ==
  ASSUME IInv, Untroubled, NEW j \in Jobs, Smooth, Smooth',
             \/ Pickup(j) \/ BackoffOver(j) \/ StallDetected(j) \/ StallFailed(j)
             \/ LockLost(j)
  PROVE  PauseKeeps
<1> USE JobsAssumption DEF Goto
<1>1. CASE Pickup(j)
  BY <1>1 DEF Pickup, Activate
<1>2. CASE BackoffOver(j) \/ StallDetected(j) \/ StallFailed(j)
  BY <1>2 DEF BackoffOver, StallDetected, StallFailed
<1>3. CASE LockLost(j)
  BY <1>3 DEF LockLost, Fault, FaultKinds, Smooth
<1> QED BY <1>1, <1>2, <1>3

\* A worker drains with no RUNNING row left, so a boot has none to hand back.
LEMMA ProcessSpares ==
  ASSUME IInv, Untroubled, Drain \/ Drained \/ Crash \/ BootFails \/ BootStep, Smooth, Smooth'
  PROVE  PauseKeeps
<1>1. CASE Drain
  BY <1>1 DEF Drain
<1>2. CASE Drained
  BY <1>2 DEF Drained, Stopped, Running
<1>3. CASE Crash \/ BootFails
  BY <1>3 DEF Crash, BootFails, Fault, FaultKinds, Smooth
<1>4. CASE Boot \/ NextList \/ Started
  BY <1>4 DEF Boot, NextList, ReadList, Started
<1>5. ASSUME NEW i \in Jobs, NEW status \in {"QUEUED", "RUNNING"}, CheckRow(i, status)
      PROVE  PauseKeeps
  <2> USE JobsAssumption
  <2>1. /\ phase = "rows"
        /\ UNCHANGED <<pc, jobVideo, copyState>>
        /\ \/ jobStatus' = jobStatus
           \/ jobStatus[i] = "RUNNING" /\ jobStatus' = [jobStatus EXCEPT ![i] = "QUEUED"]
    BY <1>5 DEF CheckRow, HandBack, MarkRequeued, CasRow
  <2>2. \A j \in Downloads : jobStatus[j] # "RUNNING"
    BY <2>1
  <2>3. \A j \in Downloads : jobStatus'[j] = jobStatus[j]
    BY <2>1, <2>2
  <2> QED BY <2>1, <2>3
<1>6. ASSUME NEW i \in Jobs, ReAdd(i)
      PROVE  PauseKeeps
  BY <1>6 DEF ReAdd
<1>7. ASSUME NEW v \in Videos, NEW to \in {"CANDIDATE", "FAILED"}, SweepVideo(v, to)
      PROVE  PauseKeeps
  BY <1>7 DEF SweepVideo, TransitionCopy
<1> QED BY <1>1, <1>2, <1>3, <1>4, <1>5, <1>6, <1>7 DEF BootStep

HIDE DEF Untroubled, PauseKeeps, PausedStays, WorkersMatch, DoneMovesOn, WorkSteps,
         ClaimedSteps, RunsInWorker, NothingStalled

-----------------------------------------------------------------------------
\* Every state of the pipeline

\* An empty vault satisfies the three.
LEMMA InitOwned == Init => WorkInWorker /\ CancelInv /\ JudgeInv /\ PauseInv
BY JobsAssumption
   DEF Init, WorkInWorker, CancelInv, HoldsLock, RunnersRegistered, LeaversClosed,
       RunnersNotQueued, AddedNotRunning, RunnersOwned, JudgeInv,
       PauseInv, WorkersMatch, DoneMovesOn, WorkSteps, ClaimedSteps

\* Work is done by a running worker.
LEMMA NextInWorker ==
  ASSUME IInv, WorkInWorker, [Next]_vars
  PROVE  WorkInWorker'
<1>1. ASSUME NEW j \in Jobs, ExecutionStep(j) \/ Restart(j) \/ Throws(j)
      PROVE  WorkInWorker'
  BY <1>1, ExecutionInWorker
<1>2. ASSUME NEW j \in Jobs,
             \/ Pickup(j) \/ BackoffOver(j) \/ StallDetected(j) \/ StallFailed(j)
             \/ Listen(j) \/ LockLost(j)
      PROVE  WorkInWorker'
  BY <1>2, BullInWorker
<1>3. CASE Drain \/ Drained \/ Crash \/ BootFails \/ BootStep
  BY <1>3, ProcessInWorker
<1>4. ASSUME NEW r \in Requests, Ask(r) \/ Serve(r) \/ RequestFails(r)
      PROVE  WorkInWorker'
  BY <1>4, ApiOutsideWorker
<1>5. ASSUME NEW m \in control, Deliver(m)
      PROVE  WorkInWorker'
  BY <1>5 DEF Deliver, WorkInWorker
<1>6. CASE UNCHANGED vars
  BY <1>6 DEF vars, WorkInWorker
<1> QED BY <1>1, <1>2, <1>3, <1>4, <1>5, <1>6 DEF Next

\* A RUNNING download stays in reach.
LEMMA NextReachable ==
  ASSUME IInv, WorkInWorker, CancelInv, [Next]_vars
  PROVE  CancelInv'
<1>1. ASSUME NEW j \in Jobs, ExecutionStep(j)
      PROVE  CancelInv'
  BY <1>1, SharedStepReachable, DownloadStepReachable, VerifyStepReachable DEF ExecutionStep
<1>2. ASSUME NEW j \in Jobs, Restart(j) \/ Throws(j)
      PROVE  CancelInv'
  BY <1>2, ThrowsReachable
<1>3. ASSUME NEW j \in Jobs,
             \/ Pickup(j) \/ BackoffOver(j) \/ StallDetected(j) \/ StallFailed(j)
             \/ Listen(j) \/ LockLost(j)
      PROVE  CancelInv'
  BY <1>3, BullStepReachable
<1>4. CASE Drain \/ Drained \/ Crash \/ BootFails \/ BootStep
  BY <1>4, ProcessReachable
<1>5. ASSUME NEW r \in Requests, Ask(r) \/ Serve(r) \/ RequestFails(r)
      PROVE  CancelInv'
  BY <1>5, AskFrame, ServeFrame, ApiReachable
<1>6. ASSUME NEW m \in control, Deliver(m)
      PROVE  CancelInv'
  BY <1>6, DeliverReachable
<1>7. CASE UNCHANGED vars
  BY <1>7 DEF vars, CancelInv, Locked, HoldsLock, RunnersRegistered, LeaversClosed,
              RunnersNotQueued, AddedNotRunning, RunnersOwned
<1> QED BY <1>1, <1>2, <1>3, <1>4, <1>5, <1>6, <1>7 DEF Next

\* A VERIFYING video keeps a judge.
LEMMA NextJudged ==
  ASSUME IInv, WorkInWorker, JudgeInv, [Next]_vars
  PROVE  JudgeInv'
<1>1. ASSUME NEW j \in Jobs, ExecutionStep(j)
      PROVE  JudgeInv'
  BY <1>1, SharedStepJudged, DownloadStepJudged, VerifyStepJudged DEF ExecutionStep
<1>2. ASSUME NEW j \in Jobs, Restart(j) \/ Throws(j)
      PROVE  JudgeInv'
  BY <1>2, ThrowsJudged
<1>3. ASSUME NEW j \in Jobs,
             \/ Pickup(j) \/ BackoffOver(j) \/ StallDetected(j) \/ StallFailed(j)
             \/ Listen(j) \/ LockLost(j)
      PROVE  JudgeInv'
  BY <1>3, BullStepJudged
<1>4. CASE Drain \/ Drained \/ Crash \/ BootFails \/ BootStep
  BY <1>4, ProcessJudged
<1>5. ASSUME NEW r \in Requests, Ask(r) \/ Serve(r) \/ RequestFails(r)
      PROVE  JudgeInv'
  BY <1>5, AskFrame, ServeFrame, ApiJudged
<1>6. ASSUME NEW m \in control, Deliver(m)
      PROVE  JudgeInv'
  BY <1>6 DEF Deliver, JudgeInv, HasJudge, ActiveVerifies
<1>7. CASE UNCHANGED vars
  BY <1>7 DEF vars, JudgeInv, HasJudge, ActiveVerifies
<1> QED BY <1>1, <1>2, <1>3, <1>4, <1>5, <1>6, <1>7 DEF Next

\* A run is smooth until its first fault, and the step with the fault writes no
\* row of the worker's.
LEMMA FaultsCounted ==
  ASSUME IInv, [Next]_vars
  PROVE  /\ Smooth' => Smooth
         /\ Smooth => Smooth' \/ PausedStays
<1> DEFINE Counted ==
             /\ Smooth' => Smooth
             /\ Smooth => Smooth' \/ PausedStays
<1>1. UNCHANGED faults => Counted
  BY DEF Smooth
<1>2. (\E k \in FaultKinds : Fault(k)) /\ UNCHANGED jobStatus => Counted
  BY JobsAssumption DEF Smooth, Fault, PausedStays
<1> SUFFICES Counted
  OBVIOUS
<1> HIDE DEF Counted
<1>3. ASSUME NEW j \in Jobs, ExecutionStep(j) \/ Restart(j)
      PROVE  Counted
  <2>1. UNCHANGED faults
    BY <1>3 DEF ExecutionStep, Restart, RunUnresumable, Writes,
       SharedStep, Settle, FailFinal, FailRow, FailRetry, Finish,
       DownloadStep, Load, ClaimDownload, Claim, Begin, Reread, Prepare, RunAborted, RunFailed,
       RunSucceeded, Publish, PublishFailed, Advance, Chain, ChainAdd, Abort, AbortRow, AbortHop,
       VerifyStep, ClaimVerify, ReadVideo, Probe, Verdict
  <2> QED BY <1>1, <2>1
<1>4. ASSUME NEW j \in Jobs, Throws(j)
      PROVE  Counted
  <2>1. (\E k \in FaultKinds : Fault(k)) /\ UNCHANGED jobStatus
    BY <1>4 DEF Throws, RecorderSwallows, ListenerSwallows, ListenerThrows, Dies, DownloadThrows,
       BareThrow, RejectSwallows, CaughtThrow, PointerLost, AbortSwallows, VerifyThrows
  <2> QED BY <1>2, <2>1
<1>5. ASSUME NEW j \in Jobs,
             \/ Pickup(j) \/ BackoffOver(j) \/ StallDetected(j) \/ StallFailed(j)
             \/ Listen(j) \/ LockLost(j)
      PROVE  Counted
  <2>1. UNCHANGED faults \/ (Fault("lock") /\ UNCHANGED jobStatus)
    BY <1>5 DEF Pickup, Activate, BackoffOver, StallDetected, StallFailed, LockLost,
       Listen, ListenRow, ListenMark, ListenVideo, ListenOwners, ListenHeal
  <2> QED BY <1>1, <1>2, <2>1
<1>6. CASE Drain \/ Drained \/ Crash \/ BootFails \/ BootStep
  <2>1. CASE Drain \/ Crash \/ BootFails
    <3>1. (\E k \in FaultKinds : Fault(k)) /\ UNCHANGED jobStatus
      BY <2>1 DEF Drain, Crash, BootFails, Dies
    <3> QED BY <1>2, <3>1
  <2>2. CASE Drained \/ BootStep
    <3>1. UNCHANGED faults
      BY <2>2 DEF Drained, BootStep, Boot, CheckRow, HandBack, ReAdd, NextList, ReadList, SweepVideo, Started
    <3> QED BY <1>1, <3>1
  <2> QED BY <1>6, <2>1, <2>2
<1>7. ASSUME NEW r \in Requests, Ask(r) \/ Serve(r) \/ RequestFails(r)
      PROVE  Counted
  <2>1. ApiFrame
    BY <1>7, AskFrame, ServeFrame
  <2> QED BY <2>1 DEF ApiFrame, FaultsGrow, RowsByApi, Smooth, PausedStays, Counted
<1>8. ASSUME NEW m \in control, Deliver(m)
      PROVE  Counted
  BY <1>1, <1>8 DEF Deliver
<1>9. CASE UNCHANGED vars
  BY <1>1, <1>9 DEF vars
<1> QED BY <1>3, <1>4, <1>5, <1>6, <1>7, <1>8, <1>9 DEF Next

\* A smooth step works on no paused row.
LEMMA NextSpares ==
  ASSUME IInv, ExecInv, OneActiveDownload, PauseInv, [Next]_vars
  PROVE  PauseInv' /\ (Smooth => PausedStays)
<1>1. ASSUME NEW r \in Requests, Ask(r) \/ Serve(r) \/ RequestFails(r)
      PROVE  PauseInv' /\ (Smooth => PausedStays)
  <2>1. ApiFrame
    BY <1>1, AskFrame, ServeFrame
  <2> QED BY <2>1, ApiLeavesPaused, FaultsCounted
<1>2. SUFFICES ASSUME Smooth', \A r \in Requests : ~(Ask(r) \/ Serve(r) \/ RequestFails(r))
               PROVE  PauseKeeps
  BY <1>1, FaultsCounted DEF PauseInv, PauseKeeps
<1>3. Smooth
  BY <1>2, FaultsCounted
<1>4. Untroubled
  BY <1>3 DEF Smooth, PauseInv, ExecInv, Undisturbed, Untroubled, RunnersClaimed, ActsForRow
<1>5. ASSUME NEW j \in Jobs, ExecutionStep(j)
      PROVE  PauseKeeps
  BY <1>4, <1>5, SharedStepSpares, DownloadStepSpares, VerifyStepSpares DEF ExecutionStep
<1>6. ASSUME NEW j \in Jobs, Restart(j) \/ Throws(j)
      PROVE  PauseKeeps
  BY <1>2, <1>3, <1>4, <1>6, ThrowsSpare
<1>7. ASSUME NEW j \in Jobs, Listen(j)
      PROVE  PauseKeeps
  BY <1>4, <1>7, ListenSpares
<1>8. ASSUME NEW j \in Jobs,
             Pickup(j) \/ BackoffOver(j) \/ StallDetected(j) \/ StallFailed(j) \/ LockLost(j)
      PROVE  PauseKeeps
  BY <1>2, <1>3, <1>4, <1>8, BullStepSpares
<1>9. CASE Drain \/ Drained \/ Crash \/ BootFails \/ BootStep
  BY <1>2, <1>3, <1>4, <1>9, ProcessSpares
<1>10. ASSUME NEW m \in control, Deliver(m)
       PROVE  PauseKeeps
  BY <1>4, <1>10 DEF Deliver, Untroubled, PauseKeeps, PausedStays, WorkersMatch, DoneMovesOn
<1>11. CASE UNCHANGED vars
  BY <1>4, <1>11 DEF vars, Untroubled, PauseKeeps, PausedStays, WorkersMatch, DoneMovesOn
<1> QED BY <1>2, <1>5, <1>6, <1>7, <1>8, <1>9, <1>10, <1>11 DEF Next

\* Only the last step of a download, for the row it works on, enters VERIFYING.
LEMMA VerifyingEntered ==
  ASSUME IInv, [Next]_vars, NEW v \in Videos,
         copyState[v] # "VERIFYING", copyState'[v] = "VERIFYING"
  PROVE  \E j \in Downloads : pc[j] = "advance" /\ jobVideo[j] = v
<1> USE JobsAssumption DEF TransitionCopy
<1>1. ASSUME NEW j \in Downloads, DownloadStep(j)
      PROVE  \E i \in Downloads : pc[i] = "advance" /\ jobVideo[i] = v
  <2>1. CASE Advance(j)
    BY <2>1 DEF Advance
  <2>2. CASE Begin(j)
    <3>1. \/ UNCHANGED copyState
          \/ TransitionCopy(jobVideo[j], "QUEUED", "DOWNLOADING")
      BY <2>2 DEF Begin, Reject
    <3> QED BY <3>1
  <2>3. CASE Reread(j)
    BY <2>3 DEF Reread, Reject
  <2>4. CASE AbortHop(j)
    BY <2>4 DEF AbortHop
  <2>5. CASE Load(j) \/ ClaimDownload(j) \/ Prepare(j) \/ Chain(j) \/ ChainAdd(j)
    BY <2>5 DEF Load, ClaimDownload, Claim, Prepare, Chain, ChainAdd
  <2>6. CASE RunAborted(j) \/ RunFailed(j) \/ RunSucceeded(j)
    BY <2>6 DEF RunAborted, RunFailed, RunSucceeded
  <2>7. CASE Publish(j) \/ PublishFailed(j) \/ Abort(j) \/ AbortRow(j)
    BY <2>7 DEF Publish, PublishFailed, Abort, AbortRow
  <2> QED BY <1>1, <2>1, <2>2, <2>3, <2>4, <2>5, <2>6, <2>7 DEF DownloadStep
<1>2. ASSUME NEW j \in Jobs, SharedStep(j) \/ Throws(j) \/ Restart(j)
      PROVE  FALSE
  BY <1>2 DEF SharedStep, Settle, FailFinal, FailRow, FailRetry, Finish, Restart, RunUnresumable, Writes,
     Throws, RecorderSwallows, ListenerSwallows, ListenerThrows, Dies, DownloadThrows, BareThrow, RejectSwallows,
     CaughtThrow, PointerLost, AbortSwallows, VerifyThrows
<1>3. ASSUME NEW j \in Verifies, VerifyStep(j)
      PROVE  FALSE
  <2>1. CASE ClaimVerify(j) \/ ReadVideo(j) \/ Probe(j)
    BY <2>1 DEF ClaimVerify, ReadVideo, Probe
  <2>2. CASE Verdict(j)
    BY <2>2 DEF Verdict
  <2> QED BY <1>3, <2>1, <2>2 DEF VerifyStep
<1>4. ASSUME NEW j \in Jobs,
             \/ Pickup(j) \/ BackoffOver(j) \/ StallDetected(j) \/ StallFailed(j)
             \/ Listen(j) \/ LockLost(j)
      PROVE  FALSE
  <2>1. CASE \/ Pickup(j) \/ BackoffOver(j) \/ StallDetected(j) \/ StallFailed(j)
             \/ LockLost(j)
    BY <2>1 DEF Pickup, Activate, BackoffOver, StallDetected, StallFailed, LockLost
  <2>2. CASE ListenRow(j) \/ ListenMark(j) \/ ListenOwners(j)
    BY <2>2 DEF ListenRow, ListenMark, ListenOwners
  <2>3. CASE ListenVideo(j)
    BY <2>3 DEF ListenVideo
  <2>4. CASE ListenHeal(j)
    BY <2>4 DEF ListenHeal
  <2> QED BY <1>4, <2>1, <2>2, <2>3, <2>4 DEF Listen
<1>5. CASE Drain \/ Drained \/ Crash \/ BootFails \/ BootStep
  <2>1. ~Drain /\ ~Drained /\ ~Crash /\ ~BootFails
    BY DEF Drain, Drained, Crash, BootFails, Dies
  <2>2. ~Boot /\ ~NextList /\ ~Started
    BY DEF Boot, NextList, ReadList, Started
  <2>3. ASSUME NEW i \in Jobs, NEW status \in {"QUEUED", "RUNNING"}
        PROVE  ~CheckRow(i, status) /\ ~ReAdd(i)
    BY DEF CheckRow, HandBack, ReAdd
  <2>4. ASSUME NEW u \in Videos, NEW to \in {"CANDIDATE", "FAILED"}
        PROVE  ~SweepVideo(u, to)
    BY DEF SweepVideo
  <2> QED BY <1>5, <2>1, <2>2, <2>3, <2>4 DEF BootStep
<1>6. ASSUME NEW r \in Requests, Ask(r) \/ Serve(r) \/ RequestFails(r)
      PROVE  FALSE
  <2>1. ApiFrame
    BY <1>6, AskFrame, ServeFrame
  <2> QED BY <2>1 DEF ApiFrame, VideosByApi
<1>7. ASSUME NEW m \in control, Deliver(m)
      PROVE  FALSE
  BY <1>7 DEF Deliver
<1>8. CASE UNCHANGED vars
  BY <1>8 DEF vars
<1> QED BY <1>1, <1>2, <1>3, <1>4, <1>5, <1>6, <1>7, <1>8 DEF Next, ExecutionStep

LEMMA OwnershipInvariance == Spec => [](WorkInWorker /\ CancelInv /\ JudgeInv /\ PauseInv)
<1>1. /\ IInv /\ ExecInv /\ OneActiveDownload
      /\ WorkInWorker /\ CancelInv /\ JudgeInv /\ PauseInv
      /\ [Next]_vars
      => (WorkInWorker /\ CancelInv /\ JudgeInv /\ PauseInv)'
  BY NextInWorker, NextReachable, NextJudged, NextSpares
<1> QED BY Invariance, ExecutionInvariance, OneActiveDownloadHolds, InitOwned, <1>1, PTL DEF Spec

-----------------------------------------------------------------------------
\* Theorems

\* The claim gate: while no lock is lost and no worker crashes, an execution
\* past its claim has a RUNNING row, whatever owners ask for meanwhile,
\* whatever statement throws and however often the worker is drained.
THEOREM RunnerOwnsRowHolds == Spec => []RunnerOwnsRow
<1>1. ExecInv => RunnerOwnsRow
  BY DEF RunnerOwnsRow, ExecInv, Undisturbed, RunnersClaimed, ActsForRow
<1> QED BY ExecutionInvariance, <1>1, PTL

\* Two yt-dlp runs never share the staging directory of a video: the rows of
\* both would be RUNNING, and a video has one active download.
THEOREM NoTwinHolds == Spec => []NoTwin
<1>1. ExecInv /\ OneActiveDownload => NoTwin
  BY DEF OneActiveDownload, NoTwin, TwinFree, ExecInv, Undisturbed, RunnersClaimed, ActsForRow, ClaimedSteps
<1> QED BY ExecutionInvariance, OneActiveDownloadHolds, <1>1, PTL

\* A cancel never goes blind: as long as no statement fails and no lock is lost,
\* a RUNNING download is registered with the control plane, or its execution or
\* listener is about to settle it, through any crash, drain and boot.
THEOREM CancelNeverBlindHolds == Spec => []CancelNeverBlind
<1>1. CancelInv => CancelNeverBlind
  BY DEF CancelInv, Locked, RunnersOwned, HoldsLock, CancelNeverBlind
<1> QED BY OwnershipInvariance, <1>1, PTL

\* A VERIFYING video never waits for nobody: as long as no statement fails, a
\* verify will judge it, whatever locks, crashes and drains come in between.
THEOREM VerifyingHasVerifyHolds == Spec => []VerifyingHasVerify
<1>1. JudgeInv => VerifyingHasVerify
  BY DEF JudgeInv, HasJudge, VerifyingHasVerify
<1> QED BY OwnershipInvariance, <1>1, PTL

\* A paused row leaves PAUSED in the step of its owner's resume or cancel and in
\* no other: not by an execution that works, ends, throws or is drained, and not
\* by a boot.
THEOREM PauseKeptHolds == Spec => PauseKept
<1>1. IInv /\ ExecInv /\ OneActiveDownload /\ PauseInv /\ [Next]_vars
      => [Without({"lock", "crash", "db", "redis"}) =>
            \A j \in Downloads :
               jobStatus[j] = "PAUSED" /\ jobStatus'[j] # "PAUSED" => EndedByOwner(j)]_vars
  <2> SUFFICES ASSUME IInv, ExecInv, OneActiveDownload, PauseInv, [Next]_vars, Smooth
               PROVE  PausedStays
    BY DEF PausedStays, Smooth
  <2> QED BY NextSpares
<1> QED BY Invariance, ExecutionInvariance, OneActiveDownloadHolds, OwnershipInvariance, <1>1, PTL
        DEF Spec, PauseKept

\* A stale writer never moves a video to VERIFYING: the download that does is
\* the one active download of the video.
THEOREM StaleVerdictFreeHolds == Spec => StaleVerdictFree
<1>1. IInv /\ ExecInv /\ OneActiveDownload /\ [Next]_vars
      => [Without({"lock", "crash"}) =>
            \A v \in Videos :
               copyState[v] = "DOWNLOADING" /\ copyState'[v] = "VERIFYING" =>
                  \A j \in ActiveDownloads(v) : pc[j] = "advance"]_vars
  <2> SUFFICES ASSUME IInv, ExecInv, OneActiveDownload, [Next]_vars, Undisturbed,
                      NEW v \in Videos,
                      copyState[v] = "DOWNLOADING", copyState'[v] = "VERIFYING",
                      NEW j \in ActiveDownloads(v)
               PROVE  pc[j] = "advance"
    BY DEF Undisturbed
  <2>1. PICK i \in Downloads : pc[i] = "advance" /\ jobVideo[i] = v
    BY VerifyingEntered
  <2>2. jobStatus[i] = "RUNNING"
    BY <2>1 DEF ExecInv, RunnersClaimed, ActsForRow, ClaimedSteps
  <2>3. i = j
    BY <2>1, <2>2 DEF OneActiveDownload, ActiveDownloads
  <2> QED BY <2>1, <2>3
<1> QED BY Invariance, ExecutionInvariance, OneActiveDownloadHolds, <1>1, PTL
        DEF Spec, StaleVerdictFree
=============================================================================

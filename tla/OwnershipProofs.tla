--------------------------- MODULE OwnershipProofs ---------------------------
(***************************************************************************)
(* Proofs about who owns what is in flight in ArchivePipeline: a video in  *)
(* flight has an owner that will move it on, a QUEUED row has an execution *)
(* or someone who owes it one, and the partial of a parked row is touched  *)
(* by nobody else.                                                         *)
(*                                                                         *)
(* A census of Next says what one step may do to a row, an execution, a    *)
(* request, a video and its staging directory; each invariant is argued    *)
(* from the census alone.                                                  *)
(***************************************************************************)
EXTENDS ExecutionProofs

-----------------------------------------------------------------------------
\* The value spaces, the groups of variables and the types are expanded
\* throughout, the parts of an invariant in its section.
USE DEF Jobs, FaultKinds, SettleSteps, Phases, TerminalStatuses, ActiveStatuses,
        Aborted, Commands, rowVars, queueVars, execVars, bootVars, apiVars,
        DownloadUnchanged, VerifyUnchanged, BootUnchanged, ApiUnchanged
USE DEF IInv, TypeOK, RowsLinked, RequestsLinked, Exists, Active, Terminal, Without,
        WorkerRunning, Registered, Signalled, At

-----------------------------------------------------------------------------
\* A census of what a step may do to a video in flight and to its downloads.

\* The states of a video somebody has to move on.
InFlight == {"QUEUED", "DOWNLOADING"}

\* A video becomes QUEUED only with its row, and DOWNLOADING only by the first
\* hop of a download.
Enters(v) ==
    /\ copyState'[v] = "QUEUED" =>
         \/ copyState[v] = "QUEUED"
         \/ ActiveDownloads(v) = {} /\ ActiveDownloads(v)' # {}
    /\ copyState'[v] = "DOWNLOADING" =>
         \/ copyState[v] = "DOWNLOADING"
         \/ /\ copyState[v] = "QUEUED"
            /\ \E k \in Downloads : pc[k] = "begin" /\ pc'[k] = "prepare" /\ jobVideo[k] = v
            /\ UNCHANGED <<jobStatus, jobVideo>>

\* The rows the queue service creates are downloads.
LEMMA EnqueueEnters ==
  ASSUME IInv, NEW r \in Requests, NEW v \in Videos, Enqueue(r, v), NEW u \in Videos
  PROVE  Enters(u)
<1> USE JobsAssumption DEF ActiveDownloads
<1>1. PICK j \in Downloads : NextId(j, Downloads) /\ CreateRow(j, v)
  BY DEF Enqueue
<1>2. /\ ActiveDownloads(v) = {}
      /\ copyState' = [copyState EXCEPT ![v] = "QUEUED"]
      /\ ~Exists(j) /\ jobStatus'[j] = "QUEUED" /\ jobVideo'[j] = v
  BY <1>1 DEF Enqueue, NextId, CreateRow
<1>3. j \in ActiveDownloads(v)'
  BY <1>2
<1> HIDE DEF ActiveDownloads
<1> QED BY <1>2, <1>3 DEF Enters

\* Nobody but the enqueue and the first hop of a download puts a video in flight.
LEMMA VideoEnters ==
  ASSUME IInv, [Next]_vars, NEW v \in Videos
  PROVE  Enters(v)
<1> USE JobsAssumption DEF TransitionCopy
<1>0. (copyState'[v] \in InFlight => copyState'[v] = copyState[v]) => Enters(v)
  BY DEF Enters, InFlight
<1>1. ASSUME NEW j \in Downloads, DownloadStep(j)
      PROVE  Enters(v)
  <2>1. CASE Advance(j)
    BY <1>0, <2>1 DEF Advance, InFlight
  <2>2. CASE Begin(j)
    <3>1. CASE UNCHANGED copyState
      BY <1>0, <3>1
    <3>2. CASE ~UNCHANGED copyState
      <4>1. /\ TransitionCopy(jobVideo[j], "QUEUED", "DOWNLOADING")
            /\ copyState[jobVideo[j]] = "QUEUED" => pc' = [pc EXCEPT ![j] = "prepare"]
            /\ pc[j] = "begin" /\ UNCHANGED rowVars
        BY <2>2, <3>2 DEF Begin, Reject, Goto
      <4>2. copyState[jobVideo[j]] = "QUEUED" /\ copyState' = [copyState EXCEPT ![jobVideo[j]] = "DOWNLOADING"]
        BY <4>1, <3>2
      <4>3. CASE v = jobVideo[j]
        <5>1. pc'[j] = "prepare"
          BY <4>1, <4>2
        <5> QED BY <4>1, <4>2, <4>3, <5>1 DEF Enters
      <4>4. CASE v # jobVideo[j]
        BY <1>0, <4>2, <4>4
      <4> QED BY <4>3, <4>4
    <3> QED BY <3>1, <3>2
  <2>3. CASE Reread(j)
    BY <1>0, <2>3 DEF Reread, Reject
  <2>4. CASE AbortHop(j)
    BY <1>0, <2>4 DEF AbortHop, InFlight
  <2>5. CASE Load(j) \/ ClaimDownload(j) \/ Prepare(j) \/ Chain(j) \/ ChainAdd(j)
    BY <1>0, <2>5 DEF Load, ClaimDownload, Claim, Prepare, Chain, ChainAdd
  <2>6. CASE RunAborted(j) \/ RunFailed(j) \/ RunSucceeded(j)
    BY <1>0, <2>6 DEF RunAborted, RunFailed, RunSucceeded
  <2>7. CASE Publish(j) \/ PublishFailed(j) \/ Abort(j) \/ AbortRow(j)
    BY <1>0, <2>7 DEF Publish, PublishFailed, Abort, AbortRow
  <2> QED BY <1>1, <2>1, <2>2, <2>3, <2>4, <2>5, <2>6, <2>7 DEF DownloadStep
<1>2. ASSUME NEW j \in Jobs, SharedStep(j) \/ Throws(j) \/ Restart(j)
      PROVE  Enters(v)
  <2>1. CASE FailFinal(j)
    BY <1>0, <2>1 DEF FailFinal, InFlight
  <2>2. CASE ~FailFinal(j)
    <3>1. UNCHANGED copyState
      BY <1>2, <2>2 DEF SharedStep, Settle, FailRow, FailRetry, Finish, Restart, RunUnresumable, Writes,
         Throws, RecorderSwallows, ListenerSwallows, ListenerThrows, Dies, DownloadThrows, BareThrow, RejectSwallows,
         CaughtThrow, PointerLost, AbortSwallows, VerifyThrows
    <3> QED BY <1>0, <3>1
  <2> QED BY <2>1, <2>2
<1>3. ASSUME NEW j \in Verifies, VerifyStep(j)
      PROVE  Enters(v)
  <2>1. CASE ClaimVerify(j) \/ ReadVideo(j) \/ Probe(j)
    BY <1>0, <2>1 DEF ClaimVerify, ReadVideo, Probe
  <2>2. CASE Verdict(j)
    BY <1>0, <2>2 DEF Verdict, InFlight
  <2> QED BY <1>3, <2>1, <2>2 DEF VerifyStep
<1>4. ASSUME NEW j \in Jobs,
             \/ Pickup(j) \/ BackoffOver(j) \/ StallDetected(j) \/ StallFailed(j)
             \/ Listen(j) \/ LockLost(j)
      PROVE  Enters(v)
  <2>1. CASE \/ Pickup(j) \/ BackoffOver(j) \/ StallDetected(j) \/ StallFailed(j)
             \/ LockLost(j)
    BY <1>0, <2>1 DEF Pickup, Activate, BackoffOver, StallDetected, StallFailed, LockLost
  <2>2. CASE ListenRow(j) \/ ListenMark(j) \/ ListenOwners(j)
    BY <1>0, <2>2 DEF ListenRow, ListenMark, ListenOwners
  <2>3. CASE ListenVideo(j)
    BY <1>0, <2>3 DEF ListenVideo, InFlight
  <2>4. CASE ListenHeal(j)
    BY <1>0, <2>4 DEF ListenHeal, InFlight
  <2> QED BY <1>4, <2>1, <2>2, <2>3, <2>4 DEF Listen
<1>5. CASE Drain \/ Drained \/ Crash \/ BootFails \/ BootStep
  <2>1. ASSUME NEW u \in Videos, NEW to \in {"CANDIDATE", "FAILED"}, SweepVideo(u, to)
        PROVE  Enters(v)
    BY <1>0, <2>1 DEF SweepVideo, InFlight
  <2>2. CASE Drain \/ Drained \/ Crash \/ BootFails \/ Boot \/ NextList \/ Started
    <3>1. UNCHANGED copyState
      BY <2>2 DEF Drain, Drained, Crash, BootFails, Dies, Boot, NextList, ReadList, Started
    <3> QED BY <1>0, <3>1
  <2>3. ASSUME NEW i \in Jobs, NEW status \in {"QUEUED", "RUNNING"}, CheckRow(i, status) \/ ReAdd(i)
        PROVE  Enters(v)
    BY <1>0, <2>3 DEF CheckRow, HandBack, ReAdd
  <2> QED BY <1>5, <2>1, <2>2, <2>3 DEF BootStep
<1>6. ASSUME NEW r \in Requests, Ask(r) \/ Serve(r) \/ RequestFails(r)
      PROVE  Enters(v)
  <2>1. CASE UNCHANGED copyState
    BY <1>0, <2>1
  <2>2. CASE UndoVideo(r) \/ CancelHop(r)
    BY <1>0, <2>2 DEF UndoVideo, CancelHop, InFlight
  <2>3. ASSUME NEW u \in Videos, Enqueue(r, u)
        PROVE  Enters(v)
    BY <2>3, EnqueueEnters
  <2> QED BY <1>6, <2>1, <2>2, <2>3
      DEF Ask, Serve, RequestFails, Cancel, Pause, Command, Resume, AddExecution, UndoRow,
          RemoveExecution, RereadRow, Signal, CancelSettle, CancelWipe, CancelRead, PauseSettle,
          ResumeFree, ResumeTimeout, ResumeCas, ResumeAdd, ResumeUndo, AddRejected, ResumeRejected,
          SignalRejected, RequestDies
<1>7. ASSUME NEW m \in control, Deliver(m)
      PROVE  Enters(v)
  BY <1>0, <1>7 DEF Deliver
<1>8. CASE UNCHANGED vars
  BY <1>0, <1>8 DEF vars
<1> QED BY <1>1, <1>2, <1>3, <1>4, <1>5, <1>6, <1>7, <1>8 DEF Next, ExecutionStep

\* How a RUNNING row stops being one, and an active row gets its verdict.
RowLeaves(j) ==
    /\ jobStatus[j] = "RUNNING" /\ jobStatus'[j] # "RUNNING" =>
         \/ pc'[j] \in SettleSteps \cup {"abortHop"}
         \/ lpc[j] = "mark"
         \/ phase = "rows"
    /\ Active(j) /\ ~Active(j)' =>
         \/ pc[j] \in {"finish", "failRow"}
         \/ pc[j] = "begin" /\ seen[j] \notin InFlight /\ UNCHANGED copyState
         \/ pc[j] = "reread" /\ copyState[jobVideo[j]] # "DOWNLOADING" /\ UNCHANGED copyState
         \/ pc[j] = "abortRow" /\ pc'[j] = "abortHop"
         \/ lpc[j] = "mark" /\ lpc'[j] = "video"
         \/ \E r \in Requests : hjob'[r] = j /\ hpc'[r] = "cancelWipe"
         \/ \E r \in Requests : /\ hpc[r] = "undoRow" /\ hpc'[r] = "undoVideo"
                                /\ hjob[r] = j /\ hjob'[r] = j
                                /\ UNCHANGED copyState

\* The steps of process() for a video past QUEUED.
Working == {"prepare", "run", "publish", "advance", "abort", "abortRow", "failFinal", "failRetry"}

\* How process() of a download goes on.
ProcessMoves(j) ==
    \/ pc'[j] = pc[j] /\ seen'[j] = seen[j] /\ (Registered(j)' => Registered(j))
    \/ pc'[j] \in {"idle", "load", "abortHop"} \cup SettleSteps
    \/ pc[j] = "load" /\ pc'[j] = "claim" /\ seen'[j] = copyState[jobVideo[j]]
    \/ pc[j] = "load" /\ pc'[j] = "chain" /\ copyState[jobVideo[j]] \notin InFlight
         /\ (Registered(j)' => Registered(j))
    \/ pc[j] = "claim" /\ pc'[j] = "begin" /\ seen'[j] = seen[j] /\ jobStatus'[j] = "RUNNING"
    \/ /\ pc[j] = "begin" /\ pc'[j] = "prepare"
       /\ seen[j] = "DOWNLOADING" \/ copyState'[jobVideo[j]] = "DOWNLOADING"
    \/ pc[j] = "begin" /\ pc'[j] = "reread" /\ copyState'[jobVideo[j]] # "QUEUED"
    \/ pc[j] \in Working \cup {"reread"} /\ pc'[j] \in Working
    \/ pc[j] \in {"advance"} /\ pc'[j] \in {"chain", "finish"} /\ copyState'[jobVideo[j]] # "DOWNLOADING"
    \/ pc[j] = "failFinal" /\ pc'[j] = "failRow" /\ copyState'[jobVideo[j]] # "DOWNLOADING"
    \/ pc[j] \in {"chain", "chainAdd"} /\ pc'[j] \in {"chainAdd", "finish"}
         /\ (Registered(j)' => Registered(j))
    \/ pc[j] = "chainAdd" /\ pc'[j] \in Working /\ Registered(j)

\* How BullMQ stalls an execution, and who adds one.
QueueMoves(j) ==
    /\ bull'[j] = "stalled" =>
         \/ bull[j] = "stalled"
         \/ /\ bull[j] = "active" /\ pc[j] = "idle"
            /\ \A r \in Requests : hjob[r] = j => hpc[r] \notin BeforeQueue
    /\ bull[j] = "absent" /\ bull'[j] # "absent" =>
         \/ phase = "rows"
         \/ \E r \in Requests : hjob[r] = j /\ hpc[r] \in {"add", "resumeAdd"} /\ hpc'[r] = "idle"
    /\ lpc'[j] # "idle" => lpc[j] # "idle" \/ (bull[j] = "stalled" /\ bull'[j] = "absent")

\* Whoever is left to move a video on does, or is cut off with the worker.
Releases(j) ==
    LET v == jobVideo[j] IN
    \/ phase' = "down"
    \/ /\ pc[j] = "abortHop" => pc'[j] = "abortHop" \/ copyState'[v] # "DOWNLOADING"
       /\ lpc[j] = "video" =>
            \/ lpc'[j] = "video"
            \/ copyState'[v] # "DOWNLOADING" /\ (copyState'[v] = "QUEUED" => lpc'[j] = "owners")
       /\ lpc[j] = "owners" =>
            \/ lpc'[j] \in {"owners", "heal"}
            \/ ActiveDownloads(v) # {} /\ UNCHANGED <<jobStatus, jobVideo>>
       /\ lpc[j] = "heal" => lpc'[j] = "heal" \/ copyState'[v] # "QUEUED"

Census(j) == RowLeaves(j) /\ ProcessMoves(j) /\ QueueMoves(j) /\ Releases(j)

\* No statement throws and no lock is lost.
Faultless == Without({"db", "api", "lock"})

USE DEF Census, RowLeaves, ProcessMoves, QueueMoves, Releases, Working, InFlight

\* A download is moved by its own execution.
LEMMA SharedStepCensus ==
  ASSUME IInv, NEW i \in Jobs, SharedStep(i), NEW j \in Downloads
  PROVE  Census(j)
<1> USE JobsAssumption DEF Goto, Leave, MarkFinished, CasRow, TransitionCopy
<1>1. CASE Settle(i)
  BY <1>1 DEF Settle
<1>2. CASE FailFinal(i)
  BY <1>2 DEF FailFinal, WorkState
<1>3. CASE FailRow(i)
  BY <1>3 DEF FailRow
<1>4. CASE FailRetry(i)
  BY <1>4 DEF FailRetry, MarkRequeued
<1>5. CASE Finish(i)
  BY <1>5 DEF Finish
<1> QED BY <1>1, <1>2, <1>3, <1>4, <1>5 DEF SharedStep

\* The steps of process() of a download; one that chains adds a verify.
LEMMA DownloadStepCensus ==
  ASSUME IInv, NEW i \in Downloads, DownloadStep(i), NEW j \in Downloads
  PROVE  Census(j)
<1> USE JobsAssumption DEF Goto, Leave, MarkFinished, CasRow, TransitionCopy
<1>1. CASE Load(i)
  BY <1>1 DEF Load
<1>2. CASE ClaimDownload(i)
  BY <1>2 DEF ClaimDownload, Claim
<1>3. CASE Begin(i)
  BY <1>3 DEF Begin, Reject
<1>4. CASE Reread(i)
  BY <1>4 DEF Reread, Reject
<1>5. CASE Prepare(i) \/ RunAborted(i) \/ RunSucceeded(i)
  BY <1>5 DEF Prepare, RunAborted, RunSucceeded
<1>6. CASE RunFailed(i) \/ Publish(i) \/ PublishFailed(i)
  BY <1>6 DEF RunFailed, Publish, PublishFailed, CatchStep
<1>7. CASE Advance(i)
  BY <1>7 DEF Advance
<1>8. CASE Chain(i)
  <2>1. PICK k \in Verifies : NextId(k, Verifies) /\ CreateRow(k, jobVideo[i])
    BY <1>8 DEF Chain
  <2>2. /\ pc[i] = "chain" /\ pc' = [pc EXCEPT ![i] = "chainAdd"]
        /\ \A d \in Downloads : jobStatus'[d] = jobStatus[d]
        /\ UNCHANGED <<seen, ctl, copyState, bull, lpc, phase>>
    BY <1>8, <2>1 DEF Chain, CreateRow
  <2> QED BY <2>2
<1>9. CASE ChainAdd(i)
  <2>1. /\ pc[i] = "chainAdd" /\ pc' = [pc EXCEPT ![i] = "finish"]
        /\ \A d \in Downloads : bull'[d] = bull[d]
        /\ UNCHANGED <<seen, ctl, copyState, jobStatus, lpc, phase>>
    BY <1>9 DEF ChainAdd, QueueAdd
  <2> QED BY <2>1
<1>10. CASE Abort(i)
  BY <1>10 DEF Abort, MarkRequeued, MarkPaused
<1>11. CASE AbortRow(i)
  BY <1>11 DEF AbortRow
<1>12. CASE AbortHop(i)
  BY <1>12 DEF AbortHop
<1> QED BY <1>1, <1>2, <1>3, <1>4, <1>5, <1>6, <1>7, <1>8, <1>9, <1>10, <1>11, <1>12 DEF DownloadStep

\* A verify moves no download.
LEMMA VerifyStepCensus ==
  ASSUME IInv, NEW i \in Verifies, VerifyStep(i), NEW j \in Downloads
  PROVE  Census(j)
<1> USE JobsAssumption DEF Goto, Leave, MarkFinished, CasRow, TransitionCopy
<1>1. CASE ClaimVerify(i)
  BY <1>1 DEF ClaimVerify
<1>2. CASE ReadVideo(i)
  BY <1>2 DEF ReadVideo
<1>3. CASE Probe(i)
  BY <1>3 DEF Probe
<1>4. CASE Verdict(i)
  BY <1>4 DEF Verdict
<1> QED BY <1>1, <1>2, <1>3, <1>4 DEF VerifyStep

\* Without a refused statement only the add of a verify throws.
LEMMA ThrowsCensus ==
  ASSUME IInv, NEW i \in Jobs, Throws(i) \/ Restart(i), Faultless', NEW j \in Downloads
  PROVE  Census(j)
<1> USE JobsAssumption DEF Goto, Leave
<1>1. ~Fault("db")
  BY DEF Fault, Faultless
<1>2. CASE Restart(i)
  BY <1>2 DEF Restart, RunUnresumable, Writes
<1>3. CASE BareThrow(i) \/ RejectSwallows(i)
  BY <1>1, <1>3 DEF BareThrow, RejectSwallows
<1>4. CASE CaughtThrow(i)
  BY <1>1, <1>4 DEF CaughtThrow, CatchStep
<1> QED BY <1>1, <1>2, <1>3, <1>4
    DEF Throws, RecorderSwallows, ListenerSwallows, ListenerThrows, DownloadThrows, PointerLost,
        AbortSwallows, VerifyThrows

\* BullMQ and the listener.
LEMMA BullStepCensus ==
  ASSUME IInv, NEW i \in Jobs, NEW j \in Downloads, Faultless',
         \/ Pickup(i) \/ BackoffOver(i) \/ StallDetected(i) \/ StallFailed(i)
         \/ Listen(i) \/ LockLost(i)
  PROVE  Census(j)
<1> USE JobsAssumption DEF Goto, MarkFinished, CasRow, TransitionCopy
<1>1. CASE Pickup(i)
  BY <1>1 DEF Pickup, Activate
<1>2. CASE BackoffOver(i)
  BY <1>2 DEF BackoffOver
<1>3. CASE StallDetected(i)
  BY <1>3 DEF StallDetected
<1>4. CASE StallFailed(i)
  BY <1>4 DEF StallFailed
<1>5. CASE ListenRow(i)
  BY <1>5 DEF ListenRow
<1>6. CASE ListenMark(i)
  BY <1>6 DEF ListenMark
<1>7. CASE ListenVideo(i)
  BY <1>7 DEF ListenVideo, WorkState
<1>8. CASE ListenOwners(i)
  BY <1>8 DEF ListenOwners, ActiveDownloads
<1>9. CASE ListenHeal(i)
  BY <1>9 DEF ListenHeal
<1>10. CASE LockLost(i)
  BY <1>10 DEF LockLost, Fault, Faultless
<1> QED BY <1>1, <1>2, <1>3, <1>4, <1>5, <1>6, <1>7, <1>8, <1>9, <1>10 DEF Listen

\* The worker process.
LEMMA ProcessCensus ==
  ASSUME IInv, NEW j \in Downloads, Drain \/ Drained \/ Crash \/ BootFails \/ BootStep
  PROVE  Census(j)
<1> USE JobsAssumption
<1>1. CASE Drain
  BY <1>1 DEF Drain
<1>2. CASE Drained \/ Crash \/ BootFails
  BY <1>2 DEF Drained, Crash, BootFails, Dies, Stopped
<1>3. CASE Boot \/ Started \/ NextList
  BY <1>3 DEF Boot, Started, NextList, ReadList
<1>4. ASSUME NEW i \in Jobs, NEW status \in {"QUEUED", "RUNNING"}, CheckRow(i, status)
      PROVE  Census(j)
  BY <1>4 DEF CheckRow, HandBack, MarkRequeued, CasRow
<1>5. ASSUME NEW i \in Jobs, ReAdd(i)
      PROVE  Census(j)
  BY <1>5 DEF ReAdd, QueueAdd
<1>6. ASSUME NEW v \in Videos, NEW to \in {"CANDIDATE", "FAILED"}, SweepVideo(v, to)
      PROVE  Census(j)
  BY <1>6 DEF SweepVideo
<1> HIDE DEF Census
<1> QED BY <1>1, <1>2, <1>3, <1>4, <1>5, <1>6 DEF BootStep

\* What a request may do.
Resuming == {"resumeWait", "resumeCas", "resumeAdd", "resumeUndo"}

\* A request adds the execution of a row it created, or of one it was asked to
\* resume; a compensation follows a rejected add; and whoever has canceled or
\* undone a row moves its video on.
Requested(r) ==
    LET v == jobVideo[hjob[r]] IN
    /\ hpc'[r] \in Resuming => hpc[r] \in Resuming \/ "resume" \in Asks
    /\ hpc'[r] = "add" =>
         \/ hpc[r] = "add" /\ hjob'[r] = hjob[r]
         \/ ~Exists(hjob'[r]) /\ copyState'[jobVideo'[hjob'[r]]] = "QUEUED"
    /\ hpc'[r] = "undoRow" =>
         hpc[r] \in {"add", "undoRow"} /\ hjob'[r] = hjob[r] /\ (hpc[r] = "add" => faults'["redis"] > 0)
    /\ hpc'[r] = "undoVideo" => hpc[r] \in {"undoRow", "undoVideo"}
    /\ hpc[r] = "cancelWipe" => hpc'[r] \in {"cancelWipe", "cancelRead"} /\ hjob'[r] = hjob[r]
    /\ hpc[r] = "cancelRead" =>
         \/ hpc'[r] = "cancelRead" /\ hjob'[r] = hjob[r]
         \/ hpc'[r] = "cancelHop" /\ hjob'[r] = hjob[r] /\ hfrom'[r] = copyState'[v]
         \/ copyState'[v] \notin InFlight
    /\ hpc[r] = "cancelHop" =>
         \/ hpc'[r] = "cancelHop" /\ hjob'[r] = hjob[r] /\ hfrom'[r] = hfrom[r]
         \/ copyState'[v] # hfrom[r]
    /\ hpc[r] = "undoVideo" =>
         \/ hpc'[r] = "undoVideo" /\ hjob'[r] = hjob[r]
         \/ copyState'[v] # "QUEUED"

\* Only one request moves.
OneMoves ==
    \A r, q \in Requests :
       r = q \/ UNCHANGED <<hpc[r], hjob[r]>> \/ UNCHANGED <<hpc[q], hjob[q]>>

\* What a step may do to downloads and requests.
Moves ==
    /\ \A j \in Downloads : Census(j)
    /\ \A r \in Requests : Requested(r)
    /\ OneMoves

\* What a request does to the others, to the rows, and to the queue.
Alone(q) ==
    /\ \A r \in Requests \ {q} : UNCHANGED <<hpc[r], hjob[r], hfrom[r]>>
    /\ UNCHANGED <<pc, seen, ctl, lpc, phase>>

RowsOf(q) ==
    \A j \in Downloads :
       \/ jobStatus'[j] = jobStatus[j]
       \/ /\ jobStatus[j] # "RUNNING"
          /\ \/ jobStatus'[j] \in ActiveStatuses
             \/ hjob'[q] = j /\ hpc'[q] = "cancelWipe"
             \/ /\ hpc[q] = "undoRow" /\ hpc'[q] = "undoVideo"
                /\ hjob[q] = j /\ hjob'[q] = j
                /\ UNCHANGED copyState

QueueOf(q) ==
    \A j \in Downloads :
       \/ bull'[j] = bull[j]
       \/ bull'[j] = "absent"
       \/ /\ bull'[j] = "waiting" /\ hjob[q] = j
          /\ hpc[q] \in {"add", "resumeAdd"} /\ hpc'[q] = "idle"

\* A request leaves the executions and the other requests where they are.
LEMMA RequestMoves ==
  ASSUME NEW q \in Requests, Alone(q), RowsOf(q), QueueOf(q), Requested(q)
  PROVE  Moves
<1> USE DEF Alone, RowsOf, QueueOf
<1>1. ASSUME NEW j \in Downloads
      PROVE  Census(j)
  <2>1. RowLeaves(j)
    OBVIOUS
  <2>2. ProcessMoves(j) /\ QueueMoves(j)
    OBVIOUS
  <2>3. Releases(j)
    OBVIOUS
  <2> QED BY <2>1, <2>2, <2>3
<1>2. ASSUME NEW r \in Requests \ {q}
      PROVE  Requested(r)
  BY DEF Requested
<1>3. OneMoves
  BY DEF OneMoves
<1> QED BY <1>1, <1>2, <1>3 DEF Moves

HIDE DEF Census, RowLeaves, ProcessMoves, QueueMoves, Releases, Working
USE DEF Alone, RowsOf, QueueOf, Requested, Resuming

\* A new request starts at its first statement and touches no other.
LEMMA AskCensus ==
  ASSUME IInv, NEW q \in Requests, Ask(q)
  PROVE  Moves
<1> USE JobsAssumption DEF Start
<1>1. CASE \E v \in Videos : Enqueue(q, v)
  <2>1. Alone(q)
    BY <1>1 DEF Enqueue, NextId, CreateRow
  <2>2. RowsOf(q)
    BY <1>1 DEF Enqueue, NextId, CreateRow
  <2>3. QueueOf(q)
    BY <1>1 DEF Enqueue, NextId, CreateRow
  <2>4. Requested(q)
    BY <1>1 DEF Enqueue, NextId, CreateRow
  <2> QED BY <2>1, <2>2, <2>3, <2>4, RequestMoves
<1>2. CASE \E j \in Downloads : Cancel(q, j) \/ Pause(q, j)
  <2>1. Alone(q)
    BY <1>2 DEF Cancel, Pause, Command
  <2>2. RowsOf(q)
    BY <1>2 DEF Cancel, Pause, Command
  <2>3. QueueOf(q)
    BY <1>2 DEF Cancel, Pause, Command
  <2>4. Requested(q)
    BY <1>2 DEF Cancel, Pause, Command
  <2> QED BY <2>1, <2>2, <2>3, <2>4, RequestMoves
<1>3. CASE "resume" \in Asks /\ \E j \in Downloads : Resume(q, j)
  <2>1. Alone(q)
    BY <1>3 DEF Resume
  <2>2. RowsOf(q)
    BY <1>3 DEF Resume
  <2>3. QueueOf(q)
    BY <1>3 DEF Resume
  <2>4. Requested(q)
    BY <1>3 DEF Resume
  <2> QED BY <2>1, <2>2, <2>3, <2>4, RequestMoves
<1> QED BY <1>1, <1>2, <1>3 DEF Ask

\* A request goes on, or meets the broker's failure.
LEMMA ServeCensus ==
  ASSUME IInv, NEW q \in Requests, Serve(q) \/ RequestFails(q), Faultless'
  PROVE  Moves
<1> USE JobsAssumption DEF Then, Answer, CasRow, TransitionCopy, QueueAdd, Fault
<1>1. CASE AddExecution(q)
  <2>1. Alone(q)
    BY <1>1 DEF AddExecution
  <2>2. RowsOf(q)
    BY <1>1 DEF AddExecution
  <2>3. QueueOf(q)
    BY <1>1 DEF AddExecution
  <2>4. Requested(q)
    BY <1>1 DEF AddExecution
  <2> QED BY <2>1, <2>2, <2>3, <2>4, RequestMoves
<1>2. CASE UndoRow(q)
  <2>1. Alone(q)
    BY <1>2 DEF UndoRow
  <2>2. RowsOf(q)
    BY <1>2 DEF UndoRow
  <2>3. QueueOf(q)
    BY <1>2 DEF UndoRow
  <2>4. Requested(q)
    BY <1>2 DEF UndoRow
  <2> QED BY <2>1, <2>2, <2>3, <2>4, RequestMoves
<1>3. CASE UndoVideo(q)
  <2>1. Alone(q)
    BY <1>3 DEF UndoVideo
  <2>2. RowsOf(q)
    BY <1>3 DEF UndoVideo
  <2>3. QueueOf(q)
    BY <1>3 DEF UndoVideo
  <2>4. Requested(q)
    <3>1. hpc[q] = "undoVideo" /\ hpc'[q] = "idle" /\ jobVideo[hjob[q]] \in Videos
      BY <1>3 DEF UndoVideo
    <3>2. copyState'[jobVideo[hjob[q]]] # "QUEUED"
      BY <1>3, <3>1 DEF UndoVideo
    <3> QED BY <3>1, <3>2
  <2> QED BY <2>1, <2>2, <2>3, <2>4, RequestMoves
<1>4. CASE RemoveExecution(q, "cancelRemove", "cancelSettle") \/ RemoveExecution(q, "pauseRemove", "pauseSettle")
  <2>1. Alone(q)
    BY <1>4 DEF RemoveExecution
  <2>2. RowsOf(q)
    BY <1>4 DEF RemoveExecution
  <2>3. QueueOf(q)
    BY <1>4 DEF RemoveExecution
  <2>4. Requested(q)
    BY <1>4 DEF RemoveExecution
  <2> QED BY <2>1, <2>2, <2>3, <2>4, RequestMoves
<1>5. CASE RereadRow(q, "cancelReread", "signalCancel") \/ RereadRow(q, "pauseReread", "signalPause")
  <2>1. Alone(q)
    BY <1>5 DEF RereadRow
  <2>2. RowsOf(q)
    BY <1>5 DEF RereadRow
  <2>3. QueueOf(q)
    BY <1>5 DEF RereadRow
  <2>4. Requested(q)
    BY <1>5 DEF RereadRow
  <2> QED BY <2>1, <2>2, <2>3, <2>4, RequestMoves
<1>6. CASE Signal(q)
  <2>1. Alone(q)
    BY <1>6 DEF Signal
  <2>2. RowsOf(q)
    BY <1>6 DEF Signal
  <2>3. QueueOf(q)
    BY <1>6 DEF Signal
  <2>4. Requested(q)
    BY <1>6 DEF Signal
  <2> QED BY <2>1, <2>2, <2>3, <2>4, RequestMoves
<1>7. CASE CancelSettle(q)
  <2>1. Alone(q)
    BY <1>7 DEF CancelSettle, Cancelable
  <2>2. RowsOf(q)
    BY <1>7 DEF CancelSettle, Cancelable
  <2>3. QueueOf(q)
    BY <1>7 DEF CancelSettle, Cancelable
  <2>4. Requested(q)
    BY <1>7 DEF CancelSettle, Cancelable
  <2> QED BY <2>1, <2>2, <2>3, <2>4, RequestMoves
<1>8. CASE CancelWipe(q)
  <2>1. Alone(q)
    BY <1>8 DEF CancelWipe
  <2>2. RowsOf(q)
    BY <1>8 DEF CancelWipe
  <2>3. QueueOf(q)
    BY <1>8 DEF CancelWipe
  <2>4. Requested(q)
    BY <1>8 DEF CancelWipe
  <2> QED BY <2>1, <2>2, <2>3, <2>4, RequestMoves
<1>9. CASE CancelRead(q)
  <2>1. Alone(q)
    BY <1>9 DEF CancelRead
  <2>2. RowsOf(q)
    BY <1>9 DEF CancelRead
  <2>3. QueueOf(q)
    BY <1>9 DEF CancelRead
  <2>4. Requested(q)
    BY <1>9 DEF CancelRead
  <2> QED BY <2>1, <2>2, <2>3, <2>4, RequestMoves
<1>10. CASE CancelHop(q)
  <2>1. Alone(q)
    BY <1>10 DEF CancelHop
  <2>2. RowsOf(q)
    BY <1>10 DEF CancelHop
  <2>3. QueueOf(q)
    BY <1>10 DEF CancelHop
  <2>4. Requested(q)
    <3>1. hpc[q] = "cancelHop" /\ hpc'[q] = "idle" /\ jobVideo[hjob[q]] \in Videos
      BY <1>10 DEF CancelHop
    <3>2. copyState'[jobVideo[hjob[q]]] # hfrom[q]
      BY <1>10, <3>1 DEF CancelHop
    <3> QED BY <3>1, <3>2
  <2> QED BY <2>1, <2>2, <2>3, <2>4, RequestMoves
<1>11. CASE PauseSettle(q)
  <2>1. Alone(q)
    BY <1>11 DEF PauseSettle, Pausable
  <2>2. RowsOf(q)
    BY <1>11 DEF PauseSettle, Pausable
  <2>3. QueueOf(q)
    BY <1>11 DEF PauseSettle, Pausable
  <2>4. Requested(q)
    BY <1>11 DEF PauseSettle, Pausable
  <2> QED BY <2>1, <2>2, <2>3, <2>4, RequestMoves
<1>12. CASE ResumeFree(q) \/ ResumeTimeout(q)
  <2>1. Alone(q)
    BY <1>12 DEF ResumeFree, ResumeTimeout
  <2>2. RowsOf(q)
    BY <1>12 DEF ResumeFree, ResumeTimeout
  <2>3. QueueOf(q)
    BY <1>12 DEF ResumeFree, ResumeTimeout
  <2>4. Requested(q)
    BY <1>12 DEF ResumeFree, ResumeTimeout
  <2> QED BY <2>1, <2>2, <2>3, <2>4, RequestMoves
<1>13. CASE ResumeCas(q)
  <2>1. Alone(q)
    BY <1>13 DEF ResumeCas
  <2>2. RowsOf(q)
    BY <1>13 DEF ResumeCas
  <2>3. QueueOf(q)
    BY <1>13 DEF ResumeCas
  <2>4. Requested(q)
    BY <1>13 DEF ResumeCas
  <2> QED BY <2>1, <2>2, <2>3, <2>4, RequestMoves
<1>14. CASE ResumeAdd(q)
  <2>1. Alone(q)
    BY <1>14 DEF ResumeAdd
  <2>2. RowsOf(q)
    BY <1>14 DEF ResumeAdd
  <2>3. QueueOf(q)
    BY <1>14 DEF ResumeAdd
  <2>4. Requested(q)
    BY <1>14 DEF ResumeAdd
  <2> QED BY <2>1, <2>2, <2>3, <2>4, RequestMoves
<1>15. CASE ResumeUndo(q)
  <2>1. Alone(q)
    BY <1>15 DEF ResumeUndo
  <2>2. RowsOf(q)
    BY <1>15 DEF ResumeUndo
  <2>3. QueueOf(q)
    BY <1>15 DEF ResumeUndo
  <2>4. Requested(q)
    BY <1>15 DEF ResumeUndo
  <2> QED BY <2>1, <2>2, <2>3, <2>4, RequestMoves
<1>16. CASE AddRejected(q) \/ ResumeRejected(q)
  <2>1. Alone(q)
    BY <1>16 DEF AddRejected, ResumeRejected
  <2>2. RowsOf(q)
    BY <1>16 DEF AddRejected, ResumeRejected
  <2>3. QueueOf(q)
    BY <1>16 DEF AddRejected, ResumeRejected
  <2>4. Requested(q)
    BY <1>16 DEF AddRejected, ResumeRejected
  <2> QED BY <2>1, <2>2, <2>3, <2>4, RequestMoves
<1>17. CASE SignalRejected(q)
  <2>1. Alone(q)
    BY <1>17 DEF SignalRejected
  <2>2. RowsOf(q)
    BY <1>17 DEF SignalRejected
  <2>3. QueueOf(q)
    BY <1>17 DEF SignalRejected
  <2>4. Requested(q)
    BY <1>17 DEF SignalRejected
  <2> QED BY <2>1, <2>2, <2>3, <2>4, RequestMoves
<1>18. ~RequestDies(q)
  BY DEF RequestDies, Faultless
<1> QED BY <1>1, <1>2, <1>3, <1>4, <1>5, <1>6, <1>7, <1>8, <1>9,
          <1>10, <1>11, <1>12, <1>13, <1>14, <1>15, <1>16, <1>17, <1>18 DEF Serve, RequestFails

HIDE DEF Alone, RowsOf, QueueOf
USE DEF Census, RowLeaves, ProcessMoves, QueueMoves, Releases, Working, OneMoves, Moves

\* A step of the worker leaves every request where it is.
LEMMA RequestsStay ==
  ASSUME UNCHANGED apiVars, \A j \in Downloads : Census(j)
  PROVE  Moves
OBVIOUS

\* The census holds of every step that adds no statement failure.
LEMMA NextMoves ==
  ASSUME IInv, [Next]_vars, Faultless'
  PROVE  Moves
<1>1. ASSUME NEW i \in Jobs, ExecutionStep(i)
      PROVE  Moves
  <2> HIDE DEF Census
  <2>1. \A j \in Downloads : Census(j)
    BY <1>1, SharedStepCensus, DownloadStepCensus, VerifyStepCensus DEF ExecutionStep
  <2>2. UNCHANGED apiVars
    BY <1>1 DEF ExecutionStep, SharedStep, Settle, FailFinal, FailRow, FailRetry, Finish,
       DownloadStep, Load, ClaimDownload, Claim, Begin, Reread, Prepare, RunAborted, RunFailed,
       RunSucceeded, Publish, PublishFailed, Advance, Chain, ChainAdd, Abort, AbortRow, AbortHop,
       VerifyStep, ClaimVerify, ReadVideo, Probe, Verdict
  <2> QED BY <2>1, <2>2, RequestsStay
<1>2. ASSUME NEW i \in Jobs, Restart(i) \/ Throws(i)
      PROVE  Moves
  <2> HIDE DEF Census
  <2>1. \A j \in Downloads : Census(j)
    BY <1>2, ThrowsCensus
  <2>2. UNCHANGED apiVars
    BY <1>2 DEF Restart, RunUnresumable, Writes, Throws, RecorderSwallows, ListenerSwallows, ListenerThrows, Dies,
       DownloadThrows, BareThrow, RejectSwallows, CaughtThrow, PointerLost, AbortSwallows, VerifyThrows
  <2> QED BY <2>1, <2>2, RequestsStay
<1>3. ASSUME NEW i \in Jobs,
             \/ Pickup(i) \/ BackoffOver(i) \/ StallDetected(i) \/ StallFailed(i)
             \/ Listen(i) \/ LockLost(i)
      PROVE  Moves
  <2> HIDE DEF Census
  <2>1. \A j \in Downloads : Census(j)
    BY <1>3, BullStepCensus
  <2>2. UNCHANGED apiVars
    BY <1>3 DEF Pickup, Activate, BackoffOver, StallDetected, StallFailed, LockLost, Listen,
       ListenRow, ListenMark, ListenVideo, ListenOwners, ListenHeal
  <2> QED BY <2>1, <2>2, RequestsStay
<1>4. CASE Drain \/ Drained \/ Crash \/ BootFails \/ BootStep
  <2> HIDE DEF Census
  <2>1. \A j \in Downloads : Census(j)
    BY <1>4, ProcessCensus
  <2>2. UNCHANGED apiVars
    BY <1>4 DEF Drain, Drained, Crash, BootFails, Dies, BootStep, Boot, CheckRow, HandBack, ReAdd, NextList,
       ReadList, SweepVideo, Started
  <2> QED BY <2>1, <2>2, RequestsStay
<1>5. ASSUME NEW q \in Requests, Ask(q) \/ Serve(q) \/ RequestFails(q)
      PROVE  Moves
  BY <1>5, AskCensus, ServeCensus
<1>6. ASSUME NEW m \in control, Deliver(m)
      PROVE  Moves
  <2>1. \A j \in Downloads : Census(j)
    BY <1>6 DEF Deliver
  <2> QED BY <1>6, <2>1, RequestsStay DEF Deliver
<1>7. CASE UNCHANGED vars
  <2>1. \A j \in Downloads : Census(j)
    BY <1>7 DEF vars
  <2> QED BY <1>7, <2>1, RequestsStay DEF vars
<1> HIDE DEF Moves
<1> QED BY <1>1, <1>2, <1>3, <1>4, <1>5, <1>6, <1>7 DEF Next

-----------------------------------------------------------------------------
\* The life of the worker and the lists of a boot

\* The list of a boot names v.
Listed(v) == \E to \in {"CANDIDATE", "FAILED"} : <<v, to>> \in videoTodo

BootPhases == {"down", "rows", "downloading", "queued"}

Sweeps(v) ==
    \/ phase' \in {"down", "rows"}
    \/ phase \notin BootPhases /\ phase' \notin BootPhases
    \/ /\ phase' = phase
       /\ Listed(v) /\ ~Listed(v)' =>
            /\ phase = "downloading" => copyState'[v] # "DOWNLOADING"
            /\ phase = "queued" => copyState'[v] # "QUEUED"
    \/ /\ phase = "rows" /\ phase' = "downloading"
       /\ copyState'[v] = "DOWNLOADING" => ActiveDownloads(v)' # {} \/ Listed(v)'
    \/ /\ phase = "downloading" /\ phase' = "queued" /\ ~Listed(v) /\ UNCHANGED copyState
       /\ copyState'[v] = "QUEUED" => ActiveDownloads(v)' # {} \/ Listed(v)'
    \/ phase = "queued" /\ phase' = "verifying" /\ ~Listed(v) /\ UNCHANGED copyState

\* The worker is up until it is stopped or dies, and what happened has happened.
Lives ==
    /\ \A k \in FaultKinds : faults'[k] >= faults[k]
    /\ phase = "up" => phase' = "up" \/ faults'["crash"] > 0 \/ faults'["drain"] > 0

\* The worker goes only by a drain or a crash, and failures only add up.
LEMMA NextLives ==
  ASSUME IInv, [Next]_vars, Faultless'
  PROVE  Lives
<1> USE DEF Lives
<1>9. UNCHANGED <<phase, faults>> => Lives
  OBVIOUS
<1>0. ~Fault("db") /\ \A k \in FaultKinds : Fault(k) => \A i \in FaultKinds : faults'[i] >= faults[i]
  BY DEF Fault, Faultless
<1>1. ASSUME NEW i \in Jobs, ExecutionStep(i)
      PROVE  Lives
    BY <1>9, <1>1 DEF ExecutionStep, SharedStep, Settle, FailFinal, FailRow, FailRetry, Finish,
       DownloadStep, Load, ClaimDownload, Claim, Begin, Reread, Prepare, RunAborted, RunFailed,
       RunSucceeded, Publish, PublishFailed, Advance, Chain, ChainAdd, Abort, AbortRow, AbortHop,
       VerifyStep, ClaimVerify, ReadVideo, Probe, Verdict
<1>2. ASSUME NEW i \in Jobs, Restart(i) \/ Throws(i)
      PROVE  Lives
    BY <1>0, <1>2 DEF Restart, RunUnresumable, Writes, Throws, RecorderSwallows, ListenerSwallows, ListenerThrows,
       DownloadThrows, BareThrow, RejectSwallows, CaughtThrow, PointerLost, AbortSwallows, VerifyThrows
<1>3. ASSUME NEW i \in Jobs,
             \/ Pickup(i) \/ BackoffOver(i) \/ StallDetected(i) \/ StallFailed(i)
             \/ Listen(i) \/ LockLost(i)
      PROVE  Lives
  <2>1. UNCHANGED <<phase, faults>> \/ (UNCHANGED phase /\ Fault("lock"))
    BY <1>3 DEF Pickup, Activate, BackoffOver, StallDetected, StallFailed, LockLost, Listen,
       ListenRow, ListenMark, ListenVideo, ListenOwners, ListenHeal
  <2> QED BY <1>9, <1>0, <2>1
<1>4. CASE Drain \/ Drained \/ Crash \/ BootFails \/ BootStep
  <2>1. CASE Drain
    BY <1>0, <2>1 DEF Drain, Fault
  <2>2. CASE Crash \/ BootFails
    BY <1>0, <2>2 DEF Crash, BootFails, Dies, Fault
  <2>3. CASE Drained \/ BootStep
    <3>1. phase # "up" /\ UNCHANGED faults
      BY <2>3 DEF Drained, BootStep, Boot, CheckRow, HandBack, ReAdd, NextList, ReadList, SweepVideo, Started
    <3> QED BY <3>1
  <2> QED BY <1>4, <2>1, <2>2, <2>3
<1>5. ASSUME NEW q \in Requests, Ask(q) \/ Serve(q) \/ RequestFails(q)
      PROVE  Lives
  <2>1. UNCHANGED phase
    BY <1>5, AskFrame, ServeFrame DEF ApiFrame
  <2>2. UNCHANGED faults \/ \E k \in FaultKinds : Fault(k)
    BY <1>5 DEF Ask, Serve, RequestFails, Enqueue, Cancel, Pause, Command, Resume, AddExecution, UndoRow, UndoVideo,
       RemoveExecution, RereadRow, Signal, CancelSettle, CancelWipe, CancelRead, CancelHop, PauseSettle,
       ResumeFree, ResumeTimeout, ResumeCas, ResumeAdd, ResumeUndo, AddRejected, ResumeRejected,
       SignalRejected, RequestDies
  <2> QED BY <1>0, <2>1, <2>2
<1>6. ASSUME NEW m \in control, Deliver(m)
      PROVE  Lives
  BY <1>9, <1>6 DEF Deliver
<1>7. CASE UNCHANGED vars
  BY <1>9, <1>7 DEF vars
<1> HIDE DEF Lives
<1> QED BY <1>1, <1>2, <1>3, <1>4, <1>5, <1>6, <1>7 DEF Next

\* A boot leaves no list before its videos are swept.
LEMMA NextSweeps ==
  ASSUME IInv, [Next]_vars, NEW v \in Videos
  PROVE  Sweeps(v)
<1> USE DEF Sweeps, BootPhases
<1>0. UNCHANGED <<phase, videoTodo>> => Sweeps(v)
  BY DEF Listed
<1>1. ASSUME NEW i \in Jobs, ExecutionStep(i)
      PROVE  Sweeps(v)
    BY <1>0, <1>1 DEF ExecutionStep, SharedStep, Settle, FailFinal, FailRow, FailRetry, Finish,
       DownloadStep, Load, ClaimDownload, Claim, Begin, Reread, Prepare, RunAborted, RunFailed,
       RunSucceeded, Publish, PublishFailed, Advance, Chain, ChainAdd, Abort, AbortRow, AbortHop,
       VerifyStep, ClaimVerify, ReadVideo, Probe, Verdict
<1>2. ASSUME NEW i \in Jobs, Restart(i) \/ Throws(i)
      PROVE  Sweeps(v)
  <2>1. UNCHANGED <<phase, videoTodo>> \/ phase' = "down"
    BY <1>2 DEF Restart, RunUnresumable, Writes, Throws, RecorderSwallows, ListenerSwallows, ListenerThrows, Dies,
       Stopped, DownloadThrows, BareThrow, RejectSwallows, CaughtThrow, PointerLost, AbortSwallows, VerifyThrows
  <2> QED BY <1>0, <2>1
<1>3. ASSUME NEW i \in Jobs,
             \/ Pickup(i) \/ BackoffOver(i) \/ StallDetected(i) \/ StallFailed(i)
             \/ Listen(i) \/ LockLost(i)
      PROVE  Sweeps(v)
    BY <1>0, <1>3 DEF Pickup, Activate, BackoffOver, StallDetected, StallFailed, LockLost, Listen,
       ListenRow, ListenMark, ListenVideo, ListenOwners, ListenHeal
<1>4. CASE Drain \/ Drained \/ Crash \/ BootFails \/ Boot \/ Started
    BY <1>4 DEF Drain, Drained, Crash, BootFails, Dies, Stopped, Boot, Started
<1>5. ASSUME NEW i \in Jobs, NEW status \in {"QUEUED", "RUNNING"}, CheckRow(i, status) \/ ReAdd(i)
      PROVE  Sweeps(v)
  BY <1>0, <1>5 DEF CheckRow, HandBack, ReAdd
<1>6. CASE NextList
  <2>1. ASSUME NEW state \in {"QUEUED", "DOWNLOADING"}, NEW next \in Phases,
               ReadList(next, state), copyState[v] = state, ActiveDownloads(v) = {}
        PROVE  Listed(v)'
    <3>1. videoTodo' = Zombies(state)
      BY <2>1 DEF ReadList
    <3>2. \E to \in {"CANDIDATE", "FAILED"} : <<v, to>> \in Zombies(state)
      BY <2>1 DEF Zombies, Owners
    <3> QED BY <3>1, <3>2 DEF Listed
  <2>2. ASSUME NEW state \in CopyStates, NEW next \in Phases, ReadList(next, state)
        PROVE  phase' = next /\ UNCHANGED <<jobStatus, jobVideo, copyState>>
    BY <2>2 DEF ReadList
  <2>3. videoTodo = {} => ~Listed(v)
    BY DEF Listed
  <2>4. CASE phase = "rows" /\ ReadList("downloading", "DOWNLOADING")
    BY <2>1, <2>2, <2>4 DEF CopyStates, Lifecycle!CopyStates, ActiveDownloads
  <2>5. CASE phase = "downloading" /\ videoTodo = {} /\ ReadList("queued", "QUEUED")
    BY <2>1, <2>2, <2>3, <2>5 DEF CopyStates, Lifecycle!CopyStates, ActiveDownloads
  <2>6. CASE phase = "queued" /\ videoTodo = {} /\ ReadList("verifying", "VERIFYING")
    BY <2>2, <2>3, <2>6 DEF CopyStates, Lifecycle!CopyStates
  <2> QED BY <1>6, <2>4, <2>5, <2>6 DEF NextList
<1>7. ASSUME NEW u \in Videos, NEW to \in {"CANDIDATE", "FAILED"}, SweepVideo(u, to)
      PROVE  Sweeps(v)
  <2>1. /\ phase' = phase
        /\ v # u /\ Listed(v) => Listed(v)'
    BY <1>7 DEF SweepVideo, Listed
  <2>2. copyState'[u] # SweptState
    BY <1>7 DEF SweepVideo, TransitionCopy, SweptState
  <2> QED BY <2>1, <2>2 DEF SweptState
<1>8. ASSUME NEW q \in Requests, Ask(q) \/ Serve(q) \/ RequestFails(q)
      PROVE  Sweeps(v)
  <2>1. UNCHANGED <<phase, videoTodo>>
    BY <1>8, AskFrame, ServeFrame DEF ApiFrame
  <2> QED BY <1>0, <2>1
<1>9. ASSUME NEW m \in control, Deliver(m)
      PROVE  Sweeps(v)
  BY <1>0, <1>9 DEF Deliver
<1>10. CASE UNCHANGED vars
  BY <1>0, <1>10 DEF vars
<1> HIDE DEF Sweeps
<1> QED BY <1>1, <1>2, <1>3, <1>4, <1>5, <1>6, <1>7, <1>8, <1>9, <1>10 DEF Next, BootStep

HIDE DEF Census, RowLeaves, ProcessMoves, QueueMoves, Releases, Requested, OneMoves, Moves

-----------------------------------------------------------------------------
\* A video in flight is owned.

\* The runs in which nobody overtook the reader of a row.
Tidy == Faultless /\ NotOvertaken

\* The execution of a stalled row is gone for good, and nobody adds it again
\* behind its listener.
ListenersAlone ==
    /\ "resume" \notin Asks => \A r \in Requests : hpc[r] \notin Resuming
    /\ \A j \in Downloads :
         /\ bull[j] = "stalled" \/ lpc[j] # "idle" =>
              /\ "resume" \notin Asks
              /\ \A r \in Requests : hjob[r] = j => hpc[r] # "add"
         /\ lpc[j] # "idle" => bull[j] = "absent"

\* Until its verdict an execution works on a RUNNING row.
RunnersHoldRow ==
    \A j \in Downloads :
        \/ pc[j] \in Working \cup {"begin", "reread", "failRow"}
        \/ pc[j] \in {"chain", "chainAdd", "finish"} /\ Registered(j)
        => jobStatus[j] = "RUNNING"

\* The video of an active row does not go back: past its first hop it is not
\* QUEUED, past its last not in flight.
VideosPassed ==
    \A j \in Downloads : Active(j) =>
        /\ \/ pc[j] \in Working \cup {"reread"}
           \/ pc[j] \in {"claim", "begin"} /\ seen[j] = "DOWNLOADING"
           => copyState[jobVideo[j]] # "QUEUED"
        /\ \/ pc[j] \in {"chain", "chainAdd", "finish", "failRow"}
           \/ pc[j] \in {"claim", "begin"} /\ seen[j] \notin InFlight
           => copyState[jobVideo[j]] \notin InFlight

\* A row whose add was rejected has no other execution.
AddsFirst ==
    /\ faults["crash"] + faults["drain"] = 0 => phase = "up"
    /\ \A r \in Requests : hpc[r] \in {"undoRow", "undoVideo"} => faults["redis"] > 0
    /\ \A r, q \in Requests :
         hpc[r] \in {"add", "undoRow"} /\ hpc[q] \in {"add", "undoRow"} /\ hjob[r] = hjob[q] => r = q
    /\ /\ faults["crash"] + faults["drain"] = 0
       /\ "resume" \in Asks => \A r, q \in Requests : r = q
       => \A r \in Requests : hpc[r] \in {"add", "undoRow"} =>
            /\ bull[hjob[r]] = "absent"
            /\ Active(hjob[r]) => copyState[jobVideo[hjob[r]]] # "DOWNLOADING"

\* A request that canceled or undid a row of v is about to move v on ...
Returned(v) ==
    \E r \in Requests :
        /\ hpc[r] # "idle" /\ jobVideo[hjob[r]] = v
        /\ \/ hpc[r] \in {"cancelWipe", "cancelRead"}
           \/ hpc[r] = "cancelHop" /\ hfrom[r] = copyState[v]
           \/ hpc[r] = "undoVideo" /\ copyState[v] = "QUEUED"

\* ... or the execution whose row was canceled is, or the listener.
Released(v) ==
    \E j \in Downloads :
        /\ jobVideo[j] = v
        /\ \/ pc[j] = "abortHop" /\ copyState[v] = "DOWNLOADING"
           \/ lpc[j] = "video"
           \/ lpc[j] \in {"owners", "heal"} /\ copyState[v] = "QUEUED"

Owned(v) == ActiveDownloads(v) # {} \/ Returned(v) \/ Released(v)

\* The boot has yet to come to v.
Swept(v) ==
    \/ phase \in {"down", "rows"}
    \/ phase = "downloading" /\ (copyState[v] = "QUEUED" \/ Listed(v))
    \/ phase = "queued" /\ copyState[v] = "QUEUED" /\ Listed(v)

VideosOwned == \A v \in Videos : copyState[v] \in InFlight => Owned(v) \/ Swept(v)

OwnerInv ==
    Tidy => ListenersAlone /\ RunnersHoldRow /\ VideosPassed /\ AddsFirst /\ VideosOwned

\* What holds before a step of such a run.
Settled ==
    /\ IInv /\ ExecInv /\ OneActiveDownload /\ WorkInWorker /\ CancelInv /\ OwnerInv /\ Tidy
    /\ [Next]_vars /\ Tidy'

\* A run in which nobody has overtaken a reader was such a run before.
LEMMA TidyBefore ==
  ASSUME IInv, [Next]_vars, Tidy'
  PROVE  Tidy /\ Moves /\ Lives
<1>1. Lives /\ Moves
  BY NextLives, NextMoves DEF Tidy
<1>2. \A k \in FaultKinds : faults[k] \in Nat /\ faults'[k] >= faults[k] /\ faults'[k] \in Nat
  <2>1. faults' \in [FaultKinds -> Nat]
    BY NextKeeps DEF Kept
  <2> QED BY <1>1, <2>1 DEF Lives
<1>3. Faultless
  BY <1>2 DEF Tidy, Faultless
<1>4. NotOvertaken
  BY <1>2 DEF Tidy, NotOvertaken
<1> QED BY <1>1, <1>3, <1>4 DEF Tidy

\* An execution stalls only behind a crash, when nobody resumes.
LEMMA ListenersStayAlone ==
  ASSUME Settled
  PROVE  ListenersAlone'
<1>1. ListenersAlone /\ AddsFirst /\ Moves /\ Lives
  BY TidyBefore DEF Settled, OwnerInv
<1>2. ASSUME "resume" \notin Asks, NEW r \in Requests
      PROVE  hpc'[r] \notin Resuming
  BY <1>1, <1>2 DEF ListenersAlone, Moves, Requested
<1>3. ASSUME NEW j \in Downloads, bull'[j] = "stalled" \/ lpc'[j] # "idle"
      PROVE  Exists(j) /\ (bull[j] = "stalled" \/ lpc[j] # "idle" \/ (bull[j] = "active" /\ pc[j] = "idle" /\ \A r \in Requests : hjob[r] = j => hpc[r] \notin BeforeQueue))
  BY <1>1, <1>3, JobsAssumption DEF Moves, Census, QueueMoves, Settled
<1>4. ASSUME NEW j \in Downloads, bull[j] = "active", pc[j] = "idle"
      PROVE  "resume" \notin Asks
  <2>1. faults["crash"] # 0
    BY <1>4, JobsAssumption DEF Settled, ExecInv, NothingStalled, Undisturbed, Tidy, Faultless
  <2> QED BY <2>1 DEF Settled, Tidy, NotOvertaken
<1>5. ASSUME NEW j \in Downloads, bull'[j] = "stalled" \/ lpc'[j] # "idle"
      PROVE  /\ "resume" \notin Asks
             /\ \A r \in Requests : hjob'[r] = j => hpc'[r] # "add"
  <2>1. /\ Exists(j)
        /\ "resume" \notin Asks
        /\ \A r \in Requests : hjob[r] = j => hpc[r] # "add"
    BY <1>1, <1>3, <1>4, <1>5 DEF ListenersAlone, BeforeQueue
  <2>2. ASSUME NEW r \in Requests, hjob'[r] = j
        PROVE  hpc'[r] # "add"
    BY <1>1, <2>1, <2>2 DEF Moves, Requested
  <2> QED BY <2>1, <2>2
<1>6. ASSUME NEW j \in Downloads, lpc'[j] # "idle"
      PROVE  bull'[j] = "absent"
  <2>1. CASE lpc[j] = "idle"
    BY <1>1, <1>6, <2>1 DEF Moves, Census, QueueMoves
  <2>2. CASE lpc[j] # "idle"
    <3>1. /\ bull[j] = "absent" /\ "resume" \notin Asks
          /\ \A r \in Requests : hjob[r] = j => hpc[r] \notin {"add", "resumeAdd"}
      BY <1>1, <2>2 DEF ListenersAlone, Resuming
    <3>2. phase # "rows"
      BY <2>2, JobsAssumption DEF Settled, WorkInWorker
    <3> QED BY <1>1, <3>1, <3>2 DEF Moves, Census, QueueMoves
  <2> QED BY <2>1, <2>2
<1> QED BY <1>2, <1>5, <1>6 DEF ListenersAlone

\* An execution at work keeps its row.
LEMMA RunnersStay ==
  ASSUME Settled
  PROVE  RunnersHoldRow'
<1>1. ListenersAlone /\ RunnersHoldRow /\ Moves
  BY TidyBefore DEF Settled, OwnerInv
<1>2. SUFFICES ASSUME NEW j \in Downloads,
                      \/ pc'[j] \in Working \cup {"begin", "reread", "failRow"}
                      \/ pc'[j] \in {"chain", "chainAdd", "finish"} /\ Registered(j)'
               PROVE  jobStatus'[j] = "RUNNING"
  BY DEF RunnersHoldRow
<1>3. ProcessMoves(j) /\ RowLeaves(j)
  BY <1>1 DEF Moves, Census
<1>4. CASE pc[j] = "claim" /\ pc'[j] = "begin" /\ jobStatus'[j] = "RUNNING"
  BY <1>4
<1>5. CASE ~(pc[j] = "claim" /\ pc'[j] = "begin" /\ jobStatus'[j] = "RUNNING")
  <2>0. pc[j] = "load" => ~Registered(j)
    BY DEF Settled, CancelInv, Locked, LeaversClosed, Tidy, Faultless
  <2>1. pc[j] # "idle" /\ jobStatus[j] = "RUNNING"
    BY <1>1, <1>2, <1>3, <1>5, <2>0 DEF ProcessMoves, RunnersHoldRow, Working
  <2>2. bull[j] = "active" /\ phase # "rows"
    BY <2>1, JobsAssumption DEF Settled, CancelInv, Locked, HoldsLock, Tidy, Faultless, WorkInWorker
  <2>3. lpc[j] = "idle"
    BY <1>1, <2>2 DEF ListenersAlone
  <2> QED BY <1>2, <1>3, <2>1, <2>2, <2>3 DEF RowLeaves, Working
<1> QED BY <1>4, <1>5

\* A step that makes a video enter gives it an active row.
LEMMA EnteredOwned ==
  ASSUME Settled, NEW v \in Videos, copyState'[v] \in InFlight, copyState'[v] # copyState[v]
  PROVE  ActiveDownloads(v)' # {}
<1>1. Enters(v) /\ RunnersHoldRow
  BY VideoEnters DEF Settled, OwnerInv
<1>2. CASE copyState'[v] = "QUEUED"
  BY <1>1, <1>2 DEF Enters
<1>3. CASE copyState'[v] = "DOWNLOADING"
  <2>1. PICK k \in Downloads : pc[k] = "begin" /\ jobVideo[k] = v /\ UNCHANGED <<jobStatus, jobVideo>>
    BY <1>1, <1>3 DEF Enters
  <2>2. k \in ActiveDownloads(v)'
    BY <1>1, <2>1 DEF RunnersHoldRow, ActiveDownloads
  <2> QED BY <2>2
<1> QED BY <1>2, <1>3 DEF InFlight

\* The video of an active row does not enter again.
LEMMA ActiveForward ==
  ASSUME Settled, NEW j \in Downloads, Active(j)
  PROVE  LET v == jobVideo[j] IN
         /\ v \in Videos /\ jobVideo'[j] = v
         /\ copyState'[v] = "QUEUED" => copyState[v] = "QUEUED"
         /\ copyState'[v] \in InFlight => copyState[v] \in InFlight
<1>1. jobVideo[j] \in Videos /\ Exists(j)
  BY JobsAssumption DEF Settled
<1>2. j \in ActiveDownloads(jobVideo[j])
  BY DEF ActiveDownloads
<1>3. jobVideo'[j] = jobVideo[j]
  BY <1>1, NextKeeps DEF Settled, Kept, RowsMove, CreateRow
<1> QED BY <1>1, <1>2, <1>3, VideoEnters DEF Settled, Enters, InFlight

\* A video moves forward only, and process() after it.
LEMMA VideosStayPassed ==
  ASSUME Settled
  PROVE  VideosPassed'
<1>1. VideosPassed /\ RunnersHoldRow /\ Moves
  BY TidyBefore DEF Settled, OwnerInv
<1>2. SUFFICES ASSUME NEW j \in Downloads, Active(j)'
               PROVE  /\ \/ pc'[j] \in Working \cup {"reread"}
                         \/ pc'[j] \in {"claim", "begin"} /\ seen'[j] = "DOWNLOADING"
                         => copyState'[jobVideo'[j]] # "QUEUED"
                      /\ \/ pc'[j] \in {"chain", "chainAdd", "finish", "failRow"}
                         \/ pc'[j] \in {"claim", "begin"} /\ seen'[j] \notin InFlight
                         => copyState'[jobVideo'[j]] \notin InFlight
  BY DEF VideosPassed
<1>3. ProcessMoves(j)
  BY <1>1 DEF Moves, Census
<1>4. CASE ~Exists(j)
  <2>1. pc[j] = "idle"
    BY <1>4, JobsAssumption DEF Settled
  <2> QED BY <1>3, <2>1 DEF ProcessMoves, Working
<1>5. CASE Exists(j)
  <2>1. Active(j)
    BY <1>2, <1>5, NextKeeps, JobsAssumption DEF Settled, Kept, RowsMove, CreateRow
  <2>2. /\ jobVideo'[j] = jobVideo[j]
        /\ copyState'[jobVideo[j]] = "QUEUED" => copyState[jobVideo[j]] = "QUEUED"
        /\ copyState'[jobVideo[j]] \in InFlight => copyState[jobVideo[j]] \in InFlight
    BY <2>1, ActiveForward
  <2>3. /\ \/ pc[j] \in Working \cup {"reread"}
           \/ pc[j] \in {"claim", "begin"} /\ seen[j] = "DOWNLOADING"
           => copyState[jobVideo[j]] # "QUEUED"
        /\ \/ pc[j] \in {"chain", "chainAdd", "finish", "failRow"}
           \/ pc[j] \in {"claim", "begin"} /\ seen[j] \notin InFlight
           => copyState[jobVideo[j]] \notin InFlight
    BY <1>1, <2>1 DEF VideosPassed
  <2> QED BY <1>3, <2>2, <2>3 DEF ProcessMoves, Working, InFlight
<1> QED BY <1>4, <1>5
\* Nobody puts a row to work whose add was rejected.
LEMMA AddsStayFirst ==
  ASSUME Settled
  PROVE  AddsFirst'
<1>1. /\ AddsFirst /\ ListenersAlone /\ RunnersHoldRow /\ Lives
      /\ \A r \in Requests : Requested(r)
      /\ OneMoves
      /\ \A j \in Downloads : QueueMoves(j)
  BY TidyBefore DEF Settled, OwnerInv, Moves, Census
<1>2. \A k \in FaultKinds : faults[k] \in Nat /\ faults'[k] \in Nat /\ faults'[k] >= faults[k]
  <2>1. faults' \in [FaultKinds -> Nat]
    BY NextKeeps DEF Settled, Kept
  <2> QED BY <1>1, <2>1 DEF Lives, Settled
<1>3. faults'["crash"] + faults'["drain"] = 0 => faults["crash"] + faults["drain"] = 0 /\ phase = "up" /\ phase' = "up"
  <2>1. faults'["crash"] + faults'["drain"] = 0 => faults["crash"] + faults["drain"] = 0
    BY <1>2
  <2>2. faults'["crash"] + faults'["drain"] = 0 => ~(faults'["crash"] > 0) /\ ~(faults'["drain"] > 0)
    BY <1>2
  <2> QED BY <1>1, <2>1, <2>2 DEF AddsFirst, Lives
<1>4. ASSUME NEW r \in Requests, hpc'[r] \in {"undoRow", "undoVideo"}
      PROVE  faults'["redis"] > 0
  <2>1. Requested(r)
    BY <1>1
  <2>2. faults'["redis"] > 0 \/ hpc[r] \in {"undoRow", "undoVideo"}
    BY <1>4, <2>1 DEF Requested
  <2> QED BY <1>1, <1>2, <2>2 DEF AddsFirst
<1>5. ASSUME NEW r \in Requests, hpc'[r] \in {"add", "undoRow"}
      PROVE  \/ hpc[r] \in {"add", "undoRow"} /\ hjob'[r] = hjob[r] /\ Exists(hjob[r]) /\ hjob[r] \in Downloads
             \/ /\ hpc'[r] = "add" /\ ~Exists(hjob'[r]) /\ hjob'[r] \in Downloads
                /\ copyState'[jobVideo'[hjob'[r]]] = "QUEUED"
  <2>1. Requested(r)
    BY <1>1
  <2>2. hjob'[r] \in Downloads
    BY <1>5, NextKeeps DEF Settled, Kept
  <2> QED BY <1>5, <2>1, <2>2 DEF Requested, Settled
<1>6. ASSUME NEW r \in Requests, NEW q \in Requests,
             hpc'[r] \in {"add", "undoRow"}, hpc'[q] \in {"add", "undoRow"}, hjob'[r] = hjob'[q]
      PROVE  r = q
  <2>1. CASE Exists(hjob'[r])
    <3>1. /\ hpc[r] \in {"add", "undoRow"} /\ hjob'[r] = hjob[r]
          /\ hpc[q] \in {"add", "undoRow"} /\ hjob'[q] = hjob[q]
      BY <1>5, <1>6, <2>1
    <3> QED BY <1>1, <1>6, <3>1 DEF AddsFirst
  <2>2. CASE ~Exists(hjob'[r])
    <3>1. ~Exists(hjob'[q])
      BY <1>6, <2>2
    <3>2. hpc[r] # hpc'[r] \/ hjob[r] # hjob'[r]
      BY <1>6, <2>2 DEF Settled
    <3>3. hpc[q] # hpc'[q] \/ hjob[q] # hjob'[q]
      BY <1>6, <3>1 DEF Settled
    <3> QED BY <1>1, <3>2, <3>3 DEF OneMoves
  <2> QED BY <2>1, <2>2
<1>7. ASSUME faults'["crash"] + faults'["drain"] = 0,
             "resume" \in Asks => \A r, q \in Requests : r = q,
             NEW r \in Requests, hpc'[r] \in {"add", "undoRow"}
      PROVE  /\ bull'[hjob'[r]] = "absent"
             /\ jobStatus'[hjob'[r]] \in ActiveStatuses => copyState'[jobVideo'[hjob'[r]]] # "DOWNLOADING"
  <2>0. PICK j \in Downloads : j = hjob'[r]
    BY <1>5, <1>7
  <2>1. phase # "rows"
    BY <1>3, <1>7
  <2>2. CASE ~Exists(j) /\ copyState'[jobVideo'[j]] = "QUEUED"
    <3>1. bull[j] = "absent"
      BY <2>1, <2>2, JobsAssumption DEF Settled
    <3>2. \A q \in Requests : hjob[q] = j => hpc[q] = "idle"
      BY <2>2 DEF Settled
    <3>3. bull'[j] = "absent"
      BY <1>1, <2>1, <3>1, <3>2 DEF QueueMoves
    <3> QED BY <2>0, <2>2, <3>3
  <2>3. CASE hpc[r] \in {"add", "undoRow"} /\ j = hjob[r] /\ Exists(j)
    <3>1. /\ bull[j] = "absent"
          /\ Active(j) => copyState[jobVideo[j]] # "DOWNLOADING"
      BY <1>1, <1>3, <1>7, <2>3 DEF AddsFirst
    <3>2. ASSUME NEW q \in Requests, hjob[q] = j, hpc[q] \in {"add", "resumeAdd"}, hpc'[q] = "idle"
          PROVE  FALSE
      <4>1. q # r
        BY <1>7, <3>2
      <4>2. CASE hpc[q] = "add"
        BY <1>1, <2>3, <3>2, <4>1, <4>2 DEF AddsFirst
      <4>3. CASE hpc[q] = "resumeAdd"
        BY <1>1, <1>7, <4>1, <4>3 DEF ListenersAlone, Resuming
      <4> QED BY <3>2, <4>2, <4>3
    <3>3. bull'[j] = "absent"
      BY <1>1, <2>1, <3>1, <3>2 DEF QueueMoves
    <3>4. ASSUME jobStatus'[j] \in ActiveStatuses, copyState'[jobVideo'[j]] = "DOWNLOADING"
          PROVE  FALSE
      <4>1. Active(j)
        BY <2>3, <3>4, NextKeeps, JobsAssumption DEF Settled, Kept, RowsMove, CreateRow
      <4>2. jobVideo[j] \in Videos /\ jobVideo'[j] = jobVideo[j]
        BY <4>1, ActiveForward
      <4>3. PICK k \in Downloads : pc[k] = "begin" /\ jobVideo[k] = jobVideo[j]
        BY <3>1, <3>4, <4>1, <4>2, VideoEnters DEF Enters, Settled
      <4>4. Active(k)
        BY <1>1, <4>3 DEF RunnersHoldRow
      <4>5. k = j
        BY <4>1, <4>3, <4>4 DEF Settled, OneActiveDownload
      <4>6. bull[k] = "active"
        BY <4>3 DEF Settled, CancelInv, Locked, HoldsLock, Tidy, Faultless
      <4> QED BY <3>1, <4>5, <4>6
    <3> QED BY <2>0, <3>3, <3>4
  <2> QED BY <1>5, <1>7, <2>0, <2>2, <2>3
<1> QED BY <1>3, <1>4, <1>6, <1>7 DEF AddsFirst
\* Case analysis of NoZombieVideo: a video in flight loses its active row, its
\* request or its execution only to somebody else who owns it, and a boot passes
\* it only when it has an owner.
LEMMA VideosStayOwned ==
  ASSUME Settled
  PROVE  VideosOwned'
<1>1. /\ VideosOwned /\ VideosPassed /\ AddsFirst
      /\ \A r \in Requests : Requested(r)
      /\ \A j \in Downloads : RowLeaves(j) /\ Releases(j)
  BY TidyBefore DEF Settled, OwnerInv, Moves, Census
<1>2. SUFFICES ASSUME NEW v \in Videos, copyState'[v] \in InFlight
               PROVE  Owned(v)' \/ Swept(v)'
  BY DEF VideosOwned
<1>3. ASSUME NEW j \in Downloads, Exists(j)
      PROVE  jobVideo'[j] = jobVideo[j]
  BY <1>3, NextKeeps DEF Settled, Kept, RowsMove, CreateRow
<1>4. CASE copyState'[v] # copyState[v]
  BY <1>2, <1>4, EnteredOwned DEF Owned
<1>5. CASE copyState'[v] = copyState[v] /\ ActiveDownloads(v) # {}
  <2>1. PICK j \in Downloads : jobVideo[j] = v /\ Active(j)
    BY <1>5 DEF ActiveDownloads
  <2>2. jobVideo'[j] = v /\ Exists(j)
    BY <1>3, <2>1
  <2>3. CASE jobStatus'[j] \in ActiveStatuses
    BY <2>2, <2>3 DEF Owned, ActiveDownloads
  <2>4. CASE jobStatus'[j] \notin ActiveStatuses
    <3>1. /\ pc[j] \notin {"finish", "failRow"}
          /\ ~(pc[j] = "begin" /\ seen[j] \notin InFlight)
          /\ pc[j] \in {"reread", "abortRow"} => copyState'[v] = "DOWNLOADING"
      BY <1>1, <1>2, <1>5, <2>1 DEF VideosPassed, Working, InFlight
    <3>2. ASSUME NEW r \in Requests, hpc[r] = "undoRow", hjob[r] = j
          PROVE  copyState'[v] = "QUEUED"
      <4>1. faults["redis"] > 0
        BY <1>1, <3>2 DEF AddsFirst
      <4>2. copyState[v] # "DOWNLOADING"
        BY <1>1, <2>1, <3>2, <4>1 DEF AddsFirst, Settled, Tidy, NotOvertaken
      <4> QED BY <1>2, <1>5, <4>2 DEF InFlight
    <3>3. \/ pc'[j] = "abortHop" /\ copyState'[v] = "DOWNLOADING"
          \/ lpc'[j] = "video"
          \/ \E r \in Requests : hjob'[r] = j /\ hpc'[r] = "cancelWipe"
          \/ \E r \in Requests : hjob'[r] = j /\ hpc'[r] = "undoVideo" /\ copyState'[v] = "QUEUED"
      BY <1>1, <1>5, <2>1, <2>4, <3>1, <3>2 DEF RowLeaves
    <3> QED BY <2>2, <3>3 DEF Owned, Returned, Released
  <2> QED BY <2>3, <2>4
<1>6. CASE copyState'[v] = copyState[v] /\ Returned(v)
  <2>1. PICK r \in Requests :
          /\ hpc[r] # "idle" /\ jobVideo[hjob[r]] = v
          /\ \/ hpc[r] \in {"cancelWipe", "cancelRead"}
             \/ hpc[r] = "cancelHop" /\ hfrom[r] = copyState[v]
             \/ hpc[r] = "undoVideo" /\ copyState[v] = "QUEUED"
    BY <1>6 DEF Returned
  <2>2. jobVideo'[hjob[r]] = v
    BY <1>3, <2>1 DEF Settled
  <2>3. /\ hpc'[r] # "idle" /\ hjob'[r] = hjob[r]
        /\ \/ hpc'[r] \in {"cancelWipe", "cancelRead"}
           \/ hpc'[r] = "cancelHop" /\ hfrom'[r] = copyState'[v]
           \/ hpc'[r] = "undoVideo" /\ copyState'[v] = "QUEUED"
    BY <1>1, <1>2, <1>6, <2>1 DEF Requested
  <2> QED BY <2>2, <2>3 DEF Owned, Returned
<1>7. CASE copyState'[v] = copyState[v] /\ Released(v) /\ ActiveDownloads(v) = {}
  <2>1. PICK j \in Downloads :
          /\ jobVideo[j] = v
          /\ \/ pc[j] = "abortHop" /\ copyState[v] = "DOWNLOADING"
             \/ lpc[j] = "video"
             \/ lpc[j] \in {"owners", "heal"} /\ copyState[v] = "QUEUED"
    BY <1>7 DEF Released
  <2>2. jobVideo'[j] = v
    BY <1>3, <2>1, JobsAssumption DEF Settled
  <2>3. CASE phase' = "down"
    BY <2>3 DEF Swept
  <2>4. CASE phase' # "down"
    <3>1. \/ pc'[j] = "abortHop" /\ copyState'[v] = "DOWNLOADING"
          \/ lpc'[j] = "video"
          \/ lpc'[j] \in {"owners", "heal"} /\ copyState'[v] = "QUEUED"
      BY <1>1, <1>2, <1>7, <2>1, <2>4 DEF Releases, InFlight
    <3> QED BY <2>2, <3>1 DEF Owned, Released
  <2> QED BY <2>3, <2>4
<1>8. CASE copyState'[v] = copyState[v] /\ Swept(v) /\ ActiveDownloads(v) = {}
  <2>1. Sweeps(v)
    BY NextSweeps DEF Settled
  <2>2. Swept(v)' \/ ActiveDownloads(v)' # {}
    BY <1>2, <1>8, <2>1 DEF Sweeps, BootPhases, Swept, InFlight
  <2> QED BY <2>2 DEF Owned
<1> QED BY <1>1, <1>2, <1>4, <1>5, <1>6, <1>7, <1>8 DEF VideosOwned, Owned

\* An empty vault has no video in flight.
LEMMA InitOwner == Init => OwnerInv
<1> USE JobsAssumption
<1> SUFFICES ASSUME Init PROVE OwnerInv
  OBVIOUS
<1>1. ListenersAlone /\ RunnersHoldRow /\ VideosPassed
  BY DEF Init, ListenersAlone, RunnersHoldRow, VideosPassed, Working, Resuming
<1>2. AddsFirst /\ VideosOwned
  BY DEF Init, AddsFirst, VideosOwned, InFlight
<1> QED BY <1>1, <1>2 DEF OwnerInv

\* Every step keeps a video in flight owned.
LEMMA NextOwner ==
  ASSUME IInv, ExecInv, OneActiveDownload, WorkInWorker, CancelInv, OwnerInv, [Next]_vars
  PROVE  OwnerInv'
<1>1. SUFFICES ASSUME Tidy'
               PROVE  (ListenersAlone /\ RunnersHoldRow /\ VideosPassed /\ AddsFirst /\ VideosOwned)'
  BY DEF OwnerInv
<1>2. Settled
  BY <1>1, TidyBefore DEF Settled
<1> QED BY <1>2, ListenersStayAlone, RunnersStay, VideosStayPassed, AddsStayFirst, VideosStayOwned

\* From the last list of a boot on, whoever owns a video in flight is at work on it.
LEMMA OwnerNoZombie == OwnerInv => NoZombieVideo
<1> SUFFICES ASSUME OwnerInv, Tidy, phase \in {"verifying", "up", "draining"},
                    NEW v \in Videos, copyState[v] \in {"QUEUED", "DOWNLOADING"}
             PROVE  \/ ActiveDownloads(v) # {}
                    \/ \E r \in Requests :
                         /\ hpc[r] \in {"cancelWipe", "cancelRead", "cancelHop", "undoVideo"}
                         /\ jobVideo[hjob[r]] = v
                    \/ \E j \in Downloads :
                         /\ jobVideo[j] = v
                         /\ pc[j] = "abortHop" \/ lpc[j] \in {"video", "owners", "heal"}
  BY DEF NoZombieVideo, Tidy, Faultless
<1>1. ~Swept(v)
  BY DEF Swept
<1>2. Owned(v)
  BY <1>1 DEF OwnerInv, VideosOwned, InFlight
<1> QED BY <1>2 DEF Owned, Returned, Released

\* A video in flight is owned in every state.
LEMMA OwnerInvariance == Spec => []OwnerInv
<1>1. IInv /\ ExecInv /\ OneActiveDownload /\ WorkInWorker /\ CancelInv /\ OwnerInv /\ [Next]_vars => OwnerInv'
  BY NextOwner
<1> QED BY <1>1, InitOwner, Invariance, ExecutionInvariance, OneActiveDownloadHolds, OwnershipInvariance, PTL DEF Spec

-----------------------------------------------------------------------------
\* What a step may do to the execution of a QUEUED download.

\* The steps of a request that is about to add or settle the execution of its row.
Owing == {"add", "undoRow", "resumeAdd", "resumeUndo", "cancelSettle", "pauseSettle"}

\* How a download becomes QUEUED.
RowQueues(j) ==
    jobStatus[j] # "QUEUED" /\ jobStatus'[j] = "QUEUED" =>
        \/ ~Exists(j) /\ \E r \in Requests : hjob'[r] = j /\ hpc'[r] = "add"
        \/ \E r \in Requests : /\ hjob[r] = j /\ hpc[r] = "resumeCas"
                               /\ hjob'[r] = j /\ hpc'[r] = "resumeAdd"
        \/ pc[j] = "failRetry" /\ pc'[j] = "settleThrow" /\ UNCHANGED <<bull, made>>
        \/ pc[j] = "abort" /\ ctl[j] = "shutdown" /\ UNCHANGED <<bull, phase>>
        \/ phase = "rows" /\ phase' = "rows" /\ <<j, "ADD">> \in rowTodo'

\* How its execution goes, and that its attempts are counted at the end only.
QueueLeaves(j) ==
    /\ bull[j] # "absent" /\ bull'[j] = "absent" =>
         \/ /\ pc[j] \in SettleSteps /\ UNCHANGED <<jobStatus, phase>>
            /\ pc[j] = "settleThrow" => made[j] + 1 >= DownloadAttempts
         \/ lpc'[j] = "row"
         \/ \E r \in Requests : hjob'[r] = j /\ hpc'[r] \in {"cancelSettle", "pauseSettle"}
    /\ bull[j] = "active" => pc'[j] = "idle" \/ made'[j] = made[j]

\* How process() ends, and when it hands the row back.
ProcessEnds(j) ==
    /\ pc'[j] \in SettleSteps =>
         \/ pc'[j] = pc[j]
         \/ jobStatus'[j] # "QUEUED"
         \/ pc[j] = "failRetry" /\ pc'[j] = "settleThrow"
         \/ pc[j] = "abort" /\ UNCHANGED phase /\ (jobStatus[j] # "RUNNING" \/ ctl[j] = "shutdown")
         \/ pc[j] = "abortHop" /\ UNCHANGED jobStatus
         \/ /\ pc[j] = "chainAdd" /\ ~Registered(j) /\ UNCHANGED jobStatus
            /\ faults'["redis"] = faults["redis"] + 1
    /\ pc'[j] = "failRetry" => pc[j] = "failRetry" \/ made'[j] + 1 < DownloadAttempts
    /\ pc'[j] = "abortHop" =>
         pc[j] = "abortHop" \/ (pc[j] = "abortRow" /\ Terminal(j)' /\ UNCHANGED copyState)
    /\ pc[j] \in {"finish", "failRow"} =>
         pc'[j] = pc[j] \/ Terminal(j)' \/ phase' = "down"
    /\ pc[j] \in {"chain", "chainAdd"} =>
         \/ pc'[j] \in {"chain", "chainAdd", "finish"}
         \/ phase' = "down"
         \/ faults'["redis"] > faults["redis"]
    /\ ctl'[j] = "shutdown" => phase' = "draining" \/ (ctl[j] = "shutdown" /\ phase # "draining")
    /\ phase = "draining" => phase' = "draining" \/ pc'[j] = "idle"

\* A request or a listener that owes the row its execution or its verdict
\* delivers, unless it is cut off with the worker.
Owes(j) ==
    /\ \A r \in Requests : hjob[r] = j /\ hpc[r] \in Owing =>
         \/ hjob'[r] = j /\ hpc'[r] \in Owing
         \/ bull'[j] # "absent"
         \/ jobStatus'[j] # "QUEUED"
    /\ lpc[j] \in {"row", "mark"} =>
         \/ lpc'[j] \in {"row", "mark"}
         \/ jobStatus'[j] # "QUEUED"
         \/ phase' = "down"

\* The row is on the list of the boot.
Todo(j) == <<j, "QUEUED">> \in rowTodo \/ <<j, "ADD">> \in rowTodo

\* A boot lists the row and gives it its execution.
Boots(j) ==
    /\ phase \in {"draining", "down"} =>
         \/ phase' \in {"draining", "down"}
         \/ phase' = "rows" /\ (jobStatus'[j] = "QUEUED" => Todo(j)')
    /\ phase = "rows" /\ Todo(j) =>
         \/ phase' = "down"
         \/ phase' = "rows" /\ Todo(j)'
         \/ bull'[j] # "absent"

\* A resume has found the execution gone.
ResumesAfter(r) ==
    hpc'[r] \in {"resumeCas", "resumeAdd"} =>
        /\ hjob'[r] = hjob[r]
        /\ hpc[r] \in {"resumeCas", "resumeAdd"} \/ bull'[hjob[r]] = "absent"

Tends(j) == RowQueues(j) /\ QueueLeaves(j) /\ ProcessEnds(j) /\ Owes(j) /\ Boots(j)

\* What every step does to downloads and resumes.
Tending ==
    /\ \A j \in Downloads : Tends(j)
    /\ \A r \in Requests : ResumesAfter(r)

USE DEF Tends, RowQueues, QueueLeaves, ProcessEnds, Owes, Todo, Boots

\* An execution ends its own row's attempt.
LEMMA SharedStepTends ==
  ASSUME IInv, NEW i \in Jobs, SharedStep(i), NEW j \in Downloads
  PROVE  Tends(j)
<1> USE JobsAssumption DEF Goto, Leave, MarkFinished, CasRow
<1>1. CASE Settle(i)
  <2>1. /\ pc[i] \in SettleSteps
        /\ pc' = [pc EXCEPT ![i] = "idle"]
        /\ UNCHANGED <<ctl, rowVars, phase, rowTodo, lpc, apiVars, faults>>
    BY <1>1 DEF Settle
  <2>2. bull[j] # "absent" /\ bull'[j] = "absent" =>
          pc[j] \in SettleSteps /\ (pc[j] = "settleThrow" => made[j] + 1 >= DownloadAttempts)
    BY <1>1, BoundsAssumption DEF Settle, LastAttempt, Attempts
  <2>3. i # j => bull'[j] = bull[j] /\ made'[j] = made[j]
    BY <1>1 DEF Settle
  <2> QED BY <2>1, <2>2, <2>3
<1>2. CASE FailFinal(i)
  BY <1>2 DEF FailFinal
<1>3. CASE FailRetry(i)
  BY <1>3 DEF FailRetry, MarkRequeued
<1>4. CASE FailRow(i) \/ Finish(i)
  <2>1. /\ pc[i] \in {"failRow", "finish"} /\ pc'[i] \in SettleSteps
        /\ \A d \in Jobs \ {i} : UNCHANGED <<pc[d], ctl[d], jobStatus[d]>>
        /\ ctl'[i] = "absent"
        /\ UNCHANGED <<bull, made, copyState, lpc, phase, rowTodo, apiVars, faults>>
    BY <1>4 DEF FailRow, Finish
  <2>2. Terminal(i)' /\ jobStatus'[i] # "QUEUED"
    BY <1>4 DEF FailRow, Finish, JobStatuses
  <2> QED BY <2>1, <2>2
<1> QED BY <1>1, <1>2, <1>3, <1>4 DEF SharedStep

\* The steps of process() of a download; one that chains adds a verify.
LEMMA DownloadStepTends ==
  ASSUME IInv, NEW i \in Downloads, DownloadStep(i), NEW j \in Downloads
  PROVE  Tends(j)
<1> USE JobsAssumption DEF Goto, Leave, MarkFinished, CasRow
<1>0. CatchStep(i) \in {"abort", "failFinal", "failRetry"} /\ (CatchStep(i) = "failRetry" => made[i] + 1 < DownloadAttempts)
  BY BoundsAssumption DEF CatchStep, LastAttempt, Attempts
<1>1. CASE Load(i)
  BY <1>1 DEF Load
<1>2. CASE ClaimDownload(i)
  BY <1>2 DEF ClaimDownload, Claim, Claimable
<1>3. CASE Begin(i)
  BY <1>3 DEF Begin, Reject
<1>4. CASE Reread(i)
  BY <1>4 DEF Reread, Reject
<1>5. CASE Prepare(i) \/ RunAborted(i) \/ RunSucceeded(i)
  BY <1>5 DEF Prepare, RunAborted, RunSucceeded
<1>6. CASE RunFailed(i) \/ Publish(i) \/ PublishFailed(i)
  BY <1>0, <1>6 DEF RunFailed, Publish, PublishFailed
<1>7. CASE Advance(i)
  BY <1>7 DEF Advance
<1>8. CASE Chain(i)
  <2>1. PICK k \in Verifies : NextId(k, Verifies) /\ CreateRow(k, jobVideo[i])
    BY <1>8 DEF Chain
  <2>2. /\ pc[i] = "chain" /\ pc' = [pc EXCEPT ![i] = "chainAdd"]
        /\ \A d \in Downloads : jobStatus'[d] = jobStatus[d]
        /\ UNCHANGED <<ctl, bull, made, lpc, phase, rowTodo, apiVars, faults>>
    BY <1>8, <2>1 DEF Chain, CreateRow
  <2> QED BY <2>2
<1>9. CASE ChainAdd(i)
  <2>1. /\ pc[i] = "chainAdd" /\ pc' = [pc EXCEPT ![i] = "finish"]
        /\ \A d \in Downloads : bull'[d] = bull[d] /\ made'[d] = made[d]
        /\ UNCHANGED <<ctl, jobStatus, lpc, phase, rowTodo, apiVars, faults>>
    BY <1>9 DEF ChainAdd, QueueAdd
  <2> QED BY <2>1
<1>10. CASE Abort(i)
  BY <1>10 DEF Abort, MarkRequeued, MarkPaused
<1>11. CASE AbortRow(i)
  <2>1. /\ pc[i] = "abortRow" /\ pc' = [pc EXCEPT ![i] = "abortHop"]
        /\ UNCHANGED <<ctl, bull, made, copyState, lpc, phase, rowTodo, apiVars, faults>>
        /\ \A d \in Downloads : jobStatus'[d] # jobStatus[d] => jobStatus'[d] = "CANCELED"
    BY <1>11 DEF AbortRow
  <2>2. Terminal(i)'
    BY <1>11 DEF AbortRow, JobStatuses
  <2> QED BY <2>1, <2>2
<1>12. CASE AbortHop(i)
  BY <1>12 DEF AbortHop
<1> QED BY <1>1, <1>2, <1>3, <1>4, <1>5, <1>6, <1>7, <1>8, <1>9, <1>10, <1>11, <1>12 DEF DownloadStep

\* A verify touches no download.
LEMMA VerifyStepTends ==
  ASSUME IInv, NEW i \in Verifies, VerifyStep(i), NEW j \in Downloads
  PROVE  Tends(j)
<1> USE JobsAssumption DEF Goto, Leave, MarkFinished, CasRow
<1>1. CASE ClaimVerify(i)
  BY <1>1 DEF ClaimVerify
<1>2. CASE ReadVideo(i)
  BY <1>2 DEF ReadVideo
<1>3. CASE Probe(i)
  BY <1>3 DEF Probe
<1>4. CASE Verdict(i)
  BY <1>4 DEF Verdict
<1> QED BY <1>1, <1>2, <1>3, <1>4 DEF VerifyStep

\* Without a refused statement only the add of a verify throws.
LEMMA ThrowsTend ==
  ASSUME IInv, NEW i \in Jobs, Throws(i) \/ Restart(i), Faultless', NEW j \in Downloads
  PROVE  Tends(j)
<1> USE JobsAssumption DEF Goto, Leave
<1>0. i \in Downloads =>
        /\ CatchStep(i) \in {"abort", "failFinal", "failRetry"}
        /\ CatchStep(i) = "failRetry" => made[i] + 1 < DownloadAttempts
  BY BoundsAssumption DEF CatchStep, LastAttempt, Attempts
<1>1. ~Fault("db")
  BY DEF Fault, Faultless
<1>2. CASE Restart(i)
  BY <1>2 DEF Restart, RunUnresumable, Writes
<1>3. CASE i \in Downloads /\ (BareThrow(i) \/ RejectSwallows(i))
  BY <1>1, <1>3 DEF BareThrow, RejectSwallows, Fault
<1>4. CASE i \in Downloads /\ CaughtThrow(i)
  BY <1>0, <1>1, <1>4 DEF CaughtThrow, Fault
<1> QED BY <1>1, <1>2, <1>3, <1>4
    DEF Throws, RecorderSwallows, ListenerSwallows, ListenerThrows, DownloadThrows, PointerLost,
        AbortSwallows, VerifyThrows

\* BullMQ and the listener.
LEMMA BullStepTends ==
  ASSUME IInv, NEW i \in Jobs, NEW j \in Downloads, Faultless',
         \/ Pickup(i) \/ BackoffOver(i) \/ StallDetected(i) \/ StallFailed(i)
         \/ Listen(i) \/ LockLost(i)
  PROVE  Tends(j)
<1> USE JobsAssumption DEF Goto, MarkFinished, CasRow
<1>1. CASE Pickup(i)
  BY <1>1 DEF Pickup, Activate
<1>2. CASE BackoffOver(i)
  BY <1>2 DEF BackoffOver
<1>3. CASE StallDetected(i)
  BY <1>3 DEF StallDetected
<1>4. CASE StallFailed(i)
  BY <1>4 DEF StallFailed
<1>5. CASE ListenRow(i)
  BY <1>5 DEF ListenRow, ListenSkips
<1>6. CASE ListenMark(i)
  BY <1>6 DEF ListenMark
<1>7. CASE ListenVideo(i) \/ ListenOwners(i) \/ ListenHeal(i)
  BY <1>7 DEF ListenVideo, ListenOwners, ListenHeal
<1>8. CASE LockLost(i)
  BY <1>8 DEF LockLost, Fault, Faultless
<1> QED BY <1>1, <1>2, <1>3, <1>4, <1>5, <1>6, <1>7, <1>8 DEF Listen

\* The worker process: a boot lists the QUEUED rows first.
LEMMA ProcessTends ==
  ASSUME IInv, NEW j \in Downloads, Drain \/ Drained \/ Crash \/ BootFails \/ BootStep
  PROVE  Tends(j)
<1> USE JobsAssumption
<1>1. CASE Drain
  BY <1>1 DEF Drain
<1>2. CASE Drained \/ Crash \/ BootFails
  BY <1>2 DEF Drained, Crash, BootFails, Dies, Stopped
<1>3. CASE Boot
  <2>1. jobStatus[j] = "QUEUED" => <<j, "QUEUED">> \in rowTodo'
    BY <1>3 DEF Boot, SweptStatuses
  <2>2. /\ phase = "down" /\ phase' = "rows"
        /\ UNCHANGED <<jobStatus, bull, made, pc, ctl, lpc, apiVars, faults>>
    BY <1>3 DEF Boot
  <2> HIDE <1>3
  <2> QED BY <2>1, <2>2
<1>4. CASE Started \/ NextList
  <2>1. /\ phase \notin {"up", "draining", "down"} /\ phase' \notin {"rows", "down", "draining"}
        /\ phase = "rows" => rowTodo = {}
        /\ UNCHANGED <<rowTodo, jobStatus, bull, made, pc, ctl, lpc, apiVars, faults>>
    BY <1>4 DEF Started, NextList, ReadList
  <2> QED BY <2>1
<1>5. ASSUME NEW i \in Jobs, NEW status \in {"QUEUED", "RUNNING"}, CheckRow(i, status)
      PROVE  Tends(j)
  BY <1>5 DEF CheckRow, HandBack, MarkRequeued, CasRow
<1>6. ASSUME NEW i \in Jobs, ReAdd(i)
      PROVE  Tends(j)
  BY <1>6 DEF ReAdd, QueueAdd
<1>7. ASSUME NEW v \in Videos, NEW to \in {"CANDIDATE", "FAILED"}, SweepVideo(v, to)
      PROVE  Tends(j)
  BY <1>7 DEF SweepVideo
<1> HIDE DEF Tends
<1>8. CASE BootStep
  BY <1>3, <1>4, <1>5, <1>6, <1>7, <1>8 DEF BootStep
<1> QED BY <1>1, <1>2, <1>8

-----------------------------------------------------------------------------
\* Requests

\* What request q does to the executions and the rows of downloads.
TendsQueue(q) ==
    \A j \in Downloads :
       /\ bull[j] # "absent" /\ bull'[j] = "absent" =>
            hjob'[q] = j /\ hpc'[q] \in {"cancelSettle", "pauseSettle"}
       /\ bull[j] = "active" => made'[j] = made[j]

TendsRows(q) ==
    \A j \in Downloads :
       jobStatus[j] # "QUEUED" /\ jobStatus'[j] = "QUEUED" =>
          \/ ~Exists(j) /\ hjob'[q] = j /\ hpc'[q] = "add"
          \/ hjob[q] = j /\ hpc[q] = "resumeCas" /\ hjob'[q] = j /\ hpc'[q] = "resumeAdd"

TendsRequest(q) ==
    /\ hpc[q] \in Owing =>
         \/ hjob'[q] = hjob[q] /\ hpc'[q] \in Owing
         \/ bull'[hjob[q]] # "absent"
         \/ jobStatus'[hjob[q]] # "QUEUED"
    /\ ResumesAfter(q)

\* The worker goes on as it was.
Elsewhere(q) ==
    /\ \A r \in Requests \ {q} : UNCHANGED <<hpc[r], hjob[r]>>
    /\ UNCHANGED <<pc, ctl, lpc, phase, rowTodo>>

\* That is all a request has to do with.
LEMMA RequestTends ==
  ASSUME NEW q \in Requests, Elsewhere(q), TendsQueue(q), TendsRows(q), TendsRequest(q)
  PROVE  Tending
<1> USE DEF Elsewhere, TendsQueue, TendsRows, TendsRequest
<1>1. ASSUME NEW j \in Downloads
      PROVE  Tends(j)
  <2>1. RowQueues(j) /\ QueueLeaves(j)
    OBVIOUS
  <2>2. ProcessEnds(j) /\ Boots(j)
    OBVIOUS
  <2>3. Owes(j)
    OBVIOUS
  <2> QED BY <2>1, <2>2, <2>3
<1>2. ASSUME NEW r \in Requests \ {q}
      PROVE  ResumesAfter(r)
  BY DEF ResumesAfter
<1> QED BY <1>1, <1>2 DEF Tending

HIDE DEF Tends, RowQueues, QueueLeaves, ProcessEnds, Owes, Todo, Boots
USE DEF Elsewhere, TendsQueue, TendsRows, TendsRequest, ResumesAfter, Owing

\* A new request owes the execution of the row it creates.
LEMMA AskTends ==
  ASSUME IInv, NEW q \in Requests, Ask(q)
  PROVE  Tending
<1> USE JobsAssumption DEF Start
<1>1. CASE \E v \in Videos : Enqueue(q, v)
  <2>1. Elsewhere(q) /\ TendsQueue(q)
    BY <1>1 DEF Enqueue, NextId, CreateRow
  <2>2. TendsRows(q)
    BY <1>1 DEF Enqueue, NextId, CreateRow
  <2>3. TendsRequest(q)
    BY <1>1 DEF Enqueue, NextId, CreateRow
  <2> QED BY <2>1, <2>2, <2>3, RequestTends
<1>2. CASE \E j \in Downloads : Cancel(q, j) \/ Pause(q, j)
  <2>1. Elsewhere(q) /\ TendsQueue(q) /\ TendsRows(q)
    BY <1>2 DEF Cancel, Pause, Command
  <2>2. TendsRequest(q)
    BY <1>2 DEF Cancel, Pause, Command
  <2> QED BY <2>1, <2>2, RequestTends
<1>3. CASE "resume" \in Asks /\ \E j \in Downloads : Resume(q, j)
  <2>1. Elsewhere(q) /\ TendsQueue(q) /\ TendsRows(q)
    BY <1>3 DEF Resume
  <2>2. TendsRequest(q)
    BY <1>3 DEF Resume
  <2> QED BY <2>1, <2>2, RequestTends
<1> QED BY <1>1, <1>2, <1>3 DEF Ask

\* A request delivers what it owes.
LEMMA ServeTends ==
  ASSUME IInv, NEW q \in Requests, Serve(q) \/ RequestFails(q), Faultless'
  PROVE  Tending
<1> USE JobsAssumption DEF Then, Answer, CasRow, QueueAdd, Fault
<1>1. CASE AddExecution(q) \/ ResumeAdd(q)
  <2>1. Elsewhere(q) /\ TendsQueue(q) /\ TendsRows(q)
    BY <1>1 DEF AddExecution, ResumeAdd
  <2>2. TendsRequest(q)
    BY <1>1 DEF AddExecution, ResumeAdd
  <2> QED BY <2>1, <2>2, RequestTends
<1>2. CASE UndoRow(q) \/ ResumeUndo(q)
  <2>1. Elsewhere(q) /\ TendsQueue(q) /\ TendsRows(q)
    BY <1>2 DEF UndoRow, ResumeUndo
  <2>2. TendsRequest(q)
    BY <1>2 DEF UndoRow, ResumeUndo
  <2> QED BY <2>1, <2>2, RequestTends
<1>3. CASE UndoVideo(q) \/ CancelWipe(q) \/ CancelRead(q) \/ CancelHop(q)
  <2>1. Elsewhere(q) /\ TendsQueue(q) /\ TendsRows(q)
    BY <1>3 DEF UndoVideo, CancelWipe, CancelRead, CancelHop
  <2>2. TendsRequest(q)
    BY <1>3 DEF UndoVideo, CancelWipe, CancelRead, CancelHop
  <2> QED BY <2>1, <2>2, RequestTends
<1>4. CASE RemoveExecution(q, "cancelRemove", "cancelSettle") \/ RemoveExecution(q, "pauseRemove", "pauseSettle")
  <2>1. Elsewhere(q) /\ TendsQueue(q) /\ TendsRows(q)
    BY <1>4 DEF RemoveExecution
  <2>2. TendsRequest(q)
    BY <1>4 DEF RemoveExecution
  <2> QED BY <2>1, <2>2, RequestTends
<1>5. CASE RereadRow(q, "cancelReread", "signalCancel") \/ RereadRow(q, "pauseReread", "signalPause")
  <2>1. Elsewhere(q) /\ TendsQueue(q) /\ TendsRows(q)
    BY <1>5 DEF RereadRow
  <2>2. TendsRequest(q)
    BY <1>5 DEF RereadRow
  <2> QED BY <2>1, <2>2, RequestTends
<1>6. CASE Signal(q) \/ SignalRejected(q)
  <2>1. Elsewhere(q) /\ TendsQueue(q) /\ TendsRows(q)
    BY <1>6 DEF Signal, SignalRejected
  <2>2. TendsRequest(q)
    BY <1>6 DEF Signal, SignalRejected
  <2> QED BY <2>1, <2>2, RequestTends
<1>7. CASE CancelSettle(q) \/ PauseSettle(q)
  <2>1. Elsewhere(q) /\ TendsQueue(q) /\ TendsRows(q)
    BY <1>7 DEF CancelSettle, PauseSettle
  <2>2. TendsRequest(q)
    BY <1>7 DEF CancelSettle, PauseSettle, Cancelable, Pausable
  <2> QED BY <2>1, <2>2, RequestTends
<1>8. CASE ResumeFree(q) \/ ResumeTimeout(q)
  <2>1. Elsewhere(q) /\ TendsQueue(q) /\ TendsRows(q)
    BY <1>8 DEF ResumeFree, ResumeTimeout
  <2>2. TendsRequest(q)
    BY <1>8 DEF ResumeFree, ResumeTimeout
  <2> QED BY <2>1, <2>2, RequestTends
<1>9. CASE ResumeCas(q)
  <2>1. Elsewhere(q) /\ TendsQueue(q) /\ TendsRows(q)
    BY <1>9 DEF ResumeCas
  <2>2. TendsRequest(q)
    BY <1>9 DEF ResumeCas
  <2> QED BY <2>1, <2>2, RequestTends
<1>10. CASE AddRejected(q) \/ ResumeRejected(q)
  <2>1. Elsewhere(q) /\ TendsQueue(q) /\ TendsRows(q)
    BY <1>10 DEF AddRejected, ResumeRejected
  <2>2. TendsRequest(q)
    BY <1>10 DEF AddRejected, ResumeRejected
  <2> QED BY <2>1, <2>2, RequestTends
<1>11. CASE RequestDies(q)
  BY <1>11 DEF RequestDies, Faultless
<1> QED BY <1>1, <1>2, <1>3, <1>4, <1>5, <1>6, <1>7, <1>8, <1>9, <1>10, <1>11 DEF Serve, RequestFails
HIDE DEF Elsewhere, TendsQueue, TendsRows, TendsRequest, Owing

\* A step of the worker leaves every request where it is.
LEMMA RequestsUntended ==
  ASSUME UNCHANGED apiVars, \A j \in Downloads : Tends(j)
  PROVE  Tending
BY DEF Tending, ResumesAfter

\* It holds of every step that fails no statement.
LEMMA NextTends ==
  ASSUME IInv, [Next]_vars, Faultless'
  PROVE  Tending
<1>1. ASSUME NEW i \in Jobs, ExecutionStep(i)
      PROVE  Tending
  <2>1. \A j \in Downloads : Tends(j)
    BY <1>1, SharedStepTends, DownloadStepTends, VerifyStepTends DEF ExecutionStep
  <2>2. UNCHANGED apiVars
    BY <1>1 DEF ExecutionStep, SharedStep, Settle, FailFinal, FailRow, FailRetry, Finish,
       DownloadStep, Load, ClaimDownload, Claim, Begin, Reread, Prepare, RunAborted, RunFailed,
       RunSucceeded, Publish, PublishFailed, Advance, Chain, ChainAdd, Abort, AbortRow, AbortHop,
       VerifyStep, ClaimVerify, ReadVideo, Probe, Verdict
  <2> QED BY <2>1, <2>2, RequestsUntended
<1>2. ASSUME NEW i \in Jobs, Restart(i) \/ Throws(i)
      PROVE  Tending
  <2>1. \A j \in Downloads : Tends(j)
    BY <1>2, ThrowsTend
  <2>2. UNCHANGED apiVars
    BY <1>2 DEF Restart, RunUnresumable, Writes, Throws, RecorderSwallows, ListenerSwallows, ListenerThrows, Dies,
       DownloadThrows, BareThrow, RejectSwallows, CaughtThrow, PointerLost, AbortSwallows, VerifyThrows
  <2> QED BY <2>1, <2>2, RequestsUntended
<1>3. ASSUME NEW i \in Jobs,
             \/ Pickup(i) \/ BackoffOver(i) \/ StallDetected(i) \/ StallFailed(i)
             \/ Listen(i) \/ LockLost(i)
      PROVE  Tending
  <2>1. \A j \in Downloads : Tends(j)
    BY <1>3, BullStepTends
  <2>2. UNCHANGED apiVars
    BY <1>3 DEF Pickup, Activate, BackoffOver, StallDetected, StallFailed, LockLost, Listen,
       ListenRow, ListenMark, ListenVideo, ListenOwners, ListenHeal
  <2> QED BY <2>1, <2>2, RequestsUntended
<1>4. CASE Drain \/ Drained \/ Crash \/ BootFails \/ BootStep
  <2>1. \A j \in Downloads : Tends(j)
    BY <1>4, ProcessTends
  <2>2. UNCHANGED apiVars
    BY <1>4 DEF Drain, Drained, Crash, BootFails, Dies, BootStep, Boot, CheckRow, HandBack, ReAdd, NextList,
       ReadList, SweepVideo, Started
  <2> QED BY <2>1, <2>2, RequestsUntended
<1>5. ASSUME NEW q \in Requests, Ask(q) \/ Serve(q) \/ RequestFails(q)
      PROVE  Tending
  BY <1>5, AskTends, ServeTends
<1>6. ASSUME NEW m \in control, Deliver(m)
      PROVE  Tending
  <2>1. /\ UNCHANGED <<pc, jobStatus, bull, made, lpc, phase, rowTodo, apiVars, faults>>
        /\ \A j \in Downloads : ctl'[j] = ctl[j] \/ ctl'[j] \in Commands
    BY <1>6, JobsAssumption DEF Deliver
  <2>2. \A j \in Downloads : Tends(j)
    BY <2>1 DEF Tends, RowQueues, QueueLeaves, ProcessEnds, Owes, Todo, Boots
  <2> QED BY <2>1, <2>2, RequestsUntended
<1>7. CASE UNCHANGED vars
  <2>1. UNCHANGED <<pc, ctl, jobStatus, bull, made, lpc, phase, rowTodo, apiVars, faults>>
    BY <1>7 DEF vars
  <2>2. \A j \in Downloads : Tends(j)
    BY <2>1 DEF Tends, RowQueues, QueueLeaves, ProcessEnds, Owes, Todo, Boots
  <2> QED BY <2>1, <2>2, RequestsUntended
<1> QED BY <1>1, <1>2, <1>3, <1>4, <1>5, <1>6, <1>7 DEF Next
HIDE DEF ResumesAfter

-----------------------------------------------------------------------------
\* A QUEUED download has its execution.

\* The runs in which an add is never overtaken.
InTurn == Tidy /\ AddsInTurn

\* Every QUEUED row has an execution, someone who owes it one, or a boot to come.
RowsAttended ==
    \A j \in Downloads : jobStatus[j] = "QUEUED" =>
        \/ bull[j] # "absent"
        \/ lpc[j] \in {"row", "mark"}
        \/ \E r \in Requests : hjob[r] = j /\ hpc[r] \in Owing
        \/ phase \in {"draining", "down"}
        \/ phase = "rows" /\ Todo(j)

\* An execution that ends leaves its row QUEUED only to be retried, or to the
\* next boot.
EndsRetried ==
    \A j \in Downloads :
        /\ jobStatus[j] = "QUEUED" /\ pc[j] \in SettleSteps =>
             \/ pc[j] = "settleThrow" /\ made[j] + 1 < DownloadAttempts
             \/ phase = "draining"
        /\ pc[j] = "failRetry" => made[j] + 1 < DownloadAttempts
        /\ pc[j] = "abortHop" => Terminal(j)
        /\ ctl[j] = "shutdown" => phase = "draining"

\* A resume adds its execution to an empty place.
ResumesAlone ==
    \A r \in Requests : hpc[r] \in {"resumeCas", "resumeAdd"} => bull[hjob[r]] = "absent"

QueueInv == InTurn => RowsAttended /\ EndsRetried /\ ResumesAlone

\* What holds before a step of such a run.
Tended ==
    /\ Settled /\ PauseInv /\ QueueInv /\ InTurn /\ InTurn' /\ Tending

\* A run in which every add had its turn was such a run before.
LEMMA InTurnBefore ==
  ASSUME IInv, [Next]_vars, InTurn'
  PROVE  InTurn /\ Tidy /\ Tidy' /\ Tending /\ Moves /\ Lives
<1>1. Tidy' /\ Faultless'
  BY DEF InTurn, Tidy
<1>2. Tidy /\ Moves /\ Lives /\ Tending
  BY <1>1, TidyBefore, NextTends
<1>3. \A k \in FaultKinds : faults[k] \in Nat /\ faults'[k] >= faults[k] /\ faults'[k] \in Nat
  <2>1. faults' \in [FaultKinds -> Nat]
    BY NextKeeps DEF Kept
  <2> QED BY <1>2, <2>1 DEF Lives
<1>4. AddsInTurn
  BY <1>3 DEF InTurn, AddsInTurn
<1> QED BY <1>1, <1>2, <1>4 DEF InTurn

\* Nobody adds an execution between the wait and the add of a resume.
LEMMA ResumesStayAlone ==
  ASSUME Tended
  PROVE  ResumesAlone'
<1>1. /\ ListenersAlone /\ AddsFirst /\ ResumesAlone /\ Moves /\ Tending
      /\ IInv /\ InTurn
  BY TidyBefore DEF Tended, Settled, OwnerInv, QueueInv
<1>2. SUFFICES ASSUME NEW r \in Requests, hpc'[r] \in {"resumeCas", "resumeAdd"}
               PROVE  bull'[hjob'[r]] = "absent"
  BY DEF ResumesAlone
<1>3. hjob'[r] = hjob[r] /\ (hpc[r] \in {"resumeCas", "resumeAdd"} \/ bull'[hjob[r]] = "absent")
  BY <1>1, <1>2 DEF Tending, ResumesAfter
<1>4. CASE hpc[r] \in {"resumeCas", "resumeAdd"}
  <2>1. "resume" \in Asks
    BY <1>1, <1>4 DEF ListenersAlone, Resuming
  <2>2. phase = "up" /\ \A q \in Requests : q = r
    BY <1>1, <2>1 DEF InTurn, AddsInTurn, AddsFirst
  <2>3. hjob[r] \in Downloads /\ bull[hjob[r]] = "absent"
    BY <1>1, <1>4 DEF ResumesAlone
  <2>4. QueueMoves(hjob[r])
    BY <1>1, <2>3 DEF Moves, Census
  <2> QED BY <1>2, <1>3, <2>2, <2>3, <2>4 DEF QueueMoves
<1> QED BY <1>3, <1>4

\* An execution still ends for good only with its row.
LEMMA EndsStayRetried ==
  ASSUME Tended
  PROVE  EndsRetried'
<1>1. /\ ResumesAlone /\ EndsRetried /\ RunnersHoldRow /\ Tending
      /\ IInv /\ WorkInWorker
  BY DEF Tended, Settled, OwnerInv, QueueInv
<1>2. SUFFICES ASSUME NEW j \in Downloads
               PROVE  /\ jobStatus'[j] = "QUEUED" /\ pc'[j] \in SettleSteps =>
                           \/ pc'[j] = "settleThrow" /\ made'[j] + 1 < DownloadAttempts
                           \/ phase' = "draining"
                      /\ pc'[j] = "failRetry" => made'[j] + 1 < DownloadAttempts
                      /\ pc'[j] = "abortHop" => Terminal(j)'
                      /\ ctl'[j] = "shutdown" => phase' = "draining"
  BY DEF EndsRetried
<1>3. RowQueues(j) /\ QueueLeaves(j) /\ ProcessEnds(j)
  BY <1>1 DEF Tending, Tends
<1>4. pc[j] # "idle" => bull[j] = "active" /\ phase # "rows" /\ Exists(j)
  BY <1>1, JobsAssumption DEF Tended, Settled, CancelInv, Locked, HoldsLock, Tidy, Faultless, WorkInWorker
<1>5. pc[j] # "idle" /\ pc'[j] # "idle" => made'[j] = made[j] /\ (phase = "draining" => phase' = "draining")
  BY <1>3, <1>4 DEF QueueLeaves, ProcessEnds
<1>6. Terminal(j) => Terminal(j)'
  <2>1. RowsMove /\ j \in Jobs
    BY NextKeeps DEF Tended, Settled, Kept
  <2> QED BY <1>1, <2>1 DEF RowsMove, CreateRow
<1>7. pc'[j] = "failRetry" => made'[j] + 1 < DownloadAttempts
  BY <1>1, <1>3, <1>5 DEF ProcessEnds, EndsRetried
<1>8. pc'[j] = "abortHop" => Terminal(j)'
  BY <1>1, <1>3, <1>6 DEF ProcessEnds, EndsRetried
<1>9. ctl'[j] = "shutdown" => phase' = "draining"
  BY <1>1, <1>3 DEF ProcessEnds, EndsRetried
<1>10. ASSUME jobStatus'[j] = "QUEUED", pc'[j] \in SettleSteps
       PROVE  \/ pc'[j] = "settleThrow" /\ made'[j] + 1 < DownloadAttempts
              \/ phase' = "draining"
  <2>1. pc[j] # "idle" /\ pc'[j] # "idle"
    BY <1>3, <1>10 DEF ProcessEnds
  <2>2. ASSUME jobStatus[j] # "QUEUED"
        PROVE  pc[j] = "failRetry" \/ (pc[j] = "abort" /\ ctl[j] = "shutdown")
    <3>1. ASSUME NEW r \in Requests, hjob[r] = j, hpc[r] = "resumeCas"
          PROVE  FALSE
      BY <1>1, <1>4, <2>1, <3>1 DEF ResumesAlone
    <3> QED BY <1>3, <1>4, <1>10, <2>1, <2>2, <3>1 DEF RowQueues
  <2>3. CASE pc'[j] = pc[j]
    BY <1>1, <1>5, <1>10, <2>1, <2>2, <2>3 DEF EndsRetried
  <2>4. CASE pc[j] = "failRetry" /\ pc'[j] = "settleThrow"
    BY <1>1, <1>5, <2>1, <2>4 DEF EndsRetried
  <2>5. CASE pc[j] = "abort" /\ UNCHANGED phase /\ (jobStatus[j] # "RUNNING" \/ ctl[j] = "shutdown")
    BY <1>1, <2>5 DEF EndsRetried, RunnersHoldRow, Working
  <2>6. CASE pc[j] = "abortHop" /\ UNCHANGED jobStatus
    BY <1>1, <1>10, <2>6 DEF EndsRetried
  <2>7. CASE /\ pc[j] = "chainAdd" /\ UNCHANGED jobStatus
             /\ faults'["redis"] = faults["redis"] + 1
    <3>1. \A k \in FaultKinds : faults[k] \in Nat /\ faults'[k] \in Nat /\ faults'[k] >= faults[k]
      BY TidyBefore, NextKeeps DEF Tended, Settled, Kept, Lives
    <3>2. faults["redis"] = 0 /\ faults'["redis"] > 0
      BY <2>7, <3>1 DEF Tended, InTurn, AddsInTurn
    <3>3. faults["crash"] = 0
      BY <3>1, <3>2 DEF Tended, InTurn, Tidy, NotOvertaken
    <3>4. Smooth
      BY <3>2, <3>3 DEF Smooth, Tended, InTurn, Tidy, Faultless
    <3>5. jobStatus[j] # "QUEUED"
      BY <2>7, <3>4 DEF Tended, PauseInv, WorkersMatch, WorkSteps
    <3> QED BY <1>10, <2>7, <3>5
  <2> QED BY <1>3, <1>10, <2>3, <2>4, <2>5, <2>6, <2>7 DEF ProcessEnds
<1> QED BY <1>7, <1>8, <1>9, <1>10

\* A QUEUED row stays attended.
LEMMA RowsStayAttended ==
  ASSUME Tended
  PROVE  RowsAttended'
<1>1. RowsAttended /\ EndsRetried /\ Tending /\ IInv
  BY DEF Tended, Settled, QueueInv
<1>2. SUFFICES ASSUME NEW j \in Downloads, jobStatus'[j] = "QUEUED"
               PROVE  \/ bull'[j] # "absent"
                      \/ lpc'[j] \in {"row", "mark"}
                      \/ \E r \in Requests : hjob'[r] = j /\ hpc'[r] \in Owing
                      \/ phase' \in {"draining", "down"}
                      \/ phase' = "rows" /\ Todo(j)'
  BY DEF RowsAttended
<1>3. Tends(j)
  BY <1>1 DEF Tending
<1>4. CASE jobStatus[j] # "QUEUED"
  <2>1. pc[j] # "idle" => bull[j] = "active"
    BY <1>1 DEF Tended, Settled, CancelInv, Locked, HoldsLock, Tidy, Faultless
  <2> QED BY <1>2, <1>3, <1>4, <2>1 DEF Tends, RowQueues, Owing, Todo
<1>5. CASE jobStatus[j] = "QUEUED" /\ bull[j] # "absent"
  <2>1. CASE pc[j] \in SettleSteps /\ UNCHANGED <<jobStatus, phase>> /\ (pc[j] = "settleThrow" => made[j] + 1 >= DownloadAttempts)
    <3>1. made[j] + 1 < DownloadAttempts => ~(made[j] + 1 >= DownloadAttempts)
      BY <1>1, JobsAssumption, BoundsAssumption
    <3> QED BY <1>1, <1>5, <2>1, <3>1 DEF EndsRetried
  <2>2. CASE \E r \in Requests : hjob'[r] = j /\ hpc'[r] \in {"cancelSettle", "pauseSettle"}
    BY <2>2 DEF Owing
  <2> QED BY <1>3, <1>5, <2>1, <2>2 DEF Tends, QueueLeaves
<1>6. CASE lpc[j] \in {"row", "mark"} \/ \E r \in Requests : hjob[r] = j /\ hpc[r] \in Owing
  BY <1>2, <1>3, <1>6 DEF Tends, Owes
<1>7. CASE phase \in {"draining", "down"} \/ (phase = "rows" /\ Todo(j))
  BY <1>2, <1>3, <1>7 DEF Tends, Boots
<1> QED BY <1>1, <1>4, <1>5, <1>6, <1>7 DEF RowsAttended

\* An empty vault has no QUEUED row.
LEMMA InitQueue == Init => QueueInv
BY JobsAssumption DEF Init, QueueInv, RowsAttended, EndsRetried, ResumesAlone

\* Every step keeps the QUEUED rows attended.
LEMMA NextQueue ==
  ASSUME IInv, ExecInv, OneActiveDownload, WorkInWorker, CancelInv, PauseInv, OwnerInv, QueueInv, [Next]_vars
  PROVE  QueueInv'
<1>1. SUFFICES ASSUME InTurn'
               PROVE  (RowsAttended /\ EndsRetried /\ ResumesAlone)'
  BY DEF QueueInv
<1>2. Tended
  BY <1>1, InTurnBefore DEF Tended, Settled
<1> QED BY <1>2, RowsStayAttended, EndsStayRetried, ResumesStayAlone

\* While the worker is up, there is no boot left to wait for.
LEMMA QueueNoOrphan == QueueInv => QueuedHasExecution
<1> SUFFICES ASSUME QueueInv, InTurn, phase = "up", NEW j \in Downloads, jobStatus[j] = "QUEUED"
             PROVE  \/ bull[j] # "absent"
                    \/ lpc[j] \in {"row", "mark"}
                    \/ \E r \in Requests :
                         /\ hjob[r] = j
                         /\ hpc[r] \in {"add", "undoRow", "resumeAdd", "resumeUndo",
                                        "cancelSettle", "pauseSettle"}
  BY DEF QueuedHasExecution, InTurn, Tidy, Faultless
<1> QED BY DEF QueueInv, RowsAttended, Owing

\* A QUEUED row is attended in every state.
LEMMA QueueInvariance == Spec => []QueueInv
<1>1. IInv /\ ExecInv /\ OneActiveDownload /\ WorkInWorker /\ CancelInv /\ PauseInv /\ OwnerInv /\ QueueInv
      /\ [Next]_vars => QueueInv'
  BY NextQueue
<1> QED BY <1>1, InitQueue, Invariance, ExecutionInvariance, OneActiveDownloadHolds, OwnershipInvariance,
        OwnerInvariance, PTL DEF Spec

-----------------------------------------------------------------------------
\* Who writes staging, who frees a video, and who creates a row.

\* The steps of a cancel between its settle and its hop.
Releasing == {"cancelWipe", "cancelRead", "cancelHop"}

\* Staging is written by an execution at work, or wiped by a cancel.
StagingMoves(v) ==
    staging'[v] # staging[v] =>
        /\ UNCHANGED jobStatus
        /\ \/ \E i \in Downloads : pc[i] \in {"prepare", "run", "publish", "abort"} /\ jobVideo[i] = v
           \/ \E r \in Requests : hpc[r] = "cancelWipe" /\ jobVideo[hjob[r]] = v

\* A video leaves QUEUED and DOWNLOADING by the execution that worked on it, a
\* listener, a sweep, or a request that settled its row.
LeavesFlight(v) ==
    copyState[v] \in InFlight /\ copyState'[v] \notin InFlight =>
        \/ \E i \in Downloads :
             /\ jobVideo[i] = v
             /\ \/ pc[i] = "advance" /\ pc'[i] \in {"chain", "finish"}
                \/ pc[i] = "failFinal" /\ pc'[i] = "failRow"
                \/ pc[i] = "abortHop" /\ pc'[i] # "abortHop"
        \/ \E i \in Jobs : lpc[i] # "idle"
        \/ phase \in {"downloading", "queued", "verifying"}
        \/ \E r \in Requests :
             /\ jobVideo[hjob[r]] = v
             /\ hpc[r] = "undoVideo" \/ (hpc[r] = "cancelHop" /\ hpc'[r] = "idle")

\* A download is created by a request that was free, for a video not in flight.
RowAppears(j) ==
    ~Exists(j) /\ Exists(j)' =>
        /\ \E r \in Requests : hpc[r] = "idle" /\ hpc'[r] = "add"
        /\ copyState[jobVideo'[j]] \notin InFlight
        /\ copyState'[jobVideo'[j]] = "QUEUED"
        /\ UNCHANGED staging

\* A cancel goes on to wipe once it has settled its QUEUED or PAUSED row.
Cancels(r) ==
    hpc'[r] \in Releasing =>
        /\ hjob'[r] = hjob[r]
        /\ \/ hpc[r] \in Releasing
           \/ /\ hpc[r] = "cancelSettle"
              /\ jobStatus[hjob[r]] \in {"QUEUED", "PAUSED"}
              /\ jobStatus' = [jobStatus EXCEPT ![hjob[r]] = "CANCELED"]
              /\ UNCHANGED <<copyState, pc, jobVideo>>
              /\ \A q \in Requests \ {r} : UNCHANGED <<hpc[q], hjob[q]>>

Freeing ==
    /\ \A v \in Videos : StagingMoves(v) /\ LeavesFlight(v)
    /\ \A j \in Downloads : RowAppears(j)
    /\ \A r \in Requests : Cancels(r)

USE DEF Freeing, StagingMoves, LeavesFlight, RowAppears, Cancels, Releasing, InFlight

\* What leaves rows, videos and staging alone frees nothing.
LEMMA QuietFrees ==
  ASSUME UNCHANGED <<jobStatus, copyState, staging, apiVars>>
  PROVE  Freeing
OBVIOUS

\* A step of a download works on its own row and video.
LEMMA DownloadStepFrees ==
  ASSUME IInv, NEW i \in Downloads, DownloadStep(i) \/ DownloadThrows(i) \/ Restart(i)
  PROVE  Freeing
<1> USE JobsAssumption DEF Goto, Leave, MarkFinished, CasRow, TransitionCopy
<1>1. CASE Load(i) \/ RunAborted(i) \/ RunSucceeded(i) \/ RunFailed(i) \/ PublishFailed(i) \/ ChainAdd(i)
  <2> HIDE DEF Freeing
  <2> QED BY <1>1, QuietFrees DEF Load, RunAborted, RunSucceeded, RunFailed, PublishFailed, ChainAdd
<1>2. CASE ClaimDownload(i)
  BY <1>2 DEF ClaimDownload, Claim, Claimable
<1>3. CASE Begin(i)
  BY <1>3 DEF Begin, Reject
<1>4. CASE Reread(i)
  BY <1>4 DEF Reread, Reject
<1>5. CASE Prepare(i) \/ Publish(i) \/ Restart(i)
  BY <1>5 DEF Prepare, WipeIfFresh, Publish, Wipe, Restart, RunUnresumable, Writes
<1>6. CASE Advance(i)
  BY <1>6 DEF Advance
<1>7. CASE Chain(i)
  <2>1. PICK k \in Verifies : NextId(k, Verifies) /\ CreateRow(k, jobVideo[i])
    BY <1>7 DEF Chain
  <2>2. /\ \A d \in Downloads : jobStatus'[d] = jobStatus[d]
        /\ UNCHANGED <<copyState, staging, apiVars>>
    BY <1>7, <2>1 DEF Chain, CreateRow
  <2> QED BY <2>2
<1>8. CASE Abort(i)
  BY <1>8 DEF Abort, MarkRequeued, MarkPaused, AbortWipes, Wipe
<1>9. CASE AbortRow(i)
  BY <1>9 DEF AbortRow
<1>10. CASE AbortHop(i)
  BY <1>10 DEF AbortHop
<1>11. CASE BareThrow(i) \/ RejectSwallows(i) \/ CaughtThrow(i) \/ AbortSwallows(i)
  <2> HIDE DEF Freeing
  <2> QED BY <1>11, QuietFrees DEF BareThrow, RejectSwallows, CaughtThrow, AbortSwallows
<1>12. CASE PointerLost(i)
  BY <1>12 DEF PointerLost, WipeIfFresh, Wipe
<1> HIDE DEF Freeing
<1> QED BY <1>1, <1>2, <1>3, <1>4, <1>5, <1>6, <1>7, <1>8, <1>9, <1>10, <1>11, <1>12 DEF DownloadStep, DownloadThrows, Restart

\* A verify judges a video past flight.
LEMMA VerifyStepFrees ==
  ASSUME IInv, NEW i \in Verifies, VerifyStep(i) \/ VerifyThrows(i)
  PROVE  Freeing
<1> USE JobsAssumption DEF Goto, Leave, MarkFinished, CasRow, TransitionCopy
<1>1. CASE ClaimVerify(i)
  BY <1>1 DEF ClaimVerify
<1>2. CASE ReadVideo(i)
  BY <1>2 DEF ReadVideo
<1>3. CASE Probe(i) \/ VerifyThrows(i)
  <2> HIDE DEF Freeing
  <2> QED BY <1>3, QuietFrees DEF Probe, VerifyThrows
<1>4. CASE Verdict(i)
  BY <1>4 DEF Verdict
<1> QED BY <1>1, <1>2, <1>3, <1>4 DEF VerifyStep

\* The end of an execution, BullMQ and the listener.
LEMMA SharedStepFrees ==
  ASSUME IInv, NEW i \in Jobs,
         \/ SharedStep(i) \/ RecorderSwallows(i) \/ ListenerSwallows(i) \/ ListenerThrows(i)
         \/ Pickup(i) \/ BackoffOver(i) \/ StallDetected(i) \/ StallFailed(i)
         \/ Listen(i) \/ LockLost(i)
  PROVE  Freeing
<1> USE JobsAssumption DEF Goto, Leave, MarkFinished, CasRow, TransitionCopy
<1>1. CASE FailFinal(i)
  BY <1>1 DEF FailFinal, WorkState
<1>2. CASE FailRow(i) \/ Finish(i)
  BY <1>2 DEF FailRow, Finish
<1>3. CASE FailRetry(i)
  BY <1>3 DEF FailRetry, MarkRequeued
<1>4. CASE ListenMark(i)
  BY <1>4 DEF ListenMark
<1>5. CASE ListenVideo(i)
  BY <1>5 DEF ListenVideo, WorkState
<1>6. CASE ListenHeal(i)
  BY <1>6 DEF ListenHeal
<1>7. CASE \/ Settle(i) \/ RecorderSwallows(i) \/ ListenerSwallows(i) \/ ListenerThrows(i)
           \/ Pickup(i) \/ BackoffOver(i) \/ StallDetected(i) \/ StallFailed(i)
           \/ ListenRow(i) \/ ListenOwners(i) \/ LockLost(i)
  <2> HIDE DEF Freeing
  <2> QED BY <1>7, QuietFrees DEF Settle, RecorderSwallows, ListenerSwallows, ListenerThrows, Dies, Pickup, Activate,
             BackoffOver, StallDetected, StallFailed, ListenRow, ListenOwners, LockLost
<1> HIDE DEF Freeing
<1> QED BY <1>1, <1>2, <1>3, <1>4, <1>5, <1>6, <1>7 DEF SharedStep, Listen

\* The worker process: a boot writes no staging and creates no row.
LEMMA ProcessFrees ==
  ASSUME IInv, Drain \/ Drained \/ Crash \/ BootFails \/ BootStep
  PROVE  Freeing
<1> USE JobsAssumption
<1> HIDE DEF Freeing
<1>1. CASE Drain \/ Drained \/ Crash \/ BootFails
  BY <1>1, QuietFrees DEF Drain, Drained, Crash, BootFails, Dies
<1>2. CASE Boot \/ Started \/ NextList \/ \E i \in Jobs : ReAdd(i)
  BY <1>2, QuietFrees DEF Boot, Started, NextList, ReadList, ReAdd
<1>3. ASSUME NEW i \in Jobs, NEW status \in {"QUEUED", "RUNNING"}, CheckRow(i, status)
      PROVE  Freeing
  <2>1. UNCHANGED <<copyState, staging, apiVars>> /\ \A d \in Jobs : Exists(d)' => Exists(d)
    BY <1>3 DEF CheckRow, HandBack, MarkRequeued, CasRow
  <2> QED BY <2>1 DEF Freeing
<1>4. ASSUME NEW v \in Videos, NEW to \in {"CANDIDATE", "FAILED"}, SweepVideo(v, to)
      PROVE  Freeing
  <2>1. /\ phase \in {"downloading", "queued", "verifying"}
        /\ UNCHANGED <<jobStatus, staging, apiVars>>
    BY <1>4 DEF SweepVideo
  <2> QED BY <2>1 DEF Freeing
<1>5. CASE BootStep
  BY <1>2, <1>3, <1>4, <1>5 DEF BootStep
<1> QED BY <1>1, <1>5

\* A request creates one row, or settles its own.
LEMMA AskFrees ==
  ASSUME IInv, NEW q \in Requests, Ask(q)
  PROVE  Freeing
<1> USE JobsAssumption DEF Start
<1>1. CASE \E v \in Videos : Enqueue(q, v)
  <2>1. PICK v \in Videos : Enqueue(q, v)
    BY <1>1
  <2>2. PICK k \in Downloads : /\ NextId(k, Downloads) /\ CreateRow(k, v) /\ Start(q, "add", k, FALSE)
    BY <2>1 DEF Enqueue
  <2>3. /\ copyState[v] \notin InFlight /\ copyState' = [copyState EXCEPT ![v] = "QUEUED"]
        /\ UNCHANGED staging
    BY <2>1 DEF Enqueue, EnqueueableStates
  <2>4. \A u \in Videos : StagingMoves(u) /\ LeavesFlight(u)
    BY <2>3
  <2>5. \A j \in Downloads : RowAppears(j)
    BY <2>2, <2>3 DEF NextId, CreateRow
  <2>6. \A r \in Requests : Cancels(r)
    BY <2>2
  <2> QED BY <2>4, <2>5, <2>6
<1>2. CASE \E j \in Downloads : Cancel(q, j) \/ Pause(q, j)
  BY <1>2 DEF Cancel, Pause, Command
<1>3. CASE "resume" \in Asks /\ \E j \in Downloads : Resume(q, j)
  BY <1>3 DEF Resume
<1> HIDE DEF Freeing
<1> QED BY <1>1, <1>2, <1>3 DEF Ask

\* A request wipes or frees a video only on its way out of a settled row, or to
\* undo its own enqueue.
LEMMA ServeFrees ==
  ASSUME IInv, NEW q \in Requests, Serve(q) \/ RequestFails(q)
  PROVE  Freeing
<1> USE JobsAssumption DEF Then, Answer, CasRow, TransitionCopy
<1>1. CASE \/ AddExecution(q) \/ ResumeAdd(q) \/ AddRejected(q) \/ ResumeRejected(q) \/ RequestDies(q)
           \/ ResumeFree(q) \/ ResumeTimeout(q) \/ Signal(q) \/ SignalRejected(q)
  BY <1>1 DEF AddExecution, ResumeAdd, AddRejected, ResumeRejected, RequestDies, ResumeFree, ResumeTimeout, Signal, SignalRejected
<1>2. CASE UndoRow(q) \/ ResumeUndo(q) \/ ResumeCas(q) \/ PauseSettle(q)
  BY <1>2 DEF UndoRow, ResumeUndo, ResumeCas, PauseSettle, Pausable
<1>3. CASE UndoVideo(q)
  BY <1>3 DEF UndoVideo
<1>4. CASE RemoveExecution(q, "cancelRemove", "cancelSettle") \/ RemoveExecution(q, "pauseRemove", "pauseSettle")
  BY <1>4 DEF RemoveExecution
<1>5. CASE RereadRow(q, "cancelReread", "signalCancel") \/ RereadRow(q, "pauseReread", "signalPause")
  BY <1>5 DEF RereadRow
<1>6. CASE CancelSettle(q)
  BY <1>6 DEF CancelSettle, Cancelable
<1>7. CASE CancelWipe(q)
  BY <1>7 DEF CancelWipe, Wipe
<1>8. CASE CancelRead(q)
  BY <1>8 DEF CancelRead
<1>9. CASE CancelHop(q)
  BY <1>9 DEF CancelHop
<1> HIDE DEF Freeing
<1> QED BY <1>1, <1>2, <1>3, <1>4, <1>5, <1>6, <1>7, <1>8, <1>9 DEF Serve, RequestFails

\* It holds of every step, whatever fails.
LEMMA NextFrees ==
  ASSUME IInv, [Next]_vars
  PROVE  Freeing
<1> HIDE DEF Freeing
<1>1. ASSUME NEW i \in Jobs, ExecutionStep(i) \/ Restart(i) \/ Throws(i)
      PROVE  Freeing
  BY <1>1, DownloadStepFrees, VerifyStepFrees, SharedStepFrees DEF ExecutionStep, Throws, Restart
<1>2. ASSUME NEW i \in Jobs,
             \/ Pickup(i) \/ BackoffOver(i) \/ StallDetected(i) \/ StallFailed(i)
             \/ Listen(i) \/ LockLost(i)
      PROVE  Freeing
  BY <1>2, SharedStepFrees
<1>3. CASE Drain \/ Drained \/ Crash \/ BootFails \/ BootStep
  BY <1>3, ProcessFrees
<1>4. ASSUME NEW q \in Requests, Ask(q) \/ Serve(q) \/ RequestFails(q)
      PROVE  Freeing
  BY <1>4, AskFrees, ServeFrees
<1>5. ASSUME NEW m \in control, Deliver(m)
      PROVE  Freeing
  BY <1>5, QuietFrees DEF Deliver
<1>6. CASE UNCHANGED vars
  BY <1>6, QuietFrees DEF vars
<1> QED BY <1>1, <1>2, <1>3, <1>4, <1>5, <1>6 DEF Next
HIDE DEF Freeing, StagingMoves, LeavesFlight, RowAppears, Cancels, Releasing

-----------------------------------------------------------------------------
\* The partial of a paused download is kept.

\* Nothing fails and the worker stays up.
Eventless == Without(FaultKinds)

\* A video nobody downloads, still in flight: whoever settled its row is on the
\* way to move it on.
Free(v) == ActiveDownloads(v) = {} /\ copyState[v] \in InFlight

\* An active row has its video in flight, until its own execution has moved it on.
RowsInFlight ==
    \A j \in Downloads : Active(j) =>
        \/ copyState[jobVideo[j]] \in InFlight
        \/ pc[j] \in {"chain", "chainAdd", "finish", "failRow"}

\* Whoever frees a video is alone to do so: no row has it, and none can have it
\* before the hop.
FreedByOne ==
    /\ \A r \in Requests : hpc[r] \in Releasing => Free(jobVideo[hjob[r]])
    /\ \A i \in Downloads : pc[i] = "abortHop" => Free(jobVideo[i])
    /\ \A r, q \in Requests :
         /\ hpc[r] \in Releasing
         /\ hpc[q] \in Releasing
         /\ jobVideo[hjob[r]] = jobVideo[hjob[q]]
         => r = q
    /\ \A i, k \in Downloads :
         pc[i] = "abortHop" /\ pc[k] = "abortHop" /\ jobVideo[i] = jobVideo[k] => i = k
    /\ \A r \in Requests, i \in Downloads :
         hpc[r] \in Releasing /\ pc[i] = "abortHop" => jobVideo[hjob[r]] # jobVideo[i]

FlightInv == Eventless => RowsInFlight /\ FreedByOne

\* A lone request that wipes has settled the only row of the video, and no
\* request is free to create another.
WipeInv ==
    (\A r, q \in Requests : r = q) =>
        \A r \in Requests : hpc[r] \in Releasing => ActiveDownloads(jobVideo[hjob[r]]) = {}

\* What holds before a step in which nothing fails.
Quiet ==
    /\ IInv /\ OneActiveDownload /\ Tending /\ Freeing /\ RowsMove /\ RowsInFlight /\ FreedByOne
    /\ RunnersHoldRow /\ WorkersMatch
    /\ phase = "up" /\ phase' = "up"
    /\ \A k \in FaultKinds : faults[k] = 0 /\ faults'[k] = 0
    /\ \A j \in Jobs : lpc[j] = "idle"
    /\ \A r \in Requests : hpc[r] # "undoVideo"

\* A run without a failure had none before.
LEMMA QuietBefore ==
  ASSUME IInv, ExecInv, OneActiveDownload, PauseInv, OwnerInv, FlightInv, [Next]_vars, Eventless'
  PROVE  Quiet
<1>1. \A k \in FaultKinds : faults'[k] = 0
  BY DEF Eventless
<1>2. Tidy' /\ Faultless'
  BY <1>1 DEF Tidy, NotOvertaken, Faultless
<1>3. Tidy /\ Lives /\ Tending /\ Freeing /\ RowsMove
  BY <1>2, TidyBefore, NextTends, NextFrees, NextKeeps DEF Kept
<1>4. \A k \in FaultKinds : faults[k] = 0
  BY <1>1, <1>3 DEF Lives
<1>5. Eventless /\ Smooth /\ Undisturbed
  BY <1>4 DEF Eventless, Smooth, Undisturbed
<1>6. phase = "up" /\ \A r \in Requests : hpc[r] # "undoVideo"
  BY <1>3, <1>4 DEF OwnerInv, AddsFirst
<1>7. phase' = "up"
  BY <1>1, <1>3, <1>6 DEF Lives
<1>8. RowsInFlight /\ FreedByOne /\ RunnersHoldRow /\ WorkersMatch /\ NothingStalled
  BY <1>3, <1>5 DEF FlightInv, OwnerInv, PauseInv, ExecInv
<1> QED BY <1>1, <1>3, <1>4, <1>6, <1>7, <1>8 DEF Quiet, NothingStalled

\* Rows keep their video; one that is active was so before, or is new.
LEMMA RowsKeepVideo ==
  ASSUME RowsMove, IInv, NEW j \in Downloads
  PROVE  /\ Exists(j) => jobVideo'[j] = jobVideo[j]
         /\ Active(j)' => Active(j) \/ (~Exists(j) /\ Exists(j)')
<1>1. j \in Jobs
  OBVIOUS
<1>2. CASE /\ jobVideo' = jobVideo
           /\ \A i \in Jobs :
                \/ jobStatus'[i] = jobStatus[i]
                \/ Active(i) /\ jobStatus'[i] \in ActiveStatuses \cup TerminalStatuses
  BY <1>1, <1>2
<1>3. CASE \E i \in Jobs, u \in Videos : ~Exists(i) /\ CreateRow(i, u)
  BY <1>1, <1>3 DEF CreateRow
<1> QED BY <1>2, <1>3 DEF RowsMove

\* While nothing fails a video leaves flight by the row that has it, or by
\* whoever settled that row.
LEMMA LeavesByOwner ==
  ASSUME Quiet, NEW v \in Videos, copyState[v] \in InFlight, copyState'[v] \notin InFlight
  PROVE  \/ \E i \in Downloads : /\ jobVideo[i] = v /\ Active(i)
                                 /\ pc'[i] \in {"chain", "finish", "failRow"}
         \/ \E i \in Downloads : pc[i] = "abortHop" /\ jobVideo[i] = v /\ pc'[i] # "abortHop"
         \/ \E r \in Requests :
              hpc[r] = "cancelHop" /\ jobVideo[hjob[r]] = v /\ hpc'[r] = "idle"
<1>1. LeavesFlight(v)
  BY DEF Quiet, Freeing
<1>2. ASSUME NEW i \in Downloads, pc[i] \in {"advance", "failFinal"}
      PROVE  Active(i)
  BY <1>2 DEF Quiet, RunnersHoldRow, Working
<1> QED BY <1>1, <1>2 DEF LeavesFlight, Quiet

\* A free video gets no row, and leaves flight by whoever frees it only.
LEMMA FreeUntilHop ==
  ASSUME Quiet, NEW v \in Videos, Free(v)
  PROVE  /\ ActiveDownloads(v)' = {}
         /\ \/ copyState'[v] \in InFlight
            \/ \E i \in Downloads : pc[i] = "abortHop" /\ jobVideo[i] = v /\ pc'[i] # "abortHop"
            \/ \E r \in Requests :
                 hpc[r] = "cancelHop" /\ jobVideo[hjob[r]] = v /\ hpc'[r] = "idle"
<1>1. ASSUME NEW j \in Downloads, jobVideo'[j] = v, Active(j)'
      PROVE  FALSE
  <2>1. /\ Exists(j) => jobVideo'[j] = jobVideo[j]
        /\ Active(j) \/ (~Exists(j) /\ Exists(j)')
    BY <1>1, RowsKeepVideo DEF Quiet
  <2>2. RowAppears(j)
    BY DEF Quiet, Freeing
  <2> QED BY <1>1, <2>1, <2>2 DEF RowAppears, Free, ActiveDownloads
<1>2. ActiveDownloads(v)' = {}
  BY <1>1 DEF ActiveDownloads
<1>3. ~\E i \in Downloads : jobVideo[i] = v /\ Active(i)
  BY DEF Free, ActiveDownloads
<1> QED BY <1>2, <1>3, LeavesByOwner DEF Free

\* Rows stay in flight with their video.
LEMMA RowsStayInFlight ==
  ASSUME Quiet
  PROVE  RowsInFlight'
<1>1. SUFFICES ASSUME NEW j \in Downloads, Active(j)'
               PROVE  \/ copyState'[jobVideo'[j]] \in InFlight
                      \/ pc'[j] \in {"chain", "chainAdd", "finish", "failRow"}
  BY DEF RowsInFlight
<1>2. /\ Exists(j) => jobVideo'[j] = jobVideo[j]
      /\ Active(j) \/ (~Exists(j) /\ Exists(j)')
  BY <1>1, RowsKeepVideo DEF Quiet
<1>3. RowAppears(j) /\ ProcessEnds(j)
  BY DEF Quiet, Freeing, Tending, Tends
<1>4. CASE ~Exists(j) /\ Exists(j)'
  BY <1>3, <1>4 DEF RowAppears, InFlight
<1>5. CASE Active(j) /\ pc[j] \in {"chain", "chainAdd", "finish", "failRow"}
  <2>1. phase' # "down" /\ ~(faults'["redis"] > faults["redis"]) /\ ~Terminal(j)'
    BY <1>1 DEF Quiet
  <2> QED BY <1>3, <1>5, <2>1 DEF ProcessEnds
<1>6. CASE Active(j) /\ copyState[jobVideo[j]] \in InFlight
  <2>1. jobVideo[j] \in Videos /\ jobVideo'[j] = jobVideo[j]
    BY <1>2, <1>6 DEF Quiet
  <2>2. j \in ActiveDownloads(jobVideo[j])
    BY <1>6 DEF ActiveDownloads
  <2>3. ASSUME NEW i \in Downloads, jobVideo[i] = jobVideo[j], Active(i)
        PROVE  i = j
    BY <1>6, <2>3 DEF Quiet, OneActiveDownload
  <2>4. ASSUME copyState'[jobVideo[j]] \notin InFlight
        PROVE  pc'[j] \in {"chain", "finish", "failRow"}
    <3>1. ASSUME NEW i \in Downloads, pc[i] = "abortHop", jobVideo[i] = jobVideo[j]
          PROVE  FALSE
      BY <2>2, <3>1 DEF Quiet, FreedByOne, Free
    <3>2. ASSUME NEW r \in Requests, hpc[r] = "cancelHop", jobVideo[hjob[r]] = jobVideo[j]
          PROVE  FALSE
      BY <2>2, <3>2 DEF Quiet, FreedByOne, Free, Releasing
    <3> QED BY <1>6, <2>1, <2>3, <2>4, <3>1, <3>2, LeavesByOwner
  <2> QED BY <2>1, <2>4
<1> QED BY <1>2, <1>4, <1>5, <1>6 DEF Quiet, RowsInFlight

\* A cancel that has settled its row leaves the video free, and no one else was
\* freeing it.
LEMMA CancelFrees ==
  ASSUME Quiet, NEW r \in Requests, hpc'[r] \in Releasing, hpc[r] \notin Releasing
  PROVE  /\ hjob'[r] = hjob[r] /\ hjob[r] \in Downloads /\ Active(hjob[r])
         /\ jobVideo'[hjob[r]] = jobVideo[hjob[r]]
         /\ Free(jobVideo[hjob[r]])'
         /\ UNCHANGED pc
         /\ \A q \in Requests \ {r} : UNCHANGED <<hpc[q], hjob[q]>>
<1>1. /\ hjob'[r] = hjob[r] /\ hpc[r] = "cancelSettle"
      /\ jobStatus[hjob[r]] \in {"QUEUED", "PAUSED"}
      /\ jobStatus' = [jobStatus EXCEPT ![hjob[r]] = "CANCELED"]
      /\ UNCHANGED <<copyState, pc, jobVideo>>
      /\ \A q \in Requests \ {r} : UNCHANGED <<hpc[q], hjob[q]>>
  BY DEF Quiet, Freeing, Cancels
<1>2. hjob[r] \in Downloads /\ Active(hjob[r])
  BY <1>1 DEF Quiet
<1>3. copyState[jobVideo[hjob[r]]] \in InFlight
  <2>1. pc[hjob[r]] \notin {"chain", "chainAdd", "finish", "failRow"}
    BY <1>1, <1>2 DEF Quiet, WorkersMatch, WorkSteps
  <2> QED BY <1>2, <2>1 DEF Quiet, RowsInFlight
<1>4. ActiveDownloads(jobVideo[hjob[r]])' = {}
  <2>1. SUFFICES ASSUME NEW k \in Downloads, jobVideo[k] = jobVideo[hjob[r]], Active(k)'
                 PROVE  FALSE
    BY <1>1 DEF ActiveDownloads
  <2>2. k # hjob[r] /\ Active(k)
    BY <1>1, <1>2, <2>1 DEF Quiet
  <2> QED BY <1>2, <2>1, <2>2 DEF Quiet, OneActiveDownload
<1>5. Free(jobVideo[hjob[r]])'
  BY <1>1, <1>3, <1>4 DEF Free, ActiveDownloads
<1> QED BY <1>1, <1>2, <1>5

\* So does a canceled execution that has settled its row.
LEMMA AbortFrees ==
  ASSUME Quiet, NEW i \in Downloads, pc'[i] = "abortHop", pc[i] # "abortHop"
  PROVE  /\ Active(i)
         /\ jobVideo'[i] = jobVideo[i]
         /\ Free(jobVideo[i])'
<1>1. pc[i] = "abortRow" /\ Terminal(i)' /\ UNCHANGED copyState
  BY DEF Quiet, Tending, Tends, ProcessEnds
<1>2. Active(i) /\ jobVideo[i] \in Videos /\ jobVideo'[i] = jobVideo[i]
  BY <1>1, RowsKeepVideo DEF Quiet, RunnersHoldRow, Working
<1>3. copyState[jobVideo[i]] \in InFlight
  BY <1>1, <1>2 DEF Quiet, RowsInFlight
<1>4. ActiveDownloads(jobVideo[i])' = {}
  <2>1. SUFFICES ASSUME NEW k \in Downloads, jobVideo'[k] = jobVideo[i], Active(k)'
                 PROVE  FALSE
    BY <1>2 DEF ActiveDownloads
  <2>2. k # i
    BY <1>1, <2>1
  <2>3. /\ Exists(k) => jobVideo'[k] = jobVideo[k]
        /\ Active(k) \/ (~Exists(k) /\ Exists(k)')
    BY <2>1, RowsKeepVideo DEF Quiet
  <2>4. RowAppears(k)
    BY DEF Quiet, Freeing
  <2>5. Active(k) /\ jobVideo[k] = jobVideo[i]
    BY <1>3, <2>1, <2>3, <2>4 DEF RowAppears
  <2> QED BY <1>2, <2>2, <2>5 DEF Quiet, OneActiveDownload
<1> QED BY <1>1, <1>2, <1>3, <1>4 DEF Free

\* A cancel under way goes on with the same row.
LEMMA CancelGoesOn ==
  ASSUME Quiet, NEW r \in Requests, hpc'[r] \in Releasing
  PROVE  /\ hjob'[r] = hjob[r] /\ hjob[r] \in Downloads
         /\ jobVideo[hjob[r]] \in Videos
         /\ jobVideo'[hjob[r]] = jobVideo[hjob[r]]
<1>1. hjob'[r] = hjob[r] /\ hpc[r] # "idle"
  BY DEF Quiet, Freeing, Cancels, Releasing
<1>2. hjob[r] \in Downloads /\ Exists(hjob[r])
  BY <1>1 DEF Quiet
<1> QED BY <1>1, <1>2, RowsKeepVideo DEF Quiet

\* And an execution under way with its own.
LEMMA AbortGoesOn ==
  ASSUME Quiet, NEW i \in Downloads, pc'[i] = "abortHop"
  PROVE  jobVideo[i] \in Videos /\ jobVideo'[i] = jobVideo[i]
<1>1. pc[i] # "idle"
  BY DEF Quiet, Tending, Tends, ProcessEnds
<1> QED BY <1>1, RowsKeepVideo DEF Quiet

\* A video is still freed by one.
LEMMA StillFreedByOne ==
  ASSUME Quiet
  PROVE  FreedByOne'
<1>1. ASSUME NEW r \in Requests, hpc'[r] \in Releasing
      PROVE  Free(jobVideo[hjob[r]])'
  <2>1. CASE hpc[r] \in Releasing
    <3>1. Free(jobVideo[hjob[r]])
      BY <2>1 DEF Quiet, FreedByOne
    <3>2. ASSUME NEW q \in Requests, hpc[q] = "cancelHop",
                 jobVideo[hjob[q]] = jobVideo[hjob[r]], hpc'[q] = "idle"
          PROVE  FALSE
      BY <1>1, <2>1, <3>2 DEF Quiet, FreedByOne, Releasing
    <3>3. ASSUME NEW i \in Downloads, pc[i] = "abortHop", jobVideo[i] = jobVideo[hjob[r]]
          PROVE  FALSE
      BY <2>1, <3>3 DEF Quiet, FreedByOne
    <3>4. jobVideo[hjob[r]] \in Videos /\ hjob'[r] = hjob[r] /\ jobVideo'[hjob[r]] = jobVideo[hjob[r]]
      BY <1>1, CancelGoesOn
    <3>5. ActiveDownloads(jobVideo[hjob[r]])' = {} /\ copyState'[jobVideo[hjob[r]]] \in InFlight
      BY <3>1, <3>2, <3>3, <3>4, FreeUntilHop DEF ActiveDownloads
    <3> QED BY <3>4, <3>5 DEF Free, ActiveDownloads
  <2>2. CASE hpc[r] \notin Releasing
    BY <1>1, <2>2, CancelFrees DEF Free, ActiveDownloads
  <2> QED BY <2>1, <2>2
<1>2. ASSUME NEW i \in Downloads, pc'[i] = "abortHop"
      PROVE  Free(jobVideo[i])'
  <2>1. CASE pc[i] = "abortHop"
    <3>1. Free(jobVideo[i])
      BY <2>1 DEF Quiet, FreedByOne
    <3>2. ASSUME NEW q \in Requests, hpc[q] = "cancelHop", jobVideo[hjob[q]] = jobVideo[i]
          PROVE  FALSE
      BY <2>1, <3>2 DEF Quiet, FreedByOne, Releasing
    <3>3. ASSUME NEW k \in Downloads, pc[k] = "abortHop", jobVideo[k] = jobVideo[i], pc'[k] # "abortHop"
          PROVE  FALSE
      BY <1>2, <2>1, <3>3 DEF Quiet, FreedByOne
    <3>4. jobVideo[i] \in Videos /\ jobVideo'[i] = jobVideo[i]
      BY <1>2, AbortGoesOn
    <3>5. ActiveDownloads(jobVideo[i])' = {} /\ copyState'[jobVideo[i]] \in InFlight
      BY <3>1, <3>2, <3>3, <3>4, FreeUntilHop DEF ActiveDownloads
    <3> QED BY <3>4, <3>5 DEF Free, ActiveDownloads
  <2>2. CASE pc[i] # "abortHop"
    BY <1>2, <2>2, AbortFrees DEF Free, ActiveDownloads
  <2> QED BY <2>1, <2>2
<1>3. ASSUME NEW r \in Requests, NEW q \in Requests,
             hpc'[r] \in Releasing, hpc'[q] \in Releasing,
             jobVideo'[hjob'[r]] = jobVideo'[hjob'[q]], r # q
      PROVE  FALSE
  <2>1. jobVideo[hjob[r]] = jobVideo[hjob[q]] /\ hjob[r] \in Downloads /\ hjob[q] \in Downloads
    BY <1>3, CancelGoesOn
  <2>2. CASE hpc[r] \in Releasing /\ hpc[q] \in Releasing
    BY <1>3, <2>1, <2>2 DEF Quiet, FreedByOne
  <2>3. CASE hpc[r] \notin Releasing
    <3>1. Active(hjob[r]) /\ hpc[q] \in Releasing
      BY <1>3, <2>3, CancelFrees
    <3> QED BY <2>1, <3>1 DEF Quiet, FreedByOne, Free, ActiveDownloads
  <2>4. CASE hpc[q] \notin Releasing
    <3>1. Active(hjob[q]) /\ hpc[r] \in Releasing
      BY <1>3, <2>4, CancelFrees
    <3> QED BY <2>1, <3>1 DEF Quiet, FreedByOne, Free, ActiveDownloads
  <2> QED BY <2>2, <2>3, <2>4
<1>4. ASSUME NEW i \in Downloads, NEW k \in Downloads, pc'[i] = "abortHop", pc'[k] = "abortHop",
             jobVideo'[i] = jobVideo'[k], i # k
      PROVE  FALSE
  <2>1. jobVideo[i] = jobVideo[k]
    BY <1>4, AbortGoesOn
  <2>2. pc[i] # "abortHop" => Active(i)
    BY <1>4, AbortFrees
  <2>3. pc[k] # "abortHop" => Active(k)
    BY <1>4, AbortFrees
  <2>4. pc[i] = "abortHop" => ~Active(k)
    BY <2>1 DEF Quiet, FreedByOne, Free, ActiveDownloads
  <2>5. pc[k] = "abortHop" => ~Active(i)
    BY <2>1 DEF Quiet, FreedByOne, Free, ActiveDownloads
  <2> QED BY <1>4, <2>1, <2>2, <2>3, <2>4, <2>5 DEF Quiet, FreedByOne, OneActiveDownload
<1>5. ASSUME NEW r \in Requests, NEW i \in Downloads, hpc'[r] \in Releasing, pc'[i] = "abortHop",
             jobVideo'[hjob'[r]] = jobVideo'[i]
      PROVE  FALSE
  <2>1. jobVideo[hjob[r]] = jobVideo[i] /\ hjob[r] \in Downloads
    BY <1>5, CancelGoesOn, AbortGoesOn
  <2>2. hpc[r] \notin Releasing => Active(hjob[r]) /\ pc[i] = "abortHop"
    BY <1>5, CancelFrees
  <2>3. pc[i] # "abortHop" => Active(i)
    BY <1>5, AbortFrees
  <2>4. pc[i] = "abortHop" => ~Active(hjob[r])
    BY <2>1 DEF Quiet, FreedByOne, Free, ActiveDownloads
  <2>5. hpc[r] \in Releasing => ~Active(i)
    BY <2>1 DEF Quiet, FreedByOne, Free, ActiveDownloads
  <2> QED BY <2>1, <2>2, <2>3, <2>4, <2>5 DEF Quiet, FreedByOne
<1> QED BY <1>1, <1>2, <1>3, <1>4, <1>5 DEF FreedByOne

\* In an empty vault nobody frees a video.
LEMMA InitFlight == Init => FlightInv /\ WipeInv
BY JobsAssumption DEF Init, FlightInv, RowsInFlight, FreedByOne, WipeInv, Releasing

\* Every step of a run without a failure keeps its rows in flight.
LEMMA NextFlight ==
  ASSUME IInv, ExecInv, OneActiveDownload, PauseInv, OwnerInv, FlightInv, [Next]_vars
  PROVE  FlightInv'
<1> SUFFICES ASSUME Eventless'
             PROVE  RowsInFlight' /\ FreedByOne'
  BY DEF FlightInv
<1> QED BY QuietBefore, RowsStayInFlight, StillFreedByOne

\* Whatever fails, a lone request wipes before it is free to create a row.
LEMMA NextWipe ==
  ASSUME IInv, OneActiveDownload, WipeInv, [Next]_vars
  PROVE  WipeInv'
<1>1. Freeing /\ RowsMove /\ RequestsLinked' /\ TypeOK'
  BY NextFrees, NextKeeps DEF Kept
<1>2. SUFFICES ASSUME \A r, q \in Requests : r = q,
                      NEW r \in Requests, hpc'[r] \in Releasing,
                      NEW k \in Downloads, jobVideo'[k] = jobVideo'[hjob'[r]], Active(k)'
               PROVE  FALSE
  BY DEF WipeInv, ActiveDownloads
<1>3. Cancels(r) /\ RowAppears(k)
  BY <1>1 DEF Freeing
<1>4. hjob'[r] = hjob[r] /\ hpc[r] # "idle"
  BY <1>2, <1>3 DEF Cancels, Releasing
<1>5. hjob[r] \in Downloads /\ Exists(hjob[r])
  BY <1>4
<1>6. jobVideo'[hjob[r]] = jobVideo[hjob[r]]
  BY <1>1, <1>5, RowsKeepVideo
<1>7. Active(k) /\ jobVideo[k] = jobVideo[hjob[r]]
  <2>1. ~(~Exists(k) /\ Exists(k)')
    BY <1>2, <1>3, <1>4 DEF RowAppears
  <2> QED BY <1>1, <1>2, <1>4, <1>6, <2>1, RowsKeepVideo
<1>8. CASE hpc[r] \in Releasing
  BY <1>2, <1>7, <1>8 DEF WipeInv, ActiveDownloads
<1>9. CASE hpc[r] \notin Releasing
  <2>1. jobStatus[hjob[r]] \in {"QUEUED", "PAUSED"} /\ jobStatus'[hjob[r]] = "CANCELED"
    BY <1>2, <1>3, <1>5, <1>9 DEF Cancels
  <2> QED BY <1>2, <1>5, <1>7, <2>1 DEF OneActiveDownload
<1> QED BY <1>8, <1>9

\* Both hold in every state.
LEMMA FlightInvariance == Spec => [](FlightInv /\ WipeInv)
<1>1. IInv /\ ExecInv /\ OneActiveDownload /\ PauseInv /\ OwnerInv /\ (FlightInv /\ WipeInv)
      /\ [Next]_vars => (FlightInv /\ WipeInv)'
  BY NextFlight, NextWipe
<1> QED BY <1>1, InitFlight, Invariance, ExecutionInvariance, OneActiveDownloadHolds, OwnershipInvariance,
        OwnerInvariance, PTL DEF Spec

\* A step spares the partial of a row that stays parked: its writers are
\* RUNNING, and a wipe finds no row on the video.
LEMMA StepKeepsPartial ==
  ASSUME IInv, ExecInv, OneActiveDownload, FlightInv, WipeInv, [Next]_vars,
         Without({"lock", "crash"}), Without(FaultKinds) \/ \A r, q \in Requests : r = q,
         NEW j \in Downloads, jobStatus'[j] \in {"QUEUED", "PAUSED"},
         staging[jobVideo[j]] = j, staging'[jobVideo[j]] # j
  PROVE  FALSE
<1>1. Freeing
  BY NextFrees
<1>2. Exists(j)
  BY <1>1 DEF Freeing, RowAppears
<1>3. jobVideo[j] \in Videos
  BY <1>2
<1>4. StagingMoves(jobVideo[j])
  BY <1>1, <1>3 DEF Freeing
<1>5. jobStatus[j] \in {"QUEUED", "PAUSED"}
  BY <1>4 DEF StagingMoves
<1>6. ASSUME NEW i \in Downloads, pc[i] \in {"prepare", "run", "publish", "abort"}, jobVideo[i] = jobVideo[j]
      PROVE  FALSE
  <2>1. jobStatus[i] = "RUNNING"
    BY <1>6 DEF ExecInv, Undisturbed, RunnersClaimed, ActsForRow, ClaimedSteps
  <2> QED BY <1>5, <1>6, <2>1 DEF OneActiveDownload
<1>7. ASSUME NEW r \in Requests, hpc[r] = "cancelWipe", jobVideo[hjob[r]] = jobVideo[j]
      PROVE  FALSE
  <2>1. ActiveDownloads(jobVideo[j]) = {}
    BY <1>7 DEF FlightInv, Eventless, FreedByOne, Free, WipeInv, Releasing
  <2> QED BY <1>5, <2>1 DEF ActiveDownloads
<1> QED BY <1>4, <1>6, <1>7 DEF StagingMoves

-----------------------------------------------------------------------------
\* The partial of a row that goes on is its own.

\* No statement fails on the database, no lock is lost, no worker dies.
Calm == Without({"lock", "crash", "db"})

\* The steps of an execution between its read of the row and yt-dlp.
GettingReady == {"claim", "begin", "reread", "prepare"}

\* A row that is not settled points at the partial it left in staging, so an
\* execution that starts afresh has none to lose.
PartialPointed ==
    \A j \in Downloads :
        /\ \A v \in Videos : staging[v] = j => Exists(j) /\ (stagingDir[j] \/ Terminal(j))
        /\ pc[j] = "run" => stagingDir[j] \/ Terminal(j)
        /\ pc[j] \in GettingReady /\ fresh[j] =>
             Terminal(j) \/ \A v \in Videos : staging[v] # j

PointerInv == Calm => PartialPointed

\* What a step may do to the partial of a row and to its pointer.
PointerMoves ==
    /\ \A v \in Videos :
         \/ staging'[v] \in {staging[v], NoJob}
         \/ staging'[v] \in Downloads /\ pc[staging'[v]] = "run"
    /\ \A j \in Downloads :
         /\ stagingDir[j] => stagingDir'[j] \/ Terminal(j)'
         /\ pc'[j] \in GettingReady =>
              \/ pc[j] \in GettingReady /\ fresh'[j] = fresh[j]
              \/ pc[j] = "load" /\ fresh'[j] = FreshStart(j)
         /\ pc'[j] = "run" =>
              \/ pc[j] = "run"
              \/ /\ pc[j] = "prepare"
                 /\ stagingDir'[j] \/ faults'["db"] > 0
                 /\ fresh[j] \/ UNCHANGED staging

USE DEF PointerMoves, GettingReady, NoJob

\* What writes neither staging nor a pointer, and starts nothing, moves none.
LEMMA PointerQuiet ==
  ASSUME IInv, UNCHANGED <<staging, stagingDir>>,
         \A j \in Downloads : \/ pc'[j] = pc[j] /\ fresh'[j] = fresh[j]
                              \/ pc'[j] \notin GettingReady \cup {"run"}
  PROVE  PointerMoves
BY JobsAssumption

\* A download works on its own partial and its own pointer.
LEMMA DownloadPointerMoves ==
  ASSUME IInv, NEW i \in Downloads, DownloadStep(i) \/ DownloadThrows(i) \/ Restart(i)
  PROVE  PointerMoves
<1> USE JobsAssumption DEF Goto, Leave, MarkFinished, CasRow
<1>1. CASE Load(i)
  <2>1. CASE copyState[jobVideo[i]] \in {"VERIFYING", "HEALTHY"}
    BY <1>1, <2>1 DEF Load
  <2>2. CASE copyState[jobVideo[i]] \notin {"VERIFYING", "HEALTHY"}
    <3>1. /\ pc[i] = "load" /\ pc' = [pc EXCEPT ![i] = "claim"]
          /\ fresh' = [fresh EXCEPT ![i] = FreshStart(i)]
          /\ UNCHANGED <<staging, stagingDir, jobStatus>>
      BY <1>1, <2>2 DEF Load
    <3> QED BY <3>1
  <2> QED BY <2>1, <2>2
<1>2. CASE ClaimDownload(i)
  BY <1>2 DEF ClaimDownload, Claim
<1>3. CASE Begin(i)
  BY <1>3 DEF Begin, Reject
<1>4. CASE Reread(i)
  BY <1>4 DEF Reread, Reject
<1>5. CASE Prepare(i)
  BY <1>5 DEF Prepare, WipeIfFresh, Wipe
<1>6. CASE Writes(i)
  BY <1>6 DEF Writes
<1>7. CASE RunUnresumable(i) \/ Publish(i)
  BY <1>7 DEF RunUnresumable, Publish, Wipe
<1>8. CASE \/ RunAborted(i) \/ RunFailed(i) \/ RunSucceeded(i) \/ PublishFailed(i)
           \/ Advance(i) \/ Chain(i) \/ ChainAdd(i)
  <2> HIDE DEF PointerMoves
  <2> QED BY <1>8, PointerQuiet
          DEF RunAborted, RunFailed, RunSucceeded, PublishFailed, Advance, Chain, ChainAdd, CreateRow, CatchStep
<1>9. CASE Abort(i)
  BY <1>9 DEF Abort, MarkRequeued, MarkPaused, AbortWipes, Wipe
<1>10. CASE AbortRow(i)
  <2>1. Active(i) \/ Terminal(i)
    BY <1>10 DEF AbortRow, JobStatuses
  <2> QED BY <1>10, <2>1 DEF AbortRow
<1>13. CASE AbortHop(i)
  <2> HIDE DEF PointerMoves
  <2> QED BY <1>13, PointerQuiet DEF AbortHop
<1>11. CASE BareThrow(i) \/ RejectSwallows(i) \/ CaughtThrow(i) \/ AbortSwallows(i)
  <2> HIDE DEF PointerMoves
  <2> QED BY <1>11, PointerQuiet DEF BareThrow, RejectSwallows, CaughtThrow, AbortSwallows, CatchStep
<1>12. CASE PointerLost(i)
  <2>1. faults'["db"] > 0
    BY <1>12 DEF PointerLost, Fault
  <2> QED BY <1>12, <2>1 DEF PointerLost, WipeIfFresh, Wipe
<1> HIDE DEF PointerMoves
<1> QED BY <1>1, <1>2, <1>3, <1>4, <1>5, <1>6, <1>7, <1>8, <1>9, <1>10, <1>11, <1>12, <1>13
        DEF DownloadStep, DownloadThrows, Restart

\* The end of an execution, a verify, BullMQ, the listener and the worker process
\* clear the pointer of a settled row at most.
LEMMA WorkerPointerMoves ==
  ASSUME IInv,
         \/ \E i \in Jobs : \/ SharedStep(i) \/ RecorderSwallows(i) \/ ListenerSwallows(i)
                            \/ ListenerThrows(i) \/ Pickup(i) \/ BackoffOver(i)
                            \/ StallDetected(i) \/ StallFailed(i) \/ Listen(i) \/ LockLost(i)
         \/ \E i \in Verifies : VerifyStep(i) \/ VerifyThrows(i)
         \/ Drain \/ Drained \/ Crash \/ BootFails \/ BootStep
         \/ \E m \in control : Deliver(m)
  PROVE  PointerMoves
<1> USE JobsAssumption DEF Goto, Leave, MarkFinished, CasRow
<1>1. ASSUME NEW i \in Jobs, Finish(i)
      PROVE  PointerMoves
  <2>1. Active(i) \/ Terminal(i)
    BY <1>1 DEF Finish, JobStatuses
  <2> QED BY <1>1, <2>1 DEF Finish
<1> HIDE DEF PointerMoves
<1>2. ASSUME NEW i \in Jobs, Settle(i) \/ FailFinal(i) \/ FailRow(i) \/ FailRetry(i)
      PROVE  PointerMoves
  BY <1>2, PointerQuiet DEF Settle, FailFinal, FailRow, FailRetry, MarkRequeued
<1>3. ASSUME NEW i \in Jobs,
             \/ RecorderSwallows(i) \/ ListenerSwallows(i) \/ ListenerThrows(i) \/ Pickup(i)
             \/ BackoffOver(i) \/ StallDetected(i) \/ StallFailed(i) \/ Listen(i) \/ LockLost(i)
      PROVE  PointerMoves
  BY <1>3, PointerQuiet DEF RecorderSwallows, ListenerSwallows, ListenerThrows, Dies, Stopped, Pickup, Activate,
     BackoffOver, StallDetected, StallFailed, LockLost, Listen, ListenRow, ListenMark, ListenVideo,
     ListenOwners, ListenHeal
<1>4. ASSUME NEW i \in Verifies, VerifyStep(i) \/ VerifyThrows(i)
      PROVE  PointerMoves
  BY <1>4, PointerQuiet DEF VerifyStep, VerifyThrows, ClaimVerify, ReadVideo, Probe, Verdict, CatchStep
<1>5. CASE Drain \/ Drained \/ Crash \/ BootFails
  <2>1. /\ UNCHANGED <<staging, stagingDir>>
        /\ \/ pc' = pc /\ fresh' = fresh
           \/ \A j \in Jobs : pc'[j] = "idle"
    BY <1>5 DEF Drain, Drained, Crash, BootFails, Dies, Stopped
  <2> QED BY <2>1, PointerQuiet
<1>7. CASE BootStep
  <2>1. UNCHANGED <<staging, stagingDir, pc, fresh>>
    BY <1>7 DEF BootStep, Boot, CheckRow, HandBack, ReAdd, NextList, ReadList, SweepVideo, Started
  <2> QED BY <2>1, PointerQuiet
<1>6. ASSUME NEW m \in control, Deliver(m)
      PROVE  PointerMoves
  BY <1>6, PointerQuiet DEF Deliver
<1> QED BY <1>1, <1>2, <1>3, <1>4, <1>5, <1>6, <1>7 DEF SharedStep

\* A request clears the pointer of the row it cancels, and wipes.
LEMMA RequestPointerMoves ==
  ASSUME IInv, NEW q \in Requests, Ask(q) \/ Serve(q) \/ RequestFails(q)
  PROVE  PointerMoves
<1> USE JobsAssumption DEF CasRow
<1>1. CASE CancelSettle(q)
  BY <1>1 DEF CancelSettle
<1>2. CASE CancelWipe(q)
  BY <1>2 DEF CancelWipe, Wipe
<1> HIDE DEF PointerMoves
<1>3. CASE Ask(q)
  BY <1>3, PointerQuiet DEF Ask, Enqueue, CreateRow, Cancel, Pause, Command, Resume
<1>4. CASE \/ RequestFails(q) \/ AddExecution(q) \/ UndoRow(q) \/ UndoVideo(q)
           \/ RemoveExecution(q, "cancelRemove", "cancelSettle")
           \/ RemoveExecution(q, "pauseRemove", "pauseSettle")
           \/ RereadRow(q, "cancelReread", "signalCancel")
           \/ RereadRow(q, "pauseReread", "signalPause")
           \/ Signal(q) \/ CancelRead(q) \/ CancelHop(q) \/ PauseSettle(q)
           \/ ResumeFree(q) \/ ResumeTimeout(q) \/ ResumeCas(q) \/ ResumeAdd(q) \/ ResumeUndo(q)
  BY <1>4, PointerQuiet DEF RequestFails, AddRejected, ResumeRejected, SignalRejected, RequestDies,
     AddExecution, UndoRow, UndoVideo, RemoveExecution, RereadRow, Signal, CancelRead, CancelHop,
     PauseSettle, ResumeFree, ResumeTimeout, ResumeCas, ResumeAdd, ResumeUndo
<1> QED BY <1>1, <1>2, <1>3, <1>4 DEF Serve

\* It holds of every step, whatever fails.
LEMMA NextPointerMoves ==
  ASSUME IInv, [Next]_vars
  PROVE  PointerMoves
<1> HIDE DEF PointerMoves
<1>1. ASSUME NEW i \in Jobs, ExecutionStep(i) \/ Restart(i) \/ Throws(i)
      PROVE  PointerMoves
  BY <1>1, DownloadPointerMoves, WorkerPointerMoves DEF ExecutionStep, Throws, Restart
<1>2. ASSUME NEW q \in Requests, Ask(q) \/ Serve(q) \/ RequestFails(q)
      PROVE  PointerMoves
  BY <1>2, RequestPointerMoves
<1>3. CASE UNCHANGED vars
  BY <1>3, PointerQuiet DEF vars
<1> QED BY <1>1, <1>2, <1>3, WorkerPointerMoves DEF Next

HIDE DEF PointerMoves, GettingReady

\* Failures are never forgotten.
LEMMA FailuresCounted ==
  ASSUME IInv, [Next]_vars
  PROVE  FaultsGrow
<1>0. UNCHANGED faults \/ (\E k \in FaultKinds : Fault(k)) => FaultsGrow
  BY DEF Fault, FaultsGrow
<1>1. ASSUME NEW i \in Jobs, ExecutionStep(i) \/ Restart(i) \/ Throws(i)
      PROVE  FaultsGrow
  <2>1. CASE ExecutionStep(i)
    BY <1>0, <2>1 DEF ExecutionStep, SharedStep, Settle, FailFinal, FailRow, FailRetry, Finish,
       DownloadStep, Load, ClaimDownload, Claim, Begin, Reread, Prepare, RunAborted, RunFailed,
       RunSucceeded, Publish, PublishFailed, Advance, Chain, ChainAdd, Abort, AbortRow, AbortHop,
       VerifyStep, ClaimVerify, ReadVideo, Probe, Verdict
  <2>2. CASE Restart(i) \/ Throws(i)
    BY <1>0, <2>2 DEF Restart, RunUnresumable, Writes, Throws, RecorderSwallows, ListenerSwallows, ListenerThrows,
       Dies, DownloadThrows, BareThrow, RejectSwallows, CaughtThrow, PointerLost, AbortSwallows, VerifyThrows
  <2> QED BY <1>1, <2>1, <2>2
<1>2. ASSUME NEW i \in Jobs,
             \/ Pickup(i) \/ BackoffOver(i) \/ StallDetected(i) \/ StallFailed(i)
             \/ Listen(i) \/ LockLost(i)
      PROVE  FaultsGrow
  BY <1>0, <1>2 DEF Pickup, Activate, BackoffOver, StallDetected, StallFailed, LockLost, Listen,
     ListenRow, ListenMark, ListenVideo, ListenOwners, ListenHeal
<1>3. CASE Drain \/ Drained \/ Crash \/ BootFails \/ BootStep
  BY <1>0, <1>3 DEF Drain, Drained, Crash, BootFails, Dies, BootStep, Boot, CheckRow, HandBack, ReAdd, NextList,
     ReadList, SweepVideo, Started
<1>4. ASSUME NEW q \in Requests, Ask(q) \/ Serve(q) \/ RequestFails(q)
      PROVE  FaultsGrow
  BY <1>4, AskFrame, ServeFrame DEF ApiFrame
<1>5. ASSUME NEW m \in control, Deliver(m)
      PROVE  FaultsGrow
  BY <1>0, <1>5 DEF Deliver
<1>6. CASE UNCHANGED vars
  BY <1>0, <1>6 DEF vars
<1> QED BY <1>1, <1>2, <1>3, <1>4, <1>5, <1>6 DEF Next

\* A row keeps its pointer as long as it is not settled.
LEMMA NextPointed ==
  ASSUME IInv, PointerInv, [Next]_vars
  PROVE  PointerInv'
<1>1. PointerMoves /\ RowsMove
  BY NextPointerMoves, NextKeeps DEF Kept
<1>2. SUFFICES ASSUME Calm', NEW j \in Downloads
               PROVE  /\ \A v \in Videos : staging'[v] = j => Exists(j)' /\ (stagingDir'[j] \/ Terminal(j)')
                      /\ pc'[j] = "run" => stagingDir'[j] \/ Terminal(j)'
                      /\ pc'[j] \in GettingReady /\ fresh'[j] =>
                           Terminal(j)' \/ \A v \in Videos : staging'[v] # j
  BY DEF PointerInv, PartialPointed
<1>3. Calm /\ faults'["db"] = 0
  BY <1>2, FailuresCounted DEF Calm, FaultsGrow
<1>4. PartialPointed
  BY <1>3 DEF PointerInv
<1>5. j \in Jobs /\ j # NoJob
  BY JobsAssumption
<1>6. Exists(j) => Exists(j)' /\ (Terminal(j) => Terminal(j)')
  BY <1>1, <1>5 DEF RowsMove, CreateRow
<1>7. ASSUME NEW v \in Videos, staging'[v] = j
      PROVE  staging[v] = j \/ pc[j] = "run"
  BY <1>1, <1>5, <1>7 DEF PointerMoves
<1>8. pc[j] = "run" => Exists(j) /\ (stagingDir[j] \/ Terminal(j))
  BY <1>4, <1>5 DEF PartialPointed
<1>9. Exists(j) /\ (stagingDir[j] \/ Terminal(j)) => Exists(j)' /\ (stagingDir'[j] \/ Terminal(j)')
  BY <1>1, <1>6 DEF PointerMoves
<1>10. ASSUME NEW v \in Videos, staging'[v] = j
       PROVE  Exists(j)' /\ (stagingDir'[j] \/ Terminal(j)')
  BY <1>4, <1>7, <1>8, <1>9, <1>10 DEF PartialPointed
<1>11. ASSUME pc'[j] = "run"
       PROVE  stagingDir'[j] \/ Terminal(j)'
  BY <1>1, <1>3, <1>8, <1>9, <1>11 DEF PointerMoves
<1>12. ASSUME pc'[j] \in GettingReady, fresh'[j], NEW v \in Videos, staging'[v] = j
       PROVE  Terminal(j)'
  <2>1. staging[v] = j /\ Exists(j)
    BY <1>1, <1>4, <1>7, <1>12 DEF PointerMoves, PartialPointed, GettingReady
  <2>2. Terminal(j)
    BY <1>1, <1>4, <1>12, <2>1 DEF PointerMoves, PartialPointed, FreshStart
  <2> QED BY <1>6, <2>1, <2>2
<1> QED BY <1>10, <1>11, <1>12

\* It holds in every state.
LEMMA PointerInvariance == Spec => []PointerInv
<1>1. Init => PointerInv
  BY JobsAssumption DEF Init, PointerInv, PartialPointed, GettingReady, NoJob
<1>2. IInv /\ PointerInv /\ [Next]_vars => PointerInv'
  BY NextPointed
<1> QED BY <1>1, <1>2, Invariance, PTL DEF Spec

\* An execution gets staging ready around the partial of its own row.
LEMMA PreparePartial ==
  ASSUME IInv, ExecInv, PointerInv, [Next]_vars, Calm,
         NEW j \in Downloads, Prepares(j), staging[jobVideo[j]] = j
  PROVE  staging'[jobVideo[j]] = j
<1>1. jobStatus[j] = "RUNNING"
  BY DEF Calm, ExecInv, Undisturbed, RunnersClaimed, ActsForRow, ClaimedSteps, Prepares
<1>2. jobVideo[j] \in Videos
  BY <1>1
<1>3. ~fresh[j]
  BY <1>1, <1>2 DEF PointerInv, PartialPointed, GettingReady, Prepares
<1>4. UNCHANGED staging
  BY <1>3, NextPointerMoves DEF PointerMoves, Prepares
<1> QED BY <1>4

-----------------------------------------------------------------------------
\* Theorems

\* No zombie videos: while a worker is up or drains, a video that is QUEUED or
\* DOWNLOADING has an active download, or whoever settled its row is about to
\* move it on, through every drain, and through every crash or broker failure
\* in which nobody overtook the reader of a row.
THEOREM NoZombieVideoHolds == Spec => []NoZombieVideo
BY OwnerInvariance, OwnerNoZombie, PTL

\* No row waits for an execution nobody added: while the worker is up a QUEUED
\* download has one, or a request or listener is about to add it or to settle
\* the row.
THEOREM QueuedHasExecutionHolds == Spec => []QueuedHasExecution
BY QueueInvariance, QueueNoOrphan, PTL

\* The partial of a paused or handed-back download is never lost to another
\* actor, unless a lock is lost or the worker dies, or a failed step lets the
\* next row of the video arrive before a late cancel wipes; and the execution
\* that goes on with the row never wipes it as the leftover of a fresh start.
THEOREM PartialKeptHolds == Spec => PartialKept
<1> DEFINE Spared(j) ==
             /\ \/ Parked(j) /\ (Without(FaultKinds) \/ \A r, q \in Requests : r = q)
                \/ Prepares(j) /\ Without({"db"})
             /\ staging[jobVideo[j]] = j
             => staging'[jobVideo[j]] = j
<1>1. IInv /\ ExecInv /\ OneActiveDownload /\ FlightInv /\ WipeInv /\ PointerInv /\ [Next]_vars =>
        (Without({"lock", "crash"}) => \A j \in Downloads : Spared(j))
  BY StepKeepsPartial, PreparePartial DEF Parked, Calm
<1> QED BY <1>1, Invariance, ExecutionInvariance, OneActiveDownloadHolds, FlightInvariance, PointerInvariance,
        PTL DEF Spec, PartialKept
=============================================================================

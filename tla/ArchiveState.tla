---------------------------- MODULE ArchiveState -----------------------------
(***************************************************************************)
(* The state the archive pipeline shares, and the writes every component   *)
(* makes to it.                                                            *)
(*                                                                         *)
(*   Postgres   jobStatus, jobVideo, stagingDir, copyState                 *)
(*   disk       staging      the .incoming directory of each video         *)
(*   Redis      bull, made   the BullMQ execution keyed by the Job row id  *)
(*              control      job:control commands on their way             *)
(*   worker     phase, rowTodo, videoTodo     lifecycle and boot reconciler*)
(*              pc, seen, fresh, ctl, chained one process() per execution  *)
(*              lpc                           the 'failed' listener        *)
(*   api        hpc, hjob, hptr, hfrom        one HTTP request per slot    *)
(*                                                                         *)
(* A Job row is named by its id.  Its type never changes, so ids are split *)
(* into Downloads and Verifies; row ids are handed out in increasing order,*)
(* which is the order of enqueuedAt.                                       *)
(***************************************************************************)
EXTENDS Naturals, FiniteSets

CONSTANTS
    Videos,             \* non-LIVE videos of the vault
    Downloads,          \* ids DOWNLOAD rows may get (bounds the enqueues)
    Verifies,           \* ids VERIFY rows may get
    Requests,           \* HTTP requests that can be in flight together
    Asks,               \* what owners ask for: a subset of Operations
    Concurrency,        \* downloads the worker runs at once (1 to 4)
    DownloadAttempts,   \* attempts of downloadAddOptions (5 in the code)
    VerifyAttempts,     \* attempts of verifyAddOptions (3 in the code)
    MaxSignals,         \* commands on their way over job:control together
    MaxFaults,          \* MaxFaults[k]: bound on the events of kind k
    NoVideo             \* the video of a row that does not exist

NoJob == 0
Jobs == Downloads \cup Verifies

\* The events the environment inflicts, each counted and bounded:
\*   crash  the worker process dies       drain  it is asked to stop (SIGTERM)
\*   lock   BullMQ expires a live lock    db     a worker statement throws
\*   redis  a queue add is rejected       api    a request dies half-way
FaultKinds == {"crash", "drain", "lock", "db", "redis", "api"}

Operations == {"enqueue", "cancel", "pause", "resume"}

ASSUME JobsAssumption ==
    /\ Downloads \subseteq Nat \ {0}
    /\ Verifies \subseteq Nat \ {0}
    /\ Downloads \cap Verifies = {}
ASSUME VideosAssumption == NoVideo \notin Videos
ASSUME BoundsAssumption ==
    /\ Asks \subseteq Operations
    /\ Concurrency \in Nat \ {0}
    /\ DownloadAttempts \in Nat \ {0}
    /\ VerifyAttempts \in Nat \ {0}
    /\ MaxSignals \in Nat \ {0}
    /\ MaxFaults \in [FaultKinds -> Nat]

VARIABLES
    jobStatus, jobVideo, stagingDir, copyState,
    staging,
    bull, made, control,
    phase, rowTodo, videoTodo,
    pc, seen, fresh, ctl, chained,
    lpc,
    hpc, hjob, hptr, hfrom,
    faults

rowVars == <<jobStatus, jobVideo, stagingDir>>
queueVars == <<bull, made>>
execVars == <<pc, seen, fresh, ctl, chained>>
bootVars == <<phase, rowTodo, videoTodo>>
apiVars == <<hpc, hjob, hptr, hfrom>>

vars == <<jobStatus, jobVideo, stagingDir, copyState, staging, bull, made,
          control, phase, rowTodo, videoTodo, pc, seen, fresh, ctl, chained,
          lpc, hpc, hjob, hptr, hfrom, faults>>

-----------------------------------------------------------------------------
\* Value spaces

\* The abstract lifecycle every writer of copyState implements.
Lifecycle == INSTANCE CopyLifecycle
CopyStates == Lifecycle!CopyStates

TerminalStatuses == {"COMPLETED", "FAILED", "CANCELED"}
ActiveStatuses == {"QUEUED", "RUNNING", "PAUSED"}
JobStatuses == {"ABSENT"} \cup ActiveStatuses \cup TerminalStatuses

\* "stalled": the lock was lost and the stall checker moved the execution back
\* to the wait list with a deferred failure.  An execution that is "active"
\* with no process() running it belongs to a worker that died.
BullStates == {"absent", "waiting", "delayed", "active", "stalled"}

Commands == {"cancel", "pause"}
\* A control entry: not registered, registered, or aborted with a mode.
Aborted == Commands \cup {"shutdown"}
CtlStates == {"absent", "clear"} \cup Aborted

Phases == {"up", "draining", "down", "rows", "downloading", "queued", "verifying"}

DownloadSteps == {"load", "claim", "begin", "reread", "prepare", "run",
                  "publish", "advance", "chain", "chainAdd",
                  "abort", "abortRow", "abortHop"}
VerifySteps == {"vclaim", "vread", "vprobe", "vpass", "vbad"}
SettleSteps == {"settleOk", "settleThrow", "settleUnrecoverable"}
SharedSteps == {"failFinal", "failRow", "failRetry", "finish"} \cup SettleSteps

ListenSteps == {"idle", "row", "mark", "video", "owners", "heal"}

RequestSteps == {"idle", "add", "undoRow", "undoVideo",
                 "cancelRemove", "cancelSettle", "cancelReread", "cancelWipe",
                 "cancelRead", "cancelHop", "signalCancel",
                 "pauseRemove", "pauseSettle", "pauseReread", "signalPause",
                 "resumeWait", "resumeCas", "resumeAdd", "resumeUndo"}

TypeOK ==
    /\ jobStatus \in [Jobs -> JobStatuses]
    /\ jobVideo \in [Jobs -> Videos \cup {NoVideo}]
    /\ stagingDir \in [Jobs -> BOOLEAN]
    /\ copyState \in [Videos -> CopyStates]
    /\ staging \in [Videos -> Downloads \cup {NoJob}]
    /\ bull \in [Jobs -> BullStates]
    /\ made \in [Jobs -> Nat]
    /\ control \subseteq (Commands \X Downloads)
    /\ phase \in Phases
    /\ rowTodo \subseteq (Jobs \X {"QUEUED", "RUNNING", "ADD"})
    /\ videoTodo \subseteq (Videos \X CopyStates)
    /\ pc \in [Jobs -> {"idle"} \cup DownloadSteps \cup VerifySteps \cup SharedSteps]
    /\ seen \in [Jobs -> CopyStates]
    /\ fresh \in [Jobs -> BOOLEAN]
    /\ ctl \in [Jobs -> CtlStates]
    /\ chained \in [Jobs -> Verifies \cup {NoJob}]
    /\ lpc \in [Jobs -> ListenSteps]
    /\ hpc \in [Requests -> RequestSteps]
    /\ hjob \in [Requests -> Downloads \cup {NoJob}]
    /\ hptr \in [Requests -> BOOLEAN]
    /\ hfrom \in [Requests -> CopyStates]
    /\ faults \in [FaultKinds -> Nat]

-----------------------------------------------------------------------------
\* Reads

Terminal(j) == jobStatus[j] \in TerminalStatuses
Active(j) == jobStatus[j] \in ActiveStatuses
\* Mutant: the index forgets RUNNING rows.
ActiveDownloadsParked(v) ==
    {j \in Downloads : jobVideo[j] = v /\ jobStatus[j] \in {"QUEUED", "PAUSED"}}
\* The rows of ux_job_active_download.
ActiveDownloads(v) == {j \in Downloads : jobVideo[j] = v /\ Active(j)}
ActiveVerifies(v) == {j \in Verifies : jobVideo[j] = v /\ Active(j)}
Attempts(j) == IF j \in Downloads THEN DownloadAttempts ELSE VerifyAttempts
\* The state a video is in while an execution of j works on it.
WorkState(j) == IF j \in Downloads THEN "DOWNLOADING" ELSE "VERIFYING"
\* The id the next row of a type gets.
NextId(j, ids) ==
    /\ j \in ids
    /\ jobStatus[j] = "ABSENT"
    /\ \A i \in ids : i < j => jobStatus[i] # "ABSENT"

-----------------------------------------------------------------------------
\* Writes.  Every one is a compare-and-set: it writes nothing when it is lost.

\* Mutant: the hop is written whatever the video is by now.
TransitionCopyBlind(v, expectedFrom, to) == copyState' = [copyState EXCEPT ![v] = to]
\* VideoStateService.transitionCopy: the hop lands only from expectedFrom.
TransitionCopy(v, expectedFrom, to) ==
    copyState' = IF copyState[v] = expectedFrom
                 THEN [copyState EXCEPT ![v] = to]
                 ELSE copyState

\* Mutant: the status filter of the update is lost.
CasRowBlind(j, from, to) == jobStatus' = [jobStatus EXCEPT ![j] = to]
\* A guarded updateMany on one row: only from the statuses in from.
CasRow(j, from, to) ==
    jobStatus' = IF jobStatus[j] \in from
                 THEN [jobStatus EXCEPT ![j] = to]
                 ELSE jobStatus

\* JobRecorder.markFinished: the first terminal verdict wins.
MarkFinished(j, status, clearStagingDir) ==
    /\ CasRow(j, ActiveStatuses, status)
    /\ stagingDir' = IF clearStagingDir /\ ~Terminal(j)
                     THEN [stagingDir EXCEPT ![j] = FALSE]
                     ELSE stagingDir

\* JobRecorder.markRequeuedForRetry.
MarkRequeued(j) == CasRow(j, {"RUNNING"}, "QUEUED")

\* Mutant: the row gets the state of a video.
MarkPausedAsVideo(j) == CasRow(j, {"RUNNING"}, "PARTIAL_KEPT")
\* JobRecorder.markPaused.
MarkPaused(j) == CasRow(j, {"RUNNING"}, "PAUSED")

\* Job create: the row of a video, QUEUED, with no staging pointer.
CreateRow(j, v) ==
    /\ jobStatus' = [jobStatus EXCEPT ![j] = "QUEUED"]
    /\ jobVideo' = [jobVideo EXCEPT ![j] = v]
    /\ UNCHANGED stagingDir

\* queue.add under a custom job id: a silent no-op when the id is taken.
QueueAdd(j) ==
    IF bull[j] = "absent"
    THEN /\ bull' = [bull EXCEPT ![j] = "waiting"]
         /\ made' = [made EXCEPT ![j] = 0]
    ELSE UNCHANGED queueVars

\* rmSync of the staging directory of a video.
Wipe(v) == staging' = [staging EXCEPT ![v] = NoJob]

\* One more event of kind k, within its bound.
Fault(k) ==
    /\ faults[k] < MaxFaults[k]
    /\ faults' = [faults EXCEPT ![k] = @ + 1]

-----------------------------------------------------------------------------
\* An empty vault, the worker up and nothing in flight.
Init ==
    /\ jobStatus = [j \in Jobs |-> "ABSENT"]
    /\ jobVideo = [j \in Jobs |-> NoVideo]
    /\ stagingDir = [j \in Jobs |-> FALSE]
    /\ copyState = [v \in Videos |-> "CANDIDATE"]
    /\ staging = [v \in Videos |-> NoJob]
    /\ bull = [j \in Jobs |-> "absent"]
    /\ made = [j \in Jobs |-> 0]
    /\ control = {}
    /\ phase = "up"
    /\ rowTodo = {}
    /\ videoTodo = {}
    /\ pc = [j \in Jobs |-> "idle"]
    /\ seen = [j \in Jobs |-> "CANDIDATE"]
    /\ fresh = [j \in Jobs |-> FALSE]
    /\ ctl = [j \in Jobs |-> "absent"]
    /\ chained = [j \in Jobs |-> NoJob]
    /\ lpc = [j \in Jobs |-> "idle"]
    /\ hpc = [r \in Requests |-> "idle"]
    /\ hjob = [r \in Requests |-> NoJob]
    /\ hptr = [r \in Requests |-> FALSE]
    /\ hfrom = [r \in Requests |-> "CANDIDATE"]
    /\ faults = [k \in FaultKinds |-> 0]
=============================================================================

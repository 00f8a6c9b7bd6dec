--------------------------- MODULE ArchivePipeline ---------------------------
(***************************************************************************)
(* The archive pipeline: the api's queue service, the download and verify  *)
(* consumers, BullMQ, the control plane and the boot reconciler, all over  *)
(* the same Job rows and videos.                                           *)
(***************************************************************************)
EXTENDS DownloadConsumer, VerifyConsumer, BootReconciler, QueueApi

Pickup(j) == Activate(j, IF j \in Downloads THEN "load" ELSE "vclaim")

\* What one execution does by itself.
ExecutionStep(j) ==
    \/ SharedStep(j)
    \/ j \in Downloads /\ DownloadStep(j)
    \/ j \in Verifies /\ VerifyStep(j)

\* What yt-dlp may do while it runs: write its partial, or find out that it
\* cannot resume it.
Restart(j) == j \in Downloads /\ (RunUnresumable(j) \/ Writes(j))

\* A statement of the worker that throws.
Throws(j) ==
    \/ RecorderSwallows(j) \/ ListenerSwallows(j) \/ ListenerThrows(j)
    \/ j \in Downloads /\ DownloadThrows(j)
    \/ j \in Verifies /\ VerifyThrows(j)

Next ==
    \/ \E j \in Jobs :
         \/ Pickup(j) \/ ExecutionStep(j) \/ Restart(j) \/ Throws(j)
         \/ BackoffOver(j) \/ StallDetected(j) \/ StallFailed(j) \/ Listen(j)
         \/ LockLost(j)
    \/ \E m \in control : Deliver(m)
    \/ Drain \/ Drained \/ Crash \/ BootFails \/ BootStep
    \/ \E r \in Requests : Ask(r) \/ Serve(r) \/ RequestFails(r)

Spec == Init /\ [][Next]_vars

\* What goes on by itself: the worker's own steps, BullMQ's timers, the restart
\* by the supervisor and the statements of a request already accepted.  Nothing
\* is assumed of owners, and nothing makes a fault happen.
Fairness ==
    /\ \A j \in Jobs :
         /\ WF_vars(Pickup(j))
         /\ WF_vars(ExecutionStep(j))
         /\ WF_vars(BackoffOver(j))
         /\ WF_vars(StallDetected(j))
         /\ WF_vars(StallFailed(j))
         /\ WF_vars(Listen(j))
    /\ \A m \in Commands \X Downloads : WF_vars(Deliver(m))
    /\ WF_vars(Drained)
    /\ WF_vars(BootStep)
    /\ \A r \in Requests : WF_vars(Serve(r))

FairSpec == Spec /\ Fairness

-----------------------------------------------------------------------------
\* Safety

\* No event of these kinds has happened.
Without(kinds) == \A k \in kinds : faults[k] = 0

\* A video never has two DOWNLOAD rows that are QUEUED, RUNNING or PAUSED: what
\* ux_job_active_download guarantees at the insert, and every later write of a
\* row has to keep.
OneActiveDownload ==
    \A i, j \in Downloads :
        Active(i) /\ Active(j) /\ jobVideo[i] = jobVideo[j] => i = j

\* The steps of process() that act for a row it claimed.
ClaimedSteps == {"begin", "reread", "prepare", "run", "publish", "advance", "abort"}

\* claimForAttempt is the cancel-correctness gate: a worker never works for a
\* row that is not RUNNING, so a canceled or paused row is not run again.  It
\* takes a lost lock, or an execution outlived by its stall verdict, to
\* break it.
RunnerOwnsRow ==
    Without({"lock", "crash"}) =>
        \A j \in Downloads : pc[j] \in ClaimedSteps => jobStatus[j] = "RUNNING"

\* Two yt-dlp runs never write the same staging directory: executions of
\* different rows of one video exclude each other, never a silent twin.
TwinFree ==
    \A i, j \in Downloads :
        /\ pc[i] \in {"prepare", "run", "publish"}
        /\ pc[j] \in {"prepare", "run", "publish"}
        /\ jobVideo[i] = jobVideo[j]
        => i = j

\* TwinFree, as long as no worker crashed and no lock was lost.
NoTwin == Without({"lock", "crash"}) => TwinFree

\* A RUNNING download can be reached by a cancel: its control entry is
\* registered, or its worker is gone and the boot or the stall machinery is
\* about to decide about it.  An ownerless RUNNING row would be a cancel blind
\* spot; it takes a lost lock, and a crash that leaves the stalled execution to
\* a cancel still on its way, to make one.
CancelNeverBlind ==
    Without({"db", "lock"}) =>
        \A j \in Downloads : jobStatus[j] = "RUNNING" =>
            \/ Registered(j)
            \/ ~WorkerRunning
            \/ bull[j] \in {"active", "stalled"} \/ lpc[j] \in {"row", "mark"}

\* Nobody overtook the reader of a row: a resume, which puts the execution of a
\* stalled row back to work before its listener has marked the row, or whoever
\* adds, boot or resume, the execution of a row whose own add was rejected
\* before the compensation has settled it.
NotOvertaken ==
    /\ faults["crash"] > 0 => "resume" \notin Asks
    /\ faults["redis"] > 0 =>
         /\ faults["crash"] + faults["drain"] = 0
         /\ "resume" \in Asks => \A r, q \in Requests : r = q

\* An add is the last word about the execution of a row: a resume is alone with
\* the worker - neither a boot nor another request adds or settles the same
\* execution between its wait and its add - and the last attempt of a row handed
\* back while its verify was being chained is not rejected a second time.
AddsInTurn ==
    /\ "resume" \in Asks =>
         /\ faults["crash"] + faults["drain"] = 0
         /\ \A r, q \in Requests : r = q
    /\ faults["redis"] <= 1

\* While the worker is up a QUEUED download has an execution, or the request
\* that is about to add or settle it is still at work, or the listener that
\* will fail it: no row waits forever for an execution nobody added.
QueuedHasExecution ==
    Without({"db", "api", "lock"}) /\ NotOvertaken /\ AddsInTurn /\ phase = "up" =>
        \A j \in Downloads : jobStatus[j] = "QUEUED" =>
            \/ bull[j] # "absent"
            \/ lpc[j] \in {"row", "mark"}
            \/ \E r \in Requests :
                 /\ hjob[r] = j
                 /\ hpc[r] \in {"add", "undoRow", "resumeAdd", "resumeUndo",
                                "cancelSettle", "pauseSettle"}

\* A video that is QUEUED or DOWNLOADING is owned by an active download, or
\* someone who will move it is still at work: the request that settled its row,
\* the execution whose row was canceled, or the stall listener.  From the last
\* list of a boot on there are no zombie videos.
NoZombieVideo ==
    Without({"db", "api", "lock"}) /\ NotOvertaken /\ phase \in {"verifying", "up", "draining"} =>
        \A v \in Videos : copyState[v] \in {"QUEUED", "DOWNLOADING"} =>
            \/ ActiveDownloads(v) # {}
            \/ \E r \in Requests :
                 /\ hpc[r] \in {"cancelWipe", "cancelRead", "cancelHop", "undoVideo"}
                 /\ jobVideo[hjob[r]] = v
            \/ \E j \in Downloads :
                 /\ jobVideo[j] = v
                 /\ pc[j] = "abortHop" \/ lpc[j] \in {"video", "owners", "heal"}

\* A VERIFYING video has a VERIFY row that will judge it, or the download that
\* moved it there is about to create one.
VerifyingHasVerify ==
    Without({"db"}) /\ WorkerRunning =>
        \A v \in Videos : copyState[v] = "VERIFYING" =>
            \/ ActiveVerifies(v) # {}
            \/ \E j \in Downloads : jobVideo[j] = v /\ pc[j] = "chain"
            \/ \E j \in Verifies : jobVideo[j] = v /\ lpc[j] = "video"

-----------------------------------------------------------------------------
\* What a step may never do

\* The first terminal verdict of a row wins: whoever comes late - a worker, its
\* stall listener, a cancel - does not rewrite the story already told.
VerdictFinal == [][\A j \in Jobs : Terminal(j) => jobStatus'[j] = jobStatus[j]]_vars

\* The request of an owner that ends the pause of j in this step: a resume that
\* hands the row back QUEUED, or a cancel that settles it.
EndedByOwner(j) ==
    \E r \in Requests :
        /\ hjob[r] = j
        /\ hpc'[r] # hpc[r]
        /\ \/ hpc[r] = "resumeCas" /\ jobStatus'[j] = "QUEUED"
           \/ hpc[r] = "cancelSettle" /\ jobStatus'[j] = "CANCELED"

\* A paused row is deliberate owner state: it leaves PAUSED in the very step in
\* which the owner's resume or cancel takes it out, never by an execution, a
\* drain or a boot.  The stall listener may end a pause, with what it read
\* before, and so may an execution that chains again the verify an earlier
\* attempt failed to add.
PauseKept ==
    [][Without({"lock", "crash", "db", "redis"}) =>
         \A j \in Downloads :
           jobStatus[j] = "PAUSED" /\ jobStatus'[j] # "PAUSED" => EndedByOwner(j)]_vars

\* A step that leaves row j QUEUED or PAUSED with its staging pointer, and one
\* in which an execution of j gets staging ready for yt-dlp.
Parked(j) == jobStatus'[j] \in {"QUEUED", "PAUSED"} /\ stagingDir[j]
Prepares(j) == pc[j] = "prepare" /\ pc'[j] = "run"

\* The partial of a row that is parked or handed back QUEUED stays on disk for
\* its resume: no step that leaves the row QUEUED or PAUSED, of its own
\* execution, of a request or of another row of the video, removes it, and the
\* execution that goes on with the row later does not take its own partial for
\* the leftover of a fresh start, unless the write of the pointer failed.  A
\* cancel wipes by the pointer it read before its settle: it meets the partial
\* of the next row when a boot's sweep, a failed statement or a rejected add
\* frees the video meanwhile and another request enqueues it.
PartialKept ==
    [][Without({"lock", "crash"}) =>
         \A j \in Downloads :
           /\ \/ Parked(j) /\ (Without(FaultKinds) \/ \A r, q \in Requests : r = q)
              \/ Prepares(j) /\ Without({"db"})
           /\ staging[jobVideo[j]] = j
           => staging'[jobVideo[j]] = j]_vars

\* A video is moved to VERIFYING by the download that owns it now, never by an
\* execution of an earlier row: a stale writer never applies yesterday's
\* verdict to today's state, unless it outlived its lock.
StaleVerdictFree ==
    [][Without({"lock", "crash"}) =>
         \A v \in Videos :
           copyState[v] = "DOWNLOADING" /\ copyState'[v] = "VERIFYING" =>
              \A j \in ActiveDownloads(v) : pc[j] = "advance"]_vars

\* Every write of copyState, by whatever component, follows the lifecycle.
FollowsLifecycle == Lifecycle!Spec

\* A cancel that was answered 202 is not lost while its job can still be
\* canceled: it finds the control entry, or a row with a terminal verdict.
SignalNotLost ==
    [][\A m \in control \ control' :
         m[1] = "cancel" => Registered(m[2]) \/ Terminal(m[2])]_vars

-----------------------------------------------------------------------------
\* Liveness.  []<>~P says of a state P what P ~> ~P does, that it always ends,
\* and is checked without a tableau.

\* A download that waits or runs is settled in the end, or paused by its owner.
DownloadSettles ==
    \A j \in Downloads : []<>(jobStatus[j] \notin {"QUEUED", "RUNNING"})

\* A video does not stay in flight: it leaves QUEUED, DOWNLOADING and VERIFYING
\* unless its owner has its download paused.
VideoSettles ==
    \A v \in Videos :
        []<>(\/ copyState[v] \notin {"QUEUED", "DOWNLOADING", "VERIFYING"}
             \/ \E j \in ActiveDownloads(v) : jobStatus[j] = "PAUSED")
=============================================================================

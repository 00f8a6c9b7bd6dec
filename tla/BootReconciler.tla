---------------------------- MODULE BootReconciler ---------------------------
(***************************************************************************)
(* The life of the archive worker process: graceful drain, crash, and the  *)
(* boot reconciler, which runs to its end before any consumer starts.      *)
(* Every sweep reads its list first and then works through it; the api     *)
(* keeps serving requests meanwhile.                                       *)
(***************************************************************************)
EXTENDS JobExecution

Stopped ==
    /\ pc' = [j \in Jobs |-> "idle"]
    /\ seen' = [j \in Jobs |-> "CANDIDATE"]
    /\ fresh' = [j \in Jobs |-> FALSE]
    /\ ctl' = [j \in Jobs |-> "absent"]
    /\ chained' = [j \in Jobs |-> NoJob]
    /\ lpc' = [j \in Jobs |-> "idle"]
    /\ rowTodo' = {}
    /\ videoTodo' = {}
    /\ phase' = "down"

\* SIGTERM: every registered execution is aborted, in mode shutdown unless a
\* cancel or pause already fired; the workers close when their executions end.
Drain ==
    /\ phase = "up"
    /\ Fault("drain")
    /\ phase' = "draining"
    /\ ctl' = [j \in Jobs |-> IF ctl[j] = "clear" THEN "shutdown" ELSE ctl[j]]
    /\ UNCHANGED <<rowTodo, videoTodo, pc, seen, fresh, chained, lpc, rowVars,
                   copyState, staging, queueVars, control, apiVars>>

\* Closing waits for process(), not for the 'failed' listener: one still at
\* work is cut off.
Drained ==
    /\ phase = "draining"
    /\ Running(Jobs) = {}
    /\ Stopped
    /\ UNCHANGED <<rowVars, copyState, staging, queueVars, control, apiVars, faults>>

\* The process dies, its executions still active in BullMQ.
Dies ==
    /\ Stopped
    /\ UNCHANGED <<rowVars, copyState, staging, queueVars, control, apiVars>>

\* It may die at any point ...
Crash == phase # "down" /\ Fault("crash") /\ Dies

\* ... and does when a boot query is refused, ...
BootFails ==
    /\ phase \notin {"up", "draining", "down"}
    /\ \E k \in {"db", "redis"} : Fault(k)
    /\ Dies

\* ... or when the 'failed' listener throws: nobody catches its rejection.
ListenerThrows(j) ==
    /\ lpc[j] \in {"row", "video", "owners", "heal"}
    /\ Fault("db")
    /\ Dies

-----------------------------------------------------------------------------
\* Row sweep

BootUnchanged ==
    UNCHANGED <<jobVideo, stagingDir, staging, control, execVars, lpc, apiVars, faults>>

\* Mutant: QUEUED rows are taken to have an execution.
SweptStatusesRunning == {"RUNNING"}
\* The rows whose execution is looked for.
SweptStatuses == {"QUEUED", "RUNNING"}

\* The supervisor restarts the process; the sweep reads the QUEUED and RUNNING
\* rows with the status it will judge them by.
Boot ==
    /\ phase = "down"
    /\ phase' = "rows"
    /\ rowTodo' = {<<j, jobStatus[j]>> : j \in {i \in Jobs : jobStatus[i] \in SweptStatuses}}
    /\ UNCHANGED <<videoTodo, jobStatus, copyState, queueVars>>
    /\ BootUnchanged

\* Mutant: whatever the list said of the row, and whatever it is by now.
HandBackAny(j, status) ==
    IF bull[j] = "absent" THEN CasRow(j, ActiveStatuses, "QUEUED") ELSE UNCHANGED jobStatus
\* A RUNNING row without an execution goes back to QUEUED.
HandBack(j, status) ==
    IF bull[j] = "absent" /\ status = "RUNNING" THEN MarkRequeued(j) ELSE UNCHANGED jobStatus

\* One row: an execution BullMQ still knows is alive.  For a dead one a RUNNING
\* row first goes back to QUEUED; a QUEUED row is not looked at again.
CheckRow(j, status) ==
    /\ phase = "rows"
    /\ status # "ADD"
    /\ <<j, status>> \in rowTodo
    /\ \A i \in Jobs : <<i, "ADD">> \notin rowTodo
    /\ IF bull[j] # "absent" \/ (status = "RUNNING" /\ jobStatus[j] # "RUNNING")
       THEN rowTodo' = rowTodo \ {<<j, status>>}
       ELSE rowTodo' = (rowTodo \ {<<j, status>>}) \cup {<<j, "ADD">>}
    /\ HandBack(j, status)
    /\ UNCHANGED <<phase, videoTodo, copyState, queueVars>>
    /\ BootUnchanged

ReAdd(j) ==
    /\ phase = "rows"
    /\ <<j, "ADD">> \in rowTodo
    /\ QueueAdd(j)
    /\ rowTodo' = rowTodo \ {<<j, "ADD">>}
    /\ UNCHANGED <<phase, videoTodo, jobStatus, copyState>>
    /\ BootUnchanged

-----------------------------------------------------------------------------
\* Video sweep: three lists, each read when the one before is done.

\* The most recent DOWNLOAD row of v was canceled.
LastCanceled(v) ==
    \E j \in Downloads :
        /\ jobVideo[j] = v
        /\ jobStatus[j] = "CANCELED"
        /\ \A i \in Downloads : jobVideo[i] = v => i <= j

\* The active rows that own a video in a state.
Owners(v, state) == IF state = "VERIFYING" THEN ActiveVerifies(v) ELSE ActiveDownloads(v)

\* Mutant: a VERIFYING video is taken to be owned by its download.
ZombiesByDownload(state) ==
    {<<v, IF state = "QUEUED" \/ (state = "DOWNLOADING" /\ LastCanceled(v))
          THEN "CANDIDATE" ELSE "FAILED">> :
        v \in {u \in Videos : copyState[u] = state /\ ActiveDownloads(u) = {}}}
\* The videos of a list, each with the state it will be moved to.
Zombies(state) ==
    {<<v, IF state = "QUEUED" \/ (state = "DOWNLOADING" /\ LastCanceled(v))
          THEN "CANDIDATE" ELSE "FAILED">> :
        v \in {u \in Videos : copyState[u] = state /\ Owners(u, state) = {}}}

\* The copy state the list of a sweep phase was read for.
SweptState ==
    CASE phase = "downloading" -> "DOWNLOADING"
      [] phase = "queued" -> "QUEUED"
      [] OTHER -> "VERIFYING"

ReadList(next, state) ==
    /\ phase' = next
    /\ videoTodo' = Zombies(state)
    /\ UNCHANGED <<rowTodo, jobStatus, copyState, queueVars>>
    /\ BootUnchanged

\* The hop is compared with the state of the list, whatever happened to the
\* video since the list was read.
SweepVideo(v, to) ==
    /\ phase \in {"downloading", "queued", "verifying"}
    /\ <<v, to>> \in videoTodo
    /\ videoTodo' = videoTodo \ {<<v, to>>}
    /\ TransitionCopy(v, SweptState, to)
    /\ UNCHANGED <<phase, rowTodo, jobStatus, queueVars>>
    /\ BootUnchanged

\* Mutant: the DOWNLOADING list is forgotten.
NextListShort ==
    \/ phase = "rows" /\ rowTodo = {} /\ ReadList("queued", "QUEUED")
    \/ phase = "queued" /\ videoTodo = {} /\ ReadList("verifying", "VERIFYING")
NextList ==
    \/ phase = "rows" /\ rowTodo = {} /\ ReadList("downloading", "DOWNLOADING")
    \/ phase = "downloading" /\ videoTodo = {} /\ ReadList("queued", "QUEUED")
    \/ phase = "queued" /\ videoTodo = {} /\ ReadList("verifying", "VERIFYING")

\* The sweep is over: the control subscriber and then the consumers start.
Started ==
    /\ phase = "verifying"
    /\ videoTodo = {}
    /\ phase' = "up"
    /\ UNCHANGED <<rowTodo, videoTodo, jobStatus, copyState, queueVars>>
    /\ BootUnchanged

\* Every step of the boot.
BootStep ==
    \/ Boot
    \/ \E j \in Jobs, status \in {"QUEUED", "RUNNING"} : CheckRow(j, status)
    \/ \E j \in Jobs : ReAdd(j)
    \/ NextList
    \/ \E v \in Videos, to \in {"CANDIDATE", "FAILED"} : SweepVideo(v, to)
    \/ Started
=============================================================================

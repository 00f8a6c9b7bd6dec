------------------------------- MODULE QueueApi ------------------------------
(***************************************************************************)
(* The api's queue service: enqueue, cancel, pause and resume of downloads.*)
(* A request runs statement by statement against the same rows as the      *)
(* worker; a request slot r remembers what it read.                        *)
(***************************************************************************)
EXTENDS ArchiveState

ApiUnchanged == UNCHANGED <<bootVars, execVars, lpc>>

At(r, step) == hpc[r] = step

\* The request goes on at the next statement.
Then(r, step) ==
    /\ hpc' = [hpc EXCEPT ![r] = step]
    /\ UNCHANGED <<hjob, hptr, hfrom>>

\* The request is answered; its slot is free.
Answer(r) ==
    /\ hpc' = [hpc EXCEPT ![r] = "idle"]
    /\ hjob' = [hjob EXCEPT ![r] = NoJob]
    /\ hptr' = [hptr EXCEPT ![r] = FALSE]
    /\ hfrom' = [hfrom EXCEPT ![r] = "CANDIDATE"]

\* A request about row j that read its staging pointer.
Start(r, step, j, pointer) ==
    /\ At(r, "idle")
    /\ hpc' = [hpc EXCEPT ![r] = step]
    /\ hjob' = [hjob EXCEPT ![r] = j]
    /\ hptr' = [hptr EXCEPT ![r] = pointer]
    /\ UNCHANGED hfrom

-----------------------------------------------------------------------------
\* Enqueue

EnqueueableStates == {"CANDIDATE", "FAILED", "PARTIAL_KEPT"}

\* One transaction: an eligible video with no active DOWNLOAD row gets a row
\* and the QUEUED state.
Enqueue(r, v) ==
    /\ copyState[v] \in EnqueueableStates
    /\ ActiveDownloads(v) = {}
    /\ \E j \in Downloads :
         /\ NextId(j, Downloads)
         /\ CreateRow(j, v)
         /\ Start(r, "add", j, FALSE)
    /\ copyState' = [copyState EXCEPT ![v] = "QUEUED"]
    /\ UNCHANGED <<staging, queueVars, control, faults>>
    /\ ApiUnchanged

\* After the commit the execution is added.
AddExecution(r) ==
    /\ At(r, "add")
    /\ QueueAdd(hjob[r])
    /\ Answer(r)
    /\ UNCHANGED <<rowVars, copyState, staging, control, faults>>
    /\ ApiUnchanged

\* Mutant: the enqueue fails without compensation.
AddRejectedUndone(r) ==
    /\ At(r, "add")
    /\ Fault("redis")
    /\ Answer(r)
    /\ UNCHANGED <<rowVars, copyState, staging, queueVars, control>>
    /\ ApiUnchanged
\* The add is rejected: the broker is gone.
AddRejected(r) ==
    /\ At(r, "add")
    /\ Fault("redis")
    /\ Then(r, "undoRow")
    /\ UNCHANGED <<rowVars, copyState, staging, queueVars, control>>
    /\ ApiUnchanged

\* Mutant: the compensation ends with the row.
UndoRowOnly(r) ==
    /\ At(r, "undoRow")
    /\ CasRow(hjob[r], {"QUEUED"}, "FAILED")
    /\ Answer(r)
    /\ UNCHANGED <<jobVideo, stagingDir, copyState, staging, queueVars, control, faults>>
    /\ ApiUnchanged
\* The compensation: the row if it is still QUEUED, then the video if it is.
UndoRow(r) ==
    /\ At(r, "undoRow")
    /\ CasRow(hjob[r], {"QUEUED"}, "FAILED")
    /\ Then(r, "undoVideo")
    /\ UNCHANGED <<jobVideo, stagingDir, copyState, staging, queueVars, control, faults>>
    /\ ApiUnchanged

UndoVideo(r) ==
    /\ At(r, "undoVideo")
    /\ TransitionCopy(jobVideo[hjob[r]], "QUEUED", "CANDIDATE")
    /\ Answer(r)
    /\ UNCHANGED <<rowVars, staging, queueVars, control, faults>>
    /\ ApiUnchanged

-----------------------------------------------------------------------------
\* Statements cancel and pause share

\* A RUNNING row is the worker's: the command goes out on job:control.
\* Otherwise the api settles the row itself, execution first.
Command(r, j, statuses, signal, remove) ==
    /\ jobStatus[j] \in statuses \cup {"RUNNING"}
    /\ Start(r, IF jobStatus[j] = "RUNNING" THEN signal ELSE remove, j, stagingDir[j])
    /\ UNCHANGED <<rowVars, copyState, staging, queueVars, control, faults>>
    /\ ApiUnchanged

\* bullJob.remove: refused while the execution is locked, by a worker that runs
\* it or by one that died and whose lock has not expired.  A refusal, like any
\* other error, falls through.
RemoveExecution(r, step, next) ==
    LET j == hjob[r] IN
    /\ At(r, step)
    /\ \/ /\ bull[j] # "active"
          /\ bull' = [bull EXCEPT ![j] = "absent"]
          /\ made' = [made EXCEPT ![j] = 0]
          /\ UNCHANGED faults
       \/ bull[j] = "active" /\ UNCHANGED <<queueVars, faults>>
       \/ Fault("redis") /\ UNCHANGED queueVars
    /\ Then(r, next)
    /\ UNCHANGED <<rowVars, copyState, staging, control>>
    /\ ApiUnchanged

\* The settle was lost: a row now RUNNING was claimed and is signalled, any
\* other is answered 409.
RereadRow(r, step, signal) ==
    /\ At(r, step)
    /\ IF jobStatus[hjob[r]] = "RUNNING" THEN Then(r, signal) ELSE Answer(r)
    /\ UNCHANGED <<rowVars, copyState, staging, queueVars, control, faults>>
    /\ ApiUnchanged

\* The command is published; the request is answered 202.
Signal(r) ==
    /\ At(r, "signalCancel") \/ At(r, "signalPause")
    /\ Cardinality(control) < MaxSignals
    /\ control' = control \cup
                  {<<IF At(r, "signalCancel") THEN "cancel" ELSE "pause", hjob[r]>>}
    /\ Answer(r)
    /\ UNCHANGED <<rowVars, copyState, staging, queueVars, faults>>
    /\ ApiUnchanged

\* The broker does not take it: the request is answered 503.
SignalRejected(r) ==
    /\ At(r, "signalCancel") \/ At(r, "signalPause")
    /\ Fault("redis")
    /\ Answer(r)
    /\ UNCHANGED <<rowVars, copyState, staging, queueVars, control>>
    /\ ApiUnchanged

-----------------------------------------------------------------------------
\* Cancel

\* Mutant: a row claimed meanwhile is settled like the others.
CancelableRunning == ActiveStatuses
\* The rows the api settles itself; a RUNNING one is the worker's.
Cancelable == {"QUEUED", "PAUSED"}

Cancel(r, j) == Command(r, j, Cancelable, "signalCancel", "cancelRemove")

CancelSettle(r) ==
    LET j == hjob[r] IN
    /\ At(r, "cancelSettle")
    /\ IF jobStatus[j] \in Cancelable
       THEN /\ jobStatus' = [jobStatus EXCEPT ![j] = "CANCELED"]
            /\ stagingDir' = [stagingDir EXCEPT ![j] = FALSE]
            /\ Then(r, "cancelWipe")
       ELSE /\ Then(r, "cancelReread")
            /\ UNCHANGED <<jobStatus, stagingDir>>
    /\ UNCHANGED <<jobVideo, copyState, staging, queueVars, control, faults>>
    /\ ApiUnchanged

\* Staging goes by the pointer the request loaded, before the video can be
\* enqueued again.
CancelWipe(r) ==
    /\ At(r, "cancelWipe")
    /\ IF hptr[r] THEN Wipe(jobVideo[hjob[r]]) ELSE UNCHANGED staging
    /\ Then(r, "cancelRead")
    /\ UNCHANGED <<rowVars, copyState, queueVars, control, faults>>
    /\ ApiUnchanged

\* returnVideoToCandidate: the hop starts from the state it reads.
CancelRead(r) ==
    LET state == copyState[jobVideo[hjob[r]]] IN
    /\ At(r, "cancelRead")
    /\ IF state \in {"QUEUED", "DOWNLOADING"}
       THEN /\ hpc' = [hpc EXCEPT ![r] = "cancelHop"]
            /\ hfrom' = [hfrom EXCEPT ![r] = state]
            /\ UNCHANGED <<hjob, hptr>>
       ELSE Answer(r)
    /\ UNCHANGED <<rowVars, copyState, staging, queueVars, control, faults>>
    /\ ApiUnchanged

CancelHop(r) ==
    /\ At(r, "cancelHop")
    /\ TransitionCopy(jobVideo[hjob[r]], hfrom[r], "CANDIDATE")
    /\ Answer(r)
    /\ UNCHANGED <<rowVars, staging, queueVars, control, faults>>
    /\ ApiUnchanged

-----------------------------------------------------------------------------
\* Pause and resume

\* Mutant: a row claimed meanwhile is paused under its worker.
PausableRunning == {"QUEUED", "RUNNING"}
Pausable == {"QUEUED"}

Pause(r, j) == Command(r, j, Pausable, "signalPause", "pauseRemove")

PauseSettle(r) ==
    /\ At(r, "pauseSettle")
    /\ CasRow(hjob[r], Pausable, "PAUSED")
    /\ IF jobStatus[hjob[r]] \in Pausable THEN Answer(r) ELSE Then(r, "pauseReread")
    /\ UNCHANGED <<jobVideo, stagingDir, copyState, staging, queueVars, control, faults>>
    /\ ApiUnchanged

Resume(r, j) ==
    /\ jobStatus[j] = "PAUSED"
    /\ Start(r, "resumeWait", j, FALSE)
    /\ UNCHANGED <<rowVars, copyState, staging, queueVars, control, faults>>
    /\ ApiUnchanged

\* The previous execution must be gone before the id is used again ...
ResumeFree(r) ==
    /\ At(r, "resumeWait")
    /\ bull[hjob[r]] = "absent"
    /\ Then(r, "resumeCas")
    /\ UNCHANGED <<rowVars, copyState, staging, queueVars, control, faults>>
    /\ ApiUnchanged

\* ... or the request gives up at its deadline, the row still PAUSED.
ResumeTimeout(r) ==
    /\ At(r, "resumeWait")
    /\ bull[hjob[r]] # "absent"
    /\ Answer(r)
    /\ UNCHANGED <<rowVars, copyState, staging, queueVars, control, faults>>
    /\ ApiUnchanged

ResumeCas(r) ==
    /\ At(r, "resumeCas")
    /\ CasRow(hjob[r], {"PAUSED"}, "QUEUED")
    /\ IF jobStatus[hjob[r]] = "PAUSED" THEN Then(r, "resumeAdd") ELSE Answer(r)
    /\ UNCHANGED <<jobVideo, stagingDir, copyState, staging, queueVars, control, faults>>
    /\ ApiUnchanged

ResumeAdd(r) ==
    /\ At(r, "resumeAdd")
    /\ QueueAdd(hjob[r])
    /\ Answer(r)
    /\ UNCHANGED <<rowVars, copyState, staging, control, faults>>
    /\ ApiUnchanged

ResumeRejected(r) ==
    /\ At(r, "resumeAdd")
    /\ Fault("redis")
    /\ Then(r, "resumeUndo")
    /\ UNCHANGED <<rowVars, copyState, staging, queueVars, control>>
    /\ ApiUnchanged

\* The owner paused it: the row goes back to PAUSED.
ResumeUndo(r) ==
    /\ At(r, "resumeUndo")
    /\ CasRow(hjob[r], {"QUEUED"}, "PAUSED")
    /\ Answer(r)
    /\ UNCHANGED <<jobVideo, stagingDir, copyState, staging, queueVars, control, faults>>
    /\ ApiUnchanged

\* The api process dies, or a statement of the request throws: it is never
\* finished.
RequestDies(r) ==
    /\ ~At(r, "idle")
    /\ Fault("api")
    /\ Answer(r)
    /\ UNCHANGED <<rowVars, copyState, staging, queueVars, control>>
    /\ ApiUnchanged

-----------------------------------------------------------------------------
\* What an owner may ask for, and the steps that answer a request.

Ask(r) ==
    \/ "enqueue" \in Asks /\ \E v \in Videos : Enqueue(r, v)
    \/ "cancel" \in Asks /\ \E j \in Downloads : Cancel(r, j)
    \/ "pause" \in Asks /\ \E j \in Downloads : Pause(r, j)
    \/ "resume" \in Asks /\ \E j \in Downloads : Resume(r, j)

Serve(r) ==
    \/ AddExecution(r) \/ UndoRow(r) \/ UndoVideo(r)
    \/ RemoveExecution(r, "cancelRemove", "cancelSettle")
    \/ RemoveExecution(r, "pauseRemove", "pauseSettle")
    \/ RereadRow(r, "cancelReread", "signalCancel")
    \/ RereadRow(r, "pauseReread", "signalPause")
    \/ Signal(r)
    \/ CancelSettle(r) \/ CancelWipe(r) \/ CancelRead(r) \/ CancelHop(r)
    \/ PauseSettle(r)
    \/ ResumeFree(r) \/ ResumeTimeout(r) \/ ResumeCas(r) \/ ResumeAdd(r) \/ ResumeUndo(r)

RequestFails(r) ==
    AddRejected(r) \/ ResumeRejected(r) \/ SignalRejected(r) \/ RequestDies(r)
=============================================================================

---------------------------- MODULE LiveDetection ----------------------------
(***************************************************************************)
(* jobs/live-scan.scheduler.ts and jobs/live-probe.processor.ts: how a     *)
(* watched channel is probed, a broadcast on air is given a session and a  *)
(* capture, and what an ended one left behind is closed out.               *)
(***************************************************************************)
EXTENDS LiveFinalizer

Probe(v) == <<"probe", v>>
Step(v, step) == ppc' = [ppc EXCEPT ![v] = step]

probeFrame == <<parked, archiveVars, diskVars, airVars, bootVars, runVars, lpc, checkVars>>
rowsFrame == <<content, copyState, sessVars, capVars, bull>>

-----------------------------------------------------------------------------
\* The scan: a due channel with no active probe row gets one.  Time is left
\* out: a watched channel is always due again.

ScanRow(v) ==
    /\ phase = "up"
    /\ scan[v] = "idle"
    /\ ~probeRow[v]
    /\ probeRow' = [probeRow EXCEPT ![v] = TRUE]
    /\ scan' = [scan EXCEPT ![v] = "add"]
    /\ UNCHANGED <<probeFrame, rowsFrame, probeBull, probeVars, script, sweepTodo, faults>>

ScanAdd(v) ==
    /\ scan[v] = "add"
    /\ scan' = [scan EXCEPT ![v] = "idle"]
    /\ probeBull' = [probeBull EXCEPT ![v] = "waiting"]
    /\ UNCHANGED <<probeFrame, rowsFrame, probeRow, probeVars, script, sweepTodo, faults>>

-----------------------------------------------------------------------------
\* One probe

ProbePickUp(v) ==
    /\ phase = "up"
    /\ probeBull[v] \in {"waiting", "again"}
    /\ ppc[v] = "idle"
    /\ probeBull' = [probeBull EXCEPT ![v] = IF @ = "waiting" THEN "active" ELSE "last"]
    /\ Step(v, "look")
    /\ UNCHANGED <<probeFrame, rowsFrame, probeRow, pseen, psess, scan, script, sweepTodo,
                   faults>>

\* A probe whose worker died: BullMQ runs it once more, which claims the
\* RUNNING row, and then fails it without touching the row.
ProbeStall(v) ==
    /\ phase = "up"
    /\ probeBull[v] \in {"active", "last"}
    /\ ppc[v] = "idle"
    /\ probeBull' = [probeBull EXCEPT ![v] = IF @ = "active" THEN "again" ELSE "absent"]
    /\ UNCHANGED <<probeFrame, rowsFrame, probeRow, probeVars, scan, script, sweepTodo, faults>>

\* The execution is over, and what it had read is forgotten.
ProbeGone(v) ==
    /\ probeBull' = [probeBull EXCEPT ![v] = "absent"]
    /\ pseen' = [pseen EXCEPT ![v] = "CANDIDATE"]
    /\ psess' = [psess EXCEPT ![v] = NoSession]
    /\ Step(v, "idle")
\* The row gets its verdict first.
ProbeDone(v) ==
    /\ probeRow' = [probeRow EXCEPT ![v] = FALSE]
    /\ ProbeGone(v)
\* The probe goes on.
ProbeGoes(v, step) == Step(v, step) /\ UNCHANGED <<probeRow, probeBull>>

\* yt-dlp answers: on air, or not.  An error while it is on air reads as not
\* on air or, when it is a throttle, as nothing at all.  A drain cancels it.
Look(v) ==
    /\ ppc[v] = "look"
    /\ \/ /\ phase = "draining"
          /\ ProbeDone(v)
          /\ UNCHANGED faults
       \/ /\ phase = "up"
          /\ ProbeGoes(v, IF air[v] = "live" THEN "read" ELSE "list")
          /\ UNCHANGED <<pseen, psess, faults>>
       \/ /\ Fault("glitch")
          /\ ProbeDone(v) \/ (ProbeGoes(v, "list") /\ UNCHANGED <<pseen, psess>>)
    /\ UNCHANGED <<probeFrame, rowsFrame, scan, script, sweepTodo>>

\* A statement throws and nothing catches it: the execution is over, and the
\* row is left RUNNING.
ProbeThrows(v) ==
    /\ ppc[v] # "idle"
    /\ Fault("db")
    /\ ProbeGone(v)
    /\ script' = [script EXCEPT ![Probe(v)] = <<>>]
    /\ sweepTodo' = [sweepTodo EXCEPT ![Probe(v)] = {}]
    /\ UNCHANGED <<probeFrame, rowsFrame, probeRow, scan>>

\* Not on air: the close-out of what a stalled recording left behind.
List(v) ==
    /\ ppc[v] = "list"
    /\ sweepTodo' = [sweepTodo EXCEPT ![Probe(v)] = StrandedVideos({v})]
    /\ Step(v, "sweep")
    /\ UNCHANGED <<probeFrame, rowsFrame, probeRow, probeBull, pseen, psess, scan, script,
                   faults>>

Sweep(v) ==
    /\ ppc[v] = "sweep"
    /\ \/ /\ SweepCandidate(Probe(v))
          /\ UNCHANGED <<probeRow, probeBull, probeVars>>
       \/ /\ script[Probe(v)] = <<>> /\ sweepTodo[Probe(v)] = {}
          /\ ProbeDone(v)
          /\ UNCHANGED <<script, sweepTodo, content>>
    /\ UNCHANGED <<probeFrame, copyState, sessVars, capVars, bull, scan, faults>>

-----------------------------------------------------------------------------
\* detect: a broadcast on air.  Every step reads or writes once.

detectFrame == <<probeFrame, bull, scan, script, sweepTodo, faults>>

\* SKIP_CAPTURE_STATES: being captured, or archived.
SkipCaptureStates == {"DOWNLOADING", "VERIFYING", "HEALTHY", "PARTIAL_KEPT", "AWAITING_VERIFY"}

ReadVideo(v) ==
    /\ ppc[v] = "read"
    /\ IF copyState[v] \in SkipCaptureStates
       THEN ProbeDone(v)
       ELSE /\ ProbeGoes(v, "guard")
            /\ pseen' = [pseen EXCEPT ![v] = copyState[v]]
            /\ UNCHANGED psess
    /\ UNCHANGED <<detectFrame, content, copyState, sessVars, capVars>>

\* A video with an active download belongs to the archive worker.
Guard(v) ==
    /\ ppc[v] = "guard"
    /\ IF dlRow[v] # "none" THEN ProbeDone(v)
       ELSE ProbeGoes(v, "create") /\ UNCHANGED <<pseen, psess>>
    /\ UNCHANGED <<detectFrame, content, copyState, sessVars, capVars>>

\* The row is created, or found enumerated; from here on it is LIVE.
CreateLiveCandidate(v) ==
    /\ ppc[v] = "create"
    /\ MarkContentTypeLive(v)
    /\ ProbeGoes(v, "promote")
    /\ UNCHANGED <<detectFrame, copyState, sessVars, capVars, pseen, psess>>

\* The hop from the state that was read; a lost one is ignored.
Promote(v) ==
    /\ ppc[v] = "promote"
    /\ IF pseen[v] = "QUEUED" THEN UNCHANGED copyState
       ELSE TransitionCopy(v, pseen[v], "QUEUED")
    /\ ProbeGoes(v, "session")
    /\ UNCHANGED <<detectFrame, content, sessVars, capVars, pseen, psess>>

\* ensureSession: find the active session, else insert one, else find again.
FindSession(v) ==
    /\ ppc[v] \in {"session", "refind"}
    /\ \/ /\ \E s \in ActiveSessions(v) : psess' = [psess EXCEPT ![v] = s]
          /\ ProbeGoes(v, "capture")
          /\ UNCHANGED pseen
       \/ /\ ActiveSessions(v) = {} /\ ppc[v] = "session"
          /\ ProbeGoes(v, "open")
          /\ UNCHANGED <<pseen, psess>>
       \/ /\ ActiveSessions(v) = {} /\ ppc[v] = "refind"
          /\ ProbeDone(v)
    /\ UNCHANGED <<detectFrame, content, copyState, sessVars, capVars>>

\* ux_live_session_active refuses a second active session.
MayOpen(v) == ActiveSessions(v) = {}

OpenSession(v) ==
    /\ ppc[v] = "open"
    /\ IF MayOpen(v)
       THEN \E s \in Sessions :
               /\ CreateSession(s, v, "DETECTED")
               /\ psess' = [psess EXCEPT ![v] = s]
               /\ ProbeGoes(v, "capture")
       ELSE ProbeGoes(v, "refind") /\ UNCHANGED <<sessVars, psess>>
    /\ UNCHANGED <<detectFrame, content, copyState, capVars, pseen>>

\* Mutant: only a capture that is not claimed yet counts.
OwnedByQueuedCapture(v) == \E c \in ActiveCaptures(v) : capStatus[c] = "QUEUED"
OwnedByCapture(v) == ActiveCaptures(v) # {}

FindCapture(v) ==
    /\ ppc[v] = "capture"
    /\ IF OwnedByCapture(v) THEN ProbeDone(v)
       ELSE ProbeGoes(v, "row") /\ UNCHANGED <<pseen, psess>>
    /\ UNCHANGED <<detectFrame, content, copyState, sessVars, capVars>>

CreateCapture(v) ==
    /\ ppc[v] = "row"
    /\ \E c \in Captures :
          /\ NewCapture(c)
          /\ capStatus' = [capStatus EXCEPT ![c] = "QUEUED"]
          /\ capVideo' = [capVideo EXCEPT ![c] = v]
          /\ capSession' = [capSession EXCEPT ![c] = psess[v]]
    /\ ProbeGoes(v, "add")
    /\ UNCHANGED <<detectFrame, content, copyState, sessVars, pseen, psess>>

\* The execution of the row just created.
AddCapture(v) ==
    /\ ppc[v] = "add"
    /\ \E c \in Captures :
          /\ capVideo[c] = v /\ \A d \in Captures : capVideo[d] = v => d <= c
          /\ bull' = [bull EXCEPT ![c] = IF @ = "absent" THEN "waiting" ELSE @]
    /\ ProbeDone(v)
    /\ UNCHANGED <<probeFrame, content, copyState, sessVars, capVars, scan,
                   script, sweepTodo, faults>>
=============================================================================

----------------------------- MODULE LiveArchive -----------------------------
(***************************************************************************)
(* What the live pipeline meets on the archive side: the re-check of parked*)
(* recordings (services/completeness-checker.ts), the enqueue of a         *)
(* broadcast as a download, and, as far as copyState goes, the download and*)
(* the verify themselves, whose steps are in ArchivePipeline.              *)
(***************************************************************************)
EXTENDS LiveFinalizer

Check(v) == <<"check", v>>

checkFrame == <<sessVars, capVars, bull, probeBull, probeRow, airVars, bootVars, runVars,
                lpc, probeVars, scan, sweepTodo>>
archiveFrame == <<checkFrame, faults>>

-----------------------------------------------------------------------------
\* One re-check of a video the sweep found AWAITING_VERIFY.

\* The newest parked session is read; without one somebody else owns the video.
Recheck(v) ==
    /\ kpc[v] = "idle"
    /\ copyState[v] = "AWAITING_VERIFY"
    /\ \E s \in Sessions :
          /\ sessVideo[s] = v /\ sessState[s] = "ENDED_PENDING"
          /\ \A t \in Sessions :
                sessVideo[t] = v /\ sessState[t] = "ENDED_PENDING" => t <= s
          /\ ksess' = [ksess EXCEPT ![v] = s]
    /\ kpc' = [kpc EXCEPT ![v] = "measure"]
    /\ UNCHANGED <<archiveFrame, archiveVars, content, copyState, parked, diskVars, script>>

\* Mutant: the deadline is never looked at.
GivesUpNever(v) == FALSE
\* The deadline has passed and the length is still not known.
GivesUp(v) == parked[v] = "expired"

\* Measured complete, measured short, given up at the deadline, or put off.
Remeasure(v) ==
    /\ kpc[v] = "measure"
    /\ \E verdict \in LiveEndKinds :
          LET todo == IF verdict = "NORMAL" THEN ResolveVerified(ksess[v], v)
                      ELSE IF verdict = "INTERRUPTED" \/ GivesUp(v)
                      THEN ResolvePartial(ksess[v], v) ELSE <<>>
          IN  /\ Measured(v, verdict)
              /\ script' = [script EXCEPT ![Check(v)] = todo]
    /\ kpc' = [kpc EXCEPT ![v] = "settle"]
    /\ UNCHANGED <<checkFrame, archiveVars, content, copyState, parked, diskVars, ksess>>

CheckDone(v) ==
    /\ kpc[v] = "settle"
    /\ script[Check(v)] = <<>>
    /\ kpc' = [kpc EXCEPT ![v] = "idle"]
    /\ ksess' = [ksess EXCEPT ![v] = NoSession]
    /\ UNCHANGED <<archiveFrame, archiveVars, content, copyState, parked, diskVars, script>>

\* A day passes.
Deadline(v) ==
    /\ parked[v] = "waiting"
    /\ parked' = [parked EXCEPT ![v] = "expired"]
    /\ UNCHANGED <<archiveFrame, archiveVars, content, copyState, diskVars, script, checkVars>>

-----------------------------------------------------------------------------
\* The broadcast as an ordinary video

videoFrame == <<parked, archiveFrame, checkVars, script>>

\* Enumeration lists the broadcast like any other upload.
Enumerate(v) ==
    /\ content[v] = "none"
    /\ content' = [content EXCEPT ![v] = "REGULAR"]
    /\ UNCHANGED <<videoFrame, archiveVars, copyState, diskVars>>

\* Mutant: a kept partial of a broadcast may be fetched again.
EnqueueableRefetch(v) == copyState[v] \in {"CANDIDATE", "FAILED", "PARTIAL_KEPT"}
\* A LIVE video is enqueued only while nothing was ever attempted.
Enqueueable(v) ==
    /\ copyState[v] \in {"CANDIDATE", "FAILED", "PARTIAL_KEPT"}
    /\ content[v] = "LIVE" => copyState[v] = "CANDIDATE"

\* The enqueue's transaction has read the video and found no active capture.
EnqueueRead(v) ==
    /\ epc[v] = "idle"
    /\ content[v] # "none" /\ Enqueueable(v)
    /\ dlRow[v] = "none"
    /\ ActiveCaptures(v) = {}
    /\ Fault("enqueue")
    /\ epc' = [epc EXCEPT ![v] = copyState[v]]
    /\ UNCHANGED <<parked, checkFrame, checkVars, script, dlRow, verifyRow, content, copyState, diskVars>>

\* It commits row and hop, or is rolled back because the video moved.
EnqueueCommit(v) ==
    /\ epc[v] # "idle"
    /\ epc' = [epc EXCEPT ![v] = "idle"]
    /\ TransitionCopy(v, epc[v], "QUEUED")
    /\ dlRow' = [dlRow EXCEPT ![v] = IF copyState[v] = epc[v] THEN "QUEUED" ELSE @]
    /\ UNCHANGED <<videoFrame, verifyRow, content, diskVars>>

\* The download claims its row and begins, or finds the video moved.
DownloadBegin(v) ==
    /\ dlRow[v] = "QUEUED"
    /\ dlRow' = [dlRow EXCEPT ![v] = IF copyState[v] \in {"QUEUED", "DOWNLOADING"}
                                     THEN "RUNNING" ELSE "none"]
    /\ TransitionCopy(v, "QUEUED", "DOWNLOADING")
    /\ UNCHANGED <<videoFrame, verifyRow, epc, content, diskVars>>

\* It publishes the post-live video and chains its verify, or it fails.
DownloadEnd(v) ==
    /\ dlRow[v] = "RUNNING"
    /\ dlRow' = [dlRow EXCEPT ![v] = "none"]
    /\ \/ /\ air[v] = "ended"
          /\ media' = [media EXCEPT ![v] = aired[v]]
          /\ TransitionCopy(v, "DOWNLOADING", "VERIFYING")
          /\ verifyRow' = [verifyRow EXCEPT ![v] = @ \/ copyState[v] = "DOWNLOADING"]
       \/ /\ TransitionCopy(v, "DOWNLOADING", "FAILED")
          /\ UNCHANGED <<media, verifyRow>>
    /\ UNCHANGED <<videoFrame, epc, content, fresh, prior>>

\* The verify gives its verdict.
VerifyEnd(v) ==
    /\ verifyRow[v]
    /\ verifyRow' = [verifyRow EXCEPT ![v] = FALSE]
    /\ \E to \in {"HEALTHY", "FAILED"} : TransitionCopy(v, "VERIFYING", to)
    /\ UNCHANGED <<videoFrame, dlRow, epc, content, diskVars>>
=============================================================================

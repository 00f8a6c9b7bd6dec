---------------------------- MODULE VerifyConsumer ---------------------------
(***************************************************************************)
(* The verify consumer: process() of one VERIFY execution.  It runs one at *)
(* a time and registers nothing with the control plane.                    *)
(***************************************************************************)
EXTENDS JobExecution

VerifyUnchanged ==
    UNCHANGED <<staging, queueVars, control, bootVars, lpc, apiVars>>

ClaimVerify(j) ==
    /\ pc[j] = "vclaim"
    /\ IF jobStatus[j] = "QUEUED" \/ (made[j] > 0 /\ jobStatus[j] = "RUNNING")
       THEN /\ jobStatus' = [jobStatus EXCEPT ![j] = "RUNNING"]
            /\ Goto(j, "vread")
       ELSE /\ Leave(j, "settleOk")
            /\ UNCHANGED jobStatus
    /\ UNCHANGED <<jobVideo, stagingDir, copyState, faults>>
    /\ VerifyUnchanged

\* A HEALTHY video is a no-op, any other state than VERIFYING a terminal
\* failure of the row that leaves the video alone.
ReadVideo(j) ==
    /\ pc[j] = "vread"
    /\ LET state == copyState[jobVideo[j]] IN
       IF state = "VERIFYING"
       THEN /\ \E next \in {"vprobe", "failFinal"} : \* failFinal: the media is missing
                 Goto(j, next)
            /\ UNCHANGED <<jobStatus, stagingDir>>
       ELSE IF state = "HEALTHY"
            THEN MarkFinished(j, "COMPLETED", FALSE) /\ Leave(j, "settleOk")
            ELSE MarkFinished(j, "FAILED", FALSE) /\ Leave(j, "settleUnrecoverable")
    /\ UNCHANGED <<jobVideo, copyState, faults>>
    /\ VerifyUnchanged

\* ffprobe and the integrity policy: a sound copy, a bad one, or an error,
\* terminal or transient.
Probe(j) ==
    /\ pc[j] = "vprobe"
    /\ \E next \in {"vpass", "vbad", "failFinal", CatchStep(j)} : Goto(j, next)
    /\ UNCHANGED <<rowVars, copyState, faults>>
    /\ VerifyUnchanged

\* The verdict is the outcome of the job: the row completes either way, and a
\* verdict on a video that is no longer VERIFYING is discarded.
Verdict(j) ==
    /\ \/ pc[j] = "vpass" /\ TransitionCopy(jobVideo[j], "VERIFYING", "HEALTHY")
       \/ pc[j] = "vbad" /\ TransitionCopy(jobVideo[j], "VERIFYING", "FAILED")
    /\ Goto(j, "finish")
    /\ UNCHANGED <<rowVars, faults>>
    /\ VerifyUnchanged

\* A statement that throws: before the try the error leaves process() with the
\* row as it is, unless it is the verdict on a video to be left alone, which is
\* swallowed; inside the try the error is recorded as a failure.
VerifyThrows(j) ==
    /\ Fault("db")
    /\ \/ pc[j] \in {"vclaim", "vread"} /\ Leave(j, "settleThrow")
       \/ /\ pc[j] = "vread"
          /\ copyState[jobVideo[j]] # "VERIFYING"
          /\ Leave(j, IF copyState[jobVideo[j]] = "HEALTHY" THEN "settleOk" ELSE "settleUnrecoverable")
       \/ pc[j] \in {"vprobe", "vpass", "vbad"} /\ Goto(j, CatchStep(j))
    /\ UNCHANGED <<rowVars, copyState>>
    /\ VerifyUnchanged

VerifyStep(j) ==
    ClaimVerify(j) \/ ReadVideo(j) \/ Probe(j) \/ Verdict(j)
=============================================================================

----------------------------- MODULE LiveCapture -----------------------------
(***************************************************************************)
(* jobs/live-capture.processor.ts: one process() per recording, and the    *)
(* listener that gives the verdict on an execution BullMQ declared stalled.*)
(* Executions have one attempt; two run at once.                           *)
(***************************************************************************)
EXTENDS LiveFinalizer

Run(c) == <<"run", c>>
Listener(c) == <<"listen", c>>
Goto(c, step) == cpc' = [cpc EXCEPT ![c] = step]
Owe(a, ops) == script' = [script EXCEPT ![a] = ops]

\* What an execution leaves alone unless it writes through the finalizer.
captureFrame == <<parked, archiveVars, probeRow, probeBull, airVars, bootVars,
                  lpc, probeVars, scan, sweepTodo, checkVars>>
quietFrame == <<content, copyState, sessVars, diskVars>>

\* process() returns: the entry is unregistered, the execution is gone.
Leave(c) ==
    /\ Goto(c, "idle")
    /\ bull' = [bull EXCEPT ![c] = "absent"]
    /\ ctl' = [ctl EXCEPT ![c] = "absent"]
    /\ cseen' = [cseen EXCEPT ![c] = "CANDIDATE"]
    /\ csess' = [csess EXCEPT ![c] = NoSession]

\* BullMQ hands an execution to a free slot of the worker.
PickUp(c) ==
    /\ phase = "up"
    /\ bull[c] = "waiting"
    /\ Cardinality({d \in Captures : cpc[d] # "idle"}) < 2
    /\ bull' = [bull EXCEPT ![c] = "active"]
    /\ Goto(c, "load")
    /\ UNCHANGED <<quietFrame, captureFrame, capVars, cseen, csess, ctl, script, faults>>

\* Row and video are read, the control entry registered, the row claimed: a
\* first and only attempt takes a QUEUED row and no other.
Load(c) ==
    /\ cpc[c] = "load"
    /\ IF capStatus[c] = "QUEUED"
       THEN /\ capStatus' = [capStatus EXCEPT ![c] = "RUNNING"]
            /\ ctl' = [ctl EXCEPT ![c] = "clear"]
            /\ cseen' = [cseen EXCEPT ![c] = copyState[capVideo[c]]]
            /\ csess' = [csess EXCEPT ![c] = capSession[c]]
            /\ Goto(c, "begin")
            /\ UNCHANGED bull
       ELSE Leave(c) /\ UNCHANGED capStatus
    /\ UNCHANGED <<quietFrame, captureFrame, capVideo, capSession, script, faults>>

\* failNotCapturable: the row fails and the session is released.
FailNotCapturable(c) ==
    Owe(Run(c), <<Row(c, "FAILED")>> \o FinalizeEmpty(csess[c], capVideo[c], "FAILED"))

\* The video begins, judged by the state read before the claim.
Begin(c) ==
    LET v == capVideo[c] IN
    /\ cpc[c] = "begin"
    /\ IF cseen[c] = "QUEUED"
       THEN /\ TransitionCopy(v, "QUEUED", "DOWNLOADING")
            /\ Goto(c, IF copyState[v] = "QUEUED" THEN "prepare" ELSE "reread")
            /\ UNCHANGED script
       ELSE /\ UNCHANGED copyState
            /\ IF cseen[c] = "DOWNLOADING"
               THEN Goto(c, "prepare") /\ UNCHANGED script
               ELSE Goto(c, "settle") /\ FailNotCapturable(c)
    /\ UNCHANGED <<content, sessVars, diskVars, captureFrame, capVars, bull, cseen,
                   csess, ctl, faults>>

\* The hop was lost: the video must be DOWNLOADING by now.
Reread(c) ==
    /\ cpc[c] = "reread"
    /\ IF copyState[capVideo[c]] = "DOWNLOADING"
       THEN Goto(c, "prepare") /\ UNCHANGED script
       ELSE Goto(c, "settle") /\ FailNotCapturable(c)
    /\ UNCHANGED <<quietFrame, captureFrame, capVars, bull, cseen, csess, ctl, faults>>

\* preservePriorAttempt: the file of the last attempt is set aside.  Of the
\* files set aside only the largest is ever published.
PreservePriorAttempt(v) ==
    /\ prior' = [prior EXCEPT ![v] = Largest(v)]
    /\ fresh' = [fresh EXCEPT ![v] = 0]
    /\ UNCHANGED media

Prepare(c) ==
    /\ cpc[c] = "prepare"
    /\ MarkContentTypeLive(capVideo[c])
    /\ PreservePriorAttempt(capVideo[c])
    /\ Goto(c, "mark")
    /\ UNCHANGED <<copyState, sessVars, captureFrame, capVars, bull, cseen, csess, ctl,
                   script, faults>>

\* markSessionCapturing: DETECTED becomes CAPTURING; a session that is gone is
\* created anew, unless the index says another one is active.
MarkSessionCapturing(c) ==
    LET s == csess[c]
        v == capVideo[c]
    IN  /\ cpc[c] = "mark"
        /\ IF sessState[s] \in ActiveSession
           THEN /\ sessState' = [sessState EXCEPT ![s] = "CAPTURING"]
                /\ Goto(c, "run")
                /\ UNCHANGED <<sessVideo, csess>>
           ELSE IF ActiveSessions(v) # {}
           THEN Goto(c, "reuse") /\ UNCHANGED <<sessVars, csess>>
           ELSE \E t \in Sessions :
                   /\ CreateSession(t, v, "CAPTURING")
                   /\ csess' = [csess EXCEPT ![c] = t]
                   /\ Goto(c, "run")
        /\ UNCHANGED <<content, copyState, diskVars, captureFrame, capVars, bull, cseen,
                       ctl, script, faults>>

\* The active session that refused the insert is looked for; when it is gone
\* process() throws, and the row stays RUNNING until the next boot.
Reuse(c) ==
    /\ cpc[c] = "reuse"
    /\ IF ActiveSessions(capVideo[c]) = {}
       THEN Leave(c)
       ELSE /\ \E s \in ActiveSessions(capVideo[c]) : csess' = [csess EXCEPT ![c] = s]
            /\ Goto(c, "adopt")
            /\ UNCHANGED <<bull, ctl, cseen>>
    /\ UNCHANGED <<quietFrame, captureFrame, capVars, script, faults>>

\* It is marked CAPTURING whatever it is by now, unless the index refuses.
Adopt(c) ==
    /\ cpc[c] = "adopt"
    /\ sessState' = IF ActiveSessions(capVideo[c]) \subseteq {csess[c]}
                    THEN [sessState EXCEPT ![csess[c]] = "CAPTURING"] ELSE sessState
    /\ Goto(c, "run")
    /\ UNCHANGED <<content, copyState, sessVideo, diskVars, captureFrame, capVars, bull,
                   cseen, csess, ctl, script, faults>>

-----------------------------------------------------------------------------
\* The recording

runFrame == <<content, copyState, sessVars, captureFrame, capVars, bull, cseen, csess, ctl>>

\* yt-dlp cannot be started: settled as if nothing had been recorded.
SpawnFails(c) ==
    /\ cpc[c] = "run" /\ fresh[capVideo[c]] = 0
    /\ Fault("spawn")
    /\ Goto(c, "settle")
    /\ Owe(Run(c), FinalizeEmpty(csess[c], capVideo[c], "FAILED") \o <<Row(c, "FAILED")>>)
    /\ UNCHANGED <<runFrame, diskVars>>

\* yt-dlp records from the start of the broadcast; the tick drops what was set
\* aside once the fresh file has caught up with it.
Record(c) ==
    LET v == capVideo[c] IN
    /\ cpc[c] = "run"
    /\ fresh[v] < aired[v]
    /\ fresh' = [fresh EXCEPT ![v] = @ + 1]
    /\ UNCHANGED <<runFrame, media, prior, cpc, script, faults>>

\* Mutant: what was set aside is dropped at the first fresh byte.
SupersededEarly(v) == fresh[v] > 0
\* reclaimSupersededPriors: the fresh file is at least as large.
Superseded(v) == fresh[v] > 0 /\ prior[v] <= fresh[v]

Reclaim(c) ==
    LET v == capVideo[c] IN
    /\ cpc[c] = "run"
    /\ prior[v] > 0
    /\ Superseded(v)
    /\ prior' = [prior EXCEPT ![v] = 0]
    /\ UNCHANGED <<runFrame, media, fresh, cpc, script, faults>>

\* yt-dlp exits: the broadcast is over, or it was killed by an abort.
Exit(c) ==
    /\ cpc[c] = "run"
    /\ air[capVideo[c]] = "ended" \/ ctl[c] # "clear"
    /\ Goto(c, "exited")
    /\ UNCHANGED <<runFrame, diskVars, script, faults>>

\* The watchdog kills a yt-dlp that lives and does not grow, or it gives up by
\* itself while the broadcast is on air.
Hang(c) ==
    /\ cpc[c] = "run"
    /\ Fault("hang")
    /\ \E end \in {"hung", "exited"} : Goto(c, end)
    /\ UNCHANGED <<runFrame, diskVars, script>>

\* captureVerdict: an owner command beats the watchdog.
CaptureVerdict(c) ==
    IF ctl[c] \in {"cancel", "shutdown"} THEN "abort"
    ELSE IF cpc[c] = "hung" THEN "stalled" ELSE "exit"

\* The shutdown keeps staging and session and hands the row back.
AbortForShutdown(c) ==
    /\ CaptureVerdict(c) = "abort" /\ ctl[c] = "shutdown"
    /\ Owe(Run(c), <<Row(c, "QUEUED")>>)
    /\ Goto(c, "settle")
    /\ UNCHANGED diskVars

\* A cancel keeps what was recorded.
AbortForCancel(c) ==
    LET v == capVideo[c] IN
    /\ CaptureVerdict(c) = "abort" /\ ctl[c] = "cancel"
    /\ Publish(v)
    /\ Owe(Run(c), (IF Largest(v) > 0 THEN FinalizeInterrupted(csess[c], v)
                    ELSE FinalizeEmpty(csess[c], v, "CANDIDATE")) \o <<Row(c, "CANCELED")>>)
    /\ Goto(c, "settle")

\* The watchdog's verdict: staging is kept, the video goes back.
Stalled(c) ==
    /\ CaptureVerdict(c) = "stalled"
    /\ Owe(Run(c), <<Row(c, "FAILED")>> \o SettleForRecapture(csess[c], capVideo[c]))
    /\ Goto(c, "settle")
    /\ UNCHANGED diskVars

\* The natural end: publish what there is, then measure it.
FinalizeExit(c) ==
    LET v == capVideo[c] IN
    /\ CaptureVerdict(c) = "exit"
    /\ Publish(v)
    /\ IF Largest(v) > 0
       THEN Goto(c, "measure") /\ UNCHANGED script
       ELSE /\ Goto(c, "settle")
            /\ Owe(Run(c), FinalizeEmpty(csess[c], v, "FAILED") \o <<Row(c, "FAILED")>>)

\* The child is gone: exactly one of the verdicts applies.
Verdict(c) ==
    /\ cpc[c] \in {"exited", "hung"}
    /\ AbortForShutdown(c) \/ AbortForCancel(c) \/ Stalled(c) \/ FinalizeExit(c)
    /\ UNCHANGED <<runFrame, faults>>

\* The measured completeness picks the finalizer.
Finalization(verdict, s, v) ==
    IF verdict = "NORMAL" THEN FinalizeNormal(s, v)
    ELSE IF verdict = "PENDING" THEN FinalizePending(s, v)
    ELSE FinalizeInterrupted(s, v)

Measure(c) ==
    /\ cpc[c] = "measure"
    /\ \E verdict \in LiveEndKinds :
          /\ Measured(capVideo[c], verdict)
          /\ Owe(Run(c), Finalization(verdict, csess[c], capVideo[c])
                         \o <<Row(c, "COMPLETED")>>)
    /\ Goto(c, "settle")
    /\ UNCHANGED <<runFrame, diskVars>>

\* A statement of the natural end throws: the row fails as the last resort.
FinalizeThrows(c) ==
    /\ Owes(Run(c), {"hop", "chain", "verify"})
    /\ \E i \in 1..Len(script[Run(c)]) : script[Run(c)][i] = Row(c, "COMPLETED")
    /\ Fault("db")
    /\ Owe(Run(c), <<Row(c, "FAILED")>>)
    /\ UNCHANGED <<runFrame, cpc, diskVars>>

\* Every write is made.
Finish(c) ==
    /\ cpc[c] = "settle"
    /\ script[Run(c)] = <<>>
    /\ Leave(c)
    /\ UNCHANGED <<quietFrame, captureFrame, capVars, script, faults>>

-----------------------------------------------------------------------------
\* A stalled execution fails from outside, at once: maxStalledCount is 0.

listenFrame == <<content, copyState, parked, sessVars, archiveVars, probeRow, diskVars,
                 probeBull, airVars, bootVars, runVars, probeVars, scan, sweepTodo,
                 checkVars>>
Listen(c, step) == lpc' = [lpc EXCEPT ![c] = step]

\* The execution belongs to a worker that died, or its lock expired while it
\* goes on.
Stall(c) ==
    /\ phase = "up"
    /\ bull[c] = "active"
    /\ lpc[c] = "idle"
    /\ IF cpc[c] = "idle" THEN UNCHANGED faults ELSE Fault("lock")
    /\ bull' = [bull EXCEPT ![c] = "absent"]
    /\ Listen(c, "row")
    /\ UNCHANGED <<listenFrame, capVars, script>>

\* The listener reads the row: a terminal one is left alone.
ListenRow(c) ==
    /\ lpc[c] = "row"
    /\ Listen(c, IF capStatus[c] \in ActiveRow THEN "mark" ELSE "idle")
    /\ UNCHANGED <<listenFrame, capVars, bull, script, faults>>

ListenMark(c) ==
    /\ lpc[c] = "mark"
    /\ capStatus' = [capStatus EXCEPT ![c] = IF @ \in ActiveRow THEN "FAILED" ELSE @]
    /\ Listen(c, "read")
    /\ UNCHANGED <<listenFrame, capVideo, capSession, bull, script, faults>>

\* Video and active session are read; the writes follow from what was read.
ListenRead(c) ==
    LET v == capVideo[c]
        back == IF copyState[v] = "DOWNLOADING" THEN <<Hop(v, "DOWNLOADING", "QUEUED")>>
                ELSE <<>>
    IN  /\ lpc[c] = "read"
        /\ IF ActiveSessions(v) = {}
           THEN Owe(Listener(c), back)
           ELSE \E s \in ActiveSessions(v) :
                   Owe(Listener(c), <<Settle(s, "active", "ENDED_INTERRUPTED")>> \o back)
        /\ Listen(c, "settle")
        /\ UNCHANGED <<listenFrame, capVars, bull, faults>>

ListenDone(c) ==
    /\ lpc[c] = "settle"
    /\ script[Listener(c)] = <<>>
    /\ Listen(c, "idle")
    /\ UNCHANGED <<listenFrame, capVars, bull, script, faults>>
=============================================================================

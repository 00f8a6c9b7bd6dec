---------------------------- MODULE LiveFinalizer ----------------------------
(***************************************************************************)
(* services/live-finalizer.ts: how a session and its video leave the       *)
(* capture flow.  Each finalizer is a list of awaited writes, owed by the  *)
(* actor that called it and made one at a time: other actors, a crash or a *)
(* failed statement may come between any two of them.                      *)
(***************************************************************************)
EXTENDS LiveState

\* Mutant: a complete recording is taken for a healthy one.
FinalizeNormalUnverified(s, v) ==
    <<Hop(v, "DOWNLOADING", "HEALTHY"), Settle(s, "active", "ENDED_NORMAL")>>
\* The recording is complete: verify it.
FinalizeNormal(s, v) ==
    <<ChainedHop(v, "DOWNLOADING", "VERIFYING"), Settle(s, "active", "ENDED_NORMAL")>>
\* The recording is cut short: keep the partial.
FinalizeInterrupted(s, v) ==
    <<Hop(v, "DOWNLOADING", "PARTIAL_KEPT"), Settle(s, "active", "ENDED_INTERRUPTED")>>
\* Not measurable yet: park the video for the re-check.
FinalizePending(s, v) ==
    <<Hop(v, "DOWNLOADING", "AWAITING_VERIFY"), Settle(s, "active", "ENDED_PENDING")>>
\* Nothing was recorded.
FinalizeEmpty(s, v, to) ==
    <<Hop(v, "DOWNLOADING", to), Settle(s, "active", "FAILED")>>
\* The re-check found the parked recording complete.
ResolveVerified(s, v) ==
    <<Gate(v, "AWAITING_VERIFY", "VERIFYING"), Verify(v),
      Settle(s, "pending", "ENDED_NORMAL")>>
\* The re-check found it short, or gave up at the deadline.
ResolvePartial(s, v) ==
    <<Gate(v, "AWAITING_VERIFY", "PARTIAL_KEPT"), Settle(s, "pending", "ENDED_INTERRUPTED")>>
\* Mutant: the video goes back while its session stays open.
SettleForRecaptureOpen(s, v) == <<Hop(v, "DOWNLOADING", "QUEUED")>>
\* A stall: the session ends, the video goes back for the next probe.
SettleForRecapture(s, v) ==
    <<Settle(s, "active", "ENDED_INTERRUPTED"), Hop(v, "DOWNLOADING", "QUEUED")>>

-----------------------------------------------------------------------------
\* The writes

Owes(a, ops) == script[a] # <<>> /\ Head(script[a]).op \in ops
Rest(a) == Tail(script[a])
Continue(a, todo) == script' = [script EXCEPT ![a] = todo]

\* transitionCopy of the video, with the cursors of the re-check.
WriteHop(a) ==
    LET o == Head(script[a])
        won == copyState[o.on] = o.from
    IN  /\ Owes(a, {"hop", "chain", "gate"})
        /\ TransitionCopy(o.on, o.from, o.to)
        /\ parked' = IF won /\ o.to = "AWAITING_VERIFY"
                     THEN [parked EXCEPT ![o.on] = "waiting"]
                     ELSE IF won THEN [parked EXCEPT ![o.on] = "no"] ELSE parked
        /\ Continue(a, IF o.op = "chain" /\ won THEN <<Verify(o.on)>> \o Rest(a)
                       ELSE IF o.op = "gate" /\ ~won THEN <<>> ELSE Rest(a))
        /\ UNCHANGED <<sessVars, capVars, verifyRow, diskVars>>

\* Mutant: the last verdict wins.
WriteSessionLast(a) ==
    LET o == Head(script[a])
    IN  /\ Owes(a, {"session"})
        /\ sessState' = IF o.on \in Sessions
                        THEN [sessState EXCEPT ![o.on] = o.to] ELSE sessState
        /\ Continue(a, Rest(a))
        /\ UNCHANGED <<copyState, parked, sessVideo, capVars, verifyRow, diskVars>>
\* settleSession: only a session still in the states it expects.
WriteSession(a) ==
    LET o == Head(script[a])
        from == IF o.from = "active" THEN ActiveSession ELSE {"ENDED_PENDING"}
    IN  /\ Owes(a, {"session"})
        /\ sessState' = IF o.on \in Sessions /\ sessState[o.on] \in from
                        THEN [sessState EXCEPT ![o.on] = o.to] ELSE sessState
        /\ Continue(a, Rest(a))
        /\ UNCHANGED <<copyState, parked, sessVideo, capVars, verifyRow, diskVars>>

\* chainVerify: the row and the execution of a VERIFY.
WriteVerify(a) ==
    /\ Owes(a, {"verify"})
    /\ verifyRow' = [verifyRow EXCEPT ![Head(script[a]).on] = TRUE]
    /\ Continue(a, Rest(a))
    /\ UNCHANGED <<copyState, parked, sessVars, capVars, diskVars>>

\* markFinished, or markRequeuedForRetry: the first verdict wins.
WriteRow(a) ==
    LET o == Head(script[a])
        from == IF o.to = "QUEUED" THEN {"RUNNING"} ELSE ActiveRow
    IN  /\ Owes(a, {"row"})
        /\ capStatus' = IF capStatus[o.on] \in from
                        THEN [capStatus EXCEPT ![o.on] = o.to] ELSE capStatus
        /\ Continue(a, Rest(a))
        /\ UNCHANGED <<copyState, parked, sessVars, capVideo, capSession, verifyRow, diskVars>>

\* The close-out publishes after its hop; the bytes may have vanished.
WritePublication(a) ==
    LET v == Head(script[a]).on
    IN  /\ Owes(a, {"publish"})
        /\ Publish(v)
        /\ Continue(a, IF Largest(v) > 0 THEN Rest(a)
                       ELSE <<Hop(v, "DOWNLOADING", "FAILED")>>)
        /\ UNCHANGED <<copyState, parked, sessVars, capVars, verifyRow>>

\* An actor makes the next of its writes.
Write(a) ==
    /\ WriteHop(a) \/ WriteSession(a) \/ WriteVerify(a) \/ WriteRow(a) \/ WritePublication(a)
    /\ UNCHANGED <<content, probeRow, dlRow, bull, probeBull, airVars, bootVars, runVars,
                   lpc, probeVars, scan, sweepTodo, checkVars, epc, faults>>

\* settleSession and the job recorder swallow a failed statement.
WriteSwallowed(a) ==
    /\ Owes(a, {"session", "row"})
    /\ Fault("db")
    /\ Continue(a, Rest(a))
    /\ UNCHANGED <<content, copyState, parked, sessVars, capVars, archiveVars, probeRow,
                   diskVars, bull, probeBull, airVars, bootVars, runVars, lpc,
                   probeVars, scan, sweepTodo, checkVars>>

-----------------------------------------------------------------------------
\* sweepStagedPartials: called by a probe that found nothing on air, and at boot.

\* Mutant: a recording that was handed back is nobody's to publish.
StrandedVideosInFlight(scope) ==
    {v \in scope : /\ copyState[v] = "DOWNLOADING"
                   /\ ActiveCaptures(v) = {}
                   /\ dlRow[v] = "none"}
\* The candidates, read once: QUEUED videos that no active row owns.
StrandedVideos(scope) ==
    {v \in scope : /\ copyState[v] = "QUEUED"
                   /\ ActiveCaptures(v) = {}
                   /\ dlRow[v] = "none"}

\* One candidate: nothing staged is skipped, the rest is hopped, published and
\* parked, each write guarded by the one before.
CloseOut(v) ==
    <<Gate(v, "QUEUED", "DOWNLOADING"), Publication(v), Hop(v, "DOWNLOADING", "PARTIAL_KEPT")>>

SweepCandidate(a) ==
    /\ script[a] = <<>>
    /\ \E v \in sweepTodo[a] :
          /\ sweepTodo' = [sweepTodo EXCEPT ![a] = @ \ {v}]
          /\ IF Largest(v) > 0
             THEN Continue(a, CloseOut(v)) /\ MarkContentTypeLive(v)
             ELSE UNCHANGED <<script, content>>
=============================================================================

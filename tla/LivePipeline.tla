---------------------------- MODULE LivePipeline -----------------------------
(***************************************************************************)
(* The live role: detection, capture, finalizer and boot reconciler,       *)
(* composed with the broadcast, the archive side and the faults of the     *)
(* environment.                                                            *)
(***************************************************************************)
EXTENDS LiveCapture, LiveDetection, LiveArchive

Boot == <<"boot", 0>>
bootFrame == <<parked, archiveVars, probeVars, airVars, runVars, lpc, scan, checkVars, faults>>

-----------------------------------------------------------------------------
\* The broadcast

airFrame == <<content, copyState, parked, sessVars, capVars, probeRow, archiveVars, diskVars,
              bull, probeBull, bootVars, runVars, lpc, probeVars, scan, script, sweepTodo,
              checkVars, faults>>

AirStart(v) ==
    /\ air[v] = "upcoming"
    /\ air' = [air EXCEPT ![v] = "live"]
    /\ aired' = [aired EXCEPT ![v] = 1]
    /\ UNCHANGED airFrame

AirMore(v) ==
    /\ air[v] = "live"
    /\ aired[v] < MaxLength
    /\ aired' = [aired EXCEPT ![v] = @ + 1]
    /\ UNCHANGED <<airFrame, air>>

AirEnd(v) ==
    /\ air[v] = "live"
    /\ aired[v] >= MinLength
    /\ air' = [air EXCEPT ![v] = "ended"]
    /\ UNCHANGED <<airFrame, aired>>

-----------------------------------------------------------------------------
\* The worker stops

stopFrame == <<content, copyState, parked, sessVars, capVars, probeRow, archiveVars, diskVars,
               airVars, checkVars>>

\* SIGTERM: running captures are aborted in shutdown mode, unless a cancel came
\* first; nothing new is picked up.
Drain ==
    /\ phase = "up"
    /\ Fault("drain")
    /\ phase' = "draining"
    /\ ctl' = [c \in Captures |-> IF ctl[c] = "clear" THEN "shutdown" ELSE ctl[c]]
    /\ UNCHANGED <<stopFrame, bull, probeBull, rowTodo, sessTodo, cpc, cseen, csess, lpc,
                   probeVars, scan, script, sweepTodo>>

\* What the process holds in memory is gone.
LoseMemory ==
    /\ phase' = "down"
    /\ rowTodo' = {} /\ sessTodo' = {}
    /\ cpc' = [c \in Captures |-> "idle"]
    /\ cseen' = [c \in Captures |-> "CANDIDATE"]
    /\ csess' = [c \in Captures |-> NoSession]
    /\ ctl' = [c \in Captures |-> "absent"]
    /\ lpc' = [c \in Captures |-> "idle"]
    /\ ppc' = [v \in Videos |-> "idle"]
    /\ pseen' = [v \in Videos |-> "CANDIDATE"]
    /\ psess' = [v \in Videos |-> NoSession]
    /\ scan' = [v \in Videos |-> "idle"]
    /\ script' = [a \in Actors |-> IF a[1] = "check" THEN script[a] ELSE <<>>]
    /\ sweepTodo' = [a \in Actors |-> {}]

\* Every execution is settled; the listener is not waited for.
Drained ==
    /\ phase = "draining"
    /\ \A c \in Captures : cpc[c] = "idle"
    /\ \A v \in Videos : ppc[v] = "idle" /\ scan[v] = "idle"
    /\ LoseMemory
    /\ UNCHANGED <<stopFrame, bull, probeBull, faults>>

\* The process dies with its yt-dlp; what BullMQ holds stays "active".
Crash ==
    /\ phase # "down"
    /\ Fault("crash")
    /\ LoseMemory
    /\ UNCHANGED <<stopFrame, bull, probeBull>>

-----------------------------------------------------------------------------
\* jobs/live-reconciler.ts, before any consumer starts

\* Mutant: only captures are looked at.
BootRowsOfCaptures ==
    /\ phase = "down"
    /\ phase' = "rows"
    /\ rowTodo' = {c \in Captures : capStatus[c] \in ActiveRow /\ bull[c] = "absent"}
    /\ UNCHANGED <<bootFrame, content, copyState, sessVars, capVars, probeRow, diskVars, bull,
                   probeBull, sessTodo, script, sweepTodo>>
\* The row sweep lists active rows whose execution BullMQ no longer has.
BootRows ==
    /\ phase = "down"
    /\ phase' = "rows"
    /\ rowTodo' = {c \in Captures : capStatus[c] \in ActiveRow /\ bull[c] = "absent"}
                  \cup {v \in Videos : probeRow[v] /\ probeBull[v] = "absent"}
    /\ UNCHANGED <<bootFrame, content, copyState, sessVars, capVars, probeRow, diskVars, bull,
                   probeBull, sessTodo, script, sweepTodo>>

\* A dead capture is handed back and added again, a dead probe row fails.
BootRow ==
    /\ phase = "rows"
    /\ \E r \in rowTodo :
          /\ rowTodo' = rowTodo \ {r}
          /\ IF r \in Captures
             THEN /\ capStatus' = [capStatus EXCEPT ![r] = "QUEUED"]
                  /\ bull' = [bull EXCEPT ![r] = "waiting"]
                  /\ UNCHANGED probeRow
             ELSE /\ probeRow' = [probeRow EXCEPT ![r] = FALSE]
                  /\ UNCHANGED <<capStatus, bull>>
    /\ UNCHANGED <<bootFrame, content, copyState, sessVars, capVideo, capSession, diskVars,
                   probeBull, phase, sessTodo, script, sweepTodo>>

\* Mutant: a session whose capture was never created is forgotten.
OrphansCapturing == {s \in Sessions : /\ sessState[s] = "CAPTURING"
                                      /\ ActiveCaptures(sessVideo[s]) = {}}
\* Active sessions whose video no active capture row owns.
Orphans == {s \in Sessions : /\ sessState[s] \in ActiveSession
                             /\ ActiveCaptures(sessVideo[s]) = {}}

BootSessions ==
    /\ phase = "rows" /\ rowTodo = {}
    /\ phase' = "sessions"
    /\ sessTodo' = {<<s, copyState[sessVideo[s]]>> : s \in Orphans}
    /\ UNCHANGED <<bootFrame, content, copyState, sessVars, capVars, probeRow, diskVars, bull,
                   probeBull, rowTodo, script, sweepTodo>>

\* An orphan of a DOWNLOADING video is published when its capture had begun,
\* which gives the session its directory, and left bytes in it; any other is
\* settled as empty, and a video that is still DOWNLOADING fails with it.
BootSession ==
    /\ phase = "sessions"
    /\ script[Boot] = <<>>
    /\ \E o \in sessTodo :
          LET v == sessVideo[o[1]] IN
          /\ sessTodo' = sessTodo \ {o}
          /\ IF o[2] = "DOWNLOADING" /\ sessState[o[1]] = "CAPTURING" /\ Largest(v) > 0
             THEN Publish(v) /\ Owe(Boot, FinalizeInterrupted(o[1], v))
             ELSE UNCHANGED diskVars /\ Owe(Boot, FinalizeEmpty(o[1], v, "FAILED"))
    /\ UNCHANGED <<bootFrame, content, copyState, sessVars, capVars, probeRow, bull, probeBull,
                   phase, rowTodo, sweepTodo>>

BootSweep ==
    /\ phase = "sessions" /\ sessTodo = {} /\ script[Boot] = <<>>
    /\ phase' = "sweep"
    /\ sweepTodo' = [sweepTodo EXCEPT ![Boot] = StrandedVideos(Videos)]
    /\ UNCHANGED <<bootFrame, content, copyState, sessVars, capVars, probeRow, diskVars, bull,
                   probeBull, rowTodo, sessTodo, script>>

\* The close-out; then the consumers start.
BootClose ==
    /\ phase = "sweep"
    /\ \/ SweepCandidate(Boot) /\ UNCHANGED phase
       \/ /\ sweepTodo[Boot] = {} /\ script[Boot] = <<>>
          /\ phase' = "up"
          /\ UNCHANGED <<sweepTodo, script, content>>
    /\ UNCHANGED <<bootFrame, copyState, sessVars, capVars, probeRow, diskVars, bull, probeBull,
                   rowTodo, sessTodo>>

-----------------------------------------------------------------------------
\* Purging the channel tells its RUNNING captures to cancel; an entry the worker
\* does not hold drops the command.
CancelCapture(c) ==
    /\ capStatus[c] = "RUNNING"
    /\ Fault("cancel")
    /\ ctl' = [ctl EXCEPT ![c] = IF @ = "clear" THEN "cancel" ELSE @]
    /\ UNCHANGED <<content, copyState, parked, sessVars, capVars, probeRow, archiveVars,
                   diskVars, bull, probeBull, airVars, bootVars, cpc, cseen, csess, lpc,
                   probeVars, scan, script, sweepTodo, checkVars>>

CaptureStep(c) ==
    \/ PickUp(c) \/ Load(c) \/ Begin(c) \/ Reread(c) \/ Prepare(c)
    \/ MarkSessionCapturing(c) \/ Reuse(c) \/ Adopt(c)
    \/ Exit(c) \/ Verdict(c) \/ Measure(c) \/ Write(Run(c)) \/ Finish(c)
ListenStep(c) ==
    \/ ListenRow(c) \/ ListenMark(c) \/ ListenRead(c) \/ Write(Listener(c)) \/ ListenDone(c)
ProbeStep(v) ==
    \/ ProbePickUp(v) \/ ProbeStall(v) \/ Look(v) \/ List(v) \/ Sweep(v)
    \/ ReadVideo(v) \/ Guard(v) \/ CreateLiveCandidate(v) \/ Promote(v) \/ FindSession(v)
    \/ OpenSession(v) \/ FindCapture(v) \/ CreateCapture(v) \/ AddCapture(v)
    \/ Write(Probe(v))
BootStep == BootRows \/ BootRow \/ BootSessions \/ BootSession \/ BootSweep \/ BootClose
            \/ Write(Boot)
CheckStep(v) == Recheck(v) \/ Remeasure(v) \/ Write(Check(v)) \/ CheckDone(v)
ArchiveStep(v) == EnqueueCommit(v) \/ DownloadBegin(v) \/ DownloadEnd(v) \/ VerifyEnd(v)

Next ==
    \/ \E c \in Captures : \/ CaptureStep(c) \/ Record(c) \/ Reclaim(c) \/ SpawnFails(c)
                           \/ Hang(c) \/ FinalizeThrows(c) \/ Stall(c) \/ ListenStep(c)
                           \/ CancelCapture(c)
    \/ \E v \in Videos : \/ ScanRow(v) \/ ScanAdd(v) \/ ProbeStep(v) \/ ProbeThrows(v)
                         \/ CheckStep(v) \/ Deadline(v)
                         \/ Enumerate(v) \/ EnqueueRead(v) \/ ArchiveStep(v)
                         \/ AirStart(v) \/ AirMore(v) \/ AirEnd(v)
    \/ \E a \in Actors : WriteSwallowed(a)
    \/ BootStep
    \/ Drain \/ Drained \/ Crash

Spec == Init /\ [][Next]_vars

\* A scan, a stall check and its listener, a restart: each a process of its own.
ScanStep(v) == ScanRow(v) \/ ScanAdd(v)
StallStep(c) == ListenStep(c) \/ (cpc[c] = "idle" /\ Stall(c))
RestartStep == Drained \/ BootStep

\* Progress of the worker, of its restart and of YouTube; not of owners, of
\* yt-dlp while a broadcast is on air, nor of any fault.
Fairness ==
    /\ \A c \in Captures : WF_vars(CaptureStep(c)) /\ WF_vars(StallStep(c))
    /\ \A v \in Videos : /\ WF_vars(ScanStep(v)) /\ WF_vars(ProbeStep(v))
                         /\ WF_vars(CheckStep(v)) /\ WF_vars(Deadline(v))
                         /\ WF_vars(ArchiveStep(v)) /\ WF_vars(AirMore(v) \/ AirEnd(v))
    /\ WF_vars(RestartStep)

FairSpec == Spec /\ Fairness

-----------------------------------------------------------------------------
\* Safety

\* Whatever stalls, drains, crashes, cancels and continuations do, recorded
\* seconds leave staging only by being published or by being recorded again:
\* a shorter continuation never replaces the longer partial it set aside.
RecordingKept ==
    [][\A v \in Videos : Largest(v)' >= Largest(v) \/ media[v]' >= Largest(v)]_vars

Recorders(v) ==
    {c \in Captures : /\ capVideo[c] = v
                      /\ cpc[c] \in {"prepare", "mark", "reuse", "adopt", "run", "exited",
                                     "hung"}}
\* While no live lock is lost, one execution records a broadcast at a time,
\* although nothing but the probe's look-up keeps a second row from being made.
NoDoubleRecord ==
    faults["lock"] = 0 => \A v \in Videos : Cardinality(Recorders(v)) <= 1

\* The first verdict on a session is its last; only a parked one is judged
\* again, by the re-check.  A recording adopts the active session it finds, and
\* marks it whatever it is by then: so an execution that fails its row before it
\* settles the session it records, as the watchdog and the stall listener do,
\* lets the next recording revive that session.
SessionVerdictFinal ==
    [][faults["lock"] + faults["crash"] + faults["hang"] = 0 =>
          \A s \in Sessions :
              /\ sessState[s] \in SettledSession => sessState'[s] = sessState[s]
              /\ sessState[s] = "ENDED_PENDING" =>
                    sessState'[s] \in SettledSession \cup {"ENDED_PENDING"}]_vars

Judged(s) ==
    \/ \E a \in Actors : \E i \in 1..Len(script[a]) :
          script[a][i].op = "session" /\ script[a][i].on = s
    \/ \E c \in Captures : lpc[c] \in {"mark", "read"} /\ capVideo[c] = sessVideo[s]
\* No capture row was created for the session.
Rowless(s) == \A c \in Captures : capSession[c] # s
\* A session that is recording keeps every other recording of the broadcast
\* out.  Without a crash, a lost lock or a failed statement it always has an
\* active row, or somebody about to settle it.  Once a worker was drained that
\* is true of the sessions rows were created for: a capture handed back forgets
\* the session it had adopted, and does not settle it when it is not resumed.
SessionOwned ==
    faults["crash"] + faults["db"] + faults["lock"] = 0 =>
        \A s \in Sessions :
            sessState[s] = "CAPTURING" /\ (faults["drain"] = 0 \/ ~Rowless(s)) =>
                ActiveCaptures(sessVideo[s]) # {} \/ Judged(s)

\* Whatever a crash, a race or a refused write left behind, a boot whose
\* statements succeed starts the consumers with every active session owned.
BootFreesSessions ==
    [][phase = "sessions" /\ phase' = "sweep" /\ faults["db"] = 0 =>
          \A v \in Videos : ActiveSessions(v) # {} => ActiveCaptures(v) # {}]_vars

\* A live recording that goes to verification is of a broadcast that is over,
\* and short of it by no more than the tolerance, unless the probe named a
\* length and no status while the broadcast was on air.
VerifiedIsComplete ==
    faults["enqueue"] + faults["lock"] + faults["unlabelled"] = 0 =>
        \A v \in Videos : copyState[v] = "VERIFYING" =>
            air[v] = "ended" /\ WithinTolerance(media[v], aired[v])

\* A kept partial is the last word: its post-live video is never fetched.
VodNeverRefetched ==
    [][\A v \in Videos : copyState[v] = "PARTIAL_KEPT" => copyState'[v] = "PARTIAL_KEPT"]_vars

\* The live pipeline moves videos along the edges of the copy lifecycle only.
FollowsLifecycle == Lifecycle!Spec

HasPendingSession(v) ==
    \E s \in Sessions : sessVideo[s] = v /\ sessState[s] = "ENDED_PENDING"
\* A parked recording always has its ENDED_PENDING session, by which the
\* re-check finds it.
ParkedHasSession ==
    \A v \in Videos : copyState[v] = "AWAITING_VERIFY" =>
        HasPendingSession(v) \/ ActiveSessions(v) # {}

\* A broadcast is never recorded and downloaded at the same time.
OneWriter ==
    \A v \in Videos : dlRow[v] # "none" => ActiveCaptures(v) = {}

-----------------------------------------------------------------------------
\* Liveness.  []<>~P says of a state P what P ~> ~P does, that it always ends,
\* and is checked without a tableau.

\* A parked recording the re-check can find does not stay so: it is resolved at
\* the deadline at the latest, whatever ffprobe and the source keep answering.
Recheckable(v) == copyState[v] = "AWAITING_VERIFY" /\ HasPendingSession(v)
ParkedResolved == \A v \in Videos : []<>~Recheckable(v)

\* Staged seconds are published in the end, by whoever is left to do it: the
\* continuation, the next probe that finds nothing on air, or the boot.
StagedPublished == \A v \in Videos : []<>(Largest(v) = 0)

IdsLeft == (\E c \in Captures : NewCapture(c)) /\ (\E s \in Sessions : NewSession(s))
\* A watched channel is probed again and again, as long as no statement of a
\* probe fails and the instance has ids left for what it finds.
ChannelReprobed ==
    \A v \in Videos : []<>(ppc[v] = "look" \/ faults["db"] > 0 \/ ~IdsLeft)
=============================================================================

---------------------------- MODULE SessionProofs ----------------------------
(***************************************************************************)
(* Proofs about who records what in LivePipeline: while no live lock is    *)
(* lost one execution at a time records a broadcast, a boot leaves no      *)
(* active session without a capture, and a recording that goes to          *)
(* verification is the whole broadcast.                                    *)
(*                                                                         *)
(* The invariant RecorderInv follows a LIVE_CAPTURE row through its life:  *)
(* a broadcast has one active row, an execution past its claim keeps its   *)
(* row RUNNING until it settles, and while the worker boots nobody works.  *)
(* OrphansListed adds what a boot has read of the sessions it settles, and *)
(* WholeInv what is known of a recording between its measurement and its   *)
(* verify: nobody else records, publishes or hands it back.                *)
(***************************************************************************)
EXTENDS LiveProofs, FiniteSetTheorems

-----------------------------------------------------------------------------
\* The invariant

\* Nobody else works while the worker is down or boots: its memory is empty.
BootAlone ==
    phase \notin {"up", "draining"} =>
        /\ \A c \in Captures : cpc[c] = "idle" /\ lpc[c] = "idle"
                               /\ script[Run(c)] = <<>> /\ script[Listener(c)] = <<>>
        /\ \A v \in Videos : ppc[v] = "idle" /\ script[Probe(v)] = <<>>
        /\ phase \in {"down", "rows"} => script[Boot] = <<>>

\* Rows are created in order, and a row that does not exist has no broadcast.
RowsInOrder ==
    \A c \in Captures :
        /\ capStatus[c] = "ABSENT" => capVideo[c] = NoVideo
        /\ capStatus[c] # "ABSENT" => \A d \in Captures : d < c => capStatus[d] # "ABSENT"

\* The rows the boot is about to hand back are active, and stay so.
ListedActive ==
    \A c \in Captures : c \in rowTodo => phase = "rows" /\ capStatus[c] \in ActiveRow

\* Only an execution that is settling owes writes, and of rows only its own.
OwnOps(a) == {o \in Ops : o.op = "row" => a = Run(o.on)}
OwesOwn == \A a \in Actors : script[a] \in Seq(OwnOps(a))
SettleOwes == \A c \in Captures : script[Run(c)] # <<>> => cpc[c] = "settle"

\* An execution that waits is not at work.
WaitingIdle == \A c \in Captures : bull[c] = "waiting" => cpc[c] = "idle"

\* A broadcast has one active row.
OneActiveCapture ==
    \A c, d \in Captures :
        capStatus[c] \in ActiveRow /\ capStatus[d] \in ActiveRow /\ capVideo[c] = capVideo[d]
            => c = d

\* Nobody creates a row between the probe's look-up and its insert, or touches
\* the row it inserted before it is added.
ProbeSees ==
    \A v \in Videos :
        /\ ppc[v] = "row" => ActiveCaptures(v) = {}
        /\ ppc[v] = "add" =>
             \A c \in Captures :
                 capVideo[c] = v /\ (\A d \in Captures : capVideo[d] = v => d <= c) =>
                     capStatus[c] = "QUEUED" /\ bull[c] = "absent"
                     /\ cpc[c] = "idle" /\ lpc[c] = "idle"

\* An execution past its claim has a RUNNING row until it settles, and a
\* listener only listens to executions that are gone.
ClaimSteps == {"begin", "reread", "prepare", "mark", "reuse", "adopt", "run", "exited",
               "hung", "measure"}
ClaimsKept ==
    faults["lock"] = 0 =>
        \A c \in Captures :
            /\ cpc[c] \in ClaimSteps => capStatus[c] = "RUNNING"
            /\ lpc[c] # "idle" => cpc[c] = "idle" /\ bull[c] = "absent"

RecorderInv ==
    /\ BootAlone /\ RowsInOrder /\ ListedActive /\ OwesOwn /\ SettleOwes
    /\ WaitingIdle /\ OneActiveCapture /\ ProbeSees /\ ClaimsKept

\* While the boot works through the orphans, each of them is listed or owed its
\* settlement.
SettlementOwed(s) ==
    \E i \in 1..Len(script[Boot]) :
        /\ script[Boot][i].op = "session" /\ script[Boot][i].on = s
        /\ script[Boot][i].from = "active"
BootOps == {o \in Ops : o.op \in {"hop", "session"}}
OrphansListed ==
    phase = "sessions" =>
        /\ script[Boot] \in Seq(BootOps)
        /\ faults["db"] = 0 =>
             \A s \in Sessions :
                 sessState[s] \in ActiveSession /\ ActiveCaptures(sessVideo[s]) = {} =>
                     (\E o \in sessTodo : o[1] = s) \/ SettlementOwed(s)

-----------------------------------------------------------------------------
\* The value spaces and the groups of variables are expanded throughout.
USE DEF NoSession, NoCapture, FaultKinds, Contents, ActiveSession, SettledSession,
        SessionStates, ActiveRow, CaptureStatuses, CtlStates, Phases, CaptureSteps,
        ListenSteps, ProbeSteps, CheckSteps, CopyStates, Lifecycle!CopyStates,
        sessVars, capVars, diskVars, airVars, runVars, probeVars, bootVars, archiveVars,
        checkVars, captureFrame, quietFrame, runFrame, listenFrame, probeFrame, rowsFrame,
        detectFrame, checkFrame, archiveFrame, videoFrame, bootFrame, airFrame, stopFrame

-----------------------------------------------------------------------------
\* Whose rows an actor writes

\* The finalizers write no row ...
LEMMA FinalizersOwn ==
  ASSUME NEW a, NEW v \in Videos, NEW s \in Sessions \cup {NoSession}
  PROVE  /\ FinalizeNormal(s, v) \in Seq(OwnOps(a))
         /\ FinalizeInterrupted(s, v) \in Seq(OwnOps(a))
         /\ FinalizePending(s, v) \in Seq(OwnOps(a))
         /\ \A to \in {"FAILED", "CANDIDATE"} : FinalizeEmpty(s, v, to) \in Seq(OwnOps(a))
         /\ ResolveVerified(s, v) \in Seq(OwnOps(a))
         /\ ResolvePartial(s, v) \in Seq(OwnOps(a))
         /\ SettleForRecapture(s, v) \in Seq(OwnOps(a))
         /\ CloseOut(v) \in Seq(OwnOps(a))
<1> USE Listed
<1>1. \A from, to : <<from, to>> \in Lifecycle!CopyEdges =>
         /\ Hop(v, from, to) \in OwnOps(a)
         /\ ChainedHop(v, from, to) \in OwnOps(a)
         /\ Gate(v, from, to) \in OwnOps(a)
  BY HopIsOp DEF OwnOps, Hop, ChainedHop, Gate
<1>2. /\ ChainedHop(v, "DOWNLOADING", "VERIFYING") \in OwnOps(a)
      /\ Hop(v, "DOWNLOADING", "PARTIAL_KEPT") \in OwnOps(a)
      /\ Hop(v, "DOWNLOADING", "AWAITING_VERIFY") \in OwnOps(a)
      /\ Hop(v, "DOWNLOADING", "FAILED") \in OwnOps(a)
      /\ Hop(v, "DOWNLOADING", "CANDIDATE") \in OwnOps(a)
      /\ Hop(v, "DOWNLOADING", "QUEUED") \in OwnOps(a)
      /\ Gate(v, "AWAITING_VERIFY", "VERIFYING") \in OwnOps(a)
      /\ Gate(v, "AWAITING_VERIFY", "PARTIAL_KEPT") \in OwnOps(a)
      /\ Gate(v, "QUEUED", "DOWNLOADING") \in OwnOps(a)
  BY <1>1 DEF Lifecycle!CopyEdges
<1>3. \A from \in {"active", "pending"},
         to \in {"ENDED_NORMAL", "ENDED_INTERRUPTED", "ENDED_PENDING", "FAILED"} :
            Settle(s, from, to) \in OwnOps(a)
  BY SettleIsOp DEF OwnOps, Settle
<1>4. Verify(v) \in OwnOps(a) /\ Publication(v) \in OwnOps(a)
  BY VideoIsOp DEF OwnOps, Verify, Publication
<1> HIDE DEF OwnOps
<1>5. FinalizeNormal(s, v) \in Seq(OwnOps(a))
  BY <1>2, <1>3 DEF FinalizeNormal
<1>6. FinalizeInterrupted(s, v) \in Seq(OwnOps(a))
  BY <1>2, <1>3 DEF FinalizeInterrupted
<1>7. FinalizePending(s, v) \in Seq(OwnOps(a))
  BY <1>2, <1>3 DEF FinalizePending
<1>8. ASSUME NEW to \in {"FAILED", "CANDIDATE"}
      PROVE  FinalizeEmpty(s, v, to) \in Seq(OwnOps(a))
  BY <1>2, <1>3 DEF FinalizeEmpty
<1>9. ResolveVerified(s, v) \in Seq(OwnOps(a))
  BY <1>2, <1>3, <1>4 DEF ResolveVerified
<1>10. ResolvePartial(s, v) \in Seq(OwnOps(a))
  BY <1>2, <1>3 DEF ResolvePartial
<1>11. SettleForRecapture(s, v) \in Seq(OwnOps(a))
  BY <1>2, <1>3 DEF SettleForRecapture
<1>12. CloseOut(v) \in Seq(OwnOps(a))
  BY <1>2, <1>4 DEF CloseOut
<1> QED BY <1>5, <1>6, <1>7, <1>8, <1>9, <1>10, <1>11, <1>12

\* ... and an execution adds its own to them.
LEMMA OwnRowAdded ==
  ASSUME NEW c \in Captures, NEW to \in {"QUEUED", "COMPLETED", "FAILED", "CANCELED"},
         NEW p \in Seq(OwnOps(Run(c)))
  PROVE  /\ <<Row(c, to)>> \in Seq(OwnOps(Run(c)))
         /\ <<Row(c, to)>> \o p \in Seq(OwnOps(Run(c)))
         /\ p \o <<Row(c, to)>> \in Seq(OwnOps(Run(c)))
<1>1. Row(c, to) \in OwnOps(Run(c))
  BY RowIsOp DEF OwnOps, Row
<1>2. <<Row(c, to)>> \in Seq(OwnOps(Run(c)))
  BY <1>1, Listed
<1> QED BY <1>2, ListsJoined

\* What the verdict and the measurement of an execution owe is its own.
LEMMA VerdictOwn ==
  ASSUME LiveInv, NEW c \in Captures, cpc[c] # "idle",
         NEW to \in {"QUEUED", "COMPLETED", "FAILED", "CANCELED"}
  PROVE  LET v == capVideo[c]
             s == csess[c]
             Own == Seq(OwnOps(Run(c)))
         IN  /\ <<Row(c, to)>> \in Own
             /\ <<Row(c, to)>> \o SettleForRecapture(s, v) \in Own
             /\ <<Row(c, to)>> \o FinalizeEmpty(s, v, "FAILED") \in Own
             /\ FinalizeInterrupted(s, v) \o <<Row(c, to)>> \in Own
             /\ FinalizeEmpty(s, v, "FAILED") \o <<Row(c, to)>> \in Own
             /\ FinalizeEmpty(s, v, "CANDIDATE") \o <<Row(c, to)>> \in Own
             /\ \A verdict : Finalization(verdict, s, v) \o <<Row(c, to)>> \in Own
<1>1. capVideo[c] \in Videos /\ csess[c] \in Sessions \cup {NoSession}
  BY DEF LiveInv, Types, CaptureTypes, RowsLinked, IsLive
<1>2. \A p \in Seq(OwnOps(Run(c))) :
         p \o <<Row(c, to)>> \in Seq(OwnOps(Run(c)))
         /\ <<Row(c, to)>> \o p \in Seq(OwnOps(Run(c)))
         /\ <<Row(c, to)>> \in Seq(OwnOps(Run(c)))
  BY OwnRowAdded
<1>3. \A verdict : Finalization(verdict, csess[c], capVideo[c]) \in Seq(OwnOps(Run(c)))
  BY <1>1, FinalizersOwn DEF Finalization
<1> QED BY <1>1, <1>2, <1>3, FinalizersOwn

\* An actor that owes an own list of writes, and no others, keeps them own.
LEMMA OwesOwnList ==
  ASSUME ScriptsSafe, OwesOwn, NEW a \in Actors, NEW ops \in Seq(OwnOps(a)),
         script' = [script EXCEPT ![a] = ops]
  PROVE  OwesOwn'
<1>1. \A b \in Actors : script'[b] \in Seq(OwnOps(b))
  BY DEF ScriptsSafe, OwesOwn
<1> QED BY <1>1 DEF OwesOwn, OwnOps

-----------------------------------------------------------------------------
\* The steps of an execution

\* What leaves rows and workers alone keeps the invariant.
LEMMA QuietStays ==
  ASSUME RecorderInv, UNCHANGED <<capVars, bull, phase, rowTodo, cpc, lpc, ppc, script>>,
         faults'["lock"] = 0 => faults["lock"] = 0
  PROVE  RecorderInv'
<1>1. BootAlone' /\ RowsInOrder' /\ ListedActive' /\ OwesOwn' /\ SettleOwes'
  BY DEF RecorderInv, BootAlone, RowsInOrder, ListedActive, OwesOwn, OwnOps, SettleOwes
<1>2. WaitingIdle' /\ OneActiveCapture' /\ ProbeSees' /\ ClaimsKept'
  BY DEF RecorderInv, WaitingIdle, OneActiveCapture, ProbeSees, ActiveCaptures, ClaimsKept
<1> QED BY <1>1, <1>2 DEF RecorderInv

\* An execution at work moves on, and may owe writes once it settles.
LEMMA ExecutionMoves ==
  ASSUME LiveInv, RecorderInv, NEW c \in Captures, cpc[c] # "idle",
         NEW step, step # "idle", step \in ClaimSteps => cpc[c] \in ClaimSteps,
         cpc' = [cpc EXCEPT ![c] = step],
         UNCHANGED <<capVars, bull, phase, rowTodo, lpc, ppc>>,
         faults'["lock"] = 0 => faults["lock"] = 0,
         \/ UNCHANGED script /\ (cpc[c] = "settle" => step = "settle")
         \/ step = "settle" /\ \E ops \in Seq(OwnOps(Run(c))) : Owe(Run(c), ops)
  PROVE  RecorderInv'
<1>1. cpc \in [Captures -> CaptureSteps] /\ ScriptsSafe
  BY DEF LiveInv, Types, CaptureTypes
<1>2. OwesOwn'
  <2>1. CASE UNCHANGED script
    BY <2>1 DEF RecorderInv, OwesOwn, OwnOps
  <2>2. CASE \E ops \in Seq(OwnOps(Run(c))) : Owe(Run(c), ops)
    BY <1>1, <2>2, OwesOwnList, ActorsAre DEF RecorderInv, Owe
  <2> QED BY <2>1, <2>2
<1>3. SettleOwes'
  BY <1>1, ActorsAre DEF RecorderInv, SettleOwes, ScriptsSafe, Owe, Run
<1>4. BootAlone'
  BY <1>1 DEF RecorderInv, BootAlone
<1>5. RowsInOrder' /\ ListedActive' /\ WaitingIdle' /\ OneActiveCapture'
  BY <1>1 DEF RecorderInv, RowsInOrder, ListedActive, WaitingIdle, OneActiveCapture
<1>6. ProbeSees'
  BY <1>1 DEF RecorderInv, ProbeSees, ActiveCaptures
<1>7. ClaimsKept'
  BY <1>1 DEF RecorderInv, ClaimsKept
<1> QED BY <1>2, <1>3, <1>4, <1>5, <1>6, <1>7 DEF RecorderInv

\* The beginning of a recording, its course and its end are such moves.
LEMMA ExecutionStays ==
  ASSUME LiveInv, RecorderInv, NEW c \in Captures,
         \/ Begin(c) \/ Reread(c) \/ Prepare(c) \/ MarkSessionCapturing(c) \/ Adopt(c)
         \/ SpawnFails(c) \/ Exit(c) \/ Hang(c) \/ Verdict(c) \/ Measure(c)
  PROVE  RecorderInv'
<1> USE DEF Goto
<1>1. /\ cpc[c] # "idle" /\ cpc[c] # "settle" /\ cpc[c] \in ClaimSteps
      /\ UNCHANGED <<capVars, bull, phase, rowTodo, lpc, ppc>>
  BY DEF Begin, Reread, Prepare, MarkSessionCapturing, Adopt, SpawnFails, Exit, Hang, Verdict,
         Measure, ClaimSteps
<1>2. faults'["lock"] = 0 => faults["lock"] = 0
  <2>1. CASE Measure(c)
    BY <2>1, MeasureCounted DEF LiveInv, Types, Measure, FaultKinds
  <2> QED BY <2>1 DEF LiveInv, Types, BootTypes, Fault, Begin, Reread, Prepare, MarkSessionCapturing,
         Adopt, SpawnFails, Exit, Hang, Verdict
<1>3. \E step \in CaptureSteps \ {"idle"} :
         /\ cpc' = [cpc EXCEPT ![c] = step]
         /\ \/ UNCHANGED script
            \/ step = "settle" /\ \E ops \in Seq(OwnOps(Run(c))) : Owe(Run(c), ops)
  <2>1. CASE Begin(c) \/ Reread(c) \/ Prepare(c) \/ MarkSessionCapturing(c) \/ Adopt(c)
    BY <1>1, <2>1, VerdictOwn
       DEF Begin, Reread, Prepare, MarkSessionCapturing, Adopt, FailNotCapturable
  <2>2. CASE SpawnFails(c) \/ Exit(c) \/ Hang(c) \/ Measure(c)
    BY <1>1, <2>2, VerdictOwn DEF SpawnFails, Exit, Hang, Measure
  <2>3. CASE Verdict(c)
    BY <1>1, <2>3, VerdictOwn
       DEF Verdict, AbortForShutdown, AbortForCancel, Stalled, FinalizeExit
  <2> QED BY <2>1, <2>2, <2>3
<1>4. QED
  BY <1>1, <1>2, <1>3, ExecutionMoves

\* The last resort of an execution that settles is its own row.
LEMMA FinalizeThrowsStays ==
  ASSUME LiveInv, RecorderInv, NEW c \in Captures, FinalizeThrows(c)
  PROVE  RecorderInv'
<1>1. cpc[c] = "settle"
  BY DEF RecorderInv, SettleOwes, FinalizeThrows, Owes
<1>2. cpc' = [cpc EXCEPT ![c] = "settle"]
  BY <1>1 DEF FinalizeThrows, LiveInv, Types, CaptureTypes
<1>3. faults'["lock"] = 0 => faults["lock"] = 0
  BY DEF LiveInv, Types, BootTypes, Fault, FinalizeThrows
<1>4. Owe(Run(c), <<Row(c, "FAILED")>>) /\ <<Row(c, "FAILED")>> \in Seq(OwnOps(Run(c)))
  BY <1>1, VerdictOwn DEF FinalizeThrows
<1>5. UNCHANGED <<capVars, bull, phase, rowTodo, lpc, ppc>>
  BY DEF FinalizeThrows
<1> QED BY <1>1, <1>2, <1>3, <1>4, <1>5, ExecutionMoves DEF ClaimSteps

\* An execution is taken by the worker that is up.
LEMMA PickUpStays ==
  ASSUME LiveInv, RecorderInv, NEW c \in Captures, PickUp(c)
  PROVE  RecorderInv'
<1>1. /\ phase = "up" /\ bull[c] = "waiting" /\ cpc' = [cpc EXCEPT ![c] = "load"]
      /\ bull' = [bull EXCEPT ![c] = "active"]
      /\ UNCHANGED <<capVars, phase, rowTodo, lpc, ppc, script, faults>>
  BY DEF PickUp, Goto
<1>2. cpc \in [Captures -> CaptureSteps] /\ bull \in [Captures -> {"absent", "waiting", "active"}]
  BY DEF LiveInv, Types, CaptureTypes
<1>3. BootAlone' /\ RowsInOrder' /\ ListedActive' /\ OwesOwn' /\ WaitingIdle' /\ OneActiveCapture'
  BY SMTT(30), <1>1, <1>2 DEF RecorderInv, BootAlone, RowsInOrder, ListedActive, OwesOwn, OwnOps,
              WaitingIdle, OneActiveCapture
<1>4. SettleOwes'
  <2>1. script[Run(c)] = <<>>
    BY <1>1 DEF RecorderInv, WaitingIdle, SettleOwes
  <2> QED BY <1>1, <1>2, <2>1 DEF RecorderInv, SettleOwes
<1>5. ProbeSees'
  BY <1>1, <1>2 DEF RecorderInv, ProbeSees, ActiveCaptures
<1>6. ClaimsKept'
  BY <1>1, <1>2 DEF RecorderInv, ClaimsKept, ClaimSteps
<1> QED BY <1>3, <1>4, <1>5, <1>6 DEF RecorderInv

\* An execution that is over leaves nothing behind.
LEMMA LeaveStays ==
  ASSUME LiveInv, RecorderInv, NEW c \in Captures, cpc[c] # "idle", Leave(c),
         script[Run(c)] = <<>>,
         UNCHANGED <<capVars, phase, rowTodo, lpc, ppc, script, faults>>
  PROVE  RecorderInv'
<1>1. /\ cpc' = [cpc EXCEPT ![c] = "idle"] /\ bull' = [bull EXCEPT ![c] = "absent"]
  BY DEF Leave, Goto
<1>2. cpc \in [Captures -> CaptureSteps] /\ bull \in [Captures -> {"absent", "waiting", "active"}]
  BY DEF LiveInv, Types, CaptureTypes
<1>3. BootAlone' /\ RowsInOrder' /\ ListedActive' /\ OwesOwn' /\ WaitingIdle' /\ OneActiveCapture'
  BY <1>1, <1>2 DEF RecorderInv, BootAlone, RowsInOrder, ListedActive, OwesOwn, OwnOps,
              WaitingIdle, OneActiveCapture
<1>4. SettleOwes'
  BY <1>1, <1>2 DEF RecorderInv, SettleOwes
<1>5. ProbeSees'
  BY <1>1, <1>2 DEF RecorderInv, ProbeSees, ActiveCaptures
<1>6. ClaimsKept'
  BY <1>1, <1>2 DEF RecorderInv, ClaimsKept, ClaimSteps
<1> QED BY <1>3, <1>4, <1>5, <1>6 DEF RecorderInv

\* A claim takes the row, or the execution is over; so it is when no session is
\* found to adopt, and when every write is made.
LEMMA ClaimStays ==
  ASSUME LiveInv, RecorderInv, NEW c \in Captures, Load(c) \/ Reuse(c) \/ Finish(c)
  PROVE  RecorderInv'
<1>1. cpc[c] # "idle" /\ script[Run(c)] = <<>>
  BY DEF RecorderInv, SettleOwes, Load, Reuse, Finish
<1>2. CASE Leave(c) /\ UNCHANGED capVars
  BY <1>1, <1>2, LeaveStays DEF Load, Reuse, Finish
<1>3. CASE Reuse(c) /\ Goto(c, "adopt")
  <2>1. /\ cpc[c] = "reuse" /\ cpc' = [cpc EXCEPT ![c] = "adopt"]
        /\ UNCHANGED <<capVars, bull, phase, rowTodo, lpc, ppc, faults, script>>
    BY ZenonT(60), <1>3 DEF LiveInv, Types, CaptureTypes, Reuse, Goto, Leave
  <2> QED BY <2>1, ExecutionMoves DEF ClaimSteps
<1>4. CASE /\ Load(c) /\ capStatus[c] = "QUEUED"
  <2>1. /\ cpc[c] = "load" /\ cpc' = [cpc EXCEPT ![c] = "begin"]
        /\ capStatus' = [capStatus EXCEPT ![c] = "RUNNING"]
        /\ UNCHANGED <<capVideo, bull, phase, rowTodo, lpc, ppc, script, faults>>
    BY <1>4 DEF Load, Goto
  <2>2. cpc \in [Captures -> CaptureSteps] /\ capStatus \in [Captures -> CaptureStatuses]
    BY DEF LiveInv, Types, CaptureTypes, RowTypes
  <2>3. BootAlone' /\ RowsInOrder' /\ ListedActive' /\ OwesOwn' /\ WaitingIdle' /\ OneActiveCapture'
    BY <1>4, <2>1, <2>2 DEF RecorderInv, BootAlone, RowsInOrder, ListedActive, OwesOwn, OwnOps,
                WaitingIdle, OneActiveCapture
  <2>4. SettleOwes'
    BY <1>1, <2>1, <2>2 DEF RecorderInv, SettleOwes
  <2>5. ProbeSees'
    <3>1. \A v \in Videos : ActiveCaptures(v)' = ActiveCaptures(v)
      BY <1>4, <2>1, <2>2 DEF ActiveCaptures
    <3> QED BY <2>1, <2>2, <3>1 DEF RecorderInv, ProbeSees
  <2>6. ClaimsKept'
    BY <2>1, <2>2 DEF RecorderInv, ClaimsKept, ClaimSteps
  <2> QED BY <2>3, <2>4, <2>5, <2>6 DEF RecorderInv
<1> QED BY <1>2, <1>3, <1>4 DEF Load, Reuse, Finish

-----------------------------------------------------------------------------
\* Stalls and their listener

LEMMA StallStays ==
  ASSUME LiveInv, RecorderInv, NEW c \in Captures, Stall(c)
  PROVE  RecorderInv'
<1>1. /\ phase = "up" /\ bull[c] = "active" /\ lpc[c] = "idle"
      /\ bull' = [bull EXCEPT ![c] = "absent"] /\ lpc' = [lpc EXCEPT ![c] = "row"]
      /\ UNCHANGED <<capVars, phase, rowTodo, cpc, ppc, script>>
  BY DEF Stall, Listen
<1>2. /\ lpc \in [Captures -> ListenSteps] /\ bull \in [Captures -> {"absent", "waiting", "active"}]
      /\ faults \in [FaultKinds \cup {"any"} -> Nat]
  BY DEF LiveInv, Types, CaptureTypes, BootTypes
<1>3. faults'["lock"] = 0 => faults["lock"] = 0 /\ cpc[c] = "idle"
  BY <1>2 DEF Stall, Fault
<1>4. BootAlone' /\ RowsInOrder' /\ ListedActive' /\ OwesOwn' /\ SettleOwes' /\ WaitingIdle'
      /\ OneActiveCapture'
  BY SMTT(30), <1>1, <1>2 DEF RecorderInv, BootAlone, RowsInOrder, ListedActive, OwesOwn, OwnOps,
                    SettleOwes, WaitingIdle, OneActiveCapture
<1>5. ProbeSees'
  BY <1>1, <1>2 DEF RecorderInv, ProbeSees, ActiveCaptures
<1>6. ClaimsKept'
  BY <1>1, <1>2, <1>3 DEF RecorderInv, ClaimsKept
<1> QED BY <1>4, <1>5, <1>6 DEF RecorderInv

LEMMA ListenStays ==
  ASSUME LiveInv, RecorderInv, NEW c \in Captures,
         ListenRow(c) \/ ListenMark(c) \/ ListenRead(c) \/ ListenDone(c)
  PROVE  RecorderInv'
<1> USE DEF Listen
<1>1. /\ lpc[c] # "idle"
      /\ \E step \in ListenSteps : lpc' = [lpc EXCEPT ![c] = step]
      /\ UNCHANGED <<capVideo, bull, phase, rowTodo, cpc, ppc, faults>>
  BY DEF ListenRow, ListenMark, ListenRead, ListenDone
<1>2. /\ lpc \in [Captures -> ListenSteps] /\ cpc \in [Captures -> CaptureSteps]
      /\ capStatus \in [Captures -> CaptureStatuses] /\ ScriptsSafe
  BY DEF LiveInv, Types, CaptureTypes, RowTypes
<1>3. \/ UNCHANGED capStatus
      \/ capStatus[c] \in ActiveRow /\ capStatus' = [capStatus EXCEPT ![c] = "FAILED"]
  BY <1>2 DEF ListenRow, ListenMark, ListenRead, ListenDone
<1>4. UNCHANGED script \/ \E ops \in Seq(OwnOps(Listener(c))) : Owe(Listener(c), ops)
  <2>1. CASE ListenRead(c)
    <3>1. capVideo[c] \in Videos
      BY <1>1 DEF LiveInv, RowsLinked, IsLive
    <3>2. Hop(capVideo[c], "DOWNLOADING", "QUEUED") \in OwnOps(Listener(c))
      BY <3>1, HopIsOp DEF OwnOps, Hop, Lifecycle!CopyEdges
    <3>3. \A s \in Sessions : Settle(s, "active", "ENDED_INTERRUPTED") \in OwnOps(Listener(c))
      BY SettleIsOp DEF OwnOps, Settle
    <3> DEFINE back == IF copyState[capVideo[c]] = "DOWNLOADING"
                       THEN <<Hop(capVideo[c], "DOWNLOADING", "QUEUED")>> ELSE <<>>
    <3>4. back \in Seq(OwnOps(Listener(c)))
      BY <3>2, Listed
    <3>5. \A s \in Sessions :
             <<Settle(s, "active", "ENDED_INTERRUPTED")>> \in Seq(OwnOps(Listener(c)))
      BY <3>3, Listed
    <3>6. \A s \in Sessions :
             <<Settle(s, "active", "ENDED_INTERRUPTED")>> \o back \in Seq(OwnOps(Listener(c)))
      BY <3>4, <3>5, ListsJoined
    <3>7. \/ Owe(Listener(c), back)
          \/ \E s \in Sessions :
                Owe(Listener(c), <<Settle(s, "active", "ENDED_INTERRUPTED")>> \o back)
      BY <2>1 DEF ListenRead, ActiveSessions
    <3> QED BY <3>4, <3>6, <3>7
  <2>2. CASE ListenRow(c) \/ ListenMark(c) \/ ListenDone(c)
    BY <2>2 DEF ListenRow, ListenMark, ListenDone
  <2> QED BY <2>1, <2>2
<1>5. phase \in {"up", "draining"}
  BY <1>1 DEF RecorderInv, BootAlone
<1>6. OwesOwn'
  <2>1. CASE UNCHANGED script
    BY <2>1 DEF RecorderInv, OwesOwn, OwnOps
  <2>2. CASE \E ops \in Seq(OwnOps(Listener(c))) : Owe(Listener(c), ops)
    BY <1>2, <2>2, OwesOwnList, ActorsAre DEF RecorderInv, Owe
  <2> QED BY <1>4, <2>1, <2>2
<1>7. SettleOwes'
  <2>1. \A d \in Captures : script'[Run(d)] = script[Run(d)]
    BY <1>2, <1>4, ActorsAre DEF ScriptsSafe, Owe, Run, Listener
  <2> QED BY <1>1, <2>1 DEF RecorderInv, SettleOwes
<1>8. BootAlone' /\ ListedActive'
  BY <1>1, <1>5 DEF RecorderInv, BootAlone, ListedActive
<1>9. RowsInOrder' /\ WaitingIdle' /\ OneActiveCapture'
  BY <1>1, <1>2, <1>3 DEF RecorderInv, RowsInOrder, WaitingIdle, OneActiveCapture
<1>10. ProbeSees'
  <2>1. \A v \in Videos : ActiveCaptures(v)' \subseteq ActiveCaptures(v)
    BY <1>1, <1>2, <1>3 DEF ActiveCaptures
  <2> QED BY <1>1, <1>2, <1>3, <2>1 DEF RecorderInv, ProbeSees
<1>11. ClaimsKept'
  BY <1>1, <1>2, <1>3 DEF RecorderInv, ClaimsKept, ClaimSteps
<1> QED BY <1>6, <1>7, <1>8, <1>9, <1>10, <1>11 DEF RecorderInv

-----------------------------------------------------------------------------
\* Probes

\* A probe at work moves on, may owe a close-out, and comes to insert a row
\* only when the broadcast has none that is active.
LEMMA ProbeAtWork ==
  ASSUME LiveInv, RecorderInv, NEW v \in Videos, phase = "up" \/ ppc[v] # "idle",
         NEW step, ppc' = [ppc EXCEPT ![v] = step], step # "add",
         step = "row" => ActiveCaptures(v) = {},
         UNCHANGED <<capVars, bull, phase, rowTodo, cpc, lpc>>,
         faults'["lock"] = 0 => faults["lock"] = 0,
         UNCHANGED script \/ \E ops \in Seq(OwnOps(Probe(v))) : Owe(Probe(v), ops)
  PROVE  RecorderInv'
<1>1. ppc \in [Videos -> ProbeSteps] /\ ScriptsSafe
  BY DEF LiveInv, Types, ProbeTypes
<1>2. phase \in {"up", "draining"}
  BY DEF RecorderInv, BootAlone
<1>3. OwesOwn'
  <2>1. CASE UNCHANGED script
    BY <2>1 DEF RecorderInv, OwesOwn, OwnOps
  <2>2. CASE \E ops \in Seq(OwnOps(Probe(v))) : Owe(Probe(v), ops)
    BY <1>1, <2>2, OwesOwnList, ActorsAre DEF RecorderInv, Owe
  <2> QED BY <2>1, <2>2
<1>4. SettleOwes'
  <2>1. \A d \in Captures : script'[Run(d)] = script[Run(d)]
    BY <1>1, ActorsAre DEF ScriptsSafe, Owe, Run, Probe
  <2> QED BY <2>1 DEF RecorderInv, SettleOwes
<1>5. BootAlone' /\ RowsInOrder' /\ ListedActive' /\ WaitingIdle' /\ OneActiveCapture'
  BY <1>2 DEF RecorderInv, BootAlone, RowsInOrder, ListedActive, WaitingIdle, OneActiveCapture
<1>6. ProbeSees'
  <2>1. \A w \in Videos : ActiveCaptures(w)' = ActiveCaptures(w)
    BY DEF ActiveCaptures
  <2>2. \A w \in Videos : ppc'[w] = IF w = v THEN step ELSE ppc[w]
    BY <1>1
  <2> QED BY <2>1, <2>2 DEF RecorderInv, ProbeSees
<1>7. ClaimsKept'
  BY DEF RecorderInv, ClaimsKept
<1> QED BY <1>3, <1>4, <1>5, <1>6, <1>7 DEF RecorderInv

\* Most steps of a probe are such moves.
LEMMA ProbeStays ==
  ASSUME LiveInv, RecorderInv, NEW v \in Videos,
         \/ ProbePickUp(v) \/ ProbeStall(v) \/ Look(v) \/ ProbeThrows(v) \/ List(v)
         \/ ReadVideo(v) \/ Guard(v) \/ CreateLiveCandidate(v) \/ Promote(v)
         \/ FindSession(v) \/ OpenSession(v) \/ FindCapture(v)
  PROVE  RecorderInv'
<1> USE DEF ProbeDone, ProbeGone, ProbeGoes, Step
<1>1. /\ phase = "up" \/ ppc[v] # "idle"
      /\ UNCHANGED <<capVars, bull, phase, rowTodo, cpc, lpc>>
  BY DEF ProbePickUp, ProbeStall, Look, ProbeThrows, List, ReadVideo, Guard,
         CreateLiveCandidate, Promote, FindSession, OpenSession, FindCapture
<1>2. faults'["lock"] = 0 => faults["lock"] = 0
  BY DEF LiveInv, Types, BootTypes, Fault, ProbePickUp, ProbeStall, Look, ProbeThrows, List,
         ReadVideo, Guard, CreateLiveCandidate, Promote, FindSession, OpenSession, FindCapture
<1>3. UNCHANGED script \/ Owe(Probe(v), <<>>)
  BY DEF ProbePickUp, ProbeStall, Look, ProbeThrows, List, ReadVideo, Guard, Owe,
         CreateLiveCandidate, Promote, FindSession, OpenSession, FindCapture
<1>4. <<>> \in Seq(OwnOps(Probe(v)))
  OBVIOUS
<1>5. \E step \in ProbeSteps \ {"add"} :
         /\ ppc' = [ppc EXCEPT ![v] = step]
         /\ step = "row" => ActiveCaptures(v) = {}
  <2>1. CASE ProbeStall(v)
    <3>1. ppc' = [ppc EXCEPT ![v] = "idle"]
      BY <2>1 DEF ProbeStall, LiveInv, Types, ProbeTypes
    <3>2. "idle" \in ProbeSteps \ {"add"} /\ "idle" # "row"
      OBVIOUS
    <3> QED BY ONLY <3>1, <3>2, Zenon
  <2>2. CASE FindCapture(v)
    BY <2>2 DEF FindCapture, OwnedByCapture
  <2>3. CASE ProbePickUp(v) \/ Look(v) \/ ProbeThrows(v) \/ List(v)
    BY <2>3 DEF ProbePickUp, Look, ProbeThrows, List
  <2>4. CASE \/ ReadVideo(v) \/ Guard(v) \/ CreateLiveCandidate(v) \/ Promote(v)
             \/ FindSession(v) \/ OpenSession(v)
    BY <2>4 DEF ReadVideo, Guard, CreateLiveCandidate, Promote, FindSession, OpenSession
  <2> QED BY <2>1, <2>2, <2>3, <2>4
<1> QED BY <1>1, <1>2, <1>3, <1>4, <1>5, ProbeAtWork

\* The close-out of a probe owes no row.
LEMMA SweepOwn ==
  ASSUME LiveInv, NEW a \in Actors, SweepCandidate(a)
  PROVE  UNCHANGED script \/ \E ops \in Seq(OwnOps(a)) : Owe(a, ops)
<1>1. sweepTodo[a] \subseteq Videos
  BY DEF LiveInv, Types, ProbeTypes
<1>2. PICK v \in sweepTodo[a] : Continue(a, CloseOut(v)) \/ UNCHANGED script
  BY DEF SweepCandidate
<1>3. CloseOut(v) \in Seq(OwnOps(a))
  <2>1. NoSession \in Sessions \cup {NoSession}
    OBVIOUS
  <2> QED BY <1>1, <2>1, FinalizersOwn
<1> QED BY <1>2, <1>3 DEF Continue, Owe

LEMMA SweepStays ==
  ASSUME LiveInv, RecorderInv, NEW v \in Videos, Sweep(v)
  PROVE  RecorderInv'
<1>1. /\ ppc[v] = "sweep"
      /\ UNCHANGED <<capVars, bull, phase, rowTodo, cpc, lpc, faults>>
  BY DEF Sweep
<1>2. ppc' = [ppc EXCEPT ![v] = "sweep"] \/ ppc' = [ppc EXCEPT ![v] = "idle"]
  BY <1>1 DEF Sweep, ProbeDone, ProbeGone, Step, LiveInv, Types, ProbeTypes
<1>3. UNCHANGED script \/ \E ops \in Seq(OwnOps(Probe(v))) : Owe(Probe(v), ops)
  BY SweepOwn, ActorsAre DEF Sweep
<1> QED BY <1>1, <1>2, <1>3, ProbeAtWork

\* The row of a new capture is the newest, and nobody else's.
LEMMA CreateCaptureStays ==
  ASSUME LiveInv, RecorderInv, NEW v \in Videos, CreateCapture(v)
  PROVE  RecorderInv'
<1>1. PICK c \in Captures :
         /\ NewCapture(c)
         /\ capStatus' = [capStatus EXCEPT ![c] = "QUEUED"]
         /\ capVideo' = [capVideo EXCEPT ![c] = v]
  BY DEF CreateCapture
<1>2. /\ ppc[v] = "row" /\ ppc' = [ppc EXCEPT ![v] = "add"]
      /\ UNCHANGED <<bull, phase, rowTodo, cpc, lpc, script, faults>>
  BY DEF CreateCapture, ProbeGoes, Step
<1>3. /\ ppc \in [Videos -> ProbeSteps] /\ capStatus \in [Captures -> CaptureStatuses]
      /\ capVideo \in [Captures -> Videos \cup {NoVideo}]
  BY DEF LiveInv, Types, ProbeTypes, RowTypes
<1>4. capStatus[c] = "ABSENT" /\ capVideo[c] = NoVideo /\ NoVideo \notin Videos
  BY <1>1, IdsAssumption DEF NewCapture, RecorderInv, RowsInOrder
<1>5. bull[c] = "absent" /\ cpc[c] = "idle" /\ lpc[c] = "idle"
  BY <1>4 DEF LiveInv, RowsLinked, IsLive
<1>6. ActiveCaptures(v) = {}
  BY <1>2 DEF RecorderInv, ProbeSees
<1>7. \A d \in Captures : capVideo[d] = v => d < c
  <2> SUFFICES ASSUME NEW d \in Captures, capVideo[d] = v, ~(d < c) PROVE FALSE
    OBVIOUS
  <2>1. capStatus[d] # "ABSENT" /\ d # c
    BY <1>4 DEF RecorderInv, RowsInOrder
  <2>2. c < d
    BY <2>1, IdsAssumption
  <2> QED BY <1>4, <2>1, <2>2 DEF RecorderInv, RowsInOrder
<1>8. BootAlone' /\ ListedActive' /\ OwesOwn' /\ SettleOwes' /\ WaitingIdle'
  BY <1>1, <1>2, <1>3
     DEF RecorderInv, BootAlone, ListedActive, OwesOwn, OwnOps, SettleOwes, WaitingIdle
<1>9. RowsInOrder'
  BY <1>1, <1>3, <1>4 DEF RecorderInv, RowsInOrder, NewCapture
<1>10. OneActiveCapture'
  BY <1>1, <1>3, <1>6 DEF RecorderInv, OneActiveCapture, ActiveCaptures
<1>11. ProbeSees'
  <2> SUFFICES ASSUME NEW w \in Videos
               PROVE  /\ ppc'[w] = "row" => ActiveCaptures(w)' = {}
                      /\ ppc'[w] = "add" =>
                           \A x \in Captures :
                             capVideo'[x] = w /\ (\A d \in Captures : capVideo'[d] = w => d <= x) =>
                                 /\ capStatus'[x] = "QUEUED" /\ bull'[x] = "absent"
                                 /\ cpc'[x] = "idle" /\ lpc'[x] = "idle"
    BY DEF ProbeSees
  <2>1. CASE w = v
    <3>1. ppc'[w] = "add"
      BY <1>2, <1>3, <2>1
    <3>2. ASSUME NEW x \in Captures, capVideo'[x] = w,
                 \A d \in Captures : capVideo'[d] = w => d <= x
          PROVE  x = c
      <4>1. c <= x
        BY <1>1, <1>3, <2>1, <3>2
      <4>2. x = c \/ x < c
        BY <1>1, <1>3, <1>7, <2>1, <3>2
      <4> QED BY <4>1, <4>2, IdsAssumption
    <3> QED BY <1>1, <1>2, <1>3, <1>5, <3>1, <3>2
  <2>2. CASE w # v
    <3>1. ppc'[w] = ppc[w] /\ ActiveCaptures(w)' = ActiveCaptures(w)
      BY <1>1, <1>2, <1>3, <1>4, <2>2 DEF ActiveCaptures
    <3>2. \A d \in Captures : (capVideo'[d] = w) = (capVideo[d] = w /\ d # c)
      BY <1>1, <1>3, <1>4, <2>2
    <3>3. \A d \in Captures : capVideo[d] = w => d # c
      BY <1>4
    <3> QED BY <1>1, <1>2, <1>3, <3>1, <3>2, <3>3 DEF RecorderInv, ProbeSees
  <2> QED BY <2>1, <2>2
<1>12. ClaimsKept'
  BY <1>1, <1>2, <1>3, <1>5 DEF RecorderInv, ClaimsKept, ClaimSteps
<1> QED BY <1>8, <1>9, <1>10, <1>11, <1>12 DEF RecorderInv

\* The execution of a new row is the first, and nobody is at work on it.
LEMMA AddCaptureStays ==
  ASSUME LiveInv, RecorderInv, NEW v \in Videos, AddCapture(v)
  PROVE  RecorderInv'
<1>1. PICK c \in Captures :
         /\ capVideo[c] = v /\ \A d \in Captures : capVideo[d] = v => d <= c
         /\ bull' = [bull EXCEPT ![c] = IF @ = "absent" THEN "waiting" ELSE @]
  BY DEF AddCapture
<1>2. /\ ppc[v] = "add" /\ ppc' = [ppc EXCEPT ![v] = "idle"]
      /\ UNCHANGED <<capVars, phase, rowTodo, cpc, lpc, script, faults>>
  BY DEF AddCapture, ProbeDone, ProbeGone, Step
<1>3. /\ ppc \in [Videos -> ProbeSteps]
      /\ bull \in [Captures -> {"absent", "waiting", "active"}]
  BY DEF LiveInv, Types, ProbeTypes, CaptureTypes
<1>4. cpc[c] = "idle" /\ lpc[c] = "idle"
  BY <1>1, <1>2 DEF RecorderInv, ProbeSees
<1>5. BootAlone' /\ RowsInOrder' /\ ListedActive' /\ OwesOwn' /\ SettleOwes' /\ OneActiveCapture'
  BY <1>2, <1>3 DEF RecorderInv, BootAlone, RowsInOrder, ListedActive, OwesOwn, OwnOps,
                    SettleOwes, OneActiveCapture
<1>6. WaitingIdle' /\ ClaimsKept'
  BY <1>1, <1>2, <1>3, <1>4 DEF RecorderInv, WaitingIdle, ClaimsKept
<1>7. ProbeSees'
  BY <1>1, <1>2, <1>3 DEF RecorderInv, ProbeSees, ActiveCaptures
<1> QED BY <1>5, <1>6, <1>7 DEF RecorderInv

-----------------------------------------------------------------------------
\* The writes an actor owes

\* An actor that owes writes makes one, gives it up, or goes on to others of
\* its own; of the rows, a write may only touch that of a settling execution.
WriteMoves(a) ==
    /\ script[a] # <<>>
    /\ \E ops \in Seq(OwnOps(a)) : script' = [script EXCEPT ![a] = ops]
    /\ \/ UNCHANGED capStatus
       \/ \E c \in Captures :
             /\ a = Run(c) /\ capStatus[c] \in ActiveRow
             /\ \E to \in CaptureStatuses \ {"ABSENT", "RUNNING"} :
                   capStatus' = [capStatus EXCEPT ![c] = to]
    /\ UNCHANGED <<capVideo, bull, phase, rowTodo, cpc, lpc, ppc>>
    /\ faults'["lock"] = 0 => faults["lock"] = 0

LEMMA WriteIsMove ==
  ASSUME LiveInv, RecorderInv, NEW a \in Actors, Write(a) \/ WriteSwallowed(a)
  PROVE  WriteMoves(a)
<1>1. script[a] # <<>>
  BY DEF Write, WriteHop, WriteSession, WriteVerify, WriteRow, WritePublication,
         WriteSwallowed, Owes
<1>2. script[a] \in Seq(OwnOps(a)) /\ script[a] \in Seq(SafeOps)
  BY DEF RecorderInv, OwesOwn, LiveInv, ScriptsSafe
<1>3. Head(script[a]) \in OwnOps(a) /\ Rest(a) \in Seq(OwnOps(a)) /\ Head(script[a]) \in SafeOps
  BY <1>1, <1>2, ListsShrink DEF Rest
<1>4. UNCHANGED <<capVideo, bull, phase, rowTodo, cpc, lpc, ppc>>
  BY DEF Write, WriteHop, WriteSession, WriteVerify, WriteRow, WritePublication,
         WriteSwallowed
<1>5. faults'["lock"] = 0 => faults["lock"] = 0
  BY DEF LiveInv, Types, BootTypes, Fault, Write, WriteSwallowed
<1>6. <<>> \in Seq(OwnOps(a))
  OBVIOUS
<1>7. CASE WriteHop(a)
  <2>1. Head(script[a]).on \in Videos
    BY <1>3, <1>7, OwedSafe DEF WriteHop, Owes, SafeOps, Ops, HopOps, SessionOps, RowOps, VideoOps
  <2>2. <<Verify(Head(script[a]).on)>> \in Seq(OwnOps(a))
    <3>1. Verify(Head(script[a]).on) \in OwnOps(a)
      BY <2>1, VideoIsOp DEF OwnOps, Verify
    <3> QED BY <3>1, Listed
  <2>3. <<Verify(Head(script[a]).on)>> \o Rest(a) \in Seq(OwnOps(a))
    BY <1>3, <2>2, ListsJoined
  <2>4. \E ops \in Seq(OwnOps(a)) : script' = [script EXCEPT ![a] = ops]
    BY <1>3, <1>6, <1>7, <2>3 DEF WriteHop, Continue
  <2> QED BY <1>1, <1>4, <1>5, <1>7, <2>4 DEF WriteMoves, WriteHop
<1>8. CASE WriteSession(a) \/ WriteVerify(a) \/ WriteSwallowed(a)
  <2>1. \E ops \in Seq(OwnOps(a)) : script' = [script EXCEPT ![a] = ops]
    BY <1>3, <1>8 DEF WriteSession, WriteVerify, WriteSwallowed, Continue
  <2>2. UNCHANGED capStatus
    BY <1>8 DEF WriteSession, WriteVerify, WriteSwallowed
  <2> QED BY <1>1, <1>4, <1>5, <2>1, <2>2 DEF WriteMoves
<1>9. CASE WritePublication(a)
  <2>1. Head(script[a]).on \in Videos
    BY <1>3, <1>9 DEF WritePublication, Owes, SafeOps, Ops, HopOps, SessionOps, RowOps, VideoOps
  <2>2. <<Hop(Head(script[a]).on, "DOWNLOADING", "FAILED")>> \in Seq(OwnOps(a))
    <3>1. Hop(Head(script[a]).on, "DOWNLOADING", "FAILED") \in OwnOps(a)
      BY <2>1, HopIsOp DEF OwnOps, Hop, Lifecycle!CopyEdges
    <3> QED BY <3>1, Listed
  <2>3. \E ops \in Seq(OwnOps(a)) : script' = [script EXCEPT ![a] = ops]
    BY <1>3, <1>9, <2>2 DEF WritePublication, Continue
  <2> QED BY <1>1, <1>4, <1>5, <1>9, <2>3 DEF WriteMoves, WritePublication
<1>10. CASE WriteRow(a)
  <2>1. Head(script[a]).op = "row"
    BY <1>10 DEF WriteRow, Owes
  <2>2. Head(script[a]) \in RowOps /\ a = Run(Head(script[a]).on)
    BY <1>3, <2>1 DEF OwnOps, Ops, HopOps, SessionOps, VideoOps
  <2>3. /\ Head(script[a]).on \in Captures
        /\ Head(script[a]).to \in {"QUEUED", "COMPLETED", "FAILED", "CANCELED"}
    BY <2>2 DEF RowOps
  <2>4. \/ UNCHANGED capStatus
        \/ /\ capStatus[Head(script[a]).on] \in ActiveRow
           /\ capStatus' = [capStatus EXCEPT ![Head(script[a]).on] = Head(script[a]).to]
    BY <1>10 DEF WriteRow
  <2>5. \E ops \in Seq(OwnOps(a)) : script' = [script EXCEPT ![a] = ops]
    BY <1>3, <1>10 DEF WriteRow, Continue
  <2> QED BY ZenonT(60), <1>1, <1>4, <1>5, <2>2, <2>3, <2>4, <2>5 DEF WriteMoves
<1> QED BY <1>7, <1>8, <1>9, <1>10 DEF Write

LEMMA WriteStays ==
  ASSUME LiveInv, RecorderInv, NEW a \in Actors, WriteMoves(a)
  PROVE  RecorderInv'
<1>1. /\ ScriptsSafe /\ cpc \in [Captures -> CaptureSteps]
      /\ capStatus \in [Captures -> CaptureStatuses]
  BY DEF LiveInv, Types, CaptureTypes, RowTypes
<1>2. /\ script[a] # <<>>
      /\ \A b \in Actors : b # a => script'[b] = script[b]
      /\ UNCHANGED <<capVideo, bull, phase, rowTodo, cpc, lpc, ppc>>
      /\ faults'["lock"] = 0 => faults["lock"] = 0
  BY <1>1 DEF WriteMoves, ScriptsSafe
<1>3. \A c \in Captures :
         capStatus'[c] # capStatus[c] =>
            /\ capStatus[c] \in ActiveRow /\ capStatus'[c] \notin {"ABSENT", "RUNNING"}
            /\ cpc[c] = "settle" /\ phase \in {"up", "draining"}
  <2> SUFFICES ASSUME NEW c \in Captures, capStatus'[c] # capStatus[c]
               PROVE  /\ capStatus[c] \in ActiveRow /\ capStatus'[c] \notin {"ABSENT", "RUNNING"}
                      /\ cpc[c] = "settle" /\ phase \in {"up", "draining"}
    OBVIOUS
  <2>1. /\ a = Run(c) /\ capStatus[c] \in ActiveRow
        /\ capStatus'[c] \notin {"ABSENT", "RUNNING"}
    BY <1>1 DEF WriteMoves
  <2>2. cpc[c] = "settle"
    BY <1>2, <2>1 DEF RecorderInv, SettleOwes
  <2> QED BY <2>1, <2>2 DEF RecorderInv, BootAlone
<1>4. OwesOwn'
  BY <1>1, OwesOwnList DEF WriteMoves, RecorderInv
<1>5. SettleOwes'
  BY <1>2, ActorsAre DEF RecorderInv, SettleOwes
<1>6. BootAlone'
  BY <1>2, ActorsAre DEF RecorderInv, BootAlone
<1>7. RowsInOrder' /\ WaitingIdle'
  BY <1>2, <1>3 DEF RecorderInv, RowsInOrder, WaitingIdle
<1>8. ListedActive'
  BY <1>2, <1>3 DEF RecorderInv, ListedActive
<1>9. OneActiveCapture'
  BY <1>2, <1>3 DEF RecorderInv, OneActiveCapture
<1>10. ProbeSees'
  <2>1. \A v \in Videos : ActiveCaptures(v)' \subseteq ActiveCaptures(v)
    BY <1>2, <1>3 DEF ActiveCaptures
  <2> QED BY <1>2, <1>3, <2>1 DEF RecorderInv, ProbeSees
<1>11. ClaimsKept'
  BY <1>2, <1>3 DEF RecorderInv, ClaimsKept, ClaimSteps
<1> QED BY <1>4, <1>5, <1>6, <1>7, <1>8, <1>9, <1>10, <1>11 DEF RecorderInv

-----------------------------------------------------------------------------
\* The re-check, the worker's stop and its boot

LEMMA RemeasureStays ==
  ASSUME LiveInv, RecorderInv, NEW v \in Videos, Remeasure(v)
  PROVE  RecorderInv'
<1>1. UNCHANGED <<capVars, bull, phase, rowTodo, cpc, lpc, ppc>> /\ faults'["lock"] = faults["lock"]
  BY MeasureCounted DEF Remeasure, LiveInv, Types, FaultKinds
<1>2. ksess[v] \in Sessions \cup {NoSession} /\ ScriptsSafe
  BY DEF LiveInv, Types, ProbeTypes
<1>3. \E ops \in Seq(OwnOps(Check(v))) : script' = [script EXCEPT ![Check(v)] = ops]
  <2>1. <<>> \in Seq(OwnOps(Check(v)))
    OBVIOUS
  <2> QED BY <1>2, <2>1, FinalizersOwn DEF Remeasure
<1>4. \A b \in Actors : b # Check(v) => script'[b] = script[b]
  BY <1>2, <1>3 DEF ScriptsSafe
<1>5. OwesOwn'
  BY <1>2, <1>3, OwesOwnList, ActorsAre DEF RecorderInv
<1>6. BootAlone' /\ SettleOwes'
  <2>1. /\ \A c \in Captures : script'[Run(c)] = script[Run(c)]
                               /\ script'[Listener(c)] = script[Listener(c)]
        /\ \A w \in Videos : script'[Probe(w)] = script[Probe(w)]
        /\ script'[Boot] = script[Boot]
    BY <1>4, ActorsAre DEF Run, Listener, Probe, Boot, Check
  <2> QED BY <1>1, <2>1 DEF RecorderInv, BootAlone, SettleOwes
<1>7. RowsInOrder' /\ ListedActive' /\ WaitingIdle' /\ OneActiveCapture'
  BY <1>1 DEF RecorderInv, RowsInOrder, ListedActive, WaitingIdle, OneActiveCapture
<1>8. ProbeSees' /\ ClaimsKept'
  BY <1>1 DEF RecorderInv, ProbeSees, ActiveCaptures, ClaimsKept
<1> QED BY <1>5, <1>6, <1>7, <1>8 DEF RecorderInv

\* What dies with the process leaves the rows behind.
LEMMA StopStays ==
  ASSUME LiveInv, RecorderInv, Drain \/ Drained \/ Crash
  PROVE  RecorderInv'
<1>1. UNCHANGED <<capVars, bull>>
  BY DEF Drain, Drained, Crash
<1>2. faults'["lock"] = 0 => faults["lock"] = 0
  BY DEF LiveInv, Types, BootTypes, Fault, Drain, Drained, Crash
<1>3. CASE Drain
  <2>1. /\ phase = "up" /\ phase' = "draining"
        /\ UNCHANGED <<rowTodo, cpc, lpc, ppc, script>>
    BY <1>3 DEF Drain
  <2>2. BootAlone' /\ RowsInOrder' /\ ListedActive' /\ OwesOwn' /\ SettleOwes'
    BY <1>1, <2>1 DEF RecorderInv, BootAlone, RowsInOrder, ListedActive, OwesOwn, OwnOps, SettleOwes
  <2>3. WaitingIdle' /\ OneActiveCapture' /\ ProbeSees' /\ ClaimsKept'
    BY <1>1, <1>2, <2>1
       DEF RecorderInv, WaitingIdle, OneActiveCapture, ProbeSees, ActiveCaptures, ClaimsKept
  <2> QED BY <2>2, <2>3 DEF RecorderInv
<1>4. CASE Drained \/ Crash
  <2>1. LoseMemory
    BY <1>4 DEF Drained, Crash
  <2>2. /\ phase' = "down" /\ rowTodo' = {}
        /\ \A c \in Captures : cpc'[c] = "idle" /\ lpc'[c] = "idle"
        /\ \A v \in Videos : ppc'[v] = "idle"
    BY <2>1 DEF LoseMemory
  <2>3. \A a \in Actors : script'[a] = IF a[1] = "check" THEN script[a] ELSE <<>>
    BY <2>1 DEF LoseMemory
  <2>4. /\ \A c \in Captures : script'[Run(c)] = <<>> /\ script'[Listener(c)] = <<>>
        /\ \A v \in Videos : script'[Probe(v)] = <<>>
        /\ script'[Boot] = <<>>
    BY <2>3, ActorsAre DEF Run, Listener, Probe, Boot
  <2>5. OwesOwn'
    <3>1. ASSUME NEW a \in Actors PROVE script'[a] \in Seq(OwnOps(a))
      <4>1. script[a] \in Seq(OwnOps(a)) /\ <<>> \in Seq(OwnOps(a))
        BY DEF RecorderInv, OwesOwn
      <4> QED BY <2>3, <4>1
    <3> QED BY <3>1 DEF OwesOwn, OwnOps
  <2>6. BootAlone' /\ RowsInOrder' /\ ListedActive' /\ SettleOwes'
    BY <1>1, <2>2, <2>4 DEF RecorderInv, BootAlone, RowsInOrder, ListedActive, SettleOwes
  <2>7. WaitingIdle' /\ OneActiveCapture' /\ ProbeSees' /\ ClaimsKept'
    BY <1>1, <1>2, <2>2
       DEF RecorderInv, WaitingIdle, OneActiveCapture, ProbeSees, ClaimsKept, ClaimSteps
  <2> QED BY <2>5, <2>6, <2>7 DEF RecorderInv
<1> QED BY <1>3, <1>4

\* The boot hands rows back while nobody is at work, and lists what is left.
LEMMA BootRowsStay ==
  ASSUME LiveInv, RecorderInv, BootRows \/ BootRow
  PROVE  RecorderInv'
<1>1. /\ phase \in {"down", "rows"} /\ phase' = "rows"
      /\ UNCHANGED <<capVideo, cpc, lpc, ppc, script, faults>>
  BY DEF BootRows, BootRow
<1>2. /\ \A c \in Captures : cpc[c] = "idle" /\ lpc[c] = "idle"
                             /\ script[Run(c)] = <<>> /\ script[Listener(c)] = <<>>
      /\ \A v \in Videos : ppc[v] = "idle" /\ script[Probe(v)] = <<>>
      /\ script[Boot] = <<>>
  BY <1>1 DEF RecorderInv, BootAlone
<1>3. /\ capStatus \in [Captures -> CaptureStatuses]
      /\ bull \in [Captures -> {"absent", "waiting", "active"}]
  BY DEF LiveInv, Types, RowTypes, CaptureTypes
<1>4. \A c \in Captures :
         /\ \/ capStatus'[c] = capStatus[c]
            \/ capStatus[c] \in ActiveRow /\ capStatus'[c] = "QUEUED"
         /\ c \in rowTodo' => capStatus'[c] \in ActiveRow
  <2>1. CASE BootRows
    BY <2>1, IdsAssumption DEF BootRows
  <2>2. CASE BootRow
    <3>1. PICK r \in rowTodo :
             /\ rowTodo' = rowTodo \ {r}
             /\ \/ r \in Captures /\ capStatus' = [capStatus EXCEPT ![r] = "QUEUED"]
                \/ UNCHANGED capStatus
      BY <2>2 DEF BootRow
    <3>2. \A c \in Captures : c \in rowTodo => capStatus[c] \in ActiveRow
      BY DEF RecorderInv, ListedActive
    <3> QED BY <1>3, <3>1, <3>2
  <2> QED BY <2>1, <2>2
<1>5. OwesOwn' /\ SettleOwes' /\ BootAlone'
  BY <1>1, <1>2 DEF RecorderInv, OwesOwn, OwnOps, SettleOwes, BootAlone
<1>6. RowsInOrder' /\ ListedActive'
  BY <1>1, <1>4 DEF RecorderInv, RowsInOrder, ListedActive
<1>7. OneActiveCapture'
  BY <1>1, <1>4 DEF RecorderInv, OneActiveCapture
<1>8. WaitingIdle' /\ ProbeSees' /\ ClaimsKept'
  BY <1>1, <1>2 DEF WaitingIdle, ProbeSees, ClaimsKept, ClaimSteps
<1> QED BY <1>5, <1>6, <1>7, <1>8 DEF RecorderInv

LEMMA BootSessionsStay ==
  ASSUME LiveInv, RecorderInv, BootSessions \/ BootSession \/ BootSweep \/ BootClose
  PROVE  RecorderInv'
<1>1. /\ phase \in {"rows", "sessions", "sweep"} /\ phase' \in {"sessions", "sweep", "up"}
      /\ UNCHANGED <<capVars, bull, cpc, lpc, ppc, rowTodo, faults>>
      /\ phase = "rows" => rowTodo = {}
  BY DEF BootSessions, BootSession, BootSweep, BootClose
<1>2. /\ \A c \in Captures : cpc[c] = "idle" /\ lpc[c] = "idle"
                             /\ script[Run(c)] = <<>> /\ script[Listener(c)] = <<>>
      /\ \A v \in Videos : ppc[v] = "idle" /\ script[Probe(v)] = <<>>
  BY <1>1 DEF RecorderInv, BootAlone
<1>3. UNCHANGED script \/ \E ops \in Seq(OwnOps(Boot)) : Owe(Boot, ops)
  <2>1. CASE BootSession
    <3>1. PICK o \in sessTodo :
             \/ Owe(Boot, FinalizeInterrupted(o[1], sessVideo[o[1]]))
             \/ Owe(Boot, FinalizeEmpty(o[1], sessVideo[o[1]], "FAILED"))
      BY <2>1 DEF BootSession
    <3>2. o[1] \in Sessions \cup {NoSession} /\ sessVideo[o[1]] \in Videos
      BY DEF LiveInv, Types, BootTypes, RowsLinked, IsLive
    <3> QED BY <3>1, <3>2, FinalizersOwn
  <2>2. CASE BootClose
    BY <2>2, SweepOwn, ActorsAre DEF BootClose
  <2> QED BY <2>1, <2>2 DEF BootSessions, BootSweep
<1>4. ScriptsSafe
  BY DEF LiveInv
<1>5. OwesOwn'
  <2>1. CASE UNCHANGED script
    BY <2>1 DEF RecorderInv, OwesOwn, OwnOps
  <2>2. CASE \E ops \in Seq(OwnOps(Boot)) : Owe(Boot, ops)
    BY <1>4, <2>2, OwesOwnList, ActorsAre DEF RecorderInv, Owe
  <2> QED BY <1>3, <2>1, <2>2
<1>6. BootAlone' /\ SettleOwes'
  <2>1. /\ \A c \in Captures : script'[Run(c)] = script[Run(c)]
                               /\ script'[Listener(c)] = script[Listener(c)]
        /\ \A w \in Videos : script'[Probe(w)] = script[Probe(w)]
    BY <1>3, <1>4, ActorsAre DEF ScriptsSafe, Owe, Run, Listener, Probe, Boot
  <2> QED BY <1>1, <1>2, <2>1 DEF BootAlone, SettleOwes
<1>7. RowsInOrder' /\ ListedActive' /\ WaitingIdle' /\ OneActiveCapture'
  BY <1>1 DEF RecorderInv, RowsInOrder, ListedActive, WaitingIdle, OneActiveCapture
<1>8. ProbeSees' /\ ClaimsKept'
  BY <1>1, <1>2 DEF ProbeSees, ClaimsKept, ClaimSteps
<1> QED BY <1>5, <1>6, <1>7, <1>8 DEF RecorderInv

\* What touches neither rows nor workers.
LEMMA OthersStay ==
  ASSUME LiveInv, RecorderInv,
         \/ \E c \in Captures : Record(c) \/ Reclaim(c) \/ CancelCapture(c)
         \/ \E v \in Videos : \/ ScanRow(v) \/ ScanAdd(v) \/ Recheck(v) \/ CheckDone(v)
                              \/ Deadline(v) \/ Enumerate(v) \/ EnqueueRead(v)
                              \/ ArchiveStep(v) \/ AirStart(v) \/ AirMore(v) \/ AirEnd(v)
  PROVE  /\ RecorderInv'
         /\ UNCHANGED <<sessVars, capVars, sessTodo, script, phase>>
         /\ faults'["db"] = 0 => faults["db"] = 0
<1>1. /\ UNCHANGED <<capVars, bull, phase, rowTodo, cpc, lpc, ppc, script>>
      /\ UNCHANGED <<sessVars, sessTodo>>
  BY DEF Record, Reclaim, CancelCapture, ScanRow, ScanAdd, Recheck, CheckDone, Deadline,
         Enumerate, EnqueueRead, ArchiveStep, EnqueueCommit, DownloadBegin, DownloadEnd,
         VerifyEnd, AirStart, AirMore, AirEnd
<1>2. UNCHANGED faults \/ Fault("cancel") \/ Fault("enqueue")
  BY DEF Record, Reclaim, CancelCapture, ScanRow, ScanAdd, Recheck, CheckDone, Deadline,
         Enumerate, EnqueueRead, ArchiveStep, EnqueueCommit, DownloadBegin, DownloadEnd,
         VerifyEnd, AirStart, AirMore, AirEnd
<1>3. /\ faults'["lock"] = 0 => faults["lock"] = 0
      /\ faults'["db"] = 0 => faults["db"] = 0
  BY <1>2 DEF LiveInv, Types, BootTypes, Fault
<1> QED BY <1>1, <1>3, QuietStays

LEMMA NextStays == LiveInv /\ RecorderInv /\ [Next]_vars => RecorderInv'
<1> SUFFICES ASSUME LiveInv, RecorderInv, [Next]_vars PROVE RecorderInv'
  OBVIOUS
<1>1. ASSUME NEW c \in Captures,
             \/ CaptureStep(c) \/ SpawnFails(c) \/ Hang(c) \/ FinalizeThrows(c)
      PROVE  RecorderInv'
  <2>1. Run(c) \in Actors
    BY ActorsAre
  <2> QED BY <1>1, <2>1, ExecutionStays, FinalizeThrowsStays, PickUpStays, ClaimStays,
             WriteIsMove, WriteStays DEF CaptureStep
<1>2. ASSUME NEW c \in Captures, Stall(c) \/ ListenStep(c)
      PROVE  RecorderInv'
  <2>1. Listener(c) \in Actors
    BY ActorsAre
  <2> QED BY <1>2, <2>1, StallStays, ListenStays, WriteIsMove, WriteStays DEF ListenStep
<1>3. ASSUME NEW v \in Videos, ProbeStep(v) \/ ProbeThrows(v)
      PROVE  RecorderInv'
  <2>1. Probe(v) \in Actors
    BY ActorsAre
  <2> QED BY <1>3, <2>1, ProbeStays, SweepStays, CreateCaptureStays, AddCaptureStays,
             WriteIsMove, WriteStays DEF ProbeStep
<1>4. ASSUME NEW v \in Videos, Remeasure(v) \/ Write(Check(v))
      PROVE  RecorderInv'
  <2>1. Check(v) \in Actors
    BY ActorsAre
  <2> QED BY <1>4, <2>1, RemeasureStays, WriteIsMove, WriteStays
<1>5. CASE \/ BootStep \/ Drain \/ Drained \/ Crash
           \/ \E a \in Actors : WriteSwallowed(a)
  <2>1. Boot \in Actors
    BY ActorsAre
  <2> QED BY <1>5, <2>1, BootRowsStay, BootSessionsStay, StopStays, WriteIsMove, WriteStays
             DEF BootStep
<1>6. CASE \/ \E c \in Captures : Record(c) \/ Reclaim(c) \/ CancelCapture(c)
           \/ \E v \in Videos : \/ ScanRow(v) \/ ScanAdd(v) \/ Recheck(v) \/ CheckDone(v)
                                \/ Deadline(v) \/ Enumerate(v) \/ EnqueueRead(v)
                                \/ ArchiveStep(v) \/ AirStart(v) \/ AirMore(v) \/ AirEnd(v)
  BY <1>6, OthersStay
<1>7. CASE UNCHANGED vars
  BY <1>7, QuietStays DEF vars
<1> QED BY <1>1, <1>2, <1>3, <1>4, <1>5, <1>6, <1>7 DEF Next, CheckStep

LEMMA InitRecorder == Init => RecorderInv
<1> SUFFICES ASSUME Init PROVE RecorderInv
  OBVIOUS
<1>1. OwesOwn /\ SettleOwes
  <2>1. \A a \in Actors : script[a] = <<>>
    BY DEF Init
  <2>2. \A a \in Actors : <<>> \in Seq(OwnOps(a))
    OBVIOUS
  <2> QED BY <2>1, <2>2, ActorsAre DEF OwesOwn, SettleOwes
<1>2. BootAlone /\ RowsInOrder /\ ListedActive /\ WaitingIdle /\ OneActiveCapture
  BY DEF Init, BootAlone, RowsInOrder, ListedActive, WaitingIdle, OneActiveCapture
<1>3. ProbeSees /\ ClaimsKept
  BY DEF Init, ProbeSees, ClaimsKept, ClaimSteps
<1> QED BY <1>1, <1>2, <1>3 DEF RecorderInv

LEMMA RecorderInvariance == Spec => [](LiveInv /\ RecorderInv)
<1>1. Init => LiveInv /\ RecorderInv
  BY InitInv, InitRecorder
<1>2. (LiveInv /\ RecorderInv) /\ [Next]_vars => (LiveInv /\ RecorderInv)'
  <2> SUFFICES ASSUME LiveInv, RecorderInv, [Next]_vars PROVE (LiveInv /\ RecorderInv)'
    OBVIOUS
  <2>1. Kept /\ RecorderInv'
    BY NextKeeps, NextStays
  <2> QED BY <2>1 DEF Kept, LiveInv
<1> QED BY <1>1, <1>2, PTL DEF Spec

\* A recorder holds a RUNNING row, and a broadcast has one row that is active.
THEOREM NoDoubleRecordHolds == Spec => []NoDoubleRecord
<1>1. LiveInv /\ RecorderInv => NoDoubleRecord
  <2> SUFFICES ASSUME RecorderInv, faults["lock"] = 0, NEW v \in Videos
               PROVE  Cardinality(Recorders(v)) <= 1
    BY DEF NoDoubleRecord
  <2>1. \A c \in Recorders(v) : c \in Captures /\ capVideo[c] = v /\ capStatus[c] = "RUNNING"
    BY DEF Recorders, RecorderInv, ClaimsKept, ClaimSteps
  <2>2. \A c, d \in Recorders(v) : c = d
    BY <2>1 DEF RecorderInv, OneActiveCapture
  <2>3. CASE Recorders(v) = {}
    BY <2>3, FS_EmptySet
  <2>4. CASE Recorders(v) # {}
    <3>1. PICK c \in Recorders(v) : TRUE
      BY <2>4
    <3>2. Recorders(v) = {c}
      BY <2>2, <3>1
    <3> QED BY <3>2, FS_Singleton
  <2> QED BY <2>3, <2>4
<1> QED BY <1>1, RecorderInvariance, PTL

-----------------------------------------------------------------------------
\* The orphans of a boot

\* A write that is owed is the next one, or owed by the rest.
LEMMA OwedNextOrLater ==
  ASSUME NEW S, NEW p \in Seq(S), p # <<>>, NEW i \in 1..Len(p)
  PROVE  p[i] = Head(p) \/ \E j \in 1..Len(Tail(p)) : Tail(p)[j] = p[i]
<1>1. CASE i = 1
  BY <1>1
<1>2. CASE i # 1
  <2>1. i - 1 \in 1..Len(Tail(p)) /\ Tail(p)[i - 1] = p[i]
    BY <1>2
  <2> QED BY <2>1
<1> QED BY <1>1, <1>2

\* What a boot that works through its orphans does not see change.
BootView == <<sessVars, capVars, sessTodo, script[Boot]>>

\* A session the boot settles is owed its settlement.
LEMMA BootSessionLists ==
  ASSUME LiveInv, OrphansListed, BootSession
  PROVE  OrphansListed'
<1>1. PICK o \in sessTodo :
         /\ sessTodo' = sessTodo \ {o}
         /\ \/ Owe(Boot, FinalizeInterrupted(o[1], sessVideo[o[1]]))
            \/ Owe(Boot, FinalizeEmpty(o[1], sessVideo[o[1]], "FAILED"))
  BY DEF BootSession
<1>2. UNCHANGED <<sessVars, capVars, phase, faults>> /\ phase = "sessions" /\ script[Boot] = <<>>
  BY DEF BootSession
<1>3. o[1] \in Sessions /\ sessVideo[o[1]] \in Videos
  BY DEF LiveInv, Types, BootTypes, RowsLinked, IsLive
<1> DEFINE v == sessVideo[o[1]]
<1>4. \E a \in BootOps, b \in BootOps :
         /\ script'[Boot] = <<a, b>>
         /\ b.op = "session" /\ b.on = o[1] /\ b.from = "active"
  <2>1. /\ Hop(v, "DOWNLOADING", "PARTIAL_KEPT") \in BootOps
        /\ Hop(v, "DOWNLOADING", "FAILED") \in BootOps
    BY <1>3, HopIsOp DEF BootOps, Hop, Lifecycle!CopyEdges
  <2>2. \A to \in {"ENDED_INTERRUPTED", "FAILED"} :
           /\ Settle(o[1], "active", to) \in BootOps
           /\ Settle(o[1], "active", to).op = "session"
           /\ Settle(o[1], "active", to).on = o[1]
           /\ Settle(o[1], "active", to).from = "active"
    BY <1>3, SettleIsOp DEF BootOps, Settle
  <2>3. script \in [Actors -> Seq(SafeOps)] /\ Boot \in Actors
    BY ActorsAre DEF LiveInv, ScriptsSafe
  <2>4. \/ script'[Boot] = FinalizeInterrupted(o[1], v)
        \/ script'[Boot] = FinalizeEmpty(o[1], v, "FAILED")
    BY <1>1, <2>3 DEF Owe
  <2> HIDE DEF BootOps, v
  <2> QED BY <2>1, <2>2, <2>4 DEF FinalizeInterrupted, FinalizeEmpty
<1>5. PICK a \in BootOps, b \in BootOps :
         /\ script'[Boot] = <<a, b>>
         /\ b.op = "session" /\ b.on = o[1] /\ b.from = "active"
  BY <1>4
<1>6. script'[Boot] \in Seq(BootOps)
  BY <1>5, Listed
<1>7. SettlementOwed(o[1])'
  <2>1. 2 \in 1..Len(script'[Boot]) /\ script'[Boot][2] = b
    BY <1>5
  <2> QED BY <1>5, <2>1 DEF SettlementOwed
<1>8. ASSUME NEW s \in Sessions, sessState[s] \in ActiveSession,
             ActiveCaptures(sessVideo[s]) = {}, faults["db"] = 0
      PROVE  (\E q \in sessTodo' : q[1] = s) \/ SettlementOwed(s)'
  <2>1. \E q \in sessTodo : q[1] = s
    BY <1>2, <1>8 DEF OrphansListed, SettlementOwed
  <2> QED BY <1>1, <1>7, <2>1
<1>9. \A w : ActiveCaptures(w)' = ActiveCaptures(w)
  BY <1>2 DEF ActiveCaptures
<1> QED BY <1>2, <1>6, <1>8, <1>9 DEF OrphansListed, BootOps

\* A settlement that is made leaves no active session behind.
LEMMA BootWriteLists ==
  ASSUME LiveInv, RecorderInv, OrphansListed, phase = "sessions",
         Write(Boot) \/ WriteSwallowed(Boot)
  PROVE  OrphansListed'
<1> DEFINE p == script[Boot]
<1>1. p # <<>>
  BY DEF Write, WriteHop, WriteSession, WriteVerify, WriteRow, WritePublication,
         WriteSwallowed, Owes
<1>2. p \in Seq(BootOps)
  BY DEF OrphansListed
<1>3. Head(p) \in BootOps /\ Tail(p) \in Seq(BootOps)
  BY <1>1, <1>2, ListsShrink
<1>4. script \in [Actors -> Seq(SafeOps)] /\ Boot \in Actors
  BY ActorsAre DEF LiveInv, ScriptsSafe
<1>5. CASE WriteSwallowed(Boot)
  <2>1. script'[Boot] = Tail(p) /\ faults'["db"] # 0
    BY <1>4, <1>5 DEF WriteSwallowed, Continue, Rest, LiveInv, Types, BootTypes, Fault
  <2> QED BY <1>3, <2>1 DEF OrphansListed, BootOps
<1>6. CASE Write(Boot)
  <2>1. WriteHop(Boot) \/ WriteSession(Boot)
    BY <1>3, <1>6 DEF Write, WriteVerify, WriteRow, WritePublication, Owes, BootOps
  <2>2. script'[Boot] = Tail(p) /\ UNCHANGED <<sessVideo, capVars, sessTodo, faults, phase>>
    BY <1>3, <1>4, <1>6, <2>1
       DEF Write, WriteHop, WriteSession, Continue, Rest, Owes, BootOps
  <2>3. ASSUME NEW s \in Sessions, sessState'[s] \in ActiveSession
        PROVE  /\ sessState[s] \in ActiveSession
               /\ Head(p).op = "session" /\ Head(p).on = s => Head(p).from # "active"
    <3>1. CASE WriteHop(Boot)
      BY <2>3, <3>1 DEF WriteHop, Owes
    <3>2. CASE WriteSession(Boot)
      <4>1. Head(p) \in SessionOps
        BY <1>3, <3>2 DEF WriteSession, Owes, BootOps, Ops, HopOps, RowOps, VideoOps
      <4>2. Head(p).to \notin ActiveSession
        BY <4>1 DEF SessionOps
      <4>3. sessState \in [Sessions -> SessionStates]
        BY DEF LiveInv, Types, RowTypes
      <4> QED BY <2>3, <3>2, <4>2, <4>3 DEF WriteSession
    <3> QED BY <2>1, <3>1, <3>2
  <2>4. ASSUME NEW s \in Sessions, sessState'[s] \in ActiveSession, SettlementOwed(s)
        PROVE  SettlementOwed(s)'
    <3>1. PICK i \in 1..Len(p) : p[i].op = "session" /\ p[i].on = s /\ p[i].from = "active"
      BY <2>4 DEF SettlementOwed
    <3>2. p[i] # Head(p)
      BY <2>3, <2>4, <3>1
    <3>3. PICK j \in 1..Len(Tail(p)) : Tail(p)[j] = p[i]
      BY <1>1, <1>2, <3>2, OwedNextOrLater
    <3> QED BY <2>2, <3>1, <3>3 DEF SettlementOwed
  <2>5. \A w : ActiveCaptures(w)' = ActiveCaptures(w)
    BY <2>2 DEF ActiveCaptures
  <2>6. script'[Boot] \in Seq(BootOps)
    BY <1>3, <2>2
  <2> QED BY <2>2, <2>3, <2>4, <2>5, <2>6 DEF OrphansListed, BootOps
<1> QED BY <1>5, <1>6

\* The other writes of that time settle sessions too, and no row.
LEMMA OtherWriteLists ==
  ASSUME LiveInv, RecorderInv, OrphansListed, phase = "sessions", NEW a \in Actors, a # Boot,
         Write(a) \/ WriteSwallowed(a)
  PROVE  OrphansListed'
<1>1. WriteMoves(a)
  BY WriteIsMove
<1>2. script[a] # <<>> /\ script'[Boot] = script[Boot] /\ phase' = phase
  BY <1>1, ActorsAre DEF WriteMoves
<1>3. UNCHANGED capVars
  <2>1. \A c \in Captures : a # Run(c)
    BY <1>2 DEF RecorderInv, BootAlone
  <2>2. UNCHANGED <<capStatus, capVideo>>
    BY <1>1, <2>1 DEF WriteMoves
  <2> QED BY <2>2 DEF Write, WriteHop, WriteSession, WriteVerify, WriteRow, WritePublication,
             WriteSwallowed
<1>4. UNCHANGED <<sessVideo, sessTodo>> /\ (faults'["db"] = 0 => faults["db"] = 0)
  BY DEF Write, WriteHop, WriteSession, WriteVerify, WriteRow, WritePublication,
         WriteSwallowed, LiveInv, Types, BootTypes, Fault
<1>5. \A s \in Sessions : sessState'[s] \in ActiveSession => sessState[s] \in ActiveSession
  <2>1. CASE UNCHANGED sessState
    BY <2>1
  <2>2. CASE WriteSession(a)
    <3>1. Head(script[a]) \in SafeOps
      BY <1>2, OwedSafe DEF LiveInv
    <3>2. Head(script[a]).to \notin ActiveSession
      BY <2>2, <3>1, OpKinds DEF WriteSession, Owes
    <3>3. sessState \in [Sessions -> SessionStates]
      BY DEF LiveInv, Types, RowTypes
    <3> QED BY <2>2, <3>2, <3>3 DEF WriteSession
  <2> QED BY <2>1, <2>2
          DEF Write, WriteHop, WriteVerify, WriteRow, WritePublication, WriteSwallowed
<1>6. \A w : ActiveCaptures(w)' = ActiveCaptures(w)
  BY <1>3 DEF ActiveCaptures
<1>7. \A s : SettlementOwed(s)' = SettlementOwed(s)
  BY <1>2 DEF SettlementOwed
<1> QED BY <1>2, <1>4, <1>5, <1>6, <1>7 DEF OrphansListed, BootOps

\* Nobody else opens a session meanwhile, or takes one over.
LEMMA UnseenKeepsList ==
  ASSUME OrphansListed, phase = "sessions", UNCHANGED BootView,
         faults'["db"] = 0 => faults["db"] = 0
  PROVE  OrphansListed'
<1>1. \A w : ActiveCaptures(w)' = ActiveCaptures(w)
  BY DEF ActiveCaptures, BootView
<1>2. \A s : SettlementOwed(s)' = SettlementOwed(s)
  BY DEF SettlementOwed, BootView
<1> QED BY <1>1, <1>2 DEF OrphansListed, BootOps, BootView

\* The steps that change the phase.
LEMMA PhaseSteps ==
  [Next]_vars => \/ UNCHANGED phase \/ Drain \/ Drained \/ Crash
                 \/ BootRows \/ BootSessions \/ BootSweep \/ BootClose
<1>1. ASSUME NEW a, Write(a) \/ WriteSwallowed(a)
      PROVE  UNCHANGED phase
  BY <1>1 DEF Write, WriteSwallowed
<1>2. ASSUME NEW c \in Captures,
             \/ CaptureStep(c) \/ Record(c) \/ Reclaim(c) \/ SpawnFails(c) \/ Hang(c)
             \/ FinalizeThrows(c) \/ Stall(c) \/ ListenStep(c) \/ CancelCapture(c)
      PROVE  UNCHANGED phase
  <2>1. CASE CaptureStep(c)
    BY <1>1, <2>1 DEF CaptureStep, PickUp, Load, Begin, Reread, Prepare, MarkSessionCapturing,
         Reuse, Adopt, Exit, Verdict, Measure, Finish
  <2>2. CASE ListenStep(c)
    BY <1>1, <2>2 DEF ListenStep, ListenRow, ListenMark, ListenRead, ListenDone
  <2> QED BY <1>2, <2>1, <2>2
          DEF Record, Reclaim, SpawnFails, Hang, FinalizeThrows, Stall, CancelCapture
<1>3. ASSUME NEW v \in Videos,
             \/ ScanRow(v) \/ ScanAdd(v) \/ ProbeStep(v) \/ ProbeThrows(v) \/ CheckStep(v)
             \/ Deadline(v) \/ Enumerate(v) \/ EnqueueRead(v) \/ ArchiveStep(v)
             \/ AirStart(v) \/ AirMore(v) \/ AirEnd(v)
      PROVE  UNCHANGED phase
  <2>1. CASE ProbeStep(v) \/ ProbeThrows(v)
    BY <1>1, <2>1 DEF ProbeStep, ProbePickUp, ProbeStall, Look, List, Sweep, ReadVideo, Guard,
         CreateLiveCandidate, Promote, FindSession, OpenSession, FindCapture, CreateCapture,
         AddCapture, ProbeThrows
  <2>2. CASE CheckStep(v)
    BY <1>1, <2>2 DEF CheckStep, Recheck, Remeasure, CheckDone
  <2> QED BY <1>3, <2>1, <2>2
          DEF ScanRow, ScanAdd, Deadline, Enumerate, EnqueueRead, ArchiveStep, EnqueueCommit,
              DownloadBegin, DownloadEnd, VerifyEnd, AirStart, AirMore, AirEnd
<1>4. BootRow \/ BootSession \/ UNCHANGED vars => UNCHANGED phase
  BY DEF BootRow, BootSession, vars
<1> QED BY <1>1, <1>2, <1>3, <1>4 DEF Next, BootStep

\* While the worker works through the orphans, captures, listeners and probes
\* are not at work.
LEMMA NobodyAtWork ==
  ASSUME RecorderInv, phase = "sessions"
  PROVE  /\ \A c \in Captures : ~(\/ CaptureStep(c) \/ Record(c) \/ Reclaim(c) \/ SpawnFails(c)
                                \/ Hang(c) \/ FinalizeThrows(c) \/ Stall(c) \/ ListenStep(c))
         /\ \A v \in Videos : ~(ProbeStep(v) \/ ProbeThrows(v))
<1>1. /\ \A c \in Captures : cpc[c] = "idle" /\ lpc[c] = "idle"
                             /\ script[Run(c)] = <<>> /\ script[Listener(c)] = <<>>
      /\ \A v \in Videos : ppc[v] = "idle" /\ script[Probe(v)] = <<>>
  BY DEF RecorderInv, BootAlone
<1>2. \A a : Write(a) => script[a] # <<>>
  BY DEF Write, WriteHop, WriteSession, WriteVerify, WriteRow, WritePublication, Owes
<1>3. ASSUME NEW c \in Captures
      PROVE  ~(\/ CaptureStep(c) \/ Record(c) \/ Reclaim(c) \/ SpawnFails(c)
               \/ Hang(c) \/ FinalizeThrows(c) \/ Stall(c) \/ ListenStep(c))
  <2>1. ~CaptureStep(c)
    BY <1>1, <1>2 DEF CaptureStep, PickUp, Load, Begin, Reread, Prepare, MarkSessionCapturing,
         Reuse, Adopt, Exit, Verdict, Measure, Finish
  <2>2. ~ListenStep(c)
    BY <1>1, <1>2 DEF ListenStep, ListenRow, ListenMark, ListenRead, ListenDone
  <2> QED BY <1>1, <2>1, <2>2 DEF Record, Reclaim, SpawnFails, Hang, FinalizeThrows, Stall, Owes
<1>4. ASSUME NEW v \in Videos
      PROVE  ~(ProbeStep(v) \/ ProbeThrows(v))
  BY <1>1, <1>2 DEF ProbeStep, ProbePickUp, ProbeStall, Look, List, Sweep, ReadVideo, Guard,
         CreateLiveCandidate, Promote, FindSession, OpenSession, FindCapture, CreateCapture,
         AddCapture, ProbeThrows
<1> QED BY <1>3, <1>4

LEMMA NextLists ==
  LiveInv /\ RecorderInv /\ OrphansListed /\ [Next]_vars => OrphansListed'
<1> SUFFICES ASSUME LiveInv, RecorderInv, OrphansListed, [Next]_vars PROVE OrphansListed'
  OBVIOUS
<1>1. CASE phase' # "sessions"
  BY <1>1 DEF OrphansListed
<1>2. CASE phase # "sessions" /\ phase' = "sessions"
  <2>1. BootSessions
    BY <1>2, PhaseSteps
       DEF Drain, Drained, Crash, LoseMemory, BootRows, BootSweep, BootClose
  <2>2. script[Boot] = <<>>
    BY <2>1 DEF BootSessions, RecorderInv, BootAlone
  <2>3. script'[Boot] \in Seq(BootOps)
    BY <2>1, <2>2 DEF BootSessions
  <2>4. ASSUME NEW s \in Orphans PROVE \E o \in sessTodo' : o[1] = s
    <3>1. sessTodo' = {<<t, copyState[sessVideo[t]]>> : t \in Orphans}
      BY <2>1 DEF BootSessions
    <3>2. <<s, copyState[sessVideo[s]]>> \in sessTodo'
      BY <3>1
    <3> QED BY <3>2
  <2>5. \A s \in Sessions : sessState'[s] \in ActiveSession /\ ActiveCaptures(sessVideo[s])' = {}
           => s \in Orphans
    BY <2>1 DEF BootSessions, Orphans, ActiveCaptures
  <2> QED BY <2>1, <2>3, <2>4, <2>5 DEF OrphansListed, BootOps, BootSessions
<1>3. CASE phase = "sessions" /\ phase' = "sessions"
  <2>1. ASSUME NEW v \in Videos, Remeasure(v)
        PROVE  OrphansListed'
    <3>1. UNCHANGED BootView
      BY <2>1, ActorsAre DEF Remeasure, BootView, LiveInv, ScriptsSafe, Check, Boot
    <3>2. faults'["db"] = faults["db"]
      BY <2>1, MeasureCounted DEF Remeasure, LiveInv, Types, FaultKinds
    <3> QED BY <1>3, <3>1, <3>2, UnseenKeepsList
  <2>2. ASSUME NEW a \in Actors, Write(a) \/ WriteSwallowed(a)
        PROVE  OrphansListed'
    BY <1>3, <2>2, BootWriteLists, OtherWriteLists
  <2>3. \A v \in Videos : Check(v) \in Actors
    BY ActorsAre
  <2>4. Boot \in Actors
    BY ActorsAre
  <2>5. CASE \/ \E c \in Captures : CancelCapture(c)
             \/ \E v \in Videos : \/ ScanRow(v) \/ ScanAdd(v) \/ Recheck(v) \/ CheckDone(v)
                                  \/ Deadline(v) \/ Enumerate(v) \/ EnqueueRead(v)
                                  \/ ArchiveStep(v) \/ AirStart(v) \/ AirMore(v) \/ AirEnd(v)
    <3>1. UNCHANGED BootView /\ (faults'["db"] = 0 => faults["db"] = 0)
      BY <2>5, OthersStay DEF BootView
    <3> QED BY <1>3, <3>1, UnseenKeepsList
  <2>6. CASE BootStep
    <3>1. BootSession \/ Write(Boot)
      BY <1>3, <2>6 DEF BootStep, BootRows, BootRow, BootSessions, BootSweep, BootClose
    <3> QED BY <2>2, <2>4, <3>1, BootSessionLists
  <2>7. CASE UNCHANGED vars
    BY <1>3, <2>7, UnseenKeepsList DEF vars, BootView
  <2>8. ~(Drain \/ Drained \/ Crash)
    BY <1>3 DEF Drain, Drained, Crash, LoseMemory
  <2> QED BY <1>3, <2>1, <2>2, <2>3, <2>5, <2>6, <2>7, <2>8, NobodyAtWork DEF Next, CheckStep
<1> QED BY <1>1, <1>2, <1>3

\* A boot that is through with the orphans has settled every one it listed.
THEOREM BootFreesSessionsHolds == Spec => BootFreesSessions
<1>1. Init => OrphansListed
  BY DEF Init, OrphansListed
<1>2. LiveInv /\ RecorderInv /\ OrphansListed /\ [Next]_vars =>
        (phase = "sessions" /\ phase' = "sweep" /\ faults["db"] = 0 =>
           \A v \in Videos : ActiveSessions(v) # {} => ActiveCaptures(v) # {})
  <2> SUFFICES ASSUME OrphansListed, [Next]_vars, phase = "sessions", phase' = "sweep",
                      faults["db"] = 0, NEW v \in Videos, NEW s \in ActiveSessions(v)
               PROVE  ActiveCaptures(v) # {}
    OBVIOUS
  <2>1. BootSweep
    BY PhaseSteps DEF Drain, Drained, Crash, LoseMemory, BootRows, BootSessions, BootClose
  <2>2. sessTodo = {} /\ script[Boot] = <<>>
    BY <2>1 DEF BootSweep
  <2>3. s \in Sessions /\ sessVideo[s] = v /\ sessState[s] \in ActiveSession
    BY DEF ActiveSessions
  <2> QED BY <2>2, <2>3 DEF OrphansListed, SettlementOwed
<1> QED BY <1>1, <1>2, RecorderInvariance, NextLists, PTL DEF Spec, BootFreesSessions
-----------------------------------------------------------------------------
\* Recordings that go to verification

\* No download, no lost lock and no length without a status.
Undownloaded == faults["enqueue"] = 0 /\ faults["lock"] = 0 /\ faults["unlabelled"] = 0
\* The states a recording is handed over in, and a recording of the whole broadcast.
Handed == {"VERIFYING", "AWAITING_VERIFY"}
Whole(v) == air[v] = "ended" /\ WithinTolerance(media[v], aired[v])

\* Nothing is downloaded, and what is being verified is whole.
NoDownload == \A v \in Videos : dlRow[v] = "none" /\ epc[v] = "idle"
VerifyingWhole == \A v \in Videos : copyState[v] = "VERIFYING" => Whole(v)

\* Who hands a recording over writes that first: the execution that recorded
\* it, its row still RUNNING, or the re-check of a parked one.
HandedBy(a, o) ==
    /\ \/ \E c \in Captures : a = Run(c) /\ capVideo[c] = o.on /\ capStatus[c] = "RUNNING"
       \/ a = Check(o.on) /\ copyState[o.on] = "AWAITING_VERIFY"
    /\ o.to = "VERIFYING" => Whole(o.on)
HandedWell(a, i) ==
    LET o == script[a][i] IN
    /\ o.to \in Handed => i = 1 /\ HandedBy(a, o)
    /\ o.from = "AWAITING_VERIFY" =>
          i = 1 /\ a = Check(o.on) /\ copyState[o.on] = "AWAITING_VERIFY"
HandedFirst == \A a \in Actors : \A i \in 1..Len(script[a]) : HandedWell(a, i)
ParkedMeasured ==
    \A v \in Videos :
        /\ kpc[v] = "measure" => copyState[v] = "AWAITING_VERIFY"
        /\ kpc[v] # "settle" => script[Check(v)] = <<>>

\* Nobody records, publishes or closes out what was handed over.
RecordersApart ==
    \A c \in Captures :
        cpc[c] \in ClaimSteps =>
            copyState[capVideo[c]] \notin Handed \/ (cpc[c] = "begin" /\ cseen[c] \in Handed)
Sweeps(a, v) == (a = Probe(v) /\ ppc[v] = "sweep") \/ (a = Boot /\ phase = "sweep")
PublishedWell(a, i) ==
    LET o == script[a][i] IN
    o.op = "publish" =>
        /\ Sweeps(a, o.on) /\ ActiveCaptures(o.on) = {}
        /\ \/ i = 1 /\ copyState[o.on] \notin Handed
           \/ i = 2 /\ script[a][1] = Gate(o.on, "QUEUED", "DOWNLOADING")
SweepersApart ==
    \A a \in Actors :
        /\ \A v \in sweepTodo[a] : Sweeps(a, v) /\ ActiveCaptures(v) = {}
        /\ \A i \in 1..Len(script[a]) : PublishedWell(a, i)
OrphansApart ==
    \A o \in sessTodo :
        phase = "sessions" /\ (o[2] = "DOWNLOADING" => copyState[sessVideo[o[1]]] \notin Handed)

\* The parts about one actor, and all of them.
ListWell(a) == \A i \in 1..Len(script[a]) : HandedWell(a, i) /\ PublishedWell(a, i)
TodoWell(a) == \A v \in sweepTodo[a] : Sweeps(a, v) /\ ActiveCaptures(v) = {}
WholeParts ==
    /\ NoDownload /\ VerifyingWhole /\ HandedFirst /\ ParkedMeasured
    /\ RecordersApart /\ SweepersApart /\ OrphansApart
WholeInv == Undownloaded => WholeParts

\* The writes that hand nothing over and publish nothing.
PlainOps == {o \in Ops : o.to \notin Handed /\ o.from # "AWAITING_VERIFY" /\ o.op # "publish"}

LEMMA PlainElements ==
  ASSUME NEW p \in Seq(PlainOps)
  PROVE  \A i \in 1..Len(p) : /\ p[i].to \notin Handed /\ p[i].from # "AWAITING_VERIFY"
                              /\ p[i].op # "publish"
<1>1. \A i \in 1..Len(p) : p[i] \in PlainOps
  OBVIOUS
<1> QED BY <1>1 DEF PlainOps

LEMMA PlainHops ==
  ASSUME NEW v \in Videos, NEW from, NEW to, <<from, to>> \in Lifecycle!CopyEdges,
         to \notin Handed, from # "AWAITING_VERIFY"
  PROVE  Hop(v, from, to) \in PlainOps /\ Gate(v, from, to) \in PlainOps
BY HopIsOp DEF PlainOps, Hop, Gate

LEMMA PlainSettle ==
  ASSUME NEW s \in Sessions \cup {NoSession}, NEW from \in {"active", "pending"},
         NEW to \in {"ENDED_NORMAL", "ENDED_INTERRUPTED", "ENDED_PENDING", "FAILED"}
  PROVE  Settle(s, from, to) \in PlainOps
<1>1. Settle(s, from, to) \in Ops
  BY SettleIsOp
<1> QED BY <1>1 DEF PlainOps, Settle, Handed

LEMMA PlainRow ==
  ASSUME NEW c \in Captures, NEW to \in {"QUEUED", "COMPLETED", "FAILED", "CANCELED"}
  PROVE  Row(c, to) \in PlainOps /\ <<Row(c, to)>> \in Seq(PlainOps)
<1>1. Row(c, to) \in PlainOps
  BY RowIsOp DEF PlainOps, Row, Handed
<1> QED BY <1>1, Listed

\* The finalizers that keep a recording out of verification are plain.
LEMMA FinalizersPlain ==
  ASSUME NEW v \in Videos, NEW s \in Sessions \cup {NoSession}
  PROVE  /\ FinalizeInterrupted(s, v) \in Seq(PlainOps)
         /\ \A to \in {"FAILED", "CANDIDATE"} : FinalizeEmpty(s, v, to) \in Seq(PlainOps)
         /\ SettleForRecapture(s, v) \in Seq(PlainOps)
<1>1. /\ Hop(v, "DOWNLOADING", "PARTIAL_KEPT") \in PlainOps
      /\ Hop(v, "DOWNLOADING", "QUEUED") \in PlainOps
      /\ \A to \in {"FAILED", "CANDIDATE"} : Hop(v, "DOWNLOADING", to) \in PlainOps
  BY PlainHops DEF Lifecycle!CopyEdges, Handed
<1>2. \A to \in {"ENDED_INTERRUPTED", "FAILED"} : Settle(s, "active", to) \in PlainOps
  BY PlainSettle
<1> HIDE DEF PlainOps
<1>3. FinalizeInterrupted(s, v) \in Seq(PlainOps) /\ SettleForRecapture(s, v) \in Seq(PlainOps)
  BY <1>1, <1>2, Listed DEF FinalizeInterrupted, SettleForRecapture
<1>4. ASSUME NEW to \in {"FAILED", "CANDIDATE"} PROVE FinalizeEmpty(s, v, to) \in Seq(PlainOps)
  BY <1>1, <1>2, Listed DEF FinalizeEmpty
<1> QED BY <1>3, <1>4

\* A video whose handing over is owed.
Handing(v) == \E a \in Actors : \E i \in 1..Len(script[a]) :
                 script[a][i].to \in Handed /\ script[a][i].on = v

\* Such a write, and a publication, is of a video.
LEMMA HandedOn ==
  ASSUME ScriptsSafe, NEW a \in Actors, NEW i \in 1..Len(script[a])
  PROVE  LET o == script[a][i] IN
         o.to \in Handed \/ o.from = "AWAITING_VERIFY" \/ o.op = "publish" => o.on \in Videos
<1>1. script[a] \in Seq(SafeOps)
  BY DEF ScriptsSafe
<1>2. script[a][i] \in SafeOps
  BY <1>1
<1> QED BY <1>2 DEF SafeOps, Ops, HopOps, SessionOps, RowOps, VideoOps, Handed

\* A list that stays or turns plain hands over what it did, if what it goes by stays.
LEMMA HandedStays ==
  ASSUME ScriptsSafe, HandedFirst,
         \A a \in Actors :
            script'[a] = script[a] \/ script'[a] \in Seq(PlainOps) \/ ListWell(a)',
         \A c \in Captures :
            script[Run(c)] # <<>> /\ script'[Run(c)] = script[Run(c)] /\ capStatus[c] = "RUNNING"
               => capStatus'[c] = "RUNNING" /\ capVideo'[c] = capVideo[c],
         \A v \in Videos :
            copyState[v] = "AWAITING_VERIFY" /\ script[Check(v)] # <<>>
            /\ script'[Check(v)] = script[Check(v)] => copyState'[v] = "AWAITING_VERIFY",
         \A v \in Videos : Whole(v) /\ Handing(v) => Whole(v)'
  PROVE  HandedFirst'
<1> SUFFICES ASSUME NEW a \in Actors, NEW i \in 1..Len(script'[a])
             PROVE  HandedWell(a, i)'
  BY DEF HandedFirst
<1>1. CASE script'[a] \in Seq(PlainOps)
  BY <1>1, PlainElements DEF HandedWell, Handed
<1>2. CASE script'[a] = script[a]
  <2>1. i \in 1..Len(script[a]) /\ script[a] # <<>> /\ HandedWell(a, i)
    BY <1>2 DEF HandedFirst
  <2>2. PICK o : o = script[a][i] /\ o = script'[a][i]
    BY <1>2
  <2>3. o.to \in Handed \/ o.from = "AWAITING_VERIFY" => o.on \in Videos
    BY <2>1, <2>2, HandedOn
  <2>4. o.from = "AWAITING_VERIFY" =>
            i = 1 /\ a = Check(o.on) /\ copyState'[o.on] = "AWAITING_VERIFY"
    BY <1>2, <2>1, <2>2, <2>3 DEF HandedWell
  <2>5. ASSUME o.to \in Handed PROVE i = 1 /\ HandedBy(a, o)'
    <3>1. i = 1 /\ HandedBy(a, o) /\ Handing(o.on)
      BY <2>1, <2>2, <2>5 DEF HandedWell, Handing
    <3> QED BY <1>2, <2>1, <2>3, <2>5, <3>1 DEF HandedBy
  <2> QED BY <2>2, <2>4, <2>5 DEF HandedWell, HandedBy, Handed, Whole, WithinTolerance
<1>3. CASE ListWell(a)'
  BY <1>3 DEF ListWell
<1> QED BY <1>1, <1>2, <1>3

\* Sweepers keep their videos to themselves.
LEMMA SweepersStay ==
  ASSUME ScriptsSafe, ProbeTypes, SweepersApart,
         \A a \in Actors : /\ sweepTodo'[a] \subseteq sweepTodo[a] \/ TodoWell(a)'
                           /\ script'[a] = script[a] \/ script'[a] \in Seq(PlainOps) \/ ListWell(a)',
         \A v \in Videos : ActiveCaptures(v)' \subseteq ActiveCaptures(v)
                           \/ (ppc[v] # "sweep" /\ phase # "sweep"),
         \A v \in Videos :
            copyState'[v] \in Handed => copyState[v] \in Handed \/ ActiveCaptures(v) # {},
         \A a \in Actors : \A v \in Videos :
            Sweeps(a, v) => Sweeps(a, v)' \/ (sweepTodo'[a] = {} /\ script'[a] \in Seq(PlainOps))
  PROVE  SweepersApart'
<1> SUFFICES ASSUME NEW a \in Actors
             PROVE  TodoWell(a)' /\ \A i \in 1..Len(script'[a]) : PublishedWell(a, i)'
  BY DEF SweepersApart, TodoWell
<1>1. \A v : Sweeps(a, v) => ppc[v] = "sweep" \/ phase = "sweep"
  BY DEF Sweeps
<1>2. TodoWell(a)'
  BY <1>1 DEF SweepersApart, ProbeTypes, TodoWell
<1>3. CASE script'[a] \in Seq(PlainOps)
  BY <1>2, <1>3, PlainElements DEF PublishedWell
<1>4. CASE script'[a] = script[a] /\ script'[a] \notin Seq(PlainOps)
  <2>1. ASSUME NEW i \in 1..Len(script'[a]) PROVE PublishedWell(a, i)'
    <3>1. PublishedWell(a, i)
      BY <1>4 DEF SweepersApart
    <3>2. PICK w : w = script[a][i].on /\ w = script'[a][i].on
      BY <1>4
    <3>3. script[a][i].op = "publish" => w \in Videos
      BY <1>4, <3>2, HandedOn
    <3>4. script[a][i].op = "publish" => Sweeps(a, w)' /\ ActiveCaptures(w)' = {}
      BY <1>1, <1>4, <3>1, <3>2, <3>3 DEF PublishedWell
    <3>5. script[a][i].op = "publish" /\ copyState[w] \notin Handed => copyState'[w] \notin Handed
      BY <3>1, <3>2, <3>3 DEF PublishedWell
    <3> QED BY <1>4, <3>1, <3>2, <3>3, <3>4, <3>5 DEF PublishedWell, Sweeps, ActiveCaptures
  <2> QED BY <1>2, <2>1
<1>5. CASE ListWell(a)'
  BY <1>2, <1>5 DEF ListWell
<1> QED BY <1>3, <1>4, <1>5

\* A recorder that goes on with a video that is not handed over stays apart.
LEMMA RecordersStay ==
  ASSUME LiveInv, RecordersApart,
         \A v \in Videos : copyState'[v] \in Handed => copyState[v] \in Handed,
         \A c \in Captures : cpc'[c] \in ClaimSteps =>
            /\ cpc[c] \in ClaimSteps /\ capVideo'[c] = capVideo[c]
            /\ cpc[c] = "begin" /\ cseen[c] \in Handed => cpc'[c] = "begin" /\ cseen'[c] = cseen[c]
  PROVE  RecordersApart'
<1>1. \A c \in Captures : cpc[c] \in ClaimSteps => capVideo[c] \in Videos
  BY DEF LiveInv, RowsLinked, IsLive, ClaimSteps
<1> QED BY <1>1 DEF RecordersApart, Handed

\* What a step must see to, to keep the parts.
LEMMA PartsKept ==
  ASSUME LiveInv, WholeParts, NoDownload', ParkedMeasured', RecordersApart', OrphansApart',
         \A v \in Videos :
            /\ copyState'[v] = "VERIFYING" => copyState[v] = "VERIFYING" \/ Whole(v)'
            /\ copyState'[v] \in Handed => copyState[v] \in Handed \/ ActiveCaptures(v) # {}
            /\ copyState[v] = "AWAITING_VERIFY" /\ script[Check(v)] # <<>>
               /\ script'[Check(v)] = script[Check(v)] => copyState'[v] = "AWAITING_VERIFY"
            /\ Whole(v) => Whole(v)' \/ (copyState[v] \notin Handed /\ ~Handing(v)),
         \A c \in Captures :
            script[Run(c)] # <<>> /\ script'[Run(c)] = script[Run(c)] /\ capStatus[c] = "RUNNING"
               => capStatus'[c] = "RUNNING" /\ capVideo'[c] = capVideo[c],
         \A a \in Actors : /\ sweepTodo'[a] \subseteq sweepTodo[a] \/ TodoWell(a)'
                           /\ script'[a] = script[a] \/ script'[a] \in Seq(PlainOps) \/ ListWell(a)',
         \A v \in Videos : ActiveCaptures(v)' \subseteq ActiveCaptures(v)
                           \/ (ppc[v] # "sweep" /\ phase # "sweep"),
         \A a \in Actors : \A v \in Videos :
            Sweeps(a, v) => Sweeps(a, v)' \/ (sweepTodo'[a] = {} /\ script'[a] \in Seq(PlainOps))
  PROVE  WholeParts'
<1>1. VerifyingWhole'
  BY DEF WholeParts, VerifyingWhole, Handed
<1>2. HandedFirst'
  <2>1. /\ \A v \in Videos : Whole(v) /\ Handing(v) => Whole(v)'
        /\ \A v \in Videos :
              copyState[v] = "AWAITING_VERIFY" /\ script[Check(v)] # <<>>
              /\ script'[Check(v)] = script[Check(v)] => copyState'[v] = "AWAITING_VERIFY"
        /\ \A a \in Actors :
              script'[a] = script[a] \/ script'[a] \in Seq(PlainOps) \/ ListWell(a)'
    OBVIOUS
  <2> QED BY <2>1, HandedStays DEF WholeParts, LiveInv
<1>3. SweepersApart'
  <2>1. \A v \in Videos :
           copyState'[v] \in Handed => copyState[v] \in Handed \/ ActiveCaptures(v) # {}
    OBVIOUS
  <2> QED BY <2>1, SweepersStay DEF WholeParts, LiveInv, Types
<1> QED BY <1>1, <1>2, <1>3 DEF WholeParts

\* A step that hands nothing over and takes nothing up again does.
LEMMA PartsStay ==
  ASSUME LiveInv, WholeParts, UNCHANGED <<dlRow, epc>>,
         \A v \in Videos : /\ copyState'[v] \in Handed => copyState'[v] = copyState[v]
                           /\ copyState[v] = "AWAITING_VERIFY" => copyState'[v] = copyState[v],
         \A v \in Videos : Whole(v) => Whole(v)' \/ (copyState[v] \notin Handed /\ ~Handing(v)),
         \A a \in Actors : /\ sweepTodo'[a] \subseteq sweepTodo[a] \/ TodoWell(a)'
                           /\ script'[a] = script[a] \/ script'[a] \in Seq(PlainOps) \/ ListWell(a)',
         \A c \in Captures :
            script[Run(c)] # <<>> /\ script'[Run(c)] = script[Run(c)] /\ capStatus[c] = "RUNNING"
               => capStatus'[c] = "RUNNING" /\ capVideo'[c] = capVideo[c],
         UNCHANGED kpc, \A v \in Videos : script'[Check(v)] = script[Check(v)],
         RecordersApart',
         \A v \in Videos : ActiveCaptures(v)' \subseteq ActiveCaptures(v)
                           \/ (ppc[v] # "sweep" /\ phase # "sweep"),
         \A a \in Actors : \A v \in Videos :
            Sweeps(a, v) => Sweeps(a, v)' \/ (sweepTodo'[a] = {} /\ script'[a] \in Seq(PlainOps)),
         \A o \in sessTodo' : o \in sessTodo /\ phase' = phase /\ sessVideo' = sessVideo
  PROVE  WholeParts'
<1>1. NoDownload' /\ ParkedMeasured'
  BY DEF WholeParts, NoDownload, ParkedMeasured
<1>2. OrphansApart'
  <2>1. \A o \in sessTodo : sessVideo[o[1]] \in Videos
    BY DEF LiveInv, RowsLinked, IsLive
  <2> QED BY <2>1 DEF WholeParts, OrphansApart
<1>3. \A v \in Videos :
         /\ copyState'[v] = "VERIFYING" => copyState[v] = "VERIFYING" \/ Whole(v)'
         /\ copyState'[v] \in Handed => copyState[v] \in Handed \/ ActiveCaptures(v) # {}
         /\ copyState[v] = "AWAITING_VERIFY" /\ script[Check(v)] # <<>>
            /\ script'[Check(v)] = script[Check(v)] => copyState'[v] = "AWAITING_VERIFY"
         /\ Whole(v) => Whole(v)' \/ (copyState[v] \notin Handed /\ ~Handing(v))
  BY DEF Handed
<1> QED BY <1>1, <1>2, <1>3, PartsKept

\* A write list that only its actor, no re-check, replaces by a plain one.
LEMMA OwesPlainly ==
  ASSUME ScriptsSafe, NEW a \in Actors, \A v \in Videos : a # Check(v),
         UNCHANGED script \/ \E ops \in Seq(PlainOps) : Owe(a, ops)
  PROVE  /\ \A b \in Actors : script'[b] = script[b] \/ script'[b] \in Seq(PlainOps)
         /\ \A b \in Actors : b # a => script'[b] = script[b]
         /\ \A v \in Videos : script'[Check(v)] = script[Check(v)]
<1>1. /\ \A b \in Actors : script'[b] = script[b] \/ script'[b] \in Seq(PlainOps)
      /\ \A b \in Actors : b # a => script'[b] = script[b]
  BY DEF ScriptsSafe, Owe
<1> QED BY <1>1, ActorsAre

\* An execution that owes its row and settles a session hands nothing over.
LEMMA RunOwesPlain ==
  ASSUME LiveInv, NEW c \in Captures, cpc[c] # "idle",
         NEW to \in {"QUEUED", "COMPLETED", "FAILED", "CANCELED"}
  PROVE  LET v == capVideo[c]
             s == csess[c]
         IN  /\ <<Row(c, to)>> \in Seq(PlainOps)
             /\ <<Row(c, to)>> \o SettleForRecapture(s, v) \in Seq(PlainOps)
             /\ <<Row(c, to)>> \o FinalizeEmpty(s, v, "FAILED") \in Seq(PlainOps)
             /\ FinalizeInterrupted(s, v) \o <<Row(c, to)>> \in Seq(PlainOps)
             /\ FinalizeEmpty(s, v, "FAILED") \o <<Row(c, to)>> \in Seq(PlainOps)
             /\ FinalizeEmpty(s, v, "CANDIDATE") \o <<Row(c, to)>> \in Seq(PlainOps)
<1>1. capVideo[c] \in Videos /\ csess[c] \in Sessions \cup {NoSession}
  BY DEF LiveInv, Types, CaptureTypes, RowsLinked, IsLive
<1>2. <<Row(c, to)>> \in Seq(PlainOps)
  BY PlainRow
<1> QED BY <1>1, <1>2, FinalizersPlain, ListsJoined

\* What leaves disk, sweepers and sessions to settle alone, and lets a video go
\* no further than to be recorded.
LEMMA ExecutionParts ==
  ASSUME LiveInv, RecorderInv, WholeParts, NEW c \in Captures, phase = "up" \/ cpc[c] # "idle",
         UNCHANGED <<dlRow, epc, air, aired, media, kpc, ppc, phase, sweepTodo, sessTodo, capVideo>>,
         \A v \in Videos : /\ copyState'[v] \in Handed => copyState'[v] = copyState[v]
                           /\ copyState[v] = "AWAITING_VERIFY" => copyState'[v] = copyState[v],
         UNCHANGED capStatus
         \/ (capStatus[c] = "QUEUED" /\ capStatus' = [capStatus EXCEPT ![c] = "RUNNING"]),
         UNCHANGED script \/ \E ops \in Seq(PlainOps) : Owe(Run(c), ops),
         RecordersApart'
  PROVE  WholeParts'
<1>1. /\ \A b \in Actors : script'[b] = script[b] \/ script'[b] \in Seq(PlainOps)
      /\ \A v \in Videos : script'[Check(v)] = script[Check(v)]
  <2>1. Run(c) \in Actors /\ \A v \in Videos : Run(c) # Check(v)
    BY ActorsAre DEF Run, Check
  <2> QED BY <2>1, OwesPlainly DEF LiveInv
<1>2. capStatus \in [Captures -> CaptureStatuses]
  BY DEF LiveInv, Types, RowTypes
<1>3. \A v \in Videos : ActiveCaptures(v)' = ActiveCaptures(v)
  BY <1>2 DEF ActiveCaptures
<1>4. \A d \in Captures : capStatus[d] = "RUNNING" => capStatus'[d] = "RUNNING"
  BY <1>2
<1>5. \A v : Whole(v)' = Whole(v)
  BY DEF Whole, WithinTolerance
<1>6. \A a, v : Sweeps(a, v)' = Sweeps(a, v)
  BY DEF Sweeps
<1>7. sessTodo' = {}
  BY DEF RecorderInv, BootAlone, WholeParts, OrphansApart
<1> QED BY <1>1, <1>3, <1>4, <1>5, <1>6, <1>7, PartsStay

\* From its claim to the end of the recording an execution hands nothing over.
LEMMA BeginParts ==
  ASSUME LiveInv, RecorderInv, WholeParts, NEW c \in Captures, Begin(c) \/ Reread(c)
  PROVE  WholeParts'
<1>1. cpc[c] \in {"begin", "reread"} /\ cpc[c] \in ClaimSteps /\ capVideo[c] \in Videos
  BY DEF Begin, Reread, ClaimSteps, LiveInv, RowsLinked, IsLive
<1>2. UNCHANGED <<dlRow, epc, air, aired, media, kpc, ppc, phase, sweepTodo, sessTodo, sessVideo,
                  capVars, cseen>>
  BY DEF Begin, Reread
<1>3. UNCHANGED script \/ \E ops \in Seq(PlainOps) : Owe(Run(c), ops)
  BY <1>1, RunOwesPlain DEF Begin, Reread, FailNotCapturable
<1>4. /\ cpc \in [Captures -> CaptureSteps] /\ copyState \in [Videos -> CopyStates]
  BY DEF LiveInv, Types, CaptureTypes, RowTypes
<1>5. \A v \in Videos : copyState'[v] = copyState[v]
                        \/ (copyState[v] = "QUEUED" /\ copyState'[v] = "DOWNLOADING")
  BY <1>4 DEF Begin, Reread, TransitionCopy
<1>6. /\ \E step \in CaptureSteps : cpc' = [cpc EXCEPT ![c] = step]
      /\ cpc'[c] \notin {"begin", "settle"} =>
            copyState[capVideo[c]] \notin Handed
  <2>1. CASE Begin(c)
    <3>1. cseen[c] \in {"QUEUED", "DOWNLOADING"} => copyState[capVideo[c]] \notin Handed
      BY <1>1, <2>1 DEF WholeParts, RecordersApart, Begin, Handed
    <3> QED BY <1>4, <2>1, <3>1 DEF Begin, Goto
  <2>2. CASE Reread(c)
    BY <1>4, <2>2 DEF Reread, Goto, Handed
  <2> QED BY <2>1, <2>2
<1>7. cpc'[c] # "begin"
  BY <1>4 DEF Begin, Reread, Goto
<1>8. RecordersApart'
  <2> SUFFICES ASSUME NEW d \in Captures, cpc'[d] \in ClaimSteps
               PROVE  copyState'[capVideo[d]] \notin Handed \/ (cpc'[d] = "begin" /\ cseen[d] \in Handed)
    BY <1>2 DEF RecordersApart
  <2>1. CASE d = c
    BY <1>1, <1>5, <1>6, <1>7, <2>1 DEF ClaimSteps, Handed
  <2>2. CASE d # c
    <3>1. cpc'[d] = cpc[d]
      BY <1>4, <1>6, <2>2
    <3>2. capVideo[d] \in Videos
      BY <3>1 DEF LiveInv, RowsLinked, IsLive, ClaimSteps
    <3> QED BY <1>5, <3>1, <3>2 DEF WholeParts, RecordersApart, Handed
  <2> QED BY <2>1, <2>2
<1> QED BY <1>1, <1>2, <1>3, <1>5, <1>8, ExecutionParts DEF Handed

LEMMA CourseParts ==
  ASSUME LiveInv, RecorderInv, WholeParts, NEW c \in Captures,
         \/ PickUp(c) \/ Load(c) \/ Prepare(c) \/ MarkSessionCapturing(c) \/ Reuse(c) \/ Adopt(c)
         \/ SpawnFails(c) \/ Exit(c) \/ Hang(c) \/ FinalizeThrows(c) \/ Finish(c)
  PROVE  WholeParts'
<1>1. /\ cpc \in [Captures -> CaptureSteps] /\ cseen \in [Captures -> CopyStates]
      /\ capStatus \in [Captures -> CaptureStatuses]
  BY DEF LiveInv, Types, CaptureTypes, RowTypes
<1>2. UNCHANGED <<dlRow, epc, air, aired, media, kpc, ppc, phase, sweepTodo, sessTodo, capVideo,
                  copyState>>
  BY DEF PickUp, Load, Prepare, MarkSessionCapturing, Reuse, Adopt, SpawnFails, Exit, Hang,
         FinalizeThrows, Finish, PreservePriorAttempt
<1>3. phase = "up" \/ cpc[c] # "idle"
  BY DEF PickUp, Load, Prepare, MarkSessionCapturing, Reuse, Adopt, SpawnFails, Exit, Hang,
         FinalizeThrows, Finish, Owes, RecorderInv, SettleOwes
<1>4. \/ UNCHANGED capStatus
      \/ capStatus[c] = "QUEUED" /\ capStatus' = [capStatus EXCEPT ![c] = "RUNNING"]
  BY DEF PickUp, Load, Prepare, MarkSessionCapturing, Reuse, Adopt, SpawnFails, Exit, Hang,
         FinalizeThrows, Finish
<1>5. UNCHANGED script \/ \E ops \in Seq(PlainOps) : Owe(Run(c), ops)
  <2>1. CASE SpawnFails(c)
    BY <2>1, RunOwesPlain DEF SpawnFails
  <2>2. CASE FinalizeThrows(c)
    BY <2>2, PlainRow DEF FinalizeThrows
  <2> QED BY <2>1, <2>2 DEF PickUp, Load, Prepare, MarkSessionCapturing, Reuse, Adopt, Exit, Hang,
         Finish
<1>6. \A d \in Captures : d # c => cpc'[d] = cpc[d] /\ cseen'[d] = cseen[d]
  BY <1>1 DEF PickUp, Load, Prepare, MarkSessionCapturing, Reuse, Adopt, SpawnFails, Exit, Hang,
         FinalizeThrows, Finish, Goto, Leave
<1>7. cpc'[c] \in ClaimSteps =>
         /\ cpc'[c] # "begin" => cpc[c] \in ClaimSteps /\ cpc[c] # "begin"
         /\ cpc'[c] = "begin" => cseen'[c] = copyState[capVideo[c]]
  <2>1. CASE PickUp(c) \/ Load(c) \/ Reuse(c) \/ Finish(c)
    BY <1>1, <2>1 DEF PickUp, Load, Reuse, Finish, Goto, Leave, ClaimSteps
  <2>2. CASE FinalizeThrows(c)
    <3>1. cpc'[c] = "settle"
      BY <2>2 DEF FinalizeThrows, Owes, RecorderInv, SettleOwes
    <3> QED BY <3>1 DEF ClaimSteps
  <2>3. CASE \/ Prepare(c) \/ MarkSessionCapturing(c) \/ Adopt(c) \/ SpawnFails(c) \/ Exit(c)
             \/ Hang(c)
    BY <1>1, <2>3 DEF Prepare, MarkSessionCapturing, Adopt, SpawnFails, Exit, Hang, Goto, ClaimSteps
  <2> QED BY <2>1, <2>2, <2>3
<1>8. RecordersApart'
  <2> SUFFICES ASSUME NEW d \in Captures, cpc'[d] \in ClaimSteps
               PROVE  copyState[capVideo[d]] \notin Handed \/ (cpc'[d] = "begin" /\ cseen'[d] \in Handed)
    BY <1>2 DEF RecordersApart
  <2> QED BY <1>6, <1>7 DEF WholeParts, RecordersApart
<1> QED BY <1>2, <1>3, <1>4, <1>5, <1>8, ExecutionParts

\* A recording is published while the row of its execution is RUNNING: nobody
\* else has one of the broadcast, and nothing of it is handed over yet.
LEMMA VerdictParts ==
  ASSUME LiveInv, RecorderInv, WholeParts, faults["lock"] = 0, NEW c \in Captures, Verdict(c)
  PROVE  WholeParts'
<1> DEFINE v == capVideo[c]
<1>1. /\ cpc[c] \in {"exited", "hung"} /\ cpc[c] \in ClaimSteps /\ v \in Videos
      /\ cpc' = [cpc EXCEPT ![c] = "measure"] \/ cpc' = [cpc EXCEPT ![c] = "settle"]
  BY DEF Verdict, AbortForShutdown, AbortForCancel, Stalled, FinalizeExit, Goto, ClaimSteps,
         LiveInv, RowsLinked, IsLive
<1>2. UNCHANGED <<copyState, dlRow, epc, air, aired, kpc, ppc, phase, sweepTodo, sessTodo, sessVideo,
                  capVars, cseen>>
  BY DEF Verdict
<1>3. UNCHANGED script \/ \E ops \in Seq(PlainOps) : Owe(Run(c), ops)
  BY <1>1, RunOwesPlain DEF Verdict, AbortForShutdown, AbortForCancel, Stalled, FinalizeExit
<1>4. copyState[v] \notin Handed /\ capStatus[c] = "RUNNING" /\ script[Run(c)] = <<>>
  BY <1>1 DEF WholeParts, RecordersApart, RecorderInv, ClaimsKept, SettleOwes
<1>5. ~Handing(v)
  <2> SUFFICES ASSUME NEW a \in Actors, NEW i \in 1..Len(script[a]), script[a][i].to \in Handed,
                      script[a][i].on = v
               PROVE  FALSE
    BY DEF Handing
  <2>1. HandedBy(a, script[a][i]) /\ i = 1
    BY DEF WholeParts, HandedFirst, HandedWell
  <2>2. copyState[v] # "AWAITING_VERIFY"
    BY <1>4 DEF Handed
  <2>3. PICK d \in Captures : a = Run(d) /\ capVideo[d] = v /\ capStatus[d] = "RUNNING"
    BY <2>1, <2>2 DEF HandedBy
  <2>4. d = c
    BY <1>4, <2>3 DEF RecorderInv, OneActiveCapture
  <2> QED BY <1>4, <2>3, <2>4
<1>6. \A w \in Videos : w # v => media'[w] = media[w]
  BY DEF Verdict, AbortForShutdown, AbortForCancel, Stalled, FinalizeExit, Publish, LiveInv, Types,
         DiskTypes
<1>7. /\ \A b \in Actors : script'[b] = script[b] \/ script'[b] \in Seq(PlainOps)
      /\ \A w \in Videos : script'[Check(w)] = script[Check(w)]
  <2>1. Run(c) \in Actors /\ \A w \in Videos : Run(c) # Check(w)
    BY ActorsAre DEF Run, Check
  <2> QED BY <1>3, <2>1, OwesPlainly DEF LiveInv
<1>8. RecordersApart'
  <2>1. \A d \in Captures : cpc'[d] \in ClaimSteps =>
           /\ cpc[d] \in ClaimSteps
           /\ cpc[d] = "begin" => cpc'[d] = "begin"
    BY <1>1 DEF ClaimSteps, LiveInv, Types, CaptureTypes
  <2> QED BY <1>2, <2>1, RecordersStay DEF WholeParts
<1>9. \A w \in Videos : Whole(w) => Whole(w)' \/ (copyState[w] \notin Handed /\ ~Handing(w))
  BY <1>2, <1>4, <1>5, <1>6 DEF Whole, WithinTolerance
<1>10. /\ \A w : ActiveCaptures(w)' = ActiveCaptures(w)
       /\ \A a, w : Sweeps(a, w)' = Sweeps(a, w)
  BY <1>2 DEF ActiveCaptures, Sweeps
<1> QED BY <1>2, <1>7, <1>8, <1>9, <1>10, PartsStay

\* What is measured complete is whole, and handed over first.
LEMMA MeasuredWhole ==
  ASSUME NEW v \in Videos, LiveInv, Measured(v, "NORMAL"), faults'["unlabelled"] = 0
  PROVE  Whole(v)
<1>1. PICK captured \in {0, media[v]}, vod \in VodProbes(v) :
         "NORMAL" = Completeness(captured, vod[2], vod[1])
  BY MislabelCounted DEF Measured, LiveInv, Types
<1>2. captured # 0 /\ vod[2] # 0 /\ vod[1] \notin NonFinal /\ WithinTolerance(captured, vod[2])
  BY <1>1 DEF Completeness
<1>3. PICK status, expected : vod = <<status, expected>>
        /\ \/ status = "unknown" /\ expected = 0
           \/ expected \in {0, aired[v]} /\ (air[v] # "ended" => status \in {"is_upcoming", "is_live"})
  <2>1. CASE vod \in {<<"unknown", 0>>}
    BY <2>1
  <2>2. CASE vod \notin {<<"unknown", 0>>}
    <3> DEFINE statuses == IF air[v] = "upcoming" THEN {"is_upcoming"}
                           ELSE IF air[v] = "live" THEN {"is_live"}
                           ELSE {"post_live", "was_live", "not_live", "unknown"}
    <3>1. vod \in statuses \X {0, aired[v]}
      BY <2>2 DEF VodProbes
    <3>2. air[v] # "ended" => statuses \subseteq {"is_upcoming", "is_live"}
      BY DEF LiveInv, Types, DiskTypes
    <3> HIDE DEF statuses
    <3> QED BY <3>1, <3>2
  <2> QED BY <2>1, <2>2
<1>4. expected = aired[v] /\ air[v] = "ended"
  BY <1>2, <1>3 DEF NonFinal
<1> QED BY <1>2, <1>3, <1>4 DEF Whole

\* A list that begins with a handing over and is plain after it.
LEMMA FirstHands ==
  ASSUME NEW a, NEW o, o = script'[a][1], o.op # "publish",
         \A i \in 1..Len(script'[a]) : i # 1 => script'[a][i] \in PlainOps,
         o.to \in Handed => HandedBy(a, o)',
         o.from = "AWAITING_VERIFY" => a = Check(o.on) /\ copyState'[o.on] = "AWAITING_VERIFY"
  PROVE  ListWell(a)'
<1> SUFFICES ASSUME NEW i \in 1..Len(script'[a])
             PROVE  HandedWell(a, i)' /\ PublishedWell(a, i)'
  BY DEF ListWell
<1>1. CASE i = 1
  BY <1>1 DEF HandedWell, PublishedWell, HandedBy, Handed
<1>2. CASE i # 1
  <2>1. script'[a][i].to \notin Handed /\ script'[a][i].from # "AWAITING_VERIFY"
        /\ script'[a][i].op # "publish"
    BY <1>2 DEF PlainOps
  <2> QED BY <2>1 DEF HandedWell, PublishedWell, Handed
<1> QED BY <1>1, <1>2

LEMMA ThreeListed ==
  ASSUME NEW S, NEW x \in S, NEW y \in S, NEW z \in S, NEW q, q = <<x, y>> \o <<z>>
  PROVE  Len(q) = 3 /\ q[1] = x /\ q[2] = y /\ q[3] = z
OBVIOUS

LEMMA MeasureParts ==
  ASSUME LiveInv, RecorderInv, WholeParts, faults["lock"] = 0, faults'["unlabelled"] = 0,
         NEW c \in Captures, Measure(c)
  PROVE  WholeParts'
<1> PICK v \in Videos, s \in Sessions \cup {NoSession} : v = capVideo[c] /\ s = csess[c]
  BY DEF Measure, LiveInv, RowsLinked, IsLive, Types, CaptureTypes
<1>1. cpc[c] = "measure" /\ cpc' = [cpc EXCEPT ![c] = "settle"]
  BY DEF Measure, Goto
<1>2. UNCHANGED <<copyState, dlRow, epc, air, aired, media, kpc, ppc, phase, sweepTodo, sessTodo,
                  sessVideo, capVars, cseen>>
  BY DEF Measure
<1>3. capStatus[c] = "RUNNING"
  BY <1>1 DEF RecorderInv, ClaimsKept, ClaimSteps
<1>4. PICK verdict \in LiveEndKinds :
         /\ Measured(v, verdict)
         /\ Owe(Run(c), Finalization(verdict, s, v) \o <<Row(c, "COMPLETED")>>)
  BY DEF Measure
<1>5. /\ script'[Run(c)] = Finalization(verdict, s, v) \o <<Row(c, "COMPLETED")>>
      /\ \A b \in Actors : b # Run(c) => script'[b] = script[b]
      /\ \A w \in Videos : script'[Check(w)] = script[Check(w)]
  <2>1. Run(c) \in Actors /\ \A w \in Videos : Run(c) # Check(w) /\ Check(w) \in Actors
    BY ActorsAre DEF Run, Check
  <2> QED BY <1>4, <2>1 DEF Owe, LiveInv, ScriptsSafe
<1>6. script'[Run(c)] \in Seq(PlainOps) \/ ListWell(Run(c))'
  <2>1. CASE verdict \notin {"NORMAL", "PENDING"}
    BY <1>1, <1>5, <2>1, FinalizersPlain, PlainRow, ListsJoined DEF Finalization
  <2>2. CASE verdict \in {"NORMAL", "PENDING"}
    <3> DEFINE to == IF verdict = "NORMAL" THEN "VERIFYING" ELSE "AWAITING_VERIFY"
               end == IF verdict = "NORMAL" THEN "ENDED_NORMAL" ELSE "ENDED_PENDING"
    <3>1. PICK op \in {"hop", "chain"} :
            Finalization(verdict, s, v) =
              <<[op |-> op, on |-> v, from |-> "DOWNLOADING", to |-> to], Settle(s, "active", end)>>
      BY <2>2 DEF Finalization, FinalizeNormal, FinalizePending, ChainedHop, Hop
    <3> DEFINE o == [op |-> op, on |-> v, from |-> "DOWNLOADING", to |-> to]
    <3>2. Settle(s, "active", end) \in PlainOps /\ Row(c, "COMPLETED") \in PlainOps
      BY <1>1, PlainSettle, PlainRow
    <3>3. o \in Ops
      BY <1>1, HopIsOp DEF Lifecycle!CopyEdges
    <3>4. /\ Settle(s, "active", end) \in Ops /\ Row(c, "COMPLETED") \in Ops
      BY <3>2 DEF PlainOps
    <3> HIDE DEF o, end
    <3>5. /\ o = script'[Run(c)][1]
          /\ \A i \in 1..Len(script'[Run(c)]) : i # 1 => script'[Run(c)][i] \in PlainOps
      <4>1. script'[Run(c)] = <<o, Settle(s, "active", end)>> \o <<Row(c, "COMPLETED")>>
        BY <1>5, <3>1 DEF o, end
      <4> QED BY <3>2, <3>3, <3>4, <4>1, ThreeListed
    <3>6. HandedBy(Run(c), o)'
      <4>1. to = "VERIFYING" => Whole(v)
        BY <1>4, MeasuredWhole
      <4>2. Whole(v)' = Whole(v)
        BY <1>2 DEF Whole, WithinTolerance
      <4> QED BY <1>2, <1>3, <4>1, <4>2 DEF HandedBy, Whole, WithinTolerance, o
    <3>7. o.op # "publish" /\ o.from # "AWAITING_VERIFY"
      BY DEF o
    <3> QED BY <3>5, <3>6, <3>7, FirstHands
  <2> QED BY <2>1, <2>2
<1>7. RecordersApart'
  <2>1. \A d \in Captures : cpc'[d] \in ClaimSteps => cpc'[d] = cpc[d]
    BY <1>1 DEF ClaimSteps, LiveInv, Types, CaptureTypes
  <2> QED BY <1>2, <2>1 DEF WholeParts, RecordersApart
<1>8. /\ \A w : ActiveCaptures(w)' = ActiveCaptures(w)
      /\ \A a, w : Sweeps(a, w)' = Sweeps(a, w)
      /\ \A w : Whole(w)' = Whole(w)
  BY <1>2 DEF ActiveCaptures, Sweeps, Whole, WithinTolerance
<1>9. \A a \in Actors : script'[a] = script[a] \/ script'[a] \in Seq(PlainOps) \/ ListWell(a)'
  BY <1>5, <1>6
<1> QED BY <1>2, <1>5, <1>7, <1>8, <1>9, PartsStay

-----------------------------------------------------------------------------
\* Listeners and probes hand nothing over

LEMMA ListenParts ==
  ASSUME LiveInv, RecorderInv, WholeParts, faults'["lock"] = 0, faults["lock"] = 0,
         NEW c \in Captures,
         Stall(c) \/ ListenRow(c) \/ ListenMark(c) \/ ListenRead(c) \/ ListenDone(c)
  PROVE  WholeParts'
<1>1. UNCHANGED <<copyState, dlRow, epc, air, aired, media, kpc, ppc, phase, sweepTodo, sessTodo,
                  sessVideo, capVideo, cpc, cseen>>
  BY DEF Stall, ListenRow, ListenMark, ListenRead, ListenDone
<1>2. UNCHANGED script \/ \E ops \in Seq(PlainOps) : Owe(Listener(c), ops)
  <2>1. CASE ListenRead(c)
    <3>1. capVideo[c] \in Videos
      BY <2>1 DEF ListenRead, LiveInv, RowsLinked, IsLive
    <3>2. Hop(capVideo[c], "DOWNLOADING", "QUEUED") \in PlainOps
      BY <3>1, PlainHops DEF Lifecycle!CopyEdges, Handed
    <3>3. \A s \in Sessions : Settle(s, "active", "ENDED_INTERRUPTED") \in PlainOps
      BY PlainSettle
    <3> DEFINE back == IF copyState[capVideo[c]] = "DOWNLOADING"
                       THEN <<Hop(capVideo[c], "DOWNLOADING", "QUEUED")>> ELSE <<>>
    <3>4. back \in Seq(PlainOps)
      BY <3>2, Listed
    <3>5. \A s \in Sessions : <<Settle(s, "active", "ENDED_INTERRUPTED")>> \in Seq(PlainOps)
      BY <3>3, Listed
    <3>6. \A s \in Sessions :
             <<Settle(s, "active", "ENDED_INTERRUPTED")>> \o back \in Seq(PlainOps)
      BY <3>4, <3>5, ListsJoined
    <3>7. \/ Owe(Listener(c), back)
          \/ \E s \in Sessions :
                Owe(Listener(c), <<Settle(s, "active", "ENDED_INTERRUPTED")>> \o back)
      BY <2>1 DEF ListenRead, ActiveSessions
    <3> QED BY <3>4, <3>6, <3>7
  <2> QED BY <2>1 DEF Stall, ListenRow, ListenMark, ListenDone
<1>3. /\ \A b \in Actors : script'[b] = script[b] \/ script'[b] \in Seq(PlainOps)
      /\ \A w \in Videos : script'[Check(w)] = script[Check(w)]
  <2>1. Listener(c) \in Actors /\ \A w \in Videos : Listener(c) # Check(w)
    BY ActorsAre DEF Listener, Check
  <2> QED BY <1>2, <2>1, OwesPlainly DEF LiveInv
<1>4. \/ UNCHANGED capStatus
      \/ /\ script[Run(c)] = <<>>
         /\ \E to \in {"FAILED", capStatus[c]} : capStatus' = [capStatus EXCEPT ![c] = to]
  <2>1. CASE ListenMark(c)
    <3>1. cpc[c] = "idle" /\ script[Run(c)] = <<>>
      BY <2>1 DEF ListenMark, RecorderInv, ClaimsKept, SettleOwes
    <3> QED BY <2>1, <3>1 DEF ListenMark
  <2> QED BY <2>1 DEF Stall, ListenRow, ListenRead, ListenDone
<1>5. /\ \A v \in Videos : ActiveCaptures(v)' \subseteq ActiveCaptures(v)
      /\ \A d \in Captures : script[Run(d)] # <<>> => capStatus'[d] = capStatus[d]
  BY <1>1, <1>4 DEF ActiveCaptures, LiveInv, Types, RowTypes
<1>6. RecordersApart'
  BY <1>1 DEF WholeParts, RecordersApart
<1>7. /\ \A a, w : Sweeps(a, w)' = Sweeps(a, w)
      /\ \A w : Whole(w)' = Whole(w)
  BY <1>1 DEF Sweeps, Whole, WithinTolerance
<1> QED BY <1>1, <1>3, <1>5, <1>6, <1>7, PartsStay

\* What a probe step keeps, which opens a session or a row only outside a sweep.
LEMMA ProbeParts ==
  ASSUME LiveInv, RecorderInv, WholeParts, NEW v \in Videos,
         \/ ProbePickUp(v) \/ ProbeStall(v) \/ Look(v) \/ ProbeThrows(v)
         \/ ReadVideo(v) \/ Guard(v) \/ CreateLiveCandidate(v) \/ Promote(v)
         \/ FindSession(v) \/ OpenSession(v) \/ FindCapture(v) \/ CreateCapture(v) \/ AddCapture(v)
  PROVE  WholeParts'
<1> USE DEF ProbeDone, ProbeGone, ProbeGoes, Step
<1>1. UNCHANGED <<dlRow, epc, air, aired, media, kpc, phase, sessTodo, cpc, cseen>>
  BY DEF ProbePickUp, ProbeStall, Look, ProbeThrows, ReadVideo, Guard, CreateLiveCandidate,
         Promote, FindSession, OpenSession, FindCapture, CreateCapture, AddCapture
<1>2. phase \in {"up", "draining"} /\ sessTodo = {}
  <2>1. phase = "up" \/ ppc[v] # "idle"
    BY DEF ProbePickUp, ProbeStall, Look, ProbeThrows, ReadVideo, Guard, CreateLiveCandidate,
           Promote, FindSession, OpenSession, FindCapture, CreateCapture, AddCapture
  <2> QED BY <2>1 DEF RecorderInv, BootAlone, WholeParts, OrphansApart
<1>3. \A w \in Videos : copyState'[w] = copyState[w]
                        \/ (copyState[w] \notin Handed /\ copyState'[w] \notin Handed)
  <2>1. CASE Promote(v)
    <3>1. pseen[v] \in {"CANDIDATE", "FAILED", "QUEUED"}
      BY <2>1 DEF Promote, LiveInv, HopsLinked
    <3> QED BY <2>1, <3>1 DEF Promote, TransitionCopy, Handed, LiveInv, Types, RowTypes
  <2> QED BY <2>1 DEF ProbePickUp, ProbeStall, Look, ProbeThrows, ReadVideo, Guard,
         CreateLiveCandidate, FindSession, OpenSession, FindCapture, CreateCapture, AddCapture
<1>4. /\ capStatus \in [Captures -> CaptureStatuses]
      /\ capVideo \in [Captures -> Videos \cup {NoVideo}]
      /\ ppc \in [Videos -> ProbeSteps]
      /\ sweepTodo \in [Actors -> SUBSET Videos] /\ ScriptsSafe
  BY DEF LiveInv, Types, RowTypes, ProbeTypes
<1>5. \/ UNCHANGED capVars
      \/ /\ ppc[v] = "row"
         /\ \E c \in Captures : /\ capStatus[c] = "ABSENT" /\ capVideo[c] = NoVideo
                                /\ cpc[c] = "idle"
                                /\ capStatus' = [capStatus EXCEPT ![c] = "QUEUED"]
                                /\ capVideo' = [capVideo EXCEPT ![c] = v]
  <2>1. CASE CreateCapture(v)
    <3>1. PICK c \in Captures :
             /\ NewCapture(c)
             /\ capStatus' = [capStatus EXCEPT ![c] = "QUEUED"]
             /\ capVideo' = [capVideo EXCEPT ![c] = v]
      BY <2>1 DEF CreateCapture
    <3>2. capStatus[c] = "ABSENT" /\ capVideo[c] = NoVideo
      BY <3>1 DEF NewCapture, RecorderInv, RowsInOrder
    <3>3. cpc[c] = "idle"
      BY <3>2, IdsAssumption DEF LiveInv, RowsLinked, IsLive
    <3> QED BY <2>1, <3>1, <3>2, <3>3 DEF CreateCapture
  <2> QED BY <2>1 DEF ProbePickUp, ProbeStall, Look, ProbeThrows, ReadVideo, Guard,
         CreateLiveCandidate, Promote, FindSession, OpenSession, FindCapture, AddCapture
<1>6. /\ \A c \in Captures :
            /\ capStatus[c] = "RUNNING" => capStatus'[c] = "RUNNING" /\ capVideo'[c] = capVideo[c]
            /\ cpc[c] # "idle" => capVideo'[c] = capVideo[c]
      /\ \A w \in Videos : ActiveCaptures(w)' \subseteq ActiveCaptures(w)
                           \/ (ppc[w] # "sweep" /\ phase # "sweep")
  <2>1. CASE UNCHANGED capVars
    BY <2>1 DEF ActiveCaptures
  <2>2. CASE ~UNCHANGED capVars
    <3>1. PICK c \in Captures : /\ capStatus[c] = "ABSENT" /\ capVideo[c] = NoVideo
                                /\ cpc[c] = "idle"
                                /\ capStatus' = [capStatus EXCEPT ![c] = "QUEUED"]
                                /\ capVideo' = [capVideo EXCEPT ![c] = v]
      BY <1>5, <2>2
    <3>2. ppc[v] = "row"
      BY <1>5, <2>2
    <3> QED BY <1>2, <1>4, <3>1, <3>2 DEF ActiveCaptures
  <2> QED BY <2>1, <2>2
<1>7. /\ UNCHANGED script \/ Owe(Probe(v), <<>>)
      /\ UNCHANGED sweepTodo \/ sweepTodo' = [sweepTodo EXCEPT ![Probe(v)] = {}]
      /\ ppc[v] = "sweep" => script'[Probe(v)] = <<>> /\ sweepTodo'[Probe(v)] = {}
      /\ \A w \in Videos : w # v => ppc'[w] = ppc[w]
  <2>1. Probe(v) \in Actors
    BY ActorsAre
  <2>2. CASE ProbeThrows(v)
    BY <1>4, <2>1, <2>2 DEF ProbeThrows, Owe, ScriptsSafe
  <2> QED BY <1>4, <2>2 DEF ProbePickUp, ProbeStall, Look, ReadVideo, Guard,
         CreateLiveCandidate, Promote, FindSession, OpenSession, FindCapture, CreateCapture,
         AddCapture
<1>8. <<>> \in Seq(PlainOps)
  OBVIOUS
<1>9. /\ \A b \in Actors : script'[b] = script[b] \/ script'[b] \in Seq(PlainOps)
      /\ \A w \in Videos : script'[Check(w)] = script[Check(w)]
  <2>1. Probe(v) \in Actors /\ \A w \in Videos : Probe(v) # Check(w)
    BY ActorsAre DEF Probe, Check
  <2> QED BY <1>4, <1>7, <1>8, <2>1, OwesPlainly
<1>10. \A a \in Actors : \A w \in Videos :
          Sweeps(a, w) => Sweeps(a, w)' \/ (sweepTodo'[a] = {} /\ script'[a] \in Seq(PlainOps))
  BY <1>1, <1>7, <1>8 DEF Sweeps
<1>11. \A a \in Actors : sweepTodo'[a] \subseteq sweepTodo[a]
  BY <1>4, <1>7
<1>12. RecordersApart'
  <2>1. \A w \in Videos : copyState'[w] \in Handed => copyState[w] \in Handed
    BY <1>3
  <2> QED BY <1>1, <1>6, <2>1, RecordersStay DEF WholeParts, ClaimSteps
<1>13. \A w : Whole(w)' = Whole(w)
  BY <1>1 DEF Whole, WithinTolerance
<1>14. \A w \in Videos : /\ copyState'[w] \in Handed => copyState'[w] = copyState[w]
                         /\ copyState[w] = "AWAITING_VERIFY" => copyState'[w] = copyState[w]
  BY <1>3 DEF Handed
<1> QED BY <1>1, <1>2, <1>6, <1>9, <1>10, <1>11, <1>12, <1>13, <1>14, PartsStay

-----------------------------------------------------------------------------
\* The close-out

\* A close-out publishes behind its gate, and hands nothing over.
LEMMA CloseOutWell ==
  ASSUME NEW a, NEW v \in Videos, script'[a] = CloseOut(v), Sweeps(a, v)', ActiveCaptures(v)' = {}
  PROVE  ListWell(a)'
<1> SUFFICES ASSUME NEW i \in 1..Len(script'[a])
             PROVE  HandedWell(a, i)' /\ PublishedWell(a, i)'
  BY DEF ListWell
<1>1. /\ Len(script'[a]) = 3
      /\ script'[a][1] = Gate(v, "QUEUED", "DOWNLOADING")
      /\ script'[a][2] = Publication(v)
      /\ script'[a][3] = Hop(v, "DOWNLOADING", "PARTIAL_KEPT")
  BY DEF CloseOut
<1>2. i = 1 \/ i = 2 \/ i = 3
  BY <1>1
<1>3. /\ script'[a][i].to \notin Handed /\ script'[a][i].from # "AWAITING_VERIFY"
      /\ script'[a][i].op = "publish" => i = 2 /\ script'[a][i].on = v
  <2>1. CASE i = 1
    BY <1>1, <2>1 DEF Gate, Handed
  <2>2. CASE i = 2
    <3>1. Publication(v).to = "" /\ Publication(v).from = "" /\ Publication(v).on = v
      BY DEF Publication
    <3>2. "" \notin Handed /\ "" # "AWAITING_VERIFY"
      BY DEF Handed
    <3> QED BY <1>1, <2>2, <3>1, <3>2
  <2>3. CASE i = 3
    BY <1>1, <2>3 DEF Hop, Handed
  <2> QED BY <1>2, <2>1, <2>2, <2>3
<1> QED BY <1>1, <1>3 DEF HandedWell, PublishedWell, Handed, Sweeps, ActiveCaptures

\* A candidate is taken by who sweeps it.
LEMMA CandidateParts ==
  ASSUME LiveInv, WholeParts, NEW a \in Actors, SweepCandidate(a), UNCHANGED <<ppc, phase, capVars>>
  PROVE  /\ \A b \in Actors : /\ sweepTodo'[b] \subseteq sweepTodo[b]
                              /\ script'[b] = script[b] \/ ListWell(b)'
         /\ \A b \in Actors : b # a => script'[b] = script[b]
<1>1. PICK v \in sweepTodo[a] :
         /\ sweepTodo' = [sweepTodo EXCEPT ![a] = @ \ {v}]
         /\ Continue(a, CloseOut(v)) \/ UNCHANGED script
  BY DEF SweepCandidate
<1>2. v \in Videos /\ ScriptsSafe /\ sweepTodo \in [Actors -> SUBSET Videos]
  BY DEF LiveInv, Types, ProbeTypes
<1>3. Sweeps(a, v)' /\ ActiveCaptures(v)' = {}
  BY DEF WholeParts, SweepersApart, Sweeps, ActiveCaptures
<1>4. CASE UNCHANGED script
  BY <1>1, <1>2, <1>4
<1>5. CASE Continue(a, CloseOut(v))
  <2>1. script'[a] = CloseOut(v) /\ \A b \in Actors : b # a => script'[b] = script[b]
    BY <1>2, <1>5 DEF Continue, ScriptsSafe
  <2>2. ListWell(a)'
    BY <1>2, <1>3, <2>1, CloseOutWell
  <2> QED BY <1>1, <1>2, <2>1, <2>2
<1> QED BY <1>1, <1>4, <1>5

LEMMA SweepParts ==
  ASSUME LiveInv, RecorderInv, WholeParts, NEW v \in Videos, List(v) \/ Sweep(v)
  PROVE  WholeParts'
<1>1. UNCHANGED <<copyState, dlRow, epc, air, aired, media, kpc, phase, sessTodo, sessVideo, cpc,
                  cseen, capVars>>
  BY DEF List, Sweep
<1>2. /\ ppc \in [Videos -> ProbeSteps] /\ sweepTodo \in [Actors -> SUBSET Videos] /\ ScriptsSafe
  BY DEF LiveInv, Types, ProbeTypes
<1>3. Probe(v) \in Actors /\ \A w \in Videos : Probe(v) # Check(w) /\ Check(w) \in Actors
  BY ActorsAre DEF Probe, Check
<1>4. <<>> \in Seq(PlainOps)
  OBVIOUS
<1>5. /\ \A a \in Actors : /\ sweepTodo'[a] \subseteq sweepTodo[a] \/ TodoWell(a)'
                           /\ script'[a] = script[a] \/ ListWell(a)'
                           /\ a # Probe(v) => script'[a] = script[a]
      /\ ppc[v] = "sweep" /\ ppc'[v] # "sweep" =>
            sweepTodo'[Probe(v)] = {} /\ script'[Probe(v)] = <<>>
      /\ \A w \in Videos : w # v => ppc'[w] = ppc[w]
  <2>1. CASE List(v)
    <3>1. /\ sweepTodo' = [sweepTodo EXCEPT ![Probe(v)] = StrandedVideos({v})]
          /\ ppc' = [ppc EXCEPT ![v] = "sweep"] /\ UNCHANGED script
      BY <2>1 DEF List, Step
    <3>2. TodoWell(Probe(v))'
      BY <1>1, <1>2, <1>3, <3>1 DEF TodoWell, StrandedVideos, Sweeps, ActiveCaptures
    <3> QED BY <1>2, <3>1, <3>2
  <2>2. CASE Sweep(v) /\ SweepCandidate(Probe(v)) /\ UNCHANGED ppc
    <3>1. ppc[v] = "sweep"
      BY <2>2 DEF Sweep
    <3> QED BY <1>1, <1>3, <2>2, <3>1, CandidateParts
  <2>3. CASE Sweep(v) /\ script[Probe(v)] = <<>> /\ sweepTodo[Probe(v)] = {} /\ ProbeDone(v)
             /\ UNCHANGED <<script, sweepTodo>>
    BY <1>2, <2>3 DEF ProbeDone, ProbeGone, Step
  <2> QED BY <2>1, <2>2, <2>3 DEF Sweep
<1>6. \A a \in Actors : \A w \in Videos :
         Sweeps(a, w) => Sweeps(a, w)' \/ (sweepTodo'[a] = {} /\ script'[a] \in Seq(PlainOps))
  BY <1>1, <1>4, <1>5 DEF Sweeps
<1>7. RecordersApart'
  BY <1>1 DEF WholeParts, RecordersApart
<1>8. /\ \A w : ActiveCaptures(w)' = ActiveCaptures(w)
      /\ \A w : Whole(w)' = Whole(w)
  BY <1>1 DEF ActiveCaptures, Whole, WithinTolerance
<1> QED BY <1>1, <1>3, <1>5, <1>6, <1>7, <1>8, PartsStay

-----------------------------------------------------------------------------
\* The writes of a recording that goes to verification

LEMMA ElementsListed ==
  ASSUME NEW S, NEW T, NEW p \in Seq(S), \A i \in 1..Len(p) : p[i] \in T
  PROVE  p \in Seq(T)
OBVIOUS

LEMMA RestShorter ==
  ASSUME NEW S, NEW p \in Seq(S), p # <<>>
  PROVE  Tail(p) # p /\ Head(p) = p[1]
<1>1. PICK n \in Nat : n = Len(p) /\ Len(Tail(p)) = n - 1
  OBVIOUS
<1>2. Len(Tail(p)) # Len(p)
  <2>1. n - 1 # n
    BY ONLY n \in Nat
  <2> QED BY ONLY <1>1, <2>1
<1>3. Head(p) = p[1]
  OBVIOUS
<1> QED BY <1>2, <1>3, Zenon

\* What is owed after the next write is plain, unless the next is the gate of a
\* close-out.
LEMMA RestPlain ==
  ASSUME ScriptsSafe, WholeParts, NEW a \in Actors, script[a] # <<>>
  PROVE  /\ \A i \in 1..Len(Rest(a)) :
               /\ i + 1 \in 1..Len(script[a]) /\ Rest(a)[i] = script[a][i + 1]
               /\ Rest(a)[i].op # "publish" => Rest(a)[i] \in PlainOps
               /\ Rest(a)[i].op = "publish" =>
                     i = 1 /\ Head(script[a]) = Gate(Rest(a)[i].on, "QUEUED", "DOWNLOADING")
         /\ Head(script[a]).op # "gate" \/ Head(script[a]).from # "QUEUED"
               => Rest(a) \in Seq(PlainOps)
<1>1. script[a] \in Seq(Ops) /\ Rest(a) \in Seq(Ops)
  <2>1. script[a] \in Seq(SafeOps) /\ Rest(a) \in Seq(SafeOps)
    BY OwedSafe DEF ScriptsSafe
  <2> QED BY <2>1, ListsWiden DEF SafeOps
<1>2. ASSUME NEW i \in 1..Len(Rest(a))
      PROVE  /\ i + 1 \in 1..Len(script[a]) /\ Rest(a)[i] = script[a][i + 1]
             /\ Rest(a)[i].op # "publish" => Rest(a)[i] \in PlainOps
             /\ Rest(a)[i].op = "publish" =>
                   i = 1 /\ Head(script[a]) = Gate(Rest(a)[i].on, "QUEUED", "DOWNLOADING")
  <2>1. i + 1 \in 1..Len(script[a]) /\ i + 1 # 1 /\ Rest(a)[i] = script[a][i + 1]
        /\ Head(script[a]) = script[a][1]
    BY <1>1 DEF Rest
  <2>2. HandedWell(a, i + 1) /\ PublishedWell(a, i + 1)
    BY <2>1 DEF WholeParts, HandedFirst, SweepersApart
  <2>3. Rest(a)[i] \in Ops
    BY <1>1
  <2> QED BY <2>1, <2>2, <2>3 DEF HandedWell, PublishedWell, PlainOps
<1>3. ASSUME Head(script[a]).op # "gate" \/ Head(script[a]).from # "QUEUED"
      PROVE  Rest(a) \in Seq(PlainOps)
  <2>1. \A i \in 1..Len(Rest(a)) : Rest(a)[i] \in PlainOps
    <3>1. \A x : Gate(x, "QUEUED", "DOWNLOADING").op = "gate"
                 /\ Gate(x, "QUEUED", "DOWNLOADING").from = "QUEUED"
      BY DEF Gate
    <3> QED BY <1>2, <1>3, <3>1
  <2> QED BY <1>1, <2>1, ElementsListed
<1> QED BY <1>2, <1>3

\* A write leaves everything but rows, videos, disk and its own list alone, and
\* its list is another one after it.
LEMMA WriteFrame ==
  ASSUME LiveInv, RecorderInv, NEW a \in Actors, Write(a) \/ WriteSwallowed(a)
  PROVE  /\ UNCHANGED <<dlRow, epc, air, aired, kpc, ppc, phase, sweepTodo, sessTodo, sessVideo,
                        capVideo, cpc, cseen>>
         /\ script[a] # <<>> /\ script'[a] # script[a]
         /\ \A b \in Actors : b # a => script'[b] = script[b]
         /\ \A c \in Captures : a # Run(c) => capStatus'[c] = capStatus[c]
         /\ \A v \in Videos : ActiveCaptures(v)' \subseteq ActiveCaptures(v)
<1>1. WriteMoves(a) /\ ScriptsSafe
  BY WriteIsMove DEF LiveInv
<1>2. /\ script[a] # <<>> /\ \A b \in Actors : b # a => script'[b] = script[b]
      /\ \A c \in Captures : a # Run(c) => capStatus'[c] = capStatus[c]
      /\ \A v \in Videos : ActiveCaptures(v)' \subseteq ActiveCaptures(v)
  <2>1. capStatus \in [Captures -> CaptureStatuses]
    BY DEF LiveInv, Types, RowTypes
  <2>2. /\ script[a] # <<>> /\ \A b \in Actors : b # a => script'[b] = script[b]
        /\ UNCHANGED capVideo
    BY <1>1 DEF WriteMoves, ScriptsSafe
  <2>3. \A c \in Captures : /\ a # Run(c) => capStatus'[c] = capStatus[c]
                            /\ capStatus'[c] \in ActiveRow => capStatus[c] \in ActiveRow
    BY <1>1, <2>1 DEF WriteMoves, Run
  <2> QED BY <2>2, <2>3 DEF ActiveCaptures
<1>3. script'[a] # script[a]
  <2>1. script[a] \in Seq(SafeOps) /\ Rest(a) \in Seq(SafeOps)
    BY <1>1, <1>2, OwedSafe DEF ScriptsSafe
  <2>2. Rest(a) # script[a] /\ Head(script[a]) = script[a][1]
    BY <1>2, <2>1, RestShorter DEF Rest
  <2>3. \A v : (<<Verify(v)>> \o Rest(a))[1] = Verify(v)
    BY <2>1
  <2>4. \A v : Verify(v).op = "verify" /\ Hop(v, "DOWNLOADING", "FAILED").op = "hop"
    BY DEF Verify, Hop
  <2>5. CASE WriteHop(a)
    <3>1. Owes(a, {"hop", "chain", "gate"})
      BY <2>5 DEF WriteHop
    <3>2. \/ script'[a] = <<Verify(Head(script[a]).on)>> \o Rest(a)
          \/ script'[a] = <<>> \/ script'[a] = Rest(a)
      BY <1>1, <2>5 DEF WriteHop, Continue, ScriptsSafe
    <3> QED BY <1>2, <2>2, <2>3, <2>4, <3>1, <3>2 DEF Owes
  <2>6. CASE WriteSession(a) \/ WriteVerify(a) \/ WriteRow(a) \/ WriteSwallowed(a)
    BY <1>1, <2>2, <2>6
       DEF WriteSession, WriteVerify, WriteRow, WriteSwallowed, Continue, ScriptsSafe
  <2>7. CASE WritePublication(a)
    <3>1. script'[a] = Rest(a) \/ script'[a] = <<Hop(Head(script[a]).on, "DOWNLOADING", "FAILED")>>
      BY <1>1, <2>7 DEF WritePublication, Continue, ScriptsSafe
    <3>2. Head(script[a]).op = "publish"
      BY <2>7 DEF WritePublication, Owes
    <3>3. \A v : <<Hop(v, "DOWNLOADING", "FAILED")>>[1].op = "hop"
      BY <2>4
    <3> QED BY <2>2, <3>1, <3>2, <3>3
  <2> QED BY <2>5, <2>6, <2>7 DEF Write
<1>4. UNCHANGED <<dlRow, epc, air, aired, kpc, ppc, phase, sweepTodo, sessTodo, sessVideo,
                  capVideo, cpc, cseen>>
  BY DEF Write, WriteHop, WriteSession, WriteVerify, WriteRow, WritePublication, WriteSwallowed
<1> QED BY <1>2, <1>3, <1>4

\* A write that moves a video as its list says keeps the parts, if it publishes
\* nothing that is handed over and leaves a list that is well.
LEMMA WrittenParts ==
  ASSUME LiveInv, RecorderInv, WholeParts, faults["lock"] = 0, NEW a \in Actors,
         Write(a) \/ WriteSwallowed(a),
         \A v \in Videos :
            \/ copyState'[v] = copyState[v]
            \/ LET o == script[a][1] IN
               v = o.on /\ copyState[v] = o.from /\ copyState'[v] = o.to,
         \A v \in Videos : Whole(v) => Whole(v)' \/ (copyState[v] \notin Handed /\ ~Handing(v)),
         \A v \in Videos : copyState'[v] # copyState[v] => media'[v] = media[v],
         script'[a] \in Seq(PlainOps) \/ ListWell(a)'
  PROVE  WholeParts'
<1>1. /\ UNCHANGED <<dlRow, epc, air, aired, kpc, ppc, phase, sweepTodo, sessTodo, sessVideo,
                     capVideo, cpc, cseen>>
      /\ script[a] # <<>> /\ script'[a] # script[a]
      /\ \A b \in Actors : b # a => script'[b] = script[b]
      /\ \A c \in Captures : a # Run(c) => capStatus'[c] = capStatus[c]
      /\ \A v \in Videos : ActiveCaptures(v)' \subseteq ActiveCaptures(v)
  BY WriteFrame
<1>2. HandedWell(a, 1)
  <2>1. script[a] \in Seq(SafeOps)
    BY DEF LiveInv, ScriptsSafe
  <2>2. 1 \in 1..Len(script[a])
    BY <1>1, <2>1
  <2> QED BY <2>2 DEF WholeParts, HandedFirst
<1> PICK o : o = script[a][1]
  OBVIOUS
<1>3. ASSUME NEW v \in Videos, copyState'[v] # copyState[v]
      PROVE  /\ copyState'[v] \in Handed =>
                   \/ copyState[v] = "AWAITING_VERIFY"
                   \/ \E c \in Captures : a = Run(c) /\ capVideo[c] = v /\ capStatus[c] = "RUNNING"
             /\ copyState'[v] = "VERIFYING" => Whole(v)
             /\ copyState[v] = "AWAITING_VERIFY" => a = Check(v)
  <2>1. v = o.on /\ copyState[v] = o.from /\ copyState'[v] = o.to
    BY <1>3
  <2> QED BY <1>2, <2>1 DEF HandedWell, HandedBy, Handed
<1>4. \A v \in Videos : Check(v) \in Actors /\ \A c \in Captures : Check(v) # Run(c)
  BY ActorsAre DEF Check, Run
<1>5. \A c \in Captures : a = Run(c) => cpc[c] = "settle" /\ phase \in {"up", "draining"}
  BY <1>1 DEF RecorderInv, SettleOwes, BootAlone
<1>6. NoDownload'
  BY <1>1 DEF WholeParts, NoDownload
<1>7. ParkedMeasured'
  BY <1>1, <1>3, <1>4 DEF WholeParts, ParkedMeasured
<1>8. RecordersApart'
  <2> SUFFICES ASSUME NEW c \in Captures, cpc[c] \in ClaimSteps, copyState'[capVideo[c]] \in Handed
               PROVE  cpc[c] = "begin" /\ cseen[c] \in Handed
    BY <1>1 DEF RecordersApart
  <2> PICK v \in Videos : v = capVideo[c]
    BY DEF LiveInv, RowsLinked, IsLive, ClaimSteps
  <2>1. copyState[v] \in Handed
    <3> SUFFICES ASSUME copyState[v] \notin Handed PROVE FALSE
      OBVIOUS
    <3>1. PICK d \in Captures : a = Run(d) /\ capVideo[d] = v /\ capStatus[d] = "RUNNING"
      BY <1>3 DEF Handed
    <3>2. capStatus[c] = "RUNNING"
      BY DEF RecorderInv, ClaimsKept
    <3>3. c = d
      BY <3>1, <3>2 DEF RecorderInv, OneActiveCapture
    <3> QED BY <1>5, <3>1, <3>3 DEF ClaimSteps
  <2> QED BY <2>1 DEF WholeParts, RecordersApart
<1>9. OrphansApart'
  <2> SUFFICES ASSUME NEW p \in sessTodo
               PROVE  /\ phase = "sessions"
                      /\ p[2] = "DOWNLOADING" => copyState'[sessVideo[p[1]]] \notin Handed
    BY <1>1 DEF OrphansApart
  <2>1. phase = "sessions" /\ (p[2] = "DOWNLOADING" => copyState[sessVideo[p[1]]] \notin Handed)
    BY DEF WholeParts, OrphansApart
  <2> PICK v \in Videos : v = sessVideo[p[1]]
    BY DEF LiveInv, RowsLinked, IsLive
  <2>2. copyState'[v] \in Handed => copyState[v] \in Handed
    BY <1>3, <1>5, <2>1 DEF Handed
  <2> QED BY <2>1, <2>2
<1>10. ASSUME NEW v \in Videos
       PROVE  /\ copyState'[v] = "VERIFYING" => copyState[v] = "VERIFYING" \/ Whole(v)'
              /\ copyState'[v] \in Handed => copyState[v] \in Handed \/ ActiveCaptures(v) # {}
              /\ copyState[v] = "AWAITING_VERIFY" /\ script[Check(v)] # <<>>
                 /\ script'[Check(v)] = script[Check(v)] => copyState'[v] = "AWAITING_VERIFY"
  <2>1. copyState'[v] = "VERIFYING" => copyState[v] = "VERIFYING" \/ Whole(v)'
    <3>1. copyState'[v] # copyState[v] => Whole(v)' = Whole(v)
      BY <1>1 DEF Whole, WithinTolerance
    <3> QED BY <1>3, <3>1
  <2>2. copyState'[v] \in Handed => copyState[v] \in Handed \/ ActiveCaptures(v) # {}
    BY <1>3 DEF Handed, ActiveCaptures
  <2> QED BY <1>1, <1>3, <2>1, <2>2
<1>11. \A c \in Captures :
          script[Run(c)] # <<>> /\ script'[Run(c)] = script[Run(c)] /\ capStatus[c] = "RUNNING"
             => capStatus'[c] = "RUNNING" /\ capVideo'[c] = capVideo[c]
  BY <1>1
<1>12. \A b \in Actors : /\ sweepTodo'[b] \subseteq sweepTodo[b] \/ TodoWell(b)'
                         /\ script'[b] = script[b] \/ script'[b] \in Seq(PlainOps) \/ ListWell(b)'
  BY <1>1
<1>13. \A b, v : Sweeps(b, v)' = Sweeps(b, v)
  BY <1>1 DEF Sweeps
<1> QED BY <1>1, <1>6, <1>7, <1>8, <1>9, <1>10, <1>11, <1>12, <1>13, PartsKept

LEMMA QuietWriteParts ==
  ASSUME LiveInv, RecorderInv, WholeParts, faults["lock"] = 0, NEW a \in Actors,
         \/ Write(a) /\ (WriteSession(a) \/ WriteVerify(a) \/ WriteRow(a))
         \/ WriteSwallowed(a)
  PROVE  WholeParts'
<1>1. /\ UNCHANGED <<copyState, media, air, aired>> /\ script[a] # <<>>
      /\ script' = [script EXCEPT ![a] = Rest(a)]
      /\ Head(script[a]).op # "gate"
  BY WriteFrame DEF Write, WriteSession, WriteVerify, WriteRow, WriteSwallowed, Owes, Continue
<1>2. script'[a] \in Seq(PlainOps)
  <2>1. Rest(a) \in Seq(PlainOps)
    BY <1>1, RestPlain DEF LiveInv
  <2> QED BY <1>1, <2>1 DEF LiveInv, ScriptsSafe
<1>3. \A v : Whole(v)' = Whole(v)
  BY <1>1 DEF Whole, WithinTolerance
<1> QED BY <1>1, <1>2, <1>3, WrittenParts

LEMMA HopParts ==
  ASSUME LiveInv, RecorderInv, WholeParts, faults["lock"] = 0, NEW a \in Actors,
         Write(a), WriteHop(a)
  PROVE  WholeParts'
<1> PICK o : o = Head(script[a])
  OBVIOUS
<1>1. /\ UNCHANGED <<media, air, aired, ppc, phase, capVideo>> /\ script[a] # <<>>
      /\ o = script[a][1]
      /\ \A v \in Videos : ActiveCaptures(v)' \subseteq ActiveCaptures(v)
  <2>1. script[a] # <<>> /\ script[a] \in Seq(SafeOps)
    BY WriteFrame DEF LiveInv, ScriptsSafe
  <2>2. Head(script[a]) = script[a][1]
    BY <2>1
  <2> QED BY <2>1, <2>2, WriteFrame DEF Write, WriteHop
<1>2. /\ copyState' = IF copyState[o.on] = o.from
                      THEN [copyState EXCEPT ![o.on] = o.to] ELSE copyState
      /\ \/ o.op # "gate" /\ script'[a] = <<Verify(o.on)>> \o Rest(a) /\ o.op = "chain"
         \/ o.op = "gate" /\ script'[a] = <<>>
         \/ script'[a] = Rest(a) /\ (o.op = "gate" => copyState[o.on] = o.from)
  BY DEF WriteHop, TransitionCopy, Continue, LiveInv, ScriptsSafe
<1>3. copyState \in [Videos -> CopyStates]
  BY DEF LiveInv, Types, RowTypes
<1>4. \A v : Whole(v)' = Whole(v)
  BY <1>1 DEF Whole, WithinTolerance
<1>5. script'[a] \in Seq(PlainOps) \/ ListWell(a)'
  <2>1. /\ \A i \in 1..Len(Rest(a)) :
               /\ i + 1 \in 1..Len(script[a]) /\ Rest(a)[i] = script[a][i + 1]
               /\ Rest(a)[i].op # "publish" => Rest(a)[i] \in PlainOps
               /\ Rest(a)[i].op = "publish" =>
                     i = 1 /\ o = Gate(Rest(a)[i].on, "QUEUED", "DOWNLOADING")
        /\ o.op # "gate" \/ o.from # "QUEUED" => Rest(a) \in Seq(PlainOps)
    BY <1>1, RestPlain DEF LiveInv
  <2>2. CASE script'[a] = <<>>
    BY <2>2
  <2>3. CASE script'[a] = <<Verify(o.on)>> \o Rest(a) /\ o.op = "chain"
    <3>1. o.on \in Videos
      <4>1. script[a] \in Seq(SafeOps)
        BY DEF LiveInv, ScriptsSafe
      <4>2. o \in SafeOps
        BY <1>1, <4>1
      <4> QED BY <2>3, <4>2 DEF SafeOps, Ops, HopOps, SessionOps, RowOps, VideoOps
    <3>2. Verify(o.on) \in PlainOps
      BY <3>1, VideoIsOp DEF PlainOps, Verify, Handed
    <3>3. <<Verify(o.on)>> \in Seq(PlainOps) /\ Rest(a) \in Seq(PlainOps)
      BY <2>1, <2>3, <3>2, Listed
    <3> QED BY <2>3, <3>3, ListsJoined
  <2>4. CASE script'[a] = Rest(a) /\ (o.op = "gate" => copyState[o.on] = o.from)
    <3>1. CASE o.op # "gate" \/ o.from # "QUEUED"
      BY <2>1, <2>4, <3>1
    <3>2. CASE o.op = "gate" /\ o.from = "QUEUED"
      <4> SUFFICES ASSUME NEW i \in 1..Len(Rest(a)) PROVE HandedWell(a, i)' /\ PublishedWell(a, i)'
        BY <2>4 DEF ListWell
      <4>1. CASE Rest(a)[i].op # "publish"
        BY <2>1, <2>4, <4>1 DEF PlainOps, HandedWell, PublishedWell, Handed
      <4>2. CASE Rest(a)[i].op = "publish"
        <5> PICK w : w = Rest(a)[i].on
          OBVIOUS
        <5>1. i = 1 /\ o = Gate(w, "QUEUED", "DOWNLOADING")
          BY <2>1, <4>2
        <5>2. o.on = w /\ o.to = "DOWNLOADING"
          BY <5>1 DEF Gate
        <5>3. HandedWell(a, i + 1) /\ PublishedWell(a, i + 1) /\ script[a][i + 1] = Rest(a)[i]
              /\ i + 1 \in 1..Len(script[a])
          BY <2>1 DEF WholeParts, HandedFirst, SweepersApart
        <5>4. w \in Videos /\ Sweeps(a, w) /\ ActiveCaptures(w) = {}
          BY <4>2, <5>3, HandedOn DEF PublishedWell, LiveInv
        <5>5. copyState'[w] \notin Handed
          BY <1>2, <1>3, <2>4, <3>2, <5>2, <5>4 DEF Handed
        <5>6. Sweeps(a, w)' /\ ActiveCaptures(w)' = {}
          BY <1>1, <5>4 DEF Sweeps
        <5>7. Rest(a)[i].to \notin Handed /\ Rest(a)[i].from # "AWAITING_VERIFY"
          BY <5>1, <5>3 DEF HandedWell
        <5>8. script'[a][i] = Rest(a)[i]
          BY <2>4
        <5> QED BY <5>1, <5>5, <5>6, <5>7, <5>8 DEF HandedWell, PublishedWell, Handed, Sweeps
      <4> QED BY <4>1, <4>2
    <3> QED BY <3>1, <3>2
  <2> QED BY <1>2, <2>2, <2>3, <2>4
<1>6. \A v \in Videos : \/ copyState'[v] = copyState[v]
                        \/ v = o.on /\ copyState[v] = o.from /\ copyState'[v] = o.to
  BY <1>2, <1>3
<1> QED BY <1>1, <1>4, <1>5, <1>6, WrittenParts

\* A close-out publishes what nobody has handed over.
LEMMA PublicationParts ==
  ASSUME LiveInv, RecorderInv, WholeParts, faults["lock"] = 0, NEW a \in Actors,
         Write(a), WritePublication(a)
  PROVE  WholeParts'
<1> PICK o : o = Head(script[a])
  OBVIOUS
<1>1. /\ UNCHANGED <<air, aired, copyState>> /\ script[a] # <<>> /\ o = script[a][1]
      /\ script[a] \in Seq(SafeOps) /\ o.op = "publish" /\ 1 \in 1..Len(script[a])
  <2>1. script[a] # <<>> /\ script[a] \in Seq(SafeOps)
    BY WriteFrame DEF LiveInv, ScriptsSafe
  <2>2. Head(script[a]) = script[a][1] /\ 1 \in 1..Len(script[a])
    BY <2>1
  <2> QED BY <2>1, <2>2, WriteFrame DEF Write, WritePublication, Owes
<1>2. PICK v \in Videos : v = o.on /\ Publish(v)
  <2>1. o.on \in Videos
    BY <1>1, HandedOn DEF LiveInv
  <2> QED BY <2>1 DEF WritePublication
<1>3. copyState[v] \notin Handed /\ ActiveCaptures(v) = {}
  <2>1. PublishedWell(a, 1)
    BY <1>1 DEF WholeParts, SweepersApart
  <2>2. \A x : Gate(x, "QUEUED", "DOWNLOADING").op # "publish"
    BY DEF Gate
  <2> QED BY <1>1, <1>2, <2>1, <2>2 DEF PublishedWell
<1>4. ~Handing(v)
  <2> SUFFICES ASSUME NEW b \in Actors, NEW i \in 1..Len(script[b]), script[b][i].to \in Handed,
                      script[b][i].on = v
               PROVE  FALSE
    BY DEF Handing
  <2>1. HandedBy(b, script[b][i])
    BY DEF WholeParts, HandedFirst, HandedWell
  <2> QED BY <1>3, <2>1 DEF HandedBy, ActiveCaptures, Handed
<1>5. \A w \in Videos : w # v => media'[w] = media[w]
  BY <1>2 DEF Publish, LiveInv, Types, DiskTypes
<1>6. script'[a] \in Seq(PlainOps)
  <2>1. Rest(a) \in Seq(PlainOps)
    BY <1>1, RestPlain DEF LiveInv
  <2>2. <<Hop(v, "DOWNLOADING", "FAILED")>> \in Seq(PlainOps)
    <3>1. Hop(v, "DOWNLOADING", "FAILED") \in PlainOps
      BY PlainHops DEF Lifecycle!CopyEdges, Handed
    <3> QED BY <3>1, Listed
  <2>3. script'[a] = Rest(a) \/ script'[a] = <<Hop(v, "DOWNLOADING", "FAILED")>>
    BY <1>2 DEF WritePublication, Continue, LiveInv, ScriptsSafe
  <2> QED BY <2>1, <2>2, <2>3
<1>7. \A w \in Videos : Whole(w) => Whole(w)' \/ (copyState[w] \notin Handed /\ ~Handing(w))
  BY <1>1, <1>3, <1>4, <1>5 DEF Whole, WithinTolerance
<1> QED BY <1>1, <1>6, <1>7, WrittenParts

LEMMA WriteParts ==
  ASSUME LiveInv, RecorderInv, WholeParts, faults["lock"] = 0, NEW a \in Actors,
         Write(a) \/ WriteSwallowed(a)
  PROVE  WholeParts'
BY QuietWriteParts, HopParts, PublicationParts DEF Write

-----------------------------------------------------------------------------
\* The re-check of a parked recording, and the world around the worker

\* What leaves videos, rows, disk and workers alone, but for the re-check.
LEMMA BystanderParts ==
  ASSUME LiveInv, WholeParts, ParkedMeasured',
         UNCHANGED <<dlRow, epc, copyState, capVars, ppc, phase, sweepTodo, sessTodo, sessVideo,
                     cpc, cseen>>,
         \A v \in Videos : Whole(v) => Whole(v)',
         \A a \in Actors :
            script'[a] = script[a] \/ script'[a] \in Seq(PlainOps) \/ ListWell(a)'
  PROVE  WholeParts'
<1>1. NoDownload' /\ RecordersApart' /\ OrphansApart'
  BY DEF WholeParts, NoDownload, RecordersApart, OrphansApart
<1>2. /\ \A w : ActiveCaptures(w)' = ActiveCaptures(w)
      /\ \A a, w : Sweeps(a, w)' = Sweeps(a, w)
  BY DEF ActiveCaptures, Sweeps
<1> QED BY <1>1, <1>2, PartsKept

LEMMA RemeasureParts ==
  ASSUME LiveInv, WholeParts, NEW v \in Videos, Remeasure(v), faults'["unlabelled"] = 0
  PROVE  WholeParts'
<1>1. /\ kpc[v] = "measure" /\ kpc' = [kpc EXCEPT ![v] = "settle"]
      /\ UNCHANGED <<dlRow, epc, copyState, capVars, media, air, aired, ppc, phase, sweepTodo,
                     sessTodo, sessVideo, cpc, cseen>>
  BY DEF Remeasure
<1>2. copyState[v] = "AWAITING_VERIFY"
  BY <1>1 DEF WholeParts, ParkedMeasured
<1> PICK s \in Sessions \cup {NoSession} : s = ksess[v]
  BY DEF LiveInv, Types, ProbeTypes
<1>3. PICK verdict \in LiveEndKinds : \E todo :
         /\ Measured(v, verdict)
         /\ \/ verdict = "NORMAL" /\ todo = ResolveVerified(s, v)
            \/ todo = ResolvePartial(s, v)
            \/ todo = <<>>
         /\ script' = [script EXCEPT ![Check(v)] = todo]
  BY DEF Remeasure
<1>4. PICK todo :
         /\ Measured(v, verdict)
         /\ \/ verdict = "NORMAL" /\ todo = ResolveVerified(s, v)
            \/ todo = ResolvePartial(s, v)
            \/ todo = <<>>
         /\ script'[Check(v)] = todo
         /\ \A b \in Actors : b # Check(v) => script'[b] = script[b]
  <2>1. Check(v) \in Actors
    BY ActorsAre
  <2> QED BY <1>3, <2>1 DEF LiveInv, ScriptsSafe
<1>5. \A w : Whole(w)' = Whole(w)
  BY <1>1 DEF Whole, WithinTolerance
<1>6. script'[Check(v)] \in Seq(PlainOps) \/ ListWell(Check(v))'
  <2>1. CASE todo = <<>>
    BY <1>4, <2>1
  <2>2. CASE todo = ResolveVerified(s, v) /\ verdict = "NORMAL"
    <3> DEFINE o == Gate(v, "AWAITING_VERIFY", "VERIFYING")
    <3>1. Verify(v) \in PlainOps /\ Settle(s, "pending", "ENDED_NORMAL") \in PlainOps
      BY PlainSettle, VideoIsOp DEF PlainOps, Verify, Handed
    <3>2. /\ o = script'[Check(v)][1]
          /\ \A i \in 1..Len(script'[Check(v)]) : i # 1 => script'[Check(v)][i] \in PlainOps
      <4> HIDE DEF PlainOps
      <4> QED BY <1>4, <2>2, <3>1 DEF ResolveVerified
    <3>3. Whole(v)
      BY <1>4, <2>2, MeasuredWhole
    <3>4. HandedBy(Check(v), o)'
      BY <1>1, <1>2, <1>5, <3>3 DEF HandedBy, Whole, WithinTolerance, Gate
    <3>5. /\ o.op # "publish" /\ o.from = "AWAITING_VERIFY" /\ o.on = v
          /\ copyState'[v] = "AWAITING_VERIFY"
      BY <1>1, <1>2 DEF Gate
    <3> HIDE DEF o
    <3> QED BY <3>2, <3>4, <3>5, FirstHands
  <2>3. CASE todo = ResolvePartial(s, v)
    <3> DEFINE o == Gate(v, "AWAITING_VERIFY", "PARTIAL_KEPT")
    <3>1. Settle(s, "pending", "ENDED_INTERRUPTED") \in PlainOps
      BY PlainSettle
    <3>2. /\ o = script'[Check(v)][1]
          /\ \A i \in 1..Len(script'[Check(v)]) : i # 1 => script'[Check(v)][i] \in PlainOps
      <4> HIDE DEF PlainOps
      <4> QED BY <1>4, <2>3, <3>1 DEF ResolvePartial
    <3>3. /\ o.op # "publish" /\ o.from = "AWAITING_VERIFY" /\ o.on = v /\ o.to \notin Handed
          /\ copyState'[v] = "AWAITING_VERIFY"
      BY <1>1, <1>2 DEF Gate, Handed
    <3> HIDE DEF o
    <3> QED BY <3>2, <3>3, FirstHands
  <2> QED BY <1>4, <2>1, <2>2, <2>3
<1>7. ParkedMeasured'
  <2>1. \A w \in Videos : w # v => Check(w) # Check(v) /\ Check(w) \in Actors
    BY ActorsAre DEF Check
  <2> QED BY <1>1, <1>4, <2>1 DEF WholeParts, ParkedMeasured, LiveInv, Types, ProbeTypes
<1>8. \A a \in Actors :
         script'[a] = script[a] \/ script'[a] \in Seq(PlainOps) \/ ListWell(a)'
  BY <1>4, <1>6
<1>9. \A w \in Videos : Whole(w) => Whole(w)'
  BY <1>5
<1> QED BY <1>1, <1>7, <1>8, <1>9, BystanderParts

\* The other steps of a re-check, the broadcast itself and the commands.
LEMMA QuietParts ==
  ASSUME LiveInv, RecorderInv, WholeParts,
         \/ \E v \in Videos : \/ Recheck(v) \/ CheckDone(v) \/ Deadline(v) \/ Enumerate(v)
                              \/ AirStart(v) \/ AirMore(v) \/ AirEnd(v) \/ ScanRow(v) \/ ScanAdd(v)
         \/ \E c \in Captures : Record(c) \/ Reclaim(c) \/ CancelCapture(c)
         \/ UNCHANGED vars
  PROVE  WholeParts'
<1>1. UNCHANGED <<dlRow, epc, copyState, capVars, media, ppc, phase, sweepTodo, sessTodo, sessVideo,
                  cpc, cseen, script>>
  BY DEF Recheck, CheckDone, Deadline, Enumerate, AirStart, AirMore, AirEnd, ScanRow, ScanAdd,
         Record, Reclaim, CancelCapture, vars
<1>2. \A v \in Videos : Whole(v) => Whole(v)'
  <2>1. \A v \in Videos : air[v] = "ended" => air'[v] = "ended" /\ aired'[v] = aired[v]
    <3>1. CASE \E w \in Videos : AirStart(w) \/ AirMore(w) \/ AirEnd(w)
      BY <3>1 DEF AirStart, AirMore, AirEnd, LiveInv, Types, DiskTypes
    <3>2. CASE UNCHANGED airVars
      BY <3>2
    <3> QED BY <3>1, <3>2 DEF Recheck, CheckDone, Deadline, Enumerate, ScanRow, ScanAdd,
           Record, Reclaim, CancelCapture, vars
  <2> QED BY <1>1, <2>1 DEF Whole, WithinTolerance
<1>3. ParkedMeasured'
  <2>1. CASE \E v \in Videos : Recheck(v)
    BY <1>1, <2>1 DEF Recheck, WholeParts, ParkedMeasured, LiveInv, Types, ProbeTypes
  <2>2. CASE \E v \in Videos : CheckDone(v)
    BY <1>1, <2>2 DEF CheckDone, WholeParts, ParkedMeasured, LiveInv, Types, ProbeTypes
  <2>3. CASE UNCHANGED kpc
    BY <1>1, <2>3 DEF WholeParts, ParkedMeasured
  <2> QED BY <2>1, <2>2, <2>3
       DEF Deadline, Enumerate, AirStart, AirMore, AirEnd, ScanRow, ScanAdd,
         Record, Reclaim, CancelCapture, vars
<1> QED BY <1>1, <1>2, <1>3, BystanderParts

LEMMA VerifyEndParts ==
  ASSUME LiveInv, RecorderInv, WholeParts, NEW v \in Videos, VerifyEnd(v)
  PROVE  WholeParts'
<1>1. /\ UNCHANGED <<dlRow, epc, capVars, media, air, aired, kpc, ppc, phase, sweepTodo, sessTodo,
                     sessVideo, cpc, cseen, script>>
      /\ \A w \in Videos : copyState'[w] = copyState[w]
                           \/ (copyState[w] = "VERIFYING" /\ copyState'[w] \in {"HEALTHY", "FAILED"})
  BY DEF VerifyEnd, TransitionCopy, LiveInv, Types, RowTypes
<1>2. RecordersApart'
  <2>1. \A w \in Videos : copyState'[w] \in Handed => copyState[w] \in Handed
    BY <1>1 DEF Handed
  <2> QED BY <1>1, <2>1, RecordersStay DEF WholeParts
<1>3. /\ \A w : ActiveCaptures(w)' = ActiveCaptures(w)
      /\ \A a, w : Sweeps(a, w)' = Sweeps(a, w)
      /\ \A w : Whole(w)' = Whole(w)
  BY <1>1 DEF ActiveCaptures, Sweeps, Whole, WithinTolerance
<1>4. \A w \in Videos : /\ copyState'[w] \in Handed => copyState'[w] = copyState[w]
                        /\ copyState[w] = "AWAITING_VERIFY" => copyState'[w] = copyState[w]
  BY <1>1 DEF Handed
<1> QED BY <1>1, <1>2, <1>3, <1>4, PartsStay

-----------------------------------------------------------------------------
\* Stops and boots

LEMMA StopParts ==
  ASSUME LiveInv, RecorderInv, WholeParts, Drain \/ Drained \/ Crash
  PROVE  WholeParts'
<1>1. UNCHANGED <<dlRow, epc, copyState, capVars, media, air, aired, kpc, sessVideo>>
  BY DEF Drain, Drained, Crash
<1>2. /\ \A w : ActiveCaptures(w)' = ActiveCaptures(w)
      /\ \A w : Whole(w)' = Whole(w)
  BY <1>1 DEF ActiveCaptures, Whole, WithinTolerance
<1>3. CASE Drain
  <2>1. UNCHANGED <<ppc, sweepTodo, script, cpc, cseen, sessTodo>> /\ phase = "up" /\ phase' = "draining"
    BY <1>3 DEF Drain
  <2>2. sessTodo' = {}
    BY <2>1 DEF WholeParts, OrphansApart
  <2>3. \A a, w : Sweeps(a, w)' = Sweeps(a, w)
    BY <2>1 DEF Sweeps
  <2>4. RecordersApart'
    BY <1>1, <2>1 DEF WholeParts, RecordersApart
  <2> QED BY <1>1, <1>2, <2>1, <2>2, <2>3, <2>4, PartsStay
<1>4. CASE LoseMemory
  <2>1. /\ sessTodo' = {} /\ cpc' = [c \in Captures |-> "idle"]
        /\ script' = [a \in Actors |-> IF a[1] = "check" THEN script[a] ELSE <<>>]
        /\ sweepTodo' = [a \in Actors |-> {}]
    BY <1>4 DEF LoseMemory
  <2>2. /\ \A a \in Actors : script'[a] = script[a] \/ script'[a] \in Seq(PlainOps)
        /\ \A w \in Videos : script'[Check(w)] = script[Check(w)]
    BY <2>1, ActorsAre DEF Check
  <2>3. \A a \in Actors : \A w \in Videos :
           Sweeps(a, w) => Sweeps(a, w)' \/ (sweepTodo'[a] = {} /\ script'[a] \in Seq(PlainOps))
    <3> SUFFICES ASSUME NEW a \in Actors, NEW w \in Videos, Sweeps(a, w)
                 PROVE  sweepTodo'[a] = {} /\ script'[a] \in Seq(PlainOps)
      OBVIOUS
    <3>1. a[1] # "check"
      BY DEF Sweeps, Probe, Boot
    <3>2. script'[a] = <<>> /\ <<>> \in Seq(PlainOps)
      BY <2>1, <3>1
    <3> QED BY <2>1, <3>2
  <2>4. RecordersApart'
    BY <2>1 DEF RecordersApart, ClaimSteps
  <2> QED BY <1>1, <1>2, <2>1, <2>2, <2>3, <2>4, PartsStay
<1> QED BY <1>3, <1>4 DEF Drained, Crash

LEMMA BootRowParts ==
  ASSUME LiveInv, RecorderInv, WholeParts, BootRows \/ BootRow
  PROVE  WholeParts'
<1>1. /\ UNCHANGED <<dlRow, epc, copyState, capVideo, media, air, aired, kpc, sessVideo, ppc,
                     sweepTodo, script, cpc, cseen, sessTodo>>
      /\ phase \in {"down", "rows"} /\ phase' \in {"down", "rows"}
  BY DEF BootRows, BootRow
<1>2. sessTodo' = {}
  BY <1>1 DEF WholeParts, OrphansApart
<1>3. /\ \A w \in Videos : ppc[w] # "sweep"
      /\ \A c \in Captures : script[Run(c)] = <<>>
  BY <1>1 DEF RecorderInv, BootAlone
<1>4. /\ \A a \in Actors, w \in Videos : ~Sweeps(a, w)
      /\ \A w : Whole(w)' = Whole(w)
  BY <1>1, <1>3 DEF Sweeps, Whole, WithinTolerance
<1>5. RecordersApart'
  BY <1>1 DEF WholeParts, RecordersApart
<1> QED BY <1>1, <1>2, <1>3, <1>4, <1>5, PartsStay

LEMMA BootSessionsParts ==
  ASSUME LiveInv, RecorderInv, WholeParts, BootSessions
  PROVE  WholeParts'
<1>1. /\ UNCHANGED <<dlRow, epc, copyState, capVars, media, air, aired, kpc, sessVideo, ppc,
                     sweepTodo, script, cpc, cseen>>
      /\ phase = "rows" /\ phase' = "sessions"
      /\ sessTodo' = {<<s, copyState[sessVideo[s]]>> : s \in Orphans}
  BY DEF BootSessions
<1>2. NoDownload' /\ RecordersApart' /\ ParkedMeasured'
  BY <1>1 DEF WholeParts, NoDownload, RecordersApart, ParkedMeasured
<1>3. OrphansApart'
  BY <1>1 DEF OrphansApart, Handed
<1>4. /\ \A w : ActiveCaptures(w)' = ActiveCaptures(w)
      /\ \A w : Whole(w)' = Whole(w)
      /\ \A a \in Actors, w \in Videos : ~Sweeps(a, w)
  BY <1>1 DEF ActiveCaptures, Whole, WithinTolerance, Sweeps, RecorderInv, BootAlone
<1> QED BY <1>1, <1>2, <1>3, <1>4, PartsKept

LEMMA BootSessionParts ==
  ASSUME LiveInv, RecorderInv, WholeParts, BootSession
  PROVE  WholeParts'
<1>1. /\ UNCHANGED <<dlRow, epc, copyState, capVars, air, aired, kpc, sessVideo, ppc, phase,
                     sweepTodo, cpc, cseen>>
      /\ phase = "sessions"
  BY DEF BootSession
<1>2. PICK o \in sessTodo :
         /\ sessTodo' = sessTodo \ {o}
         /\ IF o[2] = "DOWNLOADING" /\ sessState[o[1]] = "CAPTURING" /\ Largest(sessVideo[o[1]]) > 0
            THEN Publish(sessVideo[o[1]]) /\ Owe(Boot, FinalizeInterrupted(o[1], sessVideo[o[1]]))
            ELSE UNCHANGED diskVars /\ Owe(Boot, FinalizeEmpty(o[1], sessVideo[o[1]], "FAILED"))
  BY DEF BootSession
<1> PICK s \in Sessions, v \in Videos : s = o[1] /\ v = sessVideo[s]
  BY DEF LiveInv, RowsLinked, IsLive, Types, BootTypes
<1>3. /\ \A b \in Actors : script'[b] = script[b] \/ script'[b] \in Seq(PlainOps)
      /\ \A w \in Videos : script'[Check(w)] = script[Check(w)]
  <2>1. Boot \in Actors /\ \A w \in Videos : Boot # Check(w)
    BY ActorsAre DEF Boot, Check
  <2>2. FinalizeInterrupted(s, v) \in Seq(PlainOps) /\ FinalizeEmpty(s, v, "FAILED") \in Seq(PlainOps)
    BY FinalizersPlain
  <2>3. \E ops \in Seq(PlainOps) : Owe(Boot, ops)
    BY <1>2, <2>2
  <2> QED BY <2>1, <2>3, OwesPlainly DEF LiveInv
<1>4. \A w \in Videos : media'[w] = media[w] \/ (w = v /\ copyState[v] \notin Handed)
  <2>1. o[2] = "DOWNLOADING" => copyState[v] \notin Handed
    BY DEF WholeParts, OrphansApart
  <2> QED BY <1>2, <2>1 DEF Publish, LiveInv, Types, DiskTypes
<1>5. copyState[v] \notin Handed => ~Handing(v)
  <2> SUFFICES ASSUME copyState[v] \notin Handed, NEW b \in Actors, NEW i \in 1..Len(script[b]),
                      script[b][i].to \in Handed, script[b][i].on = v
               PROVE  FALSE
    BY DEF Handing
  <2>1. HandedBy(b, script[b][i])
    BY DEF WholeParts, HandedFirst, HandedWell
  <2>2. \A c \in Captures : script[Run(c)] = <<>>
    BY <1>1 DEF RecorderInv, BootAlone
  <2> QED BY <2>1, <2>2 DEF HandedBy, Handed
<1>6. \A w \in Videos : Whole(w) => Whole(w)' \/ (copyState[w] \notin Handed /\ ~Handing(w))
  BY <1>1, <1>4, <1>5 DEF Whole, WithinTolerance
<1>7. RecordersApart'
  BY <1>1 DEF WholeParts, RecordersApart
<1>8. /\ \A w : ActiveCaptures(w)' = ActiveCaptures(w)
      /\ \A a, w : Sweeps(a, w)' = Sweeps(a, w)
  BY <1>1 DEF ActiveCaptures, Sweeps
<1>9. \A p \in sessTodo' : p \in sessTodo
  BY <1>2
<1> QED BY <1>1, <1>3, <1>6, <1>7, <1>8, <1>9, PartsStay

LEMMA BootSweepParts ==
  ASSUME LiveInv, RecorderInv, WholeParts, BootSweep \/ BootClose
  PROVE  WholeParts'
<1>1. /\ UNCHANGED <<dlRow, epc, copyState, capVars, media, air, aired, kpc, sessVideo, ppc,
                     cpc, cseen>>
      /\ phase \in {"sessions", "sweep"} /\ sessTodo' = {}
  BY DEF BootSweep, BootClose, WholeParts, OrphansApart
<1>2. /\ \A w : ActiveCaptures(w)' = ActiveCaptures(w)
      /\ \A w : Whole(w)' = Whole(w)
  BY <1>1 DEF ActiveCaptures, Whole, WithinTolerance
<1>3. sweepTodo \in [Actors -> SUBSET Videos] /\ Boot \in Actors
      /\ \A w \in Videos : Boot # Check(w) /\ Check(w) \in Actors
  BY ActorsAre DEF Boot, Check, LiveInv, Types, ProbeTypes
<1>4. /\ \A a \in Actors : /\ sweepTodo'[a] \subseteq sweepTodo[a] \/ TodoWell(a)'
                           /\ script'[a] = script[a] \/ ListWell(a)'
                           /\ a # Boot => script'[a] = script[a]
      /\ phase' = "sweep" \/ (sweepTodo'[Boot] = {} /\ script'[Boot] = <<>>)
  <2>1. CASE BootSweep
    <3>1. /\ sweepTodo' = [sweepTodo EXCEPT ![Boot] = StrandedVideos(Videos)]
          /\ phase' = "sweep" /\ UNCHANGED script
      BY <2>1 DEF BootSweep
    <3>2. TodoWell(Boot)'
      BY <1>1, <1>3, <3>1 DEF TodoWell, StrandedVideos, Sweeps, ActiveCaptures
    <3> QED BY <1>3, <3>1, <3>2
  <2>2. CASE BootClose /\ SweepCandidate(Boot) /\ UNCHANGED phase
    <3>1. phase' = "sweep"
      BY <2>2 DEF BootClose
    <3> QED BY <1>1, <1>3, <2>2, <3>1, CandidateParts
  <2>3. CASE BootClose /\ sweepTodo[Boot] = {} /\ script[Boot] = <<>> /\ UNCHANGED <<sweepTodo, script>>
    BY <2>3
  <2> QED BY <2>1, <2>2, <2>3 DEF BootClose
<1>5. \A a \in Actors : \A w \in Videos :
         Sweeps(a, w) => Sweeps(a, w)' \/ (sweepTodo'[a] = {} /\ script'[a] \in Seq(PlainOps))
  <2>1. <<>> \in Seq(PlainOps)
    OBVIOUS
  <2> QED BY <1>1, <1>4, <2>1 DEF Sweeps
<1>6. RecordersApart'
  BY <1>1 DEF WholeParts, RecordersApart
<1>7. \A w \in Videos : script'[Check(w)] = script[Check(w)]
  BY <1>3, <1>4
<1> QED BY <1>1, <1>2, <1>4, <1>5, <1>6, <1>7, PartsStay

-----------------------------------------------------------------------------
\* Every step

\* Faults only add up.
LEMMA NextFaults ==
  ASSUME LiveInv, [Next]_vars
  PROVE  UNCHANGED faults \/ Mislabels \/ \E k \in FaultKinds : Fault(k)
<1>1. ASSUME NEW c \in Captures,
             \/ CaptureStep(c) \/ Record(c) \/ Reclaim(c) \/ SpawnFails(c)
             \/ Hang(c) \/ FinalizeThrows(c) \/ Stall(c) \/ ListenStep(c) \/ CancelCapture(c)
      PROVE  UNCHANGED faults \/ Mislabels \/ \E k \in FaultKinds : Fault(k)
  BY <1>1 DEF CaptureStep, PickUp, Load, Begin, Reread, Prepare, MarkSessionCapturing, Reuse, Adopt,
     Exit, Verdict, Measure, Measured, Write, Finish, Record, Reclaim, SpawnFails, Hang, FinalizeThrows, Stall,
     ListenStep, ListenRow, ListenMark, ListenRead, ListenDone, CancelCapture
<1>2. ASSUME NEW v \in Videos,
             ScanRow(v) \/ ScanAdd(v) \/ ProbeStep(v) \/ ProbeThrows(v)
      PROVE  UNCHANGED faults \/ Mislabels \/ \E k \in FaultKinds : Fault(k)
  BY <1>2 DEF ScanRow, ScanAdd, ProbeThrows, ProbeStep, ProbePickUp, ProbeStall, Look, List, Sweep,
     ReadVideo, Guard, CreateLiveCandidate, Promote, FindSession, OpenSession, FindCapture,
     CreateCapture, AddCapture, Write
<1>3. ASSUME NEW v \in Videos,
             \/ CheckStep(v) \/ Deadline(v) \/ Enumerate(v) \/ EnqueueRead(v) \/ ArchiveStep(v)
             \/ AirStart(v) \/ AirMore(v) \/ AirEnd(v)
      PROVE  UNCHANGED faults \/ Mislabels \/ \E k \in FaultKinds : Fault(k)
  BY <1>3 DEF CheckStep, Recheck, Remeasure, Measured, Write, CheckDone, Deadline, Enumerate, EnqueueRead,
     ArchiveStep, EnqueueCommit, DownloadBegin, DownloadEnd, VerifyEnd, AirStart, AirMore, AirEnd
<1>4. CASE (\E a \in Actors : WriteSwallowed(a)) \/ BootStep \/ Drain \/ Drained \/ Crash
  BY <1>4 DEF WriteSwallowed, BootStep, BootRows, BootRow, BootSessions, BootSession, BootSweep,
     BootClose, Write, Drain, Drained, Crash
<1> QED BY <1>1, <1>2, <1>3, <1>4 DEF Next, vars

LEMMA NextWhole ==
  ASSUME LiveInv, RecorderInv, WholeInv, [Next]_vars
  PROVE  WholeInv'
<1> SUFFICES ASSUME Undownloaded' PROVE WholeParts'
  BY DEF WholeInv
<1>1. faults \in [FaultKinds \cup {"any"} -> Nat]
  BY DEF LiveInv, Types, BootTypes
<1>2. /\ faults["enqueue"] = 0 /\ faults'["enqueue"] = 0
      /\ faults["lock"] = 0 /\ faults'["lock"] = 0
      /\ faults["unlabelled"] = 0 /\ faults'["unlabelled"] = 0
  <2>1. CASE UNCHANGED faults \/ \E k \in FaultKinds : Fault(k)
    BY <1>1, <2>1 DEF Undownloaded, Fault, FaultKinds
  <2>2. ~Mislabels
    BY MislabelCounted DEF Undownloaded, LiveInv, Types
  <2> QED BY <2>1, <2>2, NextFaults
<1>3. WholeParts
  BY <1>2 DEF WholeInv, Undownloaded
<1>4. ASSUME NEW c \in Captures,
             CaptureStep(c) \/ SpawnFails(c) \/ Hang(c) \/ FinalizeThrows(c)
      PROVE  WholeParts'
  <2>1. Run(c) \in Actors
    BY ActorsAre
  <2> QED BY <1>2, <1>3, <1>4, <2>1, BeginParts, CourseParts, VerdictParts, MeasureParts, WriteParts
          DEF CaptureStep
<1>5. ASSUME NEW c \in Captures, Stall(c) \/ ListenStep(c)
      PROVE  WholeParts'
  <2>1. Listener(c) \in Actors
    BY ActorsAre
  <2> QED BY <1>2, <1>3, <1>5, <2>1, ListenParts, WriteParts DEF ListenStep
<1>6. ASSUME NEW v \in Videos, ProbeStep(v) \/ ProbeThrows(v)
      PROVE  WholeParts'
  <2>1. Probe(v) \in Actors
    BY ActorsAre
  <2> QED BY <1>2, <1>3, <1>6, <2>1, ProbeParts, SweepParts, WriteParts DEF ProbeStep
<1>7. ASSUME NEW v \in Videos, CheckStep(v) \/ ArchiveStep(v) \/ EnqueueRead(v)
      PROVE  WholeParts'
  <2>1. Check(v) \in Actors
    BY ActorsAre
  <2>2. ~(EnqueueCommit(v) \/ DownloadBegin(v) \/ DownloadEnd(v))
    BY <1>3 DEF WholeParts, NoDownload, EnqueueCommit, DownloadBegin, DownloadEnd
  <2>3. ~EnqueueRead(v)
    BY <1>1, <1>2 DEF EnqueueRead, Fault
  <2> QED BY <1>2, <1>3, <1>7, <2>1, <2>2, <2>3, QuietParts, RemeasureParts, VerifyEndParts, WriteParts
          DEF CheckStep, ArchiveStep
<1>8. CASE (\E a \in Actors : WriteSwallowed(a)) \/ Drain \/ Drained \/ Crash
  BY <1>2, <1>3, <1>8, WriteParts, StopParts
<1>9. CASE BootStep
  <2>1. Boot \in Actors
    BY ActorsAre
  <2> QED BY <1>2, <1>3, <1>9, <2>1, WriteParts, BootRowParts, BootSessionsParts, BootSessionParts,
             BootSweepParts DEF BootStep
<1>10. CASE \/ \E c \in Captures : Record(c) \/ Reclaim(c) \/ CancelCapture(c)
            \/ \E v \in Videos : \/ ScanRow(v) \/ ScanAdd(v) \/ Deadline(v) \/ Enumerate(v)
                                 \/ AirStart(v) \/ AirMore(v) \/ AirEnd(v)
            \/ UNCHANGED vars
  BY <1>3, <1>10, QuietParts
<1> QED BY <1>4, <1>5, <1>6, <1>7, <1>8, <1>9, <1>10 DEF Next

LEMMA InitWhole == Init => WholeInv
<1> SUFFICES ASSUME Init PROVE WholeParts
  BY DEF WholeInv
<1>1. \A a \in Actors : script[a] = <<>> /\ sweepTodo[a] = {}
  BY DEF Init
<1>2. \A v \in Videos : script[Check(v)] = <<>>
  BY <1>1, ActorsAre
<1>3. HandedFirst /\ SweepersApart
  BY <1>1 DEF HandedFirst, SweepersApart
<1> QED BY <1>2, <1>3 DEF Init, WholeParts, NoDownload, VerifyingWhole, ParkedMeasured, RecordersApart,
           OrphansApart, ClaimSteps

\* What reaches verification was measured first, of a broadcast that was over
\* and within the tolerance of its length, and nobody records, publishes or
\* hands back the broadcast after that.
THEOREM VerifiedIsCompleteHolds == Spec => []VerifiedIsComplete
<1>1. Init => WholeInv
  BY InitWhole
<1>2. (LiveInv /\ RecorderInv) /\ WholeInv /\ [Next]_vars => WholeInv'
  BY NextWhole
<1>3. (LiveInv /\ RecorderInv) /\ WholeInv => VerifiedIsComplete
  <2> SUFFICES ASSUME LiveInv, WholeInv,
                      faults["enqueue"] + faults["lock"] + faults["unlabelled"] = 0
               PROVE  \A v \in Videos : copyState[v] = "VERIFYING" =>
                         air[v] = "ended" /\ WithinTolerance(media[v], aired[v])
    BY DEF VerifiedIsComplete
  <2>1. Undownloaded
    BY DEF Undownloaded, LiveInv, Types, BootTypes
  <2> QED BY <2>1 DEF WholeInv, WholeParts, VerifyingWhole, Whole, WithinTolerance
<1> QED BY <1>1, <1>2, <1>3, RecorderInvariance, PTL DEF Spec
=============================================================================

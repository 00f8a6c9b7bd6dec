------------------------------ MODULE LiveProofs -----------------------------
(***************************************************************************)
(* Proofs about LivePipeline: its types, that recorded seconds are kept,   *)
(* that a kept partial is never fetched again, and that every writer of    *)
(* copyState implements CopyLifecycle.                                     *)
(*                                                                         *)
(* The invariant LiveInv adds to the types what ties the parts together:   *)
(* sessions, captures and who works on them belong to broadcasts that are  *)
(* marked LIVE; and the writes an actor owes never move a video out of     *)
(* PARTIAL_KEPT, nor a video that is not LIVE into it.                     *)
(***************************************************************************)
EXTENDS LivePipeline, SequenceTheorems, TLAPS

\* A broadcast of the vault that is marked LIVE.
IsLive(v) == v \in Videos /\ content[v] = "LIVE"

\* Sessions and captures, and who works on them, have a LIVE broadcast.
RowsLinked ==
    /\ \A s \in Sessions : sessState[s] # "ABSENT" => IsLive(sessVideo[s])
    /\ \A c \in Captures :
         /\ \/ capStatus[c] # "ABSENT" \/ bull[c] # "absent" \/ cpc[c] # "idle"
            \/ lpc[c] # "idle" \/ c \in rowTodo
            => IsLive(capVideo[c])
         /\ cpc[c] = "adopt" => csess[c] \in Sessions /\ IsLive(sessVideo[csess[c]])
    /\ \A o \in sessTodo : IsLive(sessVideo[o[1]])

\* A probe past the creation of the candidate, and a re-check, have a LIVE one;
\* probe and enqueue hop from states that leave a kept partial alone.
HopsLinked ==
    \A v \in Videos :
        /\ ppc[v] \in {"promote", "session", "open", "refind", "capture", "row", "add"}
              => IsLive(v)
        /\ ppc[v] \in {"guard", "create", "promote"}
              => pseen[v] \in {"CANDIDATE", "FAILED", "QUEUED"}
        /\ kpc[v] = "measure" => IsLive(v)
        /\ epc[v] \in {"idle", "CANDIDATE", "FAILED"}
        /\ copyState[v] = "PARTIAL_KEPT" => IsLive(v)

\* The writes that leave a kept partial alone.
SafeOps == {o \in Ops : /\ o.from # "PARTIAL_KEPT"
                        /\ o.to = "PARTIAL_KEPT" => IsLive(o.on)}
ScriptsSafe == script \in [Actors -> Seq(SafeOps)]

\* The type invariant in parts; the type of script follows from ScriptsSafe.
RowTypes ==
    /\ content \in [Videos -> Contents]
    /\ copyState \in [Videos -> CopyStates]
    /\ parked \in [Videos -> {"no", "waiting", "expired"}]
    /\ sessState \in [Sessions -> SessionStates]
    /\ sessVideo \in [Sessions -> Videos \cup {NoVideo}]
    /\ capStatus \in [Captures -> CaptureStatuses]
    /\ capVideo \in [Captures -> Videos \cup {NoVideo}]
    /\ capSession \in [Captures -> Sessions \cup {NoSession}]
    /\ probeRow \in [Videos -> BOOLEAN]
    /\ dlRow \in [Videos -> {"none"} \cup ActiveRow]
    /\ verifyRow \in [Videos -> BOOLEAN]
DiskTypes ==
    /\ media \in [Videos -> Nat] /\ fresh \in [Videos -> Nat] /\ prior \in [Videos -> Nat]
    /\ air \in [Videos -> {"upcoming", "live", "ended"}]
    /\ aired \in [Videos -> Nat]
CaptureTypes ==
    /\ bull \in [Captures -> {"absent", "waiting", "active"}]
    /\ cpc \in [Captures -> CaptureSteps]
    /\ cseen \in [Captures -> CopyStates]
    /\ csess \in [Captures -> Sessions \cup {NoSession}]
    /\ ctl \in [Captures -> CtlStates]
    /\ lpc \in [Captures -> ListenSteps]
ProbeTypes ==
    /\ probeBull \in [Videos -> {"absent", "waiting", "active", "again", "last"}]
    /\ ppc \in [Videos -> ProbeSteps]
    /\ pseen \in [Videos -> CopyStates]
    /\ psess \in [Videos -> Sessions \cup {NoSession}]
    /\ scan \in [Videos -> {"idle", "add"}]
    /\ sweepTodo \in [Actors -> SUBSET Videos]
    /\ kpc \in [Videos -> CheckSteps]
    /\ ksess \in [Videos -> Sessions \cup {NoSession}]
    /\ epc \in [Videos -> {"idle"} \cup CopyStates]
BootTypes ==
    /\ phase \in Phases
    /\ rowTodo \subseteq (Captures \cup Videos)
    /\ sessTodo \subseteq (Sessions \X CopyStates)
    /\ faults \in [FaultKinds \cup {"any"} -> Nat]
Types == RowTypes /\ DiskTypes /\ CaptureTypes /\ ProbeTypes /\ BootTypes

LiveInv == Types /\ RowsLinked /\ HopsLinked /\ ScriptsSafe

\* What a step may do to the videos, and to what was recorded of them.
CopyMoves ==
    /\ UNCHANGED copyState \/ Lifecycle!Next
    /\ \A v \in Videos : copyState[v] = "PARTIAL_KEPT" => copyState'[v] = "PARTIAL_KEPT"
DiskMoves ==
    \A v \in Videos : Largest(v)' >= Largest(v) \/ media'[v] >= Largest(v)

\* What every step keeps.
Kept == Types' /\ RowsLinked' /\ HopsLinked' /\ ScriptsSafe' /\ CopyMoves /\ DiskMoves

-----------------------------------------------------------------------------
\* The writes an actor owes

\* The hops and settlements of the finalizers are writes of the model.
LEMMA HopIsOp ==
  ASSUME NEW v \in Videos, NEW from, NEW to, <<from, to>> \in Lifecycle!CopyEdges,
         NEW op \in {"hop", "chain", "gate"}
  PROVE  [op |-> op, on |-> v, from |-> from, to |-> to] \in Ops
BY DEF Ops, HopOps, CopyStates, Lifecycle!CopyStates, Lifecycle!CopyEdges

LEMMA SettleIsOp ==
  ASSUME NEW s \in Sessions \cup {NoSession}, NEW from \in {"active", "pending"},
         NEW to \in SettledSession \cup {"ENDED_PENDING"}
  PROVE  Settle(s, from, to) \in Ops
BY DEF Ops, SessionOps, Settle

LEMMA RowIsOp ==
  ASSUME NEW c \in Captures, NEW to \in {"QUEUED", "COMPLETED", "FAILED", "CANCELED"}
  PROVE  Row(c, to) \in Ops
BY DEF Ops, RowOps, Row

LEMMA VideoIsOp ==
  ASSUME NEW v \in Videos
  PROVE  Verify(v) \in Ops /\ Publication(v) \in Ops
BY DEF Ops, VideoOps, Verify, Publication

\* A hop that starts elsewhere, and ends elsewhere or is of a LIVE broadcast, is
\* safe; so is every write that is no hop.
LEMMA SafeHop ==
  ASSUME NEW v \in Videos, NEW from, NEW to, <<from, to>> \in Lifecycle!CopyEdges,
         from # "PARTIAL_KEPT", to = "PARTIAL_KEPT" => IsLive(v)
  PROVE  /\ Hop(v, from, to) \in SafeOps
         /\ ChainedHop(v, from, to) \in SafeOps
         /\ Gate(v, from, to) \in SafeOps
BY HopIsOp DEF SafeOps, Hop, ChainedHop, Gate

LEMMA SafeSettle ==
  ASSUME NEW s \in Sessions \cup {NoSession}, NEW from \in {"active", "pending"},
         NEW to \in SettledSession \cup {"ENDED_PENDING"}
  PROVE  Settle(s, from, to) \in SafeOps
<1>1. Settle(s, from, to) \in Ops
  BY SettleIsOp
<1> QED BY <1>1 DEF SafeOps, Settle, SettledSession

LEMMA SafeRow ==
  ASSUME NEW c \in Captures, NEW to \in {"QUEUED", "COMPLETED", "FAILED", "CANCELED"}
  PROVE  Row(c, to) \in SafeOps
<1>1. Row(c, to) \in Ops
  BY RowIsOp
<1> QED BY <1>1 DEF SafeOps, Row

LEMMA SafeVideoOp ==
  ASSUME NEW v \in Videos
  PROVE  Verify(v) \in SafeOps /\ Publication(v) \in SafeOps
<1>1. Verify(v) \in Ops /\ Publication(v) \in Ops
  BY VideoIsOp
<1> QED BY <1>1 DEF SafeOps, Verify, Publication

\* Lists of safe writes.
LEMMA Listed ==
  ASSUME NEW S, NEW a \in S, NEW b \in S, NEW c \in S
  PROVE  <<>> \in Seq(S) /\ <<a>> \in Seq(S) /\ <<a, b>> \in Seq(S)
         /\ <<a, b, c>> \in Seq(S)
OBVIOUS

LEMMA ListsJoined ==
  ASSUME NEW S, NEW p \in Seq(S), NEW q \in Seq(S)
  PROVE  p \o q \in Seq(S)
OBVIOUS

LEMMA ListsShrink ==
  ASSUME NEW S, NEW p \in Seq(S), p # <<>>
  PROVE  Head(p) \in S /\ Tail(p) \in Seq(S)
OBVIOUS

LEMMA ListsWiden ==
  ASSUME NEW S, NEW T, S \subseteq T, NEW p \in Seq(S)
  PROVE  p \in Seq(T)
OBVIOUS

\* Every finalizer of a LIVE broadcast is a list of safe writes.
LEMMA FinalizersSafe ==
  ASSUME NEW v, IsLive(v), NEW s \in Sessions \cup {NoSession}
  PROVE  /\ FinalizeNormal(s, v) \in Seq(SafeOps)
         /\ FinalizeInterrupted(s, v) \in Seq(SafeOps)
         /\ FinalizePending(s, v) \in Seq(SafeOps)
         /\ \A to \in {"FAILED", "CANDIDATE"} : FinalizeEmpty(s, v, to) \in Seq(SafeOps)
         /\ ResolveVerified(s, v) \in Seq(SafeOps)
         /\ ResolvePartial(s, v) \in Seq(SafeOps)
         /\ SettleForRecapture(s, v) \in Seq(SafeOps)
         /\ CloseOut(v) \in Seq(SafeOps)
<1> USE Listed
<1>1. v \in Videos
  BY DEF IsLive
<1>2. /\ ChainedHop(v, "DOWNLOADING", "VERIFYING") \in SafeOps
      /\ Hop(v, "DOWNLOADING", "PARTIAL_KEPT") \in SafeOps
      /\ Hop(v, "DOWNLOADING", "AWAITING_VERIFY") \in SafeOps
      /\ Hop(v, "DOWNLOADING", "FAILED") \in SafeOps
      /\ Hop(v, "DOWNLOADING", "CANDIDATE") \in SafeOps
      /\ Hop(v, "DOWNLOADING", "QUEUED") \in SafeOps
      /\ Gate(v, "AWAITING_VERIFY", "VERIFYING") \in SafeOps
      /\ Gate(v, "AWAITING_VERIFY", "PARTIAL_KEPT") \in SafeOps
      /\ Gate(v, "QUEUED", "DOWNLOADING") \in SafeOps
  BY <1>1, SafeHop DEF Lifecycle!CopyEdges
<1>3. \A from \in {"active", "pending"},
         to \in {"ENDED_NORMAL", "ENDED_INTERRUPTED", "ENDED_PENDING", "FAILED"} :
            Settle(s, from, to) \in SafeOps
  BY SafeSettle DEF SettledSession
<1>4. Verify(v) \in SafeOps /\ Publication(v) \in SafeOps
  BY <1>1, SafeVideoOp
<1> HIDE DEF SafeOps
<1>5. FinalizeNormal(s, v) \in Seq(SafeOps)
  BY <1>2, <1>3 DEF FinalizeNormal
<1>6. FinalizeInterrupted(s, v) \in Seq(SafeOps)
  BY <1>2, <1>3 DEF FinalizeInterrupted
<1>7. FinalizePending(s, v) \in Seq(SafeOps)
  BY <1>2, <1>3 DEF FinalizePending
<1>8. ASSUME NEW to \in {"FAILED", "CANDIDATE"}
      PROVE  FinalizeEmpty(s, v, to) \in Seq(SafeOps)
  BY <1>2, <1>3 DEF FinalizeEmpty
<1>9. ResolveVerified(s, v) \in Seq(SafeOps)
  BY <1>2, <1>3, <1>4 DEF ResolveVerified
<1>10. ResolvePartial(s, v) \in Seq(SafeOps)
  BY <1>2, <1>3 DEF ResolvePartial
<1>11. SettleForRecapture(s, v) \in Seq(SafeOps)
  BY <1>2, <1>3 DEF SettleForRecapture
<1>12. CloseOut(v) \in Seq(SafeOps)
  BY <1>2, <1>4 DEF CloseOut
<1> QED BY <1>5, <1>6, <1>7, <1>8, <1>9, <1>10, <1>11, <1>12

\* Marking broadcasts LIVE leaves what was safe safe.
LEMMA SafeStays ==
  ASSUME ScriptsSafe, \A v : IsLive(v) => IsLive(v)'
  PROVE  SafeOps \subseteq SafeOps' /\ script \in [Actors -> Seq(SafeOps')]
<1>1. SafeOps \subseteq SafeOps'
  BY DEF SafeOps
<1>2. ASSUME NEW a \in Actors
      PROVE  script[a] \in Seq(SafeOps')
  BY <1>1, ListsWiden DEF ScriptsSafe
<1> QED BY <1>1, <1>2 DEF ScriptsSafe

-----------------------------------------------------------------------------
\* The value spaces and the groups of variables are expanded throughout; what
\* an action does is cited where it is used.
USE DEF NoSession, NoCapture, FaultKinds, Contents, ActiveSession, SettledSession,
        SessionStates, ActiveRow, CaptureStatuses, CtlStates, Phases, CaptureSteps,
        ListenSteps, ProbeSteps, CheckSteps, CopyStates, Lifecycle!CopyStates

USE DEF sessVars, capVars, diskVars, airVars, runVars, probeVars, bootVars, archiveVars,
        checkVars, captureFrame, quietFrame, runFrame, listenFrame, probeFrame, rowsFrame,
        detectFrame, checkFrame, archiveFrame, videoFrame, bootFrame, airFrame, stopFrame

\* The invariant implies the type invariant.
LEMMA InvTypes == LiveInv => TypeOK
<1>1. Seq(SafeOps) \subseteq Seq(Ops)
  BY ListsWiden DEF SafeOps
<1>2. ScriptsSafe => script \in [Actors -> Seq(Ops)]
  BY <1>1 DEF ScriptsSafe
<1> HIDE DEF CopyStates, Lifecycle!CopyStates, Contents, ActiveRow, CaptureStatuses,
             SessionStates, CtlStates, Phases, CaptureSteps, ListenSteps, ProbeSteps,
             CheckSteps, FaultKinds, NoSession
<1> QED BY <1>2, Zenon DEF LiveInv, TypeOK, Types, RowTypes, DiskTypes, CaptureTypes,
           ProbeTypes, BootTypes

\* Nothing recorded yet satisfies the invariant.
LEMMA InitInv == Init => LiveInv
<1> SUFFICES ASSUME Init PROVE LiveInv
  OBVIOUS
<1>1. RowTypes
  BY DEF Init, RowTypes
<1>2. DiskTypes
  BY DEF Init, DiskTypes
<1>3. CaptureTypes /\ ProbeTypes /\ BootTypes
  BY DEF Init, CaptureTypes, ProbeTypes, BootTypes
<1>4. RowsLinked /\ HopsLinked
  BY IdsAssumption DEF Init, RowsLinked, HopsLinked
<1>5. ScriptsSafe
  BY Listed DEF Init, ScriptsSafe
<1> QED BY <1>1, <1>2, <1>3, <1>4, <1>5 DEF LiveInv, Types

\* What a step that leaves the videos, the disk or the scripts alone keeps.
LEMMA CopyStays ==
  ASSUME UNCHANGED copyState
  PROVE  CopyMoves
BY DEF CopyMoves

LEMMA DiskStays ==
  ASSUME DiskTypes, UNCHANGED diskVars
  PROVE  DiskMoves
BY DEF DiskMoves, Largest, DiskTypes

LEMMA ScriptsStay ==
  ASSUME ScriptsSafe, UNCHANGED <<content, script>>
  PROVE  ScriptsSafe'
BY DEF ScriptsSafe, SafeOps, IsLive

\* An actor that owes a safe list of writes keeps the scripts safe.
LEMMA ScriptsOwe ==
  ASSUME ScriptsSafe, UNCHANGED content, NEW a \in Actors, NEW ops \in Seq(SafeOps),
         script' = [script EXCEPT ![a] = ops]
  PROVE  ScriptsSafe'
<1>1. SafeOps' = SafeOps
  BY DEF SafeOps, IsLive
<1>2. script' \in [Actors -> Seq(SafeOps)]
  BY DEF ScriptsSafe
<1> QED BY <1>1, <1>2 DEF ScriptsSafe

\* A compare-and-set along an edge is a hop of the lifecycle, or nothing, and
\* keeps what is PARTIAL_KEPT.
LEMMA TransitionCopyHops ==
  ASSUME copyState \in [Videos -> CopyStates], NEW v, NEW from, NEW to,
         <<from, to>> \in Lifecycle!CopyEdges, from # "PARTIAL_KEPT",
         TransitionCopy(v, from, to)
  PROVE  /\ copyState' \in [Videos -> CopyStates]
         /\ CopyMoves
         /\ \A w \in Videos : copyState'[w] \in {copyState[w], to}
         /\ \A w \in Videos : w # v => copyState'[w] = copyState[w]
<1>1. to \in CopyStates
  BY DEF Lifecycle!CopyEdges
<1>2. CASE copyState[v] = from /\ v \in Videos
  <2>1. copyState' = [copyState EXCEPT ![v] = to]
    BY <1>2 DEF TransitionCopy
  <2>2. Lifecycle!Next
    BY <1>1, <1>2, <2>1 DEF Lifecycle!Next, Lifecycle!Hop
  <2> QED BY <1>1, <1>2, <2>1, <2>2 DEF CopyMoves
<1>3. CASE copyState[v] # from \/ v \notin Videos
  <2>1. copyState' = copyState
    BY <1>3 DEF TransitionCopy
  <2> QED BY <2>1 DEF CopyMoves
<1> QED BY <1>2, <1>3

\* Publishing keeps what was recorded.
LEMMA PublishKeeps ==
  ASSUME DiskTypes, NEW v, Publish(v)
  PROVE  /\ media' \in [Videos -> Nat]
         /\ fresh' \in [Videos -> Nat]
         /\ prior' \in [Videos -> Nat]
         /\ DiskMoves
<1>1. \A w \in Videos : Largest(w) \in Nat
  BY DEF DiskTypes, Largest
<1>2. /\ media' = [media EXCEPT ![v] = IF Largest(v) > 0 THEN Largest(v) ELSE @]
      /\ fresh' = [fresh EXCEPT ![v] = 0]
      /\ prior' = [prior EXCEPT ![v] = 0]
  BY DEF Publish
<1>3. /\ media' \in [Videos -> Nat]
      /\ fresh' \in [Videos -> Nat]
      /\ prior' \in [Videos -> Nat]
  BY <1>1, <1>2 DEF DiskTypes
<1>4. ASSUME NEW w \in Videos
      PROVE  Largest(w)' >= Largest(w) \/ media'[w] >= Largest(w)
  <2>1. CASE w = v
    <3>1. media'[w] = IF Largest(w) > 0 THEN Largest(w) ELSE media[w]
      BY <1>2, <2>1 DEF DiskTypes
    <3>2. media[w] \in Nat
      BY DEF DiskTypes
    <3> QED BY <1>1, <3>1, <3>2
  <2>2. CASE w # v
    <3>1. Largest(w)' = Largest(w)
      BY <1>2, <2>2 DEF DiskTypes, Largest
    <3> QED BY <1>1, <3>1
  <2> QED BY <2>1, <2>2
<1> QED BY <1>3, <1>4 DEF DiskMoves

\* What a step keeps that writes neither videos, disk nor scripts.
LEMMA QuietKeeps ==
  ASSUME LiveInv, UNCHANGED <<content, copyState, diskVars, script>>
  PROVE  ScriptsSafe' /\ CopyMoves /\ DiskMoves
BY CopyStays, DiskStays, ScriptsStay DEF LiveInv, Types

\* What a step of an execution, a listener or the boot keeps of the probes.
LEMMA HopsStay ==
  ASSUME HopsLinked, UNCHANGED <<content, copyState, ppc, pseen, kpc, epc>>
  PROVE  HopsLinked'
BY DEF HopsLinked, IsLive

\* A hop that neither leaves nor reaches PARTIAL_KEPT.
LEMMA HopKeeps ==
  ASSUME LiveInv, NEW v, NEW from, NEW to, <<from, to>> \in Lifecycle!CopyEdges,
         from # "PARTIAL_KEPT", to # "PARTIAL_KEPT", TransitionCopy(v, from, to),
         UNCHANGED <<content, ppc, pseen, kpc>>,
         \A w \in Videos : epc'[w] \in {epc[w], "idle"}
  PROVE  copyState' \in [Videos -> CopyStates] /\ CopyMoves /\ HopsLinked'
<1>1. /\ copyState' \in [Videos -> CopyStates]
      /\ CopyMoves
      /\ \A w \in Videos : copyState'[w] \in {copyState[w], to}
  BY TransitionCopyHops DEF LiveInv, Types, RowTypes
<1>2. HopsLinked'
  BY <1>1 DEF LiveInv, HopsLinked, IsLive
<1> QED BY <1>1, <1>2

LEMMA ActorsAre ==
  /\ \A c \in Captures : Run(c) \in Actors /\ Listener(c) \in Actors
  /\ \A v \in Videos : Probe(v) \in Actors /\ Check(v) \in Actors
  /\ Boot \in Actors
BY DEF Actors, Run, Listener, Probe, Check, Boot

\* A verdict on a row may come before or after the writes of a finalizer.
LEMMA WithRow ==
  ASSUME NEW c \in Captures, NEW to \in {"QUEUED", "COMPLETED", "FAILED", "CANCELED"},
         NEW p \in Seq(SafeOps)
  PROVE  /\ <<Row(c, to)>> \in Seq(SafeOps)
         /\ <<Row(c, to)>> \o p \in Seq(SafeOps)
         /\ p \o <<Row(c, to)>> \in Seq(SafeOps)
<1>1. Row(c, to) \in SafeOps
  BY SafeRow
<1>2. <<Row(c, to)>> \in Seq(SafeOps)
  BY <1>1, Listed
<1> QED BY <1>2, ListsJoined

-----------------------------------------------------------------------------
\* Captures

\* Taking an execution and its row keeps the invariant.
LEMMA TakeKeeps ==
  ASSUME LiveInv, NEW c \in Captures, PickUp(c) \/ Load(c)
  PROVE  Kept
<1>1. ScriptsSafe' /\ CopyMoves /\ DiskMoves /\ HopsLinked'
  BY QuietKeeps, HopsStay DEF LiveInv, PickUp, Load
<1>2. CASE PickUp(c)
  <2>1. Types'
    BY <1>2 DEF LiveInv, Types, RowTypes, DiskTypes, CaptureTypes, ProbeTypes, BootTypes,
                PickUp, Goto
  <2>2. RowsLinked'
    BY <1>2 DEF LiveInv, Types, RowTypes, CaptureTypes, RowsLinked, IsLive, PickUp, Goto
  <2> QED BY <1>1, <2>1, <2>2 DEF Kept
<1>3. CASE Load(c)
  <2>1. RowTypes' /\ DiskTypes' /\ ProbeTypes' /\ BootTypes'
    BY <1>3 DEF LiveInv, Types, RowTypes, DiskTypes, ProbeTypes, BootTypes, Load, Goto, Leave
  <2>2. copyState[capVideo[c]] \in CopyStates /\ capSession[c] \in Sessions \cup {NoSession}
    BY <1>3 DEF LiveInv, Types, RowTypes, RowsLinked, IsLive, Load
  <2>3. CaptureTypes'
    BY <1>3, <2>2 DEF LiveInv, Types, CaptureTypes, Load, Goto, Leave
  <2>4. RowsLinked'
    BY <1>3 DEF LiveInv, Types, RowTypes, CaptureTypes, RowsLinked, IsLive, Load, Goto, Leave
  <2> QED BY <1>1, <2>1, <2>3, <2>4 DEF Kept, Types
<1> QED BY <1>2, <1>3

\* Beginning the video, or giving the capture up, keeps the invariant.
LEMMA BeginKeeps ==
  ASSUME LiveInv, NEW c \in Captures, Begin(c) \/ Reread(c)
  PROVE  Kept
<1>1. IsLive(capVideo[c]) /\ csess[c] \in Sessions \cup {NoSession}
  BY DEF LiveInv, Types, CaptureTypes, RowsLinked, Begin, Reread
<1>2. <<Row(c, "FAILED")>> \o FinalizeEmpty(csess[c], capVideo[c], "FAILED") \in Seq(SafeOps)
  BY <1>1, FinalizersSafe, WithRow
<1>3. ScriptsSafe'
  <2>1. UNCHANGED script \/ FailNotCapturable(c)
    BY DEF Begin, Reread
  <2>2. UNCHANGED content
    BY DEF Begin, Reread
  <2> QED BY <1>2, <2>1, <2>2, ScriptsStay, ScriptsOwe, ActorsAre
          DEF LiveInv, FailNotCapturable, Owe
<1>4. UNCHANGED diskVars /\ DiskMoves
  BY DiskStays DEF LiveInv, Types, Begin, Reread
<1>5. copyState' \in [Videos -> CopyStates] /\ CopyMoves /\ HopsLinked'
  <2>1. CASE TransitionCopy(capVideo[c], "QUEUED", "DOWNLOADING") /\ Begin(c)
    BY <2>1, HopKeeps DEF Begin, Lifecycle!CopyEdges
  <2>2. CASE UNCHANGED copyState
    BY <2>2, CopyStays, HopsStay DEF Begin, Reread, LiveInv, Types, RowTypes
  <2> QED BY <2>1, <2>2 DEF Begin, Reread
<1>6. UNCHANGED <<content, parked, sessVars, capVars, probeRow, dlRow, verifyRow, epc,
                  airVars, bootVars, faults, probeBull, probeVars, scan, sweepTodo,
                  checkVars, bull, cseen, csess, ctl, lpc>>
  BY DEF Begin, Reread
<1>7. cpc[c] # "idle" /\ \E step \in {"prepare", "reread", "settle"} : Goto(c, step)
  BY DEF Begin, Reread
<1>8. Types'
  BY <1>4, <1>5, <1>6, <1>7 DEF LiveInv, Types, RowTypes, DiskTypes, CaptureTypes, ProbeTypes,
     BootTypes, Goto
<1>9. RowsLinked'
  BY <1>6, <1>7 DEF LiveInv, Types, CaptureTypes, RowsLinked, IsLive, Goto
<1> QED BY <1>3, <1>4, <1>5, <1>8, <1>9 DEF Kept

\* The prior attempt is set aside.
LEMMA PrepareKeeps ==
  ASSUME LiveInv, NEW c \in Captures, Prepare(c)
  PROVE  Kept
<1>1. content' = content
  BY DEF LiveInv, Types, RowTypes, RowsLinked, IsLive, Prepare, MarkContentTypeLive
<1>2. UNCHANGED <<script, copyState, ppc, pseen, kpc, epc>>
  BY DEF Prepare
<1>3. ScriptsSafe' /\ CopyMoves /\ HopsLinked'
  BY <1>1, <1>2, ScriptsStay, CopyStays, HopsStay DEF LiveInv
<1>4. Types'
  <2>1. RowTypes' /\ CaptureTypes' /\ ProbeTypes' /\ BootTypes'
    BY <1>1 DEF LiveInv, Types, RowTypes, CaptureTypes, ProbeTypes, BootTypes, Prepare, Goto
  <2>2. DiskTypes'
    BY DEF LiveInv, Types, DiskTypes, Prepare, PreservePriorAttempt, Largest
  <2> QED BY <2>1, <2>2 DEF Types
<1>5. RowsLinked'
  BY <1>1 DEF LiveInv, Types, CaptureTypes, RowsLinked, IsLive, Prepare, Goto
<1>6. DiskMoves
  BY DEF LiveInv, Types, DiskTypes, DiskMoves, Largest, Prepare, PreservePriorAttempt
<1> QED BY <1>3, <1>4, <1>5, <1>6 DEF Kept

\* The session is marked, reused or created anew.
LEMMA MarkKeeps ==
  ASSUME LiveInv, NEW c \in Captures,
         MarkSessionCapturing(c) \/ Reuse(c) \/ Adopt(c)
  PROVE  Kept
<1>1. ScriptsSafe' /\ CopyMoves /\ DiskMoves /\ HopsLinked'
  BY QuietKeeps, HopsStay DEF LiveInv, MarkSessionCapturing, Reuse, Adopt
<1>2. CASE MarkSessionCapturing(c)
  <2>1. IsLive(capVideo[c])
    BY <1>2 DEF LiveInv, RowsLinked, MarkSessionCapturing
  <2>2. \/ /\ sessState[csess[c]] \in ActiveSession
           /\ sessState' = [sessState EXCEPT ![csess[c]] = "CAPTURING"]
           /\ Goto(c, "run") /\ UNCHANGED <<sessVideo, csess>>
        \/ Goto(c, "reuse") /\ UNCHANGED <<sessVars, csess>>
        \/ \E t \in Sessions :
              /\ sessState' = [sessState EXCEPT ![t] = "CAPTURING"]
              /\ sessVideo' = [sessVideo EXCEPT ![t] = capVideo[c]]
              /\ csess' = [csess EXCEPT ![c] = t]
              /\ Goto(c, "run")
    BY <1>2 DEF MarkSessionCapturing, CreateSession
  <2>3. UNCHANGED <<content, copyState, diskVars, captureFrame, capVars, bull, cseen,
                    ctl, script, faults>>
    BY <1>2 DEF MarkSessionCapturing
  <2>4. DiskTypes' /\ ProbeTypes' /\ BootTypes'
    BY <2>3 DEF LiveInv, Types, DiskTypes, ProbeTypes, BootTypes
  <2>5. RowTypes'
    BY <2>1, <2>2, <2>3 DEF LiveInv, Types, RowTypes, IsLive
  <2>6. CaptureTypes'
    BY <2>2, <2>3 DEF LiveInv, Types, CaptureTypes, Goto
  <2>7. \A s \in Sessions : IsLive(sessVideo[s]) => IsLive(sessVideo'[s])
    BY <2>1, <2>2, <2>3 DEF LiveInv, Types, RowTypes
  <2>8. \A s \in Sessions : sessState'[s] # "ABSENT" => IsLive(sessVideo'[s])
    BY <2>1, <2>2, <2>3 DEF LiveInv, Types, RowTypes, RowsLinked
  <2>9. \A d \in Captures : /\ cpc'[d] # "idle" => cpc[d] # "idle"
                            /\ cpc'[d] = "adopt" => cpc[d] = "adopt" /\ csess'[d] = csess[d]
    BY <1>2, <2>2 DEF LiveInv, Types, CaptureTypes, Goto, MarkSessionCapturing
  <2>10. \A d \in Captures :
            cpc'[d] = "adopt" => csess'[d] \in Sessions /\ IsLive(sessVideo'[csess'[d]])
    BY <2>2, <2>7, <2>9 DEF LiveInv, Types, RowTypes, CaptureTypes, RowsLinked
  <2>11. RowsLinked'
    BY <2>3, <2>7, <2>8, <2>9, <2>10 DEF LiveInv, Types, BootTypes, RowsLinked, IsLive
  <2> QED BY <1>1, <2>4, <2>5, <2>6, <2>11 DEF Kept, Types
<1>3. CASE Reuse(c)
  <2>1. RowTypes' /\ DiskTypes' /\ ProbeTypes' /\ BootTypes'
    BY <1>3 DEF LiveInv, Types, RowTypes, DiskTypes, ProbeTypes, BootTypes, Reuse
  <2>2. CaptureTypes'
    BY <1>3 DEF LiveInv, Types, CaptureTypes, Reuse, ActiveSessions, Goto, Leave
  <2>3. RowsLinked'
    BY <1>3 DEF LiveInv, Types, RowTypes, CaptureTypes, RowsLinked, IsLive, ActiveSessions,
       Reuse, Goto, Leave
  <2> QED BY <1>1, <2>1, <2>2, <2>3 DEF Kept, Types
<1>4. CASE Adopt(c)
  <2>1. Types'
    BY <1>4 DEF LiveInv, Types, RowTypes, DiskTypes, CaptureTypes, ProbeTypes, BootTypes,
       Adopt, Goto
  <2>2. RowsLinked'
    BY <1>4 DEF LiveInv, Types, RowTypes, CaptureTypes, RowsLinked, IsLive, Adopt, Goto
  <2> QED BY <1>1, <2>1, <2>2 DEF Kept
<1> QED BY <1>2, <1>3, <1>4

\* An event is counted.
LEMMA FaultCounted ==
  ASSUME BootTypes, NEW k \in FaultKinds, Fault(k)
  PROVE  faults' \in [FaultKinds \cup {"any"} -> Nat]
BY DEF BootTypes, Fault

\* An answer without a status is counted, and nothing else is.
LEMMA MislabelCounted ==
  ASSUME BootTypes, Mislabels
  PROVE  /\ faults' \in [FaultKinds \cup {"any"} -> Nat]
         /\ faults'["unlabelled"] # 0
         /\ \A k \in FaultKinds : k # "unlabelled" => faults'[k] = faults[k]
BY DEF BootTypes, Mislabels, FaultKinds

LEMMA MeasureCounted ==
  ASSUME BootTypes, NEW v, NEW verdict, Measured(v, verdict)
  PROVE  /\ UNCHANGED faults \/ Mislabels
         /\ faults' \in [FaultKinds \cup {"any"} -> Nat]
         /\ \A k \in FaultKinds : k # "unlabelled" => faults'[k] = faults[k]
<1>1. UNCHANGED faults \/ Mislabels
  BY DEF Measured
<1> QED BY <1>1, MislabelCounted DEF BootTypes

\* A recording that goes on, or ends with writes that are safe.
LEMMA RecordingKeeps ==
  ASSUME LiveInv, NEW c \in Captures, UNCHANGED runFrame,
         \/ UNCHANGED cpc
         \/ cpc[c] # "idle" /\ \E step \in CaptureSteps \ {"adopt"} : Goto(c, step),
         faults' \in [FaultKinds \cup {"any"} -> Nat],
         DiskTypes', DiskMoves,
         \/ UNCHANGED script
         \/ \E ops \in Seq(SafeOps) : Owe(Run(c), ops)
  PROVE  Kept
<1>1. UNCHANGED <<content, copyState, ppc, pseen, kpc, epc>>
  OBVIOUS
<1>2. CopyMoves /\ HopsLinked'
  BY <1>1, CopyStays, HopsStay DEF LiveInv
<1>3. ScriptsSafe'
  BY <1>1, ScriptsStay, ScriptsOwe, ActorsAre DEF LiveInv, Owe
<1>4. RowTypes' /\ ProbeTypes' /\ BootTypes'
  BY DEF LiveInv, Types, RowTypes, ProbeTypes, BootTypes
<1>5. CaptureTypes'
  BY DEF LiveInv, Types, CaptureTypes, Goto
<1>6. RowsLinked'
  BY DEF LiveInv, Types, CaptureTypes, RowsLinked, IsLive, Goto
<1> QED BY <1>2, <1>3, <1>4, <1>5, <1>6 DEF Kept, Types

\* What the verdict and the measurement of a capture owe is safe.
LEMMA VerdictSafe ==
  ASSUME LiveInv, NEW c \in Captures, cpc[c] # "idle",
         NEW to \in {"QUEUED", "COMPLETED", "FAILED", "CANCELED"}
  PROVE  LET v == capVideo[c]
             s == csess[c]
         IN  /\ <<Row(c, to)>> \in Seq(SafeOps)
             /\ <<Row(c, to)>> \o SettleForRecapture(s, v) \in Seq(SafeOps)
             /\ FinalizeInterrupted(s, v) \o <<Row(c, to)>> \in Seq(SafeOps)
             /\ FinalizeEmpty(s, v, "FAILED") \o <<Row(c, to)>> \in Seq(SafeOps)
             /\ FinalizeEmpty(s, v, "CANDIDATE") \o <<Row(c, to)>> \in Seq(SafeOps)
             /\ \A verdict : Finalization(verdict, s, v) \o <<Row(c, to)>> \in Seq(SafeOps)
<1>1. IsLive(capVideo[c]) /\ csess[c] \in Sessions \cup {NoSession}
  BY DEF LiveInv, Types, CaptureTypes, RowsLinked
<1>2. /\ FinalizeNormal(csess[c], capVideo[c]) \in Seq(SafeOps)
      /\ FinalizeInterrupted(csess[c], capVideo[c]) \in Seq(SafeOps)
      /\ FinalizePending(csess[c], capVideo[c]) \in Seq(SafeOps)
      /\ FinalizeEmpty(csess[c], capVideo[c], "FAILED") \in Seq(SafeOps)
      /\ FinalizeEmpty(csess[c], capVideo[c], "CANDIDATE") \in Seq(SafeOps)
      /\ SettleForRecapture(csess[c], capVideo[c]) \in Seq(SafeOps)
  BY <1>1, FinalizersSafe
<1>3. \A verdict : Finalization(verdict, csess[c], capVideo[c]) \in Seq(SafeOps)
  BY <1>2 DEF Finalization
<1> QED BY <1>2, <1>3, WithRow

\* yt-dlp is started, records, catches up, exits or hangs.
LEMMA RecordKeeps ==
  ASSUME LiveInv, NEW c \in Captures,
         SpawnFails(c) \/ Record(c) \/ Reclaim(c) \/ Exit(c) \/ Hang(c)
  PROVE  Kept
<1>1. cpc[c] # "idle" /\ UNCHANGED runFrame
  BY DEF SpawnFails, Record, Reclaim, Exit, Hang
<1>2. \/ UNCHANGED cpc
      \/ \E step \in CaptureSteps \ {"adopt"} : Goto(c, step)
  BY DEF SpawnFails, Record, Reclaim, Exit, Hang
<1>3. faults' \in [FaultKinds \cup {"any"} -> Nat]
  BY FaultCounted DEF LiveInv, Types, BootTypes, SpawnFails, Record, Reclaim, Exit, Hang
<1>4. UNCHANGED script \/ \E ops \in Seq(SafeOps) : Owe(Run(c), ops)
  BY <1>1, VerdictSafe DEF SpawnFails, Record, Reclaim, Exit, Hang
<1>5. DiskTypes'
  BY DEF LiveInv, Types, DiskTypes, SpawnFails, Record, Reclaim, Exit, Hang
<1>6. DiskMoves
  <2>1. CASE Record(c)
    BY <2>1 DEF LiveInv, Types, DiskTypes, DiskMoves, Largest, Record
  <2>2. CASE Reclaim(c)
    BY <2>2 DEF LiveInv, Types, DiskTypes, DiskMoves, Largest, Reclaim, Superseded
  <2>3. CASE UNCHANGED diskVars
    BY <2>3, DiskStays DEF LiveInv, Types
  <2> QED BY <2>1, <2>2, <2>3 DEF SpawnFails, Exit, Hang
<1> QED BY <1>1, <1>2, <1>3, <1>4, <1>5, <1>6, RecordingKeeps

\* The verdict on the child, the measurement, the last resort.
LEMMA VerdictKeeps ==
  ASSUME LiveInv, NEW c \in Captures, Verdict(c) \/ Measure(c)
  PROVE  Kept
<1>1. cpc[c] # "idle" /\ UNCHANGED runFrame
  BY DEF Verdict, Measure
<1>2. \E step \in CaptureSteps \ {"adopt"} : Goto(c, step)
  BY DEF Verdict, Measure, AbortForShutdown, AbortForCancel, Stalled, FinalizeExit
<1>3. faults' \in [FaultKinds \cup {"any"} -> Nat]
  <2>1. CASE Measure(c)
    BY <2>1, MeasureCounted DEF LiveInv, Types, Measure
  <2> QED BY <2>1 DEF LiveInv, Types, BootTypes, Verdict
<1>4. UNCHANGED script \/ \E ops \in Seq(SafeOps) : Owe(Run(c), ops)
  BY <1>1, VerdictSafe
     DEF Verdict, Measure, AbortForShutdown, AbortForCancel, Stalled, FinalizeExit
<1>5. UNCHANGED diskVars \/ Publish(capVideo[c])
  BY DEF Verdict, Measure, AbortForShutdown, AbortForCancel, Stalled, FinalizeExit
<1>6. DiskTypes' /\ DiskMoves
  BY <1>1, <1>5, PublishKeeps, DiskStays DEF LiveInv, Types, DiskTypes
<1> QED BY <1>1, <1>2, <1>3, <1>4, <1>6, RecordingKeeps

\* A statement of the natural end throws.
LEMMA FinalizeThrowsKeeps ==
  ASSUME LiveInv, NEW c \in Captures, FinalizeThrows(c)
  PROVE  Kept
<1>1. UNCHANGED runFrame /\ UNCHANGED cpc /\ UNCHANGED diskVars
  BY DEF FinalizeThrows
<1>2. faults' \in [FaultKinds \cup {"any"} -> Nat]
  BY FaultCounted DEF LiveInv, Types, FinalizeThrows
<1>3. <<Row(c, "FAILED")>> \in Seq(SafeOps)
  BY SafeRow, Listed
<1>4. \E ops \in Seq(SafeOps) : Owe(Run(c), ops)
  BY <1>3 DEF FinalizeThrows
<1>5. DiskTypes' /\ DiskMoves
  BY <1>1, DiskStays DEF LiveInv, Types, DiskTypes
<1> QED BY <1>1, <1>2, <1>4, <1>5, RecordingKeeps

\* An execution whose writes are made is gone.
LEMMA FinishKeeps ==
  ASSUME LiveInv, NEW c \in Captures, Finish(c)
  PROVE  Kept
<1>1. ScriptsSafe' /\ CopyMoves /\ DiskMoves /\ HopsLinked'
  BY QuietKeeps, HopsStay DEF LiveInv, Finish
<1>2. Types'
  BY DEF LiveInv, Types, RowTypes, DiskTypes, CaptureTypes, ProbeTypes, BootTypes, Finish,
     Leave, Goto
<1>3. RowsLinked'
  BY DEF LiveInv, Types, CaptureTypes, RowsLinked, IsLive, Finish, Leave, Goto
<1> QED BY <1>1, <1>2, <1>3 DEF Kept

-----------------------------------------------------------------------------
\* The writes

\* What a safe write is about.
LEMMA OpKinds ==
  ASSUME NEW o \in SafeOps
  PROVE  /\ o.op \in {"hop", "chain", "gate"} =>
               /\ o.on \in Videos /\ <<o.from, o.to>> \in Lifecycle!CopyEdges
               /\ o.from # "PARTIAL_KEPT"
               /\ o.to = "PARTIAL_KEPT" => IsLive(o.on)
         /\ o.op = "session" => o.to \in SettledSession \cup {"ENDED_PENDING"}
         /\ o.op = "row" => o.on \in Captures
                            /\ o.to \in {"QUEUED", "COMPLETED", "FAILED", "CANCELED"}
         /\ o.op \in {"verify", "publish"} => o.on \in Videos
BY DEF SafeOps, Ops, HopOps, SessionOps, RowOps, VideoOps

\* The write an actor owes next, and those it owes after it.
LEMMA OwedSafe ==
  ASSUME ScriptsSafe, NEW a \in Actors, script[a] # <<>>
  PROVE  Head(script[a]) \in SafeOps /\ Rest(a) \in Seq(SafeOps)
<1>1. script[a] \in Seq(SafeOps)
  BY DEF ScriptsSafe
<1> QED BY <1>1, ListsShrink DEF Rest

\* Each write leaves every variable of its right type; who it belongs to, and
\* what a step of the environment left, does not change.
LEMMA WriteHopKeeps ==
  ASSUME LiveInv, NEW a \in Actors, WriteHop(a),
         UNCHANGED <<content, ppc, pseen, kpc, epc>>
  PROVE  /\ copyState' \in [Videos -> CopyStates] /\ CopyMoves /\ HopsLinked'
         /\ parked' \in [Videos -> {"no", "waiting", "expired"}]
         /\ ScriptsSafe'
<1> DEFINE o == Head(script[a])
           won == copyState[o.on] = o.from
<1>1. o \in SafeOps /\ Rest(a) \in Seq(SafeOps)
  BY OwedSafe DEF LiveInv, WriteHop, Owes
<1>2. o.op \in {"hop", "chain", "gate"}
  BY DEF WriteHop, Owes
<1>3. /\ o.on \in Videos /\ <<o.from, o.to>> \in Lifecycle!CopyEdges
      /\ o.from # "PARTIAL_KEPT"
      /\ o.to = "PARTIAL_KEPT" => IsLive(o.on)
  BY <1>1, <1>2, OpKinds
<1>4. /\ TransitionCopy(o.on, o.from, o.to)
      /\ parked' = IF won /\ o.to = "AWAITING_VERIFY"
                   THEN [parked EXCEPT ![o.on] = "waiting"]
                   ELSE IF won THEN [parked EXCEPT ![o.on] = "no"] ELSE parked
      /\ script' = [script EXCEPT ![a] =
                       IF o.op = "chain" /\ won THEN <<Verify(o.on)>> \o Rest(a)
                       ELSE IF o.op = "gate" /\ ~won THEN <<>> ELSE Rest(a)]
  BY DEF WriteHop, Continue
<1> HIDE DEF o, won
<1>5. /\ copyState' \in [Videos -> CopyStates] /\ CopyMoves
      /\ \A w \in Videos : copyState'[w] \in {copyState[w], o.to}
      /\ \A w \in Videos : w # o.on => copyState'[w] = copyState[w]
  BY <1>3, <1>4, TransitionCopyHops DEF LiveInv, Types, RowTypes
<1>6. HopsLinked'
  BY <1>3, <1>5 DEF LiveInv, HopsLinked, IsLive
<1>7. parked' \in [Videos -> {"no", "waiting", "expired"}]
  BY <1>4 DEF LiveInv, Types, RowTypes
<1>8. <<>> \in Seq(SafeOps) /\ <<Verify(o.on)>> \o Rest(a) \in Seq(SafeOps)
  BY <1>1, <1>3, SafeVideoOp, Listed, ListsJoined
<1>9. ScriptsSafe'
  BY <1>1, <1>4, <1>8, ScriptsOwe DEF LiveInv
<1> QED BY <1>5, <1>6, <1>7, <1>9

\* A write of an actor keeps the invariant.
LEMMA WriteKeeps ==
  ASSUME LiveInv, NEW a \in Actors, Write(a)
  PROVE  Kept
<1>1. UNCHANGED <<content, probeRow, dlRow, bull, probeBull, airVars, bootVars, runVars,
                  lpc, probeVars, scan, sweepTodo, checkVars, epc, faults>>
  BY DEF Write
<1>2. CaptureTypes' /\ ProbeTypes' /\ BootTypes'
  BY <1>1 DEF LiveInv, Types, CaptureTypes, ProbeTypes, BootTypes
<1>3. CASE WriteHop(a)
  <2>1. /\ copyState' \in [Videos -> CopyStates] /\ CopyMoves /\ HopsLinked'
        /\ parked' \in [Videos -> {"no", "waiting", "expired"}]
        /\ ScriptsSafe'
    BY <1>1, <1>3, WriteHopKeeps
  <2>2. UNCHANGED <<sessVars, capVars, verifyRow, diskVars>>
    BY <1>3 DEF WriteHop
  <2>3. RowTypes' /\ DiskTypes'
    BY <1>1, <2>1, <2>2 DEF LiveInv, Types, RowTypes, DiskTypes
  <2>4. RowsLinked'
    BY <1>1, <2>2 DEF LiveInv, RowsLinked, IsLive
  <2> QED BY <1>2, <2>1, <2>2, <2>3, <2>4, DiskStays DEF LiveInv, Kept, Types
<1>4. CASE WriteSession(a) \/ WriteVerify(a) \/ WriteRow(a)
  <2>1. Head(script[a]) \in SafeOps /\ Rest(a) \in Seq(SafeOps)
    BY <1>4, OwedSafe DEF LiveInv, WriteSession, WriteVerify, WriteRow, Owes
  <2>2. UNCHANGED <<copyState, parked, sessVideo, capVideo, capSession, diskVars>>
        /\ Continue(a, Rest(a))
    BY <1>4 DEF WriteSession, WriteVerify, WriteRow
  <2>3. ScriptsSafe' /\ CopyMoves /\ DiskMoves /\ HopsLinked'
    BY <1>1, <2>1, <2>2, ScriptsOwe, CopyStays, DiskStays, HopsStay DEF LiveInv, Types, Continue
  <2>4. DiskTypes'
    BY <1>1, <2>2 DEF LiveInv, Types, DiskTypes
  <2>5. /\ sessState' \in [Sessions -> SessionStates]
        /\ \A s \in Sessions : sessState'[s] # "ABSENT" => sessState[s] # "ABSENT"
    <3>1. CASE WriteSession(a)
      <4>1. Head(script[a]).to \in SettledSession \cup {"ENDED_PENDING"}
        BY <3>1, <2>1, OpKinds DEF WriteSession, Owes
      <4>2. \/ sessState' = sessState
            \/ \E s \in Sessions : /\ sessState[s] # "ABSENT"
                                   /\ sessState' = [sessState EXCEPT ![s] = Head(script[a]).to]
        BY <3>1 DEF WriteSession
      <4> QED BY <4>1, <4>2 DEF LiveInv, Types, RowTypes
    <3>2. CASE WriteVerify(a) \/ WriteRow(a)
      BY <3>2 DEF LiveInv, Types, RowTypes, WriteVerify, WriteRow
    <3> QED BY <1>4, <3>1, <3>2
  <2>6. /\ capStatus' \in [Captures -> CaptureStatuses]
        /\ \A c \in Captures : capStatus'[c] # "ABSENT" => capStatus[c] # "ABSENT"
    <3>1. CASE WriteRow(a)
      <4>1. Head(script[a]).to \in {"QUEUED", "COMPLETED", "FAILED", "CANCELED"}
            /\ Head(script[a]).on \in Captures
        BY <3>1, <2>1, OpKinds DEF WriteRow, Owes
      <4>2. \/ capStatus' = capStatus
            \/ /\ capStatus[Head(script[a]).on] # "ABSENT"
               /\ capStatus' = [capStatus EXCEPT ![Head(script[a]).on] = Head(script[a]).to]
        BY <3>1 DEF WriteRow
      <4> QED BY <4>1, <4>2 DEF LiveInv, Types, RowTypes
    <3>2. CASE WriteVerify(a) \/ WriteSession(a)
      BY <3>2 DEF LiveInv, Types, RowTypes, WriteVerify, WriteSession
    <3> QED BY <1>4, <3>1, <3>2
  <2>7. verifyRow' \in [Videos -> BOOLEAN]
    BY <1>4 DEF LiveInv, Types, RowTypes, WriteSession, WriteVerify, WriteRow
  <2>8. RowTypes'
    BY <1>1, <2>2, <2>5, <2>6, <2>7 DEF LiveInv, Types, RowTypes
  <2>9. RowsLinked'
    BY <1>1, <2>2, <2>5, <2>6 DEF LiveInv, RowsLinked, IsLive
  <2> QED BY <1>2, <2>3, <2>4, <2>8, <2>9 DEF Kept, Types
<1>5. CASE WritePublication(a)
  <2> DEFINE v == Head(script[a]).on
  <2>1. Head(script[a]) \in SafeOps /\ Rest(a) \in Seq(SafeOps) /\ v \in Videos
    BY <1>5, OwedSafe, OpKinds DEF LiveInv, WritePublication, Owes
  <2>2. /\ Publish(v)
        /\ script' = [script EXCEPT ![a] = IF Largest(v) > 0 THEN Rest(a)
                                           ELSE <<Hop(v, "DOWNLOADING", "FAILED")>>]
        /\ UNCHANGED <<copyState, parked, sessVars, capVars, verifyRow>>
    BY <1>5 DEF WritePublication, Continue
  <2> HIDE DEF v
  <2>3. <<Hop(v, "DOWNLOADING", "FAILED")>> \in Seq(SafeOps)
    BY <2>1, SafeHop, Listed DEF Lifecycle!CopyEdges
  <2>4. ScriptsSafe' /\ CopyMoves /\ HopsLinked'
    BY <1>1, <2>1, <2>2, <2>3, ScriptsOwe, CopyStays, HopsStay DEF LiveInv
  <2>5. DiskTypes' /\ DiskMoves
    BY <1>1, <2>2, PublishKeeps DEF LiveInv, Types, DiskTypes
  <2>6. RowTypes'
    BY <1>1, <2>2 DEF LiveInv, Types, RowTypes
  <2>7. RowsLinked'
    BY <1>1, <2>2 DEF LiveInv, RowsLinked, IsLive
  <2> QED BY <1>2, <2>4, <2>5, <2>6, <2>7 DEF Kept, Types
<1> QED BY <1>3, <1>4, <1>5 DEF Write

\* So does a write whose failure is swallowed.
LEMMA SwallowedKeeps ==
  ASSUME LiveInv, NEW a \in Actors, WriteSwallowed(a)
  PROVE  Kept
<1>1. Rest(a) \in Seq(SafeOps)
  BY OwedSafe DEF LiveInv, WriteSwallowed, Owes
<1>2. /\ Fault("db") /\ script' = [script EXCEPT ![a] = Rest(a)]
      /\ UNCHANGED <<content, copyState, parked, sessVars, capVars, archiveVars, probeRow,
                     diskVars, bull, probeBull, airVars, bootVars, runVars, lpc,
                     probeVars, scan, sweepTodo, checkVars>>
  BY DEF WriteSwallowed, Continue
<1>3. ScriptsSafe' /\ CopyMoves /\ DiskMoves /\ HopsLinked'
  BY <1>1, <1>2, ScriptsOwe, CopyStays, DiskStays, HopsStay DEF LiveInv, Types
<1>4. faults' \in [FaultKinds \cup {"any"} -> Nat]
  BY <1>2, FaultCounted DEF LiveInv, Types
<1>5. Types'
  BY <1>2, <1>4 DEF LiveInv, Types, RowTypes, DiskTypes, CaptureTypes, ProbeTypes, BootTypes
<1>6. RowsLinked'
  BY <1>2 DEF LiveInv, RowsLinked, IsLive
<1> QED BY <1>3, <1>5, <1>6 DEF Kept

-----------------------------------------------------------------------------
\* The listener

\* An execution that stalls, and its listener's verdict, keep the invariant.
LEMMA ListenKeeps ==
  ASSUME LiveInv, NEW c \in Captures,
         Stall(c) \/ ListenRow(c) \/ ListenMark(c) \/ ListenRead(c) \/ ListenDone(c)
  PROVE  Kept
<1>1. UNCHANGED listenFrame
  BY DEF Stall, ListenRow, ListenMark, ListenRead, ListenDone
<1>2. DiskTypes' /\ DiskMoves /\ CopyMoves /\ HopsLinked' /\ ProbeTypes'
  BY <1>1, CopyStays, DiskStays, HopsStay DEF LiveInv, Types, DiskTypes, ProbeTypes
<1>3. faults' \in [FaultKinds \cup {"any"} -> Nat]
  BY FaultCounted
     DEF LiveInv, Types, BootTypes, Stall, ListenRow, ListenMark, ListenRead, ListenDone
<1>4. BootTypes'
  BY <1>1, <1>3 DEF LiveInv, Types, BootTypes
<1>5. /\ capStatus' \in [Captures -> CaptureStatuses]
      /\ \A d \in Captures : capStatus'[d] # "ABSENT" => capStatus[d] # "ABSENT"
      /\ UNCHANGED <<capVideo, capSession>>
  BY DEF LiveInv, Types, RowTypes, Stall, ListenRow, ListenMark, ListenRead, ListenDone
<1>6. RowTypes'
  BY <1>1, <1>5 DEF LiveInv, Types, RowTypes
<1>7. bull[c] # "absent" \/ lpc[c] # "idle"
  BY DEF Stall, ListenRow, ListenMark, ListenRead, ListenDone
<1>8. \E step \in ListenSteps : Listen(c, step)
  BY DEF Stall, ListenRow, ListenMark, ListenRead, ListenDone
<1>9. UNCHANGED bull \/ bull' = [bull EXCEPT ![c] = "absent"]
  BY DEF Stall, ListenRow, ListenMark, ListenRead, ListenDone
<1>10. CaptureTypes'
  BY <1>1, <1>8, <1>9 DEF LiveInv, Types, CaptureTypes, Listen
<1>11. RowsLinked'
  BY <1>1, <1>5, <1>7, <1>8, <1>9 DEF LiveInv, Types, CaptureTypes, RowsLinked, IsLive, Listen
<1>12. ScriptsSafe'
  <2>1. CASE UNCHANGED script
    BY <1>1, <2>1, ScriptsStay DEF LiveInv
  <2>2. CASE ListenRead(c)
    <3> DEFINE v == capVideo[c]
    <3>1. v \in Videos
      BY <1>7 DEF LiveInv, RowsLinked, IsLive
    <3> HIDE DEF v
    <3>2. Hop(v, "DOWNLOADING", "QUEUED") \in SafeOps
      BY <3>1, SafeHop DEF Lifecycle!CopyEdges
    <3>3. <<Hop(v, "DOWNLOADING", "QUEUED")>> \in Seq(SafeOps) /\ <<>> \in Seq(SafeOps)
      BY <3>2, Listed
    <3> USE DEF v
    <3>4. \A s \in Sessions, p \in Seq(SafeOps) :
             <<Settle(s, "active", "ENDED_INTERRUPTED")>> \o p \in Seq(SafeOps)
      BY SafeSettle, Listed, ListsJoined
    <3>5. \E ops \in Seq(SafeOps) : Owe(Listener(c), ops)
      BY <2>2, <3>3, <3>4 DEF ListenRead, ActiveSessions
    <3> QED BY <1>1, <3>5, ScriptsOwe, ActorsAre DEF LiveInv, Owe
  <2> QED BY <2>1, <2>2 DEF Stall, ListenRow, ListenMark, ListenDone
<1> QED BY <1>2, <1>4, <1>6, <1>10, <1>11, <1>12 DEF Kept, Types

-----------------------------------------------------------------------------
\* Probes

\* The scan, and BullMQ around a probe, keep the invariant.
LEMMA ScanKeeps ==
  ASSUME LiveInv, NEW v \in Videos,
         ScanRow(v) \/ ScanAdd(v) \/ ProbePickUp(v) \/ ProbeStall(v)
  PROVE  Kept
<1>1. UNCHANGED <<probeFrame, rowsFrame, pseen, psess, script, sweepTodo, faults>>
  BY DEF ScanRow, ScanAdd, ProbePickUp, ProbeStall
<1>2. ScriptsSafe' /\ CopyMoves /\ DiskMoves
  BY <1>1, QuietKeeps
<1>3. /\ UNCHANGED probeRow \/ probeRow' = [probeRow EXCEPT ![v] = TRUE]
      /\ UNCHANGED scan \/ \E s \in {"idle", "add"} : scan' = [scan EXCEPT ![v] = s]
      /\ \/ UNCHANGED probeBull
         \/ \E b \in {"absent", "waiting", "active", "again", "last"} :
               probeBull' = [probeBull EXCEPT ![v] = b]
      /\ UNCHANGED ppc \/ ppc' = [ppc EXCEPT ![v] = "look"]
  BY DEF LiveInv, Types, ProbeTypes, ScanRow, ScanAdd, ProbePickUp, ProbeStall, Step
<1>4. Types'
  <2>1. RowTypes'
    BY <1>1, <1>3 DEF LiveInv, Types, RowTypes
  <2>2. ProbeTypes'
    BY <1>1, <1>3 DEF LiveInv, Types, ProbeTypes
  <2>3. DiskTypes' /\ CaptureTypes' /\ BootTypes'
    BY <1>1 DEF LiveInv, Types, DiskTypes, CaptureTypes, BootTypes
  <2> QED BY <2>1, <2>2, <2>3 DEF Types
<1>5. RowsLinked'
  BY <1>1 DEF LiveInv, RowsLinked, IsLive
<1>6. HopsLinked'
  BY <1>1, <1>3 DEF LiveInv, Types, ProbeTypes, HopsLinked, IsLive
<1> QED BY <1>2, <1>4, <1>5, <1>6 DEF Kept

\* What a probe's step may do to its own execution.
ProbeMoves(v) ==
    /\ UNCHANGED probeRow \/ probeRow' = [probeRow EXCEPT ![v] = FALSE]
    /\ UNCHANGED probeBull \/ probeBull' = [probeBull EXCEPT ![v] = "absent"]
    /\ UNCHANGED pseen \/ \E seen \in CopyStates : pseen' = [pseen EXCEPT ![v] = seen]
    /\ \/ UNCHANGED psess
       \/ \E s \in Sessions \cup {NoSession} : psess' = [psess EXCEPT ![v] = s]
    /\ UNCHANGED ppc \/ \E step \in ProbeSteps : ppc' = [ppc EXCEPT ![v] = step]

LEMMA ProbeMovesTyped ==
  ASSUME LiveInv, NEW v \in Videos, ProbeMoves(v)
  PROVE  /\ probeRow' \in [Videos -> BOOLEAN]
         /\ probeBull' \in [Videos -> {"absent", "waiting", "active", "again", "last"}]
         /\ pseen' \in [Videos -> CopyStates]
         /\ psess' \in [Videos -> Sessions \cup {NoSession}]
         /\ ppc' \in [Videos -> ProbeSteps]
<1>1. probeRow' \in [Videos -> BOOLEAN]
  BY DEF LiveInv, Types, RowTypes, ProbeMoves
<1>2. probeBull' \in [Videos -> {"absent", "waiting", "active", "again", "last"}]
  BY DEF LiveInv, Types, ProbeTypes, ProbeMoves
<1>3. pseen' \in [Videos -> CopyStates]
  BY DEF LiveInv, Types, ProbeTypes, ProbeMoves
<1>4. psess' \in [Videos -> Sessions \cup {NoSession}]
  BY DEF LiveInv, Types, ProbeTypes, ProbeMoves
<1>5. ppc' \in [Videos -> ProbeSteps]
  BY DEF LiveInv, Types, ProbeTypes, ProbeMoves
<1> QED BY <1>1, <1>2, <1>3, <1>4, <1>5

\* A probe that is over writes nothing but its row.
LEMMA ProbeLost ==
  ASSUME LiveInv, NEW v \in Videos, ProbeGone(v),
         UNCHANGED probeRow \/ probeRow' = [probeRow EXCEPT ![v] = FALSE]
  PROVE  ProbeMoves(v) /\ ppc'[v] = "idle"
<1>1. /\ ppc' = [ppc EXCEPT ![v] = "idle"]
      /\ pseen' = [pseen EXCEPT ![v] = "CANDIDATE"]
      /\ psess' = [psess EXCEPT ![v] = NoSession]
      /\ probeBull' = [probeBull EXCEPT ![v] = "absent"]
  BY DEF ProbeGone, Step
<1>2. ppc'[v] = "idle"
  BY <1>1 DEF LiveInv, Types, ProbeTypes
<1> QED BY <1>1, <1>2 DEF ProbeMoves

LEMMA ProbeEnds ==
  ASSUME LiveInv, NEW v \in Videos, ProbeDone(v)
  PROVE  ProbeMoves(v) /\ ppc'[v] = "idle"
BY ProbeLost DEF ProbeDone

\* One that goes on may have read the video or its session.
LEMMA ProbeGoesOn ==
  ASSUME LiveInv, NEW v \in Videos, NEW step \in ProbeSteps, ProbeGoes(v, step),
         \/ UNCHANGED pseen
         \/ \E seen \in CopyStates : pseen' = [pseen EXCEPT ![v] = seen],
         \/ UNCHANGED psess
         \/ \E s \in Sessions \cup {NoSession} : psess' = [psess EXCEPT ![v] = s]
  PROVE  ProbeMoves(v) /\ ppc'[v] = step
<1>1. ppc' = [ppc EXCEPT ![v] = step] /\ UNCHANGED <<probeRow, probeBull>>
  BY DEF ProbeGoes, Step
<1>2. ppc'[v] = step
  BY <1>1 DEF LiveInv, Types, ProbeTypes
<1> QED BY <1>1, <1>2 DEF ProbeMoves

\* A candidate of the sweep is closed out by safe writes, and is LIVE then.
LEMMA CandidateKeeps ==
  ASSUME LiveInv, NEW a \in Actors, SweepCandidate(a)
  PROVE  /\ ScriptsSafe'
         /\ content' \in [Videos -> Contents]
         /\ \A w : IsLive(w) => IsLive(w)'
         /\ sweepTodo' \in [Actors -> SUBSET Videos]
<1>1. PICK v \in sweepTodo[a] :
         /\ sweepTodo' = [sweepTodo EXCEPT ![a] = @ \ {v}]
         /\ \/ /\ script' = [script EXCEPT ![a] = CloseOut(v)]
               /\ MarkContentTypeLive(v)
            \/ UNCHANGED <<script, content>>
  BY DEF SweepCandidate, Continue
<1>2. v \in Videos
  BY DEF LiveInv, Types, ProbeTypes
<1>3. sweepTodo' \in [Actors -> SUBSET Videos]
  BY <1>1 DEF LiveInv, Types, ProbeTypes
<1>4. CASE UNCHANGED <<script, content>>
  BY <1>3, <1>4, ScriptsStay DEF LiveInv, Types, RowTypes, IsLive
<1>5. CASE /\ script' = [script EXCEPT ![a] = CloseOut(v)]
           /\ MarkContentTypeLive(v)
  <2>1. /\ content' \in [Videos -> Contents] /\ IsLive(v)'
        /\ \A w : IsLive(w) => IsLive(w)'
    BY <1>2, <1>5 DEF LiveInv, Types, RowTypes, MarkContentTypeLive, IsLive
  <2>2. script \in [Actors -> Seq(SafeOps')]
    BY <2>1, SafeStays DEF LiveInv
  <2>3. CloseOut(v) \in Seq(SafeOps')
    <3>1. Gate(v, "QUEUED", "DOWNLOADING") \in SafeOps'
      BY <1>2, HopIsOp DEF SafeOps, Gate, Lifecycle!CopyEdges
    <3>2. Hop(v, "DOWNLOADING", "PARTIAL_KEPT") \in SafeOps'
      BY <1>2, <2>1, HopIsOp DEF SafeOps, Hop, Lifecycle!CopyEdges
    <3>3. Publication(v) \in SafeOps'
      BY <1>2, VideoIsOp DEF SafeOps, Publication
    <3> QED BY <3>1, <3>2, <3>3, Listed DEF CloseOut
  <2>4. ScriptsSafe'
    BY <1>5, <2>2, <2>3 DEF ScriptsSafe
  <2> QED BY <1>3, <2>1, <2>4
<1> QED BY <1>1, <1>4, <1>5

\* A probe's step that is true to what the probe has read keeps the hops linked.
LEMMA ProbeHops ==
  ASSUME LiveInv, NEW v \in Videos, ProbeMoves(v), UNCHANGED <<kpc, epc>>,
         \A w : IsLive(w) => IsLive(w)',
         \A w \in Videos : copyState'[w] = "PARTIAL_KEPT" => copyState[w] = "PARTIAL_KEPT",
         ppc'[v] \in {"promote", "session", "open", "refind", "capture", "row", "add"}
            => IsLive(v)',
         ppc'[v] \in {"guard", "create", "promote"}
            => pseen'[v] \in {"CANDIDATE", "FAILED", "QUEUED"}
  PROVE  HopsLinked'
<1>1. \A w \in Videos \ {v} : ppc'[w] = ppc[w] /\ pseen'[w] = pseen[w]
  BY DEF LiveInv, Types, ProbeTypes, ProbeMoves
<1> QED BY <1>1 DEF LiveInv, HopsLinked

\* Steps of a probe that read only, end it, or lose it to an error.
LEMMA ProbeReadKeeps ==
  ASSUME LiveInv, NEW v \in Videos,
         \/ Look(v) \/ ProbeThrows(v) \/ List(v) \/ ReadVideo(v) \/ Guard(v)
         \/ FindSession(v) \/ FindCapture(v)
  PROVE  Kept
<1>1. UNCHANGED <<probeFrame, rowsFrame, scan>>
  BY DEF Look, ProbeThrows, List, ReadVideo, Guard, FindSession, FindCapture
<1>2. /\ ProbeMoves(v)
      /\ ppc'[v] \in {"promote", "session", "open", "refind", "capture", "row", "add"}
            => IsLive(v)
      /\ ppc'[v] \in {"guard", "create", "promote"}
            => pseen'[v] \in {"CANDIDATE", "FAILED", "QUEUED"}
  <2> USE DEF LiveInv, Types, ProbeTypes
  <2>1. CASE Look(v)
    <3>1. \/ ProbeDone(v)
          \/ /\ \E step \in {"read", "list"} : ProbeGoes(v, step)
             /\ UNCHANGED <<pseen, psess>>
      BY <2>1 DEF Look
    <3> QED BY <3>1, ProbeEnds, ProbeGoesOn
  <2>2. CASE ProbeThrows(v)
    BY <2>2, ProbeLost DEF ProbeThrows
  <2>3. CASE List(v)
    BY <2>3, ProbeGoesOn DEF List, ProbeGoes
  <2>4. CASE ReadVideo(v)
    <3>1. CASE ProbeDone(v)
      BY <3>1, ProbeEnds
    <3>2. CASE ~ProbeDone(v)
      <4>1. /\ ProbeGoes(v, "guard") /\ UNCHANGED psess
            /\ pseen' = [pseen EXCEPT ![v] = copyState[v]]
            /\ copyState[v] \notin SkipCaptureStates
        BY <2>4, <3>2 DEF ReadVideo
      <4>2. copyState[v] \in {"CANDIDATE", "FAILED", "QUEUED"}
        BY <4>1 DEF SkipCaptureStates, RowTypes
      <4>3. ProbeMoves(v) /\ ppc'[v] = "guard"
        BY <4>1, <4>2, ProbeGoesOn
      <4> QED BY <4>1, <4>2, <4>3
    <3> QED BY <3>1, <3>2
  <2>5. CASE Guard(v)
    <3>1. \/ ProbeDone(v)
          \/ ppc[v] = "guard" /\ ProbeGoes(v, "create") /\ UNCHANGED <<pseen, psess>>
      BY <2>5 DEF Guard
    <3>2. ProbeDone(v) => ProbeMoves(v) /\ ppc'[v] = "idle"
      BY ProbeEnds
    <3>3. ~ProbeDone(v) => ProbeMoves(v) /\ ppc'[v] = "create"
      BY <3>1, ProbeGoesOn
    <3> QED BY <3>1, <3>2, <3>3 DEF HopsLinked
  <2>6. CASE FindSession(v)
    <3>1. \/ ProbeDone(v)
          \/ /\ ppc[v] \in {"session", "refind"}
             /\ \E step \in {"capture", "open"} : ProbeGoes(v, step)
             /\ UNCHANGED pseen
             /\ UNCHANGED psess \/ \E s \in Sessions : psess' = [psess EXCEPT ![v] = s]
      BY <2>6 DEF FindSession, ActiveSessions
    <3>2. ProbeDone(v) => ProbeMoves(v) /\ ppc'[v] = "idle"
      BY ProbeEnds
    <3>3. ~ProbeDone(v) => ProbeMoves(v) /\ ppc'[v] \in {"capture", "open"}
      BY <3>1, ProbeGoesOn
    <3> QED BY <3>1, <3>2, <3>3 DEF HopsLinked
  <2>7. CASE FindCapture(v)
    <3>1. \/ ProbeDone(v)
          \/ ppc[v] = "capture" /\ ProbeGoes(v, "row") /\ UNCHANGED <<pseen, psess>>
      BY <2>7 DEF FindCapture
    <3>2. ProbeDone(v) => ProbeMoves(v) /\ ppc'[v] = "idle"
      BY ProbeEnds
    <3>3. ~ProbeDone(v) => ProbeMoves(v) /\ ppc'[v] = "row"
      BY <3>1, ProbeGoesOn
    <3> QED BY <3>1, <3>2, <3>3 DEF HopsLinked
  <2> QED BY <2>1, <2>2, <2>3, <2>4, <2>5, <2>6, <2>7
<1>3. HopsLinked'
  BY <1>1, <1>2, ProbeHops DEF IsLive
<1>4. ScriptsSafe'
  <2>1. UNCHANGED script \/ script' = [script EXCEPT ![Probe(v)] = <<>>]
    BY DEF Look, ProbeThrows, List, ReadVideo, Guard, FindSession, FindCapture
  <2>2. <<>> \in Seq(SafeOps)
    OBVIOUS
  <2> QED BY <1>1, <2>1, <2>2, ScriptsStay, ScriptsOwe, ActorsAre DEF LiveInv
<1>5. CopyMoves /\ DiskMoves
  BY <1>1, CopyStays, DiskStays DEF LiveInv, Types
<1>6. faults' \in [FaultKinds \cup {"any"} -> Nat]
  BY FaultCounted DEF LiveInv, Types, BootTypes, Look, ProbeThrows, List, ReadVideo, Guard,
     FindSession, FindCapture
<1>7. sweepTodo' \in [Actors -> SUBSET Videos]
  <2>1. \/ UNCHANGED sweepTodo
        \/ \E found \in SUBSET Videos : sweepTodo' = [sweepTodo EXCEPT ![Probe(v)] = found]
    BY DEF Look, ProbeThrows, List, StrandedVideos, ReadVideo, Guard, FindSession, FindCapture
  <2> QED BY <2>1 DEF LiveInv, Types, ProbeTypes
<1>8. RowTypes' /\ ProbeTypes'
  BY <1>1, <1>2, <1>7, ProbeMovesTyped DEF LiveInv, Types, RowTypes, ProbeTypes
<1>9. DiskTypes' /\ CaptureTypes' /\ BootTypes'
  BY <1>1, <1>6 DEF LiveInv, Types, DiskTypes, CaptureTypes, BootTypes
<1>10. RowsLinked'
  BY <1>1 DEF LiveInv, RowsLinked, IsLive
<1> QED BY <1>3, <1>4, <1>5, <1>8, <1>9, <1>10 DEF Kept, Types

\* The close-out of a channel that is not on air.
LEMMA SweepKeeps ==
  ASSUME LiveInv, NEW v \in Videos, Sweep(v)
  PROVE  Kept
<1>1. UNCHANGED <<probeFrame, copyState, sessVars, capVars, bull, scan, faults>>
  BY DEF Sweep
<1>2. /\ ScriptsSafe'
      /\ content' \in [Videos -> Contents]
      /\ \A w : IsLive(w) => IsLive(w)'
      /\ sweepTodo' \in [Actors -> SUBSET Videos]
  <2>1. CASE SweepCandidate(Probe(v))
    BY <2>1, CandidateKeeps, ActorsAre
  <2>2. CASE UNCHANGED <<script, sweepTodo, content>>
    BY <2>2, ScriptsStay DEF LiveInv, Types, RowTypes, ProbeTypes, IsLive
  <2> QED BY <2>1, <2>2 DEF Sweep
<1>3. /\ ProbeMoves(v)
      /\ ppc'[v] \in {"sweep", "idle"}
  <2>1. CASE UNCHANGED <<probeRow, probeBull, probeVars>>
    BY <2>1 DEF Sweep, ProbeMoves
  <2>2. CASE ProbeDone(v)
    BY <2>2, ProbeEnds
  <2> QED BY <2>1, <2>2 DEF Sweep
<1>4. HopsLinked'
  BY <1>1, <1>2, <1>3, ProbeHops
<1>5. CopyMoves /\ DiskMoves
  BY <1>1, CopyStays, DiskStays DEF LiveInv, Types
<1>6. RowTypes' /\ ProbeTypes'
  BY <1>1, <1>2, <1>3, ProbeMovesTyped DEF LiveInv, Types, RowTypes, ProbeTypes
<1>7. DiskTypes' /\ CaptureTypes' /\ BootTypes'
  BY <1>1 DEF LiveInv, Types, DiskTypes, CaptureTypes, BootTypes
<1>8. RowsLinked'
  BY <1>1, <1>2 DEF LiveInv, RowsLinked
<1> QED BY <1>2, <1>4, <1>5, <1>6, <1>7, <1>8 DEF Kept, Types

\* The broadcast is marked LIVE and put in the queue.
LEMMA CandidateCreated ==
  ASSUME LiveInv, NEW v \in Videos, CreateLiveCandidate(v)
  PROVE  Kept
<1>1. /\ UNCHANGED <<detectFrame, copyState, sessVars, capVars, pseen, psess>>
      /\ MarkContentTypeLive(v) /\ ppc[v] = "create"
  BY DEF CreateLiveCandidate
<1>2. ProbeMoves(v) /\ ppc'[v] = "promote"
  BY ProbeGoesOn DEF CreateLiveCandidate
<1>3. /\ content' \in [Videos -> Contents] /\ IsLive(v)'
      /\ \A w : IsLive(w) => IsLive(w)'
  BY <1>1 DEF LiveInv, Types, RowTypes, MarkContentTypeLive, IsLive
<1>4. HopsLinked'
  BY <1>1, <1>2, <1>3, ProbeHops DEF LiveInv, HopsLinked
<1>5. ScriptsSafe'
  <2>1. script \in [Actors -> Seq(SafeOps')]
    BY <1>3, SafeStays DEF LiveInv
  <2> QED BY <1>1, <2>1 DEF ScriptsSafe
<1>6. CopyMoves /\ DiskMoves
  BY <1>1, CopyStays, DiskStays DEF LiveInv, Types
<1>7. RowTypes' /\ ProbeTypes'
  BY <1>1, <1>2, <1>3, ProbeMovesTyped DEF LiveInv, Types, RowTypes, ProbeTypes
<1>8. DiskTypes' /\ CaptureTypes' /\ BootTypes'
  BY <1>1 DEF LiveInv, Types, DiskTypes, CaptureTypes, BootTypes
<1>9. RowsLinked'
  BY <1>1, <1>3 DEF LiveInv, RowsLinked
<1> QED BY <1>4, <1>5, <1>6, <1>7, <1>8, <1>9 DEF Kept, Types

LEMMA PromoteKeeps ==
  ASSUME LiveInv, NEW v \in Videos, Promote(v)
  PROVE  Kept
<1>1. /\ UNCHANGED <<detectFrame, content, sessVars, capVars, pseen, psess>>
      /\ ppc[v] = "promote"
  BY DEF Promote
<1>2. ProbeMoves(v) /\ ppc'[v] = "session"
  BY ProbeGoesOn DEF Promote
<1>3. /\ copyState' \in [Videos -> CopyStates] /\ CopyMoves
      /\ \A w \in Videos : copyState'[w] \in {copyState[w], "QUEUED"}
  <2>1. CASE pseen[v] = "QUEUED"
    BY <2>1, CopyStays DEF LiveInv, Types, RowTypes, Promote
  <2>2. CASE pseen[v] # "QUEUED"
    <3>1. pseen[v] \in {"CANDIDATE", "FAILED"} /\ TransitionCopy(v, pseen[v], "QUEUED")
      BY <1>1, <2>2 DEF LiveInv, HopsLinked, Promote
    <3>2. <<pseen[v], "QUEUED">> \in Lifecycle!CopyEdges /\ pseen[v] # "PARTIAL_KEPT"
      BY <3>1 DEF Lifecycle!CopyEdges
    <3> QED BY <3>1, <3>2, TransitionCopyHops DEF LiveInv, Types, RowTypes
  <2> QED BY <2>1, <2>2
<1>4. HopsLinked'
  <2>1. IsLive(v) /\ \A w : IsLive(w) => IsLive(w)'
    BY <1>1 DEF LiveInv, HopsLinked, IsLive
  <2> QED BY <1>1, <1>2, <1>3, <2>1, ProbeHops
<1>5. ScriptsSafe' /\ DiskMoves
  BY <1>1, ScriptsStay, DiskStays DEF LiveInv, Types
<1>6. RowTypes' /\ ProbeTypes'
  BY <1>1, <1>2, <1>3, ProbeMovesTyped DEF LiveInv, Types, RowTypes, ProbeTypes
<1>7. DiskTypes' /\ CaptureTypes' /\ BootTypes'
  BY <1>1 DEF LiveInv, Types, DiskTypes, CaptureTypes, BootTypes
<1>8. RowsLinked'
  BY <1>1 DEF LiveInv, RowsLinked, IsLive
<1> QED BY <1>3, <1>4, <1>5, <1>6, <1>7, <1>8 DEF Kept, Types

\* Its session is opened, its capture created and added.
LEMMA OpenKeeps ==
  ASSUME LiveInv, NEW v \in Videos, OpenSession(v)
  PROVE  Kept
<1>1. /\ UNCHANGED <<detectFrame, content, copyState, capVars, pseen>>
      /\ ppc[v] = "open"
  BY DEF OpenSession
<1>2. \/ ProbeGoes(v, "refind") /\ UNCHANGED <<sessVars, psess>>
      \/ \E s \in Sessions :
            /\ ProbeGoes(v, "capture")
            /\ psess' = [psess EXCEPT ![v] = s]
            /\ sessState' = [sessState EXCEPT ![s] = "DETECTED"]
            /\ sessVideo' = [sessVideo EXCEPT ![s] = v]
  BY DEF OpenSession, CreateSession
<1>3. ProbeMoves(v) /\ ppc'[v] \in {"refind", "capture"}
  BY <1>1, <1>2, ProbeGoesOn
<1>4. IsLive(v) /\ \A w : IsLive(w) <=> IsLive(w)'
  BY <1>1 DEF LiveInv, HopsLinked, IsLive
<1>5. HopsLinked'
  BY <1>1, <1>3, <1>4, ProbeHops
<1>6. ScriptsSafe' /\ CopyMoves /\ DiskMoves
  BY <1>1, ScriptsStay, CopyStays, DiskStays DEF LiveInv, Types
<1>7. /\ sessState' \in [Sessions -> SessionStates]
      /\ sessVideo' \in [Sessions -> Videos \cup {NoVideo}]
      /\ \A s \in Sessions : sessState'[s] # "ABSENT" => IsLive(sessVideo'[s])
      /\ \A s \in Sessions : IsLive(sessVideo[s]) => IsLive(sessVideo'[s])
  <2>1. CASE UNCHANGED sessVars
    BY <2>1 DEF LiveInv, Types, RowTypes, RowsLinked
  <2>2. CASE \E s \in Sessions : /\ sessState' = [sessState EXCEPT ![s] = "DETECTED"]
                                 /\ sessVideo' = [sessVideo EXCEPT ![s] = v]
    BY <1>4, <2>2 DEF LiveInv, Types, RowTypes, RowsLinked
  <2> QED BY <1>2, <2>1, <2>2
<1>8. RowTypes' /\ ProbeTypes'
  BY <1>1, <1>3, <1>7, ProbeMovesTyped DEF LiveInv, Types, RowTypes, ProbeTypes
<1>9. DiskTypes' /\ CaptureTypes' /\ BootTypes'
  BY <1>1 DEF LiveInv, Types, DiskTypes, CaptureTypes, BootTypes
<1>10. RowsLinked'
  <2>1. \A o \in sessTodo : o[1] \in Sessions
    BY DEF LiveInv, Types, BootTypes
  <2> QED BY <1>1, <1>4, <1>7, <2>1 DEF LiveInv, RowsLinked
<1> QED BY <1>5, <1>6, <1>8, <1>9, <1>10 DEF Kept, Types

LEMMA CaptureCreated ==
  ASSUME LiveInv, NEW v \in Videos, CreateCapture(v) \/ AddCapture(v)
  PROVE  Kept
<1>1. UNCHANGED <<probeFrame, content, copyState, sessVars, scan, script, sweepTodo, faults>>
  BY DEF CreateCapture, AddCapture
<1>2. IsLive(v) /\ \A w : IsLive(w) <=> IsLive(w)'
  BY <1>1 DEF LiveInv, HopsLinked, IsLive, CreateCapture, AddCapture
<1>3. ProbeMoves(v) /\ ppc'[v] \in {"idle", "add"}
  <2>1. CASE CreateCapture(v)
    BY <2>1, ProbeGoesOn DEF CreateCapture
  <2>2. CASE AddCapture(v)
    BY <2>2, ProbeEnds DEF AddCapture
  <2> QED BY <2>1, <2>2
<1>4. HopsLinked'
  BY <1>1, <1>2, <1>3, ProbeHops
<1>5. ScriptsSafe' /\ CopyMoves /\ DiskMoves
  BY <1>1, ScriptsStay, CopyStays, DiskStays DEF LiveInv, Types
<1>6. psess[v] \in Sessions \cup {NoSession}
  BY DEF LiveInv, Types, ProbeTypes
<1>7. \/ UNCHANGED bull
         /\ \E c \in Captures :
              /\ capStatus' = [capStatus EXCEPT ![c] = "QUEUED"]
              /\ capVideo' = [capVideo EXCEPT ![c] = v]
              /\ capSession' = [capSession EXCEPT ![c] = psess[v]]
      \/ UNCHANGED capVars
         /\ \E c \in Captures :
              /\ capVideo[c] = v
              /\ UNCHANGED bull \/ bull' = [bull EXCEPT ![c] = "waiting"]
  BY DEF LiveInv, Types, CaptureTypes, CreateCapture, AddCapture
<1>8. /\ capStatus' \in [Captures -> CaptureStatuses]
      /\ capVideo' \in [Captures -> Videos \cup {NoVideo}]
      /\ capSession' \in [Captures -> Sessions \cup {NoSession}]
      /\ bull' \in [Captures -> {"absent", "waiting", "active"}]
      /\ \A c \in Captures : IsLive(capVideo[c]) => IsLive(capVideo'[c])
      /\ \A c \in Captures : capStatus'[c] # "ABSENT" \/ bull'[c] # "absent"
                               => IsLive(capVideo'[c])
  BY <1>2, <1>6, <1>7 DEF LiveInv, Types, RowTypes, CaptureTypes, RowsLinked
<1>9. RowTypes' /\ ProbeTypes'
  BY <1>1, <1>3, <1>8, ProbeMovesTyped DEF LiveInv, Types, RowTypes, ProbeTypes
<1>10. DiskTypes' /\ CaptureTypes' /\ BootTypes'
  BY <1>1, <1>8 DEF LiveInv, Types, DiskTypes, CaptureTypes, BootTypes
<1>11. RowsLinked'
  BY <1>1, <1>2, <1>8 DEF LiveInv, RowsLinked
<1> QED BY <1>4, <1>5, <1>9, <1>10, <1>11 DEF Kept, Types

-----------------------------------------------------------------------------
\* The archive side and the broadcast

\* The re-check keeps the invariant: what it resolves is a LIVE broadcast.
LEMMA CheckKeeps ==
  ASSUME LiveInv, NEW v \in Videos,
         Recheck(v) \/ Remeasure(v) \/ CheckDone(v) \/ Deadline(v)
  PROVE  Kept
<1>1. /\ UNCHANGED <<checkFrame, archiveVars, content, copyState, diskVars>>
      /\ faults' \in [FaultKinds \cup {"any"} -> Nat]
  <2>1. CASE Remeasure(v)
    BY <2>1, MeasureCounted DEF LiveInv, Types, Remeasure
  <2> QED BY <2>1 DEF LiveInv, Types, BootTypes, Recheck, CheckDone, Deadline
<1>2. parked' \in [Videos -> {"no", "waiting", "expired"}]
  BY DEF LiveInv, Types, RowTypes, Recheck, Remeasure, CheckDone, Deadline
<1>3. /\ ksess' \in [Videos -> Sessions \cup {NoSession}]
      /\ UNCHANGED kpc \/ \E step \in CheckSteps : kpc' = [kpc EXCEPT ![v] = step]
      /\ kpc'[v] = "measure" => IsLive(v)
  BY DEF LiveInv, Types, RowTypes, ProbeTypes, RowsLinked, HopsLinked,
         Recheck, Remeasure, CheckDone, Deadline
<1>4. kpc' \in [Videos -> CheckSteps]
  BY <1>3 DEF LiveInv, Types, ProbeTypes
<1>5. HopsLinked'
  BY <1>1, <1>3 DEF LiveInv, Types, ProbeTypes, HopsLinked, IsLive
<1>6. CopyMoves /\ DiskMoves
  BY <1>1, CopyStays, DiskStays DEF LiveInv, Types
<1>7. ScriptsSafe'
  <2>1. CASE UNCHANGED script
    BY <1>1, <2>1, ScriptsStay DEF LiveInv
  <2>2. CASE Remeasure(v)
    <3>1. IsLive(v) /\ ksess[v] \in Sessions \cup {NoSession}
      BY <2>2 DEF LiveInv, Types, ProbeTypes, HopsLinked, Remeasure
    <3>2. /\ ResolveVerified(ksess[v], v) \in Seq(SafeOps)
          /\ ResolvePartial(ksess[v], v) \in Seq(SafeOps)
          /\ <<>> \in Seq(SafeOps)
      BY <3>1, FinalizersSafe
    <3>3. \E ops \in Seq(SafeOps) : script' = [script EXCEPT ![Check(v)] = ops]
      BY <2>2, <3>2 DEF Remeasure
    <3> QED BY <1>1, <3>3, ScriptsOwe, ActorsAre DEF LiveInv
  <2> QED BY <2>1, <2>2 DEF Recheck, CheckDone, Deadline
<1>8. RowTypes' /\ ProbeTypes'
  BY <1>1, <1>2, <1>3, <1>4 DEF LiveInv, Types, RowTypes, ProbeTypes
<1>9. DiskTypes' /\ CaptureTypes' /\ BootTypes'
  BY <1>1 DEF LiveInv, Types, DiskTypes, CaptureTypes, BootTypes
<1>10. RowsLinked'
  BY <1>1 DEF LiveInv, RowsLinked, IsLive
<1> QED BY <1>5, <1>6, <1>7, <1>8, <1>9, <1>10 DEF Kept, Types

\* Listing the broadcast makes it REGULAR only before it is LIVE.
LEMMA EnumerateKeeps ==
  ASSUME LiveInv, NEW v \in Videos, Enumerate(v)
  PROVE  Kept
<1>1. UNCHANGED <<videoFrame, archiveVars, copyState, diskVars>>
  BY DEF Enumerate
<1>2. content' \in [Videos -> Contents] /\ \A w : IsLive(w) => IsLive(w)'
  BY DEF LiveInv, Types, RowTypes, Enumerate, IsLive
<1>3. ScriptsSafe'
  <2>1. script \in [Actors -> Seq(SafeOps')]
    BY <1>2, SafeStays DEF LiveInv
  <2> QED BY <1>1, <2>1 DEF ScriptsSafe
<1>4. CopyMoves /\ DiskMoves
  BY <1>1, CopyStays, DiskStays DEF LiveInv, Types
<1>5. RowTypes' /\ ProbeTypes'
  BY <1>1, <1>2 DEF LiveInv, Types, RowTypes, ProbeTypes
<1>6. DiskTypes' /\ CaptureTypes' /\ BootTypes'
  BY <1>1 DEF LiveInv, Types, DiskTypes, CaptureTypes, BootTypes
<1>7. RowsLinked' /\ HopsLinked'
  BY <1>1, <1>2 DEF LiveInv, RowsLinked, HopsLinked
<1> QED BY <1>3, <1>4, <1>5, <1>6, <1>7 DEF Kept, Types

\* An enqueue never reads a video whose partial is kept.
LEMMA EnqueueKeeps ==
  ASSUME LiveInv, NEW v \in Videos, EnqueueRead(v)
  PROVE  Kept
<1>1. UNCHANGED <<parked, checkFrame, checkVars, script, dlRow, verifyRow, content,
                  copyState, diskVars>>
  BY DEF EnqueueRead
<1>2. ScriptsSafe' /\ CopyMoves /\ DiskMoves
  BY <1>1, QuietKeeps
<1>3. copyState[v] \in {"CANDIDATE", "FAILED"} /\ epc' = [epc EXCEPT ![v] = copyState[v]]
  BY DEF LiveInv, HopsLinked, IsLive, EnqueueRead, Enqueueable
<1>4. faults' \in [FaultKinds \cup {"any"} -> Nat]
  BY FaultCounted DEF LiveInv, Types, EnqueueRead
<1>5. RowTypes' /\ ProbeTypes'
  BY <1>1, <1>3 DEF LiveInv, Types, RowTypes, ProbeTypes
<1>6. DiskTypes' /\ CaptureTypes' /\ BootTypes'
  BY <1>1, <1>4 DEF LiveInv, Types, DiskTypes, CaptureTypes, BootTypes
<1>7. RowsLinked'
  BY <1>1 DEF LiveInv, RowsLinked, IsLive
<1>8. HopsLinked'
  BY <1>1, <1>3 DEF LiveInv, HopsLinked, IsLive, Types, ProbeTypes
<1> QED BY <1>2, <1>5, <1>6, <1>7, <1>8 DEF Kept, Types

\* The download and its verify hop from states in which nothing is kept.
LEMMA ArchiveKeeps ==
  ASSUME LiveInv, NEW v \in Videos, ArchiveStep(v)
  PROVE  Kept
<1>1. UNCHANGED <<videoFrame, content>>
  BY DEF ArchiveStep, EnqueueCommit, DownloadBegin, DownloadEnd, VerifyEnd
<1>2. \A w \in Videos : epc'[w] \in {epc[w], "idle"}
  BY DEF LiveInv, Types, ProbeTypes, ArchiveStep, EnqueueCommit, DownloadBegin, DownloadEnd,
         VerifyEnd
<1>3. \E from \in {"CANDIDATE", "FAILED", "QUEUED", "DOWNLOADING", "VERIFYING"}, to \in CopyStates :
         /\ TransitionCopy(v, from, to) /\ <<from, to>> \in Lifecycle!CopyEdges
         /\ to # "PARTIAL_KEPT"
  <2>1. CASE EnqueueCommit(v)
    <3>1. epc[v] \in {"CANDIDATE", "FAILED"} /\ TransitionCopy(v, epc[v], "QUEUED")
      BY <2>1 DEF LiveInv, HopsLinked, EnqueueCommit
    <3>2. <<epc[v], "QUEUED">> \in Lifecycle!CopyEdges
      BY <3>1 DEF Lifecycle!CopyEdges
    <3> QED BY <3>1, <3>2
  <2>2. CASE DownloadBegin(v)
    <3>1. TransitionCopy(v, "QUEUED", "DOWNLOADING")
      BY <2>2 DEF DownloadBegin
    <3>2. <<"QUEUED", "DOWNLOADING">> \in Lifecycle!CopyEdges
      BY DEF Lifecycle!CopyEdges
    <3> QED BY <3>1, <3>2
  <2>3. CASE DownloadEnd(v)
    <3>1. \E to \in {"VERIFYING", "FAILED"} : TransitionCopy(v, "DOWNLOADING", to)
      BY <2>3 DEF DownloadEnd
    <3>2. \A to \in {"VERIFYING", "FAILED"} : <<"DOWNLOADING", to>> \in Lifecycle!CopyEdges
      BY DEF Lifecycle!CopyEdges
    <3> QED BY <3>1, <3>2
  <2>4. CASE VerifyEnd(v)
    <3>1. \E to \in {"HEALTHY", "FAILED"} : TransitionCopy(v, "VERIFYING", to)
      BY <2>4 DEF VerifyEnd
    <3>2. \A to \in {"HEALTHY", "FAILED"} : <<"VERIFYING", to>> \in Lifecycle!CopyEdges
      BY DEF Lifecycle!CopyEdges
    <3> QED BY <3>1, <3>2
  <2> QED BY <2>1, <2>2, <2>3, <2>4 DEF ArchiveStep
<1>4. copyState' \in [Videos -> CopyStates] /\ CopyMoves /\ HopsLinked'
  BY <1>1, <1>2, <1>3, HopKeeps
<1>5. ScriptsSafe'
  BY <1>1, ScriptsStay DEF LiveInv
<1>6. /\ \/ UNCHANGED dlRow
         \/ \E row \in {"none", "QUEUED", "RUNNING"} : dlRow' = [dlRow EXCEPT ![v] = row]
      /\ \/ UNCHANGED verifyRow
         \/ \E row \in BOOLEAN : verifyRow' = [verifyRow EXCEPT ![v] = row]
  <2>1. dlRow[v] \in {"none", "QUEUED", "RUNNING"} /\ verifyRow[v] \in BOOLEAN
    BY DEF LiveInv, Types, RowTypes
  <2> QED BY <2>1 DEF ArchiveStep, EnqueueCommit, DownloadBegin, DownloadEnd, VerifyEnd
<1>7. /\ UNCHANGED <<fresh, prior>>
      /\ UNCHANGED media \/ media' = [media EXCEPT ![v] = aired[v]]
  BY DEF ArchiveStep, EnqueueCommit, DownloadBegin, DownloadEnd, VerifyEnd
<1>8. DiskTypes'
  BY <1>1, <1>7 DEF LiveInv, Types, DiskTypes
<1>9. DiskMoves
  BY <1>7 DEF LiveInv, Types, DiskTypes, DiskMoves, Largest
<1>10. RowTypes' /\ ProbeTypes'
  <2>1. RowTypes'
    BY <1>1, <1>4, <1>6 DEF LiveInv, Types, RowTypes
  <2>2. UNCHANGED epc \/ epc' = [epc EXCEPT ![v] = "idle"]
    BY DEF ArchiveStep, EnqueueCommit, DownloadBegin, DownloadEnd, VerifyEnd
  <2>3. ProbeTypes'
    BY <1>1, <2>2 DEF LiveInv, Types, ProbeTypes
  <2> QED BY <2>1, <2>3
<1>11. CaptureTypes' /\ BootTypes'
  BY <1>1 DEF LiveInv, Types, CaptureTypes, BootTypes
<1>12. RowsLinked'
  BY <1>1 DEF LiveInv, RowsLinked, IsLive
<1> QED BY <1>4, <1>5, <1>8, <1>9, <1>10, <1>11, <1>12 DEF Kept, Types

LEMMA AirKeeps ==
  ASSUME LiveInv, NEW v \in Videos, AirStart(v) \/ AirMore(v) \/ AirEnd(v)
  PROVE  Kept
<1>1. UNCHANGED airFrame
  BY DEF AirStart, AirMore, AirEnd
<1>2. ScriptsSafe' /\ CopyMoves /\ DiskMoves /\ HopsLinked'
  BY <1>1, QuietKeeps, HopsStay DEF LiveInv
<1>3. DiskTypes'
  BY <1>1 DEF LiveInv, Types, DiskTypes, AirStart, AirMore, AirEnd
<1>4. RowTypes' /\ CaptureTypes' /\ ProbeTypes' /\ BootTypes'
  BY <1>1 DEF LiveInv, Types, RowTypes, CaptureTypes, ProbeTypes, BootTypes
<1>5. RowsLinked'
  BY <1>1 DEF LiveInv, RowsLinked, IsLive
<1> QED BY <1>2, <1>3, <1>4, <1>5 DEF Kept, Types

-----------------------------------------------------------------------------
\* The worker stops and boots

\* What dies with the process was nobody else's.
LEMMA StopKeeps ==
  ASSUME LiveInv, Drain \/ Drained \/ Crash
  PROVE  Kept
<1>1. UNCHANGED stopFrame /\ UNCHANGED <<bull, probeBull>>
  BY DEF Drain, Drained, Crash
<1>2. CopyMoves /\ DiskMoves
  BY <1>1, CopyStays, DiskStays DEF LiveInv, Types
<1>3. faults' \in [FaultKinds \cup {"any"} -> Nat]
  BY FaultCounted DEF LiveInv, Types, BootTypes, Drain, Drained, Crash
<1>4. CASE Drain
  <2>1. UNCHANGED <<bull, probeBull, rowTodo, sessTodo, cpc, cseen, csess, lpc, probeVars,
                    scan, script, sweepTodo>> /\ phase' = "draining"
    BY <1>4 DEF Drain
  <2>2. ScriptsSafe' /\ HopsLinked'
    BY <1>1, <2>1, ScriptsStay, HopsStay DEF LiveInv
  <2>3. ctl' \in [Captures -> CtlStates]
    BY <1>4 DEF LiveInv, Types, CaptureTypes, Drain
  <2>4. CaptureTypes'
    BY <1>1, <2>1, <2>3 DEF LiveInv, Types, CaptureTypes
  <2>5. RowTypes' /\ DiskTypes' /\ ProbeTypes' /\ BootTypes'
    BY <1>1, <1>3, <2>1 DEF LiveInv, Types, RowTypes, DiskTypes, ProbeTypes, BootTypes
  <2>6. RowsLinked'
    BY <1>1, <2>1 DEF LiveInv, RowsLinked, IsLive
  <2> QED BY <1>2, <2>2, <2>4, <2>5, <2>6 DEF Kept, Types
<1>5. CASE Drained \/ Crash
  <2>1. LoseMemory
    BY <1>5 DEF Drained, Crash
  <2>2. ScriptsSafe'
    <3>1. SafeOps' = SafeOps
      BY <1>1 DEF SafeOps, IsLive
    <3>2. script' \in [Actors -> Seq(SafeOps)]
      BY <2>1 DEF LiveInv, ScriptsSafe, LoseMemory
    <3> QED BY <3>1, <3>2 DEF ScriptsSafe
  <2>3. RowTypes' /\ DiskTypes'
    BY <1>1 DEF LiveInv, Types, RowTypes, DiskTypes
  <2>4. CaptureTypes'
    BY <1>1, <2>1 DEF LiveInv, Types, CaptureTypes, LoseMemory
  <2>5. ProbeTypes'
    BY <1>1, <2>1 DEF LiveInv, Types, ProbeTypes, LoseMemory
  <2>6. BootTypes'
    BY <1>3, <2>1 DEF LiveInv, Types, BootTypes, LoseMemory
  <2>7. RowsLinked'
    BY <1>1, <2>1 DEF LiveInv, RowsLinked, IsLive, LoseMemory
  <2>8. HopsLinked'
    BY <1>1, <2>1 DEF LiveInv, HopsLinked, IsLive, LoseMemory
  <2> QED BY <1>2, <2>2, <2>3, <2>4, <2>5, <2>6, <2>7, <2>8 DEF Kept, Types
<1> QED BY <1>4, <1>5

LEMMA CancelKeeps ==
  ASSUME LiveInv, NEW c \in Captures, CancelCapture(c)
  PROVE  Kept
<1>1. UNCHANGED <<content, copyState, parked, sessVars, capVars, probeRow, archiveVars,
                  diskVars, bull, probeBull, airVars, bootVars, cpc, cseen, csess, lpc,
                  probeVars, scan, script, sweepTodo, checkVars>>
  BY DEF CancelCapture
<1>2. ScriptsSafe' /\ CopyMoves /\ DiskMoves /\ HopsLinked'
  BY <1>1, QuietKeeps, HopsStay DEF LiveInv
<1>3. faults' \in [FaultKinds \cup {"any"} -> Nat]
  BY FaultCounted DEF LiveInv, Types, CancelCapture
<1>4. CaptureTypes'
  BY <1>1 DEF LiveInv, Types, CaptureTypes, CancelCapture
<1>5. RowTypes' /\ DiskTypes' /\ ProbeTypes' /\ BootTypes'
  BY <1>1, <1>3 DEF LiveInv, Types, RowTypes, DiskTypes, ProbeTypes, BootTypes
<1>6. RowsLinked'
  BY <1>1 DEF LiveInv, RowsLinked, IsLive
<1> QED BY <1>2, <1>4, <1>5, <1>6 DEF Kept, Types

\* The row sweep hands back rows that exist.
LEMMA BootRowsKeep ==
  ASSUME LiveInv, BootRows \/ BootRow
  PROVE  Kept
<1>1. UNCHANGED <<bootFrame, content, copyState, sessVars, capVideo, capSession, diskVars,
                  probeBull, sessTodo, script, sweepTodo>>
  BY DEF BootRows, BootRow
<1>2. ScriptsSafe' /\ CopyMoves /\ DiskMoves /\ HopsLinked'
  BY <1>1, QuietKeeps, HopsStay DEF LiveInv
<1>3. CASE BootRows
  <2>1. UNCHANGED <<capStatus, probeRow, bull>> /\ phase' = "rows"
    BY <1>3 DEF BootRows
  <2>2. rowTodo' \subseteq Captures \cup Videos
    BY <1>3 DEF BootRows
  <2>3. \A c \in Captures : c \in rowTodo' => capStatus[c] # "ABSENT"
    BY <1>3, IdsAssumption DEF BootRows
  <2>4. Types'
    BY <1>1, <2>1, <2>2
       DEF LiveInv, Types, RowTypes, DiskTypes, CaptureTypes, ProbeTypes, BootTypes
  <2>5. RowsLinked'
    BY <1>1, <2>1, <2>3 DEF LiveInv, RowsLinked, IsLive
  <2> QED BY <1>2, <2>4, <2>5 DEF Kept
<1>4. CASE BootRow
  <2>1. PICK r \in rowTodo :
          /\ rowTodo' = rowTodo \ {r}
          /\ \/ /\ r \in Captures
                /\ capStatus' = [capStatus EXCEPT ![r] = "QUEUED"]
                /\ bull' = [bull EXCEPT ![r] = "waiting"]
                /\ UNCHANGED probeRow
             \/ /\ probeRow' = [probeRow EXCEPT ![r] = FALSE]
                /\ UNCHANGED <<capStatus, bull>>
    BY <1>4 DEF BootRow
  <2>2. UNCHANGED phase
    BY <1>4 DEF BootRow
  <2>3. /\ capStatus' \in [Captures -> CaptureStatuses]
        /\ bull' \in [Captures -> {"absent", "waiting", "active"}]
        /\ probeRow' \in [Videos -> BOOLEAN]
    <3>1. /\ capStatus \in [Captures -> CaptureStatuses]
          /\ bull \in [Captures -> {"absent", "waiting", "active"}]
          /\ probeRow \in [Videos -> BOOLEAN]
      BY DEF LiveInv, Types, RowTypes, CaptureTypes
    <3>2. capStatus' = [capStatus EXCEPT ![r] = "QUEUED"] \/ UNCHANGED capStatus
      BY <2>1
    <3>3. bull' = [bull EXCEPT ![r] = "waiting"] \/ UNCHANGED bull
      BY <2>1
    <3>4. probeRow' = [probeRow EXCEPT ![r] = FALSE] \/ UNCHANGED probeRow
      BY <2>1
    <3>5. capStatus' \in [Captures -> CaptureStatuses]
      BY <3>1, <3>2
    <3>6. bull' \in [Captures -> {"absent", "waiting", "active"}]
      BY <3>1, <3>3
    <3>7. probeRow' \in [Videos -> BOOLEAN]
      BY <3>1, <3>4
    <3> QED BY <3>5, <3>6, <3>7
  <2>4. Types'
    BY <1>1, <2>1, <2>2, <2>3
       DEF LiveInv, Types, RowTypes, DiskTypes, CaptureTypes, ProbeTypes, BootTypes
  <2>5. RowsLinked'
    BY <1>1, <2>1 DEF LiveInv, Types, RowTypes, CaptureTypes, RowsLinked, IsLive
  <2> QED BY <1>2, <2>4, <2>5 DEF Kept
<1> QED BY <1>3, <1>4

\* An orphaned session is settled by safe writes, its staged seconds published.
LEMMA BootSessionsKeep ==
  ASSUME LiveInv, BootSessions \/ BootSession \/ BootSweep
  PROVE  Kept
<1>1. UNCHANGED <<bootFrame, content, copyState, sessVars, capVars, probeRow, bull,
                  probeBull, rowTodo>>
  BY DEF BootSessions, BootSession, BootSweep
<1>2. CopyMoves /\ HopsLinked'
  BY <1>1, CopyStays, HopsStay DEF LiveInv
<1>3. phase' \in Phases
  BY DEF LiveInv, Types, BootTypes, BootSessions, BootSession, BootSweep
<1>4. sessTodo' \subseteq (Sessions \X CopyStates) /\ \A o \in sessTodo' : IsLive(sessVideo[o[1]])
  <2>1. CASE BootSessions
    <3>1. \A s \in Orphans : s \in Sessions /\ IsLive(sessVideo[s])
      BY DEF LiveInv, RowsLinked, Orphans
    <3>2. \A s \in Orphans : copyState[sessVideo[s]] \in CopyStates
      BY <3>1 DEF LiveInv, Types, RowTypes, IsLive
    <3>3. sessTodo' = {<<s, copyState[sessVideo[s]]>> : s \in Orphans}
      BY <2>1 DEF BootSessions
    <3> HIDE DEF CopyStates
    <3> QED BY <3>1, <3>2, <3>3
  <2>2. CASE BootSession \/ BootSweep
    BY <2>2 DEF LiveInv, Types, BootTypes, RowsLinked, BootSession, BootSweep
  <2> QED BY <2>1, <2>2
<1>5. RowsLinked'
  BY <1>1, <1>4 DEF LiveInv, RowsLinked, IsLive
<1>6. BootTypes'
  BY <1>1, <1>3, <1>4 DEF LiveInv, Types, BootTypes
<1>7. sweepTodo' \in [Actors -> SUBSET Videos]
  BY DEF LiveInv, Types, ProbeTypes, BootSessions, BootSession, BootSweep, StrandedVideos
<1>8. RowTypes' /\ CaptureTypes' /\ ProbeTypes'
  BY <1>1, <1>7 DEF LiveInv, Types, RowTypes, CaptureTypes, ProbeTypes
<1>9. DiskTypes' /\ DiskMoves
  <2>1. CASE UNCHANGED diskVars
    BY <1>1, <2>1, DiskStays DEF LiveInv, Types, DiskTypes
  <2>2. CASE \E v : Publish(v)
    BY <1>1, <2>2, PublishKeeps DEF LiveInv, Types, DiskTypes
  <2> QED BY <2>1, <2>2 DEF BootSessions, BootSession, BootSweep
<1>10. ScriptsSafe'
  <2>1. CASE UNCHANGED script
    BY <1>1, <2>1, ScriptsStay DEF LiveInv
  <2>2. CASE BootSession
    <3>1. PICK o \in sessTodo :
             \/ Owe(Boot, FinalizeInterrupted(o[1], sessVideo[o[1]]))
             \/ Owe(Boot, FinalizeEmpty(o[1], sessVideo[o[1]], "FAILED"))
      BY <2>2 DEF BootSession
    <3>2. IsLive(sessVideo[o[1]]) /\ o[1] \in Sessions
      BY DEF LiveInv, Types, BootTypes, RowsLinked
    <3>3. \E ops \in Seq(SafeOps) : Owe(Boot, ops)
      BY <3>1, <3>2, FinalizersSafe
    <3> QED BY <1>1, <3>3, ScriptsOwe, ActorsAre DEF LiveInv, Owe
  <2> QED BY <2>1, <2>2 DEF BootSessions, BootSweep
<1> QED BY <1>2, <1>5, <1>6, <1>8, <1>9, <1>10 DEF Kept, Types

\* The close-out at boot.
LEMMA BootCloseKeeps ==
  ASSUME LiveInv, BootClose
  PROVE  Kept
<1>1. UNCHANGED <<bootFrame, copyState, sessVars, capVars, probeRow, diskVars, bull,
                  probeBull, rowTodo, sessTodo>>
  BY DEF BootClose
<1>2. /\ ScriptsSafe'
      /\ content' \in [Videos -> Contents]
      /\ \A w : IsLive(w) => IsLive(w)'
      /\ sweepTodo' \in [Actors -> SUBSET Videos]
  <2>1. CASE SweepCandidate(Boot)
    BY <2>1, CandidateKeeps, ActorsAre
  <2>2. CASE UNCHANGED <<script, sweepTodo, content>>
    BY <2>2, ScriptsStay DEF LiveInv, Types, RowTypes, ProbeTypes, IsLive
  <2> QED BY <2>1, <2>2 DEF BootClose
<1>3. phase' \in Phases
  BY DEF LiveInv, Types, BootTypes, BootClose
<1>4. CopyMoves /\ DiskMoves
  BY <1>1, CopyStays, DiskStays DEF LiveInv, Types
<1>5. RowTypes' /\ ProbeTypes'
  BY <1>1, <1>2 DEF LiveInv, Types, RowTypes, ProbeTypes
<1>6. DiskTypes' /\ CaptureTypes' /\ BootTypes'
  BY <1>1, <1>3 DEF LiveInv, Types, DiskTypes, CaptureTypes, BootTypes
<1>7. RowsLinked' /\ HopsLinked'
  BY <1>1, <1>2 DEF LiveInv, RowsLinked, HopsLinked
<1> QED BY <1>2, <1>4, <1>5, <1>6, <1>7 DEF Kept, Types

-----------------------------------------------------------------------------
\* The pipeline

\* Every step of the pipeline keeps the invariant, the recording, the kept
\* partials and the lifecycle.
LEMMA NextKeeps == LiveInv /\ [Next]_vars => Kept
<1> SUFFICES ASSUME LiveInv, [Next]_vars PROVE Kept
  OBVIOUS
<1>1. ASSUME NEW c \in Captures, CaptureStep(c) PROVE Kept
  <2>1. CASE PickUp(c) \/ Load(c)
    BY <2>1, TakeKeeps
  <2>2. CASE Begin(c) \/ Reread(c)
    BY <2>2, BeginKeeps
  <2>3. CASE Prepare(c)
    BY <2>3, PrepareKeeps
  <2>4. CASE MarkSessionCapturing(c) \/ Reuse(c) \/ Adopt(c)
    BY <2>4, MarkKeeps
  <2>5. CASE Exit(c)
    BY <2>5, RecordKeeps
  <2>6. CASE Verdict(c) \/ Measure(c)
    BY <2>6, VerdictKeeps
  <2>7. CASE Write(Run(c))
    BY <2>7, WriteKeeps, ActorsAre
  <2>8. CASE Finish(c)
    BY <2>8, FinishKeeps
  <2> QED BY <1>1, <2>1, <2>2, <2>3, <2>4, <2>5, <2>6, <2>7, <2>8 DEF CaptureStep
<1>2. ASSUME NEW c \in Captures,
             Record(c) \/ Reclaim(c) \/ SpawnFails(c) \/ Hang(c)
      PROVE  Kept
  BY <1>2, RecordKeeps
<1>3. ASSUME NEW c \in Captures, Stall(c) \/ ListenStep(c) PROVE Kept
  <2>1. CASE Write(Listener(c))
    BY <2>1, WriteKeeps, ActorsAre
  <2>2. CASE Stall(c) \/ ListenRow(c) \/ ListenMark(c) \/ ListenRead(c) \/ ListenDone(c)
    BY <2>2, ListenKeeps
  <2> QED BY <1>3, <2>1, <2>2 DEF ListenStep
<1>4. ASSUME NEW v \in Videos, ProbeStep(v) PROVE Kept
  <2>1. CASE ProbePickUp(v) \/ ProbeStall(v)
    BY <2>1, ScanKeeps
  <2>2. CASE Look(v) \/ List(v) \/ ReadVideo(v) \/ Guard(v) \/ FindSession(v)
             \/ FindCapture(v)
    BY <2>2, ProbeReadKeeps
  <2>3. CASE Sweep(v)
    BY <2>3, SweepKeeps
  <2>4. CASE CreateLiveCandidate(v)
    BY <2>4, CandidateCreated
  <2>5. CASE Promote(v)
    BY <2>5, PromoteKeeps
  <2>6. CASE OpenSession(v)
    BY <2>6, OpenKeeps
  <2>7. CASE CreateCapture(v) \/ AddCapture(v)
    BY <2>7, CaptureCreated
  <2>8. CASE Write(Probe(v))
    BY <2>8, WriteKeeps, ActorsAre
  <2> QED BY <1>4, <2>1, <2>2, <2>3, <2>4, <2>5, <2>6, <2>7, <2>8 DEF ProbeStep
<1>5. ASSUME NEW v \in Videos, CheckStep(v) \/ Deadline(v) PROVE Kept
  <2>1. CASE Write(Check(v))
    BY <2>1, WriteKeeps, ActorsAre
  <2>2. CASE Recheck(v) \/ Remeasure(v) \/ CheckDone(v) \/ Deadline(v)
    BY <2>2, CheckKeeps
  <2> QED BY <1>5, <2>1, <2>2 DEF CheckStep
<1>6. ASSUME BootStep PROVE Kept
  <2>1. CASE Write(Boot)
    BY <2>1, WriteKeeps, ActorsAre
  <2>2. CASE BootRows \/ BootRow
    BY <2>2, BootRowsKeep
  <2>3. CASE BootSessions \/ BootSession \/ BootSweep
    BY <2>3, BootSessionsKeep
  <2>4. CASE BootClose
    BY <2>4, BootCloseKeeps
  <2> QED BY <1>6, <2>1, <2>2, <2>3, <2>4 DEF BootStep
<1>7. CASE \E c \in Captures :
             \/ CaptureStep(c) \/ Record(c) \/ Reclaim(c) \/ SpawnFails(c) \/ Hang(c)
             \/ FinalizeThrows(c) \/ Stall(c) \/ ListenStep(c) \/ CancelCapture(c)
  BY <1>1, <1>2, <1>3, <1>7, FinalizeThrowsKeeps, CancelKeeps
<1>8. CASE \E v \in Videos :
             \/ ScanRow(v) \/ ScanAdd(v) \/ ProbeStep(v) \/ ProbeThrows(v)
             \/ CheckStep(v) \/ Deadline(v) \/ Enumerate(v) \/ EnqueueRead(v)
             \/ ArchiveStep(v) \/ AirStart(v) \/ AirMore(v) \/ AirEnd(v)
  BY <1>4, <1>5, <1>8, ScanKeeps, ProbeReadKeeps, EnumerateKeeps, EnqueueKeeps, ArchiveKeeps,
     AirKeeps
<1>9. CASE \E a \in Actors : WriteSwallowed(a)
  BY <1>9, SwallowedKeeps
<1>10. CASE Drain \/ Drained \/ Crash
  BY <1>10, StopKeeps
<1>11. CASE UNCHANGED vars
  <2>1. ScriptsSafe' /\ CopyMoves /\ DiskMoves /\ HopsLinked'
    BY <1>11, QuietKeeps, HopsStay DEF LiveInv, vars
  <2>2. Types'
    BY <1>11
       DEF LiveInv, Types, RowTypes, DiskTypes, CaptureTypes, ProbeTypes, BootTypes, vars
  <2>3. RowsLinked'
    BY <1>11 DEF LiveInv, RowsLinked, IsLive, vars
  <2> QED BY <2>1, <2>2, <2>3 DEF Kept
<1> QED BY <1>6, <1>7, <1>8, <1>9, <1>10, <1>11 DEF Next

\* The invariant holds throughout.
LEMMA Invariance == Spec => []LiveInv
<1>1. LiveInv /\ [Next]_vars => LiveInv'
  BY NextKeeps DEF Kept, LiveInv
<1> QED BY InitInv, <1>1, PTL DEF Spec

\* Every variable of the live pipeline keeps its type, and every write an actor
\* owes is one of the finalizers' writes.
THEOREM TypeCorrect == Spec => []TypeOK
BY Invariance, InvTypes, PTL

\* Recorded seconds leave staging only by being published or recorded again,
\* whatever stalls, drains, crashes, cancels and continuations do.
THEOREM RecordingKeptHolds == Spec => RecordingKept
<1>1. LiveInv /\ [Next]_vars =>
        [\A v \in Videos : Largest(v)' >= Largest(v) \/ media[v]' >= Largest(v)]_vars
  BY NextKeeps DEF Kept, DiskMoves
<1> QED BY Invariance, <1>1, PTL DEF Spec, RecordingKept

\* A kept partial is the last word: nothing fetches its post-live video.
THEOREM VodNeverRefetchedHolds == Spec => VodNeverRefetched
<1>1. LiveInv /\ [Next]_vars =>
        [\A v \in Videos :
           copyState[v] = "PARTIAL_KEPT" => copyState'[v] = "PARTIAL_KEPT"]_vars
  BY NextKeeps DEF Kept, CopyMoves
<1> QED BY Invariance, <1>1, PTL DEF Spec, VodNeverRefetched

\* The live pipeline implements CopyLifecycle: each of its steps is one hop of
\* one video along an edge, or none.
THEOREM LifecycleImplemented == Spec => FollowsLifecycle
<1>1. Init => Lifecycle!Init
  BY DEF Init, Lifecycle!Init
<1>2. LiveInv /\ [Next]_vars => [Lifecycle!Next]_copyState
  BY NextKeeps DEF Kept, CopyMoves
<1> QED BY Invariance, <1>1, <1>2, PTL DEF Spec, FollowsLifecycle, Lifecycle!Spec
=============================================================================

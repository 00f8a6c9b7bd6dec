------------------------------ MODULE LiveState ------------------------------
(***************************************************************************)
(* The state the live pipeline shares, and the writes its parts make to    *)
(* it.  A broadcast stands for its Video row and for the channel it airs   *)
(* on, which is watched throughout.                                        *)
(*                                                                         *)
(*   Postgres   content, copyState, parked    the Video row                *)
(*              sessState, sessVideo          LiveSession rows             *)
(*              capStatus, capVideo, capSession   LIVE_CAPTURE rows        *)
(*              probeRow, dlRow, verifyRow    an active LIVE_PROBE,        *)
(*                                            DOWNLOAD, VERIFY row         *)
(*   disk       media, fresh, prior           seconds of recording: in the *)
(*                                            vault, in .incoming.live, and*)
(*                                            set aside as prior-*         *)
(*   Redis      bull, probeBull               BullMQ executions            *)
(*   YouTube    air, aired                    the broadcast, its length    *)
(*   worker     phase, rowTodo, sessTodo      lifecycle, boot reconciler   *)
(*              cpc, cseen, csess, ctl        LIVE_CAPTURE executions      *)
(*              lpc                           the 'failed' listener        *)
(*              ppc, pseen, psess, scan       LIVE_PROBE executions, scan  *)
(*              script, sweepTodo             writes an actor still owes   *)
(*              kpc, ksess                    completeness re-check        *)
(*   api        epc                           one enqueue of the broadcast *)
(***************************************************************************)
EXTENDS Naturals, Sequences, FiniteSets

CONSTANTS
    Videos,             \* broadcasts
    Captures,           \* ids LIVE_CAPTURE rows may get, in order of creation
    Sessions,           \* ids LiveSession rows may get, in order of creation
    MinLength,          \* seconds a broadcast airs at least
    MaxLength,          \* and at most
    MaxFaults,          \* MaxFaults[k]: bound on the events of kind k
    MaxTrouble,         \* bound on the events of all kinds but unlabelled together
    NoVideo             \* the video of a row that does not exist

NoSession == 0
NoCapture == 0

\* The events the environment inflicts, each counted and bounded:
\*   crash   the live worker dies           drain   it is asked to stop
\*   lock    BullMQ expires a live lock     db      a worker statement throws
\*   hang    yt-dlp lives but stops growing spawn   yt-dlp cannot be started
\*   glitch  a probe errs on a stream on air, or is rate limited
\*   cancel  the channel is purged: its running capture is told to cancel
\*   enqueue the owner enqueues the broadcast as a download
\*   unlabelled   a probe of a broadcast that is not over reports a length and
\*                no live status
FaultKinds == {"crash", "drain", "lock", "db", "hang", "spawn", "glitch", "cancel", "enqueue",
               "unlabelled"}

ASSUME IdsAssumption ==
    /\ Captures \subseteq Nat \ {NoCapture}
    /\ Sessions \subseteq Nat \ {NoSession}
    /\ NoVideo \notin Videos
    /\ Videos \cap Captures = {}
ASSUME LiveBoundsAssumption ==
    /\ MinLength \in Nat \ {0} /\ MaxLength \in Nat /\ MinLength <= MaxLength
    /\ MaxFaults \in [FaultKinds -> Nat]
    /\ MaxTrouble \in Nat

VARIABLES
    content, copyState, parked,
    sessState, sessVideo,
    capStatus, capVideo, capSession,
    probeRow, dlRow, verifyRow,
    media, fresh, prior,
    bull, probeBull,
    air, aired,
    phase, rowTodo, sessTodo,
    cpc, cseen, csess, ctl,
    lpc,
    ppc, pseen, psess, scan,
    script, sweepTodo,
    kpc, ksess,
    epc,
    faults

sessVars == <<sessState, sessVideo>>
capVars == <<capStatus, capVideo, capSession>>
diskVars == <<media, fresh, prior>>
airVars == <<air, aired>>
runVars == <<cpc, cseen, csess, ctl>>
probeVars == <<ppc, pseen, psess>>
bootVars == <<phase, rowTodo, sessTodo>>
archiveVars == <<dlRow, verifyRow, epc>>
checkVars == <<kpc, ksess>>

vars == <<content, copyState, parked, sessState, sessVideo, capStatus, capVideo,
          capSession, probeRow, dlRow, verifyRow, media, fresh, prior, bull,
          probeBull, air, aired, phase, rowTodo, sessTodo, cpc, cseen, csess, ctl,
          lpc, ppc, pseen, psess, scan, script, sweepTodo, kpc, ksess, epc, faults>>

-----------------------------------------------------------------------------
\* Value spaces

\* The abstract lifecycle every writer of copyState implements.
Lifecycle == INSTANCE CopyLifecycle WITH Videos <- Videos, copyState <- copyState
CopyStates == Lifecycle!CopyStates

\* "none": the video is not in the vault yet.
Contents == {"none", "REGULAR", "LIVE"}
ActiveSession == {"DETECTED", "CAPTURING"}
LiveEndKinds == {"NORMAL", "INTERRUPTED", "PENDING", "EMPTY"}
SettledSession == {"ENDED_NORMAL", "ENDED_INTERRUPTED", "FAILED"}
SessionStates == {"ABSENT", "ENDED_PENDING"} \cup ActiveSession \cup SettledSession
ActiveRow == {"QUEUED", "RUNNING"}
CaptureStatuses == {"ABSENT", "COMPLETED", "FAILED", "CANCELED"} \cup ActiveRow

\* A control entry: not registered, registered, or aborted with a mode.
CtlStates == {"absent", "clear", "cancel", "shutdown"}
Phases == {"up", "draining", "down", "rows", "sessions", "sweep"}
CaptureSteps == {"idle", "load", "begin", "reread", "prepare", "mark", "reuse",
                 "adopt", "run", "exited", "hung", "measure", "settle"}
ListenSteps == {"idle", "row", "mark", "read", "settle"}
ProbeSteps == {"idle", "look", "list", "sweep", "read", "guard", "create", "promote",
               "session", "open", "refind", "capture", "row", "add"}
CheckSteps == {"idle", "measure", "settle"}

\* Who owes writes: an execution of a capture, its listener, the probe of a
\* broadcast, the boot reconciler, the completeness re-check.
Actors == ({"run", "listen"} \X Captures) \cup ({"probe", "check"} \X Videos)
          \cup {<<"boot", 0>>}

\* One awaited write of a finalizer.  A hop moves a video when it is still in
\* from; "chain" starts a verify if it landed, "gate" gives up the rest if not.
Hop(v, from, to) == [op |-> "hop", on |-> v, from |-> from, to |-> to]
ChainedHop(v, from, to) == [op |-> "chain", on |-> v, from |-> from, to |-> to]
Gate(v, from, to) == [op |-> "gate", on |-> v, from |-> from, to |-> to]
Verify(v) == [op |-> "verify", on |-> v, from |-> "", to |-> ""]
Publication(v) == [op |-> "publish", on |-> v, from |-> "", to |-> ""]
Settle(s, from, to) == [op |-> "session", on |-> s, from |-> from, to |-> to]
Row(c, to) == [op |-> "row", on |-> c, from |-> "", to |-> to]

HopOps == {o \in [op : {"hop", "chain", "gate"}, on : Videos,
                  from : CopyStates, to : CopyStates] :
              <<o.from, o.to>> \in Lifecycle!CopyEdges}
SessionOps == [op : {"session"}, on : Sessions \cup {NoSession}, from : {"active", "pending"},
               to : SettledSession \cup {"ENDED_PENDING"}]
RowOps == [op : {"row"}, on : Captures, from : {""},
           to : {"QUEUED", "COMPLETED", "FAILED", "CANCELED"}]
VideoOps == [op : {"verify", "publish"}, on : Videos, from : {""}, to : {""}]
Ops == HopOps \cup SessionOps \cup RowOps \cup VideoOps

TypeOK ==
    /\ content \in [Videos -> Contents]
    /\ copyState \in [Videos -> CopyStates]
    /\ parked \in [Videos -> {"no", "waiting", "expired"}]
    /\ sessState \in [Sessions -> SessionStates]
    /\ sessVideo \in [Sessions -> Videos \cup {NoVideo}]
    /\ capStatus \in [Captures -> CaptureStatuses]
    /\ capVideo \in [Captures -> Videos \cup {NoVideo}]
    /\ capSession \in [Captures -> Sessions \cup {NoSession}]
    /\ probeRow \in [Videos -> BOOLEAN]
    /\ dlRow \in [Videos -> {"none"} \cup ActiveRow]
    /\ verifyRow \in [Videos -> BOOLEAN]
    /\ media \in [Videos -> Nat] /\ fresh \in [Videos -> Nat] /\ prior \in [Videos -> Nat]
    /\ bull \in [Captures -> {"absent", "waiting", "active"}]
    /\ probeBull \in [Videos -> {"absent", "waiting", "active", "again", "last"}]
    /\ air \in [Videos -> {"upcoming", "live", "ended"}]
    /\ aired \in [Videos -> Nat]
    /\ phase \in Phases
    /\ rowTodo \subseteq (Captures \cup Videos)
    /\ sessTodo \subseteq (Sessions \X CopyStates)
    /\ cpc \in [Captures -> CaptureSteps]
    /\ cseen \in [Captures -> CopyStates]
    /\ csess \in [Captures -> Sessions \cup {NoSession}]
    /\ ctl \in [Captures -> CtlStates]
    /\ lpc \in [Captures -> ListenSteps]
    /\ ppc \in [Videos -> ProbeSteps]
    /\ pseen \in [Videos -> CopyStates]
    /\ psess \in [Videos -> Sessions \cup {NoSession}]
    /\ scan \in [Videos -> {"idle", "add"}]
    /\ script \in [Actors -> Seq(Ops)]
    /\ sweepTodo \in [Actors -> SUBSET Videos]
    /\ kpc \in [Videos -> CheckSteps]
    /\ ksess \in [Videos -> Sessions \cup {NoSession}]
    /\ epc \in [Videos -> {"idle"} \cup CopyStates]
    /\ faults \in [FaultKinds \cup {"any"} -> Nat]

-----------------------------------------------------------------------------
\* Reads

\* The rows of ux_live_session_active.
ActiveSessions(v) == {s \in Sessions : sessVideo[s] = v /\ sessState[s] \in ActiveSession}
ActiveCaptures(v) == {c \in Captures : capVideo[c] = v /\ capStatus[c] \in ActiveRow}
NewSession(s) ==
    /\ sessState[s] = "ABSENT"
    /\ \A t \in Sessions : t < s => sessState[t] # "ABSENT"
NewCapture(c) ==
    /\ capStatus[c] = "ABSENT"
    /\ \A d \in Captures : d < c => capStatus[d] # "ABSENT"

\* resolveLiveCaptureArtifacts: the largest media file, fresh or set aside.
\* It is 0 when liveMediaBytes is.
Largest(v) == IF fresh[v] > prior[v] THEN fresh[v] ELSE prior[v]

\* NON_FINAL_LIVE_STATUSES: the broadcast is not over, or its VOD not final.
\* Every other status is final, the unknown one of a failed probe too.
NonFinal == {"is_live", "is_upcoming", "post_live"}

\* A shortfall of max(1s, 2% of the expected length) is tolerated.
WithinTolerance(captured, expected) ==
    \/ expected <= captured + 1
    \/ 49 * expected <= 50 * captured

\* Mutant: a length that is not known is taken for reached.
CompletenessHopeful(captured, expected, status) ==
    IF captured = 0 THEN "EMPTY"
    ELSE IF status \in NonFinal THEN "PENDING"
    ELSE IF WithinTolerance(captured, expected) THEN "NORMAL" ELSE "INTERRUPTED"
\* classifyLiveCompleteness: captured is 0 when ffprobe cannot read the file,
\* expected is 0 when the length is not known, status is what the source says.
Completeness(captured, expected, status) ==
    IF captured = 0 THEN "EMPTY"
    ELSE IF status \in NonFinal \/ expected = 0 THEN "PENDING"
    ELSE IF WithinTolerance(captured, expected) THEN "NORMAL" ELSE "INTERRUPTED"

\* What probeVodDuration reports of v: nothing when it fails, else the status of
\* the broadcast with its length, or without one yet.
VodProbes(v) ==
    {<<"unknown", 0>>} \cup
    ((IF air[v] = "upcoming" THEN {"is_upcoming"}
      ELSE IF air[v] = "live" THEN {"is_live"}
      ELSE {"post_live", "was_live", "not_live", "unknown"}) \X {0, aired[v]})

\* One more event of kind k, within the bounds.
Fault(k) ==
    /\ faults["any"] < MaxTrouble
    /\ faults[k] < MaxFaults[k]
    /\ faults' = [faults EXCEPT ![k] = @ + 1, !["any"] = @ + 1]

\* One more answer without a status: what is measured then was troubled before.
Mislabels ==
    /\ faults["unlabelled"] < MaxFaults["unlabelled"]
    /\ faults' = [faults EXCEPT !["unlabelled"] = @ + 1]

\* v is measured, and judged by what ffprobe and the probe have reported.
Measured(v, verdict) ==
    \E captured \in {0, media[v]} :
        \/ /\ \E vod \in VodProbes(v) : verdict = Completeness(captured, vod[2], vod[1])
           /\ UNCHANGED faults
        \/ /\ air[v] # "ended"
           /\ verdict = Completeness(captured, aired[v], "unknown")
           /\ Mislabels

-----------------------------------------------------------------------------
\* Writes

\* Mutant: the hop is written whatever the video is by now.
TransitionCopyBlind(v, from, to) == copyState' = [copyState EXCEPT ![v] = to]
\* VideoStateService.transitionCopy: the hop lands only from the expected state.
TransitionCopy(v, from, to) ==
    copyState' = IF copyState[v] = from THEN [copyState EXCEPT ![v] = to] ELSE copyState

\* markContentTypeLive: never undone.
MarkContentTypeLive(v) == content' = [content EXCEPT ![v] = "LIVE"]

CreateSession(s, v, state) ==
    /\ NewSession(s)
    /\ sessState' = [sessState EXCEPT ![s] = state]
    /\ sessVideo' = [sessVideo EXCEPT ![s] = v]

\* LiveFinalizer.publish: the largest file becomes the media, staging is wiped.
Publish(v) ==
    /\ media' = [media EXCEPT ![v] = IF Largest(v) > 0 THEN Largest(v) ELSE @]
    /\ fresh' = [fresh EXCEPT ![v] = 0]
    /\ prior' = [prior EXCEPT ![v] = 0]

-----------------------------------------------------------------------------
\* Broadcasts announced and not aired yet, the worker up and idle.
Init ==
    /\ content = [v \in Videos |-> "none"]
    /\ copyState = [v \in Videos |-> "CANDIDATE"]
    /\ parked = [v \in Videos |-> "no"]
    /\ sessState = [s \in Sessions |-> "ABSENT"]
    /\ sessVideo = [s \in Sessions |-> NoVideo]
    /\ capStatus = [c \in Captures |-> "ABSENT"]
    /\ capVideo = [c \in Captures |-> NoVideo]
    /\ capSession = [c \in Captures |-> NoSession]
    /\ probeRow = [v \in Videos |-> FALSE]
    /\ dlRow = [v \in Videos |-> "none"]
    /\ verifyRow = [v \in Videos |-> FALSE]
    /\ media = [v \in Videos |-> 0]
    /\ fresh = [v \in Videos |-> 0]
    /\ prior = [v \in Videos |-> 0]
    /\ bull = [c \in Captures |-> "absent"]
    /\ probeBull = [v \in Videos |-> "absent"]
    /\ air = [v \in Videos |-> "upcoming"]
    /\ aired = [v \in Videos |-> 0]
    /\ phase = "up"
    /\ rowTodo = {}
    /\ sessTodo = {}
    /\ cpc = [c \in Captures |-> "idle"]
    /\ cseen = [c \in Captures |-> "CANDIDATE"]
    /\ csess = [c \in Captures |-> NoSession]
    /\ ctl = [c \in Captures |-> "absent"]
    /\ lpc = [c \in Captures |-> "idle"]
    /\ ppc = [v \in Videos |-> "idle"]
    /\ pseen = [v \in Videos |-> "CANDIDATE"]
    /\ psess = [v \in Videos |-> NoSession]
    /\ scan = [v \in Videos |-> "idle"]
    /\ script = [a \in Actors |-> <<>>]
    /\ sweepTodo = [a \in Actors |-> {}]
    /\ kpc = [v \in Videos |-> "idle"]
    /\ ksess = [v \in Videos |-> NoSession]
    /\ epc = [v \in Videos |-> "idle"]
    /\ faults = [k \in FaultKinds \cup {"any"} |-> 0]
=============================================================================

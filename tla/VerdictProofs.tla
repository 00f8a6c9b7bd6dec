----------------------------- MODULE VerdictProofs ----------------------------
(***************************************************************************)
(* Proofs about the sessions of LivePipeline: the first verdict on a       *)
(* session is its last, and a session that is recording has an active row, *)
(* or somebody about to settle it.                                         *)
(*                                                                         *)
(* SessionInv ties sessions, rows and executions together.  Its core is    *)
(* Strangers: an execution that records another session than the one its   *)
(* row was created for, because that one was settled meanwhile, records a  *)
(* session no row was ever created for.  From there a settlement owed late,*)
(* by an execution whose row has failed already, never meets the session a *)
(* later recording is about to adopt (AdoptedActive), and a session a row  *)
(* was created for is never forgotten when the row is handed back (Held).  *)
(***************************************************************************)
EXTENDS SessionProofs

-----------------------------------------------------------------------------
\* The invariant

\* The steps of an execution that has claimed its row, and those before it
\* records a session.
WorkSteps == ClaimSteps \cup {"settle"}
EarlySteps == {"begin", "reread", "prepare", "mark", "reuse"}

\* A session, the rows created for it and who works on it are of one broadcast.
SessionsBorn == \A s \in Sessions : sessState[s] = "ABSENT" => sessVideo[s] = NoVideo
RowsHaveSession ==
    \A c \in Captures :
        IF capStatus[c] = "ABSENT" THEN capSession[c] = NoSession
        ELSE capSession[c] \in Sessions /\ sessVideo[capSession[c]] = capVideo[c]
FoundSession(v) == psess[v] \in Sessions /\ sessVideo[psess[v]] = v
ProbesHaveSession == \A v \in Videos : ppc[v] \in {"capture", "row"} => FoundSession(v)
WorkHasSession ==
    \A c \in Captures :
        /\ cpc[c] \in WorkSteps => csess[c] \in Sessions /\ sessVideo[csess[c]] = capVideo[c]
        /\ cpc[c] \in EarlySteps => csess[c] = capSession[c]

\* The index: a broadcast has one active session.
OneActiveSession ==
    \A s, t \in Sessions :
        /\ sessState[s] \in ActiveSession /\ sessState[t] \in ActiveSession
        /\ sessVideo[s] = sessVideo[t]
        => s = t

\* The active session of a broadcast with an active row is the row's own, or
\* one no row was created for; so for a probe that is about to create a row.
Stranger(s, own) == s # own => Rowless(s)
Strangers ==
    faults["lock"] = 0 =>
        /\ \A c \in Captures : capStatus[c] \in ActiveRow =>
              \A s \in ActiveSessions(capVideo[c]) : Stranger(s, capSession[c])
        /\ \A v \in Videos : ppc[v] \in {"capture", "row"} =>
              \A s \in ActiveSessions(v) : Stranger(s, psess[v])
        /\ \A c \in Captures : /\ cpc[c] = "reuse" => sessState[csess[c]] \notin ActiveSession
                               /\ cpc[c] = "adopt" => Rowless(csess[c])

SessionInv ==
    /\ SessionsBorn /\ RowsHaveSession /\ ProbesHaveSession /\ WorkHasSession
    /\ OneActiveSession /\ Strangers

-----------------------------------------------------------------------------
\* The value spaces and the groups of variables are expanded throughout.
USE DEF NoSession, NoCapture, FaultKinds, Contents, ActiveSession, SettledSession,
        SessionStates, ActiveRow, CaptureStatuses, CtlStates, Phases, CaptureSteps,
        ListenSteps, ProbeSteps, CheckSteps, CopyStates, Lifecycle!CopyStates,
        sessVars, capVars, diskVars, airVars, runVars, probeVars, bootVars, archiveVars,
        checkVars, captureFrame, quietFrame, runFrame, listenFrame, probeFrame, rowsFrame,
        detectFrame, checkFrame, archiveFrame, videoFrame, bootFrame, airFrame, stopFrame

-----------------------------------------------------------------------------
\* The steps

\* A step that makes no session, row, probe or execution anew, but may end any,
\* keeps the invariant.
Recedes ==
    /\ UNCHANGED <<sessVideo, capVideo, capSession>>
    /\ \A s \in Sessions :
          /\ sessState'[s] \in ActiveSession => sessState[s] \in ActiveSession
          /\ sessState'[s] = "ABSENT" <=> sessState[s] = "ABSENT"
    /\ \A c \in Captures :
          /\ capStatus'[c] \in ActiveRow => capStatus[c] \in ActiveRow
          /\ capStatus'[c] = "ABSENT" <=> capStatus[c] = "ABSENT"
          /\ cpc'[c] \in WorkSteps => cpc[c] \in WorkSteps /\ csess'[c] = csess[c]
          /\ cpc'[c] \in EarlySteps => cpc[c] \in EarlySteps
          /\ cpc'[c] \in {"reuse", "adopt"} => cpc[c] = cpc'[c]
    /\ \A v \in Videos :
          ppc'[v] \in {"capture", "row"} => ppc[v] \in {"capture", "row"} /\ psess'[v] = psess[v]
    /\ faults'["lock"] = 0 => faults["lock"] = 0

LEMMA RecedingKeeps ==
  ASSUME SessionInv, Recedes
  PROVE  SessionInv'
<1>1. SessionsBorn' /\ RowsHaveSession' /\ ProbesHaveSession'
  BY DEF Recedes, SessionInv, SessionsBorn, RowsHaveSession, ProbesHaveSession, FoundSession
<1>2. WorkHasSession'
  BY DEF Recedes, SessionInv, WorkHasSession, WorkSteps, EarlySteps, ClaimSteps
<1>3. OneActiveSession'
  BY DEF Recedes, SessionInv, OneActiveSession
<1>4. Strangers'
  <2> SUFFICES ASSUME faults'["lock"] = 0 PROVE Strangers'
    BY DEF Strangers
  <2>1. /\ \A v : ActiveSessions(v)' \subseteq ActiveSessions(v)
        /\ \A s : Rowless(s)' = Rowless(s)
        /\ UNCHANGED <<capVideo, capSession>>
    BY DEF Recedes, ActiveSessions, Rowless
  <2>2. faults["lock"] = 0
    BY DEF Recedes
  <2>3. ASSUME NEW c \in Captures, capStatus'[c] \in ActiveRow,
               NEW s \in ActiveSessions(capVideo[c])'
        PROVE  Stranger(s, capSession[c])'
    <3>1. capStatus[c] \in ActiveRow /\ s \in ActiveSessions(capVideo[c])
      BY <2>1, <2>3 DEF Recedes, ActiveSessions
    <3> QED BY <2>1, <2>2, <3>1 DEF SessionInv, Strangers, Stranger
  <2>4. ASSUME NEW v \in Videos, ppc'[v] \in {"capture", "row"}, NEW s \in ActiveSessions(v)'
        PROVE  Stranger(s, psess[v])'
    BY <2>1, <2>2, <2>4 DEF Recedes, SessionInv, Strangers, Stranger
  <2>5. ASSUME NEW c \in Captures
        PROVE  (/\ cpc[c] = "reuse" => sessState[csess[c]] \notin ActiveSession
                /\ cpc[c] = "adopt" => Rowless(csess[c]))'
    <3>1. cpc'[c] \in {"reuse", "adopt"} =>
             cpc[c] = cpc'[c] /\ csess'[c] = csess[c] /\ csess[c] \in Sessions
      BY DEF Recedes, SessionInv, WorkHasSession, WorkSteps, ClaimSteps
    <3> QED BY <2>1, <2>2, <3>1 DEF Recedes, SessionInv, Strangers, Rowless
  <2> QED BY <2>3, <2>4, <2>5 DEF Strangers
<1> QED BY <1>1, <1>2, <1>3, <1>4 DEF SessionInv

-----------------------------------------------------------------------------
\* The steps that take a session on

\* A claim takes the session of its row.
LEMMA LoadLinks ==
  ASSUME LiveInv, RecorderInv, SessionInv, NEW c \in Captures, Load(c)
  PROVE  SessionInv'
<1>1. CASE capStatus[c] # "QUEUED"
  <2>1. /\ cpc' = [cpc EXCEPT ![c] = "idle"] /\ csess' = [csess EXCEPT ![c] = NoSession]
        /\ UNCHANGED <<sessVars, capVars, ppc, psess, faults>>
    BY <1>1 DEF Load, Leave, Goto
  <2>2. Recedes
    BY <2>1 DEF Recedes, WorkSteps, EarlySteps, ClaimSteps, LiveInv, Types, CaptureTypes
  <2> QED BY <2>2, RecedingKeeps
<1>2. CASE capStatus[c] = "QUEUED"
  <2>1. /\ cpc' = [cpc EXCEPT ![c] = "begin"] /\ csess' = [csess EXCEPT ![c] = capSession[c]]
        /\ capStatus' = [capStatus EXCEPT ![c] = "RUNNING"]
        /\ UNCHANGED <<sessVars, capVideo, capSession, ppc, psess, faults>>
    BY <1>2 DEF Load, Goto
  <2>2. /\ cpc \in [Captures -> CaptureSteps] /\ csess \in [Captures -> Sessions \cup {NoSession}]
        /\ capStatus \in [Captures -> CaptureStatuses]
    BY DEF LiveInv, Types, CaptureTypes, RowTypes
  <2>3. SessionsBorn' /\ RowsHaveSession' /\ ProbesHaveSession' /\ OneActiveSession'
    BY <1>2, <2>1, <2>2 DEF SessionInv, SessionsBorn, RowsHaveSession, ProbesHaveSession,
                            FoundSession, OneActiveSession
  <2>4. WorkHasSession'
    BY <1>2, <2>1, <2>2 DEF SessionInv, WorkHasSession, RowsHaveSession, WorkSteps, EarlySteps
  <2>5. Strangers'
    BY <1>2, <2>1, <2>2 DEF SessionInv, Strangers, Stranger, ActiveSessions, Rowless
  <2> QED BY <2>3, <2>4, <2>5 DEF SessionInv
<1> QED BY <1>1, <1>2

\* A session that is born has no row yet.
LEMMA BornLinks ==
  ASSUME LiveInv, SessionInv, NEW t \in Sessions, NEW v \in Videos,
         NEW state \in ActiveSession, CreateSession(t, v, state),
         ActiveSessions(v) = {}, UNCHANGED capVars
  PROVE  /\ SessionsBorn' /\ RowsHaveSession' /\ OneActiveSession'
         /\ \A w : ActiveSessions(w)' = ActiveSessions(w) \cup (IF w = v THEN {t} ELSE {})
         /\ Rowless(t) /\ \A s : Rowless(s)' = Rowless(s)
         /\ \A s \in Sessions : s # t => sessState'[s] = sessState[s] /\ sessVideo'[s] = sessVideo[s]
         /\ sessState'[t] = state /\ sessVideo'[t] = v
         /\ sessVideo[t] \notin Videos
<1>0. /\ sessState \in [Sessions -> SessionStates]
      /\ sessVideo \in [Sessions -> Videos \cup {NoVideo}]
  BY DEF LiveInv, Types, RowTypes
<1>1. /\ sessState[t] = "ABSENT" /\ sessVideo[t] = NoVideo /\ NoVideo \notin Videos
      /\ sessState' = [sessState EXCEPT ![t] = state]
      /\ sessVideo' = [sessVideo EXCEPT ![t] = v]
  BY IdsAssumption DEF CreateSession, NewSession, SessionInv, SessionsBorn
<1>2. \A w : ActiveSessions(w)' = ActiveSessions(w) \cup (IF w = v THEN {t} ELSE {})
  BY <1>0, <1>1 DEF ActiveSessions
<1>3. Rowless(t)
  <2> SUFFICES ASSUME NEW c \in Captures, capSession[c] = t PROVE FALSE
    BY DEF Rowless
  <2>1. capStatus[c] # "ABSENT"
    BY IdsAssumption DEF SessionInv, RowsHaveSession
  <2>2. capVideo[c] \in Videos
    BY <2>1 DEF LiveInv, RowsLinked, IsLive
  <2> QED BY <1>1, <2>1, <2>2 DEF SessionInv, RowsHaveSession
<1>4. SessionsBorn'
  BY <1>0, <1>1 DEF SessionInv, SessionsBorn
<1>5. RowsHaveSession'
  <2>1. \A c \in Captures : capSession[c] # t
    BY <1>3 DEF Rowless
  <2> QED BY <1>0, <1>1, <2>1 DEF SessionInv, RowsHaveSession
<1>6. OneActiveSession'
  <2>1. \A s \in Sessions : sessState[s] \in ActiveSession => sessVideo[s] # v
    BY DEF ActiveSessions
  <2> QED BY <1>0, <1>1, <2>1 DEF SessionInv, OneActiveSession
<1>7. \A s : Rowless(s)' = Rowless(s)
  BY DEF Rowless
<1> QED BY <1>0, <1>1, <1>2, <1>3, <1>4, <1>5, <1>6, <1>7

\* An execution at work is on a broadcast of the vault.
LEMMA WorkAt ==
  ASSUME LiveInv, SessionInv, NEW c \in Captures, cpc[c] \in WorkSteps
  PROVE  /\ capVideo[c] \in Videos /\ csess[c] \in Sessions /\ sessVideo[csess[c]] = capVideo[c]
         /\ cpc[c] \in EarlySteps => csess[c] = capSession[c]
<1>1. capVideo[c] \in Videos
  BY DEF LiveInv, RowsLinked, IsLive, WorkSteps, ClaimSteps
<1> QED BY <1>1 DEF SessionInv, WorkHasSession

LEMMA MarkLinks ==
  ASSUME LiveInv, RecorderInv, SessionInv, NEW c \in Captures, MarkSessionCapturing(c)
  PROVE  SessionInv'
<1> DEFINE v == capVideo[c]
<1>1. /\ cpc[c] = "mark" /\ v \in Videos /\ csess[c] \in Sessions /\ sessVideo[csess[c]] = v
      /\ csess[c] = capSession[c]
      /\ UNCHANGED <<capVars, ppc, psess, faults>>
  BY WorkAt DEF MarkSessionCapturing, WorkSteps, ClaimSteps, EarlySteps
<1>2. /\ cpc \in [Captures -> CaptureSteps] /\ csess \in [Captures -> Sessions \cup {NoSession}]
      /\ sessState \in [Sessions -> SessionStates]
  BY DEF LiveInv, Types, CaptureTypes, RowTypes
<1>3. CASE sessState[csess[c]] \in ActiveSession
  <2>1. /\ sessState' = [sessState EXCEPT ![csess[c]] = "CAPTURING"]
        /\ cpc' = [cpc EXCEPT ![c] = "run"] /\ UNCHANGED <<sessVideo, csess>>
    BY <1>3 DEF MarkSessionCapturing, Goto
  <2>2. Recedes
    BY <1>1, <1>2, <1>3, <2>1 DEF Recedes, WorkSteps, EarlySteps, ClaimSteps
  <2> QED BY <2>2, RecedingKeeps
<1>4. CASE sessState[csess[c]] \notin ActiveSession /\ ActiveSessions(v) # {}
  <2>1. cpc' = [cpc EXCEPT ![c] = "reuse"] /\ UNCHANGED <<sessVars, csess>>
    BY <1>4 DEF MarkSessionCapturing, Goto
  <2>2. SessionsBorn' /\ RowsHaveSession' /\ ProbesHaveSession' /\ OneActiveSession'
    BY <1>1, <2>1 DEF SessionInv, SessionsBorn, RowsHaveSession, ProbesHaveSession,
                      FoundSession, OneActiveSession
  <2>3. WorkHasSession'
    BY <1>1, <1>2, <2>1 DEF SessionInv, WorkHasSession, WorkSteps, EarlySteps, ClaimSteps
  <2>4. Strangers'
    BY <1>1, <1>2, <1>4, <2>1 DEF SessionInv, Strangers, Stranger, ActiveSessions, Rowless
  <2> QED BY <2>2, <2>3, <2>4 DEF SessionInv
<1>5. CASE sessState[csess[c]] \notin ActiveSession /\ ActiveSessions(v) = {}
  <2>1. PICK t \in Sessions :
           /\ CreateSession(t, v, "CAPTURING")
           /\ csess' = [csess EXCEPT ![c] = t] /\ cpc' = [cpc EXCEPT ![c] = "run"]
    BY <1>5 DEF MarkSessionCapturing, Goto
  <2>2. /\ SessionsBorn' /\ RowsHaveSession' /\ OneActiveSession'
        /\ \A w : ActiveSessions(w)' = ActiveSessions(w) \cup (IF w = v THEN {t} ELSE {})
        /\ Rowless(t) /\ \A s : Rowless(s)' = Rowless(s)
        /\ \A s \in Sessions : s # t => sessState'[s] = sessState[s] /\ sessVideo'[s] = sessVideo[s]
        /\ sessState'[t] = "CAPTURING" /\ sessVideo'[t] = v
        /\ sessVideo[t] \notin Videos
    BY <1>1, <1>5, <2>1, BornLinks
  <2>3. ProbesHaveSession'
    BY <1>1, <2>2 DEF SessionInv, ProbesHaveSession, FoundSession
  <2>4. WorkHasSession'
    <3>1. ASSUME NEW d \in Captures, cpc'[d] \in WorkSteps
          PROVE  /\ csess'[d] \in Sessions /\ sessVideo'[csess'[d]] = capVideo[d]
                 /\ cpc'[d] \in EarlySteps => csess'[d] = capSession[d]
      <4>1. CASE d = c
        BY <1>1, <1>2, <2>1, <2>2, <4>1 DEF EarlySteps
      <4>2. CASE d # c
        BY <1>1, <1>2, <2>1, <2>2, <3>1, <4>2, WorkAt
      <4> QED BY <4>1, <4>2
    <3> QED BY <1>1, <3>1 DEF WorkHasSession, WorkSteps, EarlySteps, ClaimSteps
  <2>5. Strangers'
    <3> SUFFICES ASSUME faults["lock"] = 0 PROVE Strangers'
      BY <1>1 DEF Strangers
    <3>1. ASSUME NEW d \in Captures, cpc'[d] \in {"reuse", "adopt"}
          PROVE  d # c /\ cpc[d] = cpc'[d] /\ csess'[d] = csess[d] /\ csess[d] \in Sessions /\ csess[d] # t
      <4>1. d # c /\ cpc[d] = cpc'[d] /\ csess'[d] = csess[d]
        BY <1>2, <2>1, <3>1
      <4> QED BY <2>2, <3>1, <4>1, WorkAt DEF WorkSteps, ClaimSteps
    <3>2. (\A d \in Captures : /\ cpc[d] = "reuse" => sessState[csess[d]] \notin ActiveSession
                               /\ cpc[d] = "adopt" => Rowless(csess[d]))'
      BY <2>2, <3>1 DEF SessionInv, Strangers, Rowless
    <3>3. (\A d \in Captures : capStatus[d] \in ActiveRow =>
              \A s \in ActiveSessions(capVideo[d]) : Stranger(s, capSession[d]))'
      BY <1>1, <2>2 DEF SessionInv, Strangers, Stranger
    <3>4. (\A w \in Videos : ppc[w] \in {"capture", "row"} =>
              \A s \in ActiveSessions(w) : Stranger(s, psess[w]))'
      BY <1>1, <2>2 DEF SessionInv, Strangers, Stranger
    <3> QED BY <3>2, <3>3, <3>4 DEF Strangers
  <2> QED BY <2>2, <2>3, <2>4, <2>5 DEF SessionInv
<1> QED BY <1>3, <1>4, <1>5

\* The session that refused the insert is not the row's own: no row was created
\* for it.
LEMMA ReuseLinks ==
  ASSUME LiveInv, RecorderInv, SessionInv, NEW c \in Captures, Reuse(c)
  PROVE  SessionInv'
<1>1. /\ cpc[c] = "reuse" /\ csess[c] = capSession[c]
      /\ UNCHANGED <<sessVars, capVars, ppc, psess, faults>>
  BY WorkAt DEF Reuse, WorkSteps, ClaimSteps, EarlySteps
<1>2. /\ cpc \in [Captures -> CaptureSteps] /\ csess \in [Captures -> Sessions \cup {NoSession}]
  BY DEF LiveInv, Types, CaptureTypes
<1>3. CASE ActiveSessions(capVideo[c]) = {}
  <2>1. cpc' = [cpc EXCEPT ![c] = "idle"] /\ csess' = [csess EXCEPT ![c] = NoSession]
    BY <1>3 DEF Reuse, Leave, Goto
  <2>2. Recedes
    BY <1>1, <1>2, <2>1 DEF Recedes, WorkSteps, EarlySteps, ClaimSteps
  <2> QED BY <2>2, RecedingKeeps
<1>4. CASE ActiveSessions(capVideo[c]) # {}
  <2>1. PICK s \in ActiveSessions(capVideo[c]) : csess' = [csess EXCEPT ![c] = s]
    BY <1>4 DEF Reuse
  <2>2. cpc' = [cpc EXCEPT ![c] = "adopt"]
    BY <1>4 DEF Reuse, Goto
  <2>3. s \in Sessions /\ sessVideo[s] = capVideo[c] /\ sessState[s] \in ActiveSession
    BY <2>1 DEF ActiveSessions
  <2>4. SessionsBorn' /\ RowsHaveSession' /\ ProbesHaveSession' /\ OneActiveSession'
    BY <1>1 DEF SessionInv, SessionsBorn, RowsHaveSession, ProbesHaveSession,
                FoundSession, OneActiveSession
  <2>5. WorkHasSession'
    BY <1>1, <1>2, <2>1, <2>2, <2>3 DEF SessionInv, WorkHasSession, WorkSteps, EarlySteps, ClaimSteps
  <2>6. ASSUME faults["lock"] = 0 PROVE Rowless(s)
    <3>1. sessState[csess[c]] \notin ActiveSession /\ capStatus[c] = "RUNNING"
      BY <1>1, <2>6 DEF SessionInv, Strangers, RecorderInv, ClaimsKept, ClaimSteps
    <3> QED BY <1>1, <2>1, <2>3, <2>6, <3>1 DEF SessionInv, Strangers, Stranger
  <2>7. Strangers'
    BY <1>1, <1>2, <2>1, <2>2, <2>6 DEF SessionInv, Strangers, Stranger, ActiveSessions, Rowless
  <2> QED BY <2>4, <2>5, <2>7 DEF SessionInv
<1> QED BY <1>3, <1>4

\* An adopted session that is revived is one no row was created for.
LEMMA AdoptLinks ==
  ASSUME LiveInv, RecorderInv, SessionInv, NEW c \in Captures, Adopt(c)
  PROVE  SessionInv'
<1> DEFINE v == capVideo[c]
           s == csess[c]
<1>1. /\ cpc[c] = "adopt" /\ v \in Videos /\ s \in Sessions /\ sessVideo[s] = v
      /\ cpc' = [cpc EXCEPT ![c] = "run"]
      /\ UNCHANGED <<sessVideo, capVars, ppc, psess, csess, faults>>
  BY WorkAt DEF Adopt, Goto, WorkSteps, ClaimSteps
<1>2. /\ cpc \in [Captures -> CaptureSteps] /\ sessState \in [Sessions -> SessionStates]
  BY DEF LiveInv, Types, CaptureTypes, RowTypes
<1>3. sessState[s] # "ABSENT"
  BY <1>1, IdsAssumption DEF SessionInv, SessionsBorn
<1>4. CASE UNCHANGED sessState \/ sessState[s] \in ActiveSession
  <2>1. UNCHANGED sessState \/ sessState' = [sessState EXCEPT ![s] = "CAPTURING"]
    BY DEF Adopt
  <2>2. Recedes
    BY <1>1, <1>2, <1>3, <1>4, <2>1 DEF Recedes, WorkSteps, EarlySteps, ClaimSteps
  <2> QED BY <2>2, RecedingKeeps
<1>5. CASE ActiveSessions(v) \subseteq {s} /\ sessState' = [sessState EXCEPT ![s] = "CAPTURING"]
  <2>1. SessionsBorn' /\ RowsHaveSession' /\ ProbesHaveSession'
    BY <1>1, <1>2, <1>3, <1>5 DEF SessionInv, SessionsBorn, RowsHaveSession, ProbesHaveSession,
                                  FoundSession
  <2>2. OneActiveSession'
    BY <1>1, <1>2, <1>5 DEF SessionInv, OneActiveSession, ActiveSessions
  <2>3. WorkHasSession'
    BY <1>1, <1>2 DEF SessionInv, WorkHasSession, WorkSteps, EarlySteps, ClaimSteps
  <2>4. Strangers'
    <3> SUFFICES ASSUME faults["lock"] = 0 PROVE Strangers'
      BY <1>1 DEF Strangers
    <3>1. Rowless(s) /\ \A t : Rowless(t)' = Rowless(t)
      BY <1>1 DEF SessionInv, Strangers, Rowless
    <3>2. \A w : ActiveSessions(w)' \subseteq ActiveSessions(w) \cup {s}
      BY <1>1, <1>2, <1>5 DEF ActiveSessions
    <3>3. \A d \in Captures : cpc'[d] \in {"reuse", "adopt"} => cpc[d] = cpc'[d]
      BY <1>1, <1>2
    <3>4. \A d \in Captures : cpc[d] = "reuse" => csess[d] # s /\ csess[d] \in Sessions
      BY <3>1, WorkAt DEF EarlySteps, WorkSteps, ClaimSteps, Rowless
    <3>5. (\A d \in Captures : /\ cpc[d] = "reuse" => sessState[csess[d]] \notin ActiveSession
                               /\ cpc[d] = "adopt" => Rowless(csess[d]))'
      BY <1>1, <1>2, <1>5, <3>1, <3>3, <3>4 DEF SessionInv, Strangers
    <3>6. (\A d \in Captures : capStatus[d] \in ActiveRow =>
              \A t \in ActiveSessions(capVideo[d]) : Stranger(t, capSession[d]))'
      BY <1>1, <3>1, <3>2 DEF SessionInv, Strangers, Stranger
    <3>7. (\A w \in Videos : ppc[w] \in {"capture", "row"} =>
              \A t \in ActiveSessions(w) : Stranger(t, psess[w]))'
      BY <1>1, <3>1, <3>2 DEF SessionInv, Strangers, Stranger
    <3> QED BY <3>5, <3>6, <3>7 DEF Strangers
  <2> QED BY <2>1, <2>2, <2>3, <2>4 DEF SessionInv
<1> QED BY <1>4, <1>5 DEF Adopt

\* A probe finds the active session, or opens one.
LEMMA FindLinks ==
  ASSUME LiveInv, RecorderInv, SessionInv, NEW v \in Videos, FindSession(v)
  PROVE  SessionInv'
<1>1. /\ ppc[v] \in {"session", "refind"} /\ UNCHANGED <<sessVars, capVars, cpc, csess, faults>>
  BY DEF FindSession
<1>2. /\ ppc \in [Videos -> ProbeSteps] /\ psess \in [Videos -> Sessions \cup {NoSession}]
  BY DEF LiveInv, Types, ProbeTypes
<1>3. CASE ActiveSessions(v) = {}
  <2>1. /\ \E step \in {"open", "idle"} : ppc' = [ppc EXCEPT ![v] = step]
        /\ \A w \in Videos : w # v => psess'[w] = psess[w]
    BY <1>2, <1>3 DEF FindSession, ProbeGoes, ProbeDone, ProbeGone, Step
  <2>2. Recedes
    BY <1>1, <1>2, <2>1 DEF Recedes
  <2> QED BY <2>2, RecedingKeeps
<1>4. CASE ActiveSessions(v) # {}
  <2>1. PICK s \in ActiveSessions(v) : psess' = [psess EXCEPT ![v] = s]
    BY <1>4 DEF FindSession
  <2>2. ppc' = [ppc EXCEPT ![v] = "capture"]
    BY <1>4 DEF FindSession, ProbeGoes, Step
  <2>3. s \in Sessions /\ sessVideo[s] = v /\ sessState[s] \in ActiveSession
    BY <2>1 DEF ActiveSessions
  <2>4. ActiveSessions(v) = {s}
    BY <2>1, <2>3 DEF ActiveSessions, SessionInv, OneActiveSession
  <2>5. SessionsBorn' /\ RowsHaveSession' /\ OneActiveSession' /\ WorkHasSession'
    BY <1>1 DEF SessionInv, SessionsBorn, RowsHaveSession, OneActiveSession, WorkHasSession
  <2>6. ProbesHaveSession'
    BY <1>1, <1>2, <2>1, <2>2, <2>3 DEF SessionInv, ProbesHaveSession, FoundSession
  <2>7. Strangers'
    <3>1. \A w : ActiveSessions(w)' = ActiveSessions(w)
      BY <1>1 DEF ActiveSessions
    <3>2. \A t, own : Stranger(t, own)' = Stranger(t, own) /\ Rowless(t)' = Rowless(t)
      BY <1>1 DEF Stranger, Rowless
    <3>3. Stranger(s, s)
      BY DEF Stranger
    <3>4. ASSUME faults["lock"] = 0, NEW w \in Videos, ppc'[w] \in {"capture", "row"},
                 NEW t \in ActiveSessions(w)
          PROVE  Stranger(t, psess'[w])
      BY <1>2, <2>1, <2>2, <2>4, <3>3, <3>4 DEF SessionInv, Strangers
    <3> HIDE DEF Stranger
    <3> QED BY <1>1, <3>1, <3>2, <3>4 DEF SessionInv, Strangers, Stranger, Rowless
  <2> QED BY <2>5, <2>6, <2>7 DEF SessionInv
<1> QED BY <1>3, <1>4

LEMMA OpenLinks ==
  ASSUME LiveInv, RecorderInv, SessionInv, NEW v \in Videos, OpenSession(v)
  PROVE  SessionInv'
<1>1. /\ ppc[v] = "open" /\ UNCHANGED <<capVars, cpc, csess, faults>>
  BY DEF OpenSession
<1>2. /\ ppc \in [Videos -> ProbeSteps] /\ psess \in [Videos -> Sessions \cup {NoSession}]
  BY DEF LiveInv, Types, ProbeTypes
<1>3. CASE ActiveSessions(v) # {}
  <2>1. ppc' = [ppc EXCEPT ![v] = "refind"] /\ UNCHANGED <<sessVars, psess>>
    BY <1>3 DEF OpenSession, MayOpen, ProbeGoes, Step
  <2>2. Recedes
    BY <1>1, <1>2, <2>1 DEF Recedes
  <2> QED BY <2>2, RecedingKeeps
<1>4. CASE ActiveSessions(v) = {}
  <2>1. PICK t \in Sessions :
           CreateSession(t, v, "DETECTED") /\ psess' = [psess EXCEPT ![v] = t]
    BY <1>4 DEF OpenSession, MayOpen
  <2>2. ppc' = [ppc EXCEPT ![v] = "capture"]
    BY <1>4 DEF OpenSession, MayOpen, ProbeGoes, Step
  <2>3. /\ SessionsBorn' /\ RowsHaveSession' /\ OneActiveSession'
        /\ \A w : ActiveSessions(w)' = ActiveSessions(w) \cup (IF w = v THEN {t} ELSE {})
        /\ Rowless(t) /\ \A s : Rowless(s)' = Rowless(s)
        /\ \A s \in Sessions : s # t => sessState'[s] = sessState[s] /\ sessVideo'[s] = sessVideo[s]
        /\ sessState'[t] = "DETECTED" /\ sessVideo'[t] = v
        /\ sessVideo[t] \notin Videos
    BY <1>1, <1>4, <2>1, BornLinks
  <2>4. ProbesHaveSession'
    BY <1>1, <1>2, <2>1, <2>2, <2>3 DEF SessionInv, ProbesHaveSession, FoundSession
  <2>5. WorkHasSession'
    BY <1>1, <2>3, WorkAt DEF SessionInv, WorkHasSession
  <2>6. Strangers'
    <3> SUFFICES ASSUME faults["lock"] = 0 PROVE Strangers'
      BY <1>1 DEF Strangers
    <3>1. (\A d \in Captures : /\ cpc[d] = "reuse" => sessState[csess[d]] \notin ActiveSession
                               /\ cpc[d] = "adopt" => Rowless(csess[d]))'
      <4>1. \A d \in Captures : cpc[d] = "reuse" => csess[d] \in Sessions /\ csess[d] # t
        BY <2>3, WorkAt DEF WorkSteps, ClaimSteps
      <4> QED BY <1>1, <2>3, <4>1 DEF SessionInv, Strangers
    <3>2. (\A d \in Captures : capStatus[d] \in ActiveRow =>
              \A s \in ActiveSessions(capVideo[d]) : Stranger(s, capSession[d]))'
      BY <1>1, <2>3 DEF SessionInv, Strangers, Stranger
    <3>3. ASSUME NEW w \in Videos, ppc'[w] \in {"capture", "row"}, NEW s \in ActiveSessions(w)'
          PROVE  Stranger(s, psess[w])'
      BY <1>1, <1>2, <1>4, <2>1, <2>2, <2>3, <3>3 DEF SessionInv, Strangers, Stranger
    <3> QED BY <3>1, <3>2, <3>3 DEF Strangers
  <2> QED BY <2>3, <2>4, <2>5, <2>6 DEF SessionInv
<1> QED BY <1>3, <1>4

\* A row is created for the session the probe found.
LEMMA CreateLinks ==
  ASSUME LiveInv, RecorderInv, SessionInv, NEW v \in Videos, CreateCapture(v)
  PROVE  SessionInv'
<1>1. PICK c \in Captures :
         /\ NewCapture(c)
         /\ capStatus' = [capStatus EXCEPT ![c] = "QUEUED"]
         /\ capVideo' = [capVideo EXCEPT ![c] = v]
         /\ capSession' = [capSession EXCEPT ![c] = psess[v]]
  BY DEF CreateCapture
<1>2. /\ ppc[v] = "row" /\ ppc' = [ppc EXCEPT ![v] = "add"]
      /\ UNCHANGED <<sessVars, psess, cpc, csess, faults>>
  BY DEF CreateCapture, ProbeGoes, Step
<1>3. /\ ppc \in [Videos -> ProbeSteps] /\ capStatus \in [Captures -> CaptureStatuses]
      /\ capVideo \in [Captures -> Videos \cup {NoVideo}]
      /\ capSession \in [Captures -> Sessions \cup {NoSession}]
      /\ cpc \in [Captures -> CaptureSteps]
  BY DEF LiveInv, Types, ProbeTypes, RowTypes, CaptureTypes
<1>4. capStatus[c] = "ABSENT" /\ capSession[c] = NoSession /\ cpc[c] = "idle"
  BY <1>1, IdsAssumption DEF NewCapture, SessionInv, RowsHaveSession, RecorderInv, RowsInOrder,
                             LiveInv, RowsLinked, IsLive
<1>5. psess[v] \in Sessions /\ sessVideo[psess[v]] = v
  BY <1>2 DEF SessionInv, ProbesHaveSession, FoundSession
<1>6. SessionsBorn' /\ OneActiveSession'
  BY <1>2 DEF SessionInv, SessionsBorn, OneActiveSession
<1>7. RowsHaveSession' /\ ProbesHaveSession'
  BY <1>1, <1>2, <1>3, <1>5 DEF SessionInv, RowsHaveSession, ProbesHaveSession, FoundSession
<1>8. WorkHasSession'
  BY <1>1, <1>2, <1>3, <1>4 DEF SessionInv, WorkHasSession, WorkSteps, ClaimSteps, EarlySteps
<1>9. Strangers'
  <2> SUFFICES ASSUME faults["lock"] = 0 PROVE Strangers'
    BY <1>2 DEF Strangers
  <2>1. \A w : ActiveSessions(w)' = ActiveSessions(w)
    BY <1>2 DEF ActiveSessions
  <2>2. \A s : Rowless(s) /\ s # psess[v] => Rowless(s)'
    BY <1>1, <1>3 DEF Rowless
  <2>3. \A d \in Captures : capStatus[d] \in ActiveRow => capVideo[d] # v
    BY <1>2 DEF RecorderInv, ProbeSees, ActiveCaptures
  <2>4. ASSUME NEW d \in Captures, capStatus'[d] \in ActiveRow,
               NEW s \in ActiveSessions(capVideo'[d])
        PROVE  Stranger(s, capSession[d])'
    <3>1. CASE d = c
      <4>1. capVideo'[d] = v /\ capSession'[d] = psess[v]
        BY <1>1, <1>3, <3>1
      <4>2. Stranger(s, psess[v])
        BY <1>2, <2>4, <4>1 DEF SessionInv, Strangers
      <4> QED BY <2>2, <4>1, <4>2 DEF Stranger
    <3>2. CASE d # c
      <4>1. /\ capVideo'[d] = capVideo[d] /\ capSession'[d] = capSession[d]
            /\ capStatus[d] \in ActiveRow /\ capVideo[d] # v
        BY <1>1, <1>3, <2>3, <2>4, <3>2
      <4>2. Stranger(s, capSession[d])
        BY <2>4, <4>1 DEF SessionInv, Strangers
      <4>3. s # psess[v]
        BY <1>5, <2>4, <4>1 DEF ActiveSessions
      <4> QED BY <2>2, <4>1, <4>2, <4>3 DEF Stranger
    <3> QED BY <3>1, <3>2
  <2>5. ASSUME NEW w \in Videos, ppc'[w] \in {"capture", "row"}, NEW s \in ActiveSessions(w)
        PROVE  Stranger(s, psess[w])'
    <3>1. w # v /\ ppc[w] \in {"capture", "row"}
      BY <1>2, <1>3, <2>5
    <3>2. s # psess[v]
      BY <1>5, <2>5, <3>1 DEF ActiveSessions
    <3> QED BY <1>2, <2>2, <2>5, <3>1, <3>2 DEF SessionInv, Strangers, Stranger
  <2>6. ASSUME NEW d \in Captures
        PROVE  (/\ cpc[d] = "reuse" => sessState[csess[d]] \notin ActiveSession
                /\ cpc[d] = "adopt" => Rowless(csess[d]))'
    <3>1. cpc[d] = "adopt" => csess[d] # psess[v]
      <4> SUFFICES ASSUME cpc[d] = "adopt", csess[d] = psess[v] PROVE FALSE
        OBVIOUS
      <4>1. capVideo[d] = v
        BY <1>5, WorkAt DEF WorkSteps, ClaimSteps
      <4>2. capStatus[d] = "RUNNING"
        BY DEF RecorderInv, ClaimsKept, ClaimSteps
      <4> QED BY <2>3, <4>1, <4>2
    <3> QED BY <1>2, <2>2, <3>1 DEF SessionInv, Strangers
  <2> QED BY <1>2, <2>1, <2>4, <2>5, <2>6 DEF Strangers
<1> QED BY <1>6, <1>7, <1>8, <1>9 DEF SessionInv

-----------------------------------------------------------------------------
\* The steps that only end things

\* A write settles at most the session its list names, and moves at most the row
\* of its own execution.
LEMMA WriteSettles ==
  ASSUME LiveInv, RecorderInv, NEW a \in Actors, Write(a) \/ WriteSwallowed(a)
  PROVE  /\ UNCHANGED <<sessVideo, capVideo, capSession, bull, phase, cpc, csess, ctl, lpc,
                        ppc, psess>>
         /\ \A s \in Sessions : sessState'[s] # sessState[s] =>
               LET o == Head(script[a]) IN
               /\ o.op = "session" /\ o.on = s /\ sessState'[s] = o.to
               /\ sessState[s] \in IF o.from = "active" THEN ActiveSession ELSE {"ENDED_PENDING"}
               /\ o.to \in SettledSession \cup {"ENDED_PENDING"}
         /\ \A c \in Captures : capStatus'[c] # capStatus[c] =>
               LET o == Head(script[a]) IN
               /\ a = Run(c) /\ o.op = "row" /\ o.on = c /\ capStatus'[c] = o.to
               /\ capStatus[c] \in ActiveRow
               /\ o.to \in {"QUEUED", "COMPLETED", "FAILED", "CANCELED"}
<1> DEFINE o == Head(script[a])
<1>1. /\ UNCHANGED <<sessVideo, capVideo, capSession, bull, phase, cpc, csess, ctl, lpc, ppc, psess>>
      /\ UNCHANGED sessState \/ WriteSession(a)
      /\ UNCHANGED capStatus \/ WriteRow(a)
  BY DEF Write, WriteHop, WriteSession, WriteVerify, WriteRow, WritePublication, WriteSwallowed
<1>2. script[a] # <<>>
  BY WriteFrame
<1>3. /\ o.op = "session" => o.to \in SettledSession \cup {"ENDED_PENDING"}
      /\ o.op = "row" => o.on \in Captures
                         /\ o.to \in {"QUEUED", "COMPLETED", "FAILED", "CANCELED"}
  BY <1>2, OwedSafe, OpKinds DEF LiveInv
<1>4. /\ sessState \in [Sessions -> SessionStates] /\ capStatus \in [Captures -> CaptureStatuses]
  BY DEF LiveInv, Types, RowTypes
<1>5. ASSUME NEW s \in Sessions, sessState'[s] # sessState[s]
      PROVE  /\ o.op = "session" /\ o.on = s /\ sessState'[s] = o.to
             /\ sessState[s] \in IF o.from = "active" THEN ActiveSession ELSE {"ENDED_PENDING"}
             /\ o.to \in SettledSession \cup {"ENDED_PENDING"}
  <2>1. WriteSession(a)
    BY <1>1, <1>5
  <2>2. o.op = "session"
    BY <2>1 DEF WriteSession, Owes
  <2> QED BY <1>3, <1>4, <1>5, <2>1, <2>2 DEF WriteSession
<1>6. ASSUME NEW c \in Captures, capStatus'[c] # capStatus[c]
      PROVE  /\ a = Run(c) /\ o.op = "row" /\ o.on = c /\ capStatus'[c] = o.to
             /\ capStatus[c] \in ActiveRow
             /\ o.to \in {"QUEUED", "COMPLETED", "FAILED", "CANCELED"}
  <2>1. WriteRow(a)
    BY <1>1, <1>6
  <2>2. o.op = "row"
    BY <2>1 DEF WriteRow, Owes
  <2>3. a = Run(c)
    BY <1>6, WriteFrame
  <2> QED BY <1>3, <1>4, <1>6, <2>1, <2>2, <2>3 DEF WriteRow
<1> QED BY <1>1, <1>5, <1>6

LEMMA WriteRecedes ==
  ASSUME LiveInv, RecorderInv, faults'["lock"] = 0 => faults["lock"] = 0,
         NEW a \in Actors, Write(a) \/ WriteSwallowed(a)
  PROVE  Recedes
<1>1. /\ UNCHANGED <<sessVideo, capVideo, capSession, cpc, csess, ppc, psess>>
      /\ \A s \in Sessions : sessState'[s] # sessState[s] =>
            /\ sessState'[s] \in SettledSession \cup {"ENDED_PENDING"}
            /\ sessState[s] \in ActiveSession \cup {"ENDED_PENDING"}
      /\ \A c \in Captures : capStatus'[c] # capStatus[c] =>
            /\ capStatus[c] \in ActiveRow
            /\ capStatus'[c] \in {"QUEUED", "COMPLETED", "FAILED", "CANCELED"}
  BY WriteSettles
<1> QED BY <1>1 DEF Recedes

\* An execution goes on, and ends.
LEMMA ExecutionRecedes ==
  ASSUME LiveInv, faults'["lock"] = 0 => faults["lock"] = 0, NEW c \in Captures,
         \/ PickUp(c) \/ Begin(c) \/ Reread(c) \/ Prepare(c) \/ SpawnFails(c) \/ Exit(c)
         \/ Hang(c) \/ Verdict(c) \/ Measure(c) \/ FinalizeThrows(c) \/ Finish(c)
  PROVE  Recedes
<1> USE DEF Goto
<1>1. /\ cpc \in [Captures -> CaptureSteps] /\ csess \in [Captures -> Sessions \cup {NoSession}]
  BY DEF LiveInv, Types, CaptureTypes
<1>2. UNCHANGED <<sessVars, capVars, ppc, psess>>
  BY DEF PickUp, Begin, Reread, Prepare, SpawnFails, Exit, Hang, Verdict, Measure,
         FinalizeThrows, Finish
<1>3. \/ UNCHANGED <<cpc, csess>>
      \/ \E step : /\ cpc' = [cpc EXCEPT ![c] = step]
                   /\ \/ step = "load" /\ UNCHANGED csess
                      \/ step = "idle" /\ csess' = [csess EXCEPT ![c] = NoSession]
                      \/ /\ step \in {"reread", "prepare", "mark"} /\ cpc[c] \in EarlySteps
                         /\ UNCHANGED csess
                      \/ /\ step \in {"exited", "hung", "measure", "settle"}
                         /\ cpc[c] \in WorkSteps /\ UNCHANGED csess
  <2> USE DEF EarlySteps, WorkSteps, ClaimSteps
  <2>1. CASE PickUp(c)
    BY <1>1, <2>1 DEF PickUp
  <2>2. CASE Begin(c) \/ Reread(c) \/ Prepare(c)
    BY <1>1, <2>2 DEF Begin, Reread, Prepare
  <2>3. CASE SpawnFails(c) \/ Exit(c) \/ Hang(c) \/ Measure(c)
    BY <1>1, <2>3 DEF SpawnFails, Exit, Hang, Measure
  <2>4. CASE Verdict(c)
    BY <1>1, <2>4 DEF Verdict, AbortForShutdown, AbortForCancel, Stalled, FinalizeExit
  <2>5. CASE FinalizeThrows(c)
    BY <2>5 DEF FinalizeThrows
  <2>6. CASE Finish(c)
    BY <2>6 DEF Finish, Leave
  <2> QED BY <2>1, <2>2, <2>3, <2>4, <2>5, <2>6
<1> QED BY <1>1, <1>2, <1>3 DEF Recedes, EarlySteps, WorkSteps, ClaimSteps

LEMMA ListenRecedes ==
  ASSUME LiveInv, faults'["lock"] = 0 => faults["lock"] = 0, NEW c \in Captures,
         Stall(c) \/ ListenRow(c) \/ ListenMark(c) \/ ListenRead(c) \/ ListenDone(c)
  PROVE  Recedes
<1>1. UNCHANGED <<sessVars, capVideo, capSession, cpc, csess, ppc, psess>>
  BY DEF Stall, ListenRow, ListenMark, ListenRead, ListenDone
<1>2. UNCHANGED capStatus \/ ListenMark(c)
  BY DEF Stall, ListenRow, ListenRead, ListenDone
<1>3. \A d \in Captures :
         capStatus'[d] # capStatus[d] => capStatus[d] \in ActiveRow /\ capStatus'[d] = "FAILED"
  <2>1. capStatus \in [Captures -> CaptureStatuses]
    BY DEF LiveInv, Types, RowTypes
  <2> QED BY <1>2, <2>1 DEF ListenMark
<1> QED BY <1>1, <1>3 DEF Recedes

LEMMA ProbeRecedes ==
  ASSUME LiveInv, faults'["lock"] = 0 => faults["lock"] = 0, NEW v \in Videos,
         \/ ProbePickUp(v) \/ ProbeStall(v) \/ Look(v) \/ ProbeThrows(v) \/ List(v) \/ Sweep(v)
         \/ ReadVideo(v) \/ Guard(v) \/ CreateLiveCandidate(v) \/ Promote(v)
         \/ FindCapture(v) \/ AddCapture(v)
  PROVE  Recedes
<1> USE DEF ProbeDone, ProbeGone, ProbeGoes, Step
<1>1. /\ ppc \in [Videos -> ProbeSteps] /\ psess \in [Videos -> Sessions \cup {NoSession}]
  BY DEF LiveInv, Types, ProbeTypes
<1>2. UNCHANGED <<sessVars, capVars, cpc, csess>>
  BY DEF ProbePickUp, ProbeStall, Look, ProbeThrows, List, Sweep, ReadVideo, Guard,
         CreateLiveCandidate, Promote, FindCapture, AddCapture
<1>3. \/ UNCHANGED <<ppc, psess>>
      \/ \E step : /\ ppc' = [ppc EXCEPT ![v] = step]
                   /\ \/ step \notin {"capture", "row"} /\ UNCHANGED psess
                      \/ step = "idle" /\ psess' = [psess EXCEPT ![v] = NoSession]
                      \/ step = "row" /\ ppc[v] = "capture" /\ UNCHANGED psess
  <2>1. CASE ProbePickUp(v) \/ ProbeStall(v) \/ ProbeThrows(v) \/ List(v) \/ Sweep(v) \/ AddCapture(v)
    BY <2>1 DEF ProbePickUp, ProbeStall, ProbeThrows, List, Sweep, AddCapture
  <2>2. CASE Look(v)
    BY <2>2 DEF Look
  <2>3. CASE ReadVideo(v) \/ Guard(v) \/ CreateLiveCandidate(v) \/ Promote(v)
    BY <2>3 DEF ReadVideo, Guard, CreateLiveCandidate, Promote
  <2>4. CASE FindCapture(v)
    BY <2>4 DEF FindCapture
  <2> QED BY <2>1, <2>2, <2>3, <2>4
<1> QED BY <1>1, <1>2, <1>3 DEF Recedes

\* A boot hands back rows that are active; a stop forgets who works.
LEMMA BootRecedes ==
  ASSUME LiveInv, RecorderInv, faults'["lock"] = 0 => faults["lock"] = 0,
         \/ BootRows \/ BootRow \/ BootSessions \/ BootSession \/ BootSweep \/ BootClose
         \/ Drain \/ Drained \/ Crash
  PROVE  Recedes
<1>1. UNCHANGED <<sessVars, capVideo, capSession>>
  BY DEF BootRows, BootRow, BootSessions, BootSession, BootSweep, BootClose, Drain, Drained, Crash
<1>2. \A c \in Captures :
         capStatus'[c] # capStatus[c] => capStatus[c] \in ActiveRow /\ capStatus'[c] = "QUEUED"
  <2>1. UNCHANGED capStatus \/ \E r \in rowTodo :
           r \in Captures /\ capStatus' = [capStatus EXCEPT ![r] = "QUEUED"]
    BY DEF BootRows, BootRow, BootSessions, BootSession, BootSweep, BootClose, Drain, Drained, Crash
  <2>2. capStatus \in [Captures -> CaptureStatuses]
    BY DEF LiveInv, Types, RowTypes
  <2>3. \A c \in Captures : c \in rowTodo => capStatus[c] \in ActiveRow
    BY DEF RecorderInv, ListedActive
  <2> QED BY <2>1, <2>2, <2>3
<1>3. \/ UNCHANGED <<cpc, csess, ppc, psess>>
      \/ LoseMemory
  BY DEF BootRows, BootRow, BootSessions, BootSession, BootSweep, BootClose, Drain, Drained, Crash
<1>4. CASE UNCHANGED <<cpc, csess, ppc, psess>>
  BY <1>1, <1>2, <1>4 DEF Recedes
<1>5. CASE LoseMemory
  <2>1. (\A c \in Captures : cpc'[c] = "idle") /\ (\A v \in Videos : ppc'[v] = "idle")
    BY <1>5 DEF LoseMemory
  <2> QED BY <1>1, <1>2, <2>1 DEF Recedes, WorkSteps, EarlySteps, ClaimSteps
<1> QED BY <1>3, <1>4, <1>5

\* What touches neither rows nor workers.
Bystander ==
    \/ \E c \in Captures : Record(c) \/ Reclaim(c) \/ CancelCapture(c)
    \/ \E v \in Videos : \/ ScanRow(v) \/ ScanAdd(v) \/ Recheck(v) \/ Remeasure(v) \/ CheckDone(v)
                         \/ Deadline(v) \/ Enumerate(v) \/ EnqueueRead(v)
                         \/ ArchiveStep(v) \/ AirStart(v) \/ AirMore(v) \/ AirEnd(v)
    \/ UNCHANGED vars
LEMMA BystanderRecedes ==
  ASSUME LiveInv, faults'["lock"] = 0 => faults["lock"] = 0, Bystander
  PROVE  /\ Recedes
         /\ UNCHANGED <<sessVars, capVars, bull, phase, cpc, csess, lpc, ppc, psess>>
<1>1. UNCHANGED <<sessVars, capVars, bull, phase, cpc, csess, lpc, ppc, psess>>
  BY DEF Bystander, Record, Reclaim, CancelCapture, ScanRow, ScanAdd, Recheck, Remeasure, CheckDone,
         Deadline, Enumerate, EnqueueRead, ArchiveStep, EnqueueCommit, DownloadBegin, DownloadEnd,
         VerifyEnd, AirStart, AirMore, AirEnd, vars
<1> QED BY <1>1 DEF Recedes

\* Faults only add up.
LEMMA FaultsGrow ==
  ASSUME LiveInv, [Next]_vars
  PROVE  \A k \in FaultKinds : faults'[k] \in Nat /\ faults[k] \in Nat /\ (faults'[k] = 0 => faults[k] = 0)
<1>1. faults \in [FaultKinds \cup {"any"} -> Nat]
  BY DEF LiveInv, Types, BootTypes
<1>2. CASE UNCHANGED faults
  BY <1>1, <1>2
<1>3. CASE \E k \in FaultKinds : Fault(k)
  BY <1>1, <1>3 DEF Fault
<1>4. CASE Mislabels
  BY <1>1, <1>4 DEF Mislabels
<1> QED BY <1>2, <1>3, <1>4, NextFaults

LEMMA NextSessions ==
  ASSUME LiveInv, RecorderInv, SessionInv, [Next]_vars
  PROVE  SessionInv'
<1>1. faults'["lock"] = 0 => faults["lock"] = 0
  BY FaultsGrow
<1> USE RecedingKeeps
<1>2. ASSUME NEW c \in Captures,
             \/ CaptureStep(c) \/ SpawnFails(c) \/ Hang(c) \/ FinalizeThrows(c)
      PROVE  SessionInv'
  <2>1. Run(c) \in Actors
    BY ActorsAre
  <2> QED BY <1>1, <1>2, <2>1, LoadLinks, MarkLinks, ReuseLinks, AdoptLinks, ExecutionRecedes,
             WriteRecedes DEF CaptureStep
<1>3. ASSUME NEW c \in Captures, Stall(c) \/ ListenStep(c)
      PROVE  SessionInv'
  <2>1. Listener(c) \in Actors
    BY ActorsAre
  <2> QED BY <1>1, <1>3, <2>1, ListenRecedes, WriteRecedes DEF ListenStep
<1>4. ASSUME NEW v \in Videos, ProbeStep(v) \/ ProbeThrows(v)
      PROVE  SessionInv'
  <2>1. Probe(v) \in Actors
    BY ActorsAre
  <2> QED BY <1>1, <1>4, <2>1, FindLinks, OpenLinks, CreateLinks, ProbeRecedes, WriteRecedes
          DEF ProbeStep
<1>5. ASSUME NEW v \in Videos, Write(Check(v))
      PROVE  SessionInv'
  <2>1. Check(v) \in Actors
    BY ActorsAre
  <2> QED BY <1>1, <1>5, <2>1, WriteRecedes
<1>6. CASE \/ BootStep \/ Drain \/ Drained \/ Crash
           \/ \E a \in Actors : WriteSwallowed(a)
  <2>1. Boot \in Actors
    BY ActorsAre
  <2> QED BY <1>1, <1>6, <2>1, BootRecedes, WriteRecedes DEF BootStep
<1>7. CASE Bystander
  BY <1>1, <1>7, BystanderRecedes
<1> QED BY <1>2, <1>3, <1>4, <1>5, <1>6, <1>7 DEF Next, CheckStep, Bystander

LEMMA InitSession == Init => SessionInv
<1> SUFFICES ASSUME Init PROVE SessionInv
  OBVIOUS
<1>1. /\ \A s \in Sessions : sessState[s] = "ABSENT" /\ sessVideo[s] = NoVideo
      /\ \A c \in Captures : capStatus[c] = "ABSENT" /\ capSession[c] = NoSession /\ cpc[c] = "idle"
      /\ \A v \in Videos : ppc[v] = "idle"
  BY DEF Init
<1> QED BY <1>1 DEF SessionInv, SessionsBorn, RowsHaveSession, ProbesHaveSession, WorkHasSession,
                    OneActiveSession, Strangers, WorkSteps, EarlySteps, ClaimSteps

LEMMA SessionInvariance == Spec => [](LiveInv /\ RecorderInv /\ SessionInv)
<1>1. Init => SessionInv
  BY InitSession
<1>2. LiveInv /\ RecorderInv /\ SessionInv /\ [Next]_vars => SessionInv'
  BY NextSessions
<1> QED BY <1>1, <1>2, RecorderInvariance, PTL DEF Spec

-----------------------------------------------------------------------------
\* The settlements that are owed

\* A settlement of a session that is active; whether a list has one, and whether
\* it comes before the row gets its verdict.
Settling(o) == o.op = "session" /\ o.from = "active"
HasSettle(q) == \E i \in 1..Len(q) : Settling(q[i])
SettleFirst(q) == \A i \in 1..Len(q) : Settling(q[i]) => \A j \in 1..(i - 1) : q[j].op # "row"

\* An execution settles the session it records and no other; probes and
\* re-checks settle no session that is active, and a boot that is over nothing.
RunOps(c) == {o \in Ops : /\ o.op \notin {"gate", "publish"}
                          /\ o.op = "session" => o.on = csess[c] /\ o.from = "active"}
ClerkOps == {o \in Ops : o.op = "session" => o.from = "pending"}
RunLists == \A c \in Captures : script[Run(c)] \in Seq(RunOps(c))
ClerkLists == \A v \in Videos : script[Probe(v)] \in Seq(ClerkOps) /\ script[Check(v)] \in Seq(ClerkOps)
BootDone == phase \in {"up", "draining"} => script[Boot] = <<>>

\* As long as no worker dies and no live lock is lost, every execution BullMQ
\* holds is at work, and the listener has nothing to listen to.
Deaf ==
    faults["lock"] = 0 /\ faults["crash"] = 0 =>
        \A c \in Captures : /\ lpc[c] = "idle" /\ script[Listener(c)] = <<>>
                            /\ bull[c] = "active" => cpc[c] # "idle"
\* Nothing hangs, or is shut down, by itself.
Unforced ==
    \A c \in Captures : /\ faults["hang"] = 0 => cpc[c] # "hung"
                        /\ faults["drain"] = 0 => ctl[c] # "shutdown"

OwedInv == RunLists /\ ClerkLists /\ BootDone /\ Deaf /\ Unforced

-----------------------------------------------------------------------------
\* Lists of settlements

LEMMA TailSettles ==
  ASSUME NEW S, NEW q \in Seq(S), q # <<>>
  PROVE  /\ HasSettle(Tail(q)) => HasSettle(q)
         /\ HasSettle(q) => Settling(Head(q)) \/ HasSettle(Tail(q))
         /\ SettleFirst(q) /\ HasSettle(Tail(q)) => SettleFirst(Tail(q)) /\ Head(q).op # "row"
<1>1. /\ Head(q) = q[1] /\ 1 \in 1..Len(q) /\ Len(Tail(q)) = Len(q) - 1 /\ Len(q) \in Nat
      /\ \A i \in 1..Len(Tail(q)) : i + 1 \in 1..Len(q) /\ Tail(q)[i] = q[i + 1]
  OBVIOUS
<1>2. HasSettle(Tail(q)) => HasSettle(q)
  BY <1>1 DEF HasSettle
<1>3. ASSUME HasSettle(q) PROVE Settling(Head(q)) \/ HasSettle(Tail(q))
  <2>1. PICK i \in 1..Len(q) : Settling(q[i])
    BY <1>3 DEF HasSettle
  <2>2. CASE i = 1
    BY <1>1, <2>1, <2>2
  <2>3. CASE i # 1
    <3>1. i - 1 \in 1..Len(Tail(q)) /\ (i - 1) + 1 = i
      BY <1>1, <2>3
    <3>2. Tail(q)[i - 1] = q[i]
      BY <1>1, <3>1
    <3> QED BY <2>1, <3>1, <3>2 DEF HasSettle
  <2> QED BY <2>2, <2>3
<1>4. ASSUME SettleFirst(q), NEW i \in 1..Len(Tail(q)), Settling(Tail(q)[i])
      PROVE  /\ Head(q).op # "row"
             /\ \A j \in 1..(i - 1) : Tail(q)[j].op # "row"
  <2>1. i + 1 \in 1..Len(q) /\ Settling(q[i + 1]) /\ (i + 1) - 1 = i
    BY <1>1, <1>4
  <2>2. \A j \in 1..i : q[j].op # "row"
    BY <1>4, <2>1 DEF SettleFirst
  <2>3. \A j \in 1..(i - 1) : j + 1 \in 1..i /\ Tail(q)[j] = q[j + 1]
    BY <1>1
  <2> QED BY <1>1, <2>2, <2>3
<1>5. ASSUME SettleFirst(q), HasSettle(Tail(q))
      PROVE  SettleFirst(Tail(q)) /\ Head(q).op # "row"
  BY <1>4, <1>5 DEF SettleFirst, HasSettle
<1> QED BY <1>2, <1>3, <1>5

\* A write that is neither a settlement nor of a row, put before others.
LEMMA VerifySettles ==
  ASSUME NEW S, NEW p \in Seq(S), NEW o \in S, o.op \notin {"session", "row"}
  PROVE  /\ <<o>> \o p \in Seq(S)
         /\ HasSettle(<<o>> \o p) <=> HasSettle(p)
         /\ SettleFirst(p) => SettleFirst(<<o>> \o p)
<1> DEFINE q == <<o>> \o p
<1>1. /\ q \in Seq(S) /\ Len(q) = Len(p) + 1 /\ q[1] = o /\ Len(p) \in Nat
      /\ \A i \in 1..Len(p) : i + 1 \in 1..Len(q) /\ q[i + 1] = p[i]
      /\ \A i \in 1..Len(q) : i # 1 => i - 1 \in 1..Len(p) /\ q[i] = p[i - 1]
  OBVIOUS
<1> HIDE DEF q
<1>2. ~Settling(o)
  BY DEF Settling
<1>3. HasSettle(q) <=> HasSettle(p)
  BY <1>1, <1>2 DEF HasSettle
<1>4. ASSUME SettleFirst(p), NEW i \in 1..Len(q), Settling(q[i]), NEW j \in 1..(i - 1)
      PROVE  q[j].op # "row"
  <2>1. i # 1 /\ i - 1 \in 1..Len(p) /\ Settling(p[i - 1])
    BY <1>1, <1>2, <1>4
  <2>2. CASE j = 1
    BY <1>1, <2>2
  <2>3. CASE j # 1
    <3>1. j \in 1..Len(q) /\ j - 1 \in 1..((i - 1) - 1)
      BY <1>1, <2>3
    <3> QED BY <1>1, <1>4, <2>1, <2>3, <3>1 DEF SettleFirst
  <2> QED BY <2>2, <2>3
<1> QED BY <1>1, <1>3, <1>4 DEF SettleFirst, q

LEMMA ThreeOwed ==
  ASSUME NEW S, NEW x \in S, NEW y \in S, NEW z \in S
  PROVE  /\ <<x, y>> \o <<z>> \in Seq(S) /\ <<x>> \o <<y, z>> \in Seq(S)
         /\ Settling(y) /\ x.op # "row" => HasSettle(<<x, y>> \o <<z>>)
         /\ Settling(y) /\ x.op # "row" /\ ~Settling(z) => SettleFirst(<<x, y>> \o <<z>>)
         /\ Settling(y) \/ Settling(z) => HasSettle(<<x>> \o <<y, z>>)
<1>1. \E q \in Seq(S) : q = <<x, y>> \o <<z>> /\ Len(q) = 3 /\ q[1] = x /\ q[2] = y /\ q[3] = z
  <2>1. <<x, y>> \o <<z>> \in Seq(S)
    BY Listed, ListsJoined
  <2>2. ASSUME NEW q, q = <<x, y>> \o <<z>>
        PROVE  Len(q) = 3 /\ q[1] = x /\ q[2] = y /\ q[3] = z
    BY <2>2
  <2> QED BY <2>1, <2>2
<1>2. \E q \in Seq(S) : q = <<x>> \o <<y, z>> /\ Len(q) = 3 /\ q[1] = x /\ q[2] = y /\ q[3] = z
  <2>1. <<x>> \o <<y, z>> \in Seq(S)
    BY Listed, ListsJoined
  <2>2. ASSUME NEW q, q = <<x>> \o <<y, z>>
        PROVE  Len(q) = 3 /\ q[1] = x /\ q[2] = y /\ q[3] = z
    BY <2>2
  <2> QED BY <2>1, <2>2
<1>3. ASSUME Settling(y), x.op # "row", ~Settling(z), NEW q \in Seq(S),
             Len(q) = 3, q[1] = x, q[2] = y, q[3] = z
      PROVE  SettleFirst(q)
  <2>1. ASSUME NEW i \in 1..3, Settling(q[i]), NEW j \in 1..(i - 1) PROVE q[j].op # "row"
    <3>1. i # 3
      BY <1>3, <2>1
    <3>2. j = 1
      BY <2>1, <3>1
    <3> QED BY <1>3, <3>2
  <2> QED BY <1>3, <2>1 DEF SettleFirst
<1>4. ASSUME NEW q \in Seq(S), Len(q) = 3, Settling(q[2]) \/ Settling(q[3])
      PROVE  HasSettle(q)
  <2>1. 2 \in 1..Len(q) /\ 3 \in 1..Len(q)
    BY <1>4
  <2> QED BY <1>4, <2>1 DEF HasSettle
<1> QED BY <1>1, <1>2, <1>3, <1>4

-----------------------------------------------------------------------------
\* What an execution comes to owe

\* The writes of an execution.
LEMMA RunWrites ==
  ASSUME LiveInv, SessionInv, NEW c \in Captures, cpc[c] \in WorkSteps
  PROVE  /\ \A from, to : <<from, to>> \in Lifecycle!CopyEdges =>
               /\ Hop(capVideo[c], from, to) \in RunOps(c)
               /\ ChainedHop(capVideo[c], from, to) \in RunOps(c)
         /\ \A to \in SettledSession \cup {"ENDED_PENDING"} :
               Settle(csess[c], "active", to) \in RunOps(c) /\ Settling(Settle(csess[c], "active", to))
         /\ \A to \in {"QUEUED", "COMPLETED", "FAILED", "CANCELED"} :
               Row(c, to) \in RunOps(c) /\ ~Settling(Row(c, to))
         /\ Verify(capVideo[c]) \in RunOps(c)
         /\ \A from, to : Hop(capVideo[c], from, to).op # "row" /\ ChainedHop(capVideo[c], from, to).op # "row"
<1>1. capVideo[c] \in Videos /\ csess[c] \in Sessions
  BY WorkAt
<1>2. ASSUME NEW from, NEW to, <<from, to>> \in Lifecycle!CopyEdges
      PROVE  /\ Hop(capVideo[c], from, to) \in RunOps(c)
             /\ ChainedHop(capVideo[c], from, to) \in RunOps(c)
  BY <1>1, <1>2, HopIsOp DEF RunOps, Hop, ChainedHop
<1>3. ASSUME NEW to \in SettledSession \cup {"ENDED_PENDING"}
      PROVE  Settle(csess[c], "active", to) \in RunOps(c) /\ Settling(Settle(csess[c], "active", to))
  BY <1>1, SettleIsOp DEF RunOps, Settle, Settling
<1>4. ASSUME NEW to \in {"QUEUED", "COMPLETED", "FAILED", "CANCELED"}
      PROVE  Row(c, to) \in RunOps(c) /\ ~Settling(Row(c, to))
  BY RowIsOp DEF RunOps, Row, Settling
<1>5. Verify(capVideo[c]) \in RunOps(c)
  BY <1>1, VideoIsOp DEF RunOps, Verify
<1>6. \A from, to : Hop(capVideo[c], from, to).op # "row" /\ ChainedHop(capVideo[c], from, to).op # "row"
  BY DEF Hop, ChainedHop
<1> QED BY <1>2, <1>3, <1>4, <1>5, <1>6

\* The lists an execution may owe: a settlement before the verdict on its row, a
\* settlement after it, or no settlement.
LEMMA RunOwesLists ==
  ASSUME LiveInv, SessionInv, NEW c \in Captures, cpc[c] \in WorkSteps,
         NEW to \in {"QUEUED", "COMPLETED", "FAILED", "CANCELED"}
  PROVE  LET v == capVideo[c]
             s == csess[c]
             Own == Seq(RunOps(c))
             Before(q) == q \in Own /\ HasSettle(q) /\ SettleFirst(q)
             After(q) == q \in Own /\ HasSettle(q)
         IN  /\ <<Row(c, to)>> \in Own
             /\ After(<<Row(c, to)>> \o SettleForRecapture(s, v))
             /\ After(<<Row(c, to)>> \o FinalizeEmpty(s, v, "FAILED"))
             /\ Before(FinalizeInterrupted(s, v) \o <<Row(c, to)>>)
             /\ Before(FinalizeEmpty(s, v, "FAILED") \o <<Row(c, to)>>)
             /\ Before(FinalizeEmpty(s, v, "CANDIDATE") \o <<Row(c, to)>>)
             /\ \A verdict : Before(Finalization(verdict, s, v) \o <<Row(c, to)>>)
<1> DEFINE v == capVideo[c]
           s == csess[c]
           R == RunOps(c)
<1>1. /\ Hop(v, "DOWNLOADING", "QUEUED") \in R /\ Hop(v, "DOWNLOADING", "FAILED") \in R
      /\ Hop(v, "DOWNLOADING", "CANDIDATE") \in R /\ Hop(v, "DOWNLOADING", "PARTIAL_KEPT") \in R
      /\ Hop(v, "DOWNLOADING", "AWAITING_VERIFY") \in R
      /\ ChainedHop(v, "DOWNLOADING", "VERIFYING") \in R
  BY RunWrites DEF Lifecycle!CopyEdges
<1>2. \A x, y : Hop(v, x, y).op # "row" /\ ChainedHop(v, x, y).op # "row"
  BY RunWrites
<1>3. \A end \in {"ENDED_NORMAL", "ENDED_INTERRUPTED", "FAILED", "ENDED_PENDING"} :
         Settle(s, "active", end) \in R /\ Settling(Settle(s, "active", end))
  BY RunWrites
<1>4. Row(c, to) \in R /\ ~Settling(Row(c, to))
  BY RunWrites
<1> HIDE DEF v, s, R
<1>5. <<Row(c, to)>> \in Seq(R)
  BY <1>4
<1>6. ASSUME NEW x \in R, x.op # "row", NEW y \in R, Settling(y)
      PROVE  LET q == <<x, y>> \o <<Row(c, to)>> IN q \in Seq(R) /\ HasSettle(q) /\ SettleFirst(q)
  BY <1>4, <1>6, ThreeOwed
<1>7. ASSUME NEW y \in R, NEW z \in R, Settling(y) \/ Settling(z)
      PROVE  LET q == <<Row(c, to)>> \o <<y, z>> IN q \in Seq(R) /\ HasSettle(q)
  BY <1>4, <1>7, ThreeOwed
<1>8. LET q == <<Row(c, to)>> \o SettleForRecapture(s, v) IN q \in Seq(R) /\ HasSettle(q)
  BY <1>1, <1>3, <1>7 DEF SettleForRecapture
<1>9. LET q == <<Row(c, to)>> \o FinalizeEmpty(s, v, "FAILED") IN q \in Seq(R) /\ HasSettle(q)
  BY <1>1, <1>3, <1>7 DEF FinalizeEmpty
<1>10. LET q == FinalizeInterrupted(s, v) \o <<Row(c, to)>>
       IN  q \in Seq(R) /\ HasSettle(q) /\ SettleFirst(q)
  BY <1>1, <1>2, <1>3, <1>6 DEF FinalizeInterrupted
<1>11. ASSUME NEW end \in {"FAILED", "CANDIDATE"}
       PROVE  LET q == FinalizeEmpty(s, v, end) \o <<Row(c, to)>>
              IN  q \in Seq(R) /\ HasSettle(q) /\ SettleFirst(q)
  BY <1>1, <1>2, <1>3, <1>6 DEF FinalizeEmpty
<1>12. LET q == FinalizeNormal(s, v) \o <<Row(c, to)>>
       IN  q \in Seq(R) /\ HasSettle(q) /\ SettleFirst(q)
  BY <1>1, <1>2, <1>3, <1>6 DEF FinalizeNormal
<1>13. LET q == FinalizePending(s, v) \o <<Row(c, to)>>
       IN  q \in Seq(R) /\ HasSettle(q) /\ SettleFirst(q)
  BY <1>1, <1>2, <1>3, <1>6 DEF FinalizePending
<1>14. \A verdict : LET q == Finalization(verdict, s, v) \o <<Row(c, to)>>
                    IN  q \in Seq(R) /\ HasSettle(q) /\ SettleFirst(q)
  BY <1>10, <1>12, <1>13 DEF Finalization
<1> QED BY <1>5, <1>8, <1>9, <1>10, <1>11, <1>14 DEF v, s, R

\* An execution that records or is about to goes on, or comes to settle.
CourseGoes(c) ==
    /\ UNCHANGED script
    /\ \E step \in CaptureSteps :
          /\ cpc' = [cpc EXCEPT ![c] = step]
          /\ \/ cpc[c] \in {"begin", "reread", "prepare"} /\ step \in {"reread", "prepare", "mark"}
             \/ /\ cpc[c] \in {"run", "exited", "hung"} /\ step \in {"exited", "hung", "measure"}
                /\ step = "hung" => faults'["hang"] # 0
CourseSettles(c) ==
    /\ cpc' = [cpc EXCEPT ![c] = "settle"]
    /\ \E q \in Seq(RunOps(c)) :
          /\ Owe(Run(c), q)
          /\ \/ HasSettle(q) /\ (csess[c] = capSession[c] \/ SettleFirst(q) \/ cpc[c] = "hung")
             \/ q = <<Row(c, "QUEUED")>> /\ ctl[c] = "shutdown"
LEMMA CourseTurns ==
  ASSUME LiveInv, SessionInv, NEW c \in Captures,
         \/ Begin(c) \/ Reread(c) \/ Prepare(c) \/ SpawnFails(c) \/ Exit(c) \/ Hang(c)
         \/ Verdict(c) \/ Measure(c)
  PROVE  /\ UNCHANGED <<sessVars, capVars, bull, phase, lpc, csess, ctl, ppc, psess>>
         /\ cpc[c] \in WorkSteps /\ cpc[c] # "settle"
         /\ CourseGoes(c) \/ CourseSettles(c)
<1> USE DEF Goto
<1>1. UNCHANGED <<sessVars, capVars, bull, phase, lpc, csess, ctl, ppc, psess>>
  BY DEF Begin, Reread, Prepare, SpawnFails, Exit, Hang, Verdict, Measure
<1>2. cpc[c] \in WorkSteps /\ cpc[c] # "settle"
  BY DEF Begin, Reread, Prepare, SpawnFails, Exit, Hang, Verdict, Measure, WorkSteps, ClaimSteps
<1> SUFFICES CourseGoes(c) \/ CourseSettles(c)
  BY <1>1, <1>2
<1>3. CASE Begin(c) \/ Reread(c) \/ Prepare(c)
  <2>1. csess[c] = capSession[c]
    BY <1>2, <1>3, WorkAt DEF Begin, Reread, Prepare, EarlySteps
  <2>2. (cpc' = [cpc EXCEPT ![c] = "settle"] /\ FailNotCapturable(c)) \/ CourseGoes(c)
    <3>1. CASE Begin(c)
      <4>1. \/ cpc' = [cpc EXCEPT ![c] = "settle"] /\ FailNotCapturable(c)
            \/ /\ cpc[c] = "begin" /\ UNCHANGED script
               /\ \E step \in {"reread", "prepare"} : cpc' = [cpc EXCEPT ![c] = step]
        BY <3>1 DEF Begin
      <4> QED BY <4>1 DEF CourseGoes
    <3>2. CASE Reread(c)
      BY <3>2 DEF Reread, CourseGoes
    <3>3. CASE Prepare(c)
      BY <3>3 DEF Prepare, CourseGoes
    <3> QED BY <1>3, <3>1, <3>2, <3>3
  <2>3. CASE cpc' = [cpc EXCEPT ![c] = "settle"] /\ FailNotCapturable(c)
    BY <1>2, <2>1, <2>3, RunOwesLists DEF FailNotCapturable, CourseSettles
  <2> QED BY <2>2, <2>3
<1>4. CASE SpawnFails(c) \/ Measure(c)
  BY <1>2, <1>4, RunOwesLists DEF SpawnFails, Measure, CourseSettles
<1>5. CASE Exit(c)
  BY <1>5 DEF Exit, CourseGoes
<1>6. CASE Hang(c)
  <2>1. faults'["hang"] # 0
    BY <1>6 DEF Hang, Fault, LiveInv, Types, BootTypes
  <2> QED BY <1>6, <2>1 DEF Hang, CourseGoes
<1>7. CASE Verdict(c)
  <2>1. CASE AbortForShutdown(c)
    BY <1>2, <2>1, RunOwesLists DEF AbortForShutdown, CourseSettles
  <2>2. CASE AbortForCancel(c)
    BY <1>2, <2>2, RunOwesLists DEF AbortForCancel, CourseSettles
  <2>3. CASE Stalled(c)
    <3>1. cpc[c] = "hung"
      BY <2>3 DEF Stalled, CaptureVerdict
    <3> QED BY <1>2, <2>3, <3>1, RunOwesLists DEF Stalled, CourseSettles
  <2>4. CASE FinalizeExit(c)
    <3>1. CASE UNCHANGED script /\ cpc' = [cpc EXCEPT ![c] = "measure"]
      BY <1>7, <3>1 DEF Verdict, CourseGoes
    <3>2. CASE /\ cpc' = [cpc EXCEPT ![c] = "settle"]
               /\ Owe(Run(c), FinalizeEmpty(csess[c], capVideo[c], "FAILED") \o <<Row(c, "FAILED")>>)
      BY <1>2, <3>2, RunOwesLists DEF CourseSettles
    <3> QED BY <2>4, <3>1, <3>2 DEF FinalizeExit
  <2> QED BY <1>7, <2>1, <2>2, <2>3, <2>4 DEF Verdict
<1> QED BY <1>3, <1>4, <1>5, <1>6, <1>7

\* An execution that owes writes makes or loses one, and goes on to the rest.
LEMMA RunWritten ==
  ASSUME LiveInv, RecorderInv, OwedInv, NEW c \in Captures, Write(Run(c)) \/ WriteSwallowed(Run(c))
  PROVE  /\ cpc[c] = "settle" /\ script[Run(c)] # <<>> /\ script[Run(c)] \in Seq(RunOps(c))
         /\ script'[Run(c)] \in Seq(RunOps(c))
         /\ HasSettle(script'[Run(c)]) <=> HasSettle(Tail(script[Run(c)]))
         /\ SettleFirst(Tail(script[Run(c)])) => SettleFirst(script'[Run(c)])
         /\ Head(script[Run(c)]).op \in {"row", "session"} => script'[Run(c)] = Tail(script[Run(c)])
<1> DEFINE a == Run(c)
           q == script[Run(c)]
           o == Head(q)
<1>1. a \in Actors /\ ScriptsSafe
  BY ActorsAre DEF LiveInv
<1>2. q # <<>> /\ q \in Seq(RunOps(c)) /\ cpc[c] = "settle"
  BY <1>1, WriteFrame DEF OwedInv, RunLists, RecorderInv, SettleOwes
<1>3. Tail(q) \in Seq(RunOps(c)) /\ o \in RunOps(c)
  BY <1>2
<1>4. o.op \notin {"gate", "publish"}
  BY <1>3 DEF RunOps
<1>5. \/ script'[a] = Tail(q)
      \/ o.op = "chain" /\ script'[a] = <<Verify(o.on)>> \o Tail(q)
  BY <1>1, <1>4 DEF Write, WriteHop, WriteSession, WriteVerify, WriteRow, WritePublication,
                    WriteSwallowed, Continue, Rest, Owes, ScriptsSafe
<1>6. o.op = "chain" => Verify(o.on) \in RunOps(c) /\ Verify(o.on).op \notin {"session", "row"}
  <2> SUFFICES ASSUME o.op = "chain"
               PROVE  Verify(o.on) \in RunOps(c) /\ Verify(o.on).op \notin {"session", "row"}
    OBVIOUS
  <2>1. o.on \in Videos
    BY <1>3 DEF RunOps, Ops, HopOps, SessionOps, RowOps, VideoOps
  <2> QED BY <2>1, VideoIsOp DEF RunOps, Verify
<1> HIDE DEF q, o, a
<1>7. CASE script'[a] = Tail(q)
  BY <1>2, <1>3, <1>7 DEF q, o, a
<1>8. CASE o.op = "chain" /\ script'[a] = <<Verify(o.on)>> \o Tail(q)
  BY <1>2, <1>3, <1>6, <1>8, VerifySettles DEF q, o, a
<1> QED BY <1>5, <1>7, <1>8

-----------------------------------------------------------------------------
\* What is owed stays well

\* Faults of these kinds have not happened before when they have not by now.
Spared == \A k \in {"lock", "crash", "hang", "drain", "db"} : faults'[k] = 0 => faults[k] = 0

\* The lists of everybody but one are left alone.
LEMMA ListsKept ==
  ASSUME OwedInv, NEW a \in Actors, \A b \in Actors : b # a => script'[b] = script[b],
         \A c \in Captures : csess'[c] # csess[c] => script'[Run(c)] = <<>>,
         \A c \in Captures : a = Run(c) => script'[a] \in Seq(RunOps(c)'),
         \A v \in Videos : a = Probe(v) \/ a = Check(v) => script'[a] \in Seq(ClerkOps),
         phase' \in {"up", "draining"} => phase \in {"up", "draining"} \/ script'[Boot] = <<>>,
         a = Boot /\ phase' \in {"up", "draining"} => script'[a] = <<>>
  PROVE  RunLists' /\ ClerkLists' /\ BootDone'
<1>1. /\ \A c \in Captures : Run(c) \in Actors
      /\ \A v \in Videos : Probe(v) \in Actors /\ Check(v) \in Actors
      /\ Boot \in Actors
  BY ActorsAre
<1>2. ASSUME NEW c \in Captures PROVE script'[Run(c)] \in Seq(RunOps(c)')
  <2>1. CASE csess'[c] # csess[c]
    <3>1. script'[Run(c)] = <<>>
      BY <2>1
    <3> QED BY <3>1
  <2>2. CASE csess'[c] = csess[c]
    <3>1. RunOps(c)' = RunOps(c)
      BY <2>2 DEF RunOps
    <3> QED BY <1>1, <3>1 DEF OwedInv, RunLists
  <2> QED BY <2>1, <2>2
<1>3. ClerkLists'
  BY <1>1 DEF OwedInv, ClerkLists, ClerkOps
<1>4. BootDone'
  BY <1>1 DEF OwedInv, BootDone
<1> QED BY <1>2, <1>3, <1>4 DEF RunLists

\* An execution turns.
LEMMA ExecutionOwed ==
  ASSUME LiveInv, OwedInv, Spared, NEW c \in Captures,
         \A b \in Actors : b # Run(c) => script'[b] = script[b],
         \A d \in Captures : d # c => /\ csess'[d] = csess[d] /\ cpc'[d] = cpc[d]
                                      /\ bull'[d] = bull[d] /\ ctl'[d] = ctl[d],
         UNCHANGED <<lpc, phase>>,
         script'[Run(c)] \in Seq(RunOps(c)'),
         bull'[c] = "active" => cpc'[c] # "idle",
         cpc'[c] = "hung" => cpc[c] = "hung" \/ faults'["hang"] # 0,
         ctl'[c] \in {ctl[c], "clear", "absent"}
  PROVE  OwedInv'
<1>1. /\ Run(c) \in Actors
      /\ \A d \in Captures : Listener(d) \in Actors /\ Listener(d) # Run(c)
      /\ \A d \in Captures : Run(d) \in Actors /\ (Run(d) = Run(c) => d = c)
      /\ \A v \in Videos : Run(c) # Probe(v) /\ Run(c) # Check(v)
      /\ Run(c) # Boot
  BY ActorsAre DEF Run, Listener, Probe, Check, Boot
<1>2. RunLists' /\ ClerkLists' /\ BootDone'
  <2>1. ASSUME NEW d \in Captures PROVE script'[Run(d)] \in Seq(RunOps(d)')
    <3>1. CASE d = c
      BY <3>1
    <3>2. CASE d # c
      <4>1. RunOps(d)' = RunOps(d) /\ script'[Run(d)] = script[Run(d)]
        BY <1>1, <3>2 DEF RunOps
      <4> QED BY <4>1 DEF OwedInv, RunLists
    <3> QED BY <3>1, <3>2
  <2>2. /\ \A v \in Videos : script'[Probe(v)] = script[Probe(v)] /\ script'[Check(v)] = script[Check(v)]
        /\ script'[Boot] = script[Boot]
    BY <1>1, ActorsAre
  <2> QED BY <2>1, <2>2 DEF OwedInv, RunLists, ClerkLists, ClerkOps, BootDone
<1>3. Deaf'
  BY <1>1 DEF OwedInv, Deaf, Spared
<1>4. Unforced'
  BY DEF OwedInv, Unforced, Spared
<1> QED BY <1>2, <1>3, <1>4 DEF OwedInv

\* A step that moves no execution and gives none anything to do.
LEMMA StillOwed ==
  ASSUME OwedInv, Spared, RunLists', ClerkLists', BootDone', UNCHANGED cpc,
         \A c \in Captures :
            /\ faults'["lock"] = 0 /\ faults'["crash"] = 0 =>
                  /\ lpc'[c] = "idle" /\ script'[Listener(c)] = <<>>
                  /\ bull'[c] = "active" => bull[c] = "active"
            /\ ctl'[c] = "shutdown" => ctl[c] = "shutdown" \/ faults'["drain"] # 0
  PROVE  OwedInv'
<1>1. Deaf' /\ Unforced'
  BY DEF OwedInv, Deaf, Unforced, Spared
<1> QED BY <1>1 DEF OwedInv

\* The steps of an execution.
LEMMA ExecutionOwes ==
  ASSUME LiveInv, RecorderInv, SessionInv, OwedInv, Spared, NEW c \in Captures,
         \/ PickUp(c) \/ Load(c) \/ Begin(c) \/ Reread(c) \/ Prepare(c)
         \/ MarkSessionCapturing(c) \/ Reuse(c) \/ Adopt(c) \/ SpawnFails(c) \/ Exit(c)
         \/ Hang(c) \/ Verdict(c) \/ Measure(c) \/ FinalizeThrows(c) \/ Finish(c)
  PROVE  OwedInv'
<1> USE DEF Goto, Leave
<1>1. /\ cpc \in [Captures -> CaptureSteps] /\ csess \in [Captures -> Sessions \cup {NoSession}]
      /\ bull \in [Captures -> {"absent", "waiting", "active"}] /\ ctl \in [Captures -> CtlStates]
      /\ ScriptsSafe
  BY DEF LiveInv, Types, CaptureTypes
<1>2. script[Run(c)] # <<>> => cpc[c] = "settle"
  BY DEF RecorderInv, SettleOwes
<1>3. CASE \/ Begin(c) \/ Reread(c) \/ Prepare(c) \/ SpawnFails(c) \/ Exit(c)
           \/ Hang(c) \/ Verdict(c) \/ Measure(c)
  <2>1. /\ UNCHANGED <<bull, phase, lpc, csess, ctl>> /\ cpc[c] \in WorkSteps /\ cpc[c] # "settle"
        /\ CourseGoes(c) \/ CourseSettles(c)
    BY <1>3, CourseTurns
  <2>2. RunOps(c)' = RunOps(c)
    BY <2>1 DEF RunOps
  <2>3. Run(c) \in Actors
    BY ActorsAre
  <2>4. /\ \A b \in Actors : b # Run(c) => script'[b] = script[b]
        /\ script'[Run(c)] \in Seq(RunOps(c))
    BY <1>1, <2>1, <2>3 DEF CourseGoes, CourseSettles, Owe, OwedInv, RunLists, ScriptsSafe
  <2>5. \E step \in CaptureSteps \ {"idle"} :
           /\ cpc' = [cpc EXCEPT ![c] = step]
           /\ step = "hung" => faults'["hang"] # 0
    BY <1>1, <2>1 DEF CourseGoes, CourseSettles
  <2> QED BY <1>1, <2>1, <2>2, <2>4, <2>5, ExecutionOwed
<1>4. CASE \/ PickUp(c) \/ Load(c) \/ MarkSessionCapturing(c) \/ Reuse(c) \/ Adopt(c) \/ Finish(c)
  <2>1. script[Run(c)] = <<>>
    BY <1>2, <1>4 DEF Finish, PickUp, Load, MarkSessionCapturing, Reuse, Adopt, RecorderInv, WaitingIdle
  <2>2. UNCHANGED <<script, lpc, phase>>
    BY <1>4 DEF Finish, PickUp, Load, MarkSessionCapturing, Reuse, Adopt
  <2>3. script'[Run(c)] \in Seq(RunOps(c)')
    <3>1. script'[Run(c)] = <<>>
      BY <2>1, <2>2
    <3> QED BY <3>1
  <2>4. \E step \in CaptureSteps :
           /\ cpc' = [cpc EXCEPT ![c] = step] /\ step # "hung"
           /\ step = "idle" => bull'[c] = "absent"
    <3>1. CASE PickUp(c) \/ Adopt(c) \/ Finish(c)
      BY <1>1, <3>1 DEF PickUp, Adopt, Finish
    <3>2. CASE Load(c) \/ Reuse(c)
      BY <1>1, <3>2 DEF Load, Reuse
    <3>3. CASE MarkSessionCapturing(c)
      BY <1>1, <3>3 DEF MarkSessionCapturing
    <3> QED BY <1>4, <3>1, <3>2, <3>3
  <2>5. /\ \A d \in Captures : d # c => csess'[d] = csess[d] /\ bull'[d] = bull[d] /\ ctl'[d] = ctl[d]
        /\ ctl'[c] \in {ctl[c], "clear", "absent"}
    <3>1. CASE PickUp(c) \/ Adopt(c) \/ Finish(c)
      BY <1>1, <3>1 DEF PickUp, Adopt, Finish
    <3>2. CASE Load(c) \/ Reuse(c)
      BY <1>1, <3>2 DEF Load, Reuse
    <3>3. CASE MarkSessionCapturing(c)
      BY <1>1, <3>3 DEF MarkSessionCapturing
    <3> QED BY <1>4, <3>1, <3>2, <3>3
  <2> QED BY <1>1, <2>2, <2>3, <2>4, <2>5, ExecutionOwed
<1>5. CASE FinalizeThrows(c)
  <2>1. /\ UNCHANGED <<bull, phase, lpc, csess, ctl, cpc>> /\ Owe(Run(c), <<Row(c, "FAILED")>>)
        /\ cpc[c] = "settle"
    BY <1>2, <1>5 DEF FinalizeThrows, Owes
  <2>2. RunOps(c)' = RunOps(c) /\ <<Row(c, "FAILED")>> \in Seq(RunOps(c))
    BY <2>1, RunOwesLists DEF RunOps, WorkSteps
  <2>3. Run(c) \in Actors
    BY ActorsAre
  <2>4. /\ \A b \in Actors : b # Run(c) => script'[b] = script[b]
        /\ script'[Run(c)] \in Seq(RunOps(c)')
    BY <1>1, <2>1, <2>2, <2>3 DEF Owe, ScriptsSafe
  <2> QED BY <2>1, <2>4, ExecutionOwed
<1> QED BY <1>3, <1>4, <1>5

\* Listeners only work when a worker died or a live lock was lost.
LEMMA ListenOwes ==
  ASSUME LiveInv, OwedInv, Spared, NEW c \in Captures,
         Stall(c) \/ ListenRow(c) \/ ListenMark(c) \/ ListenRead(c) \/ ListenDone(c)
  PROVE  OwedInv'
<1>1. /\ UNCHANGED <<cpc, csess, ctl, phase>>
      /\ \A b \in Actors : b # Listener(c) => script'[b] = script[b]
  BY DEF Stall, ListenRow, ListenMark, ListenRead, ListenDone, Owe, LiveInv, ScriptsSafe
<1>2. RunLists' /\ ClerkLists' /\ BootDone'
  <2>1. /\ Listener(c) \in Actors /\ Listener(c) # Boot
        /\ \A d \in Captures : Listener(c) # Run(d)
        /\ \A v \in Videos : Listener(c) # Probe(v) /\ Listener(c) # Check(v)
    BY ActorsAre DEF Run, Listener, Probe, Check, Boot
  <2> QED BY <1>1, <2>1, ListsKept
<1>3. faults'["lock"] # 0 \/ faults'["crash"] # 0
  <2> SUFFICES ASSUME faults'["lock"] = 0, faults'["crash"] = 0 PROVE FALSE
    OBVIOUS
  <2>1. lpc[c] = "idle" /\ (bull[c] = "active" => cpc[c] # "idle")
    BY DEF Spared, OwedInv, Deaf
  <2>2. Stall(c) /\ Fault("lock")
    BY <2>1 DEF Stall, ListenRow, ListenMark, ListenRead, ListenDone
  <2> QED BY <2>2 DEF Fault, LiveInv, Types, BootTypes
<1> QED BY <1>1, <1>2, <1>3, StillOwed

\* The lists of probes and re-checks settle parked sessions only.
LEMMA ClerksOwe ==
  ASSUME NEW v \in Videos, NEW s \in Sessions \cup {NoSession}
  PROVE  /\ <<>> \in Seq(ClerkOps) /\ CloseOut(v) \in Seq(ClerkOps)
         /\ ResolveVerified(s, v) \in Seq(ClerkOps) /\ ResolvePartial(s, v) \in Seq(ClerkOps)
<1>1. /\ Gate(v, "QUEUED", "DOWNLOADING") \in ClerkOps
      /\ Gate(v, "AWAITING_VERIFY", "VERIFYING") \in ClerkOps
      /\ Gate(v, "AWAITING_VERIFY", "PARTIAL_KEPT") \in ClerkOps
      /\ Hop(v, "DOWNLOADING", "PARTIAL_KEPT") \in ClerkOps
  BY HopIsOp DEF ClerkOps, Gate, Hop, Lifecycle!CopyEdges
<1>2. \A to \in {"ENDED_NORMAL", "ENDED_INTERRUPTED"} : Settle(s, "pending", to) \in ClerkOps
  BY SettleIsOp DEF ClerkOps, Settle
<1>3. Verify(v) \in ClerkOps /\ Publication(v) \in ClerkOps
  BY VideoIsOp DEF ClerkOps, Verify, Publication
<1> HIDE DEF ClerkOps
<1>4. <<>> \in Seq(ClerkOps) /\ CloseOut(v) \in Seq(ClerkOps)
  BY <1>1, <1>3, Listed DEF CloseOut
<1>5. ResolveVerified(s, v) \in Seq(ClerkOps)
  BY <1>1, <1>2, <1>3, Listed DEF ResolveVerified
<1>6. ResolvePartial(s, v) \in Seq(ClerkOps)
  BY <1>1, <1>2, Listed DEF ResolvePartial
<1> QED BY <1>4, <1>5, <1>6

LEMMA ProbeOwes ==
  ASSUME LiveInv, OwedInv, Spared, NEW v \in Videos,
         \/ ProbePickUp(v) \/ ProbeStall(v) \/ Look(v) \/ ProbeThrows(v) \/ List(v) \/ Sweep(v)
         \/ ReadVideo(v) \/ Guard(v) \/ CreateLiveCandidate(v) \/ Promote(v) \/ FindSession(v)
         \/ OpenSession(v) \/ FindCapture(v) \/ CreateCapture(v) \/ AddCapture(v)
         \/ Remeasure(v)
  PROVE  OwedInv'
<1>1. /\ UNCHANGED <<cpc, csess, ctl, lpc, phase>>
      /\ UNCHANGED bull \/ AddCapture(v)
  BY DEF ProbePickUp, ProbeStall, Look, ProbeThrows, List, Sweep, ReadVideo, Guard,
         CreateLiveCandidate, Promote, FindSession, OpenSession, FindCapture, CreateCapture,
         AddCapture, Remeasure
<1>2. /\ ScriptsSafe /\ bull \in [Captures -> {"absent", "waiting", "active"}]
      /\ ksess[v] \in Sessions \cup {NoSession} /\ sweepTodo \in [Actors -> SUBSET Videos]
  BY DEF LiveInv, Types, CaptureTypes, ProbeTypes
<1>3. UNCHANGED script \/ \E a \in {Probe(v), Check(v)} : \E q \in Seq(ClerkOps) : Owe(a, q)
  <2>1. CASE Remeasure(v)
    BY <1>2, <2>1, ClerksOwe DEF Remeasure, Owe
  <2>2. CASE Sweep(v)
    <3>1. UNCHANGED script \/ \E w \in sweepTodo[Probe(v)] : Continue(Probe(v), CloseOut(w))
      BY <2>2 DEF Sweep, SweepCandidate
    <3>2. \A w \in sweepTodo[Probe(v)] : CloseOut(w) \in Seq(ClerkOps)
      <4>1. NoSession \in Sessions \cup {NoSession}
        OBVIOUS
      <4> QED BY <1>2, <4>1, ClerksOwe, ActorsAre
    <3> QED BY <3>1, <3>2 DEF Continue, Owe
  <2>3. CASE ProbeThrows(v)
    <3>1. <<>> \in Seq(ClerkOps)
      OBVIOUS
    <3> QED BY <2>3, <3>1 DEF ProbeThrows, Owe
  <2>4. CASE UNCHANGED script
    BY <2>4
  <2> QED BY <2>1, <2>2, <2>3, <2>4 DEF ProbePickUp, ProbeStall, Look, List, ReadVideo, Guard,
         CreateLiveCandidate, Promote, FindSession, OpenSession, FindCapture, CreateCapture,
         AddCapture
<1>4. /\ Probe(v) \in Actors /\ Check(v) \in Actors /\ Boot \in Actors
      /\ \A a \in {Probe(v), Check(v)} : a # Boot /\ \A d \in Captures : a # Run(d) /\ a # Listener(d)
  BY ActorsAre DEF Run, Listener, Probe, Check, Boot
<1>5. RunLists' /\ ClerkLists' /\ BootDone'
  <2>1. CASE UNCHANGED script
    BY <1>1, <2>1 DEF OwedInv, RunLists, RunOps, ClerkLists, ClerkOps, BootDone
  <2>2. CASE \E a \in {Probe(v), Check(v)} : \E q \in Seq(ClerkOps) : Owe(a, q)
    <3>1. PICK a \in {Probe(v), Check(v)}, q \in Seq(ClerkOps) : Owe(a, q)
      BY <2>2
    <3>2. \A b \in Actors : script'[b] = IF b = a THEN q ELSE script[b]
      BY <1>2, <3>1 DEF Owe, ScriptsSafe
    <3> QED BY <1>1, <1>4, <3>2, ListsKept
  <2> QED BY <1>3, <2>1, <2>2
<1>6. \A c \in Captures : /\ script'[Listener(c)] = script[Listener(c)]
                          /\ bull'[c] = "active" => bull[c] = "active"
  <2>1. \A c \in Captures : script'[Listener(c)] = script[Listener(c)]
    BY <1>2, <1>3, <1>4, ActorsAre DEF Owe, ScriptsSafe
  <2>2. \A c \in Captures : bull'[c] = "active" => bull[c] = "active"
    BY <1>1, <1>2 DEF AddCapture
  <2> QED BY <2>1, <2>2
<1> QED BY <1>1, <1>5, <1>6, StillOwed DEF OwedInv, Deaf, Spared

\* A probe or a re-check that makes a write goes on with the rest, or puts a write
\* to a video in its place.
LEMMA ClerkWritten ==
  ASSUME ScriptsSafe, NEW a \in Actors, script[a] \in Seq(ClerkOps), Write(a) \/ WriteSwallowed(a)
  PROVE  script'[a] \in Seq(ClerkOps)
<1> DEFINE q == script[a]
           o == Head(q)
<1>1. q # <<>> /\ q \in Seq(ClerkOps)
  BY DEF Write, WriteHop, WriteSession, WriteVerify, WriteRow, WritePublication, WriteSwallowed, Owes
<1>2. Tail(q) \in Seq(ClerkOps) /\ o \in ClerkOps
  BY <1>1
<1>3. \/ script'[a] \in {Tail(q), <<>>}
      \/ o.op = "chain" /\ script'[a] = <<Verify(o.on)>> \o Tail(q)
      \/ o.op = "publish" /\ script'[a] = <<Hop(o.on, "DOWNLOADING", "FAILED")>>
  BY DEF Write, WriteHop, WriteSession, WriteVerify, WriteRow, WritePublication,
         WriteSwallowed, Continue, Rest, Owes, ScriptsSafe
<1>4. o.op \in {"chain", "publish"} => o.on \in Videos
  BY <1>2 DEF ClerkOps, Ops, HopOps, SessionOps, RowOps, VideoOps
<1> HIDE DEF q, o
<1>5. CASE script'[a] \in {Tail(q), <<>>}
  <2>1. <<>> \in Seq(ClerkOps)
    OBVIOUS
  <2> QED BY <1>2, <1>5, <2>1
<1>6. CASE o.op = "chain" /\ script'[a] = <<Verify(o.on)>> \o Tail(q)
  <2>1. Verify(o.on) \in ClerkOps
    BY <1>4, <1>6, VideoIsOp DEF ClerkOps, Verify
  <2>2. <<Verify(o.on)>> \in Seq(ClerkOps)
    BY <2>1
  <2> QED BY <1>2, <1>6, <2>2, ListsJoined
<1>7. CASE o.op = "publish" /\ script'[a] = <<Hop(o.on, "DOWNLOADING", "FAILED")>>
  <2>1. Hop(o.on, "DOWNLOADING", "FAILED") \in ClerkOps
    BY <1>4, <1>7, HopIsOp DEF ClerkOps, Hop, Lifecycle!CopyEdges
  <2>2. <<Hop(o.on, "DOWNLOADING", "FAILED")>> \in Seq(ClerkOps)
    BY <2>1
  <2> QED BY <1>7, <2>2
<1> QED BY <1>3, <1>5, <1>6, <1>7

LEMMA WriteOwes ==
  ASSUME LiveInv, RecorderInv, SessionInv, OwedInv, Spared, NEW a \in Actors,
         Write(a) \/ WriteSwallowed(a)
  PROVE  OwedInv'
<1>1. UNCHANGED <<bull, phase, cpc, csess, ctl, lpc>>
  BY WriteSettles
<1>2. script[a] # <<>> /\ \A b \in Actors : b # a => script'[b] = script[b]
  BY WriteFrame
<1>3. \/ \E c \in Captures : a = Run(c) \/ a = Listener(c)
      \/ \E v \in Videos : a = Probe(v) \/ a = Check(v)
      \/ a = Boot
  BY DEF Actors, Run, Listener, Probe, Check, Boot
<1>4. /\ \A c \in Captures : a = Run(c) => script'[a] \in Seq(RunOps(c)')
      /\ \A v \in Videos : a = Probe(v) \/ a = Check(v) => script'[a] \in Seq(ClerkOps)
  <2>1. ASSUME NEW c \in Captures, a = Run(c) PROVE script'[a] \in Seq(RunOps(c)')
    <3>1. RunOps(c)' = RunOps(c)
      BY <1>1 DEF RunOps
    <3> QED BY <2>1, <3>1, RunWritten
  <2>2. ASSUME NEW v \in Videos, a = Probe(v) \/ a = Check(v) PROVE script'[a] \in Seq(ClerkOps)
    BY <2>2, ClerkWritten DEF LiveInv, OwedInv, ClerkLists
  <2> QED BY <2>1, <2>2
<1>5. a = Boot => phase' \notin {"up", "draining"}
  BY <1>1, <1>2 DEF OwedInv, BootDone
<1>6. RunLists' /\ ClerkLists' /\ BootDone'
  BY <1>1, <1>2, <1>4, <1>5, ListsKept
<1>7. ASSUME NEW c \in Captures, faults'["lock"] = 0, faults'["crash"] = 0
      PROVE  lpc'[c] = "idle" /\ script'[Listener(c)] = <<>>
  <2>1. lpc[c] = "idle" /\ script[Listener(c)] = <<>>
    BY <1>7 DEF Spared, OwedInv, Deaf
  <2> QED BY <1>1, <1>2, <2>1, ActorsAre
<1> QED BY <1>1, <1>6, <1>7, StillOwed

\* Writes of the boot are made before the consumers start.
LEMMA BootOwes ==
  ASSUME LiveInv, RecorderInv, OwedInv, Spared,
         BootRows \/ BootRow \/ BootSessions \/ BootSession \/ BootSweep \/ BootClose
  PROVE  OwedInv'
<1>1. /\ UNCHANGED <<cpc, csess, ctl, lpc>> /\ (UNCHANGED bull \/ BootRow)
      /\ phase' \in {"up", "draining"} => BootClose /\ script'[Boot] = <<>>
  <2>1. UNCHANGED <<cpc, csess, ctl, lpc>> /\ (UNCHANGED bull \/ BootRow)
    BY DEF BootRows, BootRow, BootSessions, BootSession, BootSweep, BootClose
  <2>2. phase' \in {"up", "draining"} => BootClose /\ script'[Boot] = <<>>
    BY DEF BootRows, BootRow, BootSessions, BootSession, BootSweep, BootClose
  <2> QED BY <2>1, <2>2
<1>2. \A b \in Actors : b # Boot => script'[b] = script[b]
  BY DEF BootRows, BootRow, BootSessions, BootSession, BootSweep, BootClose, SweepCandidate,
         Continue, Owe, LiveInv, ScriptsSafe
<1>3. /\ Boot \in Actors
      /\ \A c \in Captures : Boot # Run(c) /\ Boot # Listener(c)
      /\ \A v \in Videos : Boot # Probe(v) /\ Boot # Check(v)
  BY ActorsAre DEF Run, Listener, Probe, Check, Boot
<1>4. RunLists' /\ ClerkLists' /\ BootDone'
  BY <1>1, <1>2, <1>3, ListsKept
<1>5. \A c \in Captures : bull'[c] = "active" => bull[c] = "active"
  BY <1>1 DEF BootRow, LiveInv, Types, CaptureTypes
<1>6. ASSUME NEW c \in Captures, faults'["lock"] = 0, faults'["crash"] = 0
      PROVE  lpc'[c] = "idle" /\ script'[Listener(c)] = <<>>
  <2>1. lpc[c] = "idle" /\ script[Listener(c)] = <<>>
    BY <1>6 DEF Spared, OwedInv, Deaf
  <2> QED BY <1>1, <1>2, <1>3, <2>1, ActorsAre
<1> QED BY <1>1, <1>4, <1>5, <1>6, StillOwed

\* The worker is told to stop, and does; or dies.
LEMMA StopOwes ==
  ASSUME LiveInv, RecorderInv, OwedInv, Spared, Drain \/ Drained \/ Crash
  PROVE  OwedInv'
<1>1. CASE Drain
  <2>1. /\ UNCHANGED <<cpc, csess, lpc, script, bull>> /\ phase = "up"
        /\ faults'["drain"] # 0
    BY <1>1 DEF Drain, Fault, LiveInv, Types, BootTypes
  <2>2. RunLists' /\ ClerkLists' /\ BootDone'
    BY <2>1 DEF OwedInv, RunLists, RunOps, ClerkLists, ClerkOps, BootDone
  <2>3. ASSUME NEW c \in Captures, faults'["lock"] = 0, faults'["crash"] = 0
        PROVE  lpc'[c] = "idle" /\ script'[Listener(c)] = <<>>
    BY <2>1, <2>3 DEF Spared, OwedInv, Deaf
  <2> QED BY <2>1, <2>2, <2>3, StillOwed
<1>2. CASE Drained \/ Crash
  <2>1. LoseMemory /\ UNCHANGED bull
    BY <1>2 DEF Drained, Crash
  <2>2. /\ phase' = "down"
        /\ \A c \in Captures : cpc'[c] = "idle" /\ ctl'[c] = "absent" /\ lpc'[c] = "idle"
        /\ \A a \in Actors : script'[a] = IF a[1] = "check" THEN script[a] ELSE <<>>
    BY <2>1 DEF LoseMemory
  <2>3. /\ \A c \in Captures : script'[Run(c)] = <<>> /\ script'[Listener(c)] = <<>>
        /\ \A v \in Videos : script'[Probe(v)] = <<>> /\ script'[Check(v)] = script[Check(v)]
    BY <2>2, ActorsAre DEF Run, Listener, Probe, Check
  <2>4. RunLists' /\ ClerkLists' /\ BootDone'
    <3>1. \A S : <<>> \in Seq(S)
      OBVIOUS
    <3>2. RunLists'
      BY <2>3, <3>1 DEF RunLists
    <3>3. ClerkLists'
      BY <2>3, <3>1 DEF OwedInv, ClerkLists, ClerkOps
    <3> QED BY <2>2, <3>2, <3>3 DEF BootDone
  <2>5. ASSUME NEW c \in Captures, faults'["lock"] = 0, faults'["crash"] = 0
        PROVE  bull'[c] # "active"
    <3>1. Drained
      BY <1>2, <2>5 DEF Crash, Fault, LiveInv, Types, BootTypes
    <3>2. bull[c] # "active"
      BY <2>5, <3>1 DEF Drained, Spared, OwedInv, Deaf
    <3> QED BY <2>1, <3>2
  <2>6. Deaf' /\ Unforced'
    BY <2>2, <2>3, <2>5 DEF Deaf, Unforced
  <2> QED BY <2>4, <2>6 DEF OwedInv
<1> QED BY <1>1, <1>2

LEMMA NextOwed ==
  ASSUME LiveInv, RecorderInv, SessionInv, OwedInv, [Next]_vars
  PROVE  OwedInv'
<1>1. Spared
  BY FaultsGrow DEF Spared
<1>2. ASSUME NEW c \in Captures,
             \/ CaptureStep(c) \/ SpawnFails(c) \/ Hang(c) \/ FinalizeThrows(c)
      PROVE  OwedInv'
  <2>1. Run(c) \in Actors
    BY ActorsAre
  <2> QED BY <1>1, <1>2, <2>1, ExecutionOwes, WriteOwes DEF CaptureStep
<1>3. ASSUME NEW c \in Captures, Stall(c) \/ ListenStep(c)
      PROVE  OwedInv'
  <2>1. Listener(c) \in Actors
    BY ActorsAre
  <2> QED BY <1>1, <1>3, <2>1, ListenOwes, WriteOwes DEF ListenStep
<1>4. ASSUME NEW v \in Videos, ProbeStep(v) \/ ProbeThrows(v) \/ CheckStep(v)
      PROVE  OwedInv'
  <2>1. Probe(v) \in Actors /\ Check(v) \in Actors
    BY ActorsAre
  <2>2. CASE Recheck(v) \/ CheckDone(v)
    <3>1. UNCHANGED <<bull, phase, cpc, csess, ctl, lpc, script, faults>>
      BY <2>2 DEF Recheck, CheckDone
    <3> QED BY <3>1 DEF OwedInv, RunLists, RunOps, ClerkLists, ClerkOps, BootDone, Deaf, Unforced
  <2> QED BY <1>1, <1>4, <2>1, <2>2, ProbeOwes, WriteOwes DEF ProbeStep, CheckStep
<1>5. CASE \/ BootStep \/ Drain \/ Drained \/ Crash
           \/ \E a \in Actors : WriteSwallowed(a)
  <2>1. Boot \in Actors
    BY ActorsAre
  <2> QED BY <1>1, <1>5, <2>1, BootOwes, StopOwes, WriteOwes DEF BootStep
<1>6. ASSUME NEW c \in Captures, CancelCapture(c)
      PROVE  OwedInv'
  <2>1. /\ UNCHANGED <<bull, phase, cpc, csess, lpc, script>>
        /\ \A d \in Captures : ctl'[d] = "shutdown" => ctl[d] = "shutdown"
    BY <1>6 DEF CancelCapture, LiveInv, Types, CaptureTypes
  <2> QED BY <1>1, <2>1 DEF OwedInv, RunLists, RunOps, ClerkLists, ClerkOps, BootDone, Deaf,
                            Unforced, Spared
<1>7. CASE Bystander
  <2>1. CASE \E c \in Captures : CancelCapture(c)
    BY <1>6, <2>1
  <2>2. CASE \E v \in Videos : Remeasure(v)
    BY <1>4, <2>2 DEF CheckStep
  <2>3. CASE \/ \E c \in Captures : Record(c) \/ Reclaim(c)
             \/ \E v \in Videos : \/ ScanRow(v) \/ ScanAdd(v) \/ Recheck(v) \/ CheckDone(v)
                                  \/ Deadline(v) \/ Enumerate(v) \/ EnqueueRead(v)
                                  \/ ArchiveStep(v) \/ AirStart(v) \/ AirMore(v) \/ AirEnd(v)
             \/ UNCHANGED vars
    <3>1. UNCHANGED <<bull, phase, cpc, csess, ctl, lpc, script>>
      BY <2>3 DEF Record, Reclaim, ScanRow, ScanAdd, Recheck, CheckDone,
         Deadline, Enumerate, EnqueueRead, ArchiveStep, EnqueueCommit, DownloadBegin, DownloadEnd,
         VerifyEnd, AirStart, AirMore, AirEnd, vars
    <3> QED BY <1>1, <3>1 DEF OwedInv, RunLists, RunOps, ClerkLists, ClerkOps, BootDone, Deaf,
                              Unforced, Spared
  <2> QED BY <1>7, <2>1, <2>2, <2>3 DEF Bystander
<1> QED BY <1>2, <1>3, <1>4, <1>5, <1>6, <1>7 DEF Next, Bystander

LEMMA InitOwed == Init => OwedInv
<1> SUFFICES ASSUME Init PROVE OwedInv
  OBVIOUS
<1>1. /\ \A a \in Actors : script[a] = <<>>
      /\ \A c \in Captures : /\ cpc[c] = "idle" /\ lpc[c] = "idle" /\ ctl[c] = "absent"
                             /\ bull[c] = "absent"
  BY DEF Init
<1>2. \A S : <<>> \in Seq(S)
  OBVIOUS
<1>3. RunLists /\ ClerkLists /\ BootDone
  BY <1>1, <1>2, ActorsAre DEF RunLists, ClerkLists, BootDone
<1>4. Deaf /\ Unforced
  BY <1>1, ActorsAre DEF Deaf, Unforced
<1> QED BY <1>3, <1>4 DEF OwedInv

LEMMA OwedInvariance == Spec => [](LiveInv /\ RecorderInv /\ SessionInv /\ OwedInv)
<1>1. Init => OwedInv
  BY InitOwed
<1>2. LiveInv /\ RecorderInv /\ SessionInv /\ OwedInv /\ [Next]_vars => OwedInv'
  BY NextOwed
<1> QED BY <1>1, <1>2, SessionInvariance, PTL DEF Spec

-----------------------------------------------------------------------------
\* Who changes what

\* The steps of an execution, but for its writes.
ExecutionStep(c) ==
    \/ PickUp(c) \/ Load(c) \/ Begin(c) \/ Reread(c) \/ Prepare(c)
    \/ MarkSessionCapturing(c) \/ Reuse(c) \/ Adopt(c) \/ SpawnFails(c) \/ Exit(c)
    \/ Hang(c) \/ Verdict(c) \/ Measure(c) \/ FinalizeThrows(c) \/ Finish(c)
\* The steps of everybody else while the worker goes on, but for their writes.
Elsewhere ==
    \/ \E c \in Captures : \/ Stall(c) \/ ListenRow(c) \/ ListenMark(c) \/ ListenRead(c)
                           \/ ListenDone(c)
    \/ \E v \in Videos :
          \/ ProbePickUp(v) \/ ProbeStall(v) \/ Look(v) \/ ProbeThrows(v) \/ List(v) \/ Sweep(v)
          \/ ReadVideo(v) \/ Guard(v) \/ CreateLiveCandidate(v) \/ Promote(v) \/ FindSession(v)
          \/ OpenSession(v) \/ FindCapture(v) \/ CreateCapture(v) \/ AddCapture(v)
    \/ BootRows \/ BootRow \/ BootSessions \/ BootSession \/ BootSweep \/ BootClose \/ Drain
    \/ Bystander

LEMMA NextCases ==
  ASSUME [Next]_vars
  PROVE  \/ \E c \in Captures : ExecutionStep(c)
         \/ Elsewhere
         \/ \E a \in Actors : Write(a) \/ WriteSwallowed(a)
         \/ Drained \/ Crash
<1> USE ActorsAre
<1>1. ASSUME NEW c \in Captures, CaptureStep(c) \/ SpawnFails(c) \/ Hang(c) \/ FinalizeThrows(c)
      PROVE  ExecutionStep(c) \/ \E a \in Actors : Write(a) \/ WriteSwallowed(a)
  BY <1>1 DEF CaptureStep, ExecutionStep
<1>2. ASSUME NEW c \in Captures, Stall(c) \/ ListenStep(c)
      PROVE  Elsewhere \/ \E a \in Actors : Write(a) \/ WriteSwallowed(a)
  BY <1>2 DEF ListenStep, Elsewhere
<1>3. ASSUME NEW v \in Videos, ProbeStep(v) \/ ProbeThrows(v)
      PROVE  Elsewhere \/ \E a \in Actors : Write(a) \/ WriteSwallowed(a)
  BY <1>3 DEF ProbeStep, Elsewhere
<1>4. ASSUME NEW v \in Videos, CheckStep(v)
      PROVE  Bystander \/ \E a \in Actors : Write(a) \/ WriteSwallowed(a)
  BY <1>4 DEF CheckStep, Bystander
<1>5. CASE BootStep \/ Drain
  BY <1>5 DEF BootStep, Elsewhere
<1>6. Bystander => Elsewhere
  BY DEF Elsewhere
<1> HIDE DEF vars
<1> QED BY <1>1, <1>2, <1>3, <1>4, <1>5, <1>6 DEF Next, Bystander

\* An execution changes what is its own.
LEMMA ExecutionAlone ==
  ASSUME LiveInv, RecorderInv, NEW c \in Captures,
         ExecutionStep(c) \/ Write(Run(c)) \/ WriteSwallowed(Run(c))
  PROVE  /\ UNCHANGED <<capVideo, capSession>>
         /\ \A d \in Captures : d # c =>
               /\ cpc'[d] = cpc[d] /\ csess'[d] = csess[d] /\ capStatus'[d] = capStatus[d]
               /\ script'[Run(d)] = script[Run(d)]
<1>1. /\ cpc \in [Captures -> CaptureSteps] /\ csess \in [Captures -> Sessions \cup {NoSession}]
      /\ capStatus \in [Captures -> CaptureStatuses] /\ ScriptsSafe
  BY DEF LiveInv, Types, CaptureTypes, RowTypes
<1>2. /\ \A d \in Captures : Run(d) \in Actors /\ (Run(d) = Run(c) => d = c)
      /\ Run(c) \in Actors
  BY ActorsAre DEF Run
<1>3. CASE Write(Run(c)) \/ WriteSwallowed(Run(c))
  <2>1. /\ UNCHANGED <<capVideo, capSession, cpc, csess>>
        /\ \A d \in Captures : capStatus'[d] # capStatus[d] => Run(c) = Run(d)
    BY <1>2, <1>3, WriteSettles
  <2>2. \A b \in Actors : b # Run(c) => script'[b] = script[b]
    BY <1>2, <1>3, WriteFrame
  <2> QED BY <1>2, <2>1, <2>2
<1>4. CASE ExecutionStep(c)
  <2>1. UNCHANGED <<capVideo, capSession>>
    BY <1>4 DEF ExecutionStep, PickUp, Load, Begin, Reread, Prepare, MarkSessionCapturing, Reuse,
       Adopt, SpawnFails, Exit, Hang, Verdict, Measure, FinalizeThrows, Finish
  <2>2. \A d \in Captures : d # c => cpc'[d] = cpc[d]
    <3>1. UNCHANGED cpc \/ \E step : cpc' = [cpc EXCEPT ![c] = step]
      BY <1>4 DEF ExecutionStep, PickUp, Load, Begin, Reread, Prepare, MarkSessionCapturing, Reuse,
         Adopt, SpawnFails, Exit, Hang, Verdict, AbortForShutdown, AbortForCancel, Stalled,
         FinalizeExit, Measure, FinalizeThrows, Finish, Leave, Goto
    <3> QED BY <1>1, <3>1
  <2>3. \A d \in Captures : d # c => csess'[d] = csess[d]
    <3>1. UNCHANGED csess \/ \E s : csess' = [csess EXCEPT ![c] = s]
      BY <1>4 DEF ExecutionStep, PickUp, Load, Begin, Reread, Prepare, MarkSessionCapturing, Reuse,
         Adopt, SpawnFails, Exit, Hang, Verdict, Measure, FinalizeThrows, Finish, Leave
    <3> QED BY <1>1, <3>1
  <2>4. \A d \in Captures : d # c => capStatus'[d] = capStatus[d]
    <3>1. UNCHANGED capStatus \/ \E st : capStatus' = [capStatus EXCEPT ![c] = st]
      BY <1>4 DEF ExecutionStep, PickUp, Load, Begin, Reread, Prepare, MarkSessionCapturing, Reuse,
         Adopt, SpawnFails, Exit, Hang, Verdict, Measure, FinalizeThrows, Finish
    <3> QED BY <1>1, <3>1
  <2>5. \A d \in Captures : d # c => script'[Run(d)] = script[Run(d)]
    <3>1. UNCHANGED script \/ \E q : script' = [script EXCEPT ![Run(c)] = q]
      BY <1>4 DEF ExecutionStep, PickUp, Load, Begin, Reread, Prepare, MarkSessionCapturing, Reuse,
         Adopt, SpawnFails, Exit, Hang, Verdict, AbortForShutdown, AbortForCancel, Stalled,
         FinalizeExit, Measure, FinalizeThrows, Finish, FailNotCapturable, Owe
    <3> QED BY <1>1, <1>2, <3>1 DEF ScriptsSafe
  <2> QED BY <2>1, <2>2, <2>3, <2>4, <2>5
<1> QED BY <1>3, <1>4

\* Everybody else changes no execution, and no row but those that are created,
\* handed back at boot, or failed by the listener.
LEMMA ElsewhereAlone ==
  ASSUME LiveInv, RecorderInv, Elsewhere
  PROVE  /\ UNCHANGED <<cpc, csess>>
         /\ \A c \in Captures :
               /\ script'[Run(c)] = script[Run(c)]
               /\ capStatus'[c] # capStatus[c] =>
                     \/ capStatus[c] = "ABSENT" /\ capStatus'[c] = "QUEUED"
                     \/ capStatus[c] \in ActiveRow /\ capStatus'[c] = "QUEUED"
                     \/ lpc[c] = "mark"
               /\ capSession'[c] # capSession[c] =>
                     /\ capStatus[c] = "ABSENT" /\ capStatus'[c] = "QUEUED"
                     /\ \A d \in Captures : d # c => /\ capSession'[d] = capSession[d]
                                                     /\ capStatus'[d] = capStatus[d]
               /\ capVideo'[c] # capVideo[c] => capStatus[c] = "ABSENT"
<1>1. /\ capStatus \in [Captures -> CaptureStatuses] /\ ScriptsSafe
      /\ capVideo \in [Captures -> Videos \cup {NoVideo}]
      /\ capSession \in [Captures -> Sessions \cup {NoSession}]
  BY DEF LiveInv, Types, RowTypes
<1>2. CASE \E c \in Captures : \/ Stall(c) \/ ListenRow(c) \/ ListenMark(c) \/ ListenRead(c)
                               \/ ListenDone(c)
  <2>1. PICK c \in Captures : \/ Stall(c) \/ ListenRow(c) \/ ListenMark(c) \/ ListenRead(c)
                              \/ ListenDone(c)
    BY <1>2
  <2>2. /\ UNCHANGED <<cpc, csess, capVideo, capSession>>
        /\ UNCHANGED script \/ \E q : script' = [script EXCEPT ![Listener(c)] = q]
        /\ \/ UNCHANGED capStatus
           \/ lpc[c] = "mark" /\ \E st : capStatus' = [capStatus EXCEPT ![c] = st]
    BY <2>1 DEF Stall, ListenRow, ListenMark, ListenRead, ListenDone, Owe
  <2>3. \A d \in Captures : script'[Run(d)] = script[Run(d)]
    <3>1. \A d \in Captures : Run(d) \in Actors /\ Run(d) # Listener(c)
      BY ActorsAre DEF Run, Listener
    <3> QED BY <1>1, <2>2, <3>1 DEF ScriptsSafe
  <2>4. \A d \in Captures : capStatus'[d] # capStatus[d] => lpc[d] = "mark"
    BY <1>1, <2>2
  <2> QED BY <2>2, <2>3, <2>4
<1>3. ASSUME NEW v \in Videos,
             \/ ProbePickUp(v) \/ ProbeStall(v) \/ Look(v) \/ ProbeThrows(v) \/ List(v) \/ Sweep(v)
             \/ ReadVideo(v) \/ Guard(v) \/ CreateLiveCandidate(v) \/ Promote(v) \/ FindSession(v)
             \/ OpenSession(v) \/ FindCapture(v) \/ AddCapture(v) \/ CreateCapture(v)
      PROVE  /\ UNCHANGED <<cpc, csess>>
             /\ \A c \in Captures : script'[Run(c)] = script[Run(c)]
             /\ UNCHANGED capVars \/ CreateCapture(v)
  <2>1. /\ UNCHANGED <<cpc, csess>> /\ (UNCHANGED capVars \/ CreateCapture(v))
        /\ UNCHANGED script \/ \E q : script' = [script EXCEPT ![Probe(v)] = q]
    BY <1>3 DEF ProbePickUp, ProbeStall, Look, ProbeThrows, List, Sweep, ReadVideo, Guard,
       CreateLiveCandidate, Promote, FindSession, OpenSession, FindCapture, AddCapture,
       CreateCapture, SweepCandidate, Continue, Owe
  <2>2. \A c \in Captures : Run(c) \in Actors /\ Run(c) # Probe(v)
    BY ActorsAre DEF Run, Probe
  <2> QED BY <1>1, <2>1, <2>2 DEF ScriptsSafe
<1>4. ASSUME NEW v \in Videos, CreateCapture(v)
      PROVE  \E c \in Captures :
                /\ capStatus[c] = "ABSENT" /\ capStatus'[c] = "QUEUED"
                /\ \A d \in Captures : d # c => /\ capStatus'[d] = capStatus[d]
                                                /\ capVideo'[d] = capVideo[d]
                                                /\ capSession'[d] = capSession[d]
  BY <1>1, <1>4 DEF CreateCapture, NewCapture
<1>5. CASE BootRows \/ BootRow \/ BootSessions \/ BootSession \/ BootSweep \/ BootClose \/ Drain
  <2>1. /\ UNCHANGED <<cpc, csess, capVideo, capSession>>
        /\ UNCHANGED script \/ \E q : script' = [script EXCEPT ![Boot] = q]
        /\ \/ UNCHANGED capStatus
           \/ \E r \in rowTodo \cap Captures : capStatus' = [capStatus EXCEPT ![r] = "QUEUED"]
    <3>1. CASE BootRow
      BY <3>1 DEF BootRow
    <3>2. CASE BootRows \/ BootSessions \/ BootSession \/ BootSweep \/ BootClose \/ Drain
      BY <3>2 DEF BootRows, BootSessions, BootSession, BootSweep, BootClose, Drain,
         SweepCandidate, Continue, Owe
    <3> QED BY <1>5, <3>1, <3>2
  <2>2. \A c \in Captures : Run(c) \in Actors /\ Run(c) # Boot
    BY ActorsAre DEF Run, Boot
  <2>3. \A c \in Captures : script'[Run(c)] = script[Run(c)]
    BY <1>1, <2>1, <2>2 DEF ScriptsSafe
  <2>4. \A c \in Captures : capStatus'[c] # capStatus[c] =>
           capStatus[c] \in ActiveRow /\ capStatus'[c] = "QUEUED"
    BY <1>1, <2>1 DEF RecorderInv, ListedActive
  <2> QED BY <2>1, <2>3, <2>4
<1>6. CASE Bystander
  <2>1. UNCHANGED <<cpc, csess, capVars>>
    BY <1>6, BystanderRecedes DEF Bystander, Record, Reclaim, CancelCapture, ScanRow, ScanAdd,
         Recheck, Remeasure, CheckDone,
         Deadline, Enumerate, EnqueueRead, ArchiveStep, EnqueueCommit, DownloadBegin, DownloadEnd,
         VerifyEnd, AirStart, AirMore, AirEnd, vars
  <2>2. \A c \in Captures : script'[Run(c)] = script[Run(c)]
    <3>1. UNCHANGED script \/ \E v \in Videos : \E q : script' = [script EXCEPT ![Check(v)] = q]
      BY <1>6 DEF Bystander, Record, Reclaim, CancelCapture, ScanRow, ScanAdd,
         Recheck, Remeasure, CheckDone, Owe,
         Deadline, Enumerate, EnqueueRead, ArchiveStep, EnqueueCommit, DownloadBegin, DownloadEnd,
         VerifyEnd, AirStart, AirMore, AirEnd, vars
    <3>2. \A c \in Captures : Run(c) \in Actors /\ \A v \in Videos : Run(c) # Check(v)
      BY ActorsAre DEF Run, Check
    <3> QED BY <1>1, <3>1, <3>2 DEF ScriptsSafe
  <2> QED BY <2>1, <2>2
<1>7. ASSUME NEW v \in Videos,
             \/ ProbePickUp(v) \/ ProbeStall(v) \/ Look(v) \/ ProbeThrows(v) \/ List(v) \/ Sweep(v)
             \/ ReadVideo(v) \/ Guard(v) \/ CreateLiveCandidate(v) \/ Promote(v) \/ FindSession(v)
             \/ OpenSession(v) \/ FindCapture(v) \/ AddCapture(v) \/ CreateCapture(v),
             NEW c \in Captures
      PROVE  /\ capStatus'[c] # capStatus[c] => capStatus[c] = "ABSENT" /\ capStatus'[c] = "QUEUED"
             /\ capSession'[c] # capSession[c] =>
                     /\ capStatus[c] = "ABSENT" /\ capStatus'[c] = "QUEUED"
                     /\ \A d \in Captures : d # c => /\ capSession'[d] = capSession[d]
                                                     /\ capStatus'[d] = capStatus[d]
             /\ capVideo'[c] # capVideo[c] => capStatus[c] = "ABSENT"
  BY <1>3, <1>4, <1>7
<1> QED BY <1>2, <1>3, <1>5, <1>6, <1>7 DEF Elsewhere

\* Sessions are marked, adopted, created, or written by a finalizer.
LEMMA SessionMoves ==
  ASSUME \/ \E c \in Captures : ExecutionStep(c)
         \/ Elsewhere \/ Drained \/ Crash
  PROVE  \/ UNCHANGED sessVars
         \/ \E c \in Captures : MarkSessionCapturing(c) \/ Adopt(c)
         \/ \E v \in Videos : OpenSession(v)
<1>1. ASSUME NEW c \in Captures, ExecutionStep(c)
      PROVE  UNCHANGED sessVars \/ MarkSessionCapturing(c) \/ Adopt(c)
  BY <1>1 DEF ExecutionStep, PickUp, Load, Begin, Reread, Prepare, Reuse,
       SpawnFails, Exit, Hang, Verdict, Measure, FinalizeThrows, Finish
<1>2. ASSUME NEW c \in Captures,
             Stall(c) \/ ListenRow(c) \/ ListenMark(c) \/ ListenRead(c) \/ ListenDone(c)
      PROVE  UNCHANGED sessVars
  BY <1>2 DEF Stall, ListenRow, ListenMark, ListenRead, ListenDone
<1>3. ASSUME NEW v \in Videos,
             \/ ProbePickUp(v) \/ ProbeStall(v) \/ Look(v) \/ ProbeThrows(v) \/ List(v) \/ Sweep(v)
             \/ ReadVideo(v) \/ Guard(v) \/ CreateLiveCandidate(v) \/ Promote(v) \/ FindSession(v)
             \/ FindCapture(v) \/ AddCapture(v) \/ CreateCapture(v)
      PROVE  UNCHANGED sessVars
  BY <1>3 DEF ProbePickUp, ProbeStall, Look, ProbeThrows, List, Sweep, ReadVideo, Guard,
       CreateLiveCandidate, Promote, FindSession, FindCapture, AddCapture, CreateCapture
<1>4. CASE \/ BootRows \/ BootRow \/ BootSessions \/ BootSession \/ BootSweep \/ BootClose
           \/ Drain \/ Drained \/ Crash
  BY <1>4 DEF BootRows, BootRow, BootSessions, BootSession, BootSweep, BootClose, Drain, Drained,
     Crash
<1>5. CASE Bystander
  BY <1>5 DEF Bystander, Record, Reclaim, CancelCapture, ScanRow, ScanAdd, Recheck, Remeasure,
         CheckDone, Deadline, Enumerate, EnqueueRead, ArchiveStep, EnqueueCommit, DownloadBegin,
         DownloadEnd, VerifyEnd, AirStart, AirMore, AirEnd, vars
<1> QED BY <1>1, <1>2, <1>3, <1>4, <1>5 DEF Elsewhere

-----------------------------------------------------------------------------
\* The first verdict is the last

\* As long as no lock is lost, nobody dies and nothing hangs, an execution that
\* owes a settlement late, after the verdict on its row, records the session its
\* row was created for ...
Steady == faults["lock"] = 0 /\ faults["crash"] = 0 /\ faults["hang"] = 0
LateSettles ==
    \A c \in Captures :
        HasSettle(script[Run(c)]) =>
            \/ csess[c] = capSession[c]
            \/ capStatus[c] \in ActiveRow /\ SettleFirst(script[Run(c)])
\* ... and a recording finds the session it adopts as active as it read it.
AdoptedActive == \A c \in Captures : cpc[c] = "adopt" => sessState[csess[c]] \in ActiveSession
VerdictInv == Steady => LateSettles /\ AdoptedActive

\* What an execution that owes a settlement is at.
LEMMA SettlesAt ==
  ASSUME LiveInv, RecorderInv, SessionInv, OwedInv, NEW c \in Captures, HasSettle(script[Run(c)])
  PROVE  /\ cpc[c] = "settle" /\ script[Run(c)] # <<>> /\ capStatus[c] # "ABSENT"
         /\ csess[c] \in Sessions /\ capVideo[c] \in Videos /\ sessVideo[csess[c]] = capVideo[c]
<1>1. script[Run(c)] # <<>>
  BY DEF HasSettle
<1>2. cpc[c] = "settle"
  BY <1>1 DEF RecorderInv, SettleOwes
<1>3. csess[c] \in Sessions /\ capVideo[c] \in Videos /\ sessVideo[csess[c]] = capVideo[c]
  BY <1>2, WorkAt DEF WorkSteps
<1>4. capStatus[c] # "ABSENT"
  BY <1>3, IdsAssumption DEF RecorderInv, RowsInOrder
<1> QED BY <1>1, <1>2, <1>3, <1>4

\* An execution settles the session it records only.
LEMMA SettlesOwn ==
  ASSUME OwedInv, NEW c \in Captures, NEW q \in Seq(RunOps(c)), q # <<>>
  PROVE  /\ Head(q).op = "session" => Settling(Head(q)) /\ Head(q).on = csess[c] /\ HasSettle(q)
         /\ HasSettle(q) => \E i \in 1..Len(q) : q[i].op = "session" /\ q[i].on = csess[c]
<1>1. Head(q) = q[1] /\ 1 \in 1..Len(q) /\ \A i \in 1..Len(q) : q[i] \in RunOps(c)
  OBVIOUS
<1> QED BY <1>1 DEF RunOps, Settling, HasSettle

\* A verdict on the row of a late settlement does not matter to it.
LEMMA LateWritten ==
  ASSUME LiveInv, RecorderInv, SessionInv, OwedInv, LateSettles, NEW c \in Captures,
         Write(Run(c)) \/ WriteSwallowed(Run(c)), HasSettle(script'[Run(c)])
  PROVE  csess'[c] = capSession'[c] \/ (capStatus'[c] \in ActiveRow /\ SettleFirst(script'[Run(c)]))
<1> DEFINE q == script[Run(c)]
<1>1. Run(c) \in Actors
  BY ActorsAre
<1>2. /\ UNCHANGED <<csess, capSession>>
      /\ capStatus'[c] # capStatus[c] => Head(q).op = "row"
  BY <1>1, WriteSettles
<1>3. /\ q # <<>> /\ q \in Seq(RunOps(c)) /\ HasSettle(Tail(q))
      /\ SettleFirst(Tail(q)) => SettleFirst(script'[Run(c)])
  BY RunWritten
<1>4. HasSettle(q) /\ (SettleFirst(q) => SettleFirst(Tail(q)) /\ Head(q).op # "row")
  BY <1>3, TailSettles
<1> QED BY <1>2, <1>3, <1>4 DEF LateSettles

\* The verdict on a row settles no session.
LEMMA VerdictAlone == \A c, to : ~HasSettle(<<Row(c, to)>>)
<1> SUFFICES ASSUME NEW c, NEW to PROVE ~HasSettle(<<Row(c, to)>>)
  OBVIOUS
<1>1. ~Settling(Row(c, to))
  BY DEF Settling, Row
<1>2. ASSUME NEW q, q = <<Row(c, to)>> PROVE Len(q) = 1 /\ q[1] = Row(c, to)
  BY <1>2
<1>3. ASSUME NEW i \in 1..1 PROVE i = 1
  OBVIOUS
<1> QED BY <1>1, <1>2, <1>3 DEF HasSettle

\* An execution comes to owe a settlement.
LEMMA LateOwed ==
  ASSUME LiveInv, RecorderInv, SessionInv, OwedInv, LateSettles, Steady, NEW c \in Captures,
         ExecutionStep(c), HasSettle(script'[Run(c)])
  PROVE  csess'[c] = capSession'[c] \/ (capStatus'[c] \in ActiveRow /\ SettleFirst(script'[Run(c)]))
<1>1. Run(c) \in Actors /\ ScriptsSafe
  BY ActorsAre DEF LiveInv
<1>2. CASE \/ Begin(c) \/ Reread(c) \/ Prepare(c) \/ SpawnFails(c) \/ Exit(c) \/ Hang(c)
           \/ Verdict(c) \/ Measure(c)
  <2>1. /\ UNCHANGED <<csess, capStatus, capSession>> /\ cpc[c] \in WorkSteps /\ cpc[c] # "settle"
        /\ CourseGoes(c) \/ CourseSettles(c)
    BY <1>2, CourseTurns
  <2>2. ~HasSettle(script[Run(c)]) /\ cpc[c] # "hung" /\ capStatus[c] = "RUNNING"
    BY <2>1, SettlesAt DEF Steady, OwedInv, Unforced, RecorderInv, ClaimsKept, WorkSteps
  <2>3. CourseSettles(c)
    BY <2>1, <2>2 DEF CourseGoes
  <2>4. PICK q \in Seq(RunOps(c)) :
           /\ Owe(Run(c), q)
           /\ \/ HasSettle(q) /\ (csess[c] = capSession[c] \/ SettleFirst(q) \/ cpc[c] = "hung")
              \/ q = <<Row(c, "QUEUED")>>
    BY <2>3 DEF CourseSettles
  <2>5. script'[Run(c)] = q
    BY <1>1, <2>4 DEF Owe, ScriptsSafe
  <2>6. ~HasSettle(<<Row(c, "QUEUED")>>)
    BY VerdictAlone
  <2> QED BY <2>1, <2>2, <2>4, <2>5, <2>6
<1>3. CASE \/ PickUp(c) \/ Load(c) \/ MarkSessionCapturing(c) \/ Reuse(c) \/ Adopt(c) \/ Finish(c)
  <2>1. UNCHANGED script /\ (cpc[c] # "settle" \/ script[Run(c)] = <<>>)
    BY <1>3 DEF Finish, PickUp, Load, MarkSessionCapturing, Reuse, Adopt, RecorderInv, WaitingIdle
  <2> QED BY <2>1, SettlesAt
<1>4. CASE FinalizeThrows(c)
  <2>1. script'[Run(c)] = <<Row(c, "FAILED")>>
    BY <1>1, <1>4 DEF FinalizeThrows, Owe, ScriptsSafe
  <2> QED BY <2>1, VerdictAlone
<1> QED BY <1>2, <1>3, <1>4 DEF ExecutionStep

LEMMA LateKept ==
  ASSUME LiveInv, RecorderInv, SessionInv, OwedInv, LateSettles, Steady, Steady', [Next]_vars
  PROVE  LateSettles'
<1> SUFFICES ASSUME NEW c \in Captures, HasSettle(script'[Run(c)])
             PROVE  \/ csess'[c] = capSession'[c]
                    \/ capStatus'[c] \in ActiveRow /\ SettleFirst(script'[Run(c)])
  BY DEF LateSettles
<1>1. ASSUME NEW d \in Captures, ExecutionStep(d) \/ Write(Run(d)) \/ WriteSwallowed(Run(d))
      PROVE  \/ csess'[c] = capSession'[c]
             \/ capStatus'[c] \in ActiveRow /\ SettleFirst(script'[Run(c)])
  <2>1. CASE d = c
    BY <1>1, <2>1, LateOwed, LateWritten
  <2>2. CASE d # c
    BY <1>1, <2>2, ExecutionAlone DEF LateSettles
  <2> QED BY <2>1, <2>2
<1>2. ASSUME NEW a \in Actors, Write(a) \/ WriteSwallowed(a), \A d \in Captures : a # Run(d)
      PROVE  \/ csess'[c] = capSession'[c]
             \/ capStatus'[c] \in ActiveRow /\ SettleFirst(script'[Run(c)])
  <2>1. UNCHANGED <<csess, capSession>> /\ capStatus'[c] = capStatus[c]
    BY <1>2, WriteSettles
  <2>2. script'[Run(c)] = script[Run(c)]
    BY <1>2, WriteFrame, ActorsAre
  <2> QED BY <2>1, <2>2 DEF LateSettles
<1>3. CASE Elsewhere
  <2>1. /\ UNCHANGED csess /\ script'[Run(c)] = script[Run(c)]
        /\ capStatus'[c] # capStatus[c] =>
              capStatus[c] = "ABSENT" \/ capStatus'[c] \in ActiveRow \/ lpc[c] = "mark"
        /\ capSession'[c] # capSession[c] => capStatus[c] = "ABSENT"
    BY <1>3, ElsewhereAlone
  <2>2. capStatus[c] # "ABSENT" /\ lpc[c] = "idle"
    BY <2>1, SettlesAt DEF OwedInv, Deaf, Steady
  <2> QED BY <2>1, <2>2 DEF LateSettles
<1>4. CASE Drained \/ Crash
  <2>1. script'[Run(c)] = <<>>
    BY <1>4, ActorsAre DEF Drained, Crash, LoseMemory, Run
  <2> QED BY <2>1 DEF HasSettle
<1> QED BY <1>1, <1>2, <1>3, <1>4, NextCases

\* Who settles a session that is active: an execution that records it, and owes
\* the settlement.
LEMMA WhoSettles ==
  ASSUME LiveInv, RecorderInv, SessionInv, OwedInv, Steady, NEW a \in Actors,
         Write(a) \/ WriteSwallowed(a), NEW c \in Captures, cpc[c] # "idle",
         NEW s \in Sessions, sessState[s] \in ActiveSession, sessState'[s] # sessState[s]
  PROVE  \E d \in Captures : a = Run(d) /\ csess[d] = s /\ HasSettle(script[a])
<1> DEFINE o == Head(script[a])
<1>1. script[a] # <<>>
  BY WriteFrame
<1>2. o.op = "session" /\ o.on = s /\ o.from = "active"
  BY WriteSettles
<1>3. \/ \E d \in Captures : a = Run(d) \/ a = Listener(d)
      \/ \E v \in Videos : a = Probe(v) \/ a = Check(v)
      \/ a = Boot
  BY DEF Actors, Run, Listener, Probe, Check, Boot
<1>4. ASSUME NEW d \in Captures, a = Run(d)
      PROVE  csess[d] = s /\ HasSettle(script[a])
  BY <1>1, <1>2, <1>4, SettlesOwn DEF OwedInv, RunLists
<1>5. \A d \in Captures : a # Listener(d)
  BY <1>1 DEF Steady, OwedInv, Deaf
<1>6. ASSUME NEW v \in Videos, a = Probe(v) \/ a = Check(v)
      PROVE  FALSE
  <2>1. script[a] \in Seq(ClerkOps)
    BY <1>6 DEF OwedInv, ClerkLists
  <2>2. o \in ClerkOps
    BY <1>1, <2>1
  <2> QED BY <1>2, <2>2 DEF ClerkOps
<1>7. a # Boot
  <2>1. a = Boot => phase \notin {"up", "draining"}
    BY <1>1 DEF OwedInv, BootDone
  <2> QED BY <2>1 DEF RecorderInv, BootAlone
<1> QED BY <1>3, <1>4, <1>5, <1>6, <1>7

\* Nobody settles a session a recording is about to adopt.
LEMMA AdoptedSpared ==
  ASSUME LiveInv, RecorderInv, SessionInv, OwedInv, Steady, LateSettles, AdoptedActive,
         NEW c \in Captures, cpc[c] = "adopt",
         NEW a \in Actors, Write(a) \/ WriteSwallowed(a)
  PROVE  sessState'[csess[c]] = sessState[csess[c]]
<1>1. /\ csess[c] \in Sessions /\ capVideo[c] = sessVideo[csess[c]] /\ capVideo[c] \in Videos
      /\ sessState[csess[c]] \in ActiveSession /\ Rowless(csess[c]) /\ capStatus[c] = "RUNNING"
  BY WorkAt DEF WorkSteps, ClaimSteps, AdoptedActive, SessionInv, Strangers, Steady, RecorderInv,
     ClaimsKept
<1> SUFFICES ASSUME sessState'[csess[c]] # sessState[csess[c]] PROVE FALSE
  OBVIOUS
<1>2. PICK d \in Captures : a = Run(d) /\ csess[d] = csess[c] /\ HasSettle(script[Run(d)])
  BY <1>1, WhoSettles
<1>3. cpc[d] = "settle" /\ capVideo[d] = sessVideo[csess[d]]
  BY <1>2, SettlesAt
<1>4. csess[d] # capSession[d]
  BY <1>1, <1>2 DEF Rowless
<1>5. capStatus[d] \in ActiveRow
  BY <1>2, <1>4 DEF LateSettles
<1>6. c = d
  BY <1>1, <1>2, <1>3, <1>5 DEF RecorderInv, OneActiveCapture
<1> QED BY <1>3, <1>6

\* Sessions that are marked, adopted or created: an active one stays active, and
\* only an active one, or one that is new, is touched.
LEMMA MarksActive ==
  ASSUME LiveInv, RecorderInv, SessionInv, AdoptedActive, NEW s \in Sessions,
         \/ \E c \in Captures : ExecutionStep(c)
         \/ Elsewhere \/ Drained \/ Crash
  PROVE  sessState'[s] # sessState[s] =>
            sessState[s] \in ActiveSession \cup {"ABSENT"} /\ sessState'[s] \in ActiveSession
<1>1. sessState \in [Sessions -> SessionStates]
  BY DEF LiveInv, Types, RowTypes
<1>2. ASSUME NEW c \in Captures, MarkSessionCapturing(c)
      PROVE  sessState'[s] # sessState[s] =>
                sessState[s] \in ActiveSession \cup {"ABSENT"} /\ sessState'[s] \in ActiveSession
  BY <1>1, <1>2 DEF MarkSessionCapturing, CreateSession, NewSession
<1>3. ASSUME NEW c \in Captures, Adopt(c)
      PROVE  sessState'[s] # sessState[s] =>
                sessState[s] \in ActiveSession \cup {"ABSENT"} /\ sessState'[s] \in ActiveSession
  <2>1. cpc[c] = "adopt" /\ sessState[csess[c]] \in ActiveSession
    BY <1>3 DEF Adopt, AdoptedActive
  <2> QED BY <1>1, <1>3, <2>1 DEF Adopt
<1>4. ASSUME NEW v \in Videos, OpenSession(v)
      PROVE  sessState'[s] # sessState[s] =>
                sessState[s] \in ActiveSession \cup {"ABSENT"} /\ sessState'[s] \in ActiveSession
  BY <1>1, <1>4 DEF OpenSession, CreateSession, NewSession
<1> QED BY <1>2, <1>3, <1>4, SessionMoves

LEMMA AdoptedKept ==
  ASSUME LiveInv, RecorderInv, SessionInv, OwedInv, Steady, LateSettles, AdoptedActive,
         [Next]_vars
  PROVE  AdoptedActive'
<1> SUFFICES ASSUME NEW c \in Captures, cpc'[c] = "adopt"
             PROVE  sessState'[csess'[c]] \in ActiveSession
  BY DEF AdoptedActive
<1>1. CASE cpc[c] = "adopt" /\ csess'[c] = csess[c]
  <2>1. csess[c] \in Sessions /\ sessState[csess[c]] \in ActiveSession
    BY <1>1, WorkAt DEF WorkSteps, ClaimSteps, AdoptedActive
  <2>2. ASSUME NEW a \in Actors, Write(a) \/ WriteSwallowed(a)
        PROVE  sessState'[csess[c]] = sessState[csess[c]]
    BY <1>1, <2>2, AdoptedSpared
  <2> QED BY <1>1, <2>1, <2>2, MarksActive, NextCases
<1>2. CASE Reuse(c)
  <2>1. \E s \in ActiveSessions(capVideo[c]) : csess' = [csess EXCEPT ![c] = s]
    BY <1>2 DEF Reuse, Leave, Goto, LiveInv, Types, CaptureTypes
  <2>2. csess'[c] \in ActiveSessions(capVideo[c]) /\ UNCHANGED sessState
    BY <1>2, <2>1 DEF Reuse, LiveInv, Types, CaptureTypes
  <2> QED BY <2>2 DEF ActiveSessions
<1>3. (cpc[c] = "adopt" /\ csess'[c] = csess[c]) \/ Reuse(c)
  <2>1. ASSUME NEW d \in Captures, ExecutionStep(d)
        PROVE  (cpc[c] = "adopt" /\ csess'[c] = csess[c]) \/ Reuse(c)
    <3>1. CASE d # c
      BY <2>1, <3>1, ExecutionAlone
    <3>2. CASE d = c
      <4>1. CASE \/ Begin(c) \/ Reread(c) \/ Prepare(c) \/ SpawnFails(c) \/ Exit(c) \/ Hang(c)
                 \/ Verdict(c) \/ Measure(c)
        <5>1. \E step \in CaptureSteps \ {"adopt"} : cpc' = [cpc EXCEPT ![c] = step]
          BY <4>1, CourseTurns DEF CourseGoes, CourseSettles
        <5> QED BY <5>1 DEF LiveInv, Types, CaptureTypes
      <4>2. CASE \/ PickUp(c) \/ Load(c) \/ MarkSessionCapturing(c) \/ Adopt(c) \/ Finish(c)
        <5>1. \E step \in CaptureSteps \ {"adopt"} : cpc' = [cpc EXCEPT ![c] = step]
          BY <4>2 DEF Finish, PickUp, Load, MarkSessionCapturing, Adopt, Leave, Goto
        <5> QED BY <5>1 DEF LiveInv, Types, CaptureTypes
      <4>3. CASE FinalizeThrows(c)
        BY <4>3 DEF FinalizeThrows
      <4> QED BY <2>1, <3>2, <4>1, <4>2, <4>3 DEF ExecutionStep
    <3> QED BY <3>1, <3>2
  <2>2. CASE Elsewhere
    BY <2>2, ElsewhereAlone
  <2>3. ASSUME NEW a \in Actors, Write(a) \/ WriteSwallowed(a)
        PROVE  cpc[c] = "adopt" /\ csess'[c] = csess[c]
    BY <2>3, WriteSettles
  <2>4. CASE Drained \/ Crash
    BY <2>4 DEF Drained, Crash, LoseMemory
  <2> QED BY <2>1, <2>2, <2>3, <2>4, NextCases
<1> QED BY <1>1, <1>2, <1>3

LEMMA NextVerdict ==
  ASSUME LiveInv, RecorderInv, SessionInv, OwedInv, VerdictInv, [Next]_vars
  PROVE  VerdictInv'
<1> SUFFICES ASSUME Steady' PROVE (LateSettles /\ AdoptedActive)'
  BY DEF VerdictInv
<1>1. Steady
  BY FaultsGrow DEF Steady
<1> QED BY <1>1, LateKept, AdoptedKept DEF VerdictInv

LEMMA VerdictInvariance == Spec => [](LiveInv /\ RecorderInv /\ SessionInv /\ OwedInv /\ VerdictInv)
<1>1. Init => VerdictInv
  <2> SUFFICES ASSUME Init PROVE VerdictInv
    OBVIOUS
  <2>1. \A c \in Captures : script[Run(c)] = <<>> /\ cpc[c] = "idle"
    BY ActorsAre DEF Init
  <2> QED BY <2>1 DEF VerdictInv, LateSettles, AdoptedActive, HasSettle
<1>2. LiveInv /\ RecorderInv /\ SessionInv /\ OwedInv /\ VerdictInv /\ [Next]_vars => VerdictInv'
  BY NextVerdict
<1> QED BY <1>1, <1>2, OwedInvariance, PTL DEF Spec

\* What SessionVerdictFinal allows of a step.
VerdictMoves ==
    faults["lock"] + faults["crash"] + faults["hang"] = 0 =>
        \A s \in Sessions :
            /\ sessState[s] \in SettledSession => sessState'[s] = sessState[s]
            /\ sessState[s] = "ENDED_PENDING" =>
                  sessState'[s] \in SettledSession \cup {"ENDED_PENDING"}
LEMMA NextVerdictFinal ==
  ASSUME LiveInv, RecorderInv, SessionInv, OwedInv, VerdictInv, [Next]_vars
  PROVE  VerdictMoves
<1> SUFFICES ASSUME faults["lock"] + faults["crash"] + faults["hang"] = 0, NEW s \in Sessions
             PROVE  /\ sessState[s] \in SettledSession => sessState'[s] = sessState[s]
                    /\ sessState[s] = "ENDED_PENDING" =>
                          sessState'[s] \in SettledSession \cup {"ENDED_PENDING"}
  BY DEF VerdictMoves
<1>1. Steady
  BY FaultsGrow DEF Steady
<1>2. AdoptedActive
  BY <1>1 DEF VerdictInv
<1>3. CASE \E a \in Actors : Write(a) \/ WriteSwallowed(a)
  <2>1. sessState'[s] # sessState[s] =>
           /\ sessState[s] \in ActiveSession \cup {"ENDED_PENDING"}
           /\ sessState'[s] \in SettledSession \cup {"ENDED_PENDING"}
    BY <1>3, WriteSettles
  <2> QED BY <2>1
<1>4. CASE (\E c \in Captures : ExecutionStep(c)) \/ Elsewhere \/ Drained \/ Crash
  BY <1>2, <1>4, MarksActive
<1> QED BY <1>3, <1>4, NextCases

\* The first verdict on a session is its last, and a parked one is judged again
\* only to be settled, as long as no lock is lost, no worker dies and nothing
\* hangs (markSessionCapturing adopts, and marks, what it found active).
THEOREM SessionVerdictFinalHolds == Spec => SessionVerdictFinal
<1>1. LiveInv /\ RecorderInv /\ SessionInv /\ OwedInv /\ VerdictInv /\ [Next]_vars => VerdictMoves
  BY NextVerdictFinal
<1>2. Spec => [][VerdictMoves]_vars
  BY <1>1, VerdictInvariance, PTL DEF Spec
<1> QED BY <1>2 DEF SessionVerdictFinal, VerdictMoves

-----------------------------------------------------------------------------
\* A session that is recording is owned

\* An execution that records a session, or owes its settlement.
Holder(c, s) ==
    /\ csess[c] = s
    /\ \/ cpc[c] \in {"run", "exited", "hung", "measure"}
       \/ cpc[c] = "settle" /\ HasSettle(script[Run(c)])
\* An active row created for a session, whose execution has not come to record,
\* or hands the row back.
HandsBack(q) == \A i \in 1..Len(q) : q[i].op = "row" /\ q[i].to = "QUEUED"
Keeper(c, s) ==
    /\ capStatus[c] \in ActiveRow /\ capSession[c] = s
    /\ cpc[c] \in {"idle", "load", "begin", "reread", "prepare", "mark", "settle"}
    /\ cpc[c] = "settle" => HandsBack(script[Run(c)])
\* As long as no lock is lost, no worker dies and no statement fails, a session
\* that is recording has one or the other; once a worker was drained, if a row
\* was created for it.
Calm == faults["crash"] = 0 /\ faults["db"] = 0 /\ faults["lock"] = 0
Owned(s) == \E c \in Captures : Holder(c, s) \/ Keeper(c, s)
Recording(s) == sessState[s] = "CAPTURING" /\ (faults["drain"] = 0 \/ ~Rowless(s))
Held == Calm => \A s \in Sessions : Recording(s) => Owned(s)

LEMMA HandsOn ==
  ASSUME NEW S, NEW q \in Seq(S), q # <<>>, HandsBack(q)
  PROVE  Head(q).op = "row" /\ Head(q).to = "QUEUED" /\ HandsBack(Tail(q))
<1>1. /\ Head(q) = q[1] /\ 1 \in 1..Len(q) /\ Len(Tail(q)) = Len(q) - 1 /\ Len(q) \in Nat
      /\ \A i \in 1..Len(Tail(q)) : i + 1 \in 1..Len(q) /\ Tail(q)[i] = q[i + 1]
  OBVIOUS
<1> QED BY <1>1 DEF HandsBack

LEMMA HandedBack == \A c : HandsBack(<<Row(c, "QUEUED")>>)
<1> SUFFICES ASSUME NEW c PROVE HandsBack(<<Row(c, "QUEUED")>>)
  OBVIOUS
<1>1. ASSUME NEW q, q = <<Row(c, "QUEUED")>> PROVE Len(q) = 1 /\ q[1] = Row(c, "QUEUED")
  BY <1>1
<1>2. ASSUME NEW i \in 1..1 PROVE i = 1
  OBVIOUS
<1>3. Row(c, "QUEUED").op = "row" /\ Row(c, "QUEUED").to = "QUEUED"
  BY DEF Row
<1> QED BY <1>1, <1>2, <1>3 DEF HandsBack

\* Who records a session whose row is active, or records one a row was created
\* for, records the session of its row.
LEMMA RecordsOwn ==
  ASSUME LiveInv, RecorderInv, SessionInv, Calm, NEW c \in Captures, cpc[c] \in ClaimSteps,
         csess[c] \in Sessions, sessState[csess[c]] \in ActiveSession, ~Rowless(csess[c])
  PROVE  csess[c] = capSession[c]
<1>1. capStatus[c] = "RUNNING" /\ sessVideo[csess[c]] = capVideo[c]
  BY WorkAt DEF WorkSteps, Calm, RecorderInv, ClaimsKept
<1>2. csess[c] \in ActiveSessions(capVideo[c])
  BY <1>1 DEF ActiveSessions
<1>3. Stranger(csess[c], capSession[c])
  BY <1>1, <1>2 DEF SessionInv, Strangers, Calm
<1> QED BY <1>3 DEF Stranger

\* An execution on its course does not let go of its session.
LEMMA CourseHolds ==
  ASSUME LiveInv, RecorderInv, SessionInv, OwedInv, Calm, Calm', Spared, NEW c \in Captures,
         \/ Begin(c) \/ Reread(c) \/ Prepare(c) \/ SpawnFails(c) \/ Exit(c) \/ Hang(c)
         \/ Verdict(c) \/ Measure(c),
         NEW s \in Sessions, Recording(s)', Holder(c, s) \/ Keeper(c, s)
  PROVE  (Holder(c, s) \/ Keeper(c, s))'
<1>1. /\ UNCHANGED <<sessVars, capVars, csess, ctl>> /\ cpc[c] \in WorkSteps /\ cpc[c] # "settle"
      /\ CourseGoes(c) \/ CourseSettles(c)
  BY CourseTurns
<1>2. /\ cpc \in [Captures -> CaptureSteps] /\ ScriptsSafe /\ Run(c) \in Actors
  BY ActorsAre DEF LiveInv, Types, CaptureTypes
<1>3. CASE CourseGoes(c)
  <2>1. PICK step \in CaptureSteps :
           /\ cpc' = [cpc EXCEPT ![c] = step]
           /\ \/ cpc[c] \in {"begin", "reread", "prepare"} /\ step \in {"reread", "prepare", "mark"}
              \/ cpc[c] \in {"run", "exited", "hung"} /\ step \in {"exited", "hung", "measure"}
    BY <1>3 DEF CourseGoes
  <2>2. cpc'[c] = step
    BY <1>2, <2>1
  <2>3. CASE Holder(c, s)
    BY <1>1, <2>1, <2>2, <2>3 DEF Holder
  <2>4. CASE Keeper(c, s)
    BY <1>1, <2>1, <2>2, <2>4 DEF Keeper
  <2> QED BY <2>3, <2>4
<1>4. CASE CourseSettles(c)
  <2>1. PICK q \in Seq(RunOps(c)) :
           /\ Owe(Run(c), q)
           /\ HasSettle(q) \/ (q = <<Row(c, "QUEUED")>> /\ ctl[c] = "shutdown")
    BY <1>4 DEF CourseSettles
  <2>2. cpc'[c] = "settle" /\ script'[Run(c)] = q
    BY <1>2, <1>4, <2>1 DEF CourseSettles, Owe, ScriptsSafe
  <2>3. cpc[c] \in ClaimSteps /\ capStatus[c] = "RUNNING"
    BY <1>1 DEF WorkSteps, Calm, RecorderInv, ClaimsKept
  <2>4. csess[c] = s
    <3>1. CASE Holder(c, s)
      BY <3>1 DEF Holder
    <3>2. CASE Keeper(c, s)
      <4>1. cpc[c] \in EarlySteps
        BY <1>1, <3>2 DEF Keeper, WorkSteps, ClaimSteps, EarlySteps
      <4> QED BY <1>1, <3>2, <4>1, WorkAt DEF Keeper
    <3> QED BY <3>1, <3>2
  <2>5. CASE HasSettle(q)
    BY <1>1, <2>2, <2>4, <2>5 DEF Holder
  <2>6. CASE q = <<Row(c, "QUEUED")>> /\ ctl[c] = "shutdown"
    <3>1. faults'["drain"] # 0
      BY <2>6 DEF Spared, OwedInv, Unforced
    <3>2. ~Rowless(s) /\ sessState[s] = "CAPTURING"
      BY <1>1, <3>1 DEF Recording, Rowless
    <3>3. capSession[c] = s
      BY <2>3, <2>4, <3>2, RecordsOwn
    <3> QED BY <1>1, <2>2, <2>3, <2>6, <3>3, HandedBack DEF Keeper
  <2> QED BY <2>1, <2>5, <2>6
<1> QED BY <1>1, <1>3, <1>4

\* An execution comes to record, or ends.
LEMMA TurnHolds ==
  ASSUME LiveInv, RecorderInv, SessionInv, OwedInv, Calm, NEW c \in Captures,
         \/ PickUp(c) \/ Load(c) \/ MarkSessionCapturing(c) \/ Reuse(c) \/ Adopt(c) \/ Finish(c),
         NEW s \in Sessions, Holder(c, s) \/ Keeper(c, s), sessState[s] = "CAPTURING"
  PROVE  (Holder(c, s) \/ Keeper(c, s))'
<1>1. /\ cpc \in [Captures -> CaptureSteps] /\ capStatus \in [Captures -> CaptureStatuses]
      /\ UNCHANGED capSession
  BY DEF LiveInv, Types, CaptureTypes, RowTypes, PickUp, Load, MarkSessionCapturing, Reuse, Adopt,
         Finish
<1>2. CASE PickUp(c) \/ Load(c) \/ Finish(c)
  <2>1. \E step \in {"idle", "load", "begin"} : cpc' = [cpc EXCEPT ![c] = step]
    BY <1>2 DEF PickUp, Load, Finish, Leave, Goto
  <2>2. cpc'[c] \in {"idle", "load", "begin"}
    BY <1>1, <2>1
  <2>3. capStatus'[c] # capStatus[c] => capStatus'[c] = "RUNNING"
    BY <1>1, <1>2 DEF PickUp, Load, Finish
  <2>4. ~Holder(c, s)
    BY <1>2 DEF PickUp, Load, Finish, Holder, HasSettle, RecorderInv, WaitingIdle
  <2>5. Keeper(c, s)
    BY <2>4
  <2> QED BY <1>1, <2>2, <2>3, <2>5 DEF Keeper
<1>3. CASE MarkSessionCapturing(c)
  <2>1. cpc[c] = "mark" /\ Keeper(c, s)
    BY <1>3 DEF MarkSessionCapturing, Holder
  <2>2. csess[c] = s
    BY <2>1, WorkAt DEF Keeper, WorkSteps, ClaimSteps, EarlySteps
  <2>3. cpc' = [cpc EXCEPT ![c] = "run"] /\ UNCHANGED csess
    BY <1>3, <2>2 DEF MarkSessionCapturing, Goto
  <2> QED BY <1>1, <2>2, <2>3 DEF Holder
<1>4. ~Reuse(c) /\ ~Adopt(c)
  BY DEF Reuse, Adopt, Holder, Keeper
<1> QED BY <1>2, <1>3, <1>4

\* A write of an execution that owes a settlement is the settlement, or leaves it
\* owed; one that hands its row back leaves the row active.
LEMMA WriteHolds ==
  ASSUME LiveInv, RecorderInv, SessionInv, OwedInv, NEW c \in Captures, Write(Run(c)),
         NEW s \in Sessions, Holder(c, s) \/ Keeper(c, s), sessState[s] = "CAPTURING"
  PROVE  (Holder(c, s) \/ Keeper(c, s))' \/ sessState'[s] # "CAPTURING"
<1> DEFINE q == script[Run(c)]
           o == Head(q)
<1>1. /\ cpc[c] = "settle" /\ q # <<>> /\ q \in Seq(RunOps(c))
      /\ HasSettle(script'[Run(c)]) <=> HasSettle(Tail(q))
      /\ o.op \in {"row", "session"} => script'[Run(c)] = Tail(q)
  BY RunWritten
<1>2. Run(c) \in Actors
  BY ActorsAre
<1>3. UNCHANGED <<cpc, csess, capSession>>
  BY <1>2, WriteSettles
<1>4. CASE Holder(c, s)
  <2>1. csess[c] = s /\ HasSettle(q)
    BY <1>1, <1>4 DEF Holder
  <2>2. CASE HasSettle(Tail(q))
    BY <1>1, <1>3, <2>1, <2>2 DEF Holder
  <2>3. CASE Settling(o)
    <3>1. o.op = "session" /\ o.from = "active" /\ o.on = s
      BY <1>1, <2>1, <2>3, SettlesOwn DEF Settling
    <3>2. WriteSession(Run(c))
      BY <3>1 DEF Write, WriteHop, WriteVerify, WriteRow, WritePublication, Owes
    <3>3. sessState' = [sessState EXCEPT ![s] = o.to]
      BY <3>1, <3>2 DEF WriteSession
    <3>4. o.to # "CAPTURING"
      <4>1. o \in Ops
        BY <1>1 DEF RunOps
      <4>2. o \in SessionOps
        BY <3>1, <4>1 DEF Ops, HopOps, RowOps, VideoOps
      <4> QED BY <4>2 DEF SessionOps
    <3> QED BY <3>3, <3>4 DEF LiveInv, Types, RowTypes
  <2> QED BY <1>1, <2>1, <2>2, <2>3, TailSettles
<1>5. CASE Keeper(c, s)
  <2>1. o.op = "row" /\ o.to = "QUEUED" /\ HandsBack(Tail(q))
    BY <1>1, <1>5, HandsOn DEF Keeper
  <2>2. capStatus'[c] \in ActiveRow
    BY <1>2, <1>5, <2>1, WriteSettles DEF Keeper
  <2> QED BY <1>1, <1>3, <1>5, <2>1, <2>2 DEF Keeper
<1> QED BY <1>4, <1>5

\* A session comes to record by the execution that marks it.
LEMMA MarkHolds ==
  ASSUME LiveInv, RecorderInv, SessionInv, NEW s \in Sessions, [Next]_vars,
         sessState'[s] = "CAPTURING", sessState[s] # "CAPTURING"
  PROVE  \E c \in Captures : Holder(c, s)'
<1>1. /\ cpc \in [Captures -> CaptureSteps] /\ csess \in [Captures -> Sessions \cup {NoSession}]
      /\ sessState \in [Sessions -> SessionStates]
  BY DEF LiveInv, Types, CaptureTypes, RowTypes
<1>2. ASSUME NEW c \in Captures, MarkSessionCapturing(c) PROVE Holder(c, s)'
  <2>1. cpc[c] = "mark" /\ csess[c] \in Sessions
    BY <1>2, WorkAt DEF MarkSessionCapturing, WorkSteps, ClaimSteps
  <2>2. \E t \in Sessions : /\ sessState' = [sessState EXCEPT ![t] = "CAPTURING"]
                            /\ csess'[c] = t
                            /\ cpc' = [cpc EXCEPT ![c] = "run"]
    BY <1>1, <1>2, <2>1 DEF MarkSessionCapturing, CreateSession, Goto
  <2>3. csess'[c] = s /\ cpc'[c] = "run"
    BY <1>1, <2>2
  <2> QED BY <2>3 DEF Holder
<1>3. ASSUME NEW c \in Captures, Adopt(c) PROVE Holder(c, s)'
  <2>1. csess'[c] = s /\ cpc'[c] = "run"
    BY <1>1, <1>3 DEF Adopt, Goto
  <2> QED BY <2>1 DEF Holder
<1>4. ASSUME NEW v \in Videos, OpenSession(v) PROVE FALSE
  BY <1>1, <1>4 DEF OpenSession, CreateSession
<1>5. ASSUME NEW a \in Actors, Write(a) \/ WriteSwallowed(a) PROVE FALSE
  <2>1. sessState'[s] \in SettledSession \cup {"ENDED_PENDING"}
    BY <1>5, WriteSettles
  <2> QED BY <2>1
<1> QED BY <1>2, <1>3, <1>4, <1>5, SessionMoves, NextCases

\* A row is created for a session.
LEMMA CreateHolds ==
  ASSUME LiveInv, RecorderInv, SessionInv, NEW s \in Sessions, Elsewhere, Rowless(s), ~Rowless(s)'
  PROVE  \E c \in Captures : Keeper(c, s)'
<1>1. PICK c \in Captures : capSession'[c] = s /\ capSession[c] # s
  BY DEF Rowless
<1>2. capStatus[c] = "ABSENT" /\ capStatus'[c] = "QUEUED" /\ UNCHANGED cpc
  BY <1>1, ElsewhereAlone
<1>3. cpc[c] = "idle"
  BY <1>2, IdsAssumption DEF LiveInv, RowsLinked, IsLive, RecorderInv, RowsInOrder
<1> QED BY <1>1, <1>2, <1>3 DEF Keeper

LEMMA NextHeld ==
  ASSUME LiveInv, RecorderInv, SessionInv, OwedInv, Held, [Next]_vars
  PROVE  Held'
<1> SUFFICES ASSUME Calm', NEW s \in Sessions, Recording(s)' PROVE Owned(s)'
  BY DEF Held
<1>1. Calm /\ Spared
  BY FaultsGrow DEF Calm, Spared
<1>2. CASE sessState[s] # "CAPTURING"
  BY <1>2, MarkHolds DEF Recording, Owned
<1>3. CASE sessState[s] = "CAPTURING" /\ ~Recording(s)
  <2>1. faults["drain"] # 0 /\ faults'["drain"] # 0 /\ Rowless(s) /\ ~Rowless(s)'
    BY <1>1, <1>3 DEF Spared, Recording
  <2>2. ~UNCHANGED capSession
    BY <2>1 DEF Rowless
  <2>3. Elsewhere
    <3>1. ASSUME NEW c \in Captures, ExecutionStep(c) PROVE FALSE
      BY <2>2, <3>1, ExecutionAlone
    <3>2. ASSUME NEW a \in Actors, Write(a) \/ WriteSwallowed(a) PROVE FALSE
      BY <2>2, <3>2, WriteSettles
    <3>3. ~Drained /\ ~Crash
      BY <2>2 DEF Drained, Crash
    <3> QED BY <3>1, <3>2, <3>3, NextCases
  <2> QED BY <2>1, <2>3, CreateHolds DEF Owned
<1>4. CASE sessState[s] = "CAPTURING" /\ Recording(s)
  <2>1. PICK c \in Captures : Holder(c, s) \/ Keeper(c, s)
    BY <1>1, <1>4 DEF Held, Owned
  <2> SUFFICES (Holder(c, s) \/ Keeper(c, s))'
    BY DEF Owned
  <2>2. ASSUME NEW d \in Captures, ExecutionStep(d) \/ Write(Run(d)) \/ WriteSwallowed(Run(d))
        PROVE  (Holder(c, s) \/ Keeper(c, s))'
    <3>1. CASE d # c
      BY <2>1, <2>2, <3>1, ExecutionAlone DEF Holder, Keeper
    <3>2. CASE d = c /\ ExecutionStep(c)
      <4>1. ~FinalizeThrows(c)
        BY DEF FinalizeThrows, Fault, Calm, LiveInv, Types, BootTypes
      <4> QED BY <1>1, <1>4, <2>1, <3>2, <4>1, CourseHolds, TurnHolds DEF ExecutionStep
    <3>3. CASE d = c /\ Write(Run(c))
      BY <1>4, <2>1, <3>3, WriteHolds DEF Recording
    <3>4. ~WriteSwallowed(Run(d))
      BY DEF WriteSwallowed, Fault, Calm, LiveInv, Types, BootTypes
    <3> QED BY <2>2, <3>1, <3>2, <3>3, <3>4
  <2>3. CASE Elsewhere
    <3>1. /\ UNCHANGED <<cpc, csess>> /\ script'[Run(c)] = script[Run(c)]
          /\ capStatus'[c] # capStatus[c] =>
                capStatus[c] = "ABSENT" \/ capStatus'[c] = "QUEUED" \/ lpc[c] = "mark"
          /\ capSession'[c] # capSession[c] => capStatus[c] = "ABSENT"
      BY <2>3, ElsewhereAlone
    <3>2. lpc[c] = "idle"
      BY <1>1 DEF Calm, OwedInv, Deaf
    <3>3. CASE Holder(c, s)
      BY <3>1, <3>3 DEF Holder
    <3>4. CASE Keeper(c, s)
      BY <3>1, <3>2, <3>4 DEF Keeper
    <3> QED BY <2>1, <3>3, <3>4
  <2>4. ASSUME NEW a \in Actors, Write(a) \/ WriteSwallowed(a), \A d \in Captures : a # Run(d)
        PROVE  (Holder(c, s) \/ Keeper(c, s))'
    <3>1. UNCHANGED <<cpc, csess, capSession>> /\ capStatus'[c] = capStatus[c]
      BY <2>4, WriteSettles
    <3>2. script'[Run(c)] = script[Run(c)]
      BY <2>4, WriteFrame, ActorsAre
    <3> QED BY <2>1, <3>1, <3>2 DEF Holder, Keeper
  <2>5. CASE Drained
    <3>1. cpc[c] = "idle" /\ cpc'[c] = "idle" /\ UNCHANGED capVars
      BY <2>5 DEF Drained, LoseMemory
    <3> QED BY <2>1, <3>1 DEF Holder, Keeper
  <2>6. ~Crash
    BY DEF Crash, Fault, Calm, LiveInv, Types, BootTypes
  <2> QED BY <2>2, <2>3, <2>4, <2>5, <2>6, NextCases
<1> QED BY <1>2, <1>3, <1>4

\* Who holds a session owns it.
LEMMA HeldOwns ==
  ASSUME LiveInv, RecorderInv, SessionInv, OwedInv, Held
  PROVE  SessionOwned
<1> SUFFICES ASSUME Calm, NEW s \in Sessions, Recording(s)
             PROVE  ActiveCaptures(sessVideo[s]) # {} \/ Judged(s)
  <2>1. faults["crash"] \in Nat /\ faults["db"] \in Nat /\ faults["lock"] \in Nat
    BY DEF LiveInv, Types, BootTypes
  <2>2. faults["crash"] + faults["db"] + faults["lock"] = 0 => Calm
    BY <2>1 DEF Calm
  <2> QED BY <2>2 DEF SessionOwned, Recording
<1>1. PICK c \in Captures : Holder(c, s) \/ Keeper(c, s)
  BY DEF Held, Owned
<1>2. CASE Keeper(c, s)
  <2>1. capStatus[c] \in ActiveRow /\ sessVideo[s] = capVideo[c]
    BY <1>2 DEF Keeper, SessionInv, RowsHaveSession
  <2> QED BY <2>1 DEF ActiveCaptures
<1>3. CASE Holder(c, s) /\ cpc[c] # "settle"
  <2>1. cpc[c] \in ClaimSteps /\ csess[c] = s
    BY <1>3 DEF Holder, ClaimSteps
  <2>2. capStatus[c] = "RUNNING" /\ sessVideo[s] = capVideo[c]
    BY <2>1, WorkAt DEF WorkSteps, Calm, RecorderInv, ClaimsKept
  <2> QED BY <2>2 DEF ActiveCaptures
<1>4. CASE Holder(c, s) /\ cpc[c] = "settle"
  <2>1. /\ csess[c] = s /\ HasSettle(script[Run(c)]) /\ script[Run(c)] \in Seq(RunOps(c))
        /\ Run(c) \in Actors
    BY <1>4, ActorsAre DEF Holder, OwedInv, RunLists
  <2>2. script[Run(c)] # <<>>
    BY <2>1 DEF HasSettle
  <2>3. \E i \in 1..Len(script[Run(c)]) :
           script[Run(c)][i].op = "session" /\ script[Run(c)][i].on = s
    BY <2>1, <2>2, SettlesOwn
  <2> QED BY <2>1, <2>3 DEF Judged
<1> QED BY <1>1, <1>2, <1>3, <1>4

\* A session that is recording has an active row, or somebody about to settle it,
\* as long as no worker dies, no lock is lost and no statement fails; once a worker
\* was drained, if a row was created for it.
THEOREM SessionOwnedHolds == Spec => []SessionOwned
<1>1. Init => Held
  BY DEF Init, Held, Recording
<1>2. LiveInv /\ RecorderInv /\ SessionInv /\ OwedInv /\ Held /\ [Next]_vars => Held'
  BY NextHeld
<1>3. LiveInv /\ RecorderInv /\ SessionInv /\ OwedInv /\ Held => SessionOwned
  BY HeldOwns
<1> QED BY <1>1, <1>2, <1>3, OwedInvariance, PTL DEF Spec
===============================================================================

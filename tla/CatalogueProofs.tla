-------------------------- MODULE CatalogueProofs ----------------------------
(***************************************************************************)
(* Proofs about Catalogue: its types, the dedupe of alerts, that a         *)
(* delete takes nothing from a video that is held or being downloaded,     *)
(* and the watch over the originals: a loss raises one alert at most,      *)
(* and is confirmed by Threshold probes.                                   *)
(*                                                                         *)
(* The invariant UpkeepInv adds to the types what ties the parts           *)
(* together: who works on a video knows one of the vault; who inserts an   *)
(* alert holds the lock of its key and found the window empty; a video     *)
(* that is being downloaded is QUEUED, and one that is being wiped is      *)
(* not held.                                                               *)
(*                                                                         *)
(* A loss is announced once by no more than the guarded write: each        *)
(* alert under way was paid for by a move of the source into GONE.  It     *)
(* is confirmed while no lock is lost and nothing is deleted, for then a   *)
(* video has one check, a check one execution, and an execution one        *)
(* worker, so that nobody moves the streak between a probe and its         *)
(* verdict.                                                                *)
(***************************************************************************)
EXTENDS Catalogue, FiniteSetTheorems, TLAPS

\* An execution past its claim, a row, a scan and a delete have a video; an
\* execution that waits was activated once at most.
WorkLinked ==
    /\ \A w \in Workers :
         /\ wpc[w] # "idle" => wjob[w] \in Checks
         /\ wpc[w] = "claim" /\ row[wjob[w]] # "none" => seen[w].video \in Videos
         /\ wpc[w] \notin {"idle", "claim"} => seen[w].video \in Videos
    /\ \A c \in Checks :
         /\ row[c] # "none" => rowVideo[c] \in Videos
         /\ exec[c].at = "waiting" => tries[c] <= 1
    /\ scan.pc = "add" => scan.check \in Checks /\ scan.video \in Videos

\* The advisory lock: an emitter about to insert holds the key, and nobody has
\* inserted since it looked.  A check emits only once its verdict is recorded.
LocksHeld ==
    /\ \A e \in Emitters :
         /\ epc[e] # "idle" => ekey[e] \in Keys
         /\ epc[e] = "insert" => holder[ekey[e]] = e /\ alerts[ekey[e]] = 0
    /\ \A w \in Workers : epc[w] # "idle" => wpc[w] = "finish"

\* A delete has a video, a reclaim that passed its guard one that was held.
DeletesLinked ==
    /\ \A q \in Deletes :
         /\ dpc[q] # "idle" => ddel[q].video \in Videos
         /\ dpc[q] = "commit" /\ ddel[q].mode = "reclaim" => ddel[q].copy \in Held
    /\ \A v \in Videos : download[v] => copy[v] = "QUEUED"

\* Unless a download overtook a delete, what is being wiped is given up, and
\* nobody downloads it.
WipesGivenUp ==
    events["overtake"] = 0 =>
        \A q \in Deletes :
            dpc[q] = "wipe" => /\ copy[ddel[q].video] \in {"CANDIDATE", "PURGED"}
                               /\ ~download[ddel[q].video]

UpkeepInv ==
    /\ TypeOK /\ WorkLinked /\ LocksHeld /\ DeletesLinked /\ WipesGivenUp
    /\ AlertsDeduped /\ HeldHasMedia

-----------------------------------------------------------------------------
\* An event is counted, and no count goes down.
LEMMA EventCounts ==
  ASSUME events \in [EventKinds \cup {"any"} -> Nat], NEW k \in EventKinds, Event(k)
  PROVE  /\ events' \in [EventKinds \cup {"any"} -> Nat]
         /\ events'[k] > 0
         /\ events'["overtake"] = 0 => events["overtake"] = 0
<1>1. Weight(k) \in Nat
  BY DEF Weight
<1>2. k # "any" /\ "overtake" # "any" /\ "overtake" \in EventKinds
  BY DEF EventKinds
<1>3. events' = [events EXCEPT ![k] = events[k] + 1, !["any"] = events["any"] + Weight(k)]
  BY DEF Event
<1> HIDE DEF Weight
<1>4. events[k] \in Nat /\ events["any"] \in Nat /\ events["overtake"] \in Nat
  BY <1>2
<1>5. events' \in [EventKinds \cup {"any"} -> Nat]
  BY <1>1, <1>3, <1>4
<1>6. events'[k] = events[k] + 1
  BY <1>2, <1>3
<1>7. events'["overtake"] = 0 => events["overtake"] = 0
  BY <1>2, <1>3, <1>4
<1> QED BY <1>4, <1>5, <1>6, <1>7

\* What the proofs need of the records: that each is of its space, and its fields.
LEMMA ExecutionFacts ==
  /\ Absent \in Executions /\ Absent.at = "absent"
  /\ Pending \in Executions /\ Pending.at = "waiting"
  /\ \A w \in Workers : ActiveAt(w) \in Executions /\ ActiveAt(w).at = "active"
BY DEF Executions, Absent, Pending, ActiveAt

LEMMA LookFacts ==
  /\ Unseen \in Looks
  /\ \A l \in Looks :
       /\ l.video \in Videos \cup {NoVideo} /\ l.copy \in CopyStates
       /\ l.src \in SourceStates /\ l.streak \in 0..Threshold
       /\ \A v \in Videos \cup {NoVideo} :
            [l EXCEPT !.video = v] \in Looks /\ [l EXCEPT !.video = v].video = v
  /\ \A v \in Videos, c \in CopyStates, s \in SourceStates, n \in 0..Threshold :
       [video |-> v, copy |-> c, src |-> s, streak |-> n] \in Looks
BY BoundsAssumption DEF Unseen, Looks, CopyStates, SourceStates

LEMMA OrderFacts ==
  /\ NoOrder \in Orders
  /\ \A o \in Orders : o.video \in Videos \cup {NoVideo} /\ o.mode \in Modes /\ o.copy \in CopyStates
  /\ \A v \in Videos, m \in Modes, c \in CopyStates :
       [video |-> v, mode |-> m, copy |-> c] \in Orders
BY DEF NoOrder, Orders, Modes, CopyStates

LEMMA ScanFacts ==
  /\ NoScan \in Scans /\ NoScan.pc = "idle"
  /\ \A s \in Scans :
       \A t \in SUBSET Videos, p \in {"idle", "find"} :
         [s EXCEPT !.pc = p, !.todo = t] \in Scans /\ [s EXCEPT !.pc = p, !.todo = t].pc = p
BY DEF NoScan, Scans

\* The gate keeps the streak within the threshold.
LEMMA DecisionTyped ==
  ASSUME NEW l \in Looks, NEW o \in Observations
  PROVE  Decision(l, o).src \in SourceStates /\ Decision(l, o).streak \in 0..Threshold
<1> l.src \in SourceStates /\ l.streak \in 0..Threshold
  BY LookFacts
<1> QED BY BoundsAssumption DEF Decision, Confirmed, CappedStreak, SourceStates

\* What the end of an execution does: none begins to wait.
EndEffect(w) ==
    /\ exec' \in [Checks -> Executions]
    /\ \A c \in Checks : exec'[c].at = "waiting" => exec[c].at = "waiting"
    /\ wpc' = [wpc EXCEPT ![w] = "idle"] /\ wjob' = [wjob EXCEPT ![w] = None]
    /\ seen' \in [Workers -> Looks]
    /\ \A x \in Workers \ {w} : seen'[x] = seen[x]
    /\ verdict' \in [Workers -> Observations]
    /\ UNCHANGED tries
LEMMA EndedLeaves ==
  ASSUME exec \in [Checks -> Executions], seen \in [Workers -> Looks],
         verdict \in [Workers -> Observations], NEW w \in Workers, Ended(w)
  PROVE  EndEffect(w)
<1>1. /\ exec' \in [Checks -> Executions]
      /\ \A c \in Checks : exec'[c].at = "waiting" => exec[c].at = "waiting"
  BY ExecutionFacts DEF Ended
<1>2. seen' \in [Workers -> Looks] /\ \A x \in Workers \ {w} : seen'[x] = seen[x]
  BY LookFacts DEF Ended
<1>3. verdict' \in [Workers -> Observations]
  BY DEF Ended, Observations
<1> QED BY <1>1, <1>2, <1>3 DEF Ended, EndEffect

\* What a verdict does to the rows: none begins to be active.
SettleEffect ==
    /\ row' \in [Checks -> RowStatuses] /\ rowVideo' \in [Checks -> Videos \cup {NoVideo}]
    /\ \A c \in Checks : row'[c] # "none" => row[c] # "none" /\ rowVideo'[c] = rowVideo[c]
LEMMA SettledLeaves ==
  ASSUME row \in [Checks -> RowStatuses], rowVideo \in [Checks -> Videos \cup {NoVideo}],
         NEW w \in Workers, Settled(w)
  PROVE  SettleEffect
BY DEF Settled, RowStatuses, rowVars, SettleEffect

\* What the end of a delete leaves.
OverEffect(q) ==
    /\ dpc' = [dpc EXCEPT ![q] = "idle"] /\ ddel' \in [Deletes -> Orders]
    /\ \A r \in Deletes \ {q} : ddel'[r] = ddel[r]
LEMMA OverLeaves ==
  ASSUME ddel \in [Deletes -> Orders], NEW q \in Deletes, DeleteOver(q)
  PROVE  OverEffect(q)
BY OrderFacts DEF DeleteOver, OverEffect

-----------------------------------------------------------------------------
\* The value spaces, the groups of variables and the parts of the invariant are
\* expanded throughout; what an action does is cited where it is used.
USE SetsAssumption, BoundsAssumption
USE DEF None, CopyStates, Held, SourceStates, Observations, RowStatuses, Modes, Emitters
USE DEF videoVars, sourceVars, rowVars, execVars, workerVars, alertVars, deleteVars,
        lifeVars, historyVars, alertFrame, watchFrame, checkFrame, removalFrame, lifeFrame
USE DEF UpkeepInv, TypeOK, WorkLinked, LocksHeld, DeletesLinked, WipesGivenUp,
        AlertsDeduped, HeldHasMedia

\* A fresh archive satisfies the invariant.
LEMMA InitKept == Init => UpkeepInv
<1>1. "overtake" \in EventKinds
  BY DEF EventKinds
<1>2. Init => TypeOK
  <2>1. Absent \in Executions /\ Unseen \in Looks /\ NoOrder \in Orders /\ NoScan \in Scans
    BY ExecutionFacts, LookFacts, OrderFacts, ScanFacts
  <2> QED BY <2>1 DEF Init
<1>3. Init => WorkLinked /\ LocksHeld
  BY ExecutionFacts DEF Init, NoScan
<1>4. Init => DeletesLinked /\ WipesGivenUp /\ AlertsDeduped /\ HeldHasMedia
  BY DEF Init
<1> QED BY <1>2, <1>3, <1>4

-----------------------------------------------------------------------------
\* Alerts

\* A transaction that ends keeps the invariant, when the key counts one alert at
\* most and only the emitter of the transaction touched it.
LEMMA AlertStepKeeps ==
  ASSUME UpkeepInv, NEW e \in Emitters, AlertStep(e) \/ EmitFails(e)
  PROVE  UpkeepInv'
<1>1. CASE Look(e)
  <2>1. /\ epc[e] = "look" /\ ekey[e] \in Keys /\ holder[ekey[e]] = None
        /\ alerts[ekey[e]] \in Nat
        /\ UNCHANGED <<alertFrame, alerts, events>>
    BY <1>1 DEF Look, LockFree
  <2>2. CASE alerts[ekey[e]] > 0
    <3>1. /\ epc' = [epc EXCEPT ![e] = "idle"]
          /\ ekey' = [ekey EXCEPT ![e] = NoKey]
          /\ holder' = [holder EXCEPT ![ekey[e]] = None]
      BY <1>1, <2>2 DEF Look, Released
    <3> QED BY <2>1, <3>1
  <2>3. CASE ~(alerts[ekey[e]] > 0)
    <3>1. /\ epc' = [epc EXCEPT ![e] = "insert"]
          /\ holder' = [holder EXCEPT ![ekey[e]] = e]
          /\ UNCHANGED ekey
      BY <1>1, <2>3 DEF Look
    <3> QED BY <2>1, <2>3, <3>1
  <2> QED BY <2>2, <2>3
<1>2. CASE Insert(e)
  BY <1>2 DEF Insert, Released
<1>3. CASE EmitFails(e)
  <2>1. "db" \in EventKinds
    BY DEF EventKinds
  <2> QED BY SMTT(30), <1>3, <2>1, EventCounts DEF EmitFails, Released
<1> QED BY <1>1, <1>2, <1>3 DEF AlertStep

\* A bot wall, and the passing of the window.
LEMMA AlertWorldKeeps ==
  ASSUME UpkeepInv,
         \/ \E e \in Failures : BotWall(e)
         \/ \E k \in Keys : AlertExpires(k)
  PROVE  UpkeepInv'
<1>0. {"wall", "expire"} \subseteq EventKinds
  BY DEF EventKinds
<1>1. ASSUME NEW e \in Failures, BotWall(e)
      PROVE  UpkeepInv'
  <2>1. WallKey \in Keys
    BY DEF Keys, WallKey
  <2>2. events' \in [EventKinds \cup {"any"} -> Nat] /\ (events'["overtake"] = 0 => events["overtake"] = 0)
    BY <1>0, <1>1, EventCounts DEF BotWall
  <2> HIDE DEF WallKey
  <2> QED BY <1>1, <2>1, <2>2 DEF BotWall, Emit, IsFirst
<1>2. ASSUME NEW k \in Keys, AlertExpires(k)
      PROVE  UpkeepInv'
  BY <1>0, <1>2, EventCounts DEF AlertExpires
<1> QED BY <1>1, <1>2

-----------------------------------------------------------------------------
\* The watch

\* Every step of the scan keeps the invariant.
LEMMA ScanKeeps ==
  ASSUME UpkeepInv, ScanStep \/ ScanRejected
  PROVE  UpkeepInv'
<1>1. CASE ScanFind
  <2>0. scan \in Scans
    OBVIOUS
  <2> HIDE DEF UpkeepInv
  <2>1. scan' \in Scans /\ scan'.pc = "find"
    BY <1>1, <2>0, ScanFacts DEF ScanFind
  <2> QED BY <1>1, <2>1 DEF ScanFind, UpkeepInv
<1>2. ASSUME NEW v \in Videos, ScanVideo(v)
      PROVE  UpkeepInv'
  <2>0. UNCHANGED <<watchFrame, sourceVars, execVars, workerVars, epc, ekey, phase, bootTodo,
                    historyVars, events>>
    BY <1>2 DEF ScanVideo
  <2>1. CASE Stamped(v) /\ UNCHANGED rowVars
    <3>1. scan' \in Scans /\ scan'.pc \in {"idle", "find"} /\ due' \in [Videos -> BOOLEAN]
      BY <2>1, ScanFacts DEF Stamped, Scans, NoScan
    <3> QED BY <2>0, <2>1, <3>1
  <2>2. ASSUME NEW c \in Checks, IsFirst(c, FreeChecks),
               row' = [row EXCEPT ![c] = "QUEUED"],
               rowVideo' = [rowVideo EXCEPT ![c] = v],
               scan' = [scan EXCEPT !.pc = "add", !.video = v, !.check = c],
               UNCHANGED due
        PROVE  UpkeepInv'
    <3>0. scan \in Scans /\ v \in Videos /\ c \in Checks
      OBVIOUS
    <3> HIDE DEF UpkeepInv
    <3>1. scan' \in Scans /\ scan'.check \in Checks /\ scan'.video \in Videos
      BY <2>2, <3>0 DEF Scans
    <3>2. \A w \in Workers : wjob[w] # c
      BY <2>2 DEF IsFirst, FreeChecks
    <3>3. WorkLinked'
      BY <2>0, <2>2, <3>1, <3>2 DEF UpkeepInv
    <3> QED BY <2>0, <2>2, <3>1, <3>3 DEF UpkeepInv
  <2>3. CASE scan' = NoScan /\ UNCHANGED <<due, rowVars>>
    BY <2>0, <2>3, ScanFacts
  <2> QED BY <1>2, <2>1, <2>2, <2>3 DEF ScanVideo
<1>3. CASE ScanAdd
  <2>1. scan' \in Scans /\ scan'.pc \in {"idle", "find"} /\ due' \in [Videos -> BOOLEAN]
    BY <1>3, ScanFacts DEF ScanAdd, Stamped, Scans, NoScan
  <2>2. /\ exec' \in [Checks -> Executions] /\ tries' \in [Checks -> 0..2]
        /\ \A c \in Checks : exec'[c].at = "waiting" => tries'[c] <= 1
    BY <1>3, ExecutionFacts DEF ScanAdd
  <2> QED BY <1>3, <2>1, <2>2 DEF ScanAdd
<1>4. CASE ScanRejected
  <2>1. "redis" \in EventKinds
    BY DEF EventKinds
  <2>2. scan' \in Scans /\ scan'.pc = "idle"
    BY <1>4, ScanFacts DEF ScanRejected
  <2> QED BY <1>4, <2>1, <2>2, EventCounts DEF ScanRejected
<1> QED BY <1>1, <1>2, <1>3, <1>4 DEF ScanStep

\* Every statement of a check keeps the invariant.
LEMMA CheckKeeps ==
  ASSUME UpkeepInv, NEW w \in Workers, CheckStep(w)
  PROVE  UpkeepInv'
<1>1. ASSUME NEW c \in Checks, Activate(w, c)
      PROVE  UpkeepInv'
  <2>0. /\ exec \in [Checks -> Executions] /\ tries \in [Checks -> 0..2]
        /\ \A d \in Checks : exec[d].at = "waiting" => tries[d] <= 1
        /\ exec[c] = Pending
        /\ exec' = [exec EXCEPT ![c] = ActiveAt(w)] /\ tries' = [tries EXCEPT ![c] = @ + 1]
    BY <1>1 DEF Activate
  <2>1. /\ exec' \in [Checks -> Executions] /\ tries' \in [Checks -> 0..2]
        /\ \A d \in Checks : exec'[d].at = "waiting" => tries'[d] <= 1
    <3> HIDE DEF UpkeepInv
    <3> QED BY <2>0, ExecutionFacts
  <2>2. /\ seen' \in [Workers -> Looks] /\ seen'[w].video = rowVideo[c]
        /\ \A x \in Workers \ {w} : seen'[x] = seen[x]
    BY <1>1, LookFacts DEF Activate
  <2>3. wpc[w] = "idle"
    BY <1>1 DEF Activate, IsFirst
  <2>4. WorkLinked'
    BY <1>1, <2>1, <2>2, <2>3 DEF Activate
  <2> QED BY <1>1, <2>1, <2>2, <2>3, <2>4 DEF Activate
<1>2. CASE Claim(w)
  <2>0. wpc[w] = "claim" /\ wjob[w] \in Checks
        /\ UNCHANGED <<checkFrame, sourceVars, due, rowVideo, epc, ekey, historyVars, events>>
    BY <1>2 DEF Claim
  <2>1. CASE row[wjob[w]] = "QUEUED" \/ (row[wjob[w]] = "RUNNING" /\ tries[wjob[w]] > 1)
    <3>1. /\ row' = [row EXCEPT ![wjob[w]] = "RUNNING"]
          /\ wpc' = [wpc EXCEPT ![w] = "read"]
          /\ UNCHANGED <<execVars, wjob, seen, verdict>>
      BY <1>2, <2>1 DEF Claim
    <3> QED BY <2>0, <2>1, <3>1
  <2>2. CASE ~(row[wjob[w]] = "QUEUED" \/ (row[wjob[w]] = "RUNNING" /\ tries[wjob[w]] > 1))
    <3>1. Ended(w) /\ UNCHANGED row
      BY <1>2, <2>2 DEF Claim
    <3>2. EndEffect(w)
      BY <3>1, EndedLeaves
    <3> QED BY <2>0, <3>1, <3>2 DEF EndEffect
  <2> QED BY <2>1, <2>2
<1>3. CASE Read(w)
  <2>0. wpc[w] = "read" /\ seen[w].video \in Videos
        /\ UNCHANGED <<checkFrame, sourceVars, due, epc, ekey, historyVars, events>>
    BY <1>3 DEF Read
  <2>1. CASE copy[seen[w].video] = "PURGED"
    <3>1. Settled(w) /\ Ended(w)
      BY <1>3, <2>1 DEF Read
    <3>2. EndEffect(w) /\ SettleEffect
      BY <3>1, EndedLeaves, SettledLeaves
    <3> QED BY <2>0, <3>2 DEF EndEffect, SettleEffect
  <2>2. CASE copy[seen[w].video] # "PURGED"
    <3> DEFINE v == seen[w].video
               look == [video |-> v, copy |-> copy[v], src |-> src[v], streak |-> streak[v]]
    <3>0. /\ v \in Videos /\ copy[v] \in CopyStates /\ src[v] \in SourceStates
          /\ streak[v] \in 0..Threshold
      BY <2>0
    <3>1. look \in Looks /\ look.video = v
      <4> HIDE DEF UpkeepInv, v
      <4> QED BY <3>0, LookFacts
    <3>2. /\ seen' = [seen EXCEPT ![w] = look]
          /\ wpc' = [wpc EXCEPT ![w] = "probe"]
          /\ UNCHANGED <<execVars, rowVars, wjob, verdict>>
      BY <1>3, <2>2 DEF Read
    <3> HIDE DEF look
    <3> QED BY <2>0, <3>1, <3>2
  <2> QED BY <2>1, <2>2
<1>4. CASE Probe(w)
  <2>1. "gone" \in EventKinds
    BY DEF EventKinds
  <2>2. events' \in [EventKinds \cup {"any"} -> Nat] /\ (events'["overtake"] = 0 => events["overtake"] = 0)
    BY SMTT(30), <1>4, <2>1, EventCounts DEF Probe
  <2> QED BY <1>4, <2>2 DEF Probe
<1>5. CASE ProbeUnanswered(w)
  <2>1. wpc[w] = "probe" /\ Settled(w) /\ Ended(w)
        /\ UNCHANGED <<checkFrame, sourceVars, due, epc, ekey, historyVars>>
    BY <1>5 DEF ProbeUnanswered
  <2>2. EndEffect(w) /\ SettleEffect
    BY <2>1, EndedLeaves, SettledLeaves
  <2>3. "db" \in EventKinds
    BY DEF EventKinds
  <2>4. events' \in [EventKinds \cup {"any"} -> Nat] /\ (events'["overtake"] = 0 => events["overtake"] = 0)
    BY SMTT(30), <1>5, <2>3, EventCounts DEF ProbeUnanswered
  <2> QED BY <2>1, <2>2, <2>4 DEF EndEffect, SettleEffect
<1>6. CASE Record(w)
  <2>1. /\ Decision(seen[w], verdict[w]).src \in SourceStates
        /\ Decision(seen[w], verdict[w]).streak \in 0..Threshold
    BY SMTT(30), DecisionTyped
  <2>2. /\ wpc[w] = "record" /\ seen[w].video \in Videos
        /\ wpc' = [wpc EXCEPT ![w] = IF Alerting(w) THEN "alert" ELSE "finish"]
        /\ UNCHANGED <<checkFrame, rowVars, execVars, wjob, seen, verdict, epc, ekey, events>>
    BY <1>6 DEF Record
  <2>3. CASE Applied(w)
    <3> DEFINE v == seen[w].video
               d == Decision(seen[w], verdict[w])
    <3>1. /\ src' = [src EXCEPT ![v] = d.src]
          /\ streak' = [streak EXCEPT ![v] = d.streak]
          /\ due' = [due EXCEPT ![v] = FALSE]
          /\ overdue' = [overdue EXCEPT ![v] = FALSE]
          /\ gone' = [gone EXCEPT ![v] = IF verdict[w] = "AVAILABLE" THEN 0 ELSE @]
          /\ owed' = [owed EXCEPT ![v] = IF src[v] # "GONE" /\ d.src = "GONE" THEN @ + 1 ELSE @]
      BY <1>6, <2>3 DEF Record
    <3>2. d.src \in SourceStates /\ d.streak \in 0..Threshold
      BY <2>1
    <3> HIDE DEF d
    <3> QED BY <2>2, <3>1, <3>2
  <2>4. CASE ~Applied(w)
    <3>1. UNCHANGED <<sourceVars, due, historyVars>>
      BY <1>6, <2>4 DEF Record
    <3> QED BY <2>2, <3>1
  <2> QED BY <2>3, <2>4
<1>7. CASE RaiseAlert(w)
  <2>1. LossKey(seen[w].video, seen[w]) \in Keys
    BY <1>7 DEF RaiseAlert, LossKey, Keys
  <2> QED BY SMTT(30), <1>7, <2>1 DEF RaiseAlert, Emit
<1>8. CASE Finish(w)
  <2>1. "db" \in EventKinds
    BY DEF EventKinds
  <2>2. events' \in [EventKinds \cup {"any"} -> Nat] /\ (events'["overtake"] = 0 => events["overtake"] = 0)
    BY <1>8, <2>1, EventCounts DEF Finish
  <2>3. row' \in [Checks -> RowStatuses] /\ rowVideo' \in [Checks -> Videos \cup {NoVideo}]
        /\ \A c \in Checks : row'[c] # "none" => row[c] # "none" /\ rowVideo'[c] = rowVideo[c]
    BY <1>8, SettledLeaves DEF Finish, SettleEffect
  <2>4. /\ wpc[w] = "finish" /\ epc[w] = "idle" /\ Ended(w)
        /\ UNCHANGED <<checkFrame, sourceVars, due, epc, ekey, historyVars>>
    BY <1>8 DEF Finish
  <2>5. EndEffect(w)
    BY <2>4, EndedLeaves
  <2> QED BY <2>2, <2>3, <2>4, <2>5 DEF EndEffect
<1> QED BY <1>1, <1>2, <1>3, <1>4, <1>5, <1>6, <1>7, <1>8 DEF CheckStep

\* So do the errors under it.
LEMMA CheckErrorsKeep ==
  ASSUME UpkeepInv, NEW w \in Workers, Throws(w) \/ LockLost(w)
  PROVE  UpkeepInv'
<1>0. {"db", "lock"} \subseteq EventKinds
  BY DEF EventKinds
<1>1. CASE Throws(w)
  <2>1. /\ wpc[w] \in {"claim", "read", "record"} /\ Ended(w)
        /\ UNCHANGED <<checkFrame, sourceVars, due, rowVars, epc, ekey, historyVars>>
        /\ events' \in [EventKinds \cup {"any"} -> Nat]
        /\ events'["overtake"] = 0 => events["overtake"] = 0
    BY <1>0, <1>1, EventCounts DEF Throws
  <2>2. EndEffect(w)
    BY <2>1, EndedLeaves
  <2> QED BY <2>1, <2>2 DEF EndEffect
<1>2. CASE LockLost(w)
  <2>1. /\ exec' \in [Checks -> Executions]
        /\ \A c \in Checks : exec'[c].at = "waiting" => tries[c] <= 1
    BY SMTT(30), <1>2, ExecutionFacts DEF LockLost
  <2>2. /\ UNCHANGED <<checkFrame, sourceVars, due, rowVars, tries, workerVars, epc, ekey,
                       historyVars>>
        /\ events' \in [EventKinds \cup {"any"} -> Nat]
        /\ events'["overtake"] = 0 => events["overtake"] = 0
    BY <1>0, <1>2, EventCounts DEF LockLost
  <2> QED BY <2>1, <2>2
<1> QED BY <1>1, <1>2

-----------------------------------------------------------------------------
\* What the owner takes out, and what comes back

\* Every statement of a delete keeps the invariant.
LEMMA DeleteKeeps ==
  ASSUME UpkeepInv, NEW q \in Deletes,
         \/ \E v \in Videos, m \in Modes : DeleteRead(q, v, m)
         \/ DeleteStep(q) \/ ApiDies(q)
  PROVE  UpkeepInv'
<1>0. {"delete", "fs", "api"} \subseteq EventKinds
  BY DEF EventKinds
<1>1. ASSUME NEW v \in Videos, NEW m \in Modes, DeleteRead(q, v, m)
      PROVE  UpkeepInv'
  <2>1. /\ dpc[q] = "idle" /\ dpc' = [dpc EXCEPT ![q] = "guard"]
        /\ ddel' \in [Deletes -> Orders] /\ ddel'[q].video = v
        /\ \A r \in Deletes \ {q} : ddel'[r] = ddel[r]
    <3>1. /\ v \in Videos /\ copy[v] \in CopyStates /\ ddel \in [Deletes -> Orders]
          /\ dpc[q] = "idle" /\ dpc' = [dpc EXCEPT ![q] = "guard"]
          /\ ddel' = [ddel EXCEPT ![q] = [video |-> v, mode |-> m, copy |-> copy[v]]]
      BY <1>1 DEF DeleteRead
    <3> HIDE DEF UpkeepInv
    <3> QED BY <3>1, OrderFacts
  <2>2. /\ events' \in [EventKinds \cup {"any"} -> Nat]
        /\ events'["overtake"] = 0 => events["overtake"] = 0
        /\ UNCHANGED <<removalFrame, copy, due, download, media, rowVars, historyVars>>
    BY <1>0, <1>1, EventCounts DEF DeleteRead
  <2> QED BY <2>1, <2>2
<1>2. CASE DeleteGuard(q)
  <2>1. CASE Refused(q)
    <3>1. dpc[q] = "guard" /\ DeleteOver(q)
          /\ UNCHANGED <<removalFrame, copy, due, download, media, rowVars, historyVars, events>>
      BY <1>2, <2>1 DEF DeleteGuard
    <3>2. OverEffect(q)
      BY <3>1, OverLeaves
    <3> QED BY <3>1, <3>2 DEF OverEffect
  <2>2. CASE ~Refused(q)
    BY <1>2, <2>2 DEF DeleteGuard, Refused
  <2> QED BY <2>1, <2>2
<1>3. CASE DeleteCommit(q)
  <2>1. CASE ~Deletable(q)
    <3>1. dpc[q] = "commit" /\ DeleteOver(q)
          /\ UNCHANGED <<removalFrame, copy, download, rowVars, due, media, historyVars, events>>
      BY <1>3, <2>1 DEF DeleteCommit, Lost
    <3>2. OverEffect(q)
      BY <3>1, OverLeaves
    <3> QED BY <3>1, <3>2 DEF OverEffect
  <2>2. CASE Deletable(q) /\ ddel[q].mode = "reclaim"
    BY SMTT(30), <1>3, <2>2 DEF DeleteCommit, Deletable
  <2>3. CASE Deletable(q) /\ ddel[q].mode # "reclaim"
    <3> DEFINE v == ddel[q].video
    <3>1. /\ copy' = [copy EXCEPT ![v] = "PURGED"]
          /\ download' = [download EXCEPT ![v] = FALSE]
          /\ dpc' = [dpc EXCEPT ![q] = "wipe"]
          /\ UNCHANGED ddel
      BY <1>3, <2>3 DEF DeleteCommit
    <3>2. /\ row' \in [Checks -> RowStatuses] /\ rowVideo' \in [Checks -> Videos \cup {NoVideo}]
          /\ \A c \in Checks : row'[c] # "none" => row[c] # "none" /\ rowVideo'[c] = rowVideo[c]
      BY <1>3, <2>3 DEF DeleteCommit
    <3>3. v \in Videos /\ dpc[q] = "commit"
          /\ UNCHANGED <<removalFrame, due, media, historyVars, events>>
      BY <1>3 DEF DeleteCommit
    <3>4. /\ copy' \in [Videos -> CopyStates] /\ download' \in [Videos -> BOOLEAN]
          /\ \A u \in Videos : download'[u] => copy'[u] = "QUEUED"
          /\ \A u \in Videos : copy'[u] \in Held => copy[u] \in Held
          /\ copy'[v] = "PURGED" /\ ~download'[v]
          /\ \A u \in Videos \ {v} : copy'[u] = copy[u] /\ download'[u] = download[u]
      <4>1. /\ copy \in [Videos -> CopyStates] /\ download \in [Videos -> BOOLEAN]
            /\ \A u \in Videos : download[u] => copy[u] = "QUEUED"
        OBVIOUS
      <4> HIDE DEF UpkeepInv, v
      <4> QED BY <3>1, <3>3, <4>1
    <3>5. TypeOK' /\ WorkLinked' /\ LocksHeld'
      BY <3>1, <3>2, <3>3, <3>4
    <3>6. DeletesLinked'
      BY <3>1, <3>3, <3>4
    <3>7. WipesGivenUp' /\ AlertsDeduped' /\ HeldHasMedia'
      BY <3>1, <3>3, <3>4
    <3> QED BY <3>5, <3>6, <3>7
  <2> QED BY <2>1, <2>2, <2>3
<1>4. CASE DeleteWipe(q)
  <2>1. events' \in [EventKinds \cup {"any"} -> Nat] /\ (events'["overtake"] = 0 => events["overtake"] = 0)
    BY <1>0, <1>4, EventCounts DEF DeleteWipe
  <2>2. media' \in [Videos -> BOOLEAN]
        /\ \A v \in Videos : media'[v] = media[v] \/ v = ddel[q].video
    <3>1. media \in [Videos -> BOOLEAN]
          /\ media' \in {media, [media EXCEPT ![ddel[q].video] = FALSE]}
      BY <1>4 DEF DeleteWipe
    <3> HIDE DEF UpkeepInv
    <3> QED BY <3>1
  <2>3. dpc[q] = "wipe" /\ DeleteOver(q)
        /\ UNCHANGED <<removalFrame, copy, due, download, rowVars, historyVars>>
    BY <1>4 DEF DeleteWipe
  <2>4. OverEffect(q)
    BY <2>3, OverLeaves
  <2>5. HeldHasMedia'
    BY <2>1, <2>2, <2>3
  <2> QED BY <2>1, <2>2, <2>3, <2>4, <2>5 DEF OverEffect
<1>5. CASE ApiDies(q)
  <2>1. OverEffect(q)
    BY <1>5, OverLeaves DEF ApiDies
  <2> QED BY <1>0, <1>5, <2>1, EventCounts DEF ApiDies, OverEffect
<1> HIDE DEF UpkeepInv
<1> QED BY <1>1, <1>2, <1>3, <1>4, <1>5, Zenon DEF DeleteStep

\* So do an enqueue, the end of a download and a new listing.
LEMMA ReturnKeeps ==
  ASSUME UpkeepInv, NEW v \in Videos, Enqueue(v) \/ DownloadEnds(v) \/ Listed(v)
  PROVE  UpkeepInv'
<1>0. {"overtake", "download"} \subseteq EventKinds
  BY DEF EventKinds
<1>1. CASE Enqueue(v)
  <2>1. CASE DeletePending(v)
    BY <1>0, <1>1, <2>1, EventCounts DEF Enqueue
  <2>2. CASE ~DeletePending(v)
    BY <1>1, <2>2 DEF Enqueue, DeletePending
  <2> QED BY <2>1, <2>2
<1>2. CASE DownloadEnds(v)
  <2>1. /\ download[v] /\ copy[v] = "QUEUED"
        /\ download' = [download EXCEPT ![v] = FALSE]
        /\ events' \in [EventKinds \cup {"any"} -> Nat]
        /\ events'["overtake"] = 0 => events["overtake"] = 0
        /\ UNCHANGED <<removalFrame, due, rowVars, deleteVars, historyVars>>
    BY <1>0, <1>2, EventCounts DEF DownloadEnds
  <2>2. ASSUME NEW s \in Held, copy' = [copy EXCEPT ![v] = s], media' = [media EXCEPT ![v] = TRUE]
        PROVE  UpkeepInv'
    BY <2>1, <2>2
  <2>3. CASE copy' = [copy EXCEPT ![v] = "CANDIDATE"] /\ UNCHANGED media
    BY <2>1, <2>3
  <2> QED BY <1>2, <2>2, <2>3 DEF DownloadEnds
<1>3. CASE Listed(v)
  BY <1>3 DEF Listed
<1> QED BY <1>1, <1>2, <1>3

-----------------------------------------------------------------------------
\* The worker's life

\* Drain, crash, boot and time keep the invariant.
LEMMA LifeKeeps ==
  ASSUME UpkeepInv,
         \/ LifeStep \/ Drain \/ Crash
         \/ \E v \in Videos : IntervalPasses(v)
  PROVE  UpkeepInv'
<1>0. {"drain", "crash", "late"} \subseteq EventKinds
  BY DEF EventKinds
<1>1. CASE Drained
  BY <1>1 DEF Drained
<1>2. CASE Boot
  BY <1>2 DEF Boot
<1>3. ASSUME NEW c \in Checks, BootRow(c)
      PROVE  UpkeepInv'
  <2>0. c \in bootTodo /\ bootTodo' = bootTodo \ {c}
        /\ UNCHANGED <<videoVars, rowVideo, deleteVars, historyVars, workerVars, alertVars,
                       phase, scan, events>>
    BY <1>3 DEF BootRow
  <2>1. CASE exec[c] # Absent \/ row[c] = "none"
    BY <1>3, <2>0, <2>1 DEF BootRow
  <2>2. CASE exec[c] = Absent /\ row[c] # "none"
    <3>1. /\ row' = [row EXCEPT ![c] = "QUEUED"]
          /\ exec' = [exec EXCEPT ![c] = Pending]
          /\ tries' = [tries EXCEPT ![c] = 0]
      BY <1>3, <2>2 DEF BootRow
    <3>2. /\ exec' \in [Checks -> Executions] /\ tries' \in [Checks -> 0..2]
          /\ \A d \in Checks : exec'[d].at = "waiting" => tries'[d] <= 1
      BY <3>1, ExecutionFacts
    <3> QED BY <2>0, <2>2, <3>1, <3>2
  <2> QED BY <2>1, <2>2
<1>4. CASE Booted
  BY <1>4 DEF Booted
<1>5. CASE Drain
  BY <1>0, <1>5, EventCounts DEF Drain
<1>6. CASE Crash
  <2>1. /\ exec' \in [Checks -> Executions]
        /\ \A c \in Checks : exec'[c].at = "waiting" => tries[c] <= 1
    <3>1. /\ exec \in [Checks -> Executions] /\ tries \in [Checks -> 0..2]
          /\ \A c \in Checks : exec[c].at = "waiting" => tries[c] <= 1
          /\ exec' = [c \in Checks |-> IF exec[c].at # "active" THEN exec[c]
                                        ELSE IF tries[c] > 1 THEN Absent ELSE Pending]
      BY <1>6 DEF Crash
    <3> HIDE DEF UpkeepInv
    <3> QED BY <3>1, ExecutionFacts
  <2>2. seen' \in [Workers -> Looks]
    BY <1>6, LookFacts DEF Crash
  <2>3. /\ scan' \in Scans /\ scan'.pc = "idle"
    BY <1>6, ScanFacts DEF Crash
  <2>4. /\ events' \in [EventKinds \cup {"any"} -> Nat]
        /\ events'["overtake"] = 0 => events["overtake"] = 0
    BY <1>0, <1>6, EventCounts DEF Crash
  <2> QED BY <1>6, <2>1, <2>2, <2>3, <2>4 DEF Crash
<1>7. ASSUME NEW v \in Videos, IntervalPasses(v)
      PROVE  UpkeepInv'
  <2>1. events' \in [EventKinds \cup {"any"} -> Nat] /\ (events'["overtake"] = 0 => events["overtake"] = 0)
    BY <1>0, <1>7, EventCounts DEF IntervalPasses
  <2> QED BY <1>7, <2>1 DEF IntervalPasses
<1> QED BY <1>1, <1>2, <1>3, <1>4, <1>5, <1>6, <1>7 DEF LifeStep

\* Every step of the upkeep keeps the invariant.
LEMMA NextKeeps == UpkeepInv /\ [Next]_vars => UpkeepInv'
<1> HIDE DEF UpkeepInv
<1>1. CASE UNCHANGED vars
  BY <1>1 DEF vars, UpkeepInv
<1>2. ASSUME UpkeepInv, Next
      PROVE  UpkeepInv'
  BY <1>2, AlertStepKeeps, AlertWorldKeeps, ScanKeeps, CheckKeeps, CheckErrorsKeep,
     DeleteKeeps, ReturnKeeps, LifeKeeps, Zenon DEF Next
<1> QED BY <1>1, <1>2

\* Every state of the upkeep satisfies the invariant.
LEMMA Invariance == Spec => []UpkeepInv
BY InitKept, NextKeeps, PTL DEF Spec

-----------------------------------------------------------------------------
\* Theorems

\* The variables keep their types, whatever scan, checks, alerts, deletes, boots
\* and faults interleave.
THEOREM TypeCorrect == Spec => []TypeOK
<1>1. UpkeepInv => TypeOK
  OBVIOUS
<1> QED BY Invariance, <1>1, PTL

\* emit never inserts a second undismissed alert of a key in its window: the
\* advisory lock closes the gap between the look and the insert.
THEOREM AlertsDedupedHolds == Spec => []AlertsDeduped
<1>1. UpkeepInv => AlertsDeduped
  OBVIOUS
<1> QED BY Invariance, <1>1, PTL

\* A delete, however its statements interleave with downloads, other deletes and
\* listings, never leaves a held video without its media.
THEOREM HeldHasMediaHolds == Spec => []HeldHasMedia
<1>1. UpkeepInv => HeldHasMedia
  OBVIOUS
<1> QED BY Invariance, <1>1, PTL

\* Only a commit, an enqueue, the end of a download and a listing touch the copy of
\* a video.
LEMMA CopyFrame ==
  ASSUME Next
  PROVE  \/ UNCHANGED <<copy, download>>
         \/ \E q \in Deletes : DeleteCommit(q)
         \/ \E v \in Videos : Enqueue(v) \/ DownloadEnds(v) \/ Listed(v)
<1> HIDE DEF UpkeepInv
<1> DEFINE Same == UNCHANGED <<copy, download>>
<1>1. ASSUME NEW w \in Workers, CheckStep(w) \/ Throws(w) \/ LockLost(w)
      PROVE  Same
  BY <1>1 DEF CheckStep, Activate, Claim, Read, Probe, ProbeUnanswered, Record, RaiseAlert,
              Finish, Throws, LockLost
<1>2. ASSUME \/ \E e \in Emitters : AlertStep(e) \/ EmitFails(e)
             \/ \E e \in Failures : BotWall(e)
             \/ \E k \in Keys : AlertExpires(k)
      PROVE  Same
  BY <1>2 DEF AlertStep, Look, Insert, EmitFails, BotWall, AlertExpires
<1>3. ASSUME ScanStep \/ ScanRejected
      PROVE  Same
  BY <1>3 DEF ScanStep, ScanFind, ScanVideo, ScanAdd, ScanRejected
<1>4. ASSUME LifeStep \/ Drain \/ Crash \/ \E v \in Videos : IntervalPasses(v)
      PROVE  Same
  BY <1>4 DEF LifeStep, Drained, Boot, BootRow, Booted, Drain, Crash, IntervalPasses
<1>5. ASSUME NEW q \in Deletes,
             \/ \E v \in Videos, m \in Modes : DeleteRead(q, v, m)
             \/ DeleteStep(q) /\ ~DeleteCommit(q)
             \/ ApiDies(q)
      PROVE  Same
  BY <1>5 DEF DeleteRead, DeleteStep, DeleteGuard, DeleteWipe, ApiDies
<1> HIDE DEF Same
<1>6. Same \/ (\E q \in Deletes : DeleteCommit(q))
      \/ (\E v \in Videos : Enqueue(v) \/ DownloadEnds(v) \/ Listed(v))
  BY <1>1, <1>2, <1>3, <1>4, <1>5, Zenon DEF Next
<1> QED BY <1>6 DEF Same

\* A reclaim commits only on the held copy it read, so never under a download.
THEOREM ReclaimSparesDownloadHolds == Spec => ReclaimSparesDownload
<1>1. UpkeepInv /\ [Next]_vars =>
        [\A v \in Videos : download[v] /\ copy'[v] = "CANDIDATE" => ~download'[v]]_vars
  <2> SUFFICES ASSUME UpkeepInv, Next, NEW v \in Videos, download[v], copy'[v] = "CANDIDATE"
               PROVE  ~download'[v]
    BY Zenon
  <2>1. copy[v] = "QUEUED"
    OBVIOUS
  <2>2. ASSUME NEW q \in Deletes, DeleteCommit(q)
        PROVE  ~download'[v]
    BY <2>1, <2>2 DEF DeleteCommit, Deletable, Lost, DeleteOver
  <2>3. ASSUME NEW u \in Videos, Enqueue(u) \/ DownloadEnds(u) \/ Listed(u)
        PROVE  ~download'[v]
    BY <2>1, <2>3 DEF Enqueue, DownloadEnds, Listed
  <2> QED BY <2>1, <2>2, <2>3, CopyFrame
<1> QED BY Invariance, <1>1, PTL DEF Spec, ReclaimSparesDownload

-----------------------------------------------------------------------------
\* The watch over the originals

\* From here on the parts of the invariant are cited where they are used.
HIDE DEF CopyStates, Held, Modes, Emitters, UpkeepInv, TypeOK, WorkLinked, LocksHeld,
         DeletesLinked, WipesGivenUp, AlertsDeduped, HeldHasMedia

\* Who is about to raise an alert of v.
Announcing(v) == {w \in Workers : wpc[w] = "alert" /\ seen[w].video = v}

AlertsOwed == \A v \in Videos : owed[v] >= Cardinality(Announcing(v))

\* An execution has the worker that runs it, and no other.
OwnExecution == \A w \in Workers : wjob[w] # None => exec[wjob[w]] = ActiveAt(w)

\* The scan adds what nobody executes, and never while the worker boots.
ScanFirst ==
    /\ scan.pc # "idle" => phase \in {"up", "draining"}
    /\ scan.pc = "add" => exec[scan.check] = Absent

\* A video has one check.
OneCheck ==
    \A c, d \in Checks :
        row[c] # "none" /\ row[d] # "none" /\ rowVideo[c] = rowVideo[d] => c = d

\* A check at work has its row, and the row its video.
OwnRow ==
    \A w \in Workers :
        /\ wpc[w] = "claim" /\ row[wjob[w]] # "none" => rowVideo[wjob[w]] = seen[w].video
        /\ wpc[w] \in {"read", "probe", "record"} =>
             row[wjob[w]] = "RUNNING" /\ rowVideo[wjob[w]] = seen[w].video

\* The streak counts gone probes, and one about to be recorded is one more.
StreakCounted ==
    /\ \A v \in Videos : streak[v] <= gone[v]
    /\ \A w \in Workers :
         wpc[w] = "record" /\ verdict[w] = "GONE" =>
            gone[seen[w].video] >= Threshold \/ gone[seen[w].video] > streak[seen[w].video]

NoDelete == \A q \in Deletes : dpc[q] = "idle"

Sole == OwnExecution /\ ScanFirst /\ OneCheck /\ OwnRow /\ StreakCounted /\ NoDelete

\* The types and links these proofs rest on.
WatchBase ==
    /\ src \in [Videos -> SourceStates] /\ streak \in [Videos -> 0..Threshold]
    /\ gone \in [Videos -> 0..Threshold] /\ owed \in [Videos -> Int]
    /\ row \in [Checks -> RowStatuses] /\ rowVideo \in [Checks -> Videos \cup {NoVideo}]
    /\ exec \in [Checks -> Executions]
    /\ wpc \in [Workers -> {"idle", "claim", "read", "probe", "record", "alert", "finish"}]
    /\ wjob \in [Workers -> Checks \cup {None}]
    /\ seen \in [Workers -> Looks] /\ verdict \in [Workers -> Observations]
    /\ scan \in Scans
    /\ events \in [EventKinds \cup {"any"} -> Nat]
    /\ WorkLinked

LEMMA BaseHolds == UpkeepInv => WatchBase
BY DEF UpkeepInv, TypeOK, WatchBase

\* The states of an execution differ.
LEMMA ExecutionsDiffer ==
  /\ Absent # Pending
  /\ \A w \in Workers : ActiveAt(w) # Absent /\ ActiveAt(w) # Pending
  /\ \A w, x \in Workers : ActiveAt(w) = ActiveAt(x) => w = x
BY DEF Absent, Pending, ActiveAt

-----------------------------------------------------------------------------

\* A step counts one event, or none.
LEMMA NextCounts ==
  ASSUME Next
  PROVE  UNCHANGED events \/ \E k \in EventKinds : Event(k)
<1> DEFINE Counts == UNCHANGED events \/ \E k \in EventKinds : Event(k)
<1>0. EventKinds = {"crash", "drain", "lock", "db", "redis", "api", "fs", "gone", "wall",
                    "expire", "download", "delete", "overtake", "late"}
  BY DEF EventKinds
<1>1. ASSUME NEW w \in Workers, CheckStep(w) \/ Throws(w) \/ LockLost(w)
      PROVE  Counts
  BY <1>0, <1>1 DEF CheckStep, Activate, Claim, Read, Probe, ProbeUnanswered, Record, RaiseAlert,
                    Finish, Throws, LockLost
<1>2. ASSUME \/ \E e \in Emitters : AlertStep(e) \/ EmitFails(e)
             \/ \E e \in Failures : BotWall(e)
             \/ \E k \in Keys : AlertExpires(k)
      PROVE  Counts
  BY <1>0, <1>2 DEF AlertStep, Look, Insert, EmitFails, BotWall, AlertExpires
<1>3. ASSUME ScanStep \/ ScanRejected
      PROVE  Counts
  BY <1>0, <1>3 DEF ScanStep, ScanFind, ScanVideo, ScanAdd, ScanRejected
<1>4. ASSUME LifeStep \/ Drain \/ Crash \/ \E v \in Videos : IntervalPasses(v)
      PROVE  Counts
  BY <1>0, <1>4 DEF LifeStep, Drained, Boot, BootRow, Booted, Drain, Crash, IntervalPasses
<1>5. ASSUME NEW q \in Deletes,
             \/ \E v \in Videos, m \in Modes : DeleteRead(q, v, m)
             \/ DeleteStep(q) \/ ApiDies(q)
      PROVE  Counts
  BY <1>0, <1>5 DEF DeleteRead, DeleteStep, DeleteGuard, DeleteCommit, DeleteWipe, ApiDies
<1>6. ASSUME NEW v \in Videos, Enqueue(v) \/ DownloadEnds(v) \/ Listed(v)
      PROVE  Counts
  BY <1>0, <1>6 DEF Enqueue, DownloadEnds, Listed
<1> HIDE DEF Counts
<1>7. Counts
  BY <1>1, <1>2, <1>3, <1>4, <1>5, <1>6, Zenon DEF Next
<1> QED BY <1>7 DEF Counts

\* What has happened is not undone.
LEMMA UndisturbedBefore ==
  ASSUME WatchBase, Next, Undisturbed'
  PROVE  Undisturbed
<1>0. "lock" \in EventKinds /\ "delete" \in EventKinds /\ "any" \notin EventKinds
  BY DEF EventKinds
<1>1. ASSUME NEW k \in EventKinds, Event(k)
      PROVE  Undisturbed
  <2>1. k # "any" /\ events \in [EventKinds \cup {"any"} -> Nat]
        /\ events' = [events EXCEPT ![k] = events[k] + 1, !["any"] = events["any"] + Weight(k)]
    BY <1>0, <1>1 DEF WatchBase, Event
  <2> HIDE DEF Weight
  <2> QED BY <1>0, <2>1 DEF Undisturbed
<1> QED BY <1>1, NextCounts DEF Undisturbed

-----------------------------------------------------------------------------
\* One alert per loss

\* A step that is neither a verdict nor an alert begins no alert and pays none.
LEMMA AlertFrame ==
  ASSUME UpkeepInv, Next
  PROVE  \/ \E w \in Workers : Record(w) \/ RaiseAlert(w)
         \/ /\ owed' = owed
            /\ \A w \in Workers : wpc'[w] = "alert" => wpc[w] = "alert" /\ seen'[w] = seen[w]
<1> DEFINE Quieter ==
        /\ owed' = owed
        /\ \A w \in Workers : wpc'[w] = "alert" => wpc[w] = "alert" /\ seen'[w] = seen[w]
<1>0. WatchBase
  BY BaseHolds
<1>1. ASSUME NEW w \in Workers,
             \/ \E c \in Checks : Activate(w, c)
             \/ Claim(w) \/ Read(w) \/ Probe(w) \/ ProbeUnanswered(w) \/ Finish(w)
             \/ Throws(w) \/ LockLost(w)
      PROVE  Quieter
  <2>0. wpc \in [Workers -> {"idle", "claim", "read", "probe", "record", "alert", "finish"}]
        /\ seen \in [Workers -> Looks]
    BY <1>0 DEF WatchBase
  <2>1. ASSUME wpc' = [wpc EXCEPT ![w] = "idle"], seen' = [seen EXCEPT ![w] = Unseen], owed' = owed
        PROVE  Quieter
    BY <2>0, <2>1
  <2>2. ASSUME NEW i, i # "alert", wpc' = [wpc EXCEPT ![w] = i], UNCHANGED <<seen, owed>>
        PROVE  Quieter
    BY <2>0, <2>2
  <2>3. CASE \E c \in Checks : Activate(w, c)
    BY <2>0, <2>3 DEF Activate
  <2>4. CASE Claim(w)
    BY <2>1, <2>2, <2>4 DEF Claim, Ended
  <2>5. CASE Read(w)
    BY <2>0, <2>1, <2>5 DEF Read, Ended
  <2>6. CASE Probe(w)
    BY <2>2, <2>6 DEF Probe
  <2>7. CASE ProbeUnanswered(w)
    BY <2>1, <2>7 DEF ProbeUnanswered, Ended
  <2>8. CASE Finish(w)
    BY <2>1, <2>8 DEF Finish, Ended
  <2>9. CASE Throws(w)
    BY <2>1, <2>9 DEF Throws, Ended
  <2>10. CASE LockLost(w)
    BY <2>10 DEF LockLost
  <2> QED BY <1>1, <2>3, <2>4, <2>5, <2>6, <2>7, <2>8, <2>9, <2>10
<1>2. ASSUME \/ \E e \in Emitters : AlertStep(e) \/ EmitFails(e)
             \/ \E e \in Failures : BotWall(e)
             \/ \E k \in Keys : AlertExpires(k)
      PROVE  Quieter
  BY <1>2 DEF AlertStep, Look, Insert, EmitFails, BotWall, AlertExpires
<1>3. ASSUME ScanStep \/ ScanRejected
      PROVE  Quieter
  BY <1>3 DEF ScanStep, ScanFind, ScanVideo, ScanAdd, ScanRejected
<1>4. ASSUME LifeStep \/ Drain \/ Crash \/ \E v \in Videos : IntervalPasses(v)
      PROVE  Quieter
  BY <1>4 DEF LifeStep, Drained, Boot, BootRow, Booted, Drain, Crash, IntervalPasses
<1>5. ASSUME NEW q \in Deletes,
             \/ \E v \in Videos, m \in Modes : DeleteRead(q, v, m)
             \/ DeleteStep(q) \/ ApiDies(q)
      PROVE  Quieter
  BY <1>5 DEF DeleteRead, DeleteStep, DeleteGuard, DeleteCommit, DeleteWipe, ApiDies
<1>6. ASSUME NEW v \in Videos, Enqueue(v) \/ DownloadEnds(v) \/ Listed(v)
      PROVE  Quieter
  BY <1>6 DEF Enqueue, DownloadEnds, Listed
<1> HIDE DEF Quieter
<1>7. Quieter \/ \E w \in Workers : Record(w) \/ RaiseAlert(w)
  BY <1>1, <1>2, <1>3, <1>4, <1>5, <1>6, Zenon DEF Next, CheckStep
<1> QED BY <1>7 DEF Quieter

LEMMA AnnouncingFinite ==
  \A v \in Videos : IsFiniteSet(Announcing(v)) /\ Cardinality(Announcing(v)) \in Nat
BY FS_Subset, FS_CardinalityType DEF Announcing

\* Every step keeps the account of a loss.
LEMMA AlertsOwedKept == UpkeepInv /\ AlertsOwed /\ [Next]_vars => AlertsOwed'
<1> SUFFICES ASSUME UpkeepInv, AlertsOwed, [Next]_vars, NEW v \in Videos
             PROVE  owed'[v] >= Cardinality(Announcing(v)')
  BY DEF AlertsOwed
<1>0. WatchBase /\ owed[v] \in Int /\ owed[v] >= Cardinality(Announcing(v))
      /\ IsFiniteSet(Announcing(v)) /\ Cardinality(Announcing(v)) \in Nat
  BY BaseHolds, AnnouncingFinite DEF AlertsOwed, WatchBase
<1>1. CASE UNCHANGED vars
  BY <1>0, <1>1 DEF vars, Announcing
<1>2. CASE /\ owed' = owed
           /\ \A w \in Workers : wpc'[w] = "alert" => wpc[w] = "alert" /\ seen'[w] = seen[w]
  <2>1. Announcing(v)' \subseteq Announcing(v)
    BY <1>2 DEF Announcing
  <2>2. Cardinality(Announcing(v)') <= Cardinality(Announcing(v)) /\ Cardinality(Announcing(v)') \in Nat
    BY <1>0, <2>1, FS_Subset, FS_CardinalityType
  <2> QED BY <1>0, <1>2, <2>2
<1>3. ASSUME NEW w \in Workers, RaiseAlert(w)
      PROVE  owed'[v] >= Cardinality(Announcing(v)')
  <2>1. /\ wpc[w] = "alert" /\ wpc' = [wpc EXCEPT ![w] = "finish"] /\ UNCHANGED seen
        /\ owed' = [owed EXCEPT ![seen[w].video] = @ - 1]
        /\ wpc \in [Workers -> {"idle", "claim", "read", "probe", "record", "alert", "finish"}]
        /\ owed \in [Videos -> Int]
    BY <1>0, <1>3 DEF RaiseAlert, WatchBase
  <2>2. CASE seen[w].video = v
    <3>1. w \in Announcing(v) /\ Announcing(v)' = Announcing(v) \ {w}
      BY <2>1, <2>2 DEF Announcing
    <3>2. Cardinality(Announcing(v)') = Cardinality(Announcing(v)) - 1
      BY <1>0, <3>1, FS_RemoveElement
    <3> QED BY <1>0, <2>1, <2>2, <3>2
  <2>3. CASE seen[w].video # v
    <3>1. Announcing(v)' = Announcing(v)
      BY <2>1, <2>3 DEF Announcing
    <3> QED BY <1>0, <2>1, <2>3, <3>1
  <2> QED BY <2>2, <2>3
<1>4. ASSUME NEW w \in Workers, Record(w)
      PROVE  owed'[v] >= Cardinality(Announcing(v)')
  <2>0. /\ wpc[w] = "record" /\ UNCHANGED seen
        /\ wpc' = [wpc EXCEPT ![w] = IF Alerting(w) THEN "alert" ELSE "finish"]
        /\ wpc \in [Workers -> {"idle", "claim", "read", "probe", "record", "alert", "finish"}]
        /\ owed \in [Videos -> Int] /\ seen[w].video \in Videos
    BY <1>0, <1>4 DEF Record, WatchBase, WorkLinked
  <2>1. CASE Alerting(w)
    <3>1. Applied(w) /\ LossEdge(seen[w], verdict[w])
      BY <2>1 DEF Alerting
    <3>2. src[seen[w].video] # "GONE" /\ Decision(seen[w], verdict[w]).src = "GONE"
      BY <3>1 DEF Applied, LossEdge
    <3>3. owed' = [owed EXCEPT ![seen[w].video] = @ + 1]
      BY <1>4, <3>1, <3>2, <2>0 DEF Record
    <3>4. CASE seen[w].video = v
      <4>1. w \notin Announcing(v) /\ Announcing(v)' = Announcing(v) \cup {w}
        BY <2>0, <2>1, <3>4 DEF Announcing
      <4>2. Cardinality(Announcing(v)') = Cardinality(Announcing(v)) + 1
        BY <1>0, <4>1, FS_AddElement
      <4> QED BY <1>0, <2>0, <3>3, <3>4, <4>2
    <3>5. CASE seen[w].video # v
      <4>1. Announcing(v)' = Announcing(v)
        BY <2>0, <3>5 DEF Announcing
      <4> QED BY <1>0, <2>0, <3>3, <3>5, <4>1
    <3> QED BY <3>4, <3>5
  <2>2. CASE ~Alerting(w)
    <3>1. Announcing(v)' = Announcing(v)
      BY <2>0, <2>2 DEF Announcing
    <3>2. owed'[v] >= owed[v]
      <4>1. CASE Applied(w)
        <5>1. owed' \in {owed, [owed EXCEPT ![seen[w].video] = @ + 1]}
          <6>1. CASE /\ src[seen[w].video] # "GONE"
                     /\ Decision(seen[w], verdict[w]).src = "GONE"
            BY <1>4, <4>1, <6>1 DEF Record
          <6>2. CASE ~ /\ src[seen[w].video] # "GONE"
                       /\ Decision(seen[w], verdict[w]).src = "GONE"
            BY <1>4, <2>0, <4>1, <6>2 DEF Record
          <6> QED BY <6>1, <6>2
        <5> QED BY <2>0, <5>1
      <4>2. CASE ~Applied(w)
        BY <1>0, <1>4, <4>2 DEF Record
      <4> QED BY <4>1, <4>2
    <3>3. owed'[v] \in Int
      BY <1>0, <1>4, <2>0 DEF Record
    <3> QED BY <1>0, <3>1, <3>2, <3>3
  <2> QED BY <2>1, <2>2
<1>5. CASE Next
  BY <1>2, <1>3, <1>4, <1>5, AlertFrame
<1> QED BY <1>1, <1>5

\* A confirmed loss raises one alert at most: the write that takes the source into
\* GONE is guarded by what the verdict was decided on, and only its writer emits.
THEOREM OneAlertPerLossHolds == Spec => []OneAlertPerLoss
<1>1. Init => AlertsOwed
  <2> SUFFICES ASSUME Init, NEW v \in Videos
               PROVE  owed[v] >= Cardinality(Announcing(v))
    BY DEF AlertsOwed
  <2>1. Announcing(v) = {}
    BY DEF Init, Announcing
  <2> QED BY <2>1, FS_EmptySet DEF Init
<1>2. AlertsOwed /\ UpkeepInv => OneAlertPerLoss
  BY AnnouncingFinite, BaseHolds DEF AlertsOwed, OneAlertPerLoss, WatchBase
<1> QED BY Invariance, AlertsOwedKept, <1>1, <1>2, PTL DEF Spec
-----------------------------------------------------------------------------
\* A loss is confirmed

\* Two checks at work have their rows to themselves, and different videos.
LEMMA Apart ==
  ASSUME WatchBase, Sole, NEW w \in Workers, NEW x \in Workers, w # x,
         wpc[w] \in {"claim", "read", "probe", "record", "alert", "finish"},
         wpc[x] \in {"claim", "read", "probe", "record", "alert", "finish"}
  PROVE  /\ wjob[w] \in Checks /\ wjob[x] \in Checks /\ wjob[w] # wjob[x]
         /\ wpc[w] = "record" /\ wpc[x] \in {"probe", "record"} =>
              seen[w].video # seen[x].video
<1>1. wjob[w] \in Checks /\ wjob[x] \in Checks
  BY DEF WatchBase, WorkLinked
<1>2. wjob[w] # wjob[x]
  BY <1>1, ExecutionsDiffer DEF Sole, OwnExecution
<1>3. ASSUME wpc[w] = "record", wpc[x] \in {"probe", "record"}, seen[w].video = seen[x].video
      PROVE  FALSE
  <2>1. /\ row[wjob[w]] = "RUNNING" /\ rowVideo[wjob[w]] = seen[w].video
        /\ row[wjob[x]] = "RUNNING" /\ rowVideo[wjob[x]] = seen[x].video
    BY <1>3 DEF Sole, OwnRow
  <2> QED BY <1>1, <1>2, <1>3, <2>1 DEF Sole, OneCheck
<1> QED BY <1>1, <1>2, <1>3

\* What the end of a check leaves: its execution gone, its row as it was or over.
CloseEffect(w) ==
    /\ exec' = [exec EXCEPT ![wjob[w]] = Absent]
    /\ wpc' = [wpc EXCEPT ![w] = "idle"] /\ wjob' = [wjob EXCEPT ![w] = None]
    /\ \A x \in Workers \ {w} : seen'[x] = seen[x] /\ verdict'[x] = verdict[x]
    /\ \A c \in Checks :
         /\ c # wjob[w] => row'[c] = row[c] /\ rowVideo'[c] = rowVideo[c]
         /\ row'[c] # "none" => row[c] # "none" /\ rowVideo'[c] = rowVideo[c]
    /\ UNCHANGED <<streak, gone, dpc, phase, scan>>

LEMMA CloseLeaves ==
  ASSUME WatchBase, Sole, NEW w \in Workers, wpc[w] # "idle", Ended(w),
         Settled(w) \/ UNCHANGED rowVars,
         UNCHANGED <<streak, gone, dpc, phase, scan>>
  PROVE  CloseEffect(w)
<1>1. wjob[w] \in Checks /\ exec[wjob[w]] = ActiveAt(w)
      /\ row \in [Checks -> RowStatuses] /\ rowVideo \in [Checks -> Videos \cup {NoVideo}]
      /\ exec \in [Checks -> Executions]
      /\ seen \in [Workers -> Looks] /\ verdict \in [Workers -> Observations]
  BY DEF WatchBase, WorkLinked, Sole, OwnExecution
<1>2. /\ exec' = [exec EXCEPT ![wjob[w]] = Absent]
      /\ wpc' = [wpc EXCEPT ![w] = "idle"] /\ wjob' = [wjob EXCEPT ![w] = None]
      /\ \A x \in Workers \ {w} : seen'[x] = seen[x] /\ verdict'[x] = verdict[x]
  BY <1>1 DEF Ended
<1>3. \A c \in Checks :
         /\ c # wjob[w] => row'[c] = row[c] /\ rowVideo'[c] = rowVideo[c]
         /\ row'[c] # "none" => row[c] # "none" /\ rowVideo'[c] = rowVideo[c]
  BY <1>1 DEF Settled
<1> QED BY <1>2, <1>3 DEF CloseEffect

LEMMA CloseKeeps ==
  ASSUME WatchBase, Sole, NEW w \in Workers, wpc[w] # "idle", CloseEffect(w)
  PROVE  Sole'
<1>0. /\ wjob[w] \in Checks
      /\ wpc \in [Workers -> {"idle", "claim", "read", "probe", "record", "alert", "finish"}]
      /\ wjob \in [Workers -> Checks \cup {None}] /\ exec \in [Checks -> Executions]
  BY DEF WatchBase, WorkLinked
<1>1. \A x \in Workers \ {w} :
        /\ wpc'[x] = wpc[x] /\ wjob'[x] = wjob[x]
        /\ wjob[x] # None => wjob[x] \in Checks /\ wjob[x] # wjob[w]
        /\ wpc[x] # "idle" => wjob[x] \in Checks /\ wjob[x] # wjob[w]
  BY <1>0, ExecutionsDiffer DEF WatchBase, WorkLinked, Sole, OwnExecution, CloseEffect
<1>2. OwnExecution'
  BY <1>0, <1>1 DEF Sole, OwnExecution, CloseEffect
<1>3. ScanFirst'
  <2>1. scan.pc = "add" => scan.check \in Checks
    BY DEF WatchBase, WorkLinked
  <2> QED BY <1>0, <2>1 DEF Sole, ScanFirst, CloseEffect
<1>4. OneCheck'
  BY DEF Sole, OneCheck, CloseEffect
<1>5. OwnRow'
  BY <1>0, <1>1 DEF Sole, OwnRow, CloseEffect
<1>6. StreakCounted'
  BY <1>0, <1>1 DEF Sole, StreakCounted, CloseEffect
<1>7. NoDelete'
  BY DEF Sole, NoDelete, CloseEffect
<1> QED BY <1>2, <1>3, <1>4, <1>5, <1>6, <1>7 DEF Sole

\* A step of a check that stays at work.
LEMMA WorkKeeps ==
  ASSUME WatchBase, Sole, NEW w \in Workers, CheckStep(w) \/ Throws(w)
  PROVE  Sole'
<1>0. /\ wpc \in [Workers -> {"idle", "claim", "read", "probe", "record", "alert", "finish"}]
      /\ wjob \in [Workers -> Checks \cup {None}] /\ exec \in [Checks -> Executions]
      /\ seen \in [Workers -> Looks] /\ verdict \in [Workers -> Observations]
      /\ row \in [Checks -> RowStatuses]
      /\ streak \in [Videos -> 0..Threshold] /\ gone \in [Videos -> 0..Threshold]
      /\ \A x \in Workers : wpc[x] # "idle" => wjob[x] \in Checks
      /\ \A x \in Workers : wpc[x] \notin {"idle", "claim"} => seen[x].video \in Videos
  BY DEF WatchBase, WorkLinked
<1>1. ASSUME NEW c \in Checks, Activate(w, c)
      PROVE  Sole'
  <2>1. /\ exec[c] = Pending /\ wpc[w] = "idle"
        /\ exec' = [exec EXCEPT ![c] = ActiveAt(w)]
        /\ wpc' = [wpc EXCEPT ![w] = "claim"] /\ wjob' = [wjob EXCEPT ![w] = c]
        /\ seen'[w].video = rowVideo[c] /\ \A x \in Workers \ {w} : seen'[x] = seen[x]
        /\ UNCHANGED <<row, rowVideo, verdict, streak, gone, dpc, phase, scan>>
    BY <1>0, <1>1, LookFacts DEF Activate, IsFirst
  <2>2. \A x \in Workers : wjob[x] # None => wjob[x] \in Checks /\ wjob[x] # c
    BY <1>0, <2>1, ExecutionsDiffer DEF Sole, OwnExecution
  <2>3. OwnExecution'
    BY <1>0, <2>1, <2>2 DEF Sole, OwnExecution
  <2>4. ScanFirst'
    <3>1. scan.pc = "add" => scan.check \in Checks /\ scan.check # c
      BY <2>1, ExecutionsDiffer DEF WatchBase, WorkLinked, Sole, ScanFirst
    <3> QED BY <1>0, <2>1, <3>1 DEF Sole, ScanFirst
  <2>5. OneCheck' /\ NoDelete'
    BY <2>1 DEF Sole, OneCheck, NoDelete
  <2>6. OwnRow'
    BY <1>0, <2>1 DEF Sole, OwnRow
  <2>7. StreakCounted'
    BY <1>0, <2>1 DEF Sole, StreakCounted
  <2> QED BY <2>3, <2>4, <2>5, <2>6, <2>7 DEF Sole
<1>2. CASE Claim(w)
  <2>0. wpc[w] = "claim" /\ UNCHANGED <<rowVideo, streak, gone, dpc, phase, scan>>
    BY <1>2 DEF Claim
  <2>1. CASE row[wjob[w]] = "QUEUED" \/ (row[wjob[w]] = "RUNNING" /\ tries[wjob[w]] > 1)
    <3>1. /\ row' = [row EXCEPT ![wjob[w]] = "RUNNING"]
          /\ wpc' = [wpc EXCEPT ![w] = "read"]
          /\ UNCHANGED <<exec, wjob, seen, verdict>>
      BY <1>2, <2>1 DEF Claim
    <3>2. OwnExecution' /\ ScanFirst' /\ NoDelete'
      BY <2>0, <3>1 DEF Sole, OwnExecution, ScanFirst, NoDelete
    <3>3. OneCheck'
      BY <1>0, <2>0, <2>1, <3>1 DEF Sole, OneCheck
    <3>4. OwnRow'
      BY <1>0, <2>0, <2>1, <3>1 DEF Sole, OwnRow
    <3>5. StreakCounted'
      BY <1>0, <2>0, <3>1 DEF Sole, StreakCounted
    <3> QED BY <3>2, <3>3, <3>4, <3>5 DEF Sole
  <2>2. CASE ~(row[wjob[w]] = "QUEUED" \/ (row[wjob[w]] = "RUNNING" /\ tries[wjob[w]] > 1))
    <3>1. Ended(w) /\ UNCHANGED rowVars
      BY <1>2, <2>2 DEF Claim
    <3> QED BY <2>0, <3>1, CloseLeaves, CloseKeeps
  <2> QED BY <2>1, <2>2
<1>3. CASE Read(w)
  <2>0. wpc[w] = "read" /\ UNCHANGED <<streak, gone, dpc, phase, scan>>
    BY <1>3 DEF Read
  <2>1. CASE copy[seen[w].video] = "PURGED"
    <3>1. Settled(w) /\ Ended(w)
      BY <1>3, <2>1 DEF Read
    <3> QED BY <2>0, <3>1, CloseLeaves, CloseKeeps
  <2>2. CASE copy[seen[w].video] # "PURGED"
    <3>1. /\ seen'[w].video = seen[w].video /\ \A x \in Workers \ {w} : seen'[x] = seen[x]
          /\ wpc' = [wpc EXCEPT ![w] = "probe"]
          /\ UNCHANGED <<exec, row, rowVideo, wjob, verdict>>
      BY <1>0, <1>3, <2>2 DEF Read
    <3>2. OwnExecution' /\ ScanFirst' /\ OneCheck' /\ NoDelete'
      BY <2>0, <3>1 DEF Sole, OwnExecution, ScanFirst, OneCheck, NoDelete
    <3>3. OwnRow'
      BY <1>0, <2>0, <3>1 DEF Sole, OwnRow
    <3>4. StreakCounted'
      BY <1>0, <2>0, <3>1 DEF Sole, StreakCounted
    <3> QED BY <3>2, <3>3, <3>4 DEF Sole
  <2> QED BY <2>1, <2>2
<1>4. CASE Probe(w)
  <2>1. PICK o \in Observations :
          /\ verdict' = [verdict EXCEPT ![w] = o]
          /\ gone' = [gone EXCEPT ![seen[w].video] =
                        IF o = "GONE" /\ @ < Threshold THEN @ + 1 ELSE @]
    BY <1>4 DEF Probe
  <2>2. /\ wpc[w] = "probe" /\ wpc' = [wpc EXCEPT ![w] = "record"]
        /\ UNCHANGED <<streak, row, rowVideo, exec, wjob, seen, dpc, phase, scan>>
    BY <1>4 DEF Probe
  <2>3. OwnExecution' /\ ScanFirst' /\ OneCheck' /\ NoDelete'
    BY <2>2 DEF Sole, OwnExecution, ScanFirst, OneCheck, NoDelete
  <2>4. OwnRow'
    BY <1>0, <2>2 DEF Sole, OwnRow
  <2>5. \A v \in Videos : gone'[v] \in 0..Threshold /\ gone'[v] >= gone[v]
    BY <1>0, <2>1
  <2>6. StreakCounted'
    <3>1. \A v \in Videos : streak'[v] <= gone'[v]
      BY <1>0, <2>2, <2>5 DEF Sole, StreakCounted
    <3>2. ASSUME NEW x \in Workers, wpc'[x] = "record", verdict'[x] = "GONE"
          PROVE  gone'[seen'[x].video] >= Threshold \/ gone'[seen'[x].video] > streak'[seen'[x].video]
      <4>1. CASE x = w
        <5>1. seen[w].video \in Videos /\ streak[seen[w].video] <= gone[seen[w].video]
          BY <1>0, <2>2 DEF Sole, StreakCounted
        <5> QED BY <1>0, <2>1, <2>2, <3>2, <4>1, <5>1
      <4>2. CASE x # w
        <5>1. wpc[x] = "record" /\ verdict[x] = "GONE" /\ seen[x].video \in Videos
          BY <1>0, <2>1, <2>2, <3>2, <4>2
        <5>2. gone[seen[x].video] >= Threshold \/ gone[seen[x].video] > streak[seen[x].video]
          BY <5>1 DEF Sole, StreakCounted
        <5> QED BY <1>0, <2>2, <2>5, <5>1, <5>2
      <4> QED BY <4>1, <4>2
    <3> QED BY <3>1, <3>2 DEF StreakCounted
  <2> QED BY <2>3, <2>4, <2>6 DEF Sole
<1>5. CASE ProbeUnanswered(w)
  <2>1. /\ wpc[w] = "probe" /\ Settled(w) /\ Ended(w)
        /\ UNCHANGED <<streak, gone, dpc, phase, scan>>
    BY <1>5 DEF ProbeUnanswered
  <2> QED BY <2>1, CloseLeaves, CloseKeeps
<1>6. CASE Record(w)
  <2>0. /\ wpc[w] = "record" /\ wpc' \in {[wpc EXCEPT ![w] = "alert"], [wpc EXCEPT ![w] = "finish"]}
        /\ UNCHANGED <<row, rowVideo, exec, wjob, seen, verdict, dpc, phase, scan>>
    BY <1>6 DEF Record
  <2>1. OwnExecution' /\ ScanFirst' /\ OneCheck' /\ NoDelete'
    BY <2>0 DEF Sole, OwnExecution, ScanFirst, OneCheck, NoDelete
  <2>2. OwnRow'
    BY <1>0, <2>0 DEF Sole, OwnRow
  <2>3. \A x \in Workers : wpc'[x] = "record" =>
           wpc[x] = "record" /\ seen[x].video \in Videos /\ seen[x].video # seen[w].video
    BY <1>0, <2>0, Apart
  <2>4. StreakCounted'
    <3>1. CASE Applied(w)
      <4> DEFINE v == seen[w].video
                 d == Decision(seen[w], verdict[w])
      <4>1. /\ v \in Videos /\ streak' = [streak EXCEPT ![v] = d.streak]
            /\ gone' = [gone EXCEPT ![v] = IF verdict[w] = "AVAILABLE" THEN 0 ELSE @]
        BY <1>0, <1>6, <2>0, <3>1 DEF Record
      <4>2. d.streak <= gone'[v] /\ d.streak \in Int
        <5>1. /\ streak[v] = seen[w].streak /\ verdict[w] \in Observations
              /\ streak[v] \in 0..Threshold /\ gone[v] \in 0..Threshold /\ streak[v] <= gone[v]
              /\ verdict[w] = "GONE" => gone[v] >= Threshold \/ gone[v] > streak[v]
          BY <1>0, <2>0, <3>1, <4>1 DEF Applied, Sole, StreakCounted
        <5>2. gone'[v] = IF verdict[w] = "AVAILABLE" THEN 0 ELSE gone[v]
          BY <1>0, <4>1
        <5> QED BY <5>1, <5>2 DEF Decision, Confirmed, CappedStreak
      <4> HIDE DEF d, v
      <4> QED BY <1>0, <2>0, <2>3, <4>1, <4>2 DEF Sole, StreakCounted, v
    <3>2. CASE ~Applied(w)
      <4>1. UNCHANGED <<streak, gone>>
        BY <1>6, <3>2 DEF Record
      <4> QED BY <2>0, <2>3, <4>1 DEF Sole, StreakCounted
    <3> QED BY <3>1, <3>2
  <2> QED BY <2>1, <2>2, <2>4 DEF Sole
<1>7. CASE RaiseAlert(w)
  <2>1. /\ wpc[w] = "alert" /\ wpc' = [wpc EXCEPT ![w] = "finish"]
        /\ UNCHANGED <<row, rowVideo, exec, wjob, seen, verdict, streak, gone, dpc, phase, scan>>
    BY <1>7 DEF RaiseAlert
  <2> QED BY <1>0, <2>1 DEF Sole, OwnExecution, ScanFirst, OneCheck, OwnRow, StreakCounted, NoDelete
<1>8. CASE Finish(w)
  <2>1. /\ wpc[w] = "finish" /\ (Settled(w) \/ UNCHANGED rowVars) /\ Ended(w)
        /\ UNCHANGED <<streak, gone, dpc, phase, scan>>
    BY <1>8 DEF Finish
  <2> QED BY <2>1, CloseLeaves, CloseKeeps
<1>9. CASE Throws(w)
  <2>1. /\ wpc[w] # "idle" /\ UNCHANGED rowVars /\ Ended(w)
        /\ UNCHANGED <<streak, gone, dpc, phase, scan>>
    BY <1>9 DEF Throws
  <2> QED BY <2>1, CloseLeaves, CloseKeeps
<1> QED BY <1>1, <1>2, <1>3, <1>4, <1>5, <1>6, <1>7, <1>8, <1>9 DEF CheckStep

\* The scan gives a video a check only when it has none.
LEMMA TickKeeps ==
  ASSUME WatchBase, Sole, ScanStep \/ ScanRejected
  PROVE  Sole'
<1>0. UNCHANGED <<wpc, wjob, seen, verdict, streak, gone, dpc, phase>>
  BY DEF ScanStep, ScanFind, ScanVideo, ScanAdd, ScanRejected
<1>1. NoDelete' /\ StreakCounted'
  BY <1>0 DEF Sole, NoDelete, StreakCounted
<1>2. CASE ScanFind \/ ScanRejected
  <2>1. UNCHANGED <<row, rowVideo, exec>> /\ scan'.pc # "add"
        /\ (scan'.pc # "idle" => phase = "up")
    <3>1. scan \in Scans /\ NoScan.pc = "idle"
      BY DEF WatchBase, NoScan
    <3>2. ASSUME NEW x, scan' = [scan EXCEPT !.pc = "find", !.todo = x]
          PROVE  scan'.pc = "find"
      BY <3>1, <3>2 DEF Scans
    <3>3. CASE ScanFind
      BY <1>0, <3>2, <3>3 DEF ScanFind
    <3>4. CASE ScanRejected
      BY <1>0, <3>1, <3>4 DEF ScanRejected
    <3> QED BY <1>2, <3>3, <3>4
  <2> QED BY <1>0, <1>1, <2>1 DEF Sole, OwnExecution, ScanFirst, OneCheck, OwnRow
<1>3. ASSUME NEW v \in Videos, ScanVideo(v)
      PROVE  Sole'
  <2>0. scan.pc = "find" /\ phase \in {"up", "draining"} /\ UNCHANGED exec /\ scan \in Scans
        /\ row \in [Checks -> RowStatuses] /\ rowVideo \in [Checks -> Videos \cup {NoVideo}]
    BY <1>3 DEF ScanVideo, Sole, ScanFirst, WatchBase
  <2>1. CASE UNCHANGED rowVars /\ scan'.pc # "add"
    BY <1>0, <1>1, <2>0, <2>1 DEF Sole, OwnExecution, ScanFirst, OneCheck, OwnRow
  <2>2. ASSUME NEW c \in Checks, IsFirst(c, FreeChecks), ~ActiveCheck(v),
               row' = [row EXCEPT ![c] = "QUEUED"],
               rowVideo' = [rowVideo EXCEPT ![c] = v],
               scan' = [scan EXCEPT !.pc = "add", !.video = v, !.check = c]
        PROVE  Sole'
    <3>1. exec[c] = Absent /\ \A w \in Workers : wjob[w] # c
      BY <2>2 DEF IsFirst, FreeChecks
    <3>2. \A d \in Checks : row[d] # "none" => rowVideo[d] # v
      BY <2>2 DEF ActiveCheck, ActiveChecks
    <3>3. OwnExecution'
      BY <1>0, <2>0 DEF Sole, OwnExecution
    <3>4. ScanFirst'
      BY <1>0, <2>0, <2>2, <3>1 DEF ScanFirst, Scans
    <3>5. OneCheck'
      BY <2>0, <2>2, <3>2 DEF Sole, OneCheck
    <3>6. OwnRow'
      BY <1>0, <2>0, <2>2, <3>1 DEF Sole, OwnRow
    <3> QED BY <1>1, <3>3, <3>4, <3>5, <3>6 DEF Sole
  <2>3. Stamped(v) => scan'.pc # "add"
    BY DEF Stamped, NoScan
  <2>4. NoScan.pc # "add"
    BY DEF NoScan
  <2> QED BY <1>3, <2>1, <2>2, <2>3, <2>4 DEF ScanVideo
<1>4. CASE ScanAdd
  <2>1. /\ scan.pc = "add" /\ phase \in {"up", "draining"} /\ scan.check \in Checks
        /\ exec[scan.check] = Absent /\ exec' = [exec EXCEPT ![scan.check] = Pending]
        /\ exec \in [Checks -> Executions]
        /\ UNCHANGED <<row, rowVideo>>
    BY <1>4 DEF ScanAdd, Sole, ScanFirst, WatchBase, WorkLinked
  <2>2. scan'.pc # "add"
    BY <1>4, ScanFacts DEF ScanAdd, Stamped, WatchBase, Scans, NoScan
  <2>3. OwnExecution'
    BY <1>0, <2>1, ExecutionsDiffer DEF Sole, OwnExecution, WatchBase
  <2>4. ScanFirst' /\ OneCheck' /\ OwnRow'
    BY <1>0, <2>1, <2>2 DEF Sole, ScanFirst, OneCheck, OwnRow
  <2> QED BY <1>1, <2>3, <2>4 DEF Sole
<1> QED BY <1>2, <1>3, <1>4 DEF ScanStep

\* A boot re-adds what nobody executes; a crash leaves no worker at work.
LEMMA CycleKeeps ==
  ASSUME WatchBase, Sole,
         LifeStep \/ Drain \/ Crash \/ \E v \in Videos : IntervalPasses(v)
  PROVE  Sole'
<1>0. UNCHANGED <<streak, gone, dpc, rowVideo>>
  BY DEF LifeStep, Drained, Boot, BootRow, Booted, Drain, Crash, IntervalPasses
<1>1. CASE \/ Drained \/ Boot \/ Booted \/ Drain \/ \E v \in Videos : IntervalPasses(v)
  <2>1. /\ UNCHANGED <<row, exec, wpc, wjob, seen, verdict, scan>>
        /\ scan.pc # "idle" => phase' \in {"up", "draining"}
    BY <1>1 DEF Drained, Quiet, Boot, Booted, Drain, IntervalPasses, Sole, ScanFirst
  <2> QED BY <1>0, <2>1 DEF Sole, OwnExecution, ScanFirst, OneCheck, OwnRow, StreakCounted, NoDelete
<1>2. CASE Crash
  <2>1. wpc' = [w \in Workers |-> "idle"] /\ wjob' = [w \in Workers |-> None]
        /\ scan' = NoScan /\ UNCHANGED row
    BY <1>2 DEF Crash
  <2>2. NoScan.pc = "idle"
    BY DEF NoScan
  <2>3. OneCheck' /\ NoDelete'
    BY <1>0, <2>1 DEF Sole, OneCheck, NoDelete
  <2>4. OwnExecution' /\ ScanFirst' /\ OwnRow'
    BY <2>1, <2>2 DEF OwnExecution, ScanFirst, OwnRow
  <2>5. StreakCounted'
    BY <1>0, <2>1 DEF Sole, StreakCounted
  <2> QED BY <2>3, <2>4, <2>5 DEF Sole
<1>3. ASSUME NEW c \in Checks, BootRow(c)
      PROVE  Sole'
  <2>0. /\ phase = "boot" /\ scan.pc = "idle" /\ exec \in [Checks -> Executions]
        /\ row \in [Checks -> RowStatuses]
        /\ UNCHANGED <<wpc, wjob, seen, verdict, scan, phase>>
    BY <1>3 DEF BootRow, Sole, ScanFirst, WatchBase
  <2>1. CASE exec[c] # Absent \/ row[c] = "none"
    <3>1. UNCHANGED <<row, exec>>
      BY <1>3, <2>1 DEF BootRow
    <3> QED BY <1>0, <2>0, <3>1 DEF Sole, OwnExecution, ScanFirst, OneCheck, OwnRow, StreakCounted, NoDelete
  <2>2. CASE ~(exec[c] # Absent \/ row[c] = "none")
    <3>1. row' = [row EXCEPT ![c] = "QUEUED"] /\ exec' = [exec EXCEPT ![c] = Pending]
      BY <1>3, <2>2 DEF BootRow
    <3>2. \A w \in Workers : wjob[w] # None => wjob[w] # c
      BY <2>2, ExecutionsDiffer DEF Sole, OwnExecution
    <3>3. \A w \in Workers : wpc[w] # "idle" => wjob[w] \in Checks
      BY DEF WatchBase, WorkLinked
    <3>4. OwnExecution'
      BY <2>0, <3>1, <3>2 DEF Sole, OwnExecution
    <3>5. ScanFirst' /\ NoDelete' /\ StreakCounted'
      BY <1>0, <2>0 DEF Sole, ScanFirst, NoDelete, StreakCounted
    <3>6. OneCheck'
      BY <1>0, <2>0, <2>2, <3>1 DEF Sole, OneCheck
    <3>7. OwnRow'
      BY <1>0, <2>0, <3>1, <3>2, <3>3 DEF Sole, OwnRow
    <3> QED BY <3>4, <3>5, <3>6, <3>7 DEF Sole
  <2> QED BY <2>1, <2>2
<1> QED BY <1>1, <1>2, <1>3 DEF LifeStep

\* The rest of the archive: alerts, downloads, new listings; no delete is under way.
LEMMA RestKeeps ==
  ASSUME WatchBase, Sole,
         \/ \E e \in Emitters : AlertStep(e) \/ EmitFails(e)
         \/ \E e \in Failures : BotWall(e)
         \/ \E k \in Keys : AlertExpires(k)
         \/ \E q \in Deletes : DeleteStep(q) \/ ApiDies(q)
         \/ \E v \in Videos : Enqueue(v) \/ DownloadEnds(v) \/ Listed(v)
  PROVE  Sole'
<1>0. streak \in [Videos -> 0..Threshold] /\ gone \in [Videos -> 0..Threshold]
      /\ \A w \in Workers : wpc[w] = "record" => seen[w].video \in Videos
  BY DEF WatchBase, WorkLinked
<1>1. ASSUME NEW q \in Deletes, DeleteStep(q) \/ ApiDies(q)
      PROVE  FALSE
  BY <1>1 DEF DeleteStep, DeleteGuard, DeleteCommit, DeleteWipe, ApiDies, Sole, NoDelete
<1>2. /\ UNCHANGED <<row, rowVideo, exec, wpc, wjob, seen, verdict, scan, phase, gone, dpc>>
      /\ UNCHANGED streak \/ \E v \in Videos : streak' = [streak EXCEPT ![v] = 0]
  BY <1>1 DEF AlertStep, Look, Insert, EmitFails, BotWall, AlertExpires, Enqueue, DownloadEnds,
              Listed
<1>3. OwnExecution' /\ ScanFirst' /\ OneCheck' /\ OwnRow' /\ NoDelete'
  BY <1>2 DEF Sole, OwnExecution, ScanFirst, OneCheck, OwnRow, NoDelete
<1>4. StreakCounted'
  BY <1>0, <1>2 DEF Sole, StreakCounted
<1> QED BY <1>3, <1>4 DEF Sole

\* Nothing but a lost lock and a delete breaks the peace.
LEMMA SoleKept == UpkeepInv /\ (Undisturbed => Sole) /\ [Next]_vars => (Undisturbed => Sole)'
<1> SUFFICES ASSUME UpkeepInv, Undisturbed => Sole, [Next]_vars, Undisturbed'
             PROVE  Sole'
  OBVIOUS
<1>0. WatchBase
  BY BaseHolds
<1>1. CASE UNCHANGED vars
  BY <1>1 DEF vars, Undisturbed, Sole, OwnExecution, ScanFirst, OneCheck, OwnRow, StreakCounted,
              NoDelete
<1>2. CASE Next
  <2>0. Sole
    BY <1>0, <1>2, UndisturbedBefore
  <2>1. ASSUME NEW k \in {"lock", "delete"}, Event(k)
        PROVE  FALSE
    <3>1. "lock" \in EventKinds /\ "delete" \in EventKinds
          /\ "any" \notin EventKinds
      BY DEF EventKinds
    <3>2. events \in [EventKinds \cup {"any"} -> Nat]
          /\ events' = [events EXCEPT ![k] = events[k] + 1, !["any"] = events["any"] + Weight(k)]
      BY <1>0, <2>1 DEF WatchBase, Event
    <3> HIDE DEF Weight
    <3> QED BY <3>1, <3>2 DEF Undisturbed
  <2>2. ~ \E w \in Workers : LockLost(w)
    BY <2>1 DEF LockLost
  <2>3. ~ \E q \in Deletes, v \in Videos, m \in Modes : DeleteRead(q, v, m)
    BY <2>1 DEF DeleteRead
  <2> QED BY <1>0, <1>2, <2>0, <2>2, <2>3, WorkKeeps, TickKeeps, CycleKeeps, RestKeeps, Zenon DEF Next
<1> QED BY <1>1, <1>2

\* The verdict that takes a source into GONE has counted its probes.
LEMMA ConfirmedByProbes ==
  ASSUME WatchBase, Sole, [Next]_vars, NEW v \in Videos, src[v] # "GONE", src'[v] = "GONE"
  PROVE  gone[v] >= Threshold
<1>0. src \in [Videos -> SourceStates] /\ src' # src
      /\ \A w \in Workers : wpc[w] = "record" => seen[w].video \in Videos
  BY DEF WatchBase, WorkLinked
<1>1. PICK w \in Workers : Record(w)
  <2>1. ASSUME NEW w \in Workers, \/ \E c \in Checks : Activate(w, c)
                                  \/ Claim(w) \/ Read(w) \/ Probe(w) \/ ProbeUnanswered(w)
                                  \/ RaiseAlert(w) \/ Finish(w) \/ Throws(w) \/ LockLost(w)
        PROVE  FALSE
    BY <1>0, <2>1 DEF Activate, Claim, Read, Probe, ProbeUnanswered, RaiseAlert, Finish, Throws,
                      LockLost
  <2>2. ASSUME \/ \E e \in Emitters : AlertStep(e) \/ EmitFails(e)
               \/ \E e \in Failures : BotWall(e)
               \/ \E k \in Keys : AlertExpires(k)
               \/ ScanStep \/ ScanRejected
        PROVE  FALSE
    BY <1>0, <2>2 DEF AlertStep, Look, Insert, EmitFails, BotWall, AlertExpires, ScanStep,
                      ScanFind, ScanVideo, ScanAdd, ScanRejected
  <2>3. ASSUME LifeStep \/ Drain \/ Crash \/ \E x \in Videos : IntervalPasses(x)
        PROVE  FALSE
    BY <1>0, <2>3 DEF LifeStep, Drained, Boot, BootRow, Booted, Drain, Crash, IntervalPasses
  <2>4. ASSUME NEW q \in Deletes, \/ \E x \in Videos, m \in Modes : DeleteRead(q, x, m)
                                  \/ DeleteStep(q) \/ ApiDies(q)
        PROVE  FALSE
    BY <1>0, <2>4 DEF DeleteRead, DeleteStep, DeleteGuard, DeleteCommit, DeleteWipe, ApiDies
  <2>5. ASSUME NEW x \in Videos, Enqueue(x) \/ DownloadEnds(x)
        PROVE  FALSE
    BY <1>0, <2>5 DEF Enqueue, DownloadEnds
  <2>6. ASSUME NEW x \in Videos, Listed(x)
        PROVE  FALSE
    BY <1>0, <2>6 DEF Listed
  <2>7. Next
    BY <1>0 DEF vars
  <2> QED BY <2>1, <2>2, <2>3, <2>4, <2>5, <2>6, <2>7, Zenon DEF Next, CheckStep
<1>2. /\ Applied(w) /\ wpc[w] = "record" /\ v = seen[w].video
      /\ Decision(seen[w], verdict[w]).src = "GONE"
  BY <1>0, <1>1 DEF Record
<1>3. /\ seen[w].src # "GONE" /\ seen[w].streak = streak[v]
      /\ streak[v] \in 0..Threshold /\ gone[v] \in 0..Threshold
  BY <1>2 DEF Applied, WatchBase
<1>4. verdict[w] = "GONE" /\ streak[v] + 1 >= Threshold
  BY <1>2, <1>3 DEF Decision, Confirmed, WatchBase
<1>5. gone[v] >= Threshold \/ gone[v] > streak[v]
  BY <1>2, <1>4 DEF Sole, StreakCounted
<1> QED BY <1>3, <1>4, <1>5

\* Threshold probes in a row confirm a loss, while no worker outlives its lock and
\* nothing is deleted: no earlier verdict slips between a probe and its own.
THEOREM GoneConfirmedHolds == Spec => GoneConfirmed
<1>1. Init => Sole
  <2>1. Init => OwnExecution /\ ScanFirst
    BY DEF Init, OwnExecution, ScanFirst, NoScan
  <2>2. Init => OneCheck /\ OwnRow /\ StreakCounted /\ NoDelete
    BY DEF Init, OneCheck, OwnRow, StreakCounted, NoDelete
  <2> QED BY <2>1, <2>2 DEF Sole
<1>2. ASSUME UpkeepInv, Undisturbed => Sole, [Next]_vars
      PROVE  [\A v \in Videos :
                src[v] # "GONE" /\ src'[v] = "GONE" /\ Undisturbed => gone[v] >= Threshold]_vars
  BY <1>2, BaseHolds, ConfirmedByProbes
<1>3. Spec => [](Undisturbed => Sole)
  BY <1>1, Invariance, SoleKept, PTL DEF Spec
<1>4. UpkeepInv /\ (Undisturbed => Sole) /\ [Next]_vars =>
        [\A v \in Videos :
           src[v] # "GONE" /\ src'[v] = "GONE" /\ Undisturbed => gone[v] >= Threshold]_vars
  BY <1>2
<1> QED BY <1>3, <1>4, Invariance, PTL DEF Spec, GoneConfirmed
=============================================================================

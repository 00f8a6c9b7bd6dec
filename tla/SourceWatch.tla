----------------------------- MODULE SourceWatch -----------------------------
(***************************************************************************)
(* The watch over the originals: source-check-scan.scheduler.ts enqueues   *)
(* the due videos, source-check.processor.ts probes each and folds the     *)
(* answer in through the streak gate of core/domain/source-recheck.ts.     *)
(***************************************************************************)
EXTENDS Alerts

watchFrame == <<copy, download, media, alerts, holder, deleteVars>>

-----------------------------------------------------------------------------
\* reconcileSourceObservation

\* Mutant: the gate opens one probe early.
ConfirmedEarly(prior) == prior.streak + 2 >= Threshold
Confirmed(prior) == prior.streak + 1 >= Threshold

\* Mutant: the streak of a long-gone original grows on.
UncappedStreak(prior) == prior.streak + 1
CappedStreak(prior) == IF prior.streak < Threshold THEN prior.streak + 1 ELSE Threshold

Decision(prior, observed) ==
    CASE observed = "AVAILABLE" -> [src |-> "AVAILABLE", streak |-> 0]
      [] observed = "GONE" /\ Confirmed(prior) -> [src |-> "GONE", streak |-> CappedStreak(prior)]
      [] observed = "GONE" /\ ~Confirmed(prior) -> [src |-> prior.src, streak |-> prior.streak + 1]
      [] OTHER -> [src |-> prior.src, streak |-> prior.streak]

\* The edge into a confirmed loss, the only one that alerts.
LossEdge(prior, observed) == prior.src # "GONE" /\ Decision(prior, observed).src = "GONE"

LossKey(v, prior) ==
    [kind |-> IF prior.copy = "HEALTHY" THEN "rescued" ELSE "gone", video |-> v]

-----------------------------------------------------------------------------
\* The scan, one tick at a time

\* A tick takes the due videos that are held.
ScanFind ==
    /\ phase = "up" /\ scan.pc = "idle"
    /\ \E v \in Videos : due[v] /\ copy[v] \in Held
    /\ scan' = [scan EXCEPT !.pc = "find", !.todo = {v \in Videos : due[v] /\ copy[v] \in Held}]
    /\ UNCHANGED <<watchFrame, sourceVars, due, rowVars, execVars, workerVars, epc, ekey,
                   phase, bootTodo, historyVars, events>>

\* The tick is through with a video: its cadence is stamped either way.
Stamped(v) ==
    /\ due' = [due EXCEPT ![v] = FALSE]
    /\ scan' = [NoScan EXCEPT !.pc = IF scan.todo = {v} THEN "idle" ELSE "find",
                              !.todo = scan.todo \ {v}]

ActiveCheck(v) == ActiveChecks(v) # {}

\* A row never used again is forgotten.
FreeChecks == {c \in Checks : row[c] = "none" /\ exec[c] = Absent /\ \A w \in Workers : wjob[w] # c}

\* A video with an active row is skipped; another gets a row.
ScanVideo(v) ==
    /\ scan.pc = "find" /\ v \in scan.todo
    /\ \/ /\ ActiveCheck(v)
          /\ Stamped(v)
          /\ UNCHANGED rowVars
       \/ /\ ~ActiveCheck(v) /\ copy[v] # "PURGED"
          /\ \E c \in Checks :
               /\ IsFirst(c, FreeChecks)
               /\ row' = [row EXCEPT ![c] = "QUEUED"]
               /\ rowVideo' = [rowVideo EXCEPT ![c] = v]
               /\ scan' = [scan EXCEPT !.pc = "add", !.video = v, !.check = c]
          /\ UNCHANGED due
       \/ /\ copy[v] = "PURGED"     \* the insert throws, and with it the tick
          /\ scan' = NoScan
          /\ UNCHANGED <<due, rowVars>>
    /\ UNCHANGED <<watchFrame, sourceVars, execVars, workerVars, epc, ekey, phase, bootTodo,
                   historyVars, events>>

ScanAdd ==
    /\ scan.pc = "add"
    /\ exec' = [exec EXCEPT ![scan.check] = Pending]
    /\ tries' = [tries EXCEPT ![scan.check] = 0]
    /\ Stamped(scan.video)
    /\ UNCHANGED <<watchFrame, sourceVars, rowVars, workerVars, epc, ekey, phase, bootTodo,
                   historyVars, events>>

\* The add is refused: the tick dies, the row stays.
ScanRejected ==
    /\ scan.pc = "add"
    /\ Event("redis")
    /\ scan' = NoScan
    /\ UNCHANGED <<watchFrame, sourceVars, due, rowVars, execVars, workerVars, epc, ekey,
                   phase, bootTodo, historyVars>>

-----------------------------------------------------------------------------
\* process(): one execution of a check

checkFrame == <<watchFrame, lifeVars>>

\* An execution ends and leaves Redis; one whose lock was lost left before.
Ended(w) ==
    /\ exec' = [exec EXCEPT ![wjob[w]] = IF @ = ActiveAt(w) THEN Absent ELSE @]
    /\ wpc' = [wpc EXCEPT ![w] = "idle"]
    /\ wjob' = [wjob EXCEPT ![w] = None]
    /\ seen' = [seen EXCEPT ![w] = Unseen]
    /\ verdict' = [verdict EXCEPT ![w] = "UNSURE"]
    /\ UNCHANGED tries

\* markFinished: the first verdict of a RUNNING row settles it.
Settled(w) ==
    LET c == wjob[w]
    IN  IF row[c] = "RUNNING"
        THEN row' = [row EXCEPT ![c] = "none"] /\ rowVideo' = [rowVideo EXCEPT ![c] = NoVideo]
        ELSE UNCHANGED rowVars

\* The execution starts: it reads its row.
Activate(w, c) ==
    /\ phase = "up" /\ IsFirst(w, {s \in Workers : wpc[s] = "idle"})
    /\ exec[c] = Pending
    /\ exec' = [exec EXCEPT ![c] = ActiveAt(w)]
    /\ tries' = [tries EXCEPT ![c] = @ + 1]
    /\ wpc' = [wpc EXCEPT ![w] = "claim"]
    /\ wjob' = [wjob EXCEPT ![w] = c]
    /\ seen' = [seen EXCEPT ![w].video = rowVideo[c]]
    /\ UNCHANGED <<checkFrame, sourceVars, due, rowVars, verdict, epc, ekey, historyVars, events>>

\* claimForAttempt: a second activation also takes a row left RUNNING.
Claim(w) ==
    /\ wpc[w] = "claim"
    /\ LET c == wjob[w]
       IN  IF row[c] = "QUEUED" \/ (row[c] = "RUNNING" /\ tries[c] > 1)
           THEN /\ row' = [row EXCEPT ![c] = "RUNNING"]
                /\ wpc' = [wpc EXCEPT ![w] = "read"]
                /\ UNCHANGED <<execVars, wjob, seen, verdict>>
           ELSE Ended(w) /\ UNCHANGED row
    /\ UNCHANGED <<checkFrame, sourceVars, due, rowVideo, epc, ekey, historyVars, events>>

\* The video as it is before the probe; a missing one fails the check.
Read(w) ==
    /\ wpc[w] = "read"
    /\ LET v == seen[w].video
       IN  IF copy[v] = "PURGED"
           THEN Settled(w) /\ Ended(w)
           ELSE /\ seen' = [seen EXCEPT ![w] = [video |-> v, copy |-> copy[v],
                                               src |-> src[v], streak |-> streak[v]]]
                /\ wpc' = [wpc EXCEPT ![w] = "probe"]
                /\ UNCHANGED <<execVars, rowVars, wjob, verdict>>
    /\ UNCHANGED <<checkFrame, sourceVars, due, epc, ekey, historyVars, events>>

\* yt-dlp answers.
Probe(w) ==
    /\ wpc[w] = "probe" /\ phase = "up"
    /\ \E o \in Observations :
         /\ IF o = "GONE" THEN Event("gone") ELSE UNCHANGED events
         /\ verdict' = [verdict EXCEPT ![w] = o]
         /\ gone' = [gone EXCEPT ![seen[w].video] =
                       IF o = "GONE" /\ @ < Threshold THEN @ + 1 ELSE @]
    /\ wpc' = [wpc EXCEPT ![w] = "record"]
    /\ UNCHANGED <<checkFrame, sourceVars, due, rowVars, execVars, wjob, seen, epc, ekey,
                   owed, overdue>>

\* A check that is stopped degrades to CANCELED, one whose probe breaks down is
\* FAILED: both settle the row.
ProbeUnanswered(w) ==
    /\ wpc[w] = "probe"
    /\ \/ phase = "draining" /\ UNCHANGED events
       \/ Event("db")
    /\ Settled(w) /\ Ended(w)
    /\ UNCHANGED <<checkFrame, sourceVars, due, epc, ekey, historyVars>>

\* recordSourceObservation writes only what was decided on the state it finds.
Applied(w) ==
    LET v == seen[w].video
    IN  copy[v] # "PURGED" /\ src[v] = seen[w].src /\ streak[v] = seen[w].streak

\* Mutant: the edge alerts although another writer took it.
AlertingUnapplied(w) == LossEdge(seen[w], verdict[w])
\* Only a write that was applied alerts.
Alerting(w) == Applied(w) /\ LossEdge(seen[w], verdict[w])

\* The write and its verdict are one transaction.
Record(w) ==
    /\ wpc[w] = "record"
    /\ LET v == seen[w].video
           d == Decision(seen[w], verdict[w])
       IN  IF Applied(w)
           THEN /\ src' = [src EXCEPT ![v] = d.src]
                /\ streak' = [streak EXCEPT ![v] = d.streak]
                /\ due' = [due EXCEPT ![v] = FALSE]
                /\ overdue' = [overdue EXCEPT ![v] = FALSE]
                /\ gone' = [gone EXCEPT ![v] = IF verdict[w] = "AVAILABLE" THEN 0 ELSE @]
                /\ owed' = [owed EXCEPT ![v] = IF src[v] # "GONE" /\ d.src = "GONE" THEN @ + 1 ELSE @]
           ELSE UNCHANGED <<sourceVars, due, historyVars>>
    /\ wpc' = [wpc EXCEPT ![w] = IF Alerting(w) THEN "alert" ELSE "finish"]
    /\ UNCHANGED <<checkFrame, rowVars, execVars, wjob, seen, verdict, epc, ekey, events>>

\* emit is awaited before the row is settled.
RaiseAlert(w) ==
    /\ wpc[w] = "alert"
    /\ Emit(w, LossKey(seen[w].video, seen[w]))
    /\ owed' = [owed EXCEPT ![seen[w].video] = @ - 1]
    /\ wpc' = [wpc EXCEPT ![w] = "finish"]
    /\ UNCHANGED <<checkFrame, sourceVars, due, rowVars, execVars, wjob, seen, verdict,
                   gone, overdue, events>>

\* The row is COMPLETED, or the write fails and is swallowed.
Finish(w) ==
    /\ wpc[w] = "finish" /\ epc[w] = "idle"
    /\ \/ Settled(w) /\ UNCHANGED events
       \/ Event("db") /\ UNCHANGED rowVars
    /\ Ended(w)
    /\ UNCHANGED <<checkFrame, sourceVars, due, epc, ekey, historyVars>>

\* Any other statement that throws, the read of the cookies after the video
\* included, ends the execution and leaves its row: attempts is 1.
Throws(w) ==
    /\ wpc[w] \in {"claim", "read", "record"}
    /\ Event("db")
    /\ Ended(w)
    /\ UNCHANGED <<checkFrame, sourceVars, due, rowVars, epc, ekey, historyVars>>

\* A lock expires: the first time the execution is queued again, the second
\* time BullMQ fails it.  The worker that held it goes on.
LockLost(w) ==
    /\ wjob[w] # None /\ exec[wjob[w]] = ActiveAt(w)
    /\ Event("lock")
    /\ exec' = [exec EXCEPT ![wjob[w]] = IF tries[wjob[w]] > 1 THEN Absent ELSE Pending]
    /\ UNCHANGED <<checkFrame, sourceVars, due, rowVars, tries, workerVars, epc, ekey, historyVars>>
=============================================================================

------------------------------ MODULE Catalogue ------------------------------
(***************************************************************************)
(* The upkeep of the archive: the watch over the originals, the alerts and *)
(* the owner's deletes, on a worker that is stopped, dies and boots.       *)
(***************************************************************************)
EXTENDS Removal

lifeFrame == <<videoVars, rowVars, deleteVars, historyVars>>

-----------------------------------------------------------------------------
\* The worker's life

Quiet == /\ \A w \in Workers : wpc[w] = "idle"
         /\ \A e \in Emitters : epc[e] = "idle"
         /\ scan.pc = "idle"

\* It is asked to stop: what runs is finished, the probes are aborted.
Drain ==
    /\ phase = "up"
    /\ Event("drain")
    /\ phase' = "draining"
    /\ UNCHANGED <<lifeFrame, execVars, workerVars, alertVars, bootTodo, scan>>

Drained ==
    /\ phase = "draining" /\ Quiet
    /\ phase' = "down"
    /\ UNCHANGED <<lifeFrame, execVars, workerVars, alertVars, bootTodo, scan, events>>

\* It dies: transactions roll back, its executions will be found stalled.
Crash ==
    /\ phase \in {"up", "draining"}
    /\ Event("crash")
    /\ phase' = "down"
    /\ exec' = [c \in Checks |-> IF exec[c].at # "active" THEN exec[c]
                                 ELSE IF tries[c] > 1 THEN Absent ELSE Pending]
    /\ wpc' = [w \in Workers |-> "idle"] /\ wjob' = [w \in Workers |-> None]
    /\ seen' = [w \in Workers |-> Unseen] /\ verdict' = [w \in Workers |-> "UNSURE"]
    /\ epc' = [e \in Emitters |-> "idle"] /\ ekey' = [e \in Emitters |-> NoKey]
    /\ holder' = [k \in Keys |-> None]
    /\ scan' = NoScan
    /\ UNCHANGED <<lifeFrame, tries, alerts, bootTodo>>

\* Mutant: a row that was never added is not listed.
RecoverableRunning(c) == row[c] = "RUNNING"
Recoverable(c) == row[c] # "none"

\* The reconciler lists the active rows before anything is consumed.
Boot ==
    /\ phase = "down"
    /\ phase' = "boot"
    /\ bootTodo' = {c \in Checks : Recoverable(c)}
    /\ UNCHANGED <<lifeFrame, execVars, workerVars, alertVars, scan, events>>

\* A row whose execution is dead is QUEUED again and re-added.
BootRow(c) ==
    /\ phase = "boot" /\ c \in bootTodo
    /\ bootTodo' = bootTodo \ {c}
    /\ IF exec[c] # Absent \/ row[c] = "none"
       THEN UNCHANGED <<row, execVars>>
       ELSE /\ row' = [row EXCEPT ![c] = "QUEUED"]
            /\ exec' = [exec EXCEPT ![c] = Pending]
            /\ tries' = [tries EXCEPT ![c] = 0]
    /\ UNCHANGED <<videoVars, rowVideo, deleteVars, historyVars, workerVars, alertVars,
                   phase, scan, events>>

Booted ==
    /\ phase = "boot" /\ bootTodo = {}
    /\ phase' = "up"
    /\ UNCHANGED <<lifeFrame, execVars, workerVars, alertVars, bootTodo, scan, events>>

\* The interval passes: the original is to be looked at again.
IntervalPasses(v) ==
    /\ ~due[v] /\ copy[v] # "PURGED"
    /\ IF ActiveChecks(v) # {} THEN Event("late") ELSE UNCHANGED events
    /\ due' = [due EXCEPT ![v] = TRUE]
    /\ overdue' = [overdue EXCEPT ![v] = TRUE]
    /\ UNCHANGED <<copy, src, streak, download, media, rowVars, deleteVars, gone, owed,
                   execVars, workerVars, alertVars, lifeVars>>

-----------------------------------------------------------------------------
Init ==
    /\ copy \in [Videos -> Held] /\ media = [v \in Videos |-> TRUE]
    /\ src = [v \in Videos |-> "UNKNOWN"] /\ streak = [v \in Videos |-> 0]
    /\ due = [v \in Videos |-> TRUE] /\ download = [v \in Videos |-> FALSE]
    /\ row = [c \in Checks |-> "none"] /\ rowVideo = [c \in Checks |-> NoVideo]
    /\ exec = [c \in Checks |-> Absent] /\ tries = [c \in Checks |-> 0]
    /\ alerts = [k \in Keys |-> 0] /\ holder = [k \in Keys |-> None]
    /\ epc = [e \in Emitters |-> "idle"] /\ ekey = [e \in Emitters |-> NoKey]
    /\ wpc = [w \in Workers |-> "idle"] /\ wjob = [w \in Workers |-> None]
    /\ seen = [w \in Workers |-> Unseen] /\ verdict = [w \in Workers |-> "UNSURE"]
    /\ dpc = [q \in Deletes |-> "idle"] /\ ddel = [q \in Deletes |-> NoOrder]
    /\ phase = "up" /\ bootTodo = {} /\ scan = NoScan
    /\ gone = [v \in Videos |-> 0] /\ owed = [v \in Videos |-> 0]
    /\ overdue = [v \in Videos |-> TRUE]
    /\ events = [k \in EventKinds \cup {"any"} |-> 0]

CheckStep(w) ==
    \/ \E c \in Checks : Activate(w, c)
    \/ Claim(w)
    \/ Read(w)
    \/ Probe(w)
    \/ ProbeUnanswered(w)
    \/ Record(w)
    \/ RaiseAlert(w)
    \/ Finish(w)

AlertStep(e) ==
    \/ Look(e)
    \/ Insert(e)

ScanStep ==
    \/ ScanFind
    \/ \E v \in Videos : ScanVideo(v)
    \/ ScanAdd

LifeStep ==
    \/ Drained
    \/ Boot
    \/ \E c \in Checks : BootRow(c)
    \/ Booted

DeleteStep(q) ==
    \/ DeleteGuard(q)
    \/ DeleteCommit(q)
    \/ DeleteWipe(q)

Next ==
    \/ \E w \in Workers : CheckStep(w)
    \/ \E w \in Workers : Throws(w)
    \/ \E w \in Workers : LockLost(w)
    \/ \E e \in Emitters : AlertStep(e)
    \/ \E e \in Emitters : EmitFails(e)
    \/ \E e \in Failures : BotWall(e)
    \/ \E k \in Keys : AlertExpires(k)
    \/ ScanStep
    \/ ScanRejected
    \/ LifeStep
    \/ Drain
    \/ Crash
    \/ \E v \in Videos : IntervalPasses(v)
    \/ \E q \in Deletes, v \in Videos, m \in Modes : DeleteRead(q, v, m)
    \/ \E q \in Deletes : DeleteStep(q)
    \/ \E q \in Deletes : ApiDies(q)
    \/ \E v \in Videos : Enqueue(v)
    \/ \E v \in Videos : DownloadEnds(v)
    \/ \E v \in Videos : Listed(v)

\* The worker keeps serving its queues, ticks keep coming, time passes, a worker
\* that is down is started again (restart policy); nothing obliges the owner or a fault.
Spec == Init /\ [][Next]_vars

FairSpec ==
    /\ Spec
    /\ \A w \in Workers : WF_vars(CheckStep(w))
    /\ \A e \in Emitters : WF_vars(AlertStep(e))
    /\ WF_vars(ScanStep)
    /\ WF_vars(LifeStep)
    /\ \A v \in Videos : WF_vars(IntervalPasses(v))

-----------------------------------------------------------------------------
\* One flaky probe never declares an original gone: the verdict takes Threshold
\* gone probes since the original was last recorded available.  (A worker that
\* outlives its lock, or the row a purge deletes under it, may bring an old
\* answer to a streak that grew anew.)
Undisturbed == events["lock"] = 0 /\ events["delete"] = 0
GoneConfirmed ==
    [][\A v \in Videos :
         src[v] # "GONE" /\ src'[v] = "GONE" /\ Undisturbed => gone[v] >= Threshold]_vars

\* A confirmed loss raises one alert at most, whoever observes it how often.
OneAlertPerLoss == \A v \in Videos : owed[v] >= 0

\* Of one key the owner sees one undismissed alert in the window, however many
\* downloads and checks fail at once.
AlertsDeduped == \A k \in Keys : alerts[k] <= 1

\* What the archive says it holds is on disk: a delete whose row moved wipes
\* nothing.  An enqueue between the commit of a delete and its wipe loses its
\* files.
HeldHasMedia == events["overtake"] = 0 => \A v \in Videos : copy[v] \in Held => media[v]

\* The owner's reclaim never takes a video back from a download at work on it.
ReclaimSparesDownload ==
    [][\A v \in Videos : download[v] /\ copy'[v] = "CANDIDATE" => ~download'[v]]_vars

\* A row that an error left active without an execution.
Stranded(v) ==
    /\ events["db"] + events["redis"] + events["lock"] > 0
    /\ \E c \in ActiveChecks(v) : exec[c] = Absent

\* A held video whose interval has passed is looked at again, after any drain
\* or crash; only a row stranded by an error keeps it waiting, for a boot.
CheckedAgain ==
    \A v \in Videos : []<>(~overdue[v] \/ copy[v] \notin Held \/ Stranded(v))
=============================================================================

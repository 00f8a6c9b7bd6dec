--------------------------- MODULE CatalogueState ----------------------------
(***************************************************************************)
(* What the upkeep of the archive shares: the re-check of the originals on *)
(* YouTube, the alerts, and the owner's deletes.  Downloads appear only by *)
(* what they leave behind.                                                 *)
(*                                                                         *)
(*   Postgres   copy, src, streak, due    the Video row: what is held, what*)
(*                                        is known of the original, when it*)
(*                                        is looked at again               *)
(*              download                  an active DOWNLOAD row           *)
(*              row, rowVideo             SOURCE_CHECK rows                *)
(*              alerts, holder            undismissed alerts of the window,*)
(*                                        holders of the advisory locks    *)
(*   Redis      exec, tries               BullMQ executions, activations   *)
(*   disk       media                     the directory of the video       *)
(*   worker     phase, bootTodo, scan     lifecycle, boot sweep, scan tick *)
(*              wpc, wjob, seen, verdict  executions of source checks      *)
(*              epc, ekey                 emitters of alerts               *)
(*   api        dpc, ddel                 deletes                          *)
(*   history    gone, owed, overdue       gone probes since the original   *)
(*                                        was recorded available; losses   *)
(*                                        confirmed less alerts raised; a  *)
(*                                        check due and not answered       *)
(***************************************************************************)
EXTENDS Integers, FiniteSets

CONSTANTS
    Videos,
    Checks,             \* SOURCE_CHECK rows active at once
    Workers,            \* slots of the consumer (sourceCheckConcurrency)
    Failures,           \* downloads that fail on the bot wall at once
    Deletes,            \* deletes the api serves at once
    Threshold,          \* gone probes that confirm a loss
    MaxEvents,          \* MaxEvents[k]: bound on the events of kind k
    MaxTrouble,         \* bound on the events together, by weight
    NoVideo

None == 0

\* Counted and bounded, the faults
\*   crash    the worker dies          drain   it is asked to stop
\*   lock     BullMQ expires a live lock
\*   db       a statement throws       redis   an add is refused
\*   api      the api dies             fs      a wipe fails
\* and the world
\*   gone     a probe says gone        wall    a download meets the bot wall
\*   expire   an alert is dismissed, or the window moves past it
\*   download one ends                 delete  the owner deletes
\*   overtake a download is enqueued while a delete of its video goes on
\*   late     a check is under way for a whole interval
EventKinds == {"crash", "drain", "lock", "db", "redis", "api", "fs",
               "gone", "wall", "expire", "download", "delete", "overtake", "late"}

ASSUME SetsAssumption ==
    /\ NoVideo \notin Videos
    /\ Checks \cup Workers \cup Failures \subseteq Nat \ {None}
    /\ Workers \cap Failures = {}
    /\ IsFiniteSet(Workers)
ASSUME BoundsAssumption ==
    Threshold \in Nat \ {0} /\ MaxEvents \in [EventKinds -> Nat] /\ MaxTrouble \in Nat

VARIABLES
    copy, src, streak, due, download, row, rowVideo, alerts, holder,
    exec, tries, media, phase, bootTodo, scan, wpc, wjob, seen, verdict, epc, ekey,
    dpc, ddel, gone, owed, overdue, events

videoVars == <<copy, src, streak, due, download, media>>
sourceVars == <<src, streak>>
rowVars == <<row, rowVideo>>
execVars == <<exec, tries>>
workerVars == <<wpc, wjob, seen, verdict>>
alertVars == <<alerts, holder, epc, ekey>>
deleteVars == <<dpc, ddel>>
lifeVars == <<phase, bootTodo, scan>>
historyVars == <<gone, owed, overdue>>
vars == <<videoVars, rowVars, execVars, workerVars, alertVars, deleteVars, lifeVars,
          historyVars, events>>

CopyStates == {"CANDIDATE", "QUEUED", "HEALTHY", "PARTIAL_KEPT", "PURGED"}
Held == {"HEALTHY", "PARTIAL_KEPT"}
SourceStates == {"UNKNOWN", "AVAILABLE", "GONE"}
Observations == {"AVAILABLE", "GONE", "UNSURE"}
RowStatuses == {"none", "QUEUED", "RUNNING"}
\* An execution in Redis, and the worker that holds its lock.
Executions == [at : {"absent", "waiting", "active"}, lock : Workers \cup {None}]
Absent == [at |-> "absent", lock |-> None]
Pending == [at |-> "waiting", lock |-> None]
ActiveAt(w) == [at |-> "active", lock |-> w]
Modes == {"reclaim", "purge"}
Emitters == Workers \cup Failures
\* Dedupe keys: an alert is about a video, the bot wall is one episode.
Keys == [kind : {"rescued", "gone"}, video : Videos] \cup {[kind |-> "wall", video |-> NoVideo]}
WallKey == [kind |-> "wall", video |-> NoVideo]
NoKey == [kind |-> "none", video |-> NoVideo]
Looks == [video : Videos \cup {NoVideo}, copy : CopyStates, src : SourceStates,
          streak : 0..Threshold]
Unseen == [video |-> NoVideo, copy |-> "PURGED", src |-> "UNKNOWN", streak |-> 0]
Scans == [pc : {"idle", "find", "add"}, todo : SUBSET Videos, video : Videos \cup {NoVideo},
          check : Checks \cup {None}]
NoScan == [pc |-> "idle", todo |-> {}, video |-> NoVideo, check |-> None]
Orders == [video : Videos \cup {NoVideo}, mode : Modes, copy : CopyStates]
NoOrder == [video |-> NoVideo, mode |-> "purge", copy |-> "PURGED"]

TypeOK ==
    /\ copy \in [Videos -> CopyStates] /\ src \in [Videos -> SourceStates]
    /\ streak \in [Videos -> 0..Threshold]
    /\ due \in [Videos -> BOOLEAN] /\ download \in [Videos -> BOOLEAN]
    /\ media \in [Videos -> BOOLEAN]
    /\ row \in [Checks -> RowStatuses] /\ rowVideo \in [Checks -> Videos \cup {NoVideo}]
    /\ exec \in [Checks -> Executions] /\ tries \in [Checks -> 0..2]
    /\ wpc \in [Workers -> {"idle", "claim", "read", "probe", "record", "alert", "finish"}]
    /\ wjob \in [Workers -> Checks \cup {None}]
    /\ seen \in [Workers -> Looks] /\ verdict \in [Workers -> Observations]
    /\ alerts \in [Keys -> Nat] /\ holder \in [Keys -> Emitters \cup {None}]
    /\ epc \in [Emitters -> {"idle", "look", "insert"}]
    /\ ekey \in [Emitters -> Keys \cup {NoKey}]
    /\ dpc \in [Deletes -> {"idle", "guard", "commit", "wipe"}] /\ ddel \in [Deletes -> Orders]
    /\ phase \in {"up", "draining", "down", "boot"} /\ bootTodo \in SUBSET Checks /\ scan \in Scans
    /\ gone \in [Videos -> 0..Threshold] /\ owed \in [Videos -> Int]
    /\ overdue \in [Videos -> BOOLEAN]
    /\ events \in [EventKinds \cup {"any"} -> Nat]

\* What an event weighs in MaxTrouble: two executions of a check are as many
\* interleavings as two other events.
Weight(k) == CASE k = "gone" -> 0 [] k = "lock" -> 2 [] OTHER -> 1

Event(k) ==
    /\ events[k] < MaxEvents[k] /\ events["any"] + Weight(k) <= MaxTrouble
    /\ events' = [events EXCEPT ![k] = @ + 1, !["any"] = @ + Weight(k)]

\* Equal slots are taken in order, which spares their permutations.
IsFirst(i, ids) == i \in ids /\ \A j \in ids : i <= j

ActiveChecks(v) == {c \in Checks : row[c] # "none" /\ rowVideo[c] = v}
=============================================================================

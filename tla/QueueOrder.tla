----------------------------- MODULE QueueOrder ------------------------------
(***************************************************************************)
(* The order of the download queue: api/queue/queue.service.ts allocates   *)
(* priorities under one advisory lock, and mirrors them to BullMQ after    *)
(* the commit.  Every statement that reads or writes a priority is a step; *)
(* the other moves of a row (ArchivePipeline has them statement by         *)
(* statement) are one step each.                                           *)
(*                                                                         *)
(*   Postgres   status, prio      DOWNLOAD rows, the order the owner sees  *)
(*   Redis      exec, execPrio    BullMQ executions, the order they run in *)
(*   api        pc, todo, carried   a request: its step, the rows it has   *)
(*                                yet to bring to BullMQ, the priority it  *)
(*                                holds for each                           *)
(***************************************************************************)
EXTENDS PriorityGrid, FiniteSets

CONSTANTS
    Rows,               \* ids DOWNLOAD rows may get, in order of creation
    Adders, Movers,     \* enqueues and resumes, and moves, the api serves at once
    Boot,               \* the boot reconciler of the worker
    ChunkSize,          \* rows of one enqueue chunk
    MaxEvents,          \* MaxEvents[k]: bound on the events of kind k
    MaxTotal            \* bound on the events of all kinds together

\* Counted and bounded:
\*   move     the owner moves a row, nobody holding a priority it has read
\*   overlap  a move commits while another actor holds a priority it has read
\*   redis    a command to BullMQ is refused
\*   api      the api dies within a request
\*   boot     the worker is stopped or dies, and boots
EventKinds == {"move", "overlap", "redis", "api", "boot"}

ASSUME RowsAssumption == Rows \subseteq Nat /\ IsFiniteSet(Rows)
ASSUME RequestsAssumption == Boot \notin Adders \cup Movers
ASSUME QueueBoundsAssumption ==
    ChunkSize \in Nat \ {0} /\ MaxTotal \in Nat /\ MaxEvents \in [EventKinds -> Nat]

VARIABLES status, prio, exec, execPrio, pc, todo, carried, events

vars == <<status, prio, exec, execPrio, pc, todo, carried, events>>
rowVars == <<status, prio>>
execVars == <<exec, execPrio>>
requestVars == <<pc, todo, carried>>

Requests == Adders \cup Movers
Actors == Requests \cup {Boot}
Waiting == {"QUEUED", "PAUSED"}
ActiveStatuses == Waiting \cup {"RUNNING"}
ExecStates == {"absent", "waiting", "running"}
Steps == {"idle", "read", "add", "reread", "readd", "mirror", "boot"}

TypeOK ==
    /\ status \in [Rows -> {"ABSENT", "DONE"} \cup ActiveStatuses]
    /\ prio \in [Rows -> Priorities \cup {Exhausted}]
    /\ exec \in [Rows -> ExecStates]
    /\ execPrio \in [Rows -> Priorities \cup {Exhausted}]
    /\ pc \in [Actors -> Steps]
    /\ todo \in [Actors -> SUBSET Rows]
    /\ carried \in [Actors -> [Rows -> Priorities \cup {Exhausted}]]
    /\ events \in [EventKinds \cup {"any"} -> Nat]

-----------------------------------------------------------------------------
\* The queue and its places

Active == {r \in Rows : status[r] \in ActiveStatuses}

\* The first and the last priority among rows.
First(p, rows) == CHOOSE x \in {p[r] : r \in rows} : \A r \in rows : x <= p[r]
Last(p, rows) == CHOOSE x \in {p[r] : r \in rows} : \A r \in rows : p[r] <= x

Tail(p, rows) == IF rows = {} THEN PriorityStart ELSE TailPriority(Last(p, rows))
Head(p, rows) == IF rows = {} THEN PriorityStart ELSE HeadPriority(First(p, rows))

\* Where the owner may move a row: the front, the end, behind a waiting row.
Top == [to |-> "top", anchor |-> 0]
Bottom == [to |-> "bottom", anchor |-> 0]
After(a) == [to |-> "after", anchor |-> a]
Places(r) == {Top, Bottom}
             \cup {After(a) : a \in {s \in Rows \ {r} : status[s] \in Waiting}}

\* computeSlot: the priority of a place among the other active rows.
Slot(p, r, place) ==
    LET others == Active \ {r}
        later == {s \in others : p[s] > p[place.anchor]}
    IN  CASE place.to = "top" -> Head(p, others)
          [] place.to = "bottom" -> Tail(p, others)
          [] place.to = "after" ->
                IF later = {} THEN TailPriority(p[place.anchor])
                ELSE MidpointPriority(p[place.anchor], First(p, later))

\* Mutant: only the waiting rows are counted.
EarlierWaiting(r) == {s \in Active : prio[s] < prio[r] /\ status[s] \in Waiting}
Earlier(r) == {s \in Active : prio[s] < prio[r]}
\* renumberAll: all active rows onto the grid, in their order.  Their priorities
\* differ, so the tie-break by id never decides.
Renumbered ==
    [r \in Rows |-> IF r \in Active THEN RenumberedPriority(Cardinality(Earlier(r)))
                    ELSE prio[r]]

-----------------------------------------------------------------------------
\* Who is between reading a priority and using it

Holds(q) == pc[q] \in {"add", "readd", "mirror", "boot"}

Event(k) ==
    /\ events["any"] < MaxTotal /\ events[k] < MaxEvents[k]
    /\ events' = [events EXCEPT ![k] = @ + 1, !["any"] = @ + 1]

Goto(q, step) == pc' = [pc EXCEPT ![q] = step]

Carry(q, r, p) == carried' = [carried EXCEPT ![q] = [@ EXCEPT ![r] = p]]

\* A row at a time; then the request is answered.
NextRow(q, r, step) ==
    /\ todo' = [todo EXCEPT ![q] = @ \ {r}]
    /\ Carry(q, r, Exhausted)
    /\ Goto(q, IF todo[q] = {r} THEN "idle" ELSE step)

\* queue.add, deduplicated by the id of the row.
AddExecution(r, p) ==
    IF exec[r] = "absent"
    THEN /\ exec' = [exec EXCEPT ![r] = "waiting"]
         /\ execPrio' = [execPrio EXCEPT ![r] = p]
    ELSE UNCHANGED execVars

\* The priority of a settled row is never read again, and forgotten here.
Becomes(r, to) ==
    /\ status' = [status EXCEPT ![r] = to]
    /\ prio' = [prio EXCEPT ![r] = IF to = "DONE" THEN Exhausted ELSE @]

Gone(r) ==
    /\ exec' = [exec EXCEPT ![r] = "absent"]
    /\ execPrio' = [execPrio EXCEPT ![r] = Exhausted]

-----------------------------------------------------------------------------
\* enqueue

\* Mutant: the maximum read under the lock is not extended by the rows added.
NextInChunkStuck(chunk, r) == 0
NextInChunk(chunk, r) == Cardinality({s \in chunk : s < r})
\* enqueueChunk: new rows at the end of the queue, all of them or, when the end
\* does not fit, none (503).
EnqueueChunk(q) ==
    /\ pc[q] = "idle"
    /\ \E chunk \in SUBSET {r \in Rows : status[r] = "ABSENT"} :
          LET tail == Tail(prio, Active)
              end == tail + (Cardinality(chunk) - 1) * PriorityGap
          IN  /\ Cardinality(chunk) \in 1..ChunkSize
              /\ \A r \in chunk, s \in Rows : s < r => s \in chunk \/ status[s] # "ABSENT"
              /\ tail # Exhausted /\ end <= BullmqPriorityMax
              /\ status' = [r \in Rows |-> IF r \in chunk THEN "QUEUED" ELSE status[r]]
              /\ prio' = [r \in Rows |-> IF r \in chunk
                                         THEN tail + NextInChunk(chunk, r) * PriorityGap
                                         ELSE prio[r]]
              /\ todo' = [todo EXCEPT ![q] = chunk]
    /\ Goto(q, "read")
    /\ UNCHANGED <<execVars, carried, events>>

\* addExecution reads the priority of the next row again, and adds.
AddRead(q, r) ==
    /\ pc[q] = "read" /\ r \in todo[q] /\ \A s \in todo[q] : r <= s
    /\ Carry(q, r, prio[r])
    /\ Goto(q, "add")
    /\ UNCHANGED <<rowVars, execVars, todo, events>>
Add(q, r) ==
    /\ pc[q] = "add" /\ r \in todo[q] /\ \A s \in todo[q] : r <= s
    /\ AddExecution(r, carried[q][r])
    /\ NextRow(q, r, "read")
    /\ UNCHANGED <<rowVars, events>>
\* A refused add is compensated: the row is failed if it is still queued.
AddRejected(q, r) ==
    /\ pc[q] = "add" /\ r \in todo[q] /\ \A s \in todo[q] : r <= s
    /\ Event("redis")
    /\ IF status[r] = "QUEUED" THEN Becomes(r, "DONE") ELSE UNCHANGED rowVars
    /\ NextRow(q, r, "read")
    /\ UNCHANGED <<execVars>>

-----------------------------------------------------------------------------
\* pause, cancel, resume

\* The execution is removed first.
Withdraw(r, to) ==
    /\ Becomes(r, to)
    /\ IF exec[r] = "absent" THEN UNCHANGED execVars ELSE Gone(r)
    /\ UNCHANGED <<requestVars, events>>
Pause(r) == status[r] = "QUEUED" /\ Withdraw(r, "PAUSED")
Cancel(r) == status[r] \in Waiting /\ Withdraw(r, "DONE")

\* Once the old execution is gone: PAUSED to QUEUED, then the priority is read.
Resume(q, r) ==
    /\ pc[q] = "idle"
    /\ status[r] = "PAUSED" /\ exec[r] = "absent"
    /\ status' = [status EXCEPT ![r] = "QUEUED"]
    /\ todo' = [todo EXCEPT ![q] = {r}]
    /\ Goto(q, "reread")
    /\ UNCHANGED <<prio, execVars, carried, events>>
ResumeRead(q, r) ==
    /\ pc[q] = "reread" /\ r \in todo[q]
    /\ Carry(q, r, prio[r])
    /\ Goto(q, "readd")
    /\ UNCHANGED <<rowVars, execVars, todo, events>>
ResumeAdd(q, r) ==
    /\ pc[q] = "readd" /\ r \in todo[q]
    /\ AddExecution(r, carried[q][r])
    /\ NextRow(q, r, "idle")
    /\ UNCHANGED <<rowVars, events>>
ResumeRejected(q, r) ==
    /\ pc[q] = "readd" /\ r \in todo[q]
    /\ Event("redis")
    /\ status' = [status EXCEPT ![r] = IF @ = "QUEUED" THEN "PAUSED" ELSE @]
    /\ NextRow(q, r, "idle")
    /\ UNCHANGED <<prio, execVars>>

-----------------------------------------------------------------------------
\* move

\* Mutant: an execution that runs is not told.
ToldWaiting(r, changed) ==
    {s \in changed \ {r} : status[s] = "QUEUED"} \cup (IF status[r] = "QUEUED" THEN {r} ELSE {})
\* Whose executions hear of the move: the renumbered rows, and the moved row
\* when it is queued.
Told(r, changed) == (changed \ {r}) \cup (IF status[r] = "QUEUED" THEN {r} ELSE {})

\* The transaction has committed p.
Committed(q, r, p, changed) ==
    /\ prio' = p
    /\ LET tell == Told(r, changed) IN
       /\ todo' = [todo EXCEPT ![q] = tell]
       /\ carried' = [carried EXCEPT ![q] =
                         [s \in Rows |-> IF s \in tell THEN p[s] ELSE Exhausted]]
       /\ Goto(q, IF tell = {} THEN "idle" ELSE "mirror")
    /\ Event(IF \E a \in Actors : Holds(a) THEN "overlap" ELSE "move")
    /\ UNCHANGED <<status, execVars>>

Movable(q, r) == pc[q] = "idle" /\ status[r] \in Waiting

MoveDirect(q, r, place) ==
    /\ Movable(q, r)
    /\ Slot(prio, r, place) # Exhausted
    /\ Committed(q, r, [prio EXCEPT ![r] = Slot(prio, r, place)], {})
\* No slot: renumber in the same transaction, and look again.
MoveRenumbered(q, r, place) ==
    /\ Movable(q, r)
    /\ Slot(prio, r, place) = Exhausted
    /\ GridFits(Cardinality(Active))
    /\ Slot(Renumbered, r, place) # Exhausted
    /\ Committed(q, r, [Renumbered EXCEPT ![r] = Slot(Renumbered, r, place)], Active)
Move(q, r, place) == MoveDirect(q, r, place) \/ MoveRenumbered(q, r, place)

\* changePriorityQuietly: a missing execution or a refusal is skipped.
Mirror(q, r) ==
    /\ pc[q] = "mirror" /\ r \in todo[q]
    /\ execPrio' = [execPrio EXCEPT ![r] = IF exec[r] = "absent" THEN @ ELSE carried[q][r]]
    /\ NextRow(q, r, "mirror")
    /\ UNCHANGED <<rowVars, exec, events>>
MirrorSkipped(q, r) ==
    /\ pc[q] = "mirror" /\ r \in todo[q]
    /\ Event("redis")
    /\ NextRow(q, r, "mirror")
    /\ UNCHANGED <<rowVars, execVars>>

\* The api dies: its requests are never finished.
ApiDies ==
    /\ Event("api")
    /\ pc' = [q \in Actors |-> IF q = Boot THEN pc[q] ELSE "idle"]
    /\ todo' = [q \in Actors |-> IF q = Boot THEN todo[q] ELSE {}]
    /\ carried' = [q \in Actors |-> IF q = Boot THEN carried[q]
                                    ELSE [r \in Rows |-> Exhausted]]
    /\ UNCHANGED <<rowVars, execVars>>

-----------------------------------------------------------------------------
\* The worker

\* BullMQ hands out the waiting execution with the lowest priority; one whose row
\* is not queued any more is dropped.
Claim(r) ==
    /\ pc[Boot] = "idle"
    /\ exec[r] = "waiting"
    /\ \A s \in Rows : exec[s] = "waiting" => execPrio[r] <= execPrio[s]
    /\ IF status[r] = "QUEUED"
       THEN /\ status' = [status EXCEPT ![r] = "RUNNING"]
            /\ exec' = [exec EXCEPT ![r] = "running"]
            /\ UNCHANGED execPrio
       ELSE Gone(r) /\ UNCHANGED status
    /\ UNCHANGED <<prio, requestVars, events>>
\* The row is settled or paused and its execution gone, or both are handed back
\* for the retry, with the priority BullMQ has for it.
Leave(r, to) ==
    /\ pc[Boot] = "idle"
    /\ exec[r] = "running"
    /\ Becomes(r, to)
    /\ IF to = "QUEUED" THEN exec' = [exec EXCEPT ![r] = "waiting"] /\ UNCHANGED execPrio
       ELSE Gone(r)
    /\ UNCHANGED <<requestVars, events>>

\* The reconciler lists the queued rows with their priorities, and adds those
\* BullMQ does not have.  An execution that the worker died in counts as alive.
BootList ==
    /\ pc[Boot] = "idle"
    /\ Event("boot")
    /\ \E r \in Rows : status[r] = "QUEUED" /\ exec[r] = "absent"
    /\ todo' = [todo EXCEPT ![Boot] = {r \in Rows : status[r] = "QUEUED"}]
    /\ carried' = [carried EXCEPT ![Boot] =
                      [r \in Rows |-> IF status[r] = "QUEUED" THEN prio[r] ELSE Exhausted]]
    /\ Goto(Boot, "boot")
    /\ UNCHANGED <<rowVars, execVars>>
BootAdd(r) ==
    /\ pc[Boot] = "boot" /\ r \in todo[Boot]
    /\ AddExecution(r, carried[Boot][r])
    /\ NextRow(Boot, r, "boot")
    /\ UNCHANGED <<rowVars, events>>

-----------------------------------------------------------------------------
Init ==
    /\ status = [r \in Rows |-> "ABSENT"]
    /\ prio = [r \in Rows |-> Exhausted]
    /\ exec = [r \in Rows |-> "absent"]
    /\ execPrio = [r \in Rows |-> Exhausted]
    /\ pc = [q \in Actors |-> "idle"]
    /\ todo = [q \in Actors |-> {}]
    /\ carried = [q \in Actors |-> [r \in Rows |-> Exhausted]]
    /\ events = [k \in EventKinds \cup {"any"} |-> 0]

Next ==
    \/ \E q \in Adders :
          \/ EnqueueChunk(q)
          \/ \E r \in Rows :
                \/ AddRead(q, r) \/ Add(q, r) \/ AddRejected(q, r)
                \/ Resume(q, r) \/ ResumeRead(q, r)
                \/ ResumeAdd(q, r) \/ ResumeRejected(q, r)
    \/ \E q \in Movers, r \in Rows :
          \/ \E place \in Places(r) : Move(q, r, place)
          \/ Mirror(q, r) \/ MirrorSkipped(q, r)
    \/ \E r \in Rows :
          \/ Pause(r) \/ Cancel(r) \/ Claim(r) \/ BootAdd(r)
          \/ \E to \in {"DONE", "PAUSED", "QUEUED"} : Leave(r, to)
    \/ ApiDies \/ BootList

Spec == Init /\ [][Next]_vars

-----------------------------------------------------------------------------
\* Properties

\* The owner's order is never ambiguous: two active downloads never share a
\* priority, whatever enqueues, moves and renumbers follow each other.
PrioritiesDistinct ==
    \A r, s \in Active : prio[r] = prio[s] => r = s

\* An active row never carries a value BullMQ rejects, or takes for "no
\* priority", which would run before every other.
PrioritiesInRange == \A r \in Active : prio[r] \in Priorities

Between(p, a, r, s) == (p[a] < p[s] /\ p[s] < p[r]) \/ (p[r] < p[s] /\ p[s] < p[a])
\* The row is where the owner asked for.
Placed(p, r, place) ==
    LET others == Active \ {r} IN
    CASE place.to = "top" -> \A s \in others : p[r] < p[s]
      [] place.to = "bottom" -> \A s \in others : p[s] < p[r]
      [] place.to = "after" -> /\ p[place.anchor] < p[r]
                               /\ \A s \in others : ~Between(p, place.anchor, r, s)
\* A move puts the row where it was asked to be and leaves the order of all the
\* others as it was, also when it renumbers them.
MoveReorders ==
    [][prio' # prio /\ status' = status =>
        \A q \in Movers, r \in Rows : \A place \in Places(r) :
          Move(q, r, place) =>
             /\ Placed(prio', r, place)
             /\ \A s, t \in Active \ {r} : prio[s] < prio[t] <=> prio'[s] < prio'[t]]_vars

\* Renumbering makes room: as long as the grid has a free place at its end, every
\* move of a waiting row finds its slot.
MoveFindsPlace ==
    GridFits(Cardinality(Active) + 1) =>
        \A r \in Rows : \A place \in Places(r) :
            status[r] \in Waiting =>
                Slot(prio, r, place) # Exhausted \/ Slot(Renumbered, r, place) # Exhausted

\* BullMQ runs downloads in the owner's order: while it refuses nothing, no request
\* is cut off, and no move commits while another actor holds a priority it has
\* read, an execution carries the priority of its row or is about to be told.
MirrorAgrees ==
    events["overlap"] + events["redis"] + events["api"] = 0 =>
        \A r \in Rows :
            status[r] \in {"QUEUED", "RUNNING"} /\ exec[r] # "absent" =>
                \/ execPrio[r] = prio[r]
                \/ \E q \in Movers : pc[q] = "mirror" /\ r \in todo[q]
=============================================================================

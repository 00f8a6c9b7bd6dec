----------------------------- MODULE QueueProofs -----------------------------
(***************************************************************************)
(* Proofs about the order of the download queue: for any number of rows,   *)
(* requests and moves, and every grid.                                     *)
(*                                                                         *)
(* The invariant says that active rows have different priorities BullMQ    *)
(* accepts, and that what a request still carries to BullMQ is the priority*)
(* of its row unless a move overlapped, a command was refused or the api   *)
(* died.                                                                   *)
(***************************************************************************)
EXTENDS QueueOrder, FiniteSetTheorems, WellFoundedInduction, TLAPS

-----------------------------------------------------------------------------
\* Extremes and ranks

\* A nonempty set of naturals has a least element.
LEMMA LeastNatural ==
  ASSUME NEW S \in SUBSET Nat, S # {}
  PROVE  \E x \in S : \A y \in S : x <= y
<1> DEFINE R == OpToRel(<, Nat)
<1>1. \E x \in S : \A y \in S : ~ (<<y, x>> \in R)
  BY NatLessThanWellFounded, WFMin
<1>2. \A x \in Nat, y \in Nat : y < x => <<y, x>> \in R
  BY DEF OpToRel
<1> HIDE DEF R
<1>3. PICK x \in S : \A y \in S : ~ (<<y, x>> \in R)
  BY <1>1
<1>4. \A y \in S : ~ (y < x)
  BY <1>2, <1>3
<1> QED BY <1>4

\* The first and the last of nonempty rows with priorities bound the others.
LEMMA Extremes ==
  ASSUME NEW p, NEW rows, rows # {}, \A r \in rows : p[r] \in Priorities
  PROVE  /\ \E r \in rows : First(p, rows) = p[r]
         /\ \A r \in rows : First(p, rows) <= p[r]
         /\ \E r \in rows : Last(p, rows) = p[r]
         /\ \A r \in rows : p[r] <= Last(p, rows)
         /\ First(p, rows) \in Priorities /\ Last(p, rows) \in Priorities
<1>0. BullmqPriorityMax \in Nat
  BY GridAssumption
<1>1. \E x \in {p[r] : r \in rows} : \A r \in rows : x <= p[r]
  <2>1. {p[r] : r \in rows} \in SUBSET Nat /\ {p[r] : r \in rows} # {}
    BY <1>0 DEF Priorities
  <2>2. PICK x \in {p[r] : r \in rows} : \A y \in {p[r] : r \in rows} : x <= y
    BY <2>1, LeastNatural
  <2> QED BY <2>2
<1>2. \E x \in {p[r] : r \in rows} : \A r \in rows : p[r] <= x
  <2> DEFINE below == {BullmqPriorityMax - p[r] : r \in rows}
  <2>1. below \in SUBSET Nat /\ below # {}
    BY <1>0 DEF Priorities
  <2> HIDE DEF below
  <2>2. PICK x \in below : \A y \in below : x <= y
    BY <2>1, LeastNatural
  <2>3. PICK r \in rows : x = BullmqPriorityMax - p[r]
    BY <2>2 DEF below
  <2>4. \A s \in rows : x <= BullmqPriorityMax - p[s]
    BY <2>2 DEF below
  <2>5. \A s \in rows : p[s] <= p[r]
    BY <1>0, <2>3, <2>4 DEF Priorities
  <2> QED BY <2>5
<1>3. First(p, rows) \in {p[r] : r \in rows} /\ \A r \in rows : First(p, rows) <= p[r]
  BY <1>1 DEF First
<1>4. Last(p, rows) \in {p[r] : r \in rows} /\ \A r \in rows : p[r] <= Last(p, rows)
  BY <1>2 DEF Last
<1> QED BY <1>3, <1>4

\* Rows before an earlier row are fewer.
LEMMA Ranks ==
  ASSUME NEW S, IsFiniteSet(S), NEW T, T \subseteq S, T # S
  PROVE  Cardinality(T) \in Nat /\ Cardinality(S) \in Nat /\ Cardinality(T) < Cardinality(S)
BY FS_Subset, FS_CardinalityType

\* Places of the grid follow each other by a gap.
LEMMA GridSteps ==
  ASSUME NEW i \in Nat, NEW j \in Nat
  PROVE  /\ i * PriorityGap \in Nat
         /\ i <= j => i * PriorityGap <= j * PriorityGap
         /\ i < j => i * PriorityGap + PriorityGap <= j * PriorityGap
<1>1. PriorityGap \in Nat
  BY GridAssumption
<1>2. ASSUME NEW k \in Nat
      PROVE  k * PriorityGap \in Nat /\ k * PriorityGap >= 0
  BY <1>1
<1>3. ASSUME i <= j
      PROVE  i * PriorityGap <= j * PriorityGap
  <2>1. (j - i) \in Nat /\ j * PriorityGap = i * PriorityGap + (j - i) * PriorityGap
    BY <1>1, <1>3
  <2> QED BY <1>2, <2>1
<1>4. ASSUME i < j
      PROVE  i * PriorityGap + PriorityGap <= j * PriorityGap
  <2>1. (j - i - 1) \in Nat
        /\ j * PriorityGap = i * PriorityGap + PriorityGap + (j - i - 1) * PriorityGap
    BY <1>1, <1>4
  <2> QED BY <1>1, <1>2, <2>1
<1> QED BY <1>2, <1>3, <1>4

-----------------------------------------------------------------------------
\* Slots

\* Active rows have priorities BullMQ accepts, and no two the same.
Ordered(p) ==
    /\ \A r \in Active : p[r] \in Priorities
    /\ \A r, s \in Active : p[r] = p[s] => r = s

\* A slot that exists is a priority, nobody has it, and it is the place asked for.
LEMMA SlotFits ==
  ASSUME NEW p \in [Rows -> Priorities \cup {Exhausted}], Ordered(p),
         NEW r \in Rows, status[r] \in Waiting, NEW place \in Places(r),
         Slot(p, r, place) # Exhausted
  PROVE  /\ Slot(p, r, place) \in Priorities
         /\ \A s \in Active \ {r} : p[s] # Slot(p, r, place)
         /\ Placed([p EXCEPT ![r] = Slot(p, r, place)], r, place)
<1> DEFINE others == Active \ {r}
           x == Slot(p, r, place)
           q == [p EXCEPT ![r] = x]
<1>0. /\ BullmqPriorityMax \in Nat /\ PriorityGap \in Nat /\ PriorityStart \in Nat
      /\ PriorityGap >= 2 /\ PriorityStart > PriorityGap /\ PriorityStart <= BullmqPriorityMax
  BY GridAssumption
<1>1. \A s \in others : p[s] \in Priorities /\ s \in Rows /\ s # r /\ q[s] = p[s]
  BY DEF Ordered, Active
<1>2. q[r] = x
  OBVIOUS
<1>3. CASE place = Top
  <2>1. x = Head(p, others)
    BY <1>3 DEF Slot, Top
  <2>2. x \in Priorities /\ \A s \in others : x < p[s]
    <3>1. CASE others = {}
      BY <1>0, <2>1, <3>1 DEF Head, Priorities
    <3>2. CASE others # {}
      <4>1. First(p, others) \in Priorities /\ \A s \in others : First(p, others) <= p[s]
        BY <1>1, <3>2, Extremes
      <4>2. x = HeadPriority(First(p, others)) /\ x # Exhausted
        BY <2>1, <3>2 DEF Head
      <4> HIDE DEF x, others
      <4>3. x \in Priorities /\ x < First(p, others)
        BY <1>0, <4>1, <4>2 DEF HeadPriority, Priorities
      <4> QED BY <1>1, <4>1, <4>3 DEF Priorities
    <3> QED BY <3>1, <3>2
  <2>3. Placed(q, r, place) <=> \A s \in others : q[r] < q[s]
    BY <1>3 DEF Placed, Top
  <2> HIDE DEF x, q, others
  <2>4. Placed(q, r, place) /\ x \in Priorities /\ \A s \in others : p[s] # x
    BY <1>1, <1>2, <2>2, <2>3 DEF Priorities
  <2> QED BY <2>4 DEF x, q, others
<1>4. CASE place = Bottom
  <2>1. x = Tail(p, others)
    BY <1>4 DEF Slot, Bottom
  <2>2. x \in Priorities /\ \A s \in others : p[s] < x
    <3>1. CASE others = {}
      BY <1>0, <2>1, <3>1 DEF Tail, Priorities
    <3>2. CASE others # {}
      <4>1. Last(p, others) \in Priorities /\ \A s \in others : p[s] <= Last(p, others)
        BY <1>1, <3>2, Extremes
      <4>2. x = TailPriority(Last(p, others)) /\ x # Exhausted
        BY <2>1, <3>2 DEF Tail
      <4> HIDE DEF x, others
      <4>3. x \in Priorities /\ Last(p, others) < x
        BY <1>0, <4>1, <4>2 DEF TailPriority, Priorities
      <4> QED BY <1>1, <4>1, <4>3 DEF Priorities
    <3> QED BY <3>1, <3>2
  <2>3. Placed(q, r, place) <=> \A s \in others : q[s] < q[r]
    BY <1>4 DEF Placed, Bottom
  <2> HIDE DEF x, q, others
  <2>4. Placed(q, r, place) /\ x \in Priorities /\ \A s \in others : p[s] # x
    BY <1>1, <1>2, <2>2, <2>3 DEF Priorities
  <2> QED BY <2>4 DEF x, q, others
<1>5. ASSUME NEW a \in Rows \ {r}, status[a] \in Waiting, place = After(a)
      PROVE  /\ x \in Priorities /\ \A s \in others : p[s] # x
             /\ Placed(q, r, place)
  <2> DEFINE later == {s \in others : p[s] > p[a]}
  <2>1. a \in others /\ p[a] \in Priorities
    BY <1>1, <1>5 DEF Active, ActiveStatuses
  <2>2. x = IF later = {} THEN TailPriority(p[a]) ELSE MidpointPriority(p[a], First(p, later))
    BY <1>5 DEF Slot, After
  <2>3. /\ x \in Priorities /\ p[a] < x
        /\ \A s \in others : p[s] > p[a] => x < p[s]
    <3>1. CASE later = {}
      <4>1. x = TailPriority(p[a]) /\ x # Exhausted
        BY <2>2, <3>1
      <4>2. \A s \in others : ~(p[s] > p[a])
        BY <3>1
      <4> HIDE DEF x, others
      <4> QED BY <1>0, <2>1, <4>1, <4>2 DEF TailPriority, Priorities
    <3>2. CASE later # {}
      <4> DEFINE upper == First(p, later)
      <4>1. /\ upper \in Priorities /\ \A s \in later : upper <= p[s]
            /\ \E s \in later : upper = p[s]
        <5>1. \A s \in later : p[s] \in Priorities
          BY <1>1
        <5> HIDE DEF later
        <5> QED BY <3>2, <5>1, Extremes
      <4>2. x = MidpointPriority(p[a], upper) /\ x # Exhausted
        BY <2>2, <3>2
      <4> HIDE DEF x, upper
      <4>3. p[a] < upper /\ \A s \in others : p[s] > p[a] => upper <= p[s]
        BY <4>1
      <4> HIDE DEF others
      <4>4. x \in Int /\ p[a] < x /\ x < upper
        BY <2>1, <4>1, <4>2, <4>3 DEF MidpointPriority, Priorities
      <4>5. upper <= BullmqPriorityMax /\ upper \in Int /\ p[a] \in Int /\ p[a] >= 1
        BY <1>0, <2>1, <4>1 DEF Priorities
      <4>6. x \in Priorities
        BY <1>0, <4>4, <4>5 DEF Priorities
      <4>7. ASSUME NEW s \in others, p[s] > p[a]
            PROVE  x < p[s]
        <5>1. p[s] \in Int /\ upper <= p[s]
          BY <1>1, <4>3, <4>7 DEF Priorities
        <5> QED BY <4>4, <4>5, <5>1
      <4> QED BY <4>4, <4>6, <4>7
    <3> QED BY <3>1, <3>2
  <2>4. Placed(q, r, place) <=>
          q[a] < q[r] /\ \A s \in others : ~Between(q, a, r, s)
    BY <1>5 DEF Placed, After
  <2> HIDE DEF x, q, others
  <2>5. Placed(q, r, place)
    BY <1>1, <1>2, <2>1, <2>3, <2>4 DEF Between, Priorities
  <2>6. \A s \in others : p[s] # x
    BY <1>1, <2>1, <2>3 DEF Priorities
  <2> QED BY <2>3, <2>5, <2>6
<1>6. place \in {Top, Bottom} \/ \E a \in Rows \ {r} : status[a] \in Waiting /\ place = After(a)
  BY DEF Places
<1> QED BY <1>3, <1>4, <1>5, <1>6

\* The rows before an active row are fewer than before a later one, and than all.
LEMMA EarlierRanks ==
  ASSUME Ordered(prio)
  PROVE  /\ IsFiniteSet(Active) /\ Cardinality(Active) \in Nat
         /\ \A r \in Active : /\ Cardinality(Earlier(r)) \in Nat
                              /\ Cardinality(Earlier(r)) < Cardinality(Active)
         /\ \A r, s \in Active :
              prio[r] < prio[s] => Cardinality(Earlier(r)) < Cardinality(Earlier(s))
<1>0. BullmqPriorityMax \in Nat
  BY GridAssumption
<1>1. IsFiniteSet(Active) /\ Cardinality(Active) \in Nat
  BY RowsAssumption, FS_Subset, FS_CardinalityType DEF Active
<1>2. \A r \in Active : prio[r] \in Int
  BY <1>0 DEF Ordered, Priorities
<1>3. ASSUME NEW r \in Active
      PROVE  /\ IsFiniteSet(Earlier(r)) /\ Cardinality(Earlier(r)) \in Nat
             /\ Cardinality(Earlier(r)) < Cardinality(Active)
  <2>1. Earlier(r) \subseteq Active /\ r \notin Earlier(r)
    BY <1>2 DEF Earlier
  <2> QED BY <1>1, <2>1, Ranks, FS_Subset
<1>4. ASSUME NEW r \in Active, NEW s \in Active, prio[r] < prio[s]
      PROVE  Cardinality(Earlier(r)) < Cardinality(Earlier(s))
  <2>1. Earlier(r) \subseteq Earlier(s) /\ r \in Earlier(s) /\ r \notin Earlier(r)
    BY <1>2, <1>4 DEF Earlier
  <2> QED BY <1>3, <2>1, Ranks
<1> QED BY <1>1, <1>3, <1>4

\* Renumbered rows are apart by a gap, in the order they had, on the grid.
LEMMA RenumberedFits ==
  ASSUME Ordered(prio), NEW n \in Nat, n >= Cardinality(Active), n > 0 => GridFits(n)
  PROVE  /\ \A r \in Active :
              /\ Renumbered[r] \in Nat /\ Renumbered[r] >= PriorityStart
              /\ Renumbered[r] + (n - Cardinality(Active)) * PriorityGap <= BullmqPriorityMax
         /\ \A r, s \in Active :
              prio[r] < prio[s] => Renumbered[r] + PriorityGap <= Renumbered[s]
<1>0. BullmqPriorityMax \in Nat /\ PriorityGap \in Nat /\ PriorityStart \in Nat
  BY GridAssumption
<1>1. Cardinality(Active) \in Nat
  BY EarlierRanks
<1>2. ASSUME NEW r \in Active
      PROVE  /\ Renumbered[r] = PriorityStart + Cardinality(Earlier(r)) * PriorityGap
             /\ Cardinality(Earlier(r)) \in Nat /\ Cardinality(Earlier(r)) * PriorityGap \in Nat
             /\ Cardinality(Earlier(r)) < Cardinality(Active)
  BY EarlierRanks, GridSteps DEF Renumbered, RenumberedPriority, Active
<1>3. ASSUME NEW r \in Active
      PROVE  Renumbered[r] + (n - Cardinality(Active)) * PriorityGap <= BullmqPriorityMax
  <2> DEFINE k == Cardinality(Earlier(r))
             m == Cardinality(Active)
  <2>1. k \in Nat /\ m \in Nat /\ k < m /\ n >= m /\ n > 0 /\ GridFits(n)
    BY <1>1, <1>2
  <2>2. PriorityStart + (n - 1) * PriorityGap <= BullmqPriorityMax
    BY <2>1 DEF GridFits, RenumberedPriority
  <2>3. Renumbered[r] = PriorityStart + k * PriorityGap
    BY <1>2
  <2> HIDE DEF k, m
  <2>4. k * PriorityGap + (n - m) * PriorityGap = (k + (n - m)) * PriorityGap
    BY <1>0, <2>1
  <2>5. (k + (n - m)) * PriorityGap <= (n - 1) * PriorityGap
    BY <2>1, GridSteps
  <2>6. k * PriorityGap \in Nat /\ (n - m) * PriorityGap \in Nat /\ (n - 1) * PriorityGap \in Nat
    BY <2>1, GridSteps
  <2>7. Renumbered[r] + (n - m) * PriorityGap <= BullmqPriorityMax
    BY <1>0, <2>2, <2>3, <2>4, <2>5, <2>6
  <2> QED BY <2>7 DEF m
<1>4. ASSUME NEW r \in Active, NEW s \in Active, prio[r] < prio[s]
      PROVE  Renumbered[r] + PriorityGap <= Renumbered[s]
  <2>1. Cardinality(Earlier(r)) < Cardinality(Earlier(s))
    BY <1>4, EarlierRanks
  <2>2. Cardinality(Earlier(r)) * PriorityGap + PriorityGap <= Cardinality(Earlier(s)) * PriorityGap
    BY <1>2, <2>1, GridSteps
  <2> QED BY <1>0, <1>2, <2>2
<1>5. \A r \in Active : Renumbered[r] \in Nat /\ Renumbered[r] >= PriorityStart
  BY <1>0, <1>2
<1> QED BY <1>3, <1>4, <1>5

-----------------------------------------------------------------------------
\* The invariant

\* Nothing happened that lets the order of BullMQ fall behind.
Calm == events["overlap"] + events["redis"] + events["api"] = 0

\* A row that does not exist has no execution, and nobody works on it; what runs
\* is RUNNING; a resume is about one row.
RowsLinked ==
    /\ \A r \in Rows :
         /\ status[r] = "ABSENT" => exec[r] = "absent" /\ \A q \in Actors : r \notin todo[q]
         /\ exec[r] = "running" => status[r] = "RUNNING"
    /\ \A q \in Actors : pc[q] \in {"reread", "readd"} => \A r, s \in todo[q] : r = s

\* The rows whose priority a request has read and not yet used.
Bringing(q, r) ==
    /\ r \in todo[q]
    /\ \/ pc[q] \in {"readd", "mirror", "boot"}
       \/ pc[q] = "add" /\ \A s \in todo[q] : r <= s

CarriesPriority ==
    Calm => \A q \in Actors, r \in Rows :
              Bringing(q, r) /\ status[r] \in ActiveStatuses => carried[q][r] = prio[r]

QueueInv == TypeOK /\ Ordered(prio) /\ RowsLinked /\ CarriesPriority /\ MirrorAgrees

USE DEF rowVars, execVars, requestVars, Requests, Waiting, ActiveStatuses, ExecStates, Steps,
        EventKinds
USE RowsAssumption, RequestsAssumption

\* What counting an event leaves.
LEMMA EventLeaves ==
  ASSUME events \in [EventKinds \cup {"any"} -> Nat], NEW k \in EventKinds, Event(k)
  PROVE  /\ events' \in [EventKinds \cup {"any"} -> Nat]
         /\ Calm' => Calm
         /\ k \in {"overlap", "redis", "api"} => ~Calm'
<1>1. /\ events' = [events EXCEPT ![k] = events[k] + 1, !["any"] = events["any"] + 1]
      /\ events[k] \in Nat /\ events["any"] \in Nat
  BY DEF Event
<1>2. events' \in [EventKinds \cup {"any"} -> Nat]
  BY <1>1
<1>3. \A j \in EventKinds : events'[j] = IF j = k THEN events[j] + 1 ELSE events[j]
  BY <1>1
<1>4. /\ events["overlap"] \in Nat /\ events["redis"] \in Nat /\ events["api"] \in Nat
      /\ events'["overlap"] = IF k = "overlap" THEN events["overlap"] + 1 ELSE events["overlap"]
      /\ events'["redis"] = IF k = "redis" THEN events["redis"] + 1 ELSE events["redis"]
      /\ events'["api"] = IF k = "api" THEN events["api"] + 1 ELSE events["api"]
  BY <1>3
<1>5. CASE k \in {"overlap", "redis", "api"}
  BY <1>2, <1>4, <1>5 DEF Calm
<1>6. CASE k \notin {"overlap", "redis", "api"}
  BY <1>2, <1>4, <1>6 DEF Calm
<1> QED BY <1>5, <1>6

\* What the end of a row's turn leaves.
LEMMA NextRowLeaves ==
  ASSUME TypeOK, NEW q \in Actors, NEW r \in Rows, NEW step \in Steps, NextRow(q, r, step)
  PROVE  /\ todo' \in [Actors -> SUBSET Rows] /\ pc' \in [Actors -> Steps]
         /\ carried' \in [Actors -> [Rows -> Priorities \cup {Exhausted}]]
         /\ todo'[q] = todo[q] \ {r} /\ pc'[q] \in {"idle", step}
         /\ \A s \in Rows \ {r} : carried'[q][s] = carried[q][s]
         /\ \A a \in Actors \ {q} :
              todo'[a] = todo[a] /\ pc'[a] = pc[a] /\ carried'[a] = carried[a]
<1>1. todo' \in [Actors -> SUBSET Rows] /\ todo'[q] = todo[q] \ {r}
      /\ \A a \in Actors \ {q} : todo'[a] = todo[a]
  BY DEF NextRow, TypeOK
<1>2. pc' \in [Actors -> Steps] /\ pc'[q] \in {"idle", step}
      /\ \A a \in Actors \ {q} : pc'[a] = pc[a]
  BY DEF NextRow, Goto, TypeOK
<1>3. /\ carried' \in [Actors -> [Rows -> Priorities \cup {Exhausted}]]
      /\ \A s \in Rows \ {r} : carried'[q][s] = carried[q][s]
      /\ \A a \in Actors \ {q} : carried'[a] = carried[a]
  BY DEF NextRow, Carry, TypeOK
<1> QED BY <1>1, <1>2, <1>3

\* What an add leaves: an execution that is there is not touched.
LEMMA AddLeaves ==
  ASSUME TypeOK, NEW r \in Rows, NEW x \in Priorities \cup {Exhausted}, AddExecution(r, x)
  PROVE  /\ exec' \in [Rows -> ExecStates] /\ execPrio' \in [Rows -> Priorities \cup {Exhausted}]
         /\ \A s \in Rows \ {r} : exec'[s] = exec[s] /\ execPrio'[s] = execPrio[s]
         /\ exec'[r] = IF exec[r] = "absent" THEN "waiting" ELSE exec[r]
         /\ execPrio'[r] = IF exec[r] = "absent" THEN x ELSE execPrio[r]
BY DEF AddExecution, TypeOK

\* Priorities stay in order while none changes and no row becomes active.
LEMMA OrderedKept ==
  ASSUME Ordered(prio), Active' \subseteq Active, \A r \in Active' : prio'[r] = prio[r]
  PROVE  Ordered(prio)'
BY DEF Ordered

-----------------------------------------------------------------------------
\* Requests

\* A request reads the priority of its next row.
LEMMA ReadKeeps ==
  ASSUME QueueInv, NEW q \in Adders, NEW r \in Rows, AddRead(q, r) \/ ResumeRead(q, r)
  PROVE  QueueInv'
<1>0. TypeOK /\ q \in Actors
  BY DEF QueueInv, Actors
<1>1. /\ UNCHANGED <<status, prio, exec, execPrio, todo, events>>
      /\ r \in todo[q] /\ pc[q] \in {"read", "reread"}
      /\ carried' = [carried EXCEPT ![q] = [@ EXCEPT ![r] = prio[r]]]
      /\ \/ pc' = [pc EXCEPT ![q] = "add"] /\ \A s \in todo[q] : r <= s
         \/ pc' = [pc EXCEPT ![q] = "readd"] /\ pc[q] = "reread"
  BY DEF AddRead, ResumeRead, Carry, Goto
<1>2. carried' \in [Actors -> [Rows -> Priorities \cup {Exhausted}]] /\ pc' \in [Actors -> Steps]
      /\ carried'[q][r] = prio[r] /\ \A a \in Actors \ {q} : carried'[a] = carried[a]
  BY <1>0, <1>1 DEF TypeOK
<1>3. TypeOK'
  BY <1>0, <1>1, <1>2 DEF TypeOK
<1>4. Ordered(prio)'
  BY <1>1 DEF QueueInv, Ordered, Active
<1>5. RowsLinked'
  BY <1>0, <1>1 DEF QueueInv, RowsLinked, TypeOK
<1>6. CarriesPriority'
  <2> SUFFICES ASSUME Calm, NEW a \in Actors, NEW s \in Rows, Bringing(a, s)',
                      status[s] \in ActiveStatuses
               PROVE  carried'[a][s] = prio[s]
    BY <1>1 DEF CarriesPriority, Calm
  <2>1. CASE a = q
    <3>1. s = r
      <4>1. s \in Nat /\ r \in Nat /\ s \in todo[q] /\ r \in todo[q]
        BY <1>1, <2>1 DEF Bringing
      <4>2. CASE pc' = [pc EXCEPT ![q] = "add"] /\ \A t \in todo[q] : r <= t
        BY <1>0, <1>1, <2>1, <4>1, <4>2 DEF Bringing, TypeOK
      <4>3. CASE pc[q] = "reread"
        BY <1>0, <4>1, <4>3 DEF QueueInv, RowsLinked
      <4> QED BY <1>1, <4>2, <4>3
    <3> QED BY <1>2, <2>1, <3>1
  <2>2. CASE a # q
    <3>1. Bringing(a, s)
      BY <1>0, <1>1, <2>2 DEF Bringing, TypeOK
    <3> QED BY <1>2, <2>2, <3>1 DEF QueueInv, CarriesPriority
  <2> QED BY <2>1, <2>2
<1>7. MirrorAgrees'
  <2>1. \A m \in Movers : pc[m] = "mirror" => pc'[m] = "mirror"
    BY <1>0, <1>1 DEF Actors, TypeOK
  <2> QED BY <1>1, <2>1 DEF QueueInv, MirrorAgrees
<1> QED BY <1>3, <1>4, <1>5, <1>6, <1>7 DEF QueueInv

\* A row's turn ends with nothing or with its execution, which then has the
\* priority that was read.
LEMMA TurnKeeps ==
  ASSUME QueueInv, NEW q \in Actors, NEW r \in Rows, NEW step \in {"idle", "read", "boot"},
         r \in todo[q], pc[q] \in {"add", "readd", "boot"}, Bringing(q, r),
         step = "boot" <=> pc[q] = "boot",
         AddExecution(r, carried[q][r]), NextRow(q, r, step), UNCHANGED <<rowVars, events>>
  PROVE  QueueInv'
<1>0. TypeOK /\ carried[q][r] \in Priorities \cup {Exhausted} /\ step \in Steps
  BY DEF QueueInv, TypeOK
<1>1. /\ exec' \in [Rows -> ExecStates] /\ execPrio' \in [Rows -> Priorities \cup {Exhausted}]
      /\ \A s \in Rows \ {r} : exec'[s] = exec[s] /\ execPrio'[s] = execPrio[s]
      /\ exec'[r] = IF exec[r] = "absent" THEN "waiting" ELSE exec[r]
      /\ execPrio'[r] = IF exec[r] = "absent" THEN carried[q][r] ELSE execPrio[r]
  BY <1>0, AddLeaves
<1>2. /\ todo' \in [Actors -> SUBSET Rows] /\ pc' \in [Actors -> Steps]
      /\ carried' \in [Actors -> [Rows -> Priorities \cup {Exhausted}]]
      /\ todo'[q] = todo[q] \ {r} /\ pc'[q] \in {"idle", step}
      /\ \A s \in Rows \ {r} : carried'[q][s] = carried[q][s]
      /\ \A a \in Actors \ {q} :
           todo'[a] = todo[a] /\ pc'[a] = pc[a] /\ carried'[a] = carried[a]
  BY <1>0, NextRowLeaves
<1>3. TypeOK'
  BY <1>0, <1>1, <1>2 DEF TypeOK
<1>4. Ordered(prio)'
  BY DEF QueueInv, Ordered, Active
<1>5. RowsLinked'
  <2>1. RowsLinked
    BY DEF QueueInv
  <2>2. \A s \in Rows : status[s] = "ABSENT" =>
           exec'[s] = "absent" /\ \A a \in Actors : s \notin todo'[a]
    BY SMTT(30), <1>1, <1>2, <2>1 DEF RowsLinked
  <2>3. \A s \in Rows : exec'[s] = "running" => status[s] = "RUNNING"
    BY <1>1, <2>1 DEF RowsLinked
  <2>4. \A a \in Actors : pc'[a] \in {"reread", "readd"} => \A s, t \in todo'[a] : s = t
    BY <1>2, <2>1 DEF RowsLinked
  <2> QED BY <2>2, <2>3, <2>4 DEF RowsLinked
<1>6. CarriesPriority'
  <2> SUFFICES ASSUME Calm, NEW a \in Actors, NEW s \in Rows, Bringing(a, s)',
                      status[s] \in ActiveStatuses
               PROVE  carried'[a][s] = prio[s]
    BY DEF CarriesPriority, Calm
  <2>1. Bringing(a, s) /\ (a = q => s # r)
    BY <1>2 DEF Bringing
  <2>2. carried[a][s] = prio[s]
    BY <2>1 DEF QueueInv, CarriesPriority
  <2>3. carried'[a][s] = carried[a][s]
    BY <1>2, <2>1
  <2> QED BY <2>2, <2>3
<1>7. MirrorAgrees'
  <2> SUFFICES ASSUME Calm, NEW s \in Rows, status[s] \in {"QUEUED", "RUNNING"}, exec'[s] # "absent"
               PROVE  \/ execPrio'[s] = prio[s]
                      \/ \E m \in Movers : pc'[m] = "mirror" /\ s \in todo'[m]
    BY DEF MirrorAgrees, Calm
  <2>1. CASE exec[s] # "absent"
    <3>1. \/ execPrio[s] = prio[s]
          \/ \E m \in Movers : pc[m] = "mirror" /\ s \in todo[m]
      BY <2>1 DEF QueueInv, MirrorAgrees, Calm
    <3>2. execPrio'[s] = execPrio[s]
      BY <1>1, <2>1
    <3>3. \A m \in Movers : pc[m] = "mirror" => m # q /\ pc'[m] = pc[m] /\ todo'[m] = todo[m]
      BY <1>2 DEF Actors
    <3> QED BY <3>1, <3>2, <3>3
  <2>2. CASE exec[s] = "absent"
    <3>1. s = r /\ execPrio'[s] = carried[q][r]
      BY <1>1, <2>2
    <3> QED BY <3>1 DEF QueueInv, CarriesPriority
  <2> QED BY <2>1, <2>2
<1> QED BY <1>3, <1>4, <1>5, <1>6, <1>7 DEF QueueInv

\* Once BullMQ has refused a command the order may fall behind.
LEMMA RefusalKeeps ==
  ASSUME QueueInv, NEW q \in Requests, NEW r \in Rows,
         AddRejected(q, r) \/ ResumeRejected(q, r) \/ MirrorSkipped(q, r)
  PROVE  QueueInv'
<1>0. TypeOK /\ q \in Actors /\ RowsLinked /\ Ordered(prio)
  BY DEF QueueInv, Actors
<1>1. PICK step \in {"read", "idle", "mirror"} :
        NextRow(q, r, step) /\ Event("redis") /\ UNCHANGED <<exec, execPrio>> /\ r \in todo[q]
  BY DEF AddRejected, ResumeRejected, MirrorSkipped
<1>2. /\ todo' \in [Actors -> SUBSET Rows] /\ pc' \in [Actors -> Steps]
      /\ carried' \in [Actors -> [Rows -> Priorities \cup {Exhausted}]]
      /\ todo'[q] = todo[q] \ {r} /\ pc'[q] \in {"idle", step}
      /\ \A a \in Actors \ {q} : todo'[a] = todo[a] /\ pc'[a] = pc[a]
  BY <1>0, <1>1, NextRowLeaves
<1>3. events' \in [EventKinds \cup {"any"} -> Nat] /\ ~Calm'
  BY <1>0, <1>1, EventLeaves DEF TypeOK
<1>4. \/ UNCHANGED <<status, prio>>
      \/ /\ status[r] = "QUEUED" /\ status' = [status EXCEPT ![r] = "DONE"]
         /\ prio' = [prio EXCEPT ![r] = Exhausted]
      \/ /\ status[r] = "QUEUED" /\ status' = [status EXCEPT ![r] = "PAUSED"]
         /\ UNCHANGED prio
  <2>1. CASE AddRejected(q, r)
    BY <1>0, <2>1 DEF AddRejected, Becomes
  <2>2. CASE ResumeRejected(q, r)
    BY <1>0, <2>2 DEF ResumeRejected, TypeOK
  <2>3. CASE MirrorSkipped(q, r)
    BY <2>3 DEF MirrorSkipped
  <2> QED BY <2>1, <2>2, <2>3
<1>5. TypeOK'
  <2>1. /\ status' \in [Rows -> {"ABSENT", "DONE"} \cup ActiveStatuses]
        /\ prio' \in [Rows -> Priorities \cup {Exhausted}]
    BY <1>0, <1>4 DEF TypeOK
  <2> QED BY <1>0, <1>1, <1>2, <1>3, <2>1 DEF TypeOK
<1>6. Ordered(prio)'
  <2>1. Active' \subseteq Active /\ \A s \in Active' : prio'[s] = prio[s]
    BY <1>0, <1>4 DEF Active, TypeOK
  <2> QED BY <1>0, <2>1, OrderedKept
<1>7. RowsLinked'
  <2>1. \A s \in Rows : (status'[s] = "ABSENT" => status[s] = "ABSENT")
                        /\ (status[s] = "RUNNING" => status'[s] = "RUNNING")
    BY <1>0, <1>4 DEF TypeOK
  <2>2. \A a \in Actors : todo'[a] \subseteq todo[a]
                          /\ (pc'[a] \in {"reread", "readd"} => pc[a] = pc'[a])
    BY <1>2
  <2> QED BY <1>0, <1>1, <2>1, <2>2 DEF RowsLinked
<1> QED BY <1>3, <1>5, <1>6, <1>7 DEF QueueInv, CarriesPriority, MirrorAgrees, Calm

\* A request that is never finished leaves its rows as they are.
LEMMA ApiDiesKeeps == QueueInv /\ ApiDies => QueueInv'
<1> SUFFICES ASSUME QueueInv, ApiDies
             PROVE  QueueInv'
  OBVIOUS
<1>0. TypeOK /\ RowsLinked /\ Ordered(prio)
  BY DEF QueueInv
<1>1. UNCHANGED <<status, prio, exec, execPrio>> /\ Event("api")
      /\ pc' = [q \in Actors |-> IF q = Boot THEN pc[q] ELSE "idle"]
      /\ todo' = [q \in Actors |-> IF q = Boot THEN todo[q] ELSE {}]
      /\ carried' = [q \in Actors |-> IF q = Boot THEN carried[q] ELSE [r \in Rows |-> Exhausted]]
  BY DEF ApiDies
<1>2. events' \in [EventKinds \cup {"any"} -> Nat] /\ ~Calm'
  BY <1>0, <1>1, EventLeaves DEF TypeOK
<1>3. TypeOK'
  BY <1>0, <1>1, <1>2 DEF TypeOK
<1>4. Ordered(prio)' /\ RowsLinked'
  BY <1>0, <1>1 DEF Ordered, Active, RowsLinked
<1> QED BY <1>2, <1>3, <1>4 DEF QueueInv, CarriesPriority, MirrorAgrees, Calm

\* An execution hears of a move.
LEMMA MirrorKeeps ==
  ASSUME QueueInv, NEW q \in Movers, NEW r \in Rows, Mirror(q, r)
  PROVE  QueueInv'
<1>0. TypeOK /\ q \in Actors /\ RowsLinked /\ Ordered(prio)
  BY DEF QueueInv, Actors
<1>1. /\ pc[q] = "mirror" /\ r \in todo[q] /\ UNCHANGED <<status, prio, exec, events>>
      /\ execPrio' = [execPrio EXCEPT ![r] = IF exec[r] = "absent" THEN @ ELSE carried[q][r]]
      /\ NextRow(q, r, "mirror")
  BY DEF Mirror
<1>2. /\ todo' \in [Actors -> SUBSET Rows] /\ pc' \in [Actors -> Steps]
      /\ carried' \in [Actors -> [Rows -> Priorities \cup {Exhausted}]]
      /\ todo'[q] = todo[q] \ {r} /\ pc'[q] \in {"idle", "mirror"}
      /\ \A s \in Rows \ {r} : carried'[q][s] = carried[q][s]
      /\ \A a \in Actors \ {q} :
           todo'[a] = todo[a] /\ pc'[a] = pc[a] /\ carried'[a] = carried[a]
  BY <1>0, <1>1, NextRowLeaves
<1>3. pc'[q] = IF todo[q] = {r} THEN "idle" ELSE "mirror"
  BY <1>0, <1>1 DEF NextRow, Goto, TypeOK
<1>4. TypeOK'
  BY <1>0, <1>1, <1>2 DEF TypeOK
<1>5. Ordered(prio)'
  BY <1>0, <1>1 DEF Ordered, Active
<1>6. RowsLinked'
  <2>1. \A a \in Actors : todo'[a] \subseteq todo[a]
                          /\ (pc'[a] \in {"reread", "readd"} => pc[a] = pc'[a])
    BY <1>2
  <2> QED BY <1>0, <1>1, <2>1 DEF RowsLinked
<1>7. CarriesPriority'
  <2> SUFFICES ASSUME Calm, NEW a \in Actors, NEW s \in Rows, Bringing(a, s)',
                      status[s] \in ActiveStatuses
               PROVE  carried'[a][s] = prio[s]
    BY <1>1 DEF CarriesPriority, Calm
  <2>1. Bringing(a, s) /\ (a = q => s # r)
    BY <1>1, <1>2 DEF Bringing
  <2>2. carried[a][s] = prio[s]
    BY <2>1 DEF QueueInv, CarriesPriority
  <2>3. carried'[a][s] = carried[a][s]
    BY <1>2, <2>1
  <2> QED BY <2>2, <2>3
<1>8. MirrorAgrees'
  <2> SUFFICES ASSUME Calm, NEW s \in Rows, status[s] \in {"QUEUED", "RUNNING"}, exec[s] # "absent"
               PROVE  \/ execPrio'[s] = prio[s]
                      \/ \E m \in Movers : pc'[m] = "mirror" /\ s \in todo'[m]
    BY <1>1 DEF MirrorAgrees, Calm
  <2>1. CASE s = r
    <3>1. carried[q][r] = prio[r]
      BY <1>0, <1>1, <2>1 DEF QueueInv, CarriesPriority, Bringing
    <3> QED BY <1>0, <1>1, <2>1, <3>1 DEF TypeOK
  <2>2. CASE s # r
    <3>1. \/ execPrio[s] = prio[s]
          \/ \E m \in Movers : pc[m] = "mirror" /\ s \in todo[m]
      BY DEF QueueInv, MirrorAgrees, Calm
    <3>2. execPrio'[s] = execPrio[s]
      BY <1>0, <1>1, <2>2 DEF TypeOK
    <3>3. ASSUME NEW m \in Movers, pc[m] = "mirror", s \in todo[m]
          PROVE  pc'[m] = "mirror" /\ s \in todo'[m]
      BY <1>2, <1>3, <2>2, <3>3 DEF Actors
    <3> QED BY <3>1, <3>2, <3>3
  <2> QED BY <2>1, <2>2
<1> QED BY <1>4, <1>5, <1>6, <1>7, <1>8 DEF QueueInv

\* A resume takes on its row, which has no execution.
LEMMA ResumeKeeps ==
  ASSUME QueueInv, NEW q \in Adders, NEW r \in Rows, Resume(q, r)
  PROVE  QueueInv'
<1>0. TypeOK /\ q \in Actors /\ RowsLinked /\ Ordered(prio)
  BY DEF QueueInv, Actors
<1>1. /\ pc[q] = "idle" /\ status[r] = "PAUSED" /\ exec[r] = "absent"
      /\ status' = [status EXCEPT ![r] = "QUEUED"] /\ todo' = [todo EXCEPT ![q] = {r}]
      /\ pc' = [pc EXCEPT ![q] = "reread"]
      /\ UNCHANGED <<prio, exec, execPrio, carried, events>>
  BY DEF Resume, Goto
<1>2. TypeOK'
  BY <1>0, <1>1 DEF TypeOK
<1>3. Ordered(prio)'
  BY <1>0, <1>1 DEF Ordered, Active, TypeOK
<1>4. RowsLinked'
  <2>1. \A s \in Rows : (status'[s] = "ABSENT" => status[s] = "ABSENT" /\ s # r)
                        /\ (status[s] = "RUNNING" => status'[s] = "RUNNING")
    BY <1>0, <1>1 DEF TypeOK
  <2>2. \A a \in Actors : /\ todo'[a] = todo[a] \/ (a = q /\ todo'[a] = {r})
                          /\ pc'[a] = pc[a] \/ a = q
    BY <1>0, <1>1 DEF TypeOK
  <2>3. todo'[q] = {r}
    BY <1>0, <1>1 DEF TypeOK
  <2> QED BY <1>0, <1>1, <2>1, <2>2, <2>3 DEF RowsLinked
<1>5. CarriesPriority'
  <2>1. \A a \in Actors, s \in Rows : Bringing(a, s)' => Bringing(a, s)
    BY <1>0, <1>1 DEF Bringing, TypeOK
  <2>2. \A s \in Rows : status'[s] \in ActiveStatuses => status[s] \in ActiveStatuses
    BY <1>0, <1>1 DEF TypeOK
  <2> QED BY <1>1, <2>1, <2>2 DEF QueueInv, CarriesPriority, Calm
<1>6. MirrorAgrees'
  <2>1. \A s \in Rows : status'[s] \in {"QUEUED", "RUNNING"} /\ exec[s] # "absent" =>
           status[s] \in {"QUEUED", "RUNNING"}
    BY <1>0, <1>1 DEF TypeOK
  <2>2. \A m \in Movers : pc[m] = "mirror" => pc'[m] = "mirror" /\ todo'[m] = todo[m]
    BY <1>0, <1>1 DEF TypeOK, Actors
  <2> QED BY <1>1, <2>1, <2>2 DEF QueueInv, MirrorAgrees
<1> QED BY <1>2, <1>3, <1>4, <1>5, <1>6 DEF QueueInv

\* New rows follow the last active one by a gap each, and each other.
LEMMA EnqueueKeeps ==
  ASSUME QueueInv, NEW q \in Adders, EnqueueChunk(q)
  PROVE  QueueInv'
<1>0. TypeOK /\ q \in Actors /\ RowsLinked /\ Ordered(prio)
      /\ BullmqPriorityMax \in Nat /\ PriorityGap \in Nat /\ PriorityStart \in Nat
      /\ PriorityStart > PriorityGap /\ PriorityGap >= 2
  BY GridAssumption DEF QueueInv, Actors
<1> DEFINE tail == Tail(prio, Active)
<1>1. PICK chunk \in SUBSET {r \in Rows : status[r] = "ABSENT"} :
        /\ Cardinality(chunk) \in 1..ChunkSize
        /\ tail # Exhausted /\ tail + (Cardinality(chunk) - 1) * PriorityGap <= BullmqPriorityMax
        /\ status' = [r \in Rows |-> IF r \in chunk THEN "QUEUED" ELSE status[r]]
        /\ prio' = [r \in Rows |-> IF r \in chunk THEN tail + NextInChunk(chunk, r) * PriorityGap
                                   ELSE prio[r]]
        /\ todo' = [todo EXCEPT ![q] = chunk]
  BY DEF EnqueueChunk
<1>2. /\ pc[q] = "idle" /\ pc' = [pc EXCEPT ![q] = "read"]
      /\ UNCHANGED <<exec, execPrio, carried, events>>
  BY DEF EnqueueChunk, Goto
<1>3. chunk \subseteq Rows /\ IsFiniteSet(chunk) /\ chunk \subseteq Nat
      /\ \A r \in chunk : status[r] = "ABSENT"
  BY <1>1, FS_Subset
<1>4. tail \in Priorities /\ \A r \in Active : prio[r] < tail
  <2>1. CASE Active = {}
    BY <1>0, <2>1, GridAssumption DEF Tail, Priorities
  <2>2. CASE Active # {}
    <3>1. Last(prio, Active) \in Priorities /\ \A r \in Active : prio[r] <= Last(prio, Active)
      BY <1>0, <2>2, Extremes DEF Ordered
    <3>2. tail = TailPriority(Last(prio, Active)) /\ tail # Exhausted
      BY <1>1, <2>2 DEF Tail
    <3>3. \A r \in Active : prio[r] \in Priorities
      BY <1>0 DEF Ordered
    <3> HIDE DEF tail
    <3>4. tail \in Priorities /\ Last(prio, Active) < tail
      BY <1>0, <3>1, <3>2 DEF TailPriority, Priorities
    <3> QED BY <1>0, <3>1, <3>3, <3>4 DEF Priorities
  <2> QED BY <2>1, <2>2
<1>5. \A r \in chunk : /\ NextInChunk(chunk, r) \in Nat
                       /\ NextInChunk(chunk, r) <= Cardinality(chunk) - 1
  <2> TAKE r \in chunk
  <2>1. {s \in chunk : s < r} \subseteq chunk /\ {s \in chunk : s < r} # chunk
    BY <1>3
  <2> QED BY <1>3, <2>1, Ranks DEF NextInChunk
<1>6. \A r, s \in chunk : r < s => NextInChunk(chunk, r) < NextInChunk(chunk, s)
  <2> SUFFICES ASSUME NEW r \in chunk, NEW s \in chunk, r < s
               PROVE  NextInChunk(chunk, r) < NextInChunk(chunk, s)
    OBVIOUS
  <2>1. /\ {t \in chunk : t < r} \subseteq {t \in chunk : t < s}
        /\ {t \in chunk : t < r} # {t \in chunk : t < s}
    <3>1. \A t \in chunk : t \in Int
      BY <1>3
    <3>2. \A t \in chunk : t < r => t < s
      BY <3>1
    <3>3. r \in {t \in chunk : t < s} /\ r \notin {t \in chunk : t < r}
      BY <3>1
    <3> QED BY <3>2, <3>3
  <2>2. IsFiniteSet({t \in chunk : t < s})
    BY <1>3, FS_Subset
  <2> QED BY <2>1, <2>2, Ranks DEF NextInChunk
<1> HIDE DEF tail
<1>7. \A r \in chunk : prio'[r] \in Priorities /\ prio'[r] >= tail
  <2> TAKE r \in chunk
  <2>1. prio'[r] = tail + NextInChunk(chunk, r) * PriorityGap
    BY <1>1, <1>3
  <2>2. Cardinality(chunk) - 1 \in Nat
    BY <1>1, QueueBoundsAssumption
  <2>3. /\ NextInChunk(chunk, r) * PriorityGap \in Nat
        /\ (Cardinality(chunk) - 1) * PriorityGap \in Nat
        /\ NextInChunk(chunk, r) * PriorityGap <= (Cardinality(chunk) - 1) * PriorityGap
    BY <1>5, <2>2, GridSteps
  <2> QED BY <1>0, <1>1, <1>4, <2>1, <2>3 DEF Priorities
<1>8. \A r, s \in chunk : r < s => prio'[r] < prio'[s]
  <2> SUFFICES ASSUME NEW r \in chunk, NEW s \in chunk, r < s
               PROVE  prio'[r] < prio'[s]
    OBVIOUS
  <2>1. /\ prio'[r] = tail + NextInChunk(chunk, r) * PriorityGap
        /\ prio'[s] = tail + NextInChunk(chunk, s) * PriorityGap
    BY <1>1, <1>3
  <2>2. /\ NextInChunk(chunk, r) * PriorityGap \in Nat /\ NextInChunk(chunk, s) * PriorityGap \in Nat
        /\ NextInChunk(chunk, r) * PriorityGap + PriorityGap <= NextInChunk(chunk, s) * PriorityGap
    BY <1>5, <1>6, GridSteps
  <2> QED BY <1>0, <1>4, <2>1, <2>2 DEF Priorities
<1>9. /\ Active' = Active \cup chunk /\ \A r \in Rows \ chunk : prio'[r] = prio[r]
      /\ Active \cap chunk = {}
  BY <1>0, <1>1, <1>3 DEF Active
<1>10. TypeOK'
  <2>1. prio' \in [Rows -> Priorities \cup {Exhausted}]
    <3>1. \A r \in Rows : prio'[r] \in Priorities \cup {Exhausted}
      BY <1>0, <1>7, <1>9 DEF TypeOK
    <3>2. prio' = [r \in Rows |-> prio'[r]]
      BY <1>1
    <3> QED BY <3>1, <3>2
  <2> QED BY <1>0, <1>1, <1>2, <1>3, <2>1 DEF TypeOK
<1>11. Ordered(prio)'
  <2>0. \A r \in Active : prio[r] \in Priorities /\ r \in Rows /\ r \notin chunk
    BY <1>0, <1>9 DEF Ordered, Active
  <2>1. \A r \in Active' : prio'[r] \in Priorities
    BY <1>7, <1>9, <2>0
  <2>2. ASSUME NEW r \in Active', NEW s \in Active', prio'[r] = prio'[s], r # s
        PROVE  FALSE
    <3>1. CASE r \in chunk /\ s \in chunk
      <4>1. r < s \/ s < r
        BY <1>3, <2>2, <3>1
      <4>2. prio'[r] \in Int
        BY <1>0, <1>7, <3>1 DEF Priorities
      <4> QED BY <1>8, <2>2, <3>1, <4>1, <4>2
    <3>2. CASE r \in Active /\ s \in Active
      BY <1>0, <1>9, <2>0, <2>2, <3>2 DEF Ordered
    <3>3. ASSUME NEW x \in Active, NEW y \in chunk
          PROVE  prio'[x] # prio'[y]
      <4>1. prio'[x] = prio[x] /\ prio[x] < tail /\ prio'[y] >= tail
        BY <1>4, <1>7, <1>9, <2>0
      <4>2. prio[x] \in Int /\ prio'[y] \in Int /\ tail \in Int
        BY <1>0, <1>4, <1>7, <2>0 DEF Priorities
      <4> QED BY <4>1, <4>2
    <3> QED BY <1>9, <2>2, <3>1, <3>2, <3>3
  <2> QED BY <2>1, <2>2 DEF Ordered
<1>12. RowsLinked'
  <2>1. \A r \in Rows : /\ status'[r] = "ABSENT" => status[r] = "ABSENT" /\ r \notin chunk
                        /\ status[r] = "RUNNING" => status'[r] = "RUNNING"
    BY <1>1, <1>3
  <2>2. \A a \in Actors : /\ pc'[a] \in {"reread", "readd"} => a # q /\ pc[a] = pc'[a]
                          /\ todo'[a] = IF a = q THEN chunk ELSE todo[a]
    BY <1>0, <1>1, <1>2 DEF TypeOK
  <2> QED BY <1>0, <1>2, <2>1, <2>2 DEF RowsLinked
<1>13. CarriesPriority'
  <2> SUFFICES ASSUME Calm, NEW a \in Actors, NEW s \in Rows, Bringing(a, s)',
                      status'[s] \in ActiveStatuses
               PROVE  carried[a][s] = prio'[s]
    BY <1>2 DEF CarriesPriority, Calm
  <2>1. Bringing(a, s)
    BY <1>0, <1>1, <1>2 DEF Bringing, TypeOK
  <2>2. s \notin chunk /\ status[s] # "ABSENT"
    BY <1>0, <1>3, <2>1 DEF RowsLinked, Bringing
  <2>3. prio'[s] = prio[s] /\ status'[s] = status[s]
    BY <1>1, <2>2
  <2> QED BY <2>1, <2>3 DEF QueueInv, CarriesPriority
<1>14. MirrorAgrees'
  <2>1. \A s \in Rows : exec[s] # "absent" => s \notin chunk /\ prio'[s] = prio[s] /\ status'[s] = status[s]
    BY <1>0, <1>1, <1>3 DEF RowsLinked
  <2>2. \A m \in Movers : pc[m] = "mirror" => pc'[m] = "mirror" /\ todo'[m] = todo[m]
    BY <1>0, <1>1, <1>2 DEF TypeOK, Actors
  <2> QED BY <1>2, <2>1, <2>2 DEF QueueInv, MirrorAgrees
<1> QED BY <1>10, <1>11, <1>12, <1>13, <1>14 DEF QueueInv

-----------------------------------------------------------------------------
\* The rest of a row's life, and the boot

\* A row moves on, with its execution or without; the requests do not notice.
LEMMA LifeOfRow ==
  ASSUME QueueInv, NEW r \in Rows, NEW to \in {"DONE", "PAUSED", "QUEUED", "RUNNING"},
         status[r] \in ActiveStatuses,
         status' = [status EXCEPT ![r] = to],
         prio' = [prio EXCEPT ![r] = IF to = "DONE" THEN Exhausted ELSE @],
         UNCHANGED <<requestVars, events>>,
         \A s \in Rows \ {r} : exec'[s] = exec[s] /\ execPrio'[s] = execPrio[s],
         exec' \in [Rows -> ExecStates], execPrio' \in [Rows -> Priorities \cup {Exhausted}],
         exec'[r] = "running" => to = "RUNNING",
         \/ exec'[r] = "absent"
         \/ exec[r] # "absent" /\ execPrio'[r] = execPrio[r] /\ status[r] \in {"QUEUED", "RUNNING"}
  PROVE  QueueInv'
<1>0. TypeOK /\ RowsLinked /\ Ordered(prio)
  BY DEF QueueInv
<1>1. \A s \in Rows \ {r} : status'[s] = status[s] /\ prio'[s] = prio[s]
  BY <1>0 DEF TypeOK
<1>2. status'[r] = to /\ prio'[r] = IF to = "DONE" THEN Exhausted ELSE prio[r]
  BY <1>0 DEF TypeOK
<1>3. TypeOK'
  BY <1>0 DEF TypeOK
<1>4. Ordered(prio)'
  <2>1. Active' \subseteq Active /\ \A s \in Active' : prio'[s] = prio[s]
    BY <1>1, <1>2 DEF Active
  <2> QED BY <1>0, <2>1, OrderedKept
<1>5. RowsLinked'
  BY <1>0, <1>1, <1>2 DEF RowsLinked
<1>6. CarriesPriority'
  <2>1. \A a \in Actors, s \in Rows : Bringing(a, s)' => Bringing(a, s)
    BY DEF Bringing
  <2>2. \A s \in Rows : status'[s] \in ActiveStatuses => status[s] \in ActiveStatuses /\ prio'[s] = prio[s]
    BY <1>1, <1>2
  <2> QED BY <2>1, <2>2 DEF QueueInv, CarriesPriority, Calm
<1>7. MirrorAgrees'
  <2>1. \A s \in Rows : status'[s] \in {"QUEUED", "RUNNING"} /\ exec'[s] # "absent" =>
           /\ status[s] \in {"QUEUED", "RUNNING"} /\ exec[s] # "absent"
           /\ execPrio'[s] = execPrio[s] /\ prio'[s] = prio[s]
    BY <1>1, <1>2
  <2> QED BY <2>1 DEF QueueInv, MirrorAgrees
<1> QED BY <1>3, <1>4, <1>5, <1>6, <1>7 DEF QueueInv

\* The owner pauses or cancels; the worker claims, settles, pauses, hands back.
LEMMA RowKeeps ==
  ASSUME QueueInv, NEW r \in Rows,
         \/ Pause(r) \/ Cancel(r) \/ Claim(r)
         \/ \E to \in {"DONE", "PAUSED", "QUEUED"} : Leave(r, to)
  PROVE  QueueInv'
<1>0. TypeOK /\ RowsLinked /\ Ordered(prio)
  BY DEF QueueInv
<1>1. ASSUME Gone(r)
      PROVE  /\ exec' \in [Rows -> ExecStates] /\ execPrio' \in [Rows -> Priorities \cup {Exhausted}]
             /\ exec'[r] = "absent"
             /\ \A s \in Rows \ {r} : exec'[s] = exec[s] /\ execPrio'[s] = execPrio[s]
  BY <1>0, <1>1 DEF Gone, TypeOK
<1>2. ASSUME Pause(r) \/ Cancel(r)
      PROVE  QueueInv'
  <2>1. PICK to \in {"DONE", "PAUSED"} : Withdraw(r, to) /\ status[r] \in ActiveStatuses
    BY <1>2 DEF Pause, Cancel
  <2>2. /\ status' = [status EXCEPT ![r] = to]
        /\ prio' = [prio EXCEPT ![r] = IF to = "DONE" THEN Exhausted ELSE @]
        /\ UNCHANGED <<requestVars, events>>
        /\ Gone(r) \/ (exec[r] = "absent" /\ UNCHANGED execVars)
    BY <2>1 DEF Withdraw, Becomes
  <2>3. /\ exec' \in [Rows -> ExecStates] /\ execPrio' \in [Rows -> Priorities \cup {Exhausted}]
        /\ exec'[r] = "absent"
        /\ \A s \in Rows \ {r} : exec'[s] = exec[s] /\ execPrio'[s] = execPrio[s]
    BY <1>0, <1>1, <2>2 DEF TypeOK
  <2> QED BY <2>1, <2>2, <2>3, LifeOfRow
<1>3. CASE Claim(r) /\ status[r] = "QUEUED"
  <2>1. /\ status' = [status EXCEPT ![r] = "RUNNING"] /\ exec' = [exec EXCEPT ![r] = "running"]
        /\ exec[r] = "waiting" /\ UNCHANGED <<prio, execPrio, requestVars, events>>
    BY <1>3 DEF Claim
  <2>2. prio' = [prio EXCEPT ![r] = IF "RUNNING" = "DONE" THEN Exhausted ELSE @]
    BY <1>0, <2>1 DEF TypeOK
  <2>3. /\ exec' \in [Rows -> ExecStates] /\ execPrio' \in [Rows -> Priorities \cup {Exhausted}]
        /\ \A s \in Rows \ {r} : exec'[s] = exec[s] /\ execPrio'[s] = execPrio[s]
        /\ exec[r] # "absent" /\ execPrio'[r] = execPrio[r] /\ status[r] \in {"QUEUED", "RUNNING"}
    BY <1>0, <1>3, <2>1 DEF TypeOK
  <2> QED BY <2>1, <2>2, <2>3, LifeOfRow
<1>4. CASE Claim(r) /\ status[r] # "QUEUED"
  <2>1. Gone(r) /\ UNCHANGED <<status, prio, requestVars, events>>
    BY <1>4 DEF Claim
  <2>2. TypeOK' /\ Ordered(prio)' /\ RowsLinked'
    BY <1>0, <1>1, <2>1 DEF TypeOK, Ordered, Active, RowsLinked
  <2>3. CarriesPriority'
    BY <2>1 DEF QueueInv, CarriesPriority, Bringing, Calm
  <2>4. MirrorAgrees'
    <3>1. \A s \in Rows : exec'[s] # "absent" => exec[s] # "absent" /\ execPrio'[s] = execPrio[s]
      BY <1>1, <2>1
    <3> QED BY <2>1, <3>1 DEF QueueInv, MirrorAgrees
  <2> QED BY <2>2, <2>3, <2>4 DEF QueueInv
<1>5. ASSUME NEW to \in {"DONE", "PAUSED", "QUEUED"}, Leave(r, to)
      PROVE  QueueInv'
  <2>1. /\ exec[r] = "running" /\ status[r] = "RUNNING"
        /\ status' = [status EXCEPT ![r] = to]
        /\ prio' = [prio EXCEPT ![r] = IF to = "DONE" THEN Exhausted ELSE @]
        /\ UNCHANGED <<requestVars, events>>
    BY <1>0, <1>5 DEF Leave, Becomes, RowsLinked
  <2>2. \/ Gone(r)
        \/ exec' = [exec EXCEPT ![r] = "waiting"] /\ UNCHANGED execPrio
    BY <1>5 DEF Leave
  <2>3. CASE Gone(r)
    BY <1>1, <2>1, <2>3, LifeOfRow
  <2>4. CASE exec' = [exec EXCEPT ![r] = "waiting"] /\ UNCHANGED execPrio
    <3>1. /\ exec' \in [Rows -> ExecStates] /\ execPrio' \in [Rows -> Priorities \cup {Exhausted}]
          /\ \A s \in Rows \ {r} : exec'[s] = exec[s] /\ execPrio'[s] = execPrio[s]
          /\ exec'[r] # "running" /\ execPrio'[r] = execPrio[r]
      BY <1>0, <2>4 DEF TypeOK
    <3> QED BY <2>1, <3>1, LifeOfRow
  <2> QED BY <2>2, <2>3, <2>4
<1> QED BY <1>2, <1>3, <1>4, <1>5

\* The reconciler lists the queued rows with their priorities.
LEMMA BootListKeeps == QueueInv /\ BootList => QueueInv'
<1> SUFFICES ASSUME QueueInv, BootList
             PROVE  QueueInv'
  OBVIOUS
<1>0. TypeOK /\ RowsLinked /\ Ordered(prio) /\ Boot \in Actors
  BY DEF QueueInv, Actors
<1>1. /\ pc[Boot] = "idle" /\ Event("boot") /\ UNCHANGED <<status, prio, exec, execPrio>>
      /\ todo' = [todo EXCEPT ![Boot] = {r \in Rows : status[r] = "QUEUED"}]
      /\ carried' = [carried EXCEPT ![Boot] =
                        [r \in Rows |-> IF status[r] = "QUEUED" THEN prio[r] ELSE Exhausted]]
      /\ pc' = [pc EXCEPT ![Boot] = "boot"]
  BY DEF BootList, Goto
<1>2. events' \in [EventKinds \cup {"any"} -> Nat] /\ (Calm' => Calm)
  BY <1>0, <1>1, EventLeaves DEF TypeOK
<1>3. TypeOK'
  <2>1. [r \in Rows |-> IF status[r] = "QUEUED" THEN prio[r] ELSE Exhausted]
          \in [Rows -> Priorities \cup {Exhausted}]
    BY <1>0 DEF TypeOK
  <2>2. carried' \in [Actors -> [Rows -> Priorities \cup {Exhausted}]]
    BY <1>0, <1>1, <2>1 DEF TypeOK
  <2> QED BY <1>0, <1>1, <1>2, <2>2 DEF TypeOK
<1>4. Ordered(prio)'
  BY <1>0, <1>1 DEF Ordered, Active
<1>5. /\ todo'[Boot] = {r \in Rows : status[r] = "QUEUED"} /\ pc'[Boot] = "boot"
      /\ \A r \in todo'[Boot] : carried'[Boot][r] = prio[r]
      /\ \A a \in Actors \ {Boot} : todo'[a] = todo[a] /\ pc'[a] = pc[a] /\ carried'[a] = carried[a]
  BY <1>0, <1>1 DEF TypeOK
<1>6. RowsLinked'
  BY <1>0, <1>1, <1>5 DEF RowsLinked
<1>7. CarriesPriority'
  <2> SUFFICES ASSUME Calm, NEW a \in Actors, NEW s \in Rows, Bringing(a, s)',
                      status[s] \in ActiveStatuses
               PROVE  carried'[a][s] = prio[s]
    BY <1>1, <1>2 DEF CarriesPriority
  <2>1. CASE a = Boot
    BY <1>5, <2>1 DEF Bringing
  <2>2. CASE a # Boot
    <3>1. Bringing(a, s)
      BY <1>5, <2>2 DEF Bringing
    <3> QED BY <1>5, <2>2, <3>1 DEF QueueInv, CarriesPriority
  <2> QED BY <2>1, <2>2
<1>8. MirrorAgrees'
  <2>1. \A m \in Movers : pc'[m] = pc[m] /\ todo'[m] = todo[m]
    BY <1>5 DEF Actors
  <2>2. Calm' => Calm
    BY <1>2
  <2> QED BY <1>1, <2>1, <2>2 DEF QueueInv, MirrorAgrees, Calm
<1> QED BY <1>3, <1>4, <1>6, <1>7, <1>8 DEF QueueInv

-----------------------------------------------------------------------------
\* Moves

\* The grid keeps the order of the rows.
LEMMA RenumberedOrdered ==
  ASSUME TypeOK, Ordered(prio), GridFits(Cardinality(Active))
  PROVE  /\ Renumbered \in [Rows -> Priorities \cup {Exhausted}] /\ Ordered(Renumbered)
         /\ \A s, t \in Active : prio[s] < prio[t] <=> Renumbered[s] < Renumbered[t]
<1>0. /\ BullmqPriorityMax \in Nat /\ PriorityGap \in Nat /\ PriorityStart \in Nat
      /\ PriorityGap >= 2 /\ PriorityStart > PriorityGap
  BY GridAssumption
<1>1. Cardinality(Active) \in Nat /\ (Cardinality(Active) - Cardinality(Active)) * PriorityGap = 0
  BY <1>0, EarlierRanks
<1>2. \A r \in Active : Renumbered[r] \in Nat /\ Renumbered[r] >= PriorityStart
                        /\ Renumbered[r] <= BullmqPriorityMax
  <2> DEFINE n == Cardinality(Active)
  <2>1. \A r \in Active : /\ Renumbered[r] \in Nat /\ Renumbered[r] >= PriorityStart
                          /\ Renumbered[r] + (n - Cardinality(Active)) * PriorityGap <= BullmqPriorityMax
    BY <1>1, RenumberedFits
  <2> QED BY <1>0, <1>1, <2>1
<1>3. \A r, s \in Active : prio[r] < prio[s] => Renumbered[r] + PriorityGap <= Renumbered[s]
  BY <1>1, RenumberedFits
<1>4. \A r \in Active : prio[r] \in Int
  BY <1>0 DEF Ordered, Priorities
<1>5. \A s, t \in Active : prio[s] < prio[t] <=> Renumbered[s] < Renumbered[t]
  <2> SUFFICES ASSUME NEW s \in Active, NEW t \in Active
               PROVE  prio[s] < prio[t] <=> Renumbered[s] < Renumbered[t]
    OBVIOUS
  <2>1. s # t => prio[s] < prio[t] \/ prio[t] < prio[s]
    BY <1>4 DEF Ordered
  <2>2. Renumbered[s] \in Nat /\ Renumbered[t] \in Nat /\ prio[s] \in Int /\ prio[t] \in Int
    BY <1>2, <1>4
  <2>3. /\ prio[s] < prio[t] => Renumbered[s] < Renumbered[t]
        /\ prio[t] < prio[s] => Renumbered[t] < Renumbered[s]
    BY <1>0, <1>3, <2>2
  <2> HIDE DEF Renumbered
  <2> QED BY <2>1, <2>2, <2>3
<1>6. Ordered(Renumbered)
  <2>1. \A r \in Active : Renumbered[r] \in Priorities
    BY <1>0, <1>2 DEF Priorities
  <2>2. ASSUME NEW s \in Active, NEW t \in Active, Renumbered[s] = Renumbered[t]
        PROVE  s = t
    <3>1. ~(prio[s] < prio[t]) /\ ~(prio[t] < prio[s])
      BY <1>2, <1>5, <2>2
    <3> QED BY <1>4, <3>1 DEF Ordered
  <2> QED BY <2>1, <2>2 DEF Ordered
<1>7. Renumbered \in [Rows -> Priorities \cup {Exhausted}]
  <2>1. \A r \in Rows \ Active : Renumbered[r] = prio[r]
    BY DEF Renumbered
  <2>2. \A r \in Rows : Renumbered[r] \in Priorities \cup {Exhausted}
    BY <1>6, <2>1 DEF TypeOK, Ordered
  <2>3. Renumbered = [r \in Rows |-> Renumbered[r]]
    BY DEF Renumbered
  <2> QED BY <2>2, <2>3
<1> QED BY <1>5, <1>6, <1>7

\* Filling a slot keeps the others where they are, and every priority its own.
LEMMA SlotFilled ==
  ASSUME NEW p \in [Rows -> Priorities \cup {Exhausted}], Ordered(p),
         NEW r \in Rows, status[r] \in Waiting, NEW place \in Places(r),
         Slot(p, r, place) # Exhausted,
         NEW q, q = [p EXCEPT ![r] = Slot(p, r, place)]
  PROVE  /\ q \in [Rows -> Priorities \cup {Exhausted}] /\ Ordered(q) /\ Placed(q, r, place)
         /\ \A s \in Rows \ {r} : q[s] = p[s]
<1> DEFINE x == Slot(p, r, place)
<1>1. x \in Priorities /\ (\A s \in Active \ {r} : p[s] # x) /\ Placed(q, r, place)
  BY SlotFits
<1> HIDE DEF x
<1>2. q[r] = x /\ \A s \in Rows \ {r} : q[s] = p[s]
  BY DEF x
<1>3. Active \subseteq Rows
  BY DEF Active
<1>4. Ordered(q)
  BY <1>1, <1>2, <1>3 DEF Ordered
<1> QED BY <1>1, <1>2, <1>4 DEF x

\* A move that commits keeps the invariant when it tells every row whose priority
\* it changed and whose order BullMQ knows.
LEMMA CommitKeeps ==
  ASSUME QueueInv, NEW q \in Movers, NEW r \in Rows, status[r] \in Waiting, pc[q] = "idle",
         NEW p \in [Rows -> Priorities \cup {Exhausted}], Ordered(p),
         NEW changed \in {{}, Active},
         \A s \in Rows : status[s] \in {"QUEUED", "RUNNING"} /\ p[s] # prio[s] => s \in Told(r, changed),
         Committed(q, r, p, changed)
  PROVE  QueueInv'
<1>0. TypeOK /\ RowsLinked /\ Ordered(prio) /\ q \in Actors
  BY DEF QueueInv, Actors
<1> DEFINE tell == Told(r, changed)
<1>1. /\ tell \subseteq Rows
      /\ \A s \in tell : status[s] \in ActiveStatuses
  BY DEF Told, Active
<1>2. PICK k \in {"overlap", "move"} :
        Event(k) /\ (k = "move" => \A a \in Actors : ~Holds(a))
  BY DEF Committed
<1>3. /\ prio' = p /\ UNCHANGED <<status, exec, execPrio>>
      /\ todo' = [todo EXCEPT ![q] = tell]
      /\ carried' = [carried EXCEPT ![q] = [s \in Rows |-> IF s \in tell THEN p[s] ELSE Exhausted]]
      /\ pc' = [pc EXCEPT ![q] = IF tell = {} THEN "idle" ELSE "mirror"]
  BY DEF Committed, Goto
<1> HIDE DEF tell
<1>4. /\ todo'[q] = tell /\ pc'[q] = IF tell = {} THEN "idle" ELSE "mirror"
      /\ \A s \in tell : carried'[q][s] = p[s]
      /\ \A a \in Actors \ {q} : todo'[a] = todo[a] /\ pc'[a] = pc[a] /\ carried'[a] = carried[a]
  BY <1>0, <1>1, <1>3 DEF TypeOK
<1>5. events' \in [EventKinds \cup {"any"} -> Nat] /\ (Calm' => Calm /\ \A a \in Actors : ~Holds(a))
  BY <1>0, <1>2, EventLeaves DEF TypeOK
<1>6. TypeOK'
  <2>1. [s \in Rows |-> IF s \in tell THEN p[s] ELSE Exhausted] \in [Rows -> Priorities \cup {Exhausted}]
    OBVIOUS
  <2>2. carried' \in [Actors -> [Rows -> Priorities \cup {Exhausted}]]
    BY <1>0, <1>3, <2>1 DEF TypeOK
  <2>3. todo' \in [Actors -> SUBSET Rows] /\ pc' \in [Actors -> Steps]
    BY <1>0, <1>1, <1>3 DEF TypeOK
  <2> QED BY <1>0, <1>3, <1>5, <2>2, <2>3 DEF TypeOK
<1>7. Ordered(prio)'
  BY <1>3 DEF Ordered, Active
<1>8. RowsLinked'
  BY <1>0, <1>1, <1>3, <1>4 DEF RowsLinked
<1>9. CarriesPriority'
  <2> SUFFICES ASSUME Calm', NEW a \in Actors, NEW s \in Rows, Bringing(a, s)'
               PROVE  carried'[a][s] = p[s]
    BY <1>3 DEF CarriesPriority
  <2>1. CASE a = q
    BY <1>4, <2>1 DEF Bringing
  <2>2. CASE a # q
    BY <1>4, <1>5, <2>2 DEF Bringing, Holds
  <2> QED BY <2>1, <2>2
<1>10. MirrorAgrees'
  <2> SUFFICES ASSUME Calm', NEW s \in Rows, status[s] \in {"QUEUED", "RUNNING"}, exec[s] # "absent"
               PROVE  \/ execPrio[s] = p[s]
                      \/ \E m \in Movers : pc'[m] = "mirror" /\ s \in todo'[m]
    BY <1>3 DEF MirrorAgrees, Calm
  <2>1. execPrio[s] = prio[s]
    <3>1. \A m \in Movers : pc[m] # "mirror"
      BY <1>5 DEF Holds, Actors
    <3> QED BY <1>5, <3>1 DEF QueueInv, MirrorAgrees, Calm
  <2>2. CASE s \in tell
    BY <1>4, <2>2
  <2>3. CASE s \notin tell
    BY <2>1, <2>3 DEF tell
  <2> QED BY <2>2, <2>3
<1> QED BY <1>6, <1>7, <1>8, <1>9, <1>10 DEF QueueInv

\* What a move writes: the slot among the priorities there are, or among the
\* renumbered ones.
LEMMA MoveWrites ==
  ASSUME QueueInv, NEW q \in Movers, NEW r \in Rows, NEW place \in Places(r), Move(q, r, place)
  PROVE  /\ status[r] \in Waiting /\ pc[q] = "idle"
         /\ prio' \in [Rows -> Priorities \cup {Exhausted}]
         /\ Ordered(prio) /\ Placed(prio', r, place)
         /\ \A s, t \in Active \ {r} : prio[s] < prio[t] <=> prio'[s] < prio'[t]
         /\ QueueInv'
<1>0. TypeOK /\ Ordered(prio) /\ status[r] \in Waiting /\ pc[q] = "idle"
  BY DEF QueueInv, Move, MoveDirect, MoveRenumbered, Movable
<1>1. CASE MoveDirect(q, r, place)
  <2> DEFINE p == [prio EXCEPT ![r] = Slot(prio, r, place)]
  <2>1. Slot(prio, r, place) # Exhausted /\ Committed(q, r, p, {}) /\ prio' = p
    BY <1>1 DEF MoveDirect, Committed
  <2>2. prio \in [Rows -> Priorities \cup {Exhausted}]
    BY <1>0 DEF TypeOK
  <2> HIDE DEF p
  <2>3. /\ p \in [Rows -> Priorities \cup {Exhausted}] /\ Ordered(p) /\ Placed(p, r, place)
        /\ \A s \in Rows \ {r} : p[s] = prio[s]
    BY <1>0, <2>1, <2>2, SlotFilled DEF p
  <2>4. \A s \in Rows : status[s] \in {"QUEUED", "RUNNING"} /\ p[s] # prio[s] => s \in Told(r, {})
    BY <1>0, <2>3 DEF Told
  <2>5. QueueInv'
    BY <1>0, <2>1, <2>3, <2>4, CommitKeeps
  <2>6. \A s, t \in Active \ {r} : prio[s] < prio[t] <=> p[s] < p[t]
    BY <2>3 DEF Active
  <2> QED BY <1>0, <2>1, <2>3, <2>5, <2>6
<1>2. CASE MoveRenumbered(q, r, place)
  <2> DEFINE p == [Renumbered EXCEPT ![r] = Slot(Renumbered, r, place)]
  <2>1. /\ GridFits(Cardinality(Active)) /\ Slot(Renumbered, r, place) # Exhausted
        /\ Committed(q, r, p, Active) /\ prio' = p
    BY <1>2 DEF MoveRenumbered, Committed
  <2>2. /\ Renumbered \in [Rows -> Priorities \cup {Exhausted}] /\ Ordered(Renumbered)
        /\ \A s, t \in Active : prio[s] < prio[t] <=> Renumbered[s] < Renumbered[t]
    BY <1>0, <2>1, RenumberedOrdered
  <2> HIDE DEF p
  <2>3. /\ p \in [Rows -> Priorities \cup {Exhausted}] /\ Ordered(p) /\ Placed(p, r, place)
        /\ \A s \in Rows \ {r} : p[s] = Renumbered[s]
    BY <1>0, <2>1, <2>2, SlotFilled DEF p
  <2>4. \A s \in Rows : status[s] \in {"QUEUED", "RUNNING"} /\ p[s] # prio[s] => s \in Told(r, Active)
    BY <1>0 DEF Told, Active
  <2>5. QueueInv'
    BY <1>0, <2>1, <2>3, <2>4, CommitKeeps
  <2>6. \A s, t \in Active \ {r} : prio[s] < prio[t] <=> p[s] < p[t]
    BY <2>2, <2>3 DEF Active
  <2> QED BY <1>0, <2>1, <2>3, <2>5, <2>6
<1> QED BY <1>1, <1>2 DEF Move

-----------------------------------------------------------------------------
\* Every step keeps the invariant.
LEMMA NextKeeps == QueueInv /\ [Next]_vars => QueueInv'
<1> SUFFICES ASSUME QueueInv, [Next]_vars
             PROVE  QueueInv'
  OBVIOUS
<1>1. CASE UNCHANGED vars
  BY <1>1 DEF vars, QueueInv, TypeOK, Ordered, Active, RowsLinked, CarriesPriority, Bringing,
              MirrorAgrees, Calm
<1>2. ASSUME NEW q \in Adders, NEW r \in Rows, Add(q, r) \/ ResumeAdd(q, r)
      PROVE  QueueInv'
  <2>1. PICK step \in {"idle", "read"} :
          /\ AddExecution(r, carried[q][r]) /\ NextRow(q, r, step) /\ UNCHANGED <<rowVars, events>>
          /\ r \in todo[q] /\ pc[q] \in {"add", "readd"} /\ Bringing(q, r)
    BY <1>2 DEF Add, ResumeAdd, Bringing
  <2> QED BY <2>1, TurnKeeps DEF Actors
<1>3. ASSUME NEW r \in Rows, BootAdd(r)
      PROVE  QueueInv'
  <2>1. /\ AddExecution(r, carried[Boot][r]) /\ NextRow(Boot, r, "boot") /\ UNCHANGED <<rowVars, events>>
        /\ r \in todo[Boot] /\ pc[Boot] = "boot" /\ Bringing(Boot, r)
    BY <1>3 DEF BootAdd, Bringing
  <2> QED BY <2>1, TurnKeeps DEF Actors
<1>4. ASSUME NEW q \in Movers, NEW r \in Rows, NEW place \in Places(r), Move(q, r, place)
      PROVE  QueueInv'
  BY <1>4, MoveWrites
<1> HIDE DEF Requests
<1>5. Adders \subseteq Requests /\ Movers \subseteq Requests
  BY DEF Requests
<1>6. CASE Next
  BY <1>2, <1>3, <1>4, <1>5, <1>6, ReadKeeps, RefusalKeeps, ApiDiesKeeps, MirrorKeeps, ResumeKeeps,
     EnqueueKeeps, RowKeeps, BootListKeeps, Zenon DEF Next
<1> QED BY <1>1, <1>6

LEMMA Invariance == Spec => []QueueInv
<1>1. Init => QueueInv
  <2>1. Init => TypeOK
    BY DEF Init, TypeOK
  <2>2. Init => Active = {}
    BY DEF Init, Active
  <2>3. Init => RowsLinked /\ CarriesPriority /\ MirrorAgrees
    BY DEF Init, RowsLinked, CarriesPriority, Bringing, MirrorAgrees
  <2> QED BY <2>1, <2>2, <2>3 DEF QueueInv, Ordered
<1> QED BY <1>1, NextKeeps, PTL DEF Spec

-----------------------------------------------------------------------------
\* Renumbering with a free place at the end leaves room everywhere.
LEMMA PlaceFound ==
  ASSUME QueueInv, GridFits(Cardinality(Active) + 1),
         NEW r \in Rows, status[r] \in Waiting, NEW place \in Places(r)
  PROVE  Slot(Renumbered, r, place) # Exhausted
<1> DEFINE n == Cardinality(Active) + 1
           others == Active \ {r}
           x == Slot(Renumbered, r, place)
<1>0. /\ BullmqPriorityMax \in Nat /\ PriorityGap \in Nat /\ PriorityStart \in Nat
      /\ PriorityGap >= 2 /\ PriorityStart > PriorityGap /\ PriorityStart <= BullmqPriorityMax
      /\ TypeOK /\ Ordered(prio)
  BY GridAssumption DEF QueueInv
<1>1. Cardinality(Active) \in Nat /\ n \in Nat /\ n >= Cardinality(Active) /\ n > 0
      /\ (n - Cardinality(Active)) * PriorityGap = PriorityGap
  BY <1>0, EarlierRanks
<1>2. /\ \A s \in Active :
           /\ Renumbered[s] \in Nat /\ Renumbered[s] >= PriorityStart
           /\ Renumbered[s] + (n - Cardinality(Active)) * PriorityGap <= BullmqPriorityMax
      /\ \A s, t \in Active : prio[s] < prio[t] => Renumbered[s] + PriorityGap <= Renumbered[t]
  <2>1. GridFits(n)
    OBVIOUS
  <2> HIDE DEF n
  <2> QED BY <1>0, <1>1, <2>1, RenumberedFits
<1>3. \A s \in Active : /\ Renumbered[s] \in Priorities /\ Renumbered[s] > PriorityGap
                        /\ Renumbered[s] + PriorityGap <= BullmqPriorityMax
  <2> TAKE s \in Active
  <2>1. /\ Renumbered[s] \in Nat /\ Renumbered[s] >= PriorityStart
        /\ Renumbered[s] + PriorityGap <= BullmqPriorityMax
    BY <1>1, <1>2
  <2> HIDE DEF n
  <2> QED BY <1>0, <2>1 DEF Priorities
<1>4. \A s \in Active : prio[s] \in Int
  BY <1>0 DEF Ordered, Priorities
<1> DEFINE p == Renumbered
<1> HIDE DEF p
<1>5. CASE place = Top
  <2>1. x = Head(p, others)
    BY <1>5 DEF Slot, Top, p
  <2>2. CASE others = {}
    BY <1>0, <2>1, <2>2 DEF Head, Exhausted
  <2>3. CASE others # {}
    <3>1. PICK s \in others : First(p, others) = p[s]
      BY <1>3, <2>3, Extremes DEF p
    <3>2. p[s] \in Nat /\ p[s] > PriorityGap
      BY <1>0, <1>3, <3>1 DEF Priorities, p
    <3>3. x = HeadPriority(p[s])
      BY <2>1, <2>3, <3>1 DEF Head
    <3> QED BY <1>0, <3>2, <3>3 DEF HeadPriority, Exhausted
  <2> QED BY <2>2, <2>3
<1>6. CASE place = Bottom
  <2>1. x = Tail(p, others)
    BY <1>6 DEF Slot, Bottom, p
  <2>2. CASE others = {}
    BY <1>0, <2>1, <2>2 DEF Tail, Exhausted
  <2>3. CASE others # {}
    <3>1. PICK s \in others : Last(p, others) = p[s]
      BY <1>3, <2>3, Extremes DEF p
    <3>2. p[s] \in Nat /\ p[s] + PriorityGap <= BullmqPriorityMax
      BY <1>0, <1>3, <3>1 DEF Priorities, p
    <3>3. x = TailPriority(p[s])
      BY <2>1, <2>3, <3>1 DEF Tail
    <3> QED BY <1>0, <3>2, <3>3 DEF TailPriority, Exhausted
  <2> QED BY <2>2, <2>3
<1>7. ASSUME NEW a \in Rows \ {r}, status[a] \in Waiting, place = After(a)
      PROVE  x # Exhausted
  <2> DEFINE later == {s \in others : p[s] > p[a]}
  <2>1. a \in Active /\ p[a] \in Nat /\ p[a] + PriorityGap <= BullmqPriorityMax
    BY <1>0, <1>3, <1>7 DEF Priorities, p, Active
  <2>2. x = IF later = {} THEN TailPriority(p[a]) ELSE MidpointPriority(p[a], First(p, later))
    BY <1>7 DEF Slot, After, p
  <2>3. CASE later = {}
    BY <1>0, <2>1, <2>2, <2>3 DEF TailPriority, Exhausted
  <2>4. CASE later # {}
    <3>1. PICK s \in later : First(p, later) = p[s]
      BY <1>3, <2>4, Extremes DEF p
    <3>2. s \in Active /\ p[s] > p[a] /\ p[s] \in Nat
      BY <1>3, <3>1 DEF Priorities, p
    <3>3. ~(prio[s] < prio[a]) /\ s # a
      BY <1>0, <1>2, <2>1, <3>2 DEF p
    <3>4. prio[a] < prio[s]
      BY <1>0, <1>4, <2>1, <3>2, <3>3 DEF Ordered
    <3>5. p[a] + PriorityGap <= p[s]
      BY <1>2, <2>1, <3>2, <3>4 DEF p
    <3>6. x = (p[a] + p[s]) \div 2
      BY <1>0, <2>1, <2>2, <2>4, <3>1, <3>2, <3>5 DEF MidpointPriority
    <3> HIDE DEF x
    <3> QED BY <1>0, <2>1, <3>2, <3>5, <3>6 DEF Exhausted
  <2> QED BY <2>3, <2>4
<1>8. place \in {Top, Bottom} \/ \E a \in Rows \ {r} : status[a] \in Waiting /\ place = After(a)
  BY DEF Places
<1> QED BY <1>5, <1>6, <1>7, <1>8

\* The state of the queue is well typed: priorities stay on the range, a request
\* carries one of them or none.
THEOREM TypeCorrect == Spec => []TypeOK
<1>1. QueueInv => TypeOK
  BY DEF QueueInv
<1> QED BY <1>1, Invariance, PTL

\* Two active downloads never share a priority: enqueues, moves and renumbers
\* allocate under one lock, from what is active.
THEOREM PrioritiesDistinctHolds == Spec => []PrioritiesDistinct
<1>1. QueueInv => PrioritiesDistinct
  BY DEF QueueInv, Ordered, PrioritiesDistinct
<1> QED BY <1>1, Invariance, PTL

\* An active row always has a priority BullMQ accepts: what does not fit is refused.
THEOREM PrioritiesInRangeHolds == Spec => []PrioritiesInRange
<1>1. QueueInv => PrioritiesInRange
  BY DEF QueueInv, Ordered, PrioritiesInRange
<1> QED BY <1>1, Invariance, PTL

\* Renumbering makes room: with a free place at the end of the grid every move of
\* a waiting row finds its slot, whatever the moves before it left.
THEOREM MoveFindsPlaceHolds == Spec => []MoveFindsPlace
<1>1. QueueInv => MoveFindsPlace
  BY PlaceFound DEF MoveFindsPlace
<1> QED BY <1>1, Invariance, PTL

\* BullMQ follows the owner's order while no move overlaps another actor, nothing
\* is refused and no request is cut off: whoever holds a priority delivers the one
\* the row has.
THEOREM MirrorAgreesHolds == Spec => []MirrorAgrees
<1>1. QueueInv => MirrorAgrees
  BY DEF QueueInv
<1> QED BY <1>1, Invariance, PTL

\* A move puts its row where the owner asked and keeps the order of the others,
\* with a renumbering or without.
THEOREM MoveReordersHolds == Spec => MoveReorders
<1>1. QueueInv /\ [Next]_vars =>
        [prio' # prio /\ status' = status =>
           \A q \in Movers, r \in Rows : \A place \in Places(r) :
             Move(q, r, place) =>
                /\ Placed(prio', r, place)
                /\ \A s, t \in Active \ {r} : prio[s] < prio[t] <=> prio'[s] < prio'[t]]_vars
  BY MoveWrites
<1> QED BY <1>1, Invariance, PTL DEF Spec, MoveReorders
=============================================================================

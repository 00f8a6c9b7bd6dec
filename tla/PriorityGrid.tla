---------------------------- MODULE PriorityGrid -----------------------------
(***************************************************************************)
(* core/domain/priority.ts: gap-based allocation of queue priorities.      *)
(* BullMQ runs the lowest priority first and takes integers from 1 to      *)
(* BullmqPriorityMax.  A slot that does not exist (the code throws         *)
(* PriorityExhaustedError) is Exhausted, which is no priority.             *)
(***************************************************************************)
EXTENDS Integers

CONSTANTS PriorityStart, PriorityGap, BullmqPriorityMax

\* A renumbered queue must leave room before its head and between neighbours.
ASSUME GridAssumption ==
    /\ PriorityStart \in Nat /\ PriorityGap \in Nat /\ BullmqPriorityMax \in Nat
    /\ PriorityGap >= 2
    /\ PriorityStart > PriorityGap
    /\ PriorityStart <= BullmqPriorityMax

Exhausted == 0
Priorities == 1..BullmqPriorityMax

\* Mutant: the ceiling is not looked at.
TailPriorityUnbounded(last) == last + PriorityGap
\* The end of a queue whose last priority is last.
TailPriority(last) ==
    IF last + PriorityGap > BullmqPriorityMax THEN Exhausted ELSE last + PriorityGap

\* Mutant: the floor is not looked at.
HeadPriorityUnbounded(first) == first - PriorityGap
\* The front of a queue whose first priority is first.
HeadPriority(first) ==
    IF first > PriorityGap THEN first - PriorityGap ELSE Exhausted

\* Strictly between two neighbours.
MidpointPriority(lower, upper) ==
    IF upper - lower < 2 THEN Exhausted ELSE (lower + upper) \div 2

\* Mutant: no room is left between neighbours.
RenumberedPriorityTight(index) == PriorityStart + index
\* The place of the row that has index rows before it, and whether a queue of
\* that many rows can be renumbered at all.
RenumberedPriority(index) == PriorityStart + index * PriorityGap
GridFits(count) == count = 0 \/ RenumberedPriority(count - 1) <= BullmqPriorityMax
=============================================================================

---------------------------- MODULE MCQueueOrder -----------------------------
(***************************************************************************)
(* The instances of QueueOrder that TLC checks.                            *)
(***************************************************************************)
EXTENDS QueueOrder

CONSTANTS q1, q2

\* Two moves, or a move and one refusal, one death of the api or one boot.
Events == [k \in EventKinds |-> CASE k = "move" -> 2 [] k = "overlap" -> 0 [] OTHER -> 1]
=============================================================================

---------------------------- MODULE MCLivePipeline ----------------------------
(***************************************************************************)
(* The instances of LivePipeline that TLC checks.                          *)
(***************************************************************************)
EXTENDS LivePipeline

CONSTANTS b1

Calm == [k \in FaultKinds |-> 0]
Anything == [k \in FaultKinds |-> IF k \in {"lock", "enqueue"} THEN 0 ELSE 1]
Enqueued == [Calm EXCEPT !["enqueue"] = 1]
Crashed == [Calm EXCEPT !["crash"] = 1]
Endings == [Calm EXCEPT !["crash"] = 1, !["enqueue"] = 1]
===============================================================================

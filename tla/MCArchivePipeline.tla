-------------------------- MODULE MCArchivePipeline --------------------------
(***************************************************************************)
(* The instances of ArchivePipeline that TLC checks.  A fault profile      *)
(* bounds the events of each kind; the other bounds are in the .cfg files. *)
(***************************************************************************)
EXTENDS ArchivePipeline, TLC

CONSTANTS v1, v2, r1, r2

RequestSymmetry == Permutations(Requests)

Calm == [k \in FaultKinds |-> 0]
Rejections == [Calm EXCEPT !["redis"] = 1]
Restarts == [Calm EXCEPT !["drain"] = 1]
Stops == [Calm EXCEPT !["crash"] = 1, !["drain"] = 1]
Locks == [Calm EXCEPT !["lock"] = 1]
Errors == [Calm EXCEPT !["db"] = 1, !["lock"] = 1, !["crash"] = 1,
                       !["api"] = 1]
=============================================================================

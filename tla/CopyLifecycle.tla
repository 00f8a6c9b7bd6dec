---------------------------- MODULE CopyLifecycle ----------------------------
(***************************************************************************)
(* The lifecycle of an archived copy, as packages/core declares it: the    *)
(* states of Video.copyState and the edges between them.  This is the      *)
(* abstract specification every component that writes copyState promises   *)
(* to implement: a video starts in the candidate pool and moves only along *)
(* the edges of ALLOWED_COPY_TRANSITIONS, one video per step.              *)
(***************************************************************************)
CONSTANT Videos         \* the videos of the vault

VARIABLE copyState      \* copyState[v]: Video.copyState

CopyStates == {"CANDIDATE", "QUEUED", "DOWNLOADING", "VERIFYING", "HEALTHY",
               "FAILED", "PARTIAL_KEPT", "AWAITING_VERIFY"}

\* ALLOWED_COPY_TRANSITIONS, as a set of edges.
CopyEdges ==
    {<<"CANDIDATE", "QUEUED">>,
     <<"QUEUED", "DOWNLOADING">>, <<"QUEUED", "CANDIDATE">>}
    \cup ({"DOWNLOADING"} \X {"VERIFYING", "FAILED", "PARTIAL_KEPT", "CANDIDATE",
                              "QUEUED", "AWAITING_VERIFY"})
    \cup ({"VERIFYING"} \X {"HEALTHY", "FAILED"})
    \cup ({"HEALTHY"} \X {"VERIFYING", "CANDIDATE"})
    \cup {<<"FAILED", "QUEUED">>}
    \cup ({"PARTIAL_KEPT"} \X {"QUEUED", "CANDIDATE"})
    \cup ({"AWAITING_VERIFY"} \X {"VERIFYING", "PARTIAL_KEPT", "FAILED"})

\* A video row is created in the candidate pool.
Init == copyState = [v \in Videos |-> "CANDIDATE"]

\* The only thing that may happen to a video: one permitted hop.
Hop(v, to) ==
    /\ copyState' = [copyState EXCEPT ![v] = to]
    /\ <<copyState[v], to>> \in CopyEdges

Next == \E v \in Videos, to \in CopyStates : Hop(v, to)

Spec == Init /\ [][Next]_copyState
=============================================================================

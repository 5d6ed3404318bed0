-------------------------- MODULE JobStatusMachine --------------------------
(***************************************************************************)
(* What a reader of a job's status may rely on: the status machine that    *)
(* docs/state-machine.md draws, with the two ways a job can fail told      *)
(* apart.  A job that failed in its workflow is final; one whose dispatch  *)
(* failed ("undispatched") may be queued again.  One step may move several *)
(* jobs, as the reconciler's UPDATE does.                                  *)
(***************************************************************************)
CONSTANT Jobs
VARIABLE state

Edges == { <<"absent", "queued">>,       <<"queued", "running">>,
           <<"running", "succeeded">>,   <<"running", "failed">>,
           <<"queued", "undispatched">>, <<"undispatched", "queued">> }

Init == state = [j \in Jobs |-> "absent"]

Next ==
    /\ DOMAIN state' = Jobs
    /\ \A j \in Jobs : state'[j] = state[j] \/ <<state[j], state'[j]>> \in Edges

Spec == Init /\ [][Next]_state
=============================================================================

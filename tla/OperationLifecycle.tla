-------------------------- MODULE OperationLifecycle --------------------------
(* What an operation promises the dashboard: one durable record that moves   *)
(* from QUEUED to one of its ends and never leaves a final one, as long as   *)
(* those that drive it do not contest it.                                    *)

CONSTANT Ops

VARIABLES status, contested

Absent == "ABSENT"

\* The steps a status may take.  FAILED is an end unless a rollback begins.
Edges ==
    {<<"ABSENT", "QUEUED">>, <<"QUEUED", "RUNNING">>,
     <<"RUNNING", "FAILED">>, <<"RUNNING", "SUCCEEDED">>,
     <<"FAILED", "ROLLING_BACK">>, <<"ROLLING_BACK", "ROLLED_BACK">>}

Init == status = [o \in Ops |-> Absent] /\ contested = {}

Advance(o) ==
    /\ o \notin contested
    /\ \E e \in Edges :
        /\ status[o] = e[1]
        /\ status' = [status EXCEPT ![o] = e[2]]
    /\ UNCHANGED contested

\* A contested operation takes whatever status is written last.
Overwrite(o) ==
    /\ o \in contested
    /\ \E e \in Edges : status' = [status EXCEPT ![o] = e[2]]
    /\ contested' \in {contested, contested \ {o}}

\* Drivers come and go.
Drive == contested' \in SUBSET Ops /\ UNCHANGED status

Next == Drive \/ \E o \in Ops : Advance(o) \/ Overwrite(o)

Spec == Init /\ [][Next]_<<status, contested>>
=============================================================================

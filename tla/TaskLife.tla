------------------------------ MODULE TaskLife ------------------------------
(***************************************************************************)
(* What the rows of one host promise to somebody who watches them, whoever *)
(* writes them and in whatever order the writers come: tasks are created   *)
(* one after the other, a row that is done stays done, a row that failed   *)
(* or was cancelled changes only when it is opened again, and only a       *)
(* restart of the server settles several rows at once.                     *)
(***************************************************************************)
EXTENDS Integers

CONSTANTS Tasks,
          Claimable     \* tasks that a worker of the server runs

VARIABLE rows

Open == {"pending", "running"}
Closed == {"done", "failed", "cancelled"}

Init ==
    /\ rows \in [Tasks -> {"absent", "pending"}]
    /\ \A t, u \in Tasks : t < u /\ rows[t] = "absent" => rows[u] = "absent"

Begin(t) ==
    /\ rows[t] = "absent"
    /\ \A u \in Tasks : u < t => rows[u] # "absent"
    /\ rows' = [rows EXCEPT ![t] = "pending"]

Run(t) == rows[t] = "pending" /\ rows' = [rows EXCEPT ![t] = "running"]

Close(t, s) == rows[t] \in Open /\ rows' = [rows EXCEPT ![t] = s]

Reopen(t) ==
    /\ rows[t] \in {"failed", "cancelled"}
    /\ rows' = [rows EXCEPT ![t] = "pending"]

\* whoever ran these tasks is gone
Orphaned ==
    rows' = [t \in Tasks |-> IF t \in Claimable /\ rows[t] = "running"
                             THEN "failed" ELSE rows[t]]

Next == \/ \E t \in Tasks : Begin(t) \/ Run(t) \/ Reopen(t)
        \/ \E t \in Tasks, s \in Closed : Close(t, s)
        \/ Orphaned

Spec == Init /\ [][Next]_rows
=============================================================================

------------------------------ MODULE TaskRows ------------------------------
(***************************************************************************)
(* The task_hosts rows of the server's database, one per task and host,    *)
(* and what each SQL statement of the task repository does to them.  Every *)
(* operator is one statement (or one transaction), so one atomic step of   *)
(* the handler that runs it.                                               *)
(*                                                                         *)
(* r is the column of one host: r[t] is that host's row of task t.  Tasks  *)
(* are numbered in the order they were created, which is both the order of *)
(* their ids and of created_at.                                            *)
(***************************************************************************)
EXTENDS Integers, FiniteSets

CONSTANTS Tasks,    \* the tasks' ids
          Kind      \* Kind[t]: what task t does

TaskKinds == {"capture", "deploy", "multicast", "reboot"}

ASSUME TasksAssumption == /\ Tasks \subseteq Nat
                          /\ Kind \in [Tasks -> TaskKinds]

NoTask == 0

ASSUME NoTaskAssumption == NoTask \notin Tasks

(* "absent": the task has not been created, or does not concern the host *)
RowStates == {"absent", "pending", "running", "done", "failed", "cancelled"}

Active == {"pending", "running"}
Reopenable == {"failed", "cancelled"}

Rows == [Tasks -> RowStates]

Captures(t) == Kind[t] = "capture"
Multicasts(t) == Kind[t] = "multicast"

-----------------------------------------------------------------------------

\* SqliteTaskRepository::get_next: a running row before a pending one, then
\* the oldest
GetsAhead(r, t, u) ==
    \/ r[t] = "running" /\ r[u] = "pending"
    \/ r[t] = r[u] /\ t <= u

IsNext(r, t) == /\ t \in Tasks
                /\ r[t] \in Active
                /\ \A u \in Tasks : r[u] \in Active => GetsAhead(r, t, u)

GetNext(r) == IF \E t \in Tasks : IsNext(r, t)
              THEN CHOOSE t \in Tasks : IsNext(r, t)
              ELSE NoTask

\* Task::is_dispatchable_to: a multicast is handed out only once the manager
\* has claimed the host for a session
IsDispatchable(r, t) == Multicasts(t) => r[t] = "running"

\* current_task, for tasks the host can do
CurrentTask(r) == IF GetNext(r) # NoTask /\ IsDispatchable(r, GetNext(r))
                  THEN GetNext(r)
                  ELSE NoTask

\* WHERE task_id = t AND (state = pending OR state = running)
IfActive(r, t, s) == IF r[t] \in Active THEN [r EXCEPT ![t] = s] ELSE r

\* mutant: mark_finished that does not ask for an active row
MarkFinishedAlways(r, t) == [r EXCEPT ![t] = "done"]

Create(r, t) == [r EXCEPT ![t] = "pending"]
Start(r, t) == IfActive(r, t, "running")
MarkFinished(r, t) == IfActive(r, t, "done")
MarkFailed(r, t) == IfActive(r, t, "failed")
Cancel(r, t) == IfActive(r, t, "cancelled")
Retry(r, t) == IF r[t] \in Reopenable THEN [r EXCEPT ![t] = "pending"] ELSE r

\* fail_running for both multicast task types, run when the server starts
FailOrphans(r) == [t \in Tasks |-> IF Multicasts(t) /\ r[t] = "running"
                                   THEN "failed" ELSE r[t]]
=============================================================================

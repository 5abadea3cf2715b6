------------------------------ MODULE TaskPage ------------------------------
(* The dashboard's page of tasks: the server's task listing, the poll that *)
(* asks for it, the filters and the paging, and the row's buttons with     *)
(* their confirmations.  Agents, other dashboards and the page act in any  *)
(* order; a fetch or a request may be answered late or not at all.         *)
EXTENDS Naturals, Sequences, FiniteSets, SequencesExt, FiniteSetsExt

CONSTANTS Hosts, Types, NoHost,
          Stored,    \* the tasks there may be when the page is opened
          Limit,     \* tasks on a page (50 in the code)
          MaxTasks, MaxActs

VARIABLES tasks,    \* the server's tasks, by id: the stored type and the rows of its hosts
          gone,     \* the image of the tasks is deleted
          filter, cursors,    \* what the page is set to
          fetch,    \* the poll's loop: where it is, what it asked, what comes back
          polled,   \* what the poll last recorded
          dialog,   \* the task whose retry dialog is open
          request,  \* a cancel, kick or retry on its way, with the row it was given for
          steady, seen,   \* history: tasks that matched since the filter was set; tasks shown since
          acts      \* what operators and agents did and what failed so far

vars == <<tasks, gone, filter, cursors, fetch, polled, dialog, request, steady, seen, acts>>

Statuses == {"active", "all", "done", "failed", "cancelled"}
Kinds == {"all", "capture", "deploy", "multicast", "reboot"}

\* The types a task is stored with, and what the tasks table can hold.
Captures == {"capture", "capture_partition"}
AllTypes == Captures \cup {"deploy", "deploy_partition", "multicast", "multicast_partition",
                          "reboot"}
States == {"pending", "running", "done", "failed", "cancelled"}
Task == UNION {[type : AllTypes, rows : [hs -> States]] : hs \in SUBSET Hosts}

\* Task::aggregate_state of the rows its hosts still have: the state a task is shown with.
AggregateState(rows) ==
    LET s == Range(rows)
    IN  IF s = {} THEN "cancelled"
        ELSE IF s \cap {"pending", "running"} # {}
             THEN IF s # {"pending"} THEN "running" ELSE "pending"
        ELSE IF s \in {{"done"}, {"cancelled"}} THEN CHOOSE x \in s : TRUE
        ELSE IF "done" \notin s THEN "failed" ELSE "partial"

\* The state column of the view tasks_with_hosts, which the filter selects by.
ViewState(rows) ==
    LET Without(S) == ~\E h \in DOMAIN rows : rows[h] \in S
    IN  IF DOMAIN rows = {} THEN "cancelled"
        ELSE IF ~Without({"pending", "running"})
             THEN IF ~Without(States \ {"pending"}) THEN "running" ELSE "pending"
        ELSE IF Without(States \ {"done"}) THEN "done"
        ELSE IF Without(States \ {"cancelled"}) THEN "cancelled"
        ELSE IF Without({"done"}) THEN "failed" ELSE "partial"

StatusStates(s) == CASE s = "active" -> {"pending", "running"}
                     [] s = "done" -> {"done"}
                     [] s = "failed" -> {"failed", "partial"}
                     [] s = "cancelled" -> {"cancelled"}

StoredTypes(k) == CASE k = "capture" -> Captures
                    [] k = "deploy" -> {"deploy", "deploy_partition"}
                    [] k = "multicast" -> {"multicast", "multicast_partition"}
                    [] k = "reboot" -> {"reboot"}

KindOf(type) == CHOOSE k \in Kinds \ {"all"} : type \in StoredTypes(k)

Matches(t, f) ==
    /\ f.status # "all" => ViewState(t.rows) \in StatusStates(f.status)
    /\ f.kind # "all" => t.type \in StoredTypes(f.kind)
    /\ f.host # NoHost => f.host \in DOMAIN t.rows

Matching(f) == {id \in DOMAIN tasks : Matches(tasks[id], f)}

Shown(id) == [id |-> id, kind |-> KindOf(tasks[id].type), state |-> AggregateState(tasks[id].rows),
              rows |-> tasks[id].rows, gone |-> tasks[id].type # "reboot" /\ gone]

\* ORDER BY id DESC LIMIT n.
Newest(n, ids) == {id \in ids : Cardinality({j \in ids : j > id}) < n}

\* mutant: the cursor is the task that did not fit
NextCursorPastIt(fetched) ==
    LET fits == Newest(Limit, fetched) IN IF fetched = fits THEN 0 ELSE Max(fetched \ fits)

\* The last task that fits, when there is one more.
NextCursor(fetched) ==
    LET fits == Newest(Limit, fetched) IN IF fetched = fits THEN 0 ELSE Min(fits)

\* TaskRepository::list for the query q: one task more than fits is fetched.
List(q) ==
    LET found == {id \in Matching(q.filter) : q.before = 0 \/ id < q.before}
        fetched == Newest(Limit + 1, found)
    IN  [query |-> q,
         tasks |-> {Shown(id) : id \in Newest(Limit, fetched)},
         next |-> NextCursor(fetched)]

Query == [filter |-> filter, before |-> IF cursors = <<>> THEN 0 ELSE Last(cursors)]
NoQuery == [filter |-> [status |-> "all", kind |-> "all", host |-> NoHost], before |-> 0]
NoPage == [query |-> NoQuery, tasks |-> {}, next |-> 0]
Unpolled == [has |-> FALSE, page |-> NoPage, error |-> FALSE]
Starting == [pc |-> "send", query |-> NoQuery, page |-> NoPage]
NoRequest == [op |-> "none", pc |-> "idle", task |-> 0, host |-> NoHost, rows |-> <<>>]

Row(id) == CHOOSE t \in polled.page.tasks : t.id = id
OnPage == {t.id : t \in polled.page.tasks}

Init == /\ tasks \in Stored /\ gone = FALSE
        /\ filter = [status |-> "active", kind |-> "all", host |-> NoHost]
        /\ cursors = <<>>
        /\ fetch = Starting /\ polled = Unpolled
        /\ dialog = 0 /\ request = NoRequest
        /\ steady = Matching(filter) /\ seen = {} /\ acts = 0

Acts == acts < MaxActs /\ acts' = acts + 1
page == <<filter, cursors, fetch, polled, dialog>>

-----------------------------------------------------------------------------
\* What changes the rows, and with them which tasks still match.

Rows(ts) == tasks' = ts /\ steady' = {id \in steady : Matches(ts[id], filter)}

Create(type, hs) ==
    /\ Acts /\ Len(tasks) < MaxTasks
    /\ type # "reboot" => ~gone
    /\ Rows(Append(tasks, [type |-> type, rows |-> [h \in hs |-> "pending"]]))
    /\ UNCHANGED <<gone, page, request, seen>>

SetRows(id, rows) == [tasks EXCEPT ![id].rows = rows]
Cancelled(rows) == [h \in DOMAIN rows |->
                       IF rows[h] \in {"pending", "running"} THEN "cancelled" ELSE rows[h]]

\* mutant: a retry runs every host of the task again
RetriedAll(rows) == [h \in DOMAIN rows |-> "pending"]

Retried(rows) == [h \in DOMAIN rows |->
                     IF rows[h] \in {"failed", "cancelled"} THEN "pending" ELSE rows[h]]

\* A host starts its task, or reports its end.
Agent(id, h) ==
    /\ Acts /\ id \in DOMAIN tasks /\ h \in DOMAIN tasks[id].rows
    /\ \/ tasks[id].rows[h] = "pending" /\ Rows([tasks EXCEPT ![id].rows[h] = "running"])
       \/ /\ tasks[id].rows[h] = "running"
          /\ \E s \in {"done", "failed"} : Rows([tasks EXCEPT ![id].rows[h] = s])
    /\ UNCHANGED <<gone, page, request, seen>>

\* Another dashboard cancels or retries the task.
Elsewhere(id) ==
    /\ Acts /\ id \in DOMAIN tasks
    /\ \/ AggregateState(tasks[id].rows) \in {"pending", "running"} /\ Rows(SetRows(id, Cancelled(tasks[id].rows)))
       \/ /\ AggregateState(tasks[id].rows) \in {"cancelled", "failed", "partial"}
          /\ ~Shown(id).gone /\ Rows(SetRows(id, Retried(tasks[id].rows)))
    /\ UNCHANGED <<gone, page, request, seen>>

\* delete_host: refused while the host has an active row; its rows go with it.
DeleteHost(h) ==
    /\ Acts /\ \E id \in DOMAIN tasks : h \in DOMAIN tasks[id].rows
    /\ \A id \in DOMAIN tasks : h \in DOMAIN tasks[id].rows =>
                                    tasks[id].rows[h] \notin {"pending", "running"}
    /\ Rows([id \in DOMAIN tasks |->
                [tasks[id] EXCEPT !.rows = [g \in DOMAIN @ \ {h} |-> @[g]]]])
    /\ UNCHANGED <<gone, page, request, seen>>

\* delete_image: refused while a task restores the image; a capture is cancelled.
DeleteImage ==
    /\ Acts /\ ~gone
    /\ \A id \in DOMAIN tasks : tasks[id].type \notin Captures \cup {"reboot"} =>
                                    AggregateState(tasks[id].rows) \notin {"pending", "running"}
    /\ gone' = TRUE
    /\ Rows([id \in DOMAIN tasks |->
                IF tasks[id].type \in Captures THEN [tasks[id] EXCEPT !.rows = Cancelled(@)]
                ELSE tasks[id]])
    /\ UNCHANGED <<page, request, seen>>

-----------------------------------------------------------------------------
\* The poll.

\* Poll::reload: what is shown goes, and the loop starts over.
Reload == polled' = Unpolled /\ fetch' = Starting

Send == /\ fetch.pc = "send"
        /\ fetch' = [fetch EXCEPT !.pc = "asked", !.query = Query]
        /\ UNCHANGED <<tasks, gone, filter, cursors, polled, dialog, request, steady, seen, acts>>

Answer == /\ fetch.pc = "asked"
          /\ fetch' = [fetch EXCEPT !.pc = "answered", !.page = List(fetch.query)]
          /\ UNCHANGED <<tasks, gone, filter, cursors, polled, dialog, request, steady, seen, acts>>

\* A row that leaves the page takes its dialog with it.
Record == /\ fetch.pc = "answered"
          /\ polled' = [has |-> TRUE, page |-> fetch.page, error |-> FALSE]
          /\ fetch' = [Starting EXCEPT !.pc = "sleep"]
          /\ seen' = seen \cup {t.id : t \in fetch.page.tasks}
          /\ dialog' = IF \E t \in fetch.page.tasks : t.id = dialog THEN dialog ELSE 0
          /\ UNCHANGED <<tasks, gone, filter, cursors, request, steady, acts>>

FetchFails == /\ fetch.pc \in {"asked", "answered"} /\ Acts
              /\ polled' = [polled EXCEPT !.error = TRUE]
              /\ fetch' = [Starting EXCEPT !.pc = "sleep"]
              /\ UNCHANGED <<tasks, gone, filter, cursors, dialog, request, steady, seen>>

Wake == /\ fetch.pc = "sleep" /\ fetch' = Starting
        /\ UNCHANGED <<tasks, gone, filter, cursors, polled, dialog, request, steady, seen, acts>>

-----------------------------------------------------------------------------
\* The operator on the page.

Refilter(f) ==
    /\ Acts /\ f # filter /\ Cardinality({k \in DOMAIN f : f[k] # filter[k]}) = 1
    /\ filter' = f /\ cursors' = <<>> /\ Reload /\ dialog' = 0
    /\ steady' = Matching(f) /\ seen' = {}
    /\ UNCHANGED <<tasks, gone, request>>

Older == /\ Acts /\ polled.page.next # 0
         /\ cursors' = Append(cursors, polled.page.next) /\ Reload /\ dialog' = 0
         /\ UNCHANGED <<tasks, gone, filter, request, steady, seen>>

Newer == /\ Acts /\ cursors # <<>>
         /\ cursors' = Front(cursors) /\ Reload /\ dialog' = 0
         /\ UNCHANGED <<tasks, gone, filter, request, steady, seen>>

CanCancel(t) == t.state \in {"pending", "running"}
CanRetry(t) == t.state \in {"cancelled", "failed", "partial"} /\ DOMAIN t.rows # {} /\ ~t.gone

Ask(op, id, h) == request' = [op |-> op, pc |-> "sent", task |-> id, host |-> h, rows |-> Row(id).rows]

\* Cancel, and Kick on a host that receives a multicast (confirmed for a task that restores).
AskCancel(id) == /\ Acts /\ request.pc = "idle" /\ id \in OnPage /\ CanCancel(Row(id))
                 /\ Ask("cancel", id, NoHost)
                 /\ UNCHANGED <<tasks, gone, page, steady, seen>>

AskKick(id, h) == /\ Acts /\ request.pc = "idle" /\ id \in OnPage
                  /\ Row(id).kind = "multicast" /\ h \in DOMAIN Row(id).rows
                  /\ Row(id).rows[h] = "running"
                  /\ Ask("kick", id, h)
                  /\ UNCHANGED <<tasks, gone, page, steady, seen>>

OpenRetry(id) == /\ Acts /\ dialog = 0 /\ id \in OnPage /\ CanRetry(Row(id))
                 /\ dialog' = id
                 /\ UNCHANGED <<tasks, gone, filter, cursors, fetch, polled, request, steady, seen>>

\* The dialog stays open whatever the row turns into; it names the row as it is shown now.
ConfirmRetry == /\ dialog # 0 /\ request.pc = "idle"
                /\ Ask("retry", dialog, NoHost) /\ dialog' = 0
                /\ UNCHANGED <<tasks, gone, filter, cursors, fetch, polled, steady, seen, acts>>

-----------------------------------------------------------------------------
\* The server's side of a request: it looks at the task, then it writes.

Allowed(r) ==
    LET t == tasks[r.task]  state == AggregateState(t.rows)
    IN  CASE r.op = "cancel" -> state \in {"pending", "running"}
          [] r.op = "kick" -> /\ KindOf(t.type) = "multicast" /\ r.host \in DOMAIN t.rows
                              /\ t.rows[r.host] = "running"
          [] r.op = "retry" -> /\ state \in {"cancelled", "failed", "partial"}
                               /\ DOMAIN t.rows # {} /\ ~Shown(r.task).gone

ServerLooks == /\ request.pc = "sent"
               /\ request' = IF Allowed(request) THEN [request EXCEPT !.pc = "allowed"] ELSE NoRequest
               /\ UNCHANGED <<tasks, gone, page, steady, seen, acts>>

ServerWrites ==
    /\ request.pc = "allowed"
    /\ LET rows == tasks[request.task].rows  h == request.host
       IN  Rows(SetRows(request.task,
                CASE request.op = "cancel" -> Cancelled(rows)
                  [] request.op = "retry" -> Retried(rows)
                  [] OTHER -> [g \in DOMAIN rows |->
                                 IF g = h /\ rows[g] \in {"pending", "running"} THEN "failed"
                                 ELSE rows[g]]))
    /\ request' = [request EXCEPT !.pc = "written"]
    /\ UNCHANGED <<gone, page, seen, acts>>

\* on_changed: the answer restarts the poll and keeps what is shown.
Changed == /\ request.pc = "written" /\ request' = NoRequest
           /\ fetch' = Starting
           /\ UNCHANGED <<tasks, gone, filter, cursors, polled, dialog, steady, seen, acts>>

Lost == /\ request.pc \in {"sent", "written"} /\ Acts /\ request' = NoRequest
        /\ UNCHANGED <<tasks, gone, page, steady, seen>>

-----------------------------------------------------------------------------
Next == \/ \E type \in Types, hs \in SUBSET Hosts \ {{}} : Create(type, hs)
        \/ \E id \in 1..MaxTasks, h \in Hosts : Agent(id, h) \/ AskKick(id, h)
        \/ \E id \in 1..MaxTasks : Elsewhere(id) \/ AskCancel(id) \/ OpenRetry(id)
        \/ \E h \in Hosts : DeleteHost(h)
        \/ DeleteImage
        \/ Send \/ Answer \/ Record \/ Wake \/ FetchFails
        \/ \E f \in [status : Statuses, kind : Kinds, host : Hosts \cup {NoHost}] : Refilter(f)
        \/ Older \/ Newer \/ ConfirmRetry
        \/ ServerLooks \/ ServerWrites \/ Changed \/ Lost

(* A page shows what was asked for, and turning pages passes nothing over: *)
(* what is shown answers the filter and the cursor the page is set to,     *)
(* every task on it is in a state, of a kind and on a host that the filter *)
(* names (the filter reads the view's state, the page the aggregate), and  *)
(* a task that matched since the filter was set was shown or is older than *)
(* what was shown, however many tasks came and went meanwhile.             *)
PagesComplete ==
    polled.has =>
        /\ polled.page.query = Query
        /\ \A t \in polled.page.tasks :
              /\ filter.status # "all" => t.state \in StatusStates(filter.status)
              /\ filter.kind # "all" => t.kind = filter.kind
              /\ filter.host # NoHost => filter.host \in DOMAIN t.rows
        /\ \A id \in steady : id \in seen \/ id < polled.page.next

(* A retry never runs a host again that the operator was shown as done:    *)
(* the dialog's row may be out of date, other dashboards and the agents    *)
(* may have moved the task on, and the server looks and writes in two      *)
(* steps, but the hosts it sets back were open, failed or cancelled there. *)
RetrySparesStep ==
    (request.pc = "allowed" /\ request.op = "retry" /\ request'.pc = "written") =>
        \A h \in DOMAIN tasks[request.task].rows :
            (/\ tasks'[request.task].rows[h] = "pending"
             /\ tasks[request.task].rows[h] # "pending")
                => h \in DOMAIN request.rows /\ request.rows[h] # "done"
=============================================================================

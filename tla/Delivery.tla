------------------------------ MODULE Delivery ------------------------------
(***************************************************************************)
(* How one host learns what to do, does it and reports it: the host's      *)
(* task rows, the registry entry and event streams the server keeps for    *)
(* it, its websocket connections, the agent that runs there, the agent's   *)
(* HTTP calls, the UI requests that change the rows and the multicast      *)
(* manager as far as it touches this host.                                 *)
(*                                                                         *)
(* The server never queues work for an agent: it sends "this is your       *)
(* current task" and the agent reconciles itself with that.  A row changes *)
(* in one place and is announced from another, so everything here is about *)
(* whether announcement, question (Idle) and report can miss each other.   *)
(***************************************************************************)
EXTENDS TaskRows, Sequences

CONSTANTS
    Conns,       \* the connections the agent may ever open (a bound)
    Calls,       \* slots for the agent's HTTP calls being handled (a bound)
    None,        \* no connection, no call
    Undoable,    \* tasks whose work() fails: no image, or no partition
    MaxOps,      \* bound on the requests of the UI
    MaxFaults    \* bound on crashes, restarts and lost answers

ASSUME DeliveryAssumption == /\ None \notin Conns \cup Calls
                             /\ Undoable \subseteq Tasks
                             /\ MaxOps \in Nat
                             /\ MaxFaults \in Nat

VARIABLES
    rows,        \* this host's rows
    ui,          \* UI handlers between their check and their write
    owed,        \* handlers that wrote a row and have yet to dispatch
    mgr,         \* the multicast worker
    reg,         \* the connection in HostRegistry, or None
    srv,         \* srv[c]: where HostStream c is
    current,     \* current[c]: the task HostStream c last sent
    token,       \* token[c]: the dispatch channel of c holds its one message
    asked,       \* asked[c]: the event being handled is the agent's Idle
    down,        \* down[c]: Current events on their way to the agent
    up,          \* up[c]: Idle events on their way to the server
    link,        \* the agent's connection: off, dialing or up
    conn,        \* which connection that is
    task,        \* ClientState::current_task
    phase,       \* what that task is at
    cancel,      \* its cancellation token
    idle,        \* the idle watch has an unseen change
    await,       \* the call whose answer the agent waits for
    calls,       \* the calls and how far their handlers are
    ops, faults  \* UI requests and faults so far

dbVars == <<rows, ui, owed, mgr>>
streamVars == <<reg, srv, current, token, asked>>
wireVars == <<down, up>>
linkVars == <<link, conn>>
runVars == <<task, phase, cancel, idle>>
callVars == <<await, calls>>
budget == <<ops, faults>>
agentVars == <<linkVars, runVars, callVars>>
vars == <<dbVars, streamVars, wireVars, agentVars, budget>>

StreamStates == {"none", "dialed", "registered", "loop", "woken", "closed"}
Phases == {"none", "prepare", "write", "finish", "fail", "countdown", "leaving"}
CallKinds == {"started", "finished", "failed", "disconnect"}
CallStates == {"sent", "read", "ok", "rejected", "gone"}
FreeCall == [kind |-> "none", t |-> NoTask, st |-> "free"]
CallRecords == [kind : CallKinds, t : Tasks, st : CallStates] \cup {FreeCall}
UiOps == {"cancel", "retry", "kick"}
MgrStates == {"idle", "claim", "busy", "start", "session", "sending",
              "failed", "sent", "failing", "dropping"}
TaskOrNone == Tasks \cup {NoTask}

DbType == /\ rows \in Rows
          /\ ui \subseteq UiOps \X Tasks
          /\ owed \in Nat
          /\ mgr \in [pc : MgrStates, t : TaskOrNone, connected : BOOLEAN]
StreamType == /\ reg \in Conns \cup {None}
              /\ srv \in [Conns -> StreamStates]
              /\ current \in [Conns -> TaskOrNone]
              /\ token \in [Conns -> BOOLEAN]
              /\ asked \in [Conns -> BOOLEAN]
WireType == /\ down \in [Conns -> Seq(TaskOrNone)]
            /\ up \in [Conns -> Nat]
LinkType == /\ link \in {"off", "dialing", "up"}
            /\ conn \in Conns \cup {None}
RunType == /\ task \in TaskOrNone
           /\ phase \in Phases
           /\ cancel \in BOOLEAN
           /\ idle \in BOOLEAN
CallType == /\ await \in Calls \cup {None}
            /\ calls \in [Calls -> CallRecords]
BudgetType == ops \in Nat /\ faults \in Nat

TypeOK == /\ DbType /\ StreamType /\ WireType /\ LinkType
          /\ RunType /\ CallType /\ BudgetType

MgrIdle == [pc |-> "idle", t |-> NoTask, connected |-> FALSE]

\* the server starts on a database that may hold tasks from before
Init ==
    /\ rows \in [Tasks -> {"absent", "pending"}]
    /\ \A t, u \in Tasks : t < u /\ rows[t] = "absent" => rows[u] = "absent"
    /\ ui = {} /\ owed = 0 /\ mgr = MgrIdle
    /\ reg = None
    /\ srv = [c \in Conns |-> "none"]
    /\ current = [c \in Conns |-> NoTask]
    /\ token = [c \in Conns |-> FALSE]
    /\ asked = [c \in Conns |-> FALSE]
    /\ down = [c \in Conns |-> <<>>]
    /\ up = [c \in Conns |-> 0]
    /\ link = "off" /\ conn = None
    /\ task = NoTask /\ phase = "none" /\ cancel = FALSE /\ idle = FALSE
    /\ await = None
    /\ calls = [i \in Calls |-> FreeCall]
    /\ ops = 0 /\ faults = 0

Fault == faults < MaxFaults /\ faults' = faults + 1 /\ UNCHANGED ops
UiRequest == ops < MaxOps /\ ops' = ops + 1 /\ UNCHANGED faults

-----------------------------------------------------------------------------
(* The UI: hosts::deploy, hosts::reboot, images::create_image and          *)
(* groups::multicast create tasks; tasks.rs cancels, kicks and retries.    *)

\* mutant: a host that is busy is not told
DispatchedIfIdle ==
    IF reg \in Conns /\ current[reg] = NoTask THEN [token EXCEPT ![reg] = TRUE]
                                              ELSE token

\* HostRegistry::dispatch: try_send on a channel of one, so a second message
\* is dropped while the first is unread
Dispatched == IF reg \in Conns THEN [token EXCEPT ![reg] = TRUE] ELSE token

\* Tasks are created in the order of their ids.  A multicast is announced by
\* the manager, every other task by its handler.
UiCreate(t) ==
    /\ UiRequest
    /\ rows[t] = "absent"
    /\ \A u \in Tasks : u < t => rows[u] # "absent"
    /\ rows' = Create(rows, t)
    /\ owed' = IF Multicasts(t) THEN owed ELSE owed + 1
    /\ UNCHANGED <<ui, mgr, streamVars, wireVars, agentVars>>

Admits(op, t) == CASE op = "cancel" -> rows[t] \in Active
                   [] op = "retry" -> rows[t] \in Reopenable
                   [] op = "kick" -> Multicasts(t) /\ rows[t] = "running"

\* the handler reads the task and checks its state ...
UiCheck(op, t) ==
    /\ UiRequest
    /\ Admits(op, t)
    /\ <<op, t>> \notin ui
    /\ ui' = ui \cup {<<op, t>>}
    /\ UNCHANGED <<rows, owed, mgr, streamVars, wireVars, agentVars>>

UiEffect(op, t) == CASE op = "cancel" -> Cancel(rows, t)
                     [] op = "retry" -> Retry(rows, t)
                     [] op = "kick" -> MarkFailed(rows, t)

\* mutant: a cancel is not announced
UiWriteSilently(op, t) ==
    /\ <<op, t>> \in ui
    /\ ui' = ui \ {<<op, t>>}
    /\ rows' = UiEffect(op, t)
    /\ owed' = IF op = "cancel" THEN owed ELSE owed + 1
    /\ UNCHANGED <<mgr, streamVars, wireVars, agentVars, budget>>

\* ... then writes, whatever has happened to the rows since
UiWrite(op, t) ==
    /\ <<op, t>> \in ui
    /\ ui' = ui \ {<<op, t>>}
    /\ rows' = UiEffect(op, t)
    /\ owed' = IF op = "retry" /\ Multicasts(t) THEN owed ELSE owed + 1
    /\ UNCHANGED <<mgr, streamVars, wireVars, agentVars, budget>>

Dispatch ==
    /\ owed > 0
    /\ owed' = owed - 1
    /\ token' = Dispatched
    /\ UNCHANGED <<rows, ui, mgr, reg, srv, current, asked, wireVars,
                   agentVars, budget>>

-----------------------------------------------------------------------------
(* The multicast worker, as far as this host is concerned: it claims the   *)
(* host's row, tells the host, sends, and settles the row.                 *)

NextMulticast(t) ==
    /\ Multicasts(t) /\ rows[t] = "pending"
    /\ \A u \in Tasks : Multicasts(u) /\ rows[u] = "pending" => t <= u

MgrTakes(t) ==
    /\ mgr.pc = "idle"
    /\ NextMulticast(t)
    /\ mgr' = [mgr EXCEPT !.pc = "claim", !.t = t]
    /\ UNCHANGED <<rows, ui, owed, streamVars, wireVars, agentVars, budget>>

\* claim looks the host's next task up before it writes the row
MgrClaims ==
    /\ mgr.pc = "claim"
    /\ mgr' = [mgr EXCEPT !.pc = IF GetNext(rows) \notin {NoTask, mgr.t}
                                 THEN "busy" ELSE "start"]
    /\ UNCHANGED <<rows, ui, owed, streamVars, wireVars, agentVars, budget>>

MgrWrites ==
    /\ mgr.pc \in {"busy", "start"}
    /\ rows' = IF mgr.pc = "busy" THEN MarkFailed(rows, mgr.t)
                                  ELSE Start(rows, mgr.t)
    /\ mgr' = [mgr EXCEPT !.pc = "session"]
    /\ UNCHANGED <<ui, owed, streamVars, wireVars, agentVars, budget>>

\* the session dispatches to the hosts whose rows are running
MgrAnnounces ==
    /\ mgr.pc = "session"
    /\ token' = IF rows[mgr.t] = "running" THEN Dispatched ELSE token
    /\ mgr' = [mgr EXCEPT !.pc = "sending"]
    /\ UNCHANGED <<rows, ui, owed, reg, srv, current, asked, wireVars,
                   agentVars, budget>>

\* the session ends, with or without an error; settle notes who is connected
MgrEnds ==
    /\ mgr.pc \in {"session", "sending"}
    /\ \E outcome \in {"failed", "sent"} :
          /\ mgr.pc = "session" => outcome = "failed"
          /\ mgr' = [mgr EXCEPT !.pc = outcome, !.connected = (reg # None)]
    /\ UNCHANGED <<rows, ui, owed, streamVars, wireVars, agentVars, budget>>

\* mutant: a failed session leaves connected hosts to themselves
MgrSettlesGently ==
    /\ mgr.pc \in {"failed", "sent"}
    /\ mgr' = IF rows[mgr.t] = "running" /\ ~mgr.connected
              THEN [mgr EXCEPT !.pc = "dropping"] ELSE MgrIdle
    /\ UNCHANGED <<rows, ui, owed, streamVars, wireVars, agentVars, budget>>

\* settle reads the rows still running
MgrSettles ==
    /\ mgr.pc \in {"failed", "sent"}
    /\ mgr' = CASE rows[mgr.t] = "running" /\ mgr.pc = "failed" ->
                     [mgr EXCEPT !.pc = "failing"]
                [] rows[mgr.t] = "running" /\ mgr.pc = "sent"
                      /\ ~mgr.connected -> [mgr EXCEPT !.pc = "dropping"]
                [] OTHER -> MgrIdle
    /\ UNCHANGED <<rows, ui, owed, streamVars, wireVars, agentVars, budget>>

\* ... and fails them; a host it takes for disconnected is not told
MgrFails ==
    /\ mgr.pc \in {"failing", "dropping"}
    /\ rows' = MarkFailed(rows, mgr.t)
    /\ owed' = IF mgr.pc = "failing" THEN owed + 1 ELSE owed
    /\ mgr' = MgrIdle
    /\ UNCHANGED <<ui, streamVars, wireVars, agentVars, budget>>

MgrNext == \/ \E t \in Tasks : MgrTakes(t)
           \/ MgrClaims \/ MgrWrites \/ MgrAnnounces
           \/ MgrEnds \/ MgrSettles \/ MgrFails

-----------------------------------------------------------------------------
(* The server's event stream: start_stream and HostStream::serve.          *)

\* start_stream registers first and looks the current task up afterwards, so
\* that a row written in between leaves a message in the channel
Accept(c) ==
    /\ srv[c] = "dialed"
    /\ srv' = [srv EXCEPT ![c] = "registered"]
    /\ reg' = c
    /\ UNCHANGED <<dbVars, current, token, asked, wireVars, agentVars, budget>>

\* current_task fails a task the host cannot run and looks again
FailUndoable(c) ==
    /\ srv[c] \in {"registered", "woken"}
    /\ CurrentTask(rows) \in Undoable
    /\ rows' = MarkFailed(rows, CurrentTask(rows))
    /\ UNCHANGED <<ui, owed, mgr, streamVars, wireVars, agentVars, budget>>

\* an event for a connection the agent has left is read by nobody
Send(c, m) == IF conn = c THEN [down EXCEPT ![c] = Append(@, m)] ELSE down

\* the lookup of start_stream, and the first event of serve
Greet(c) ==
    /\ srv[c] = "registered"
    /\ CurrentTask(rows) \notin Undoable
    /\ current' = [current EXCEPT ![c] = CurrentTask(rows)]
    /\ down' = Send(c, CurrentTask(rows))
    /\ srv' = [srv EXCEPT ![c] = "loop"]
    /\ UNCHANGED <<dbVars, reg, token, asked, up, agentVars, budget>>

\* the select of serve: an Idle frame, or the message of the dispatch channel
RecvIdle(c) ==
    /\ srv[c] = "loop"
    /\ up[c] > 0
    /\ up' = [up EXCEPT ![c] = @ - 1]
    /\ srv' = [srv EXCEPT ![c] = "woken"]
    /\ asked' = [asked EXCEPT ![c] = TRUE]
    /\ UNCHANGED <<dbVars, reg, current, token, down, agentVars, budget>>

RecvDispatch(c) ==
    /\ srv[c] = "loop"
    /\ token[c]
    /\ token' = [token EXCEPT ![c] = FALSE]
    /\ srv' = [srv EXCEPT ![c] = "woken"]
    /\ UNCHANGED <<dbVars, reg, current, asked, wireVars, agentVars, budget>>

\* mutant: a question is answered only if the answer changed
MustSendChange(c) == CurrentTask(rows) # current[c]

\* the lookup after the select; a question is answered even if nothing changed
MustSend(c) == asked[c] \/ CurrentTask(rows) # current[c]

Respond(c) ==
    /\ srv[c] = "woken"
    /\ CurrentTask(rows) \notin Undoable
    /\ down' = IF MustSend(c) THEN Send(c, CurrentTask(rows)) ELSE down
    /\ current' = [current EXCEPT ![c] = CurrentTask(rows)]
    /\ asked' = [asked EXCEPT ![c] = FALSE]
    /\ srv' = [srv EXCEPT ![c] = "loop"]
    /\ UNCHANGED <<dbVars, reg, token, up, agentVars, budget>>

\* Registration's drop: only the registered connection removes the entry
Cleanup(c) == IF reg = c THEN None ELSE reg

StreamEnds(c) ==
    /\ srv[c] \in {"registered", "loop", "woken"}
    /\ srv' = [srv EXCEPT ![c] = "closed"]
    /\ reg' = Cleanup(c)
    /\ current' = [current EXCEPT ![c] = NoTask]
    /\ token' = [token EXCEPT ![c] = FALSE]
    /\ asked' = [asked EXCEPT ![c] = FALSE]
    /\ UNCHANGED <<dbVars, wireVars, agentVars>>

\* the socket is closed or silent, or a newer registration or /disconnect
\* closed the dispatch channel
StreamBreaks(c) ==
    /\ conn # c \/ reg # c
    /\ StreamEnds(c)
    /\ UNCHANGED budget

\* a failed lookup or send, or a liveness timeout of a host that is there
StreamFails(c) == StreamEnds(c) /\ Fault

StreamNext(c) == \/ Accept(c) \/ FailUndoable(c) \/ Greet(c)
                 \/ RecvIdle(c) \/ RecvDispatch(c) \/ Respond(c)
                 \/ StreamBreaks(c)

-----------------------------------------------------------------------------
(* The agent's connection: connection::run and server::Connection.         *)

\* connections are alike, so it does not matter which unused one is next
Unused == CHOOSE c \in Conns : srv[c] = "none"

Dial(c) ==
    /\ link = "off"
    /\ srv[c] = "none" /\ c = Unused
    /\ link' = "dialing" /\ conn' = c
    /\ srv' = [srv EXCEPT ![c] = "dialed"]
    /\ UNCHANGED <<dbVars, reg, current, token, asked, wireVars, runVars,
                   callVars, budget>>

\* Connection::new forgets an Idle that became due while connecting
Connected ==
    /\ link = "dialing"
    /\ srv[conn] \in {"loop", "woken"}
    /\ link' = "up"
    /\ idle' = FALSE
    /\ UNCHANGED <<dbVars, streamVars, wireVars, conn, task, phase, cancel,
                   callVars, budget>>

\* the agent leaves its connection; what is on the wire is lost
HangUp == /\ link' = "off" /\ conn' = None
          /\ down' = [c \in Conns |-> IF c = conn THEN <<>> ELSE down[c]]
          /\ up' = [c \in Conns |-> IF c = conn THEN 0 ELSE up[c]]

LinkOff == HangUp /\ UNCHANGED <<dbVars, streamVars, runVars, callVars>>

CloseSeen == link # "off" /\ srv[conn] = "closed" /\ LinkOff /\ UNCHANGED budget

\* a refused or timed out connection attempt, a broken or silent connection
LinkLost == link # "off" /\ LinkOff /\ Fault

SendIdle ==
    /\ link = "up"
    /\ idle
    /\ idle' = FALSE
    /\ up' = [up EXCEPT ![conn] = @ + 1]
    /\ UNCHANGED <<dbVars, streamVars, down, linkVars, task, phase, cancel,
                   callVars, budget>>

FirstPhase(t) == IF Kind[t] = "reboot" THEN "finish" ELSE "prepare"

\* handle_message
Reconcile(m) ==
    \/ /\ task # NoTask /\ m = task
       /\ UNCHANGED <<task, phase, cancel>>
    \/ /\ task # NoTask /\ m # task
       /\ cancel' = TRUE
       /\ UNCHANGED <<task, phase>>
    \/ /\ task = NoTask /\ m # NoTask
       /\ task' = m /\ phase' = FirstPhase(m) /\ cancel' = FALSE
    \/ /\ task = NoTask /\ m = NoTask
       /\ UNCHANGED <<task, phase, cancel>>

RecvCurrent ==
    /\ link = "up"
    /\ down[conn] # <<>>
    /\ down' = [down EXCEPT ![conn] = Tail(@)]
    /\ Reconcile(Head(down[conn]))
    /\ UNCHANGED <<dbVars, streamVars, up, linkVars, idle, callVars, budget>>

LinkNext == \/ \E c \in Conns : Dial(c)
            \/ Connected \/ CloseSeen \/ SendIdle \/ RecvCurrent

-----------------------------------------------------------------------------
(* The agent's task: task::run_task, its HTTP calls and reboot::now.       *)

\* mutant: the agent does not say that it is idle
EndSilently == /\ task' = NoTask /\ phase' = "none" /\ cancel' = FALSE
               /\ UNCHANGED idle

\* run_task is over: the slot is emptied and the idle watch is touched
End == /\ task' = NoTask /\ phase' = "none" /\ cancel' = FALSE
       /\ idle' = TRUE

Enter(p) == phase' = p /\ UNCHANGED <<task, cancel, idle>>

CallOf(p) == CASE p = "prepare" -> "started"
               [] p = "finish" -> "finished"
               [] p = "fail" -> "failed"
               [] p = "leaving" -> "disconnect"

Issue(i) ==
    /\ phase \in {"prepare", "finish", "fail", "leaving"}
    /\ await = None
    /\ calls[i] = FreeCall
    /\ await' = i
    /\ calls' = [calls EXCEPT ![i] = [kind |-> CallOf(phase), t |-> task,
                                      st |-> "sent"]]
    /\ UNCHANGED <<dbVars, streamVars, wireVars, linkVars, runVars, budget>>

\* the image is written to the disk, or read from it, and scripts are run
Write ==
    /\ phase = "write"
    /\ \E p \in {"finish", "fail"} : Enter(p)
    /\ UNCHANGED <<dbVars, streamVars, wireVars, linkVars, callVars, budget>>

\* run is dropped, and with it the answer of a call in progress
CancelTakesEffect ==
    /\ cancel
    /\ phase \in {"prepare", "write"}
    /\ End
    /\ await' = None
    /\ UNCHANGED <<dbVars, streamVars, wireVars, linkVars, calls, budget>>

\* the countdown before a reboot may be cancelled from the console
Countdown ==
    /\ phase = "countdown"
    /\ Enter("leaving") \/ End
    /\ UNCHANGED <<dbVars, streamVars, wireVars, linkVars, callVars, budget>>

\* the machine restarts: the agent comes back with nothing
Boots == /\ HangUp
         /\ task' = NoTask /\ phase' = "none" /\ cancel' = FALSE
         /\ idle' = FALSE

FreeSlot(i) == [calls EXCEPT ![i] = FreeCall]

Answered(i, st) ==
    CASE phase = "prepare" -> /\ Enter(IF st = "ok" THEN "write" ELSE "fail")
                              /\ UNCHANGED <<linkVars, wireVars>>
      [] phase = "finish" -> /\ IF st = "ok" /\ ~Captures(task)
                                THEN Enter("countdown") ELSE End
                             /\ UNCHANGED <<linkVars, wireVars>>
      [] phase = "fail" -> End /\ UNCHANGED <<linkVars, wireVars>>
      [] phase = "leaving" -> Boots

Reply(i) ==
    /\ await = i
    /\ calls[i].st \in {"ok", "rejected"}
    /\ await' = None
    /\ calls' = FreeSlot(i)
    /\ Answered(i, calls[i].st)
    /\ UNCHANGED <<dbVars, streamVars, budget>>

\* no answer: a report is repeated, anything else gives up.  The handler has
\* ended or is dropped by the time the agent notices.
Unanswered(i) ==
    /\ await' = None
    /\ calls' = FreeSlot(i)
    /\ CASE phase = "prepare" -> Enter("fail") /\ UNCHANGED <<linkVars, wireVars>>
         [] phase \in {"finish", "fail"} -> UNCHANGED <<runVars, linkVars, wireVars>>
         [] phase = "leaving" -> Boots
    /\ UNCHANGED <<dbVars, streamVars>>

AnswerLost(i) == await = i /\ Unanswered(i) /\ Fault
ServerGone(i) == /\ await = i /\ calls[i].st = "gone"
                 /\ Unanswered(i) /\ UNCHANGED budget

\* the machine is switched off or crashes
Crash ==
    /\ Fault
    /\ Boots
    /\ await' = None
    /\ calls' = [i \in Calls |-> FreeCall]
    /\ UNCHANGED <<dbVars, streamVars>>

RunNext == \/ Write \/ CancelTakesEffect \/ Countdown
           \/ \E i \in Calls : Issue(i) \/ Reply(i) \/ ServerGone(i)

-----------------------------------------------------------------------------
(* The agent API: started, mark_finished, mark_failed and disconnect.      *)

Proceed(i, st) == calls' = [calls EXCEPT ![i].st = st]

Outcome(kind) == IF kind = "finished" THEN "done" ELSE "failed"

\* mutant: started does not look whether the task is the host's next
StartedLooksAway(i) ==
    /\ calls[i].kind = "started" /\ calls[i].st = "sent"
    /\ Proceed(i, "read")
    /\ UNCHANGED <<dbVars, streamVars, wireVars, linkVars, runVars, await,
                   budget>>

\* mutant: started takes a multicast for a deploy
StartedIgnoresClaim(i) ==
    /\ calls[i].kind = "started" /\ calls[i].st = "sent"
    /\ Proceed(i, IF GetNext(rows) = calls[i].t THEN "read" ELSE "rejected")
    /\ UNCHANGED <<dbVars, streamVars, wireVars, linkVars, runVars, await,
                   budget>>

\* started: only the host's next task may start; a restore is refused unless
\* its image is ready, a multicast unless the manager has claimed the host.
\* A multicast, or a capture that is begun again, has nothing more to write.
StartedLooks(i) ==
    /\ calls[i].kind = "started" /\ calls[i].st = "sent"
    /\ \/ /\ GetNext(rows) = calls[i].t
          /\ Multicasts(calls[i].t) => rows[calls[i].t] = "running"
          /\ Proceed(i, IF rows[calls[i].t] = "running" /\ Kind[calls[i].t] # "deploy"
                        THEN "ok" ELSE "read")
       \/ Proceed(i, "rejected")
    /\ UNCHANGED <<dbVars, streamVars, wireVars, linkVars, runVars, await,
                   budget>>

\* task_to_settle: a report of what has been recorded already succeeds
ReportLooks(i) ==
    /\ calls[i].kind \in {"finished", "failed"} /\ calls[i].st = "sent"
    /\ Proceed(i, CASE GetNext(rows) = calls[i].t -> "read"
                    [] GetNext(rows) # calls[i].t
                         /\ rows[calls[i].t] = Outcome(calls[i].kind) -> "ok"
                    [] OTHER -> "rejected")
    /\ UNCHANGED <<dbVars, streamVars, wireVars, linkVars, runVars, await,
                   budget>>

StartedWrites(i) ==
    /\ calls[i].kind = "started" /\ calls[i].st = "read"
    /\ rows' = Start(rows, calls[i].t)
    /\ Proceed(i, "ok")
    /\ UNCHANGED <<ui, owed, mgr, streamVars, wireVars, linkVars, runVars,
                   await, budget>>

\* a capture that left an incomplete image is recorded as failed
ReportWrites(i) ==
    /\ calls[i].kind \in {"finished", "failed"} /\ calls[i].st = "read"
    /\ \/ /\ rows' = IF calls[i].kind = "finished"
                     THEN MarkFinished(rows, calls[i].t)
                     ELSE MarkFailed(rows, calls[i].t)
          /\ Proceed(i, "ok")
       \/ /\ calls[i].kind = "finished" /\ Captures(calls[i].t)
          /\ rows' = MarkFailed(rows, calls[i].t)
          /\ Proceed(i, "rejected")
    /\ UNCHANGED <<ui, owed, mgr, streamVars, wireVars, linkVars, runVars,
                   await, budget>>

\* disconnect removes the host's entry, whichever connection it belongs to
Deregisters(i) ==
    /\ calls[i].kind = "disconnect" /\ calls[i].st = "sent"
    /\ reg' = None
    /\ Proceed(i, "ok")
    /\ UNCHANGED <<dbVars, srv, current, token, asked, wireVars, linkVars,
                   runVars, await, budget>>

\* a handler nobody waits for has answered, or is dropped where it is
Abandoned(i) ==
    /\ await # i
    /\ calls[i] # FreeCall
    /\ calls' = FreeSlot(i)
    /\ UNCHANGED <<dbVars, streamVars, wireVars, linkVars, runVars, await,
                   budget>>

HandlerNext(i) == \/ StartedLooks(i) \/ StartedWrites(i) \/ ReportLooks(i)
                  \/ ReportWrites(i) \/ Deregisters(i) \/ Abandoned(i)

-----------------------------------------------------------------------------
(* The server stops, however that happens, and starts again: everything it *)
(* kept in memory is gone, and MulticastManager::start fails the rows a    *)
(* session had claimed.                                                    *)

Restart ==
    /\ Fault
    /\ rows' = FailOrphans(rows)
    /\ ui' = {} /\ owed' = 0 /\ mgr' = MgrIdle
    /\ reg' = None
    /\ srv' = [c \in Conns |-> IF srv[c] = "none" THEN "none" ELSE "closed"]
    /\ current' = [c \in Conns |-> NoTask]
    /\ token' = [c \in Conns |-> FALSE]
    /\ asked' = [c \in Conns |-> FALSE]
    /\ calls' = [i \in Calls |->
                    IF i = await /\ calls[i].st \in {"sent", "read"}
                    THEN [calls[i] EXCEPT !.st = "gone"]
                    ELSE IF i = await THEN calls[i] ELSE FreeCall]
    /\ UNCHANGED <<wireVars, linkVars, runVars, await>>

-----------------------------------------------------------------------------

UiNext == \E t \in Tasks :
             \/ UiCreate(t)
             \/ \E op \in UiOps : UiCheck(op, t) \/ UiWrite(op, t)

FaultNext == \/ \E c \in Conns : StreamFails(c)
             \/ LinkLost
             \/ \E i \in Calls : AnswerLost(i)
             \/ Crash
             \/ Restart

Next == \/ UiNext \/ Dispatch \/ MgrNext
        \/ \E c \in Conns : StreamNext(c)
        \/ LinkNext \/ RunNext
        \/ \E i \in Calls : HandlerNext(i)
        \/ FaultNext

(***************************************************************************)
(* Fairness: what the two runtimes and the network drive by themselves.    *)
(* Nobody owes us a UI request, and faults need not happen.                *)
(***************************************************************************)
Fairness ==
    /\ WF_vars(\E op \in UiOps, t \in Tasks : UiWrite(op, t))
    /\ WF_vars(Dispatch)
    /\ WF_vars(MgrNext)
    /\ \A c \in Conns : WF_vars(StreamNext(c))
    /\ WF_vars(LinkNext)
    /\ WF_vars(RunNext)
    /\ \A i \in Calls : WF_vars(HandlerNext(i))

Spec == Init /\ [][Next]_vars
LiveSpec == Spec /\ Fairness
-----------------------------------------------------------------------------
(* Properties.                                                             *)

(***************************************************************************)
(* The agent is connected, the registry knows this connection, and nothing *)
(* is on its way: no row was written whose handler still has to dispatch,  *)
(* the worker is not about to tell the host of a row it claimed or fails,  *)
(* no message sits in the dispatch channel or on the wire, and neither     *)
(* side is about to send one.                                              *)
(***************************************************************************)
Quiet ==
    /\ link = "up" /\ reg = conn /\ srv[conn] = "loop"
    /\ owed = 0 /\ mgr.pc \notin {"session", "failed", "failing"}
    /\ ~token[conn] /\ down[conn] = <<>>
    /\ ~idle /\ up[conn] = 0

(***************************************************************************)
(* No lost wakeup: when everything is quiet and the agent has nothing to   *)
(* do, the server has nothing for it either.  Rests on start_stream        *)
(* registering before it looks, on Idle being answered even if nothing     *)
(* changed, on coalesced dispatches being looked up after they are taken   *)
(* from the channel, and on the swallowed Idle of Connection::new being    *)
(* made up for by the event the new connection starts with.                *)
(***************************************************************************)
NoLostWakeup == Quiet /\ task = NoTask => CurrentTask(rows) = NoTask

(***************************************************************************)
(* When everything is quiet and the agent works on a disk, then for the    *)
(* task the server lists as current, or it has been told to stop: a cancel *)
(* or a kick reaches the agent.  One thing excuses another task: a started *)
(* handler whose agent has given up may be overtaken by the start of a     *)
(* second task, and then leaves two running rows, of which the server      *)
(* lists the older.  Even so the row that is worked on is active.          *)
(***************************************************************************)
WorksOnCurrent ==
    Quiet /\ phase = "write" /\ ~cancel =>
        /\ rows[task] \in Active
        /\ task = CurrentTask(rows) \/ rows[CurrentTask(rows)] = "running"

(***************************************************************************)
(* A disk is never written, or read, for a task that is recorded as done,  *)
(* even when a stale Current event makes the agent run the task again: the *)
(* started handler stands in between.                                      *)
(***************************************************************************)
NoRedo == phase = "write" => rows[task] # "done"

(***************************************************************************)
(* Only the multicast worker starts a multicast on a host: an agent that   *)
(* was handed a multicast row nobody claimed would write its disk from a   *)
(* session that does not count it among its receivers.                     *)
(***************************************************************************)
ManagerStartsMulticasts ==
    [][\A t \in Tasks :
          Multicasts(t) /\ rows[t] # "running" /\ rows'[t] = "running"
              => mgr.pc = "start" /\ mgr.t = t]_vars

(***************************************************************************)
(* "a task queued while the agent was busy is delivered when it is done"   *)
(* (README.md): if the agent ends up with a lasting connection, every      *)
(* pending task that is handed out directly is started or settled.         *)
(***************************************************************************)
Settled == <>[](link = "up" /\ reg = conn)

EveryTaskServed ==
    Settled => \A t \in Tasks :
                  ~Multicasts(t) /\ rows[t] = "pending" ~> rows[t] # "pending"

(***************************************************************************)
(* Under the same condition a host does not stay in a multicast for ever:  *)
(* its agent, its manager or the restart of the server settles the row,    *)
(* whatever became of the session.                                         *)
(***************************************************************************)
MulticastsEnd ==
    Settled => \A t \in Tasks :
                  Multicasts(t) /\ rows[t] = "running" ~> rows[t] # "running"

(***************************************************************************)
(* The rows keep what TaskLife promises, although nine kinds of step write *)
(* them, most of them after a check that may be out of date: no late       *)
(* report, cancel, kick or retry changes a row that is done, and none      *)
(* brings a failed or cancelled row back but a retry.                      *)
(***************************************************************************)
Life == INSTANCE TaskLife WITH Claimable <- {t \in Tasks : Multicasts(t)}
RowsLive == Life!Spec
=============================================================================

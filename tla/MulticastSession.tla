-------------------------- MODULE MulticastSession --------------------------
(***************************************************************************)
(* The multicast worker in full: how it is woken, takes the multicasts in  *)
(* the order of their ids, claims their hosts, sends file after file to    *)
(* the hosts that joined, follows each transfer while rows change under    *)
(* it, and settles what is left.  Delivery shows one host of this; here    *)
(* several hosts share the worker's sessions.                              *)
(*                                                                         *)
(* The transfer itself is scuttlecast, an external library: it gathers     *)
(* receivers until enough have joined or the join window has passed, sends *)
(* one file, and ends.  A receiver that is kicked drops out.               *)
(***************************************************************************)
EXTENDS Integers, FiniteSets, FiniteSetsExt

CONSTANTS
    Hosts, Casts,    \* hosts and multicast tasks, numbered
    Steps,           \* files of an image
    Addresses,       \* IP addresses of hosts
    NoAddress,       \* in a row without one
    MaxOps,          \* bound on UI requests and on what hosts do by themselves
    MaxFaults        \* bound on database errors and failing sessions

ASSUME SessionAssumption == /\ Hosts \subseteq Nat /\ Casts \subseteq Nat
                            /\ IsFiniteSet(Hosts)
                            /\ Steps \in Nat \ {0}
                            /\ NoAddress \notin Addresses
                            /\ MaxOps \in Nat /\ MaxFaults \in Nat

VARIABLES
    rows,        \* rows[t][h]: host h's row of task t
    busy,        \* hosts whose next task is another one
    connected,   \* HostRegistry's hosts
    ip,          \* ip[h]: the address in host h's row
    ui,          \* UI handlers between check and write
    owed,        \* handlers that wrote and have yet to wake the manager
    woken,       \* the wake watch holds a change the worker has not seen
    pc, task,    \* the worker, and the task of its session
    batch, todo, \* claim: the hosts that were pending, those still to claim
    verdict,     \* claim: what get_next told about the host that is next
    expected,    \* receivers the next transfer waits for
    targets,     \* Targets: the participants' addresses when the session began
    file,        \* the file being sent
    joined,      \* the most receivers follow has seen in it
    running,     \* follow, settle: the rows it read
    present,     \* settle: the hosts that were connected
    outcome,     \* of the session
    blind,       \* the last check of the rows failed
    board,       \* ProgressBoard's multicast
    wire,        \* scuttlecast: phase, receivers and the addresses they joined
                 \* from, who completed, who was kicked
    inStep,      \* hosts that have every file sent so far (history)
    ops, faults

hostVars == <<busy, connected, ip>>
uiVars == <<ui, owed, ops>>
claimVars == <<batch, todo, verdict>>
fileVars == <<expected, targets, file, joined, inStep>>
endVars == <<running, present, outcome>>
vars == <<rows, hostVars, uiVars, woken, pc, task, claimVars, fileVars, endVars,
          blind, board, wire, faults>>

NoCast == 0
RowStates == {"absent", "pending", "running", "done", "failed", "cancelled"}
Active == {"pending", "running"}
Known == [Hosts -> Addresses \cup {NoAddress}]
Unknown == [h \in Hosts |-> NoAddress]
Closed == [phase |-> "closed", receivers |-> {}, at |-> Unknown,
           complete |-> {}, kicked |-> {}]
WorkerStates == {"wait", "next", "claim", "write", "session", "targets", "file",
                 "follow", "checked", "ended", "settle"}

HostsIn(t, s) == {h \in Hosts : rows[t][h] = s}
Fault == faults < MaxFaults /\ faults' = faults + 1

TypeOK ==
    /\ rows \in [Casts -> [Hosts -> RowStates]]
    /\ busy \subseteq Hosts /\ connected \subseteq Hosts
    /\ owed \in Nat /\ woken \in BOOLEAN /\ blind \in BOOLEAN
    /\ pc \in WorkerStates /\ task \in Casts \cup {NoCast}
    /\ batch \subseteq Hosts /\ todo \subseteq batch
    /\ verdict \in {"free", "busy"}
    /\ expected \in 0 .. Cardinality(Hosts) /\ joined \in 0 .. Cardinality(Hosts)
    /\ file \in 0 .. Steps + 1
    /\ running \subseteq Hosts /\ present \subseteq Hosts /\ inStep \subseteq Hosts
    /\ outcome \in {"ok", "error"}
    /\ board \in Casts \cup {NoCast}
    /\ wire.phase \in {"closed", "gathering", "sending"}
    /\ wire.complete \cup wire.kicked \subseteq Hosts /\ wire.receivers \subseteq Hosts
    /\ ip \in Known /\ targets \in Known /\ wire.at \in Known
    /\ board # NoCast => board = task /\ pc \in {"file", "follow", "checked"}

\* MulticastManager::start: rows a session had claimed are failed by now, and
\* a queue that is left from before wakes the worker
Init ==
    /\ rows \in [Casts -> {[h \in Hosts |-> "absent"], [h \in Hosts |-> "pending"]}]
    /\ \A t, u \in Casts : t < u /\ rows[t][Min(Hosts)] = "absent" => rows[u] = rows[t]
    /\ woken = (\E t \in Casts : HostsIn(t, "pending") # {})
    /\ busy = {} /\ connected = Hosts
    /\ ui = {} /\ owed = 0 /\ ops = 0 /\ faults = 0
    /\ pc = "wait" /\ task = NoCast
    /\ batch = {} /\ todo = {} /\ verdict = "free"
    /\ expected = 0 /\ targets = Unknown /\ file = 0 /\ joined = 0 /\ inStep = {}
    /\ running = {} /\ present = {} /\ outcome = "ok"
    /\ blind = FALSE /\ board = NoCast /\ wire = Closed
    /\ ip \in Known

-----------------------------------------------------------------------------
(* The UI: groups::multicast, and tasks.rs on a multicast.                 *)

Request == ops < MaxOps /\ ops' = ops + 1

IfActive(t, h, s) == IF rows[t][h] \in Active
                     THEN [rows EXCEPT ![t][h] = s] ELSE rows

CastCreate(t) ==
    /\ Request
    /\ \A u \in Casts : u < t <=> rows[u] # [h \in Hosts |-> "absent"]
    /\ rows' = [rows EXCEPT ![t] = [h \in Hosts |-> "pending"]]
    /\ owed' = owed + 1
    /\ UNCHANGED <<hostVars, ui, woken, pc, task, claimVars, fileVars,
                   endVars, blind, board, wire, faults>>

\* what a handler asks of the task it has just read, by aggregate_state
Admits(op, t, h) ==
    CASE op = "cancel" -> \E g \in Hosts : rows[t][g] \in Active
      [] op = "retry" -> /\ \A g \in Hosts : rows[t][g] \notin Active
                         /\ \E g \in Hosts : rows[t][g] \in {"failed", "cancelled"}
      [] op = "kick" -> rows[t][h] = "running"

CastCheck(op, t, h) ==
    /\ Request
    /\ Admits(op, t, h)
    /\ op = "kick" \/ h = Min(Hosts)
    /\ ui' = ui \cup {<<op, t, h>>}
    /\ UNCHANGED <<rows, hostVars, owed, woken, pc, task, claimVars,
                   fileVars, endVars, blind, board, wire, faults>>

CastWrite(op, t, h) ==
    /\ <<op, t, h>> \in ui
    /\ ui' = ui \ {<<op, t, h>>}
    /\ rows' =
         CASE op = "cancel" ->
                [rows EXCEPT ![t] = [g \in Hosts |-> IF @[g] \in Active
                                                     THEN "cancelled" ELSE @[g]]]
           [] op = "retry" ->
                [rows EXCEPT ![t] = [g \in Hosts |->
                    IF @[g] \in {"failed", "cancelled"} THEN "pending" ELSE @[g]]]
           [] op = "kick" -> IfActive(t, h, "failed")
    /\ owed' = owed + 1
    /\ UNCHANGED <<hostVars, ops, woken, pc, task, claimVars, fileVars,
                   endVars, blind, board, wire, faults>>

\* MulticastManager::wake: send_replace keeps one unseen change
Wake ==
    /\ owed > 0
    /\ owed' = owed - 1
    /\ woken' = TRUE
    /\ UNCHANGED <<rows, hostVars, ui, ops, pc, task, claimVars, fileVars,
                   endVars, blind, board, wire, faults>>

-----------------------------------------------------------------------------
(* What hosts do meanwhile: connect or leave, begin or end other tasks.    *)

\* upsert_host: an agent that connects has its row's address rewritten to the
\* one it had when it started (sys::get_ip), any or none
HostChanges(h) ==
    /\ Request
    /\ \/ busy' = (busy \ {h}) \cup ({h} \ busy) /\ UNCHANGED <<connected, ip>>
       \/ connected' = connected \ {h} /\ UNCHANGED <<busy, ip>>
       \/ /\ connected' = connected \cup {h} /\ UNCHANGED busy
          /\ \E a \in Addresses \cup {NoAddress} : ip' = [ip EXCEPT ![h] = a]
    /\ UNCHANGED <<rows, ui, owed, woken, pc, task, claimVars, fileVars, endVars,
                   blind, board, wire, faults>>

-----------------------------------------------------------------------------
(* Worker::run and run_session.                                            *)

WorkerOnly == UNCHANGED <<hostVars, uiVars>>

\* mutant: the worker takes one multicast for each time it is woken
TakeOne ==
    /\ pc = "next"
    /\ UNCHANGED <<rows, woken, fileVars, endVars, blind, board, wire, faults>>
    /\ WorkerOnly
    /\ LET queue == {t \in Casts : HostsIn(t, "pending") # {}} IN
       IF queue = {} \/ task # NoCast
       THEN /\ pc' = "wait" /\ task' = NoCast
            /\ UNCHANGED claimVars
       ELSE /\ task' = Min(queue) /\ pc' = "claim"
            /\ batch' = HostsIn(Min(queue), "pending") /\ todo' = batch'
            /\ UNCHANGED verdict

\* while woken.changed().await.is_ok()
Wakes ==
    /\ pc = "wait" /\ woken
    /\ woken' = FALSE
    /\ pc' = "next"
    /\ UNCHANGED <<rows, task, claimVars, fileVars, endVars, blind, board, wire,
                   faults>>
    /\ WorkerOnly

\* while let Some(task) = get_next_multicast(): the oldest task with a
\* pending row
TakeNext ==
    /\ pc = "next"
    /\ UNCHANGED <<rows, woken, fileVars, endVars, blind, board, wire, faults>>
    /\ WorkerOnly
    /\ LET queue == {t \in Casts : HostsIn(t, "pending") # {}} IN
       IF queue = {}
       THEN /\ pc' = "wait" /\ task' = NoCast
            /\ UNCHANGED claimVars
       ELSE /\ task' = Min(queue) /\ pc' = "claim"
            /\ batch' = HostsIn(Min(queue), "pending") /\ todo' = batch'
            /\ UNCHANGED verdict

\* claim: one lookup for each host that was pending ...
ClaimLooks ==
    /\ pc = "claim"
    /\ IF todo = {} THEN pc' = "session" /\ UNCHANGED verdict
       ELSE /\ pc' = "write"
            /\ verdict' = IF Min(todo) \in busy THEN "busy" ELSE "free"
    /\ UNCHANGED <<rows, woken, task, batch, todo, fileVars, endVars, blind, board,
                   wire, faults>>
    /\ WorkerOnly

\* ... and then a write
ClaimWrites ==
    /\ pc = "write"
    /\ rows' = IfActive(task, Min(todo), IF verdict = "busy" THEN "failed"
                                                             ELSE "running")
    /\ todo' = todo \ {Min(todo)}
    /\ pc' = "claim"
    /\ UNCHANGED <<woken, task, batch, verdict, fileVars, endVars, blind, board,
                   wire, faults>>
    /\ WorkerOnly

\* retrying: a failed statement starts the claim over, with the same hosts
ClaimAgain ==
    /\ pc \in {"claim", "write"} /\ Fault
    /\ todo' = batch /\ pc' = "claim"
    /\ UNCHANGED <<rows, woken, task, batch, verdict, fileVars, endVars, blind,
                   board, wire>>
    /\ WorkerOnly

\* session: the hosts it claimed are told, and counted ...
SessionBegins ==
    /\ pc = "session"
    /\ expected' = Cardinality(HostsIn(task, "running"))
    /\ file' = 1 /\ joined' = 0 /\ inStep' = HostsIn(task, "running")
    /\ pc' = "targets"
    /\ batch' = {} /\ verdict' = "free"
    /\ UNCHANGED <<rows, woken, task, todo, targets, endVars, blind, board, wire,
                   faults>>
    /\ WorkerOnly

\* ... and, the files found, their addresses are read, once
ReadTargets ==
    /\ pc = "targets"
    /\ targets' = [h \in Hosts |-> IF h \in inStep THEN ip[h] ELSE NoAddress]
    /\ pc' = "file"
    /\ UNCHANGED <<rows, woken, task, claimVars, expected, file, joined, inStep,
                   endVars, blind, board, wire, faults>>
    /\ WorkerOnly

\* end_multicast, and the start of settle
EndSession(result) ==
    /\ pc' = "ended" /\ outcome' = result
    /\ blind' = FALSE
    /\ expected' = 0 /\ targets' = Unknown
    /\ file' = 0 /\ joined' = 0 /\ inStep' = {}
    /\ board' = NoCast /\ wire' = Closed
    /\ present' = connected
    /\ running' = {}

\* the image's files cannot be read, the interface has no address, a port is
\* not released in time, or a lookup fails
SessionFails ==
    /\ pc \in {"session", "targets", "file"} /\ Fault
    /\ EndSession("error")
    /\ UNCHANGED <<rows, woken, task, claimVars>>
    /\ WorkerOnly

\* the loop over the files: a file is offered while somebody is left for it
NextFile ==
    /\ pc = "file"
    /\ IF file > Steps \/ HostsIn(task, "running") = {}
       THEN EndSession("ok")
       ELSE /\ pc' = "follow"
            /\ expected' = Min({expected, Cardinality(HostsIn(task, "running"))})
            /\ joined' = 0
            /\ wire' = [Closed EXCEPT !.phase = "gathering"]
            /\ UNCHANGED <<targets, file, inStep, endVars, board, blind>>
    /\ UNCHANGED <<rows, woken, task, claimVars, faults>>
    /\ WorkerOnly

\* follow: a wake-up makes it read the rows again ...
FollowWoken ==
    /\ pc = "follow" /\ woken
    /\ woken' = FALSE
    /\ blind' = FALSE
    /\ running' = HostsIn(task, "running")
    /\ pc' = "checked"
    /\ UNCHANGED <<rows, task, claimVars, fileVars, present, outcome, board, wire,
                   faults>>
    /\ WorkerOnly

\* ... a failed read is passed over ...
FollowBlind ==
    /\ pc = "follow" /\ woken /\ Fault
    /\ woken' = FALSE
    /\ blind' = TRUE
    /\ UNCHANGED <<rows, pc, task, claimVars, fileVars, endVars, board, wire>>
    /\ WorkerOnly

\* mutant: of two participants with one address the last is known
HostAtLast(a) == LET at == {h \in Hosts : targets[h] = a}
                 IN  IF at = {} THEN {} ELSE {Max(at)}

\* Targets: an address that two participants share identifies neither
HostAt(a) == LET at == {h \in Hosts : targets[h] = a}
             IN  IF Cardinality(at) = 1 THEN at ELSE {}

\* ... and the receivers whose address belongs, by the session's list, to a
\* participant whose row is not running any more are kicked
FollowKicks ==
    /\ pc = "checked"
    /\ UNCHANGED <<rows, woken, task, claimVars, faults>>
    /\ WorkerOnly
    /\ IF running = {}
       THEN EndSession("ok")
       ELSE LET out == {h \in wire.receivers :
                           \E g \in HostAt(wire.at[h]) : g \notin running}
            IN  /\ wire' = [wire EXCEPT !.receivers = @ \ out,
                                        !.complete = @ \ out,
                                        !.kicked = @ \cup out]
                /\ pc' = "follow"
                /\ running' = {}
                /\ UNCHANGED <<fileVars, present, outcome, board, blind>>

\* follow: a change of the transfer's progress is counted and shown
FollowProgress ==
    /\ pc = "follow"
    /\ Cardinality(wire.receivers) > joined \/ board # task
    /\ joined' = Max({joined, Cardinality(wire.receivers)})
    /\ board' = task
    /\ UNCHANGED <<rows, woken, pc, task, claimVars, expected, targets, file,
                   inStep, endVars, blind, wire, faults>>
    /\ WorkerOnly

\* mutant: only the receivers that were seen in time count
CountedSeen == joined

\* the last state of the transfer counts too
Counted == Max({joined, Cardinality(wire.receivers)})

\* follow: the transfer is over; the next waits for those that have this file
FollowEnds ==
    /\ pc = "follow" /\ wire.phase = "sending"
    /\ expected' = IF wire.complete = wire.receivers
                   THEN Counted ELSE Cardinality(wire.complete)
    /\ inStep' = wire.complete
    /\ file' = file + 1 /\ joined' = 0
    /\ pc' = "file"
    /\ wire' = Closed
    /\ blind' = FALSE
    /\ UNCHANGED <<rows, woken, task, claimVars, targets, endVars, board, faults>>
    /\ WorkerOnly

\* the transfer fails as a whole
FollowFails ==
    /\ pc = "follow" /\ Fault
    /\ EndSession("error")
    /\ UNCHANGED <<rows, woken, task, claimVars>>
    /\ WorkerOnly

\* settle reads the rows that are still running ...
SettleLooks ==
    /\ pc = "ended"
    /\ running' = HostsIn(task, "running")
    /\ pc' = "settle"
    /\ UNCHANGED <<rows, woken, task, claimVars, fileVars, present, outcome, blind,
                   board, wire, faults>>
    /\ WorkerOnly

\* ... and fails the ones nobody will report on
SettleWrites ==
    /\ pc = "settle"
    /\ IF running = {}
       THEN /\ pc' = "next" /\ present' = {} /\ outcome' = "ok"
            /\ UNCHANGED <<rows, running>>
       ELSE LET h == Min(running) IN
            /\ running' = running \ {h}
            /\ rows' = IF outcome = "error" \/ h \notin present
                       THEN IfActive(task, h, "failed") ELSE rows
            /\ UNCHANGED <<pc, present, outcome>>
    /\ UNCHANGED <<woken, task, claimVars, fileVars, blind, board, wire, faults>>
    /\ WorkerOnly

\* retrying: settle starts over
SettleAgain ==
    /\ pc = "settle" /\ Fault
    /\ pc' = "ended" /\ present' = connected /\ running' = {}
    /\ UNCHANGED <<rows, woken, task, claimVars, fileVars, outcome, blind,
                   board, wire>>
    /\ WorkerOnly

WorkerNext == \/ Wakes \/ TakeNext \/ ClaimLooks \/ ClaimWrites \/ SessionBegins
              \/ ReadTargets \/ NextFile \/ FollowWoken \/ FollowKicks \/ FollowProgress
              \/ SettleLooks \/ SettleWrites

-----------------------------------------------------------------------------
(* The hosts and scuttlecast.                                              *)

WireOnly == UNCHANGED <<hostVars, uiVars, woken, pc, task, claimVars,
                        fileVars, endVars, blind, board, faults>>

\* the agent joins the group of the file it needs next, told by a dispatch
\* that may by now be out of date, and with the address its interface has at
\* that moment (local_ipv4), whatever its row holds
Join(h) ==
    /\ wire.phase = "gathering"
    /\ h \in inStep \ (wire.receivers \cup wire.kicked)
    /\ rows[task][h] \in {"running", "failed", "cancelled"}
    /\ \E a \in Addresses :
          wire' = [wire EXCEPT !.receivers = @ \cup {h}, !.at[h] = a]
    /\ UNCHANGED rows
    /\ WireOnly

\* enough receivers, or the join window has passed
Send ==
    /\ wire.phase = "gathering"
    /\ wire' = [wire EXCEPT !.phase = "sending"]
    /\ UNCHANGED rows
    /\ WireOnly

Completes(h) ==
    /\ wire.phase = "sending" /\ h \in wire.receivers \ wire.complete
    /\ wire' = [wire EXCEPT !.complete = @ \cup {h}]
    /\ UNCHANGED rows
    /\ WireOnly

\* the agent's report: done once it has every file, failed at any time
Reports(h) ==
    /\ task # NoCast
    /\ rows[task][h] = "running"
    /\ \/ /\ file > Steps /\ h \in inStep
          /\ rows' = [rows EXCEPT ![task][h] = "done"]
       \/ rows' = [rows EXCEPT ![task][h] = "failed"]
    /\ UNCHANGED wire
    /\ WireOnly

HandlerNext == \/ \E u \in ui : CastWrite(u[1], u[2], u[3])
               \/ Wake

Next == \/ \E t \in Casts : CastCreate(t)
        \/ \E op \in {"cancel", "retry", "kick"}, t \in Casts, h \in Hosts :
              CastCheck(op, t, h)
        \/ HandlerNext
        \/ \E h \in Hosts : HostChanges(h)
        \/ WorkerNext
        \/ FollowEnds \/ FollowBlind \/ ClaimAgain \/ SessionFails \/ FollowFails
        \/ SettleAgain
        \/ \E h \in Hosts : Join(h) \/ Completes(h) \/ Reports(h)
        \/ Send

(***************************************************************************)
(* Handlers and the worker are driven by the runtime.  Nothing is assumed  *)
(* of hosts and of the transfer: a transfer may go on for ever.            *)
(***************************************************************************)
Fairness == WF_vars(HandlerNext) /\ WF_vars(WorkerNext)

Spec == Init /\ [][Next]_vars /\ Fairness

-----------------------------------------------------------------------------

(***************************************************************************)
(* Worker::follow evicts a receiver only on behalf of a participant that   *)
(* was taken out of the multicast, and that participant is the receiver    *)
(* itself if the receiver still has the address its row had when the       *)
(* session began.  So neither an address that several rows hold, nor one   *)
(* without a row, nor a row rewritten since, nor rows read a step earlier, *)
(* evict a host that is still running at its own address.  A host that has *)
(* since taken over the address of another participant goes with it.       *)
(***************************************************************************)
OnlyKickedAreEvicted ==
    [][\A h \in wire'.kicked \ wire.kicked :
          \E g \in Hosts : /\ targets[g] = wire.at[h] /\ rows[task][g] # "running"
                           /\ targets[h] = wire.at[h] => g = h]_vars

(***************************************************************************)
(* Worker::session: while a file after the first gathers its receivers,    *)
(* the transfer waits for at least as many as have all earlier files and   *)
(* are still running, however few of their joins follow has seen.          *)
(***************************************************************************)
InStepAreAwaited ==
    pc = "follow" /\ wire.phase = "gathering" /\ file > 1
        => expected >= Cardinality(inStep \cap HostsIn(task, "running"))

(***************************************************************************)
(* A multicast nobody takes part in any more (cancelled, kicked out or     *)
(* failed) does not keep the worker: the wake-up that follows the write is *)
(* never lost, even if it falls between two waits, and follow gives up     *)
(* although the transfer itself might never end.  Only a check that failed *)
(* (the code keeps the transfer running then), or reports of the hosts     *)
(* alone (they do not wake the manager), excuse it.                        *)
(***************************************************************************)
Cancelled(t) == \A h \in Hosts : rows[t][h] = "cancelled"

CancelEndsTransfer ==
    \A t \in Casts :
        (pc = "follow" /\ task = t /\ Cancelled(t))
            ~> (pc # "follow" \/ blind \/ ~Cancelled(t))

(***************************************************************************)
(* Every multicast in the queue is taken, as long as transfers end: one    *)
(* wake-up may stand for several new multicasts.                           *)
(***************************************************************************)
QueueIsDrained ==
    ([]<>(pc # "follow")) =>
        \A t \in Casts : (HostsIn(t, "pending") # {}) ~> (HostsIn(t, "pending") = {})
=============================================================================

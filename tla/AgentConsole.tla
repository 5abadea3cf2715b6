---------------------------- MODULE AgentConsole ----------------------------
(* The agent's own screen: the state that its tasks report to, what is     *)
(* drawn from it, the keys, and the reboots - the one that follows a task  *)
(* after a countdown and the one an operator confirms at the console.      *)
EXTENDS Naturals, Sequences, FiniteSets, Functions

CONSTANTS Work,      \* the host's tasks, in the order the server gives them out:
                     \* kind, bytes of each partition to image (0 for swap), number of scripts
          Queues,    \* which of them may be queued at the start; the others were cancelled
          Height,    \* lines of a screenful of logs
          KeptLines, \* lines the log keeps (1000 in the code)
          MaxScroll, \* lines it is scrolled up
          MaxNaks,
          MaxConfirmed \* reboots confirmed at the console

VARIABLES task,      \* AgentState.task
          reboot,    \* AgentState.reboot: "not planned", "countdown", "cancelled"
          confirming, \* App.confirming_reboot
          runner,    \* run_task: where it is
          reporters, \* progress handles still in use: task, partition
          cast,      \* MulticastState: slot, naks of the slot, total; history: naks of each slot
          token,     \* RunningTask.cancel: the console has cancelled the run
          console,   \* the reboots confirmed at the console: where each is, the task it
                     \* interrupts (0: none) and whether the server answered it
          row,       \* the server's rows of the host
          machine

vars == <<task, reboot, confirming, runner, reporters, cast, token, console, row, machine>>

Ids == DOMAIN Work
NoTask == [id |-> 0, step |-> "starting", parts |-> <<>>, scripts |-> <<>>, outcome |-> "none"]
NoCast == [slot |-> 0, naks |-> 0, total |-> 0, seen |-> <<>>]
Waiting == [phase |-> "waiting", half |-> 0]
Over(s) == s \in {"done", "failed", "cancelled"}

RunningTask == task.id # 0 /\ task.outcome = "none"

\* Status::update_task: nothing is changed once the task has its outcome.
UpdateTask(t) == task' = IF RunningTask THEN t ELSE task

TaskEnded(o) == UpdateTask([task EXCEPT !.outcome = o])

-----------------------------------------------------------------------------
\* What is drawn.

\* PartitionState::fraction and TaskState::fraction, in half bytes of the total.
PartitionHalves(p) == CASE p.phase = "waiting" -> 0 [] p.phase = "running" -> p.half [] OTHER -> 2

SumTo(f, n) == LET sum[k \in 0 .. n] == IF k = 0 THEN 0 ELSE sum[k - 1] + f[k] IN sum[n]
SumOf(f) == SumTo(f, Len(f))

Fraction(t) ==
    LET size == [i \in DOMAIN t.parts |-> Work[t.id].parts[i]]
        total == IF SumOf(size) = 0 THEN 1 ELSE SumOf(size)
    IN  CASE t.step \in {"starting", "table"} -> [of |-> 2 * total, is |-> 0]
          [] t.step = "finishing" -> [of |-> 2 * total, is |-> 2 * total]
          [] OTHER -> [of |-> 2 * total,
                       is |-> SumOf([i \in DOMAIN t.parts |-> size[i] * PartitionHalves(t.parts[i])])]

\* draw_steps: the marks before the partition table, the partitions and the scripts.
Mark(phase) == CASE phase \in {"done", "exit0"} -> "ok"
                 [] phase = "running" -> IF task.outcome # "none" THEN "bad" ELSE "running"
                 [] phase = "waiting" -> "waiting"
                 [] OTHER -> "bad"
TablePhase == CASE task.step = "starting" -> "waiting"
                [] task.step = "table" -> "running"
                [] OTHER -> "done"
Marks == <<Mark(TablePhase)>> \o [i \in DOMAIN task.parts |-> Mark(task.parts[i].phase)]
                              \o [i \in DOMAIN task.scripts |-> Mark(task.scripts[i])]

\* draw_result_banner: the line about the reboot.
RebootText == CASE task.outcome = "none" -> "nothing"
                [] reboot = "countdown" -> "any key cancels"
                [] reboot = "cancelled" -> "Reboot cancelled"
                [] task.outcome = "done" -> "nothing"
                [] OTHER -> "F10 to reboot"

\* The status panel of a multicast.
CastStatus == CASE task.outcome = "done" -> "DONE"
                [] task.outcome # "none" -> "STOPPED"
                [] cast.slot = 0 -> "JOINING"
                [] OTHER -> "receiving"

\* draw_logs: the lines from (excluded) and to (included) of the log that are shown.
LogWindow(n, scroll) ==
    LET Minus(a, b) == IF a < b THEN 0 ELSE a - b
        end == Minus(n, IF scroll < Minus(n, Height) THEN scroll ELSE Minus(n, Height))
    IN  [from |-> Minus(end, Height), to |-> end]

-----------------------------------------------------------------------------
Init == /\ task = NoTask /\ reboot = "not planned"
        /\ confirming = FALSE
        /\ runner = "idle" /\ reporters = {} /\ cast = NoCast
        /\ token = FALSE /\ console = {}
        /\ machine = "up"
        /\ \E q \in Queues : row = [i \in Ids |-> IF i \in q THEN "pending" ELSE "cancelled"]

screen == <<reboot, confirming>>
rest == <<screen, token, console, machine>>

Current == IF \E i \in Ids : ~Over(row[i])
           THEN CHOOSE i \in Ids : ~Over(row[i]) /\ \A j \in Ids : j < i => Over(row[j]) ELSE 0

\* start_task: with its runner free the agent takes the server's current task.
TaskStarted ==
    /\ machine = "up" /\ runner = "idle" /\ Current # 0
    /\ task' = [NoTask EXCEPT !.id = Current]
    /\ reboot' = "not planned" /\ cast' = NoCast /\ runner' = "fresh" /\ token' = FALSE
    /\ UNCHANGED <<confirming, console, machine, reporters, row>>

\* mark_started: a task that was settled meanwhile is refused.
Prepare ==
    /\ machine = "up" /\ runner = "fresh"
    /\ IF Work[task.id].kind = "reboot" THEN runner' = "finalize" /\ UNCHANGED <<task, row>>
       ELSE IF Over(row[task.id]) THEN runner' = "failing" /\ UNCHANGED <<task, row>>
       ELSE /\ runner' = "table" /\ row' = [row EXCEPT ![task.id] = "running"]
            /\ UpdateTask([task EXCEPT !.step = "table"])
    /\ UNCHANGED <<rest, reporters, cast>>

\* Status::partitions.  When the same task is started anew, what a killed partclone had still
\* printed is read before the task is here again (several answers of the server later).
Partitions ==
    /\ machine = "up" /\ runner = "table" /\ runner' = "parts"
    /\ \A r \in reporters : r.id # task.id
    /\ UpdateTask([task EXCEPT !.step = "partitions",
                               !.parts = [i \in DOMAIN Work[task.id].parts |-> Waiting]])
    /\ UNCHANGED <<rest, reporters, cast, row>>

AtPart(i) == \A j \in DOMAIN task.parts : (j < i) = (task.parts[j].phase = "done")

PartBegins(i) ==
    /\ machine = "up" /\ runner = "parts" /\ i \in DOMAIN task.parts
    /\ AtPart(i) /\ task.parts[i].phase = "waiting"
    /\ UpdateTask([task EXCEPT !.parts[i] = [phase |-> "running", half |-> 0]])
    /\ reporters' = reporters \cup {[id |-> task.id, part |-> i]}
    /\ UNCHANGED <<rest, runner, cast, row>>

\* mutant: a handle reports to whatever task is there
ReportedToAny(r) == r.part \in DOMAIN task.parts

\* PartitionProgress::report: to the task the handle was made for.
Reported(r) == task.id = r.id /\ r.part \in DOMAIN task.parts

Report(r) ==
    /\ machine = "up"
    /\ IF Reported(r) /\ task.parts[r.part].half < 2
       THEN UpdateTask([task EXCEPT !.parts[r.part] = [phase |-> "running", half |-> @.half + 1]])
       ELSE UNCHANGED task
    /\ UNCHANGED <<rest, runner, reporters, cast, row>>

\* follow ends with partclone's output.
ReporterEnds(r) ==
    /\ machine = "up"
    /\ reporters' = reporters \ {r}
    /\ UNCHANGED <<rest, task, runner, cast, row>>

\* A restore that is dropped takes its handle along; a capture's is read in a task of its own.
Dropped == IF Work[task.id].kind = "capture" THEN reporters ELSE {r \in reporters : r.id # task.id}

PartEnds(i) ==
    /\ machine = "up" /\ runner = "parts" /\ i \in DOMAIN task.parts
    /\ AtPart(i) /\ task.parts[i].phase = "running"
    /\ [id |-> task.id, part |-> i] \notin reporters
    /\ UpdateTask([task EXCEPT !.parts[i].phase = "done"])
    /\ UNCHANGED <<rest, runner, reporters, cast, row>>

PartsDone ==
    /\ machine = "up" /\ runner = "parts" /\ AtPart(Len(task.parts) + 1)
    /\ UpdateTask([task EXCEPT !.step = "finishing",
                               !.scripts = [i \in 1..Work[task.id].scripts |-> "waiting"]])
    /\ runner' = "scripts"
    /\ UNCHANGED <<rest, reporters, cast, row>>

\* run_scripts: one after the other, up to the first that does not exit with 0.
Script(i) ==
    /\ machine = "up" /\ runner = "scripts" /\ i \in DOMAIN task.scripts
    /\ \A j \in 1..(i - 1) : task.scripts[j] = "exit0"
    /\ \/ /\ task.scripts[i] = "waiting" /\ UNCHANGED runner
          /\ UpdateTask([task EXCEPT !.scripts[i] = "running"])
       \/ /\ task.scripts[i] = "running"
          /\ \E code \in {"exit0", "exit1", "killed"} :
                /\ UpdateTask([task EXCEPT !.scripts[i] = code])
                /\ runner' = IF code = "exit0" THEN runner ELSE "failing"
    /\ UNCHANGED <<rest, reporters, cast, row>>

ScriptsDone ==
    /\ machine = "up" /\ runner = "scripts" /\ \A i \in DOMAIN task.scripts : task.scripts[i] = "exit0"
    /\ runner' = "finalize"
    /\ UNCHANGED <<rest, task, reporters, cast, row>>

\* Whatever run() does may fail, the look at the disk before mark_started included; a reboot's
\* does nothing.
RunFails ==
    /\ machine = "up" /\ runner \in {"fresh", "table", "parts", "scripts"} /\ runner' = "failing"
    /\ Work[task.id].kind # "reboot"
    /\ reporters' = Dropped
    /\ UNCHANGED <<rest, task, cast, row>>

\* MulticastState::sample of the slot that is received, once a second.
Sample(slot, naks) ==
    /\ machine = "up" /\ runner \in {"table", "parts"} /\ RunningTask
    /\ Work[task.id].kind = "multicast"
    /\ slot \in {cast.slot, cast.slot + 1} \ {0} /\ slot <= Len(task.parts) + 1
    /\ slot = cast.slot => naks >= cast.naks
    /\ LET previous == IF slot = cast.slot THEN cast.naks ELSE 0
       IN  cast' = [slot |-> slot, naks |-> naks, total |-> cast.total + (naks - previous),
                    seen |-> [s \in 1..slot |-> IF s = slot THEN naks ELSE cast.seen[s]]]
    /\ UNCHANGED <<rest, task, runner, reporters, row>>

-----------------------------------------------------------------------------
\* run_task once run() is over: the result is reported, then shown.

AfterReport == IF Work[task.id].kind = "capture" THEN "idle" ELSE "countdown"

\* report_finished retries until the server answers; a row that is settled is refused.
Finalize ==
    /\ machine = "up" /\ runner = "finalize"
    /\ IF Over(row[task.id]) /\ row[task.id] # "done"
       THEN TaskEnded("failed") /\ runner' = "idle" /\ UNCHANGED row
       ELSE /\ row' = [row EXCEPT ![task.id] = "done"]
            /\ TaskEnded("done") /\ runner' = AfterReport
    /\ UNCHANGED <<rest, reporters, cast>>

\* The server fails a task that is not over.
MarkFailed(i) == row' = [row EXCEPT ![i] = IF Over(@) THEN @ ELSE "failed"]

FinalizeError ==
    /\ machine = "up" /\ runner = "failing" /\ runner' = "idle"
    /\ MarkFailed(task.id) /\ TaskEnded("failed")
    /\ UNCHANGED <<rest, reporters, cast>>

\* The server's current task is another one, or the console cancels: run() is dropped.
Cancelled ==
    /\ machine = "up" /\ runner \in {"fresh", "table", "parts", "scripts"}
    /\ Over(row[task.id]) \/ token
    /\ TaskEnded("cancelled") /\ runner' = "idle" /\ reporters' = Dropped
    /\ UNCHANGED <<rest, cast, row>>

\* An operator cancels the task at the dashboard.
SettledElsewhere(i) ==
    /\ ~Over(row[i]) /\ row' = [row EXCEPT ![i] = "cancelled"]
    /\ UNCHANGED <<rest, task, runner, reporters, cast>>

-----------------------------------------------------------------------------
\* reboot_countdown, then now(): the server is told, within a time limit.

CountdownBegins ==
    /\ machine = "up" /\ runner = "countdown" /\ runner' = "counting" /\ reboot' = "countdown"
    /\ UNCHANGED <<task, confirming, token, console, machine, reporters, cast, row>>

CountdownEnds ==
    /\ machine = "up" /\ runner = "counting"
    /\ \/ runner' = "leaving"
       \/ reboot = "cancelled" /\ runner' = "idle"
    /\ UNCHANGED <<rest, task, reporters, cast, row>>

Reboots ==
    /\ machine = "up" /\ runner = "leaving" /\ machine' = "off" /\ runner' = "rebooted"
    /\ UNCHANGED <<screen, token, console, task, reporters, cast, row>>

\* A key: cancel_reboot, then handle_key.  The other keys (tabs, scrolling) do no more than that.
Key(k) ==
    /\ machine = "up"
    /\ reboot' = IF reboot = "countdown" THEN "cancelled" ELSE reboot
    /\ confirming' = (~confirming /\ k = "f10")
    /\ IF confirming /\ k = "y"
       THEN /\ Cardinality(console) < MaxConfirmed
            /\ console' = console \cup {[no |-> Cardinality(console), pc |-> "asked", id |-> 0,
                                         answer |-> "none"]}
       ELSE UNCHANGED console
    /\ UNCHANGED <<task, runner, reporters, cast, token, row, machine>>

\* One of the reboots from the console goes on.
Goes(q, r) == console' = (console \ {q}) \cup {r}

\* from_console: it looks which task runs and cancels it.
ConsoleCancels(q) ==
    /\ machine = "up" /\ q.pc = "asked"
    /\ IF RunningTask THEN token' = TRUE /\ Goes(q, [q EXCEPT !.pc = "cancelled", !.id = task.id])
       ELSE UNCHANGED token /\ Goes(q, [q EXCEPT !.pc = "leaving"])
    /\ UNCHANGED <<screen, machine, task, runner, reporters, cast, row>>

\* mark_failed, which the server takes or refuses in time, or does not answer in time: then it
\* may have taken it all the same.
ConsoleReports(q) ==
    /\ machine = "up" /\ q.pc = "cancelled"
    /\ \/ MarkFailed(q.id) /\ Goes(q, [q EXCEPT !.pc = "leaving", !.answer = "came"])
       \/ (MarkFailed(q.id) \/ UNCHANGED row) /\ Goes(q, [q EXCEPT !.pc = "leaving"])
    /\ UNCHANGED <<screen, token, machine, task, runner, reporters, cast>>

ConsoleReboots(q) ==
    /\ machine = "up" /\ q.pc = "leaving" /\ machine' = "off"
    /\ Goes(q, [q EXCEPT !.pc = "rebooted"])
    /\ UNCHANGED <<screen, token, task, runner, reporters, cast, row>>

-----------------------------------------------------------------------------
Next == \/ TaskStarted \/ Prepare \/ Partitions \/ PartsDone \/ ScriptsDone \/ RunFails
        \/ \E i \in DOMAIN task.parts : PartBegins(i) \/ PartEnds(i)
        \/ \E r \in reporters : Report(r) \/ ReporterEnds(r)
        \/ \E i \in DOMAIN task.scripts : Script(i)
        \/ \E slot \in 1..(cast.slot + 1), naks \in 0..MaxNaks : Sample(slot, naks)
        \/ Finalize \/ FinalizeError \/ Cancelled \/ \E i \in Ids : SettledElsewhere(i)
        \/ CountdownBegins \/ CountdownEnds \/ Reboots
        \/ \E k \in {"f10", "y", "other"} : Key(k)
        \/ \E q \in console : ConsoleCancels(q) \/ ConsoleReports(q) \/ ConsoleReboots(q)

(* A machine does not go down with a result in its pocket: run_task        *)
(* reboots it only when the server has taken the task as done, and a task  *)
(* that the server still has as running when the machine is down was       *)
(* interrupted at the console without an answer of the server: none came   *)
(* in time, or another confirmation took the machine down before it could. *)
(* Or the task began after the look of the confirmation that took it down, *)
(* which reports the task that it saw and no other.                        *)
RebootIsReported ==
    machine = "off" =>
        /\ runner = "rebooted" => task.outcome = "done" /\ row[task.id] = "done"
        /\ \A i \in Ids : row[i] = "running" =>
              \/ \E q \in console : q.id = i /\ q.answer = "none"
              \/ i = task.id /\ RunningTask /\ \E q \in console : q.pc = "rebooted" /\ q.id # i

(* The screen tells how the task stands: steps are marked in order, at     *)
(* most one of them as running and none once the task is over; DONE is     *)
(* shown only for a task the server has as done with every step marked     *)
(* ok; the bar is full only when every byte is through, the multicast's    *)
(* totals add up over its files, and the log's window holds a screenful    *)
(* whenever there is one, however far it was scrolled.  Reports of an      *)
(* earlier task do not reach it.                                           *)
ScreenIsTrue ==
    LET m == Marks  f == Fraction(task)
    IN  /\ task.id # 0 =>
             /\ \A i, j \in DOMAIN m : i < j /\ m[j] # "waiting" => m[i] = "ok"
             /\ task.outcome # "none" => "running" \notin Range(m)
             /\ task.outcome = "done" /\ Work[task.id].kind # "reboot" =>
                   Range(m) = {"ok"} /\ row[task.id] = "done" /\ f.is = f.of
             /\ f.is <= f.of
             /\ f.is = f.of => \A i \in DOMAIN task.parts : task.parts[i].phase = "done"
                                   \/ Work[task.id].parts[i] = 0 \/ task.parts[i].half = 2
             /\ \A i \in DOMAIN task.parts : task.parts[i].phase = "running" /\ runner = "parts" => AtPart(i)
        /\ cast.total = SumOf(cast.seen)
        /\ CastStatus = "DONE" => RebootText # "F10 to reboot"
        /\ \A n \in 0..KeptLines, scroll \in 0..MaxScroll :
              LET w == LogWindow(n, scroll)
              IN  w.from <= w.to /\ w.to <= n /\ w.to - w.from = (IF n < Height THEN n ELSE Height)

(* "Any key cancels": a machine that shows the reboot as cancelled stays   *)
(* up, unless the operator confirms another one at the console.  It does   *)
(* not hold: while now takes leave of the server, a key changes the screen *)
(* and nothing else.                                                       *)
KeyCancelsReboot == RebootText = "Reboot cancelled" /\ console = {} => machine = "up"
=============================================================================

---------------------------- MODULE OutputPanel -----------------------------
(* The panel with a host's script output: it polls while the row it        *)
(* belongs to is shown as open, and fetches once more after that.  The row *)
(* comes from another poll, at its own pace, and either may fail.          *)
EXTENDS Naturals

CONSTANTS MaxOutput, MaxAttempts, MaxFails

VARIABLES row,      \* the host's row at the server
          output,   \* what is stored for the attempt
          uploads,  \* handlers of the agent's requests that have passed their look at the row, by
                    \* the attempt they looked in
          settled,  \* history: what was stored when the row was settled
          attempt,  \* history: how often the task was retried
          shown,    \* the row as the task list shows it
          loop,     \* use_poll_while: where it is, was_active, the answer under way; history: of, the
                    \* attempt the row was last looked at in
          panel,    \* what the panel last recorded
          fails

vars == <<row, output, uploads, settled, attempt, shown, loop, panel, fails>>

Open(state) == state \in {"pending", "running"}
Out == [attempt |-> attempt, output |-> output]
NoOut == [attempt |-> 0, output |-> 0]
Fetching == [pc |-> "look", was |-> FALSE, of |-> 0, got |-> NoOut]

Init == /\ row = "pending" /\ output = 0 /\ attempt = 1 /\ uploads = {} /\ settled = 0
        /\ shown = [row |-> "pending", attempt |-> 1]
        /\ loop = Fetching /\ panel = [has |-> FALSE, out |-> NoOut, error |-> FALSE]
        /\ fails = 0

browser == <<shown, loop, panel, fails>>

Start == /\ row = "pending" /\ row' = "running"
         /\ UNCHANGED <<output, uploads, settled, attempt, browser>>

\* running_restore_task: each request of the agent looks once whether its row is running.  It makes
\* one after the other.
LookAtRow == /\ row = "running" /\ uploads' = uploads \cup {attempt}
             /\ UNCHANGED <<row, output, settled, attempt, browser>>

\* From then on a script's start, its output and its end are stored, however the row stands.
Write == /\ uploads # {} /\ output < MaxOutput /\ output' = output + 1
         /\ UNCHANGED <<row, uploads, settled, attempt, browser>>
UploadEnds(u) == /\ uploads' = uploads \ {u}
                 /\ UNCHANGED <<row, output, settled, attempt, browser>>

\* The agent reports its task as done after its last request was answered; it gives up, and cancel,
\* kick and the multicast's manager settle the row, at any time.
Finish == /\ \/ row = "running" /\ attempt \notin uploads /\ row' = "done"
             \/ Open(row) /\ row' \in {"failed", "cancelled"}
          /\ settled' = output
          /\ UNCHANGED <<output, uploads, attempt, browser>>
\* A retry deletes the output of the attempt before.
Retry == /\ row \in {"failed", "cancelled"} /\ attempt < MaxAttempts
         /\ row' = "pending" /\ output' = 0 /\ settled' = 0 /\ attempt' = attempt + 1
         /\ UNCHANGED <<uploads, browser>>

\* The task list shows the row as it is.
ShowRow == /\ shown # [row |-> row, attempt |-> attempt]
           /\ shown' = [row |-> row, attempt |-> attempt]
           /\ UNCHANGED <<row, output, uploads, settled, attempt, loop, panel, fails>>

Look == /\ loop.pc = "look"
        /\ loop' = [loop EXCEPT !.pc = "asked", !.was = Open(shown.row), !.of = shown.attempt]
        /\ UNCHANGED <<row, output, uploads, settled, attempt, shown, panel, fails>>
Answer == /\ loop.pc = "asked" /\ loop' = [loop EXCEPT !.pc = "answered", !.got = Out]
          /\ UNCHANGED <<row, output, uploads, settled, attempt, shown, panel, fails>>
Record == /\ loop.pc = "answered"
          /\ panel' = [has |-> TRUE, out |-> loop.got, error |-> FALSE]
          /\ loop' = [loop EXCEPT !.pc = "sleep", !.got = NoOut]
          /\ UNCHANGED <<row, output, uploads, settled, attempt, shown, fails>>
Fail == /\ loop.pc \in {"asked", "answered"} /\ fails < MaxFails /\ fails' = fails + 1
        /\ panel' = [panel EXCEPT !.error = TRUE]
        /\ loop' = [loop EXCEPT !.pc = "sleep", !.got = NoOut]
        /\ UNCHANGED <<row, output, uploads, settled, attempt, shown>>

\* mutant: the loop rests as soon as the row is shown as settled
RestsNow == ~Open(shown.row)

\* The loop rests when the row was shown as settled before the fetch.
Rests == ~loop.was /\ ~Open(shown.row)

Wake == /\ loop.pc = "sleep" \/ (loop.pc = "resting" /\ ~Rests)
        /\ loop' = [loop EXCEPT !.pc = IF Rests THEN "resting" ELSE "look"]
        /\ UNCHANGED <<row, output, uploads, settled, attempt, shown, panel, fails>>

Next == \/ Start \/ LookAtRow \/ Write \/ (\E u \in uploads : UploadEnds(u)) \/ Finish \/ Retry
        \/ ShowRow \/ Look \/ Answer \/ Record \/ Fail \/ Wake

(* A panel that has stopped asking shows all that was stored for the       *)
(* attempt it last looked at when its row was settled, or says that it     *)
(* could not be loaded: the row's poll and the panel's run at their own    *)
(* pace, so the row may turn settled while the panel's fetch is still      *)
(* under way with less.  What an upload stores after that (the row was     *)
(* cancelled, kicked or given up under it) it need not show.  (An attempt  *)
(* that came and went between two looks at the row is not followed.)       *)
RestsWhenWhole ==
    (loop.pc = "resting" /\ shown = [row |-> row, attempt |-> loop.of] /\ attempt = loop.of)
        => \/ panel.error
           \/ panel.has /\ panel.out.attempt = attempt /\ panel.out.output \in settled .. output
=============================================================================

----------------------------- MODULE ScriptRuns -----------------------------
(***************************************************************************)
(* Running the post-install scripts of one deployment on one host: the     *)
(* agent mounts the restored system, runs script after script in it and    *)
(* streams what they print; the server records the runs and keeps the head *)
(* and the tail of each output.                                            *)
(*                                                                         *)
(* An output is a number of bytes.  Inside lists the offsets that fall     *)
(* into the middle of a character; a stored chunk is an interval           *)
(* [from, to).  HeadBytes, TailBytes, LiveBytes and KeptBytes stand for    *)
(* the code's limits of many kilobytes.                                    *)
(***************************************************************************)
EXTENDS Integers, Sequences, FiniteSets, FiniteSetsExt

CONSTANTS
    Roots,          \* Roots[p]: the root partition of the plan's p-th script
    Restored,       \* sets of partitions a restore may have written
    Lines,          \* lengths of a line the scripts print
    HeadBytes, TailBytes,   \* SCRIPT_OUTPUT_HEAD_BYTES, SCRIPT_OUTPUT_TAIL_BYTES
    LiveBytes, KeptBytes,   \* LIVE_OUTPUT_BYTES, KEPT_TAIL_BYTES
    MarkerBytes,    \* length of the agent's own omission marker
    Inside, CharBytes,      \* CharBytes: the most bytes a character has
    Loud,           \* positions of the scripts that print
    MaxOutput,      \* bound on what one prints
    MaxOps          \* bound on cancels, retries and crashes

VARIABLES
    row,       \* the host's row of the task
    runs,      \* script_runs with their output, by position
    agent,     \* the task's future on the agent: pc, pos, exit, attempt
    mounts,    \* roots that are mounted
    out,       \* BoundedOutput of the running script
    upload,    \* the request that carries the output, and its handler
    ops

vars == <<row, runs, agent, mounts, out, upload, ops>>

Positions == 1 .. Len(Roots)
NoRun == [state |-> "none"]
NoUpload == [pc |-> "none", pos |-> 0, pending |-> 0, attempt |-> 0]
Fresh == [live |-> TRUE, sent |-> 0, tail |-> {}, omitted |-> 0, made |-> 0]
Idle == [pc |-> "idle", pos |-> 1, exit |-> 0, attempt |-> 0]

Init == /\ row = "pending"
        /\ runs = [p \in Positions |-> NoRun]
        /\ agent = Idle
        /\ mounts = {}
        /\ out = Fresh
        /\ upload = NoUpload
        /\ ops = 0

-----------------------------------------------------------------------------
(* The rows and what they drag along.                                      *)

(* close_script_runs_when_host_leaves_running.                             *)
Closed == [p \in Positions |->
              IF runs[p].state = "open" THEN [runs[p] EXCEPT !.state = "closed"] ELSE runs[p]]

Leave(state) ==
    IF row \in {"pending", "running"} THEN row' = state /\ runs' = Closed
    ELSE UNCHANGED <<row, runs>>

Op == ops < MaxOps /\ ops' = ops + 1

Cancel == /\ Op /\ row \in {"pending", "running"} /\ Leave("cancelled")
          /\ UNCHANGED <<agent, mounts, out, upload>>

Retry == /\ Op /\ row \in {"failed", "cancelled"}
         /\ row' = "pending"
         /\ runs' = [p \in Positions |-> NoRun]
         /\ UNCHANGED <<agent, mounts, out, upload>>

-----------------------------------------------------------------------------
(* The agent.                                                              *)

At(pc) == agent.pc = pc
Go(pc) == agent' = [agent EXCEPT !.pc = pc]

(* Reported as started, the image restored anew.                           *)
Start == /\ At("idle") /\ row \in {"pending", "running"} /\ upload = NoUpload
         /\ row' = "running"
         /\ agent' = [Idle EXCEPT !.pc = "plan", !.attempt = ops]
         /\ UNCHANGED <<runs, mounts, out, upload, ops>>

(* post_install's runs: every root must have been restored.                *)
Plan == \E restored \in Restored :
            /\ At("plan")
            /\ IF row # "running" \/ ~({Roots[p] : p \in Positions} \subseteq restored)
               THEN Go("failed") ELSE Go("mount")
            /\ UNCHANGED <<row, runs, mounts, out, upload, ops>>

(* MountedSystem::mount; a mount that fails half-way is undone by Drop.    *)
Mount == /\ At("mount")
         /\ \/ mounts' = {Roots[agent.pos]} /\ Go("script")
            \/ mounts' = {} /\ Go("failed")
         /\ UNCHANGED <<row, runs, out, upload, ops>>

(* execute: the process is spawned, the request opened.                    *)
Spawn == /\ At("script") /\ Go("running")
         /\ out' = Fresh
         /\ upload' = [NoUpload EXCEPT !.pc = "opening", !.pos = agent.pos,
                                       !.attempt = agent.attempt]
         /\ UNCHANGED <<row, runs, mounts, ops>>

(* bounded: a line is sent as long as all before it were and it fits;      *)
(* after that only the last lines are kept.  tail holds the offsets at     *)
(* which the lines held back begin.                                        *)
HeldFrom(b) == IF b.tail = {} THEN b.made ELSE Min(b.tail)
Held(b) == b.made - HeldFrom(b)

Bounded(b, n) ==
    IF b.live /\ b.sent + n <= LiveBytes
    THEN [b EXCEPT !.sent = @ + n, !.made = @ + n]
    ELSE LET made == b.made + n
             next == [b EXCEPT !.live = FALSE, !.made = made,
                               !.tail = {k \in b.tail \cup {b.made} : made - k <= KeptBytes}]
         IN  [next EXCEPT !.omitted = @ + HeldFrom(next) - HeldFrom(b)]

(* A line of output; the handler has it in its buffer once it is sent.     *)
PrintLine(n) ==
    /\ At("running") /\ agent.pos \in Loud /\ out.made + n <= MaxOutput
    /\ out' = Bounded(out, n)
    /\ upload.pc \in {"open", "broken"}
    /\ upload' = IF upload.pc = "open"
                 THEN [upload EXCEPT !.pending = @ + out'.sent - out.sent] ELSE upload
    /\ UNCHANGED <<row, runs, agent, mounts, ops>>

(* The process exits, by itself or because its pipe is closed; the stream  *)
(* ends with what was held back.                                           *)
Rest(b) == Held(b) + (IF b.omitted > 0 THEN MarkerBytes ELSE 0)

Exit(code) ==
    /\ At("running") /\ upload.pc \in {"open", "broken"}
    /\ agent' = [agent EXCEPT !.pc = "exited", !.exit = code]
    /\ upload' = IF upload.pc = "open"
                 THEN [upload EXCEPT !.pc = "ended", !.pending = @ + Rest(out)] ELSE upload
    /\ UNCHANGED <<row, runs, mounts, out, ops>>

(* join!: the upload has been answered.                                    *)
Uploaded ==
    /\ At("exited") /\ upload.pc \in {"done", "broken"}
    /\ Go(IF upload.pc = "done" THEN "finish" ELSE "unmount")
    /\ upload' = NoUpload
    /\ UNCHANGED <<row, runs, mounts, out, ops>>

(* finish_script, answered with an error when the run is not open; then    *)
(* the next script, the next system, or the end.                           *)
NextOf(pos) ==
    IF pos = Len(Roots) THEN "unmount_ok"
    ELSE IF Roots[pos + 1] = Roots[pos] THEN "script" ELSE "unmount_next"

Finish ==
    LET open == row = "running" /\ runs[agent.pos].state = "open"
    IN  /\ At("finish")
        /\ runs' = IF open THEN [runs EXCEPT ![agent.pos].state = "closed",
                                             ![agent.pos].exit = agent.exit] ELSE runs
        /\ IF open /\ agent.exit = 0
           THEN agent' = [agent EXCEPT !.pc = NextOf(agent.pos),
                             !.pos = IF NextOf(agent.pos) = "script" THEN @ + 1 ELSE @]
           ELSE Go("unmount")
        /\ UNCHANGED <<row, mounts, out, upload, ops>>

(* mutant: a failed script is left before its system is unmounted.         *)
UnmountOnSuccess ==
    /\ agent.pc \in {"unmount", "unmount_ok", "unmount_next"}
    /\ mounts' = IF At("unmount") THEN mounts ELSE {}
    /\ agent' = IF At("unmount_next") THEN [agent EXCEPT !.pc = "mount", !.pos = @ + 1]
                ELSE [agent EXCEPT !.pc = IF At("unmount_ok") THEN "done" ELSE "failed"]
    /\ UNCHANGED <<row, runs, out, upload, ops>>

(* unmount after the scripts of one root, whether they failed or not.      *)
Unmount ==
    /\ agent.pc \in {"unmount", "unmount_ok", "unmount_next"}
    /\ mounts' = {}
    /\ \/ agent' = IF At("unmount_next") THEN [agent EXCEPT !.pc = "mount", !.pos = @ + 1]
                   ELSE [agent EXCEPT !.pc = IF At("unmount_ok") THEN "done" ELSE "failed"]
       \/ Go("failed")
    /\ UNCHANGED <<row, runs, out, upload, ops>>

Report ==
    /\ agent.pc \in {"done", "failed"}
    /\ Leave(agent.pc)
    /\ agent' = Idle
    /\ UNCHANGED <<mounts, out, upload, ops>>

NewRun == [state |-> "open", exit |-> -1, total |-> 0, chunks |-> {},
           attempt |-> upload.attempt]

(* start_script_run: later positions are runs of an earlier attempt.       *)
Started == [p \in Positions |-> IF p < upload.pos THEN runs[p]
                                ELSE IF p = upload.pos THEN NewRun ELSE NoRun]

(* The future is dropped: the process is killed, Drop unmounts, and the    *)
(* request breaks off, perhaps after its handler went on to start the run. *)
(* A crash of the machine ends the same way.                               *)
BrokenOff == IF upload.pc \in {"none", "done", "broken"} THEN NoUpload
             ELSE [upload EXCEPT !.pc = "cut"]

Drop == /\ ~At("idle") /\ agent' = Idle /\ mounts' = {}
        /\ \/ upload' = BrokenOff /\ UNCHANGED runs
           \/ upload.pc = "checked" /\ upload' = BrokenOff /\ runs' = Started
        /\ UNCHANGED <<row, out>>

Aborts == row \notin {"pending", "running"} /\ Drop /\ UNCHANGED ops
Crash == Op /\ Drop

-----------------------------------------------------------------------------
(* The server's side of an upload.                                         *)

(* running_restore_task.                                                   *)
UploadChecks ==
    /\ upload.pc = "opening"
    /\ upload' = [upload EXCEPT !.pc = IF row = "running" THEN "checked" ELSE "broken"]
    /\ UNCHANGED <<row, runs, agent, mounts, out, ops>>

StartRun == /\ upload.pc = "checked"
            /\ upload' = [upload EXCEPT !.pc = "open"]
            /\ runs' = Started
            /\ UNCHANGED <<row, agent, mounts, out, ops>>

CeilBoundary(i) == Min({j \in i .. (i + CharBytes - 1) : j \notin Inside})
FloorBoundary(i) == Max({j \in 0 .. i : j \notin Inside})

(* kept_output: what of [from, to) is stored.                              *)
KeptOutput(from, to) ==
    LET cut == IF from < HeadBytes THEN Min({to, CeilBoundary(Min({HeadBytes, to}))}) ELSE from
        skip == Min({to, CeilBoundary(Max({cut, to - TailBytes}))})
    IN  (IF from < HeadBytes THEN {[from |-> from, to |-> cut]} ELSE {})
        \cup (IF cut < to THEN {[from |-> skip, to |-> to]} ELSE {})

(* mutant: the clean-up may reach into the head.                           *)
AppendedLoose(run, n) ==
    LET total == run.total + n
        all == run.chunks \cup KeptOutput(run.total, total)
    IN  [run EXCEPT !.total = total,
                    !.chunks = {c \in all : ~(c.to <= total - TailBytes)}]

(* append_script_output.                                                   *)
Appended(run, n) ==
    LET total == run.total + n
        all == run.chunks \cup KeptOutput(run.total, total)
    IN  [run EXCEPT !.total = total,
                    !.chunks = {c \in all : ~(c.from >= HeadBytes /\ c.to <= total - TailBytes)}]

(* decoded_prefix leaves the bytes of an unfinished character behind.      *)
Decoded == FloorBoundary(runs[upload.pos].total + upload.pending) - runs[upload.pos].total

AppendOutput(n, pc) ==
    IF n = 0 THEN upload' = [upload EXCEPT !.pc = pc] /\ UNCHANGED runs
    ELSE IF runs[upload.pos].state = "open"
         THEN /\ runs' = [runs EXCEPT ![upload.pos] = Appended(@, n)]
              /\ upload' = [upload EXCEPT !.pending = @ - n, !.pc = pc]
         ELSE upload' = [upload EXCEPT !.pc = "broken"] /\ UNCHANGED runs

(* record_output: a full buffer or the timer flushes; the end flushes all. *)
HasRun == runs[upload.pos].state # "none"
Flush == /\ upload.pc \in {"open", "ended"} /\ upload.pending > 0
         /\ IF HasRun THEN Decoded > 0 /\ AppendOutput(Decoded, upload.pc)
            ELSE upload' = [upload EXCEPT !.pc = "broken"] /\ UNCHANGED runs
         /\ UNCHANGED <<row, agent, mounts, out, ops>>

UploadEnds == /\ upload.pc = "ended"
              /\ IF HasRun THEN AppendOutput(upload.pending, "done")
                 ELSE upload' = [upload EXCEPT !.pc = IF upload.pending = 0 THEN "done" ELSE "broken"]
                      /\ UNCHANGED runs
              /\ UNCHANGED <<row, agent, mounts, out, ops>>

(* A request that broke off: one more flush may happen before the handler  *)
(* meets the error.                                                        *)
CutFlush == /\ upload.pc = "cut" /\ HasRun /\ Decoded > 0 /\ runs[upload.pos].state = "open"
            /\ runs' = [runs EXCEPT ![upload.pos] = Appended(@, Decoded)]
            /\ upload' = NoUpload
            /\ UNCHANGED <<row, agent, mounts, out, ops>>
CutEnds == /\ upload.pc = "cut" /\ upload' = NoUpload
           /\ UNCHANGED <<row, runs, agent, mounts, out, ops>>

Next ==
    \/ Cancel \/ Retry \/ Start \/ Plan \/ Mount \/ Spawn
    \/ \E n \in Lines : PrintLine(n)
    \/ \E code \in {0, 1} : Exit(code)
    \/ Uploaded \/ Finish \/ Unmount \/ Report \/ Aborts \/ Crash
    \/ UploadChecks \/ StartRun \/ Flush \/ UploadEnds \/ CutFlush \/ CutEnds

Spec == Init /\ [][Next]_vars

-----------------------------------------------------------------------------
(* TypeOK: the phases are the ones named, and no buffer underflows.        *)
TypeOK ==
    /\ row \in {"pending", "running", "done", "failed", "cancelled"}
    /\ \A p \in Positions : runs[p].state \in {"none", "open", "closed"}
    /\ agent.pos \in Positions
    /\ upload.pending \in Nat

(* SystemReleased: nothing of the restored disk is mounted once the task   *)
(* has an outcome, whichever of mount, scripts and unmount failed.         *)
SystemReleased == agent.pc \in {"idle", "done", "failed", "plan", "mount"} => mounts = {}

(* OneAttempt: the runs shown for a host are all of one attempt, and while *)
(* an attempt is under way a script has a run in it only when every script *)
(* before it has one that exited with 0.                                   *)
Present == {p \in Positions : runs[p].state # "none"}
OneAttempt ==
    /\ \A p, q \in Present : runs[p].attempt = runs[q].attempt
    /\ row = "running" /\ ~At("idle") =>
          \A p \in Present : runs[p].attempt = agent.attempt =>
              \A q \in 1 .. (p - 1) : runs[q].state = "closed" /\ runs[q].exit = 0

(* assemble_output: the head, how much is left out, the tail, as the bytes *)
(* shown.                                                                  *)
Bytes(cs) == UNION {c.from .. (c.to - 1) : c \in cs}

Assembled(run) ==
    LET head == {c \in run.chunks : c.from < HeadBytes}
        tail == run.chunks \ head
        first == Min({c.from : c \in tail})
        skipTo == CeilBoundary(first + Max({0, Cardinality(Bytes(tail)) - TailBytes}))
    IN  IF tail = {} THEN [head |-> Bytes(head), omitted |-> 0, tail |-> {}]
        ELSE [head |-> Bytes(head), omitted |-> skipTo - Cardinality(Bytes(head)),
              tail |-> {k \in Bytes(tail) : k >= skipTo}]

(* OutputKept: however the output was cut into flushes, what is shown is   *)
(* its head, its tail and the right count of what lies between; chunks     *)
(* never overlap.                                                          *)
HeadEnd(total) == Min({total, CeilBoundary(Min({HeadBytes, total}))})
TailFrom(total) == Max({HeadEnd(total), Min({total, CeilBoundary(Max({0, total - TailBytes}))})})

OutputKept ==
    \A p \in Positions : runs[p].state # "none" =>
        LET run == runs[p]
            omitted == TailFrom(run.total) - HeadEnd(run.total)
        IN  /\ Assembled(run) = [head |-> 0 .. (HeadEnd(run.total) - 1), omitted |-> omitted,
                                 tail |-> TailFrom(run.total) .. (run.total - 1)]
            /\ \A c, d \in run.chunks : c # d => c.to <= d.from \/ d.to <= c.from

(* NothingUncounted: on the agent every byte a script printed was sent, is *)
(* held back for the end, or is counted as omitted.                        *)
NothingUncounted ==
    /\ out.made = out.sent + Held(out) + out.omitted
    /\ Held(out) <= KeptBytes

(* OpenRunsRun: a run is only shown as running while its host's row is     *)
(* active, as the trigger that closes runs intends.  It does not hold:     *)
(* upload_script_output checks the row and starts the run in two steps.    *)
OpenRunsRun == \A p \in Positions : runs[p].state = "open" => row \in {"pending", "running"}
=============================================================================

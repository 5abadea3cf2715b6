----------------------------- MODULE ImageStore -----------------------------
(***************************************************************************)
(* One image: its row in the database, its partition rows, its directory   *)
(* on the server's disk, and everything that touches them.  The image      *)
(* comes into being by a capture, whose agent clears, uploads and reports  *)
(* through HTTP calls, or by the import of an archive.  At the same time   *)
(* the UI may cancel or retry the capture, deploy the image or delete it.  *)
(*                                                                         *)
(* The row and the directory cannot be changed together, so each handler   *)
(* is a sequence of steps, any two handlers interleave, and the server may *)
(* stop between any two steps.                                             *)
(***************************************************************************)
EXTENDS Integers

CONSTANTS
    Parts,       \* the partitions of the captured disk, or of the archive
    Table,       \* the file name of the partition table
    Calls,       \* slots for the agent's HTTP calls being handled (a bound)
    None,        \* no call
    MaxRuns,     \* bound on the times an agent begins the capture
    MaxOps,      \* bound on the requests of the UI
    MaxFaults    \* bound on crashes, restarts and lost answers

VARIABLES
    status,      \* images.status
    deleted,     \* images.deleted_at is set
    parts,       \* the image_partitions rows
    dir,         \* img-<id>: which run wrote each file, NoFile if it is not there
    exists,      \* img-<id> is there
    synced,      \* files of img-<id> that are fsynced, their names included
    stage,       \* .import-<id>
    importer,    \* ArchiveService::import
    row,         \* the row of the capture task
    deploy,      \* a deploy of the image
    del,         \* delete_image
    ui,          \* the other UI handlers between their check and their write
    run,         \* the agent's capture: which run, how far, what is left
    await,       \* the call whose answer the agent waits for
    calls,       \* the calls and how far their handlers are
    runs, ops, faults

imageVars == <<status, deleted, parts>>
dirVars == <<dir, exists, synced>>
importVars == <<stage, importer>>
taskVars == <<row, deploy>>
uiVars == <<del, ui>>
agentVars == <<run, await>>
budget == <<runs, ops, faults>>
vars == <<imageVars, dirVars, importVars, taskVars, uiVars, agentVars, calls,
          budget>>

Names == Parts \cup {Table}
NoFile == 0
Empty == [n \in Names |-> NoFile]

Statuses == {"none", "empty", "capturing", "importing", "ready", "faulted"}
RowStates == {"absent", "pending", "running", "done", "failed", "cancelled"}
Active == {"pending", "running"}
Reopenable == {"failed", "cancelled"}

Phases == {"idle", "prepare", "store", "finish", "fail"}
NoRun == [no |-> 0, phase |-> "idle", left |-> {}]
NoCall == [kind |-> "none", n |-> Table, run |-> 0, st |-> "free"]
CallKinds == {"started", "store", "finished", "failed"}
CallStates == {"sent", "clear", "clear again", "reset", "reset again", "write",
               "open", "writing", "torn", "renamed", "insert",
               "look", "fault", "faulted", "ready", "readied",
               "ok", "rejected", "gone"}
ImportStates == {"idle", "begun", "unpack", "sync", "rename", "renamed",
                 "discard", "clear", "clear stage"}
DeleteStates == {"idle", "looked", "cancelled", "delete", "clear", "clear stage"}
UiOps == {"cancel", "cancelled", "retry", "deploy", "create"}

TypeOK ==
    /\ status \in Statuses /\ deleted \in BOOLEAN /\ parts \subseteq Parts
    /\ dir \in [Names -> 0..MaxRuns + 1]
    /\ exists \in BOOLEAN /\ synced \subseteq Names
    /\ stage \in [exists : BOOLEAN, names : SUBSET Names]
    /\ importer \in ImportStates
    /\ row \in RowStates /\ deploy \in {"absent", "active", "over"}
    /\ del \in DeleteStates /\ ui \subseteq UiOps
    /\ run \in [no : 0..MaxRuns, phase : Phases, left : SUBSET Names]
    /\ await \in Calls \cup {None}
    /\ calls \in [Calls -> [kind : CallKinds, n : Names, run : 0..MaxRuns,
                            st : CallStates] \cup {NoCall}]
    /\ runs \in 0..MaxRuns /\ ops \in 0..MaxOps /\ faults \in 0..MaxFaults

NoStage == [exists |-> FALSE, names |-> {}]

Init ==
    /\ status = "none" /\ deleted = FALSE /\ parts = {}
    /\ dir = Empty /\ exists = FALSE /\ synced = {}
    /\ stage = NoStage /\ importer = "idle"
    /\ row = "absent" /\ deploy = "absent"
    /\ del = "idle" /\ ui = {}
    /\ run = NoRun /\ await = None
    /\ calls = [i \in Calls |-> NoCall]
    /\ runs = 0 /\ ops = 0 /\ faults = 0

Fault == faults < MaxFaults /\ faults' = faults + 1 /\ UNCHANGED <<runs, ops>>
UiRequest == ops < MaxOps /\ ops' = ops + 1 /\ UNCHANGED <<runs, faults>>

\* WHERE task_id = ? AND (state = pending OR state = running)
IfActive(s) == IF row \in Active THEN s ELSE row

\* remove_dir on img-<id>: the temporary files of uploads go with it
RemoveDir ==
    /\ dir' = Empty /\ exists' = FALSE /\ synced' = {}

Tear(cs) == [i \in Calls |-> IF cs[i].st = "writing"
                             THEN [cs[i] EXCEPT !.st = "torn"] ELSE cs[i]]

-----------------------------------------------------------------------------
(* Images come into being by create_image or start_import.                 *)

\* create_image inserts the image, then the task of its capture
CreateImage ==
    /\ status = "none"
    /\ status' = "empty"
    /\ ui' = ui \cup {"create"}
    /\ UNCHANGED <<deleted, parts, dirVars, importVars, taskVars, del,
                   agentVars, calls, budget>>

CreateCapture ==
    /\ "create" \in ui
    /\ ui' = ui \ {"create"}
    /\ row' = "pending"
    /\ UNCHANGED <<imageVars, dirVars, importVars, deploy, del, agentVars,
                   calls, budget>>

\* the manifest of an archive is valid
StartImport ==
    /\ status = "none"
    /\ status' = "importing"
    /\ importer' = "begun"
    /\ UNCHANGED <<deleted, parts, dirVars, stage, taskVars, uiVars, agentVars,
                   calls, budget>>

-----------------------------------------------------------------------------
(* ArchiveService::receive and discard.                                    *)

ImportUnchanged == UNCHANGED <<taskVars, uiVars, agentVars, calls, budget>>

CreateStage ==
    /\ importer = "begun"
    /\ stage' = [exists |-> TRUE, names |-> {}]
    /\ importer' = "unpack"
    /\ UNCHANGED <<imageVars, dirVars>> /\ ImportUnchanged

\* a file is received and its checksum matches; without the directory it
\* cannot be created
Unpack(n) ==
    /\ importer = "unpack"
    /\ stage.exists /\ n \notin stage.names
    /\ stage' = [stage EXCEPT !.names = @ \cup {n}]
    /\ UNCHANGED <<importer, imageVars, dirVars>> /\ ImportUnchanged

\* mutant: an archive that ends early is taken for a whole one
UnpackedEarly ==
    /\ importer = "unpack"
    /\ importer' = "sync"
    /\ UNCHANGED <<stage, imageVars, dirVars>> /\ ImportUnchanged

Unpacked ==
    /\ importer = "unpack"
    /\ stage.names = Names
    /\ importer' = "sync"
    /\ UNCHANGED <<stage, imageVars, dirVars>> /\ ImportUnchanged

\* a wrong checksum, an upload that broke off, a directory that is gone: from
\* any state of receive on the import can only be discarded
ImportFails ==
    /\ importer \in {"begun", "unpack", "sync", "rename", "renamed"}
    /\ importer' = "discard"
    /\ UNCHANGED <<stage, imageVars, dirVars>> /\ ImportUnchanged

\* commit_import: fsync the files and their names, then rename the directory
SyncStage ==
    /\ importer = "sync"
    /\ stage.exists
    /\ importer' = "rename"
    /\ UNCHANGED <<stage, imageVars, dirVars>> /\ ImportUnchanged

RenameStage ==
    /\ importer = "rename"
    /\ stage.exists
    /\ dir' = [n \in Names |-> IF n \in stage.names THEN MaxRuns + 1 ELSE NoFile]
    /\ exists' = TRUE /\ synced' = stage.names
    /\ stage' = NoStage
    /\ importer' = "renamed"
    /\ UNCHANGED imageVars /\ ImportUnchanged

\* mutant: finish_import without deleted_at IS NULL
FinishImportAnyway ==
    /\ importer = "renamed"
    /\ importer' = "idle" /\ status' = "ready" /\ parts' = Parts
    /\ UNCHANGED <<stage, deleted, dirVars>> /\ ImportUnchanged

\* one transaction, which refuses a deleted image
FinishImport ==
    /\ importer = "renamed"
    /\ IF deleted
       THEN importer' = "discard" /\ UNCHANGED <<status, parts>>
       ELSE importer' = "idle" /\ status' = "ready" /\ parts' = Parts
    /\ UNCHANGED <<stage, deleted, dirVars>> /\ ImportUnchanged

DiscardFaults ==
    /\ importer = "discard"
    /\ status' = "faulted"
    /\ importer' = "clear"
    /\ UNCHANGED <<stage, deleted, parts, dirVars>> /\ ImportUnchanged

DiscardClears ==
    /\ importer = "clear"
    /\ RemoveDir
    /\ calls' = Tear(calls)
    /\ importer' = "clear stage"
    /\ UNCHANGED <<stage, imageVars, taskVars, uiVars, agentVars, budget>>

DiscardClearsStage ==
    /\ importer = "clear stage"
    /\ stage' = NoStage
    /\ importer' = "idle"
    /\ UNCHANGED <<imageVars, dirVars>> /\ ImportUnchanged

ImportNext == \/ StartImport \/ CreateStage \/ (\E n \in Names : Unpack(n))
              \/ Unpacked \/ ImportFails \/ SyncStage \/ RenameStage
              \/ FinishImport \/ DiscardFaults \/ DiscardClears
              \/ DiscardClearsStage

-----------------------------------------------------------------------------
(* The UI: cancel_task, retry_task, deploy (and multicast) and             *)
(* delete_image.                                                           *)

UiUnchanged == UNCHANGED <<parts, importVars, agentVars>>

Admits(op) ==
    CASE op = "cancel" -> row \in Active
      [] op = "retry" -> row \in Reopenable /\ ~deleted
      [] op = "deploy" -> status = "ready" /\ ~deleted /\ deploy = "absent"

UiCheck(op) ==
    /\ UiRequest
    /\ op \notin ui /\ Admits(op)
    /\ ui' = ui \cup {op}
    /\ UNCHANGED <<status, deleted, dirVars, taskVars, del, calls>> /\ UiUnchanged

\* cancel_active: the row, then the image, whatever the row was by then
UiCancels ==
    /\ "cancel" \in ui
    /\ ui' = (ui \ {"cancel"}) \cup {"cancelled"}
    /\ row' = IfActive("cancelled")
    /\ UNCHANGED <<status, deleted, dirVars, deploy, del, calls, budget>>
    /\ UiUnchanged

CancelFaults ==
    /\ "cancelled" \in ui
    /\ ui' = ui \ {"cancelled"}
    /\ status' = "faulted"
    /\ UNCHANGED <<deleted, dirVars, taskVars, del, calls, budget>> /\ UiUnchanged

UiRetries ==
    /\ "retry" \in ui
    /\ ui' = ui \ {"retry"}
    /\ row' = IF row \in Reopenable THEN "pending" ELSE row
    /\ UNCHANGED <<status, deleted, dirVars, deploy, del, calls, budget>>
    /\ UiUnchanged

UiDeploys ==
    /\ "deploy" \in ui
    /\ ui' = ui \ {"deploy"}
    /\ deploy' = "active"
    /\ UNCHANGED <<status, deleted, dirVars, row, del, calls, budget>>
    /\ UiUnchanged

\* the deploy is finished, fails or is cancelled
DeployEnds ==
    /\ deploy = "active"
    /\ deploy' = "over"
    /\ UNCHANGED <<status, deleted, dirVars, row, uiVars, calls, budget>>
    /\ UiUnchanged

\* delete_image: get_active_by_image, cancel_active of a capture, the soft
\* delete, clear_image_data
DeleteLooks ==
    /\ UiRequest
    /\ status # "none" /\ ~deleted
    /\ del = "idle" /\ deploy # "active"
    /\ del' = IF row \in Active THEN "looked" ELSE "delete"
    /\ UNCHANGED <<status, deleted, dirVars, taskVars, ui, calls>> /\ UiUnchanged

DeleteCancels ==
    /\ del = "looked"
    /\ del' = "cancelled"
    /\ row' = IfActive("cancelled")
    /\ UNCHANGED <<status, deleted, dirVars, deploy, ui, calls, budget>>
    /\ UiUnchanged

DeleteFaults ==
    /\ del = "cancelled"
    /\ del' = "delete"
    /\ status' = "faulted"
    /\ UNCHANGED <<deleted, dirVars, taskVars, ui, calls, budget>> /\ UiUnchanged

Deletes ==
    /\ del = "delete"
    /\ del' = "clear"
    /\ deleted' = TRUE
    /\ UNCHANGED <<status, dirVars, taskVars, ui, calls, budget>> /\ UiUnchanged

DeleteClears ==
    /\ del = "clear"
    /\ del' = "clear stage"
    /\ RemoveDir
    /\ calls' = Tear(calls)
    /\ UNCHANGED <<status, deleted, taskVars, ui, budget>> /\ UiUnchanged

DeleteClearsStage ==
    /\ del = "clear stage"
    /\ del' = "idle"
    /\ stage' = NoStage
    /\ UNCHANGED <<imageVars, dirVars, importer, taskVars, ui, agentVars, calls,
                   budget>>

UiNext == \/ CreateImage \/ CreateCapture
          \/ (\E op \in {"cancel", "retry", "deploy"} : UiCheck(op))
          \/ UiCancels \/ CancelFaults \/ UiRetries \/ UiDeploys \/ DeployEnds
          \/ DeleteLooks \/ DeleteCancels \/ DeleteFaults \/ Deletes
          \/ DeleteClears \/ DeleteClearsStage

-----------------------------------------------------------------------------
(* The agent: Capture::run and its report.                                 *)

AgentUnchanged ==
    UNCHANGED <<imageVars, dirVars, importVars, taskVars, uiVars>>

(* Timing: a handler nobody waits for any more is over by the time the     *)
(* agent has read the partition table or a partition to upload, and before *)
(* it begins again if its last call was a report, which it repeats until   *)
(* it is answered unless its machine boots.                                *)
ReportsOver == \A i \in Calls : calls[i].kind \notin {"finished", "failed"}
OrphansOver == \A i \in Calls : calls[i] = NoCall

\* the agent was told that the capture is its current task, perhaps long ago
Begin ==
    /\ run.phase = "idle" /\ ReportsOver
    /\ runs < MaxRuns
    /\ row # "absent"
    /\ runs' = runs + 1
    /\ run' = [no |-> runs + 1, phase |-> "prepare", left |-> Names]
    /\ UNCHANGED <<await, calls, ops, faults>> /\ AgentUnchanged

CallOf(phase) == CASE phase = "prepare" -> "started"
                   [] phase = "store" -> "store"
                   [] phase = "finish" -> "finished"
                   [] phase = "fail" -> "failed"

\* the partition table goes first
IsNextFile(n) == n \in run.left /\ (Table \in run.left => n = Table)

Issue(i) ==
    /\ run.phase # "idle"
    /\ await = None
    /\ calls[i] = NoCall /\ (run.phase = "store" => OrphansOver)
    /\ await' = i
    /\ \E n \in Names :
          /\ IF run.phase = "store" THEN IsNextFile(n) ELSE n = Table
          /\ calls' = [calls EXCEPT ![i] = [kind |-> CallOf(run.phase), n |-> n,
                                            run |-> run.no, st |-> "sent"]]
    /\ UNCHANGED <<run, budget>> /\ AgentUnchanged

Stored(n) == IF run.left = {n} THEN [run EXCEPT !.left = {}, !.phase = "finish"]
                               ELSE [run EXCEPT !.left = @ \ {n}]

Answered(c) ==
    CASE run.phase = "prepare" /\ c.st = "ok" -> [run EXCEPT !.phase = "store"]
      [] run.phase = "store" /\ c.st = "ok" -> Stored(c.n)
      [] run.phase \in {"prepare", "store"} /\ c.st = "rejected" ->
            [run EXCEPT !.phase = "fail"]
      [] run.phase \in {"finish", "fail"} -> NoRun

Reply(i) ==
    /\ await = i
    /\ calls[i].st \in {"ok", "rejected"}
    /\ await' = None
    /\ run' = Answered(calls[i])
    /\ calls' = [calls EXCEPT ![i] = NoCall]
    /\ UNCHANGED budget /\ AgentUnchanged

\* a call that is not answered fails the capture; a report is repeated
Unanswered ==
    /\ await' = None
    /\ run' = IF run.phase \in {"prepare", "store"}
              THEN [run EXCEPT !.phase = "fail"] ELSE run
    /\ AgentUnchanged

AnswerLost == await # None /\ Unanswered /\ UNCHANGED calls /\ Fault

ServerGone(i) ==
    /\ await = i /\ calls[i].st = "gone"
    /\ calls' = [calls EXCEPT ![i] = NoCall]
    /\ Unanswered /\ UNCHANGED budget

\* the agent is told that the capture is no longer its task
Stopped ==
    /\ run.phase \in {"prepare", "store"}
    /\ row \notin Active
    /\ run' = NoRun /\ await' = None
    /\ UNCHANGED <<calls, budget>> /\ AgentUnchanged

Crash ==
    /\ run.phase # "idle"
    /\ run' = NoRun /\ await' = None
    /\ UNCHANGED calls /\ AgentUnchanged /\ Fault

AgentNext == \/ Begin \/ Stopped
             \/ \E i \in Calls : Issue(i) \/ Reply(i) \/ ServerGone(i)

-----------------------------------------------------------------------------
(* The agent API: started, partition_table and upload_partition_data,      *)
(* mark_finished and mark_failed, as far as a capture is concerned.        *)

At(i, kind, st) == calls[i].kind = kind /\ calls[i].st = st
To(i, st) == calls' = [calls EXCEPT ![i].st = st]
HandlerUnchanged == UNCHANGED <<deleted, importVars, deploy, uiVars, agentVars, budget>>

\* started: clear_image_data, start_capture, and start unless the row runs
StartedLooks(i) ==
    /\ At(i, "started", "sent")
    /\ To(i, CASE row = "pending" -> "clear"
               [] row = "running" -> "clear again"
               [] OTHER -> "rejected")
    /\ UNCHANGED <<status, parts, dirVars, row>> /\ HandlerUnchanged

StartedClears(i) ==
    /\ At(i, "started", "clear") \/ At(i, "started", "clear again")
    /\ RemoveDir
    /\ calls' = [Tear(calls) EXCEPT
                    ![i].st = IF @ = "clear" THEN "reset" ELSE "reset again"]
    /\ UNCHANGED <<status, parts, row>> /\ HandlerUnchanged

StartCapture(i) ==
    /\ At(i, "started", "reset") \/ At(i, "started", "reset again")
    /\ parts' = {} /\ status' = "capturing"
    /\ To(i, IF calls[i].st = "reset" THEN "write" ELSE "ok")
    /\ UNCHANGED <<dirVars, row>> /\ HandlerUnchanged

StartedWrites(i) ==
    /\ At(i, "started", "write")
    /\ row' = IfActive("running")
    /\ To(i, "ok")
    /\ UNCHANGED <<status, parts, dirVars>> /\ HandlerUnchanged

\* running_capture, for the partition table as for a partition
StoreLooks(i) ==
    /\ At(i, "store", "sent")
    /\ To(i, IF row = "running" THEN "open" ELSE "rejected")
    /\ UNCHANGED <<status, parts, dirVars, row>> /\ HandlerUnchanged

\* ImageService::store: the directory and a temporary file in it ...
StoreOpens(i) ==
    /\ At(i, "store", "open")
    /\ exists' = TRUE
    /\ To(i, "writing")
    /\ UNCHANGED <<status, parts, dir, synced, row>> /\ HandlerUnchanged

\* ... which is written, fsynced and renamed, if it is still there ...
StoreRenames(i) ==
    /\ \/ /\ At(i, "store", "writing")
          /\ dir' = [dir EXCEPT ![calls[i].n] = calls[i].run]
          /\ synced' = synced \ {calls[i].n}
          /\ To(i, "renamed")
       \/ /\ At(i, "store", "torn")
          /\ To(i, "rejected")
          /\ UNCHANGED <<dir, synced>>
    /\ UNCHANGED <<status, parts, exists, row>> /\ HandlerUnchanged

\* ... and fsyncs the directory's names
StoreSyncs(i) ==
    /\ At(i, "store", "renamed")
    /\ synced' = {n \in Names : dir[n] # NoFile}
    /\ To(i, IF ~exists THEN "rejected"
             ELSE IF calls[i].n = Table THEN "ok" ELSE "insert")
    /\ UNCHANGED <<status, parts, dir, exists, row>> /\ HandlerUnchanged

\* UNIQUE (image_id, partition_number)
SavePartition(i) ==
    /\ At(i, "store", "insert")
    /\ parts' = parts \cup {calls[i].n}
    /\ To(i, IF calls[i].n \in parts THEN "rejected" ELSE "ok")
    /\ UNCHANGED <<status, dirVars, row>> /\ HandlerUnchanged

Outcome(kind) == IF kind = "finished" THEN "done" ELSE "failed"

\* task_to_settle
ReportLooks(i) ==
    /\ calls[i].kind \in {"finished", "failed"} /\ calls[i].st = "sent"
    /\ To(i, CASE row \in Active ->
                     IF calls[i].kind = "finished" THEN "look" ELSE "fault"
               [] row = Outcome(calls[i].kind) -> "ok"
               [] OTHER -> "rejected")
    /\ UNCHANGED <<status, parts, dirVars, row>> /\ HandlerUnchanged

\* a capture without partitions or without a partition table is incomplete
FinishedLooks(i) ==
    /\ At(i, "finished", "look")
    /\ To(i, IF parts = {} \/ dir[Table] = NoFile THEN "fault" ELSE "ready")
    /\ UNCHANGED <<status, parts, dirVars, row>> /\ HandlerUnchanged

ReportFaults(i) ==
    /\ At(i, "finished", "fault") \/ At(i, "failed", "fault")
    /\ status' = "faulted"
    /\ To(i, "faulted")
    /\ UNCHANGED <<parts, dirVars, row>> /\ HandlerUnchanged

ReportFails(i) ==
    /\ At(i, "finished", "faulted") \/ At(i, "failed", "faulted")
    /\ row' = IfActive("failed")
    /\ To(i, IF calls[i].kind = "finished" THEN "rejected" ELSE "ok")
    /\ UNCHANGED <<status, parts, dirVars>> /\ HandlerUnchanged

MarkReady(i) ==
    /\ At(i, "finished", "ready")
    /\ status' = "ready"
    /\ To(i, "readied")
    /\ UNCHANGED <<parts, dirVars, row>> /\ HandlerUnchanged

MarkDone(i) ==
    /\ At(i, "finished", "readied")
    /\ row' = IfActive("done")
    /\ To(i, "ok")
    /\ UNCHANGED <<status, parts, dirVars>> /\ HandlerUnchanged

\* a handler nobody waits for has answered, or is dropped where it is
Abandoned(i) ==
    /\ await # i
    /\ calls[i] # NoCall
    /\ calls' = [calls EXCEPT ![i] = NoCall]
    /\ UNCHANGED <<status, parts, dirVars, row>> /\ HandlerUnchanged

HandlerNext(i) ==
    \/ StartedLooks(i) \/ StartedClears(i) \/ StartCapture(i) \/ StartedWrites(i)
    \/ StoreLooks(i) \/ StoreOpens(i) \/ StoreRenames(i) \/ StoreSyncs(i)
    \/ SavePartition(i)
    \/ ReportLooks(i) \/ FinishedLooks(i) \/ ReportFaults(i) \/ ReportFails(i)
    \/ MarkReady(i) \/ MarkDone(i) \/ Abandoned(i)

-----------------------------------------------------------------------------
\* the server stops, however that happens, and ArchiveService::start runs
Restart ==
    /\ Fault
    /\ status' = IF status = "importing" THEN "faulted" ELSE status
    /\ stage' = NoStage
    /\ importer' = "idle" /\ del' = "idle" /\ ui' = {}
    /\ calls' = [i \in Calls |->
                    IF i # await THEN NoCall
                    ELSE IF calls[i].st \in {"ok", "rejected"} THEN calls[i]
                    ELSE [calls[i] EXCEPT !.st = "gone"]]
    /\ UNCHANGED <<deleted, parts, dirVars, taskVars, agentVars>>

Next == \/ UiNext \/ ImportNext \/ AgentNext
        \/ \E i \in Calls : HandlerNext(i)
        \/ AnswerLost \/ Crash \/ Restart

Spec == Init /\ [][Next]_vars

-----------------------------------------------------------------------------
(* Properties.                                                             *)

(***************************************************************************)
(* A ready image whose capture or import is over can be deployed as it is: *)
(* every partition has its row and its file, the partition table is there, *)
(* all of them come from one and the same run, however often the capture   *)
(* was begun and cancelled before, and "captured and imported files are    *)
(* fsynced before an image turns ready" (README.md).                       *)
(***************************************************************************)
ReadyIsWhole ==
    status = "ready" /\ ~deleted /\ row \in {"absent", "done"} =>
        /\ parts = Parts
        /\ synced = Names
        /\ \E r \in 1..MaxRuns + 1 : \A n \in Names : dir[n] = r

(***************************************************************************)
(* "one cut short by a crash is marked faulted the next time the server    *)
(* opens its data dir" (README.md): nothing is left importing for ever.    *)
(***************************************************************************)
ImportingIsUnderWay == status = "importing" => importer # "idle"

(***************************************************************************)
(* An import that was rejected, or whose image was deleted meanwhile,      *)
(* leaves no files behind, however delete_image and the import interleave. *)
(***************************************************************************)
NoLeftovers ==
    /\ row = "absent" /\ faults = 0
    /\ importer = "idle" /\ del = "idle"
    /\ deleted \/ status = "faulted"
    => ~exists /\ ~stage.exists

(***************************************************************************)
(* "refused (412) while a pending or running deploy or multicast uses the  *)
(* image" (README.md): no deploy is left with a deleted image.  It does    *)
(* not hold: delete_image and deploy both look before either writes.       *)
(***************************************************************************)
DeployKeepsImage == deploy = "active" => ~deleted

(***************************************************************************)
(* "cannot cancel task, task is not pending or running" (tasks.rs): a      *)
(* capture recorded as done keeps the image it made.                       *)
(***************************************************************************)
DoneKeepsImage == row = "done" => status = "ready"
=============================================================================

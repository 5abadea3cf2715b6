--------------------------- MODULE MachineProofs ---------------------------
(***************************************************************************)
(* What the image store, the multicast addresses, the tasks on a machine's *)
(* disks and the image archive guarantee for any number of partitions,     *)
(* calls, runs, requests and faults, and for any devices, images and       *)
(* manifests.                                                              *)
(***************************************************************************)
EXTENDS MCMachine, SequenceTheorems, FiniteSetTheorems, WellFoundedInduction, TLAPS

-----------------------------------------------------------------------------
(***************************************************************************)
(* The image store.                                                        *)
(***************************************************************************)
Names == Store!Names
NoCall == Store!NoCall

\* The rows and the files are complete, fsynced and of one run.
Whole(r) == partitions = StoreParts /\ synced = Names /\ \A n \in Names : dir[n] = r
SomeWhole == deleted \/ \E r \in 1 .. StoreRuns : Whole(r)

\* An image without a capture has no calls of an agent; one with a capture
\* is not being imported.
Uncaptured ==
    /\ capture = "absent" => /\ \A i \in Calls : calls[i] = NoCall
                             /\ run = Store!NoRun /\ ui \subseteq {"create", "deploy"}
                             /\ del \notin {"looked", "cancelled"}
    /\ "create" \in ui => capture = "absent" /\ status = "empty"
    /\ importer # "idle" => capture = "absent" /\ status \in {"importing", "faulted"}
    /\ status = "none" => capture = "absent" /\ importer = "idle"

\* How far an import is, and what of it is on the disk.
Imported ==
    /\ importer \in {"idle", "renamed"} => ~stage.exists
    /\ importer \in {"clear", "clear stage"} => status = "faulted"
    /\ status = "importing" => importer # "idle"
    /\ del \in {"clear", "clear stage"} => deleted
    /\ importer \in {"sync", "rename"} /\ ~deleted => stage.names = Names
    /\ importer = "renamed" /\ ~deleted =>
          synced = Names /\ \A n \in Names : dir[n] = StoreRuns + 1
    /\ capture = "absent" /\ status = "ready" /\ ~deleted => Whole(StoreRuns + 1)

\* Without a restart, an import's directory is there only while somebody is
\* still to remove it or the image is ready.
Leftover ==
    capture = "absent" /\ faults = 0 =>
        /\ exists /\ importer = "idle" => status = "ready" /\ (deleted => del = "clear")
        /\ importer = "clear stage" => ~exists

\* The upload that is being handled, and what it has done so far.
Upload(c) ==
    /\ c.kind = "store" /\ c.run = run.no /\ c.n \in run.left
    /\ ~deleted => /\ c.st \in {"renamed", "insert", "ok"} => dir[c.n] = run.no
                   /\ c.st \in {"insert", "ok"} => c.n \in synced
                   /\ c.st = "ok" /\ c.n # Table => c.n \in partitions

\* The capture's run: what it need not upload any more is there, and from
\* its first upload on no handler of an earlier run is left.
Uploads ==
    /\ \A i \in Calls : calls[i].st = "insert" => calls[i].n # Table
    /\ await # Nobody => run.phase # "idle" /\ calls[await] # NoCall
    /\ run.phase = "prepare" => run.left = Names
    /\ run.phase # "idle" => run.no \in 1 .. StoreRuns
    /\ run.phase = "store" /\ (run.left # Names \/ await # Nobody) =>
          \A j \in Calls : j # await => calls[j] = NoCall
    /\ run.phase = "store" /\ await # Nobody => Upload(calls[await])
    /\ run.phase = "store" /\ ~deleted =>
          \A n \in Names \ run.left :
              dir[n] = run.no /\ n \in synced /\ (n # Table => n \in partitions)

\* While a capture is reported finished nothing else is handled.
Reports ==
    /\ run.phase = "finish" => deleted \/ Whole(run.no)
    /\ \A i \in Calls : calls[i].kind = "finished" => run.phase \in {"finish", "idle"} /\ SomeWhole
    /\ run.phase = "finish" \/ (\E i \in Calls : calls[i].kind = "finished") =>
          \A j \in Calls : calls[j].kind \in {"finished", "none"}

\* What was captured is whole, and no handler that would change it is left.
Captured ==
    capture = "done" =>
        /\ SomeWhole
        /\ \A i \in Calls : calls[i].kind \in {"started", "store"} =>
                                calls[i].st \in {"sent", "ok", "rejected", "gone"}

StoreInv == Store!TypeOK /\ Uncaptured /\ Imported /\ Leftover /\ Uploads /\ Reports /\ Captured

CallRecords == [kind : Store!CallKinds, n : Names, run : 0 .. StoreRuns, st : Store!CallStates]

\* What the other variables are typed as, one fact for each.
LEMMA Types ==
    ASSUME Store!TypeOK
    PROVE  /\ status \in Store!Statuses /\ deleted \in BOOLEAN /\ partitions \subseteq StoreParts
           /\ dir \in [Names -> 0 .. StoreRuns + 1] /\ exists \in BOOLEAN /\ synced \subseteq Names
           /\ stage \in [exists : BOOLEAN, names : SUBSET Names] /\ importer \in Store!ImportStates
           /\ capture \in Store!RowStates /\ deploy \in {"absent", "active", "over"}
           /\ del \in Store!DeleteStates /\ ui \subseteq Store!UiOps
           /\ run \in [no : 0 .. StoreRuns, phase : Store!Phases, left : SUBSET Names]
           /\ await \in Calls \cup {Nobody} /\ calls \in [Calls -> CallRecords \cup {NoCall}]
           /\ begun \in 0 .. StoreRuns /\ asked \in 0 .. StoreOps /\ faults \in 0 .. StoreFaults
  BY DEF Store!TypeOK, Names, CallRecords, NoCall

LEMMA CallOrNone ==
    ASSUME Store!TypeOK, NEW i \in Calls
    PROVE  /\ calls[i] \in CallRecords \/ calls[i] = NoCall
           /\ calls[i].kind = "none" <=> calls[i] = NoCall
           /\ calls[i] = NoCall => calls[i].st = "free"
  <1>1. calls[i] \in CallRecords \/ calls[i] = NoCall
    BY Types
  <1>2. NoCall.kind = "none" /\ NoCall.st = "free"
    BY DEF NoCall, Store!NoCall
  <1>3. calls[i] \in CallRecords => calls[i].kind # "none"
    BY DEF CallRecords, Store!CallKinds
  <1> QED
    BY <1>1, <1>2, <1>3

\* A handler goes on to its next step.
LEMMA CallStep ==
    ASSUME Store!TypeOK, NEW i \in Calls, NEW to \in Store!CallStates, calls[i] # NoCall, Store!To(i, to)
    PROVE  /\ calls' \in [Calls -> CallRecords \cup {NoCall}]
           /\ calls'[i] \in CallRecords /\ calls'[i].st = to /\ calls'[i].kind = calls[i].kind
           /\ calls'[i].n = calls[i].n /\ calls'[i].run = calls[i].run
           /\ \A j \in Calls \ {i} : calls'[j] = calls[j]
           /\ \A j \in Calls : calls'[j].kind = calls[j].kind
  <1>1. calls \in [Calls -> CallRecords \cup {NoCall}] /\ calls[i] \in CallRecords
    BY Types
  <1>2. calls' = [calls EXCEPT ![i].st = to]
    BY DEF Store!To
  <1>3. /\ calls'[i] = [calls[i] EXCEPT !.st = to] /\ \A j \in Calls \ {i} : calls'[j] = calls[j]
        /\ DOMAIN calls' = Calls /\ calls' = [j \in Calls |-> calls'[j]]
    BY <1>1, <1>2
  <1>4. /\ calls'[i] \in CallRecords /\ calls'[i].st = to /\ calls'[i].kind = calls[i].kind
        /\ calls'[i].n = calls[i].n /\ calls'[i].run = calls[i].run
    BY <1>1, <1>3 DEF CallRecords
  <1>5. \A j \in Calls : calls'[j] \in CallRecords \cup {NoCall}
    BY <1>1, <1>3, <1>4
  <1>6. calls' \in [Calls -> CallRecords \cup {NoCall}]
    BY <1>3, <1>5
  <1> QED
    BY <1>3, <1>4, <1>6

\* Removing the directory fails the uploads into it.
LEMMA TearStep ==
    ASSUME Store!TypeOK
    PROVE  /\ Store!Tear(calls) \in [Calls -> CallRecords \cup {NoCall}]
           /\ \A j \in Calls : LET t == Store!Tear(calls)[j] IN
                /\ t.kind = calls[j].kind /\ t.n = calls[j].n /\ t.run = calls[j].run
                /\ t = NoCall <=> calls[j] = NoCall
                /\ t = calls[j] \/ (calls[j].st = "writing" /\ t.st = "torn")
  <1> DEFINE t == Store!Tear(calls)
  <1>1. \A j \in Calls : t[j] = IF calls[j].st = "writing" THEN [calls[j] EXCEPT !.st = "torn"] ELSE calls[j]
    BY DEF Store!Tear
  <1>2. t = [j \in Calls |-> t[j]]
    BY DEF Store!Tear
  <1> HIDE DEF t
  <1>3. ASSUME NEW j \in Calls
        PROVE  /\ t[j] \in CallRecords \cup {NoCall}
               /\ t[j].kind = calls[j].kind /\ t[j].n = calls[j].n /\ t[j].run = calls[j].run
               /\ t[j] = NoCall <=> calls[j] = NoCall
               /\ t[j] = calls[j] \/ (calls[j].st = "writing" /\ t[j].st = "torn")
    <2>1. CASE calls[j].st = "writing"
      <3>1. calls[j] \in CallRecords
        BY <2>1, CallOrNone
      <3>2. t[j] = [calls[j] EXCEPT !.st = "torn"]
        BY <1>1, <2>1
      <3>3. t[j] \in CallRecords /\ t[j].st = "torn" /\ t[j].kind = calls[j].kind
            /\ t[j].n = calls[j].n /\ t[j].run = calls[j].run
        BY <3>1, <3>2 DEF CallRecords, Store!CallStates
      <3>4. t[j] # NoCall /\ calls[j] # NoCall
        BY <3>1, <3>3, <2>1 DEF NoCall, Store!NoCall
      <3> QED
        BY <2>1, <3>3, <3>4
    <2>2. CASE calls[j].st # "writing"
      BY <1>1, <2>2, Types
    <2> QED
      BY <2>1, <2>2
  <1>4. t \in [Calls -> CallRecords \cup {NoCall}]
    BY <1>2, <1>3
  <1> QED
    BY <1>3, <1>4 DEF t

\* An image without calls has nothing to say about runs.
LEMMA QuietKeeps ==
    ASSUME capture' = "absent", run' = Store!NoRun, await' = Nobody,
           \A i \in Calls : calls'[i] = NoCall
    PROVE  Uploads' /\ Reports' /\ Captured'
  <1>1. run'.phase = "idle"
    BY DEF Store!NoRun
  <1>2. \A i \in Calls : calls'[i].kind = "none" /\ calls'[i].st = "free"
    BY DEF NoCall, Store!NoCall
  <1> QED
    BY <1>1, <1>2 DEF Uploads, Reports, Captured

\* Without a capture nobody awaits an answer.
LEMMA UncapturedIsQuiet ==
    ASSUME StoreInv, capture = "absent"
    PROVE  await = Nobody /\ run.phase = "idle" /\ \A i \in Calls : calls[i] = NoCall
  BY Types DEF StoreInv, Uncaptured, Uploads, Store!NoRun

\* Steps that concern neither calls nor files, but may delete.
LEMMA FilesFrame ==
    ASSUME StoreInv, UNCHANGED <<run, await, calls, dir, synced, partitions>>,
           deleted => deleted', capture' = "done" => capture = "done"
    PROVE  Uploads' /\ Reports' /\ Captured'
  <1>1. SomeWhole => SomeWhole'
    BY DEF SomeWhole, Whole
  <1>2. \A r : Whole(r)' <=> Whole(r)
    BY DEF Whole
  <1>3. \A c : Upload(c) => Upload(c)'
    BY DEF Upload
  <1>4. Uploads'
    BY <1>3 DEF StoreInv, Uploads
  <1>5. Reports'
    BY <1>1, <1>2 DEF StoreInv, Reports
  <1>6. Captured'
    BY <1>1 DEF StoreInv, Captured
  <1> QED
    BY <1>4, <1>5, <1>6

LEMMA StoreStarts == Store!Init => StoreInv
  <1> SUFFICES ASSUME Store!Init PROVE StoreInv
    OBVIOUS
  <1>1. Store!TypeOK
    <2>1. dir \in [Names -> 0 .. StoreRuns + 1] /\ stage \in [exists : BOOLEAN, names : SUBSET Names]
      BY StoreAssumption DEF Store!Init, Store!Empty, Store!NoFile, Store!NoStage, Names
    <2>2. run \in [no : 0 .. StoreRuns, phase : Store!Phases, left : SUBSET Names]
          /\ calls \in [Calls -> CallRecords \cup {NoCall}]
      BY StoreAssumption DEF Store!Init, Store!NoRun, Store!Phases, NoCall
    <2>3. begun \in 0 .. StoreRuns /\ asked \in 0 .. StoreOps /\ faults \in 0 .. StoreFaults
      BY StoreAssumption DEF Store!Init
    <2> QED
      BY <2>1, <2>2, <2>3
         DEF Store!Init, Store!TypeOK, Store!Statuses, Store!ImportStates, Store!RowStates,
             Store!DeleteStates, Names, CallRecords, NoCall
  <1>2. Uncaptured /\ Imported /\ Leftover
    BY DEF Store!Init, Uncaptured, Imported, Leftover, NoCall, Store!NoStage
  <1>3. Uploads /\ Reports /\ Captured
    BY DEF Store!Init, Uploads, Reports, Captured, Store!NoRun, NoCall, Store!NoCall
  <1> QED
    BY <1>1, <1>2, <1>3 DEF StoreInv

\* The types are kept by a step that keeps those of what it changes.
LEMMA TypesKept ==
    ASSUME status' \in Store!Statuses /\ deleted' \in BOOLEAN /\ partitions' \subseteq StoreParts,
           dir' \in [Names -> 0 .. StoreRuns + 1] /\ exists' \in BOOLEAN /\ synced' \subseteq Names,
           stage' \in [exists : BOOLEAN, names : SUBSET Names] /\ importer' \in Store!ImportStates,
           capture' \in Store!RowStates /\ deploy' \in {"absent", "active", "over"},
           del' \in Store!DeleteStates /\ ui' \subseteq Store!UiOps,
           run' \in [no : 0 .. StoreRuns, phase : Store!Phases, left : SUBSET Names],
           await' \in Calls \cup {Nobody} /\ calls' \in [Calls -> CallRecords \cup {NoCall}],
           begun' \in 0 .. StoreRuns /\ asked' \in 0 .. StoreOps /\ faults' \in 0 .. StoreFaults
    PROVE  Store!TypeOK'
  BY DEF Store!TypeOK, Names, CallRecords, NoCall

LEMMA NamesAreNames == /\ Table \in Names /\ StoreParts \subseteq Names
                       /\ Store!Empty \in [Names -> 0 .. StoreRuns + 1]
                       /\ Store!NoStage \in [exists : BOOLEAN, names : SUBSET Names]
                       /\ ~Store!NoStage.exists
  BY StoreAssumption DEF Names, Store!Names, Store!Empty, Store!NoFile, Store!NoStage

-----------------------------------------------------------------------------
(* The import.                                                             *)

LEMMA ImportTypes ==
    ASSUME StoreInv, Store!ImportNext
    PROVE  Store!TypeOK'
  <1> USE Types DEF StoreInv
  <1>0. UNCHANGED <<capture, deploy, del, ui, run, await, begun, asked, faults, deleted>>
    BY DEF Store!ImportNext, Store!StartImport, Store!CreateStage, Store!Unpack, Store!Unpacked,
           Store!ImportFails, Store!SyncStage, Store!RenameStage, Store!FinishImport,
           Store!DiscardFaults, Store!DiscardClears, Store!DiscardClearsStage,
           Store!ImportUnchanged, Store!taskVars, Store!uiVars, Store!agentVars, Store!budget,
           Store!imageVars
  <1>1. status' \in Store!Statuses /\ importer' \in Store!ImportStates
    BY DEF Store!ImportNext, Store!StartImport, Store!CreateStage, Store!Unpack, Store!Unpacked,
           Store!ImportFails, Store!SyncStage, Store!RenameStage, Store!FinishImport,
           Store!DiscardFaults, Store!DiscardClears, Store!DiscardClearsStage,
           Store!imageVars, Store!Statuses, Store!ImportStates
  <1>2. partitions' \subseteq StoreParts
    BY DEF Store!ImportNext, Store!StartImport, Store!CreateStage, Store!Unpack, Store!Unpacked,
           Store!ImportFails, Store!SyncStage, Store!RenameStage, Store!FinishImport,
           Store!DiscardFaults, Store!DiscardClears, Store!DiscardClearsStage, Store!imageVars
  <1>3. stage' \in [exists : BOOLEAN, names : SUBSET Names]
    <2>1. CASE \E n \in Store!Names : Store!Unpack(n)
      BY <2>1 DEF Store!Unpack, Names
    <2>2. CASE stage' \in {stage, Store!NoStage}
      BY <2>2, NamesAreNames
    <2>3. CASE stage' = [exists |-> TRUE, names |-> {}]
      BY <2>3
    <2> QED
      BY <2>1, <2>2, <2>3
         DEF Store!ImportNext, Store!StartImport, Store!CreateStage, Store!Unpacked,
             Store!ImportFails, Store!SyncStage, Store!RenameStage, Store!FinishImport,
             Store!DiscardFaults, Store!DiscardClears, Store!DiscardClearsStage
  <1>4. dir' \in [Names -> 0 .. StoreRuns + 1] /\ exists' \in BOOLEAN /\ synced' \subseteq Names
    <2>1. CASE Store!RenameStage
      BY <2>1, StoreAssumption DEF Store!RenameStage, Store!NoFile, Names
    <2>2. CASE Store!RemoveDir
      BY <2>2, NamesAreNames DEF Store!RemoveDir
    <2>3. CASE UNCHANGED <<dir, exists, synced>>
      BY <2>3
    <2> QED
      BY <2>1, <2>2, <2>3
         DEF Store!ImportNext, Store!StartImport, Store!CreateStage, Store!Unpack, Store!Unpacked,
             Store!ImportFails, Store!SyncStage, Store!FinishImport, Store!DiscardFaults,
             Store!DiscardClears, Store!DiscardClearsStage, Store!dirVars
  <1>5. calls' \in [Calls -> CallRecords \cup {NoCall}]
    <2>1. calls' = calls \/ calls' = Store!Tear(calls)
      BY DEF Store!ImportNext, Store!StartImport, Store!CreateStage, Store!Unpack, Store!Unpacked,
             Store!ImportFails, Store!SyncStage, Store!RenameStage, Store!FinishImport,
             Store!DiscardFaults, Store!DiscardClears, Store!DiscardClearsStage,
             Store!ImportUnchanged
    <2> QED
      BY <2>1, TearStep
  <1> QED
    BY <1>0, <1>1, <1>2, <1>3, <1>4, <1>5, TypesKept

\* Nothing of the agent's is there while an image is imported.
LEMMA ImportIsQuiet ==
    ASSUME StoreInv, Store!ImportNext
    PROVE  /\ capture = "absent" /\ capture' = "absent" /\ "create" \notin ui
           /\ Uploads' /\ Reports' /\ Captured'
  <1>1. capture = "absent" /\ (status = "none" \/ importer # "idle")
    BY DEF Store!ImportNext, Store!StartImport, Store!CreateStage, Store!Unpack, Store!Unpacked,
           Store!ImportFails, Store!SyncStage, Store!RenameStage, Store!FinishImport,
           Store!DiscardFaults, Store!DiscardClears, Store!DiscardClearsStage, StoreInv, Uncaptured
  <1>2. UNCHANGED <<capture, run, await>> /\ (calls' = calls \/ calls' = Store!Tear(calls))
    BY DEF Store!ImportNext, Store!StartImport, Store!CreateStage, Store!Unpack, Store!Unpacked,
           Store!ImportFails, Store!SyncStage, Store!RenameStage, Store!FinishImport,
           Store!DiscardFaults, Store!DiscardClears, Store!DiscardClearsStage,
           Store!ImportUnchanged, Store!taskVars, Store!agentVars
  <1>3. \A i \in Calls : calls'[i] = NoCall
    BY <1>1, <1>2, UncapturedIsQuiet, TearStep DEF StoreInv
  <1>4. await' = Nobody /\ run' = Store!NoRun
    BY <1>1, <1>2, UncapturedIsQuiet DEF StoreInv, Uncaptured
  <1>5. "create" \notin ui
    BY <1>1 DEF StoreInv, Uncaptured
  <1> QED
    BY <1>1, <1>2, <1>3, <1>4, <1>5, QuietKeeps

LEMMA ImportKeeps ==
    ASSUME StoreInv, Store!ImportNext
    PROVE  StoreInv'
  <1>0. /\ capture = "absent" /\ capture' = "absent" /\ "create" \notin ui
        /\ Uploads' /\ Reports' /\ Captured'
    BY ImportIsQuiet
  <1>1. UNCHANGED <<ui, del, faults, deleted>> /\ run' = Store!NoRun /\ \A i \in Calls : calls'[i] = NoCall
    <2>1. UNCHANGED <<ui, del, faults, deleted, run>> /\ (calls' = calls \/ calls' = Store!Tear(calls))
      BY DEF Store!ImportNext, Store!StartImport, Store!CreateStage, Store!Unpack, Store!Unpacked,
             Store!ImportFails, Store!SyncStage, Store!RenameStage, Store!FinishImport,
             Store!DiscardFaults, Store!DiscardClears, Store!DiscardClearsStage,
             Store!ImportUnchanged, Store!uiVars, Store!agentVars, Store!budget, Store!imageVars
    <2> QED
      BY <1>0, <2>1, UncapturedIsQuiet, TearStep DEF StoreInv, Uncaptured
  <1>2. Uncaptured'
    BY <1>0, <1>1
       DEF Store!ImportNext, Store!StartImport, Store!CreateStage, Store!Unpack, Store!Unpacked,
           Store!ImportFails, Store!SyncStage, Store!RenameStage, Store!FinishImport,
           Store!DiscardFaults, Store!DiscardClears, Store!DiscardClearsStage, Store!imageVars,
           StoreInv, Uncaptured
  <1>3. Imported'
    <2>0. /\ Imported /\ UNCHANGED <<del, deleted>> /\ ~Store!NoStage.exists
          /\ importer # "idle" => status \in {"importing", "faulted"}
      BY <1>1, NamesAreNames DEF StoreInv, Uncaptured
    <2> USE <2>0 DEF Imported, Store!imageVars, Store!dirVars
    <2>1. CASE Store!StartImport
      <3>1. importer' = "begun" /\ status' = "importing" /\ UNCHANGED <<stage, dir, synced>>
        BY <2>1 DEF Store!StartImport
      <3> QED
        BY <3>1
    <2>2. CASE Store!CreateStage
      <3>1. importer' = "unpack" /\ UNCHANGED <<status, dir, synced>> /\ status # "ready"
        BY <2>2 DEF Store!CreateStage
      <3> QED
        BY <3>1
    <2>3. CASE \E n \in Store!Names : Store!Unpack(n)
      BY <2>3 DEF Store!Unpack
    <2>4. CASE Store!Unpacked
      <3>1. importer' = "sync" /\ UNCHANGED <<status, stage, dir, synced>> /\ status # "ready" /\ stage.names = Names
        BY <2>4 DEF Store!Unpacked, Names
      <3> QED
        BY <3>1
    <2>5. CASE Store!ImportFails
      <3>1. importer' = "discard" /\ UNCHANGED <<status, stage, dir, synced>> /\ status # "ready"
        BY <2>5 DEF Store!ImportFails
      <3> QED
        BY <3>1
    <2>6. CASE Store!SyncStage
      <3>1. importer' = "rename" /\ UNCHANGED <<status, stage, dir, synced>> /\ status # "ready" /\ importer = "sync"
        BY <2>6 DEF Store!SyncStage
      <3> QED
        BY <3>1
    <2>7. CASE Store!RenameStage
      <3>1. ~deleted => stage.names = Names
        BY <2>7 DEF Store!RenameStage
      <3>2. ~deleted => synced' = Names /\ \A n \in Names : dir'[n] = StoreRuns + 1
        BY <2>7, <3>1 DEF Store!RenameStage, Names
      <3>3. UNCHANGED status /\ importer' = "renamed" /\ stage' = Store!NoStage /\ status # "ready"
        BY <2>7 DEF Store!RenameStage
      <3> QED
        BY <3>2, <3>3
    <2>8. CASE Store!FinishImport
      <3>1. UNCHANGED <<dir, synced, stage>> /\ importer = "renamed"
        BY <2>8 DEF Store!FinishImport
      <3>2. CASE deleted
        BY <2>8, <3>1, <3>2 DEF Store!FinishImport
      <3>3. CASE ~deleted
        <4>1. importer' = "idle" /\ status' = "ready" /\ partitions' = StoreParts
          BY <2>8, <3>3 DEF Store!FinishImport
        <4>2. Whole(StoreRuns + 1)'
          BY <3>1, <3>3, <4>1 DEF Whole
        <4> QED
          BY <3>1, <4>1, <4>2
      <3> QED
        BY <3>2, <3>3
    <2>9. CASE Store!DiscardFaults
      <3>1. importer' = "clear" /\ status' = "faulted" /\ UNCHANGED <<stage, dir, synced>>
        BY <2>9 DEF Store!DiscardFaults
      <3> QED
        BY <3>1
    <2>10. CASE Store!DiscardClears
      <3>1. importer' = "clear stage" /\ status' = "faulted" /\ UNCHANGED stage
        BY <2>10 DEF Store!DiscardClears
      <3> QED
        BY <3>1
    <2>11. CASE Store!DiscardClearsStage
      <3>1. importer' = "idle" /\ status' = "faulted" /\ stage' = Store!NoStage
        BY <2>11 DEF Store!DiscardClearsStage
      <3> QED
        BY <3>1
    <2> QED
      BY <2>1, <2>2, <2>3, <2>4, <2>5, <2>6, <2>7, <2>8, <2>9, <2>10, <2>11 DEF Store!ImportNext
  <1>4. Leftover'
    BY <1>0, <1>1
       DEF Store!ImportNext, Store!StartImport, Store!CreateStage, Store!Unpack, Store!Unpacked,
           Store!ImportFails, Store!SyncStage, Store!RenameStage, Store!FinishImport,
           Store!DiscardFaults, Store!DiscardClears, Store!DiscardClearsStage, Store!imageVars,
           Store!dirVars, Store!RemoveDir, StoreInv, Leftover
  <1> QED
    BY <1>0, <1>2, <1>3, <1>4, ImportTypes DEF StoreInv

-----------------------------------------------------------------------------
(* The UI.                                                                 *)

\* A step of the UI on the image's row and the task rows.
LEMMA RowsKeep ==
    ASSUME StoreInv, UNCHANGED <<importer, stage, dir, exists, synced, partitions, run, await, calls, begun, faults>>,
           asked' \in 0 .. StoreOps, status' \in Store!Statuses, deleted' \in BOOLEAN,
           capture' \in Store!RowStates, deploy' \in {"absent", "active", "over"},
           del' \in Store!DeleteStates, ui' \subseteq Store!UiOps,
           deleted => deleted', capture' = "done" => capture = "done",
           Uncaptured', Imported', Leftover'
    PROVE  StoreInv'
  <1>1. Store!TypeOK'
    BY Types, TypesKept DEF StoreInv
  <1>2. Uploads' /\ Reports' /\ Captured'
    BY FilesFrame
  <1> QED
    BY <1>1, <1>2 DEF StoreInv

LEMMA CreateKeeps ==
    ASSUME StoreInv, Store!CreateImage \/ Store!CreateCapture
    PROVE  StoreInv'
  <1>0. /\ UNCHANGED <<importer, stage, dir, exists, synced, partitions, run, await, calls, begun, asked, faults>>
        /\ UNCHANGED <<deleted, deploy, del>>
    BY DEF Store!CreateImage, Store!CreateCapture, Store!imageVars, Store!dirVars, Store!importVars,
           Store!taskVars, Store!agentVars, Store!budget
  <1>1. CASE Store!CreateImage
    <2>1. status = "none" /\ status' = "empty" /\ ui' = ui \cup {"create"} /\ UNCHANGED capture
      BY <1>1 DEF Store!CreateImage, Store!taskVars
    <2>2. capture = "absent" /\ importer = "idle"
      BY <2>1 DEF StoreInv, Uncaptured
    <2>3. Uncaptured'
      BY <1>0, <2>1, <2>2 DEF StoreInv, Uncaptured
    <2>4. Imported' /\ Leftover'
      BY <1>0, <2>1, <2>2 DEF StoreInv, Imported, Leftover
    <2>5. status' \in Store!Statuses /\ ui' \subseteq Store!UiOps
      BY <2>1, Types DEF StoreInv, Store!Statuses, Store!UiOps
    <2> QED
      BY <1>0, <2>1, <2>3, <2>4, <2>5, RowsKeep, Types DEF StoreInv
  <1>2. CASE Store!CreateCapture
    <2>1. "create" \in ui /\ ui' = ui \ {"create"} /\ capture' = "pending" /\ UNCHANGED status
      BY <1>2 DEF Store!CreateCapture, Store!imageVars
    <2>2. status = "empty" /\ importer = "idle"
      BY <2>1 DEF StoreInv, Uncaptured
    <2>3. Uncaptured'
      BY <1>0, <2>1, <2>2 DEF StoreInv, Uncaptured
    <2>4. Imported' /\ Leftover'
      BY <1>0, <2>1, <2>2 DEF StoreInv, Imported, Leftover
    <2>5. capture' \in Store!RowStates /\ ui' \subseteq Store!UiOps
      BY <2>1, Types DEF StoreInv, Store!RowStates
    <2> QED
      BY <1>0, <2>1, <2>3, <2>4, <2>5, RowsKeep, Types DEF StoreInv
  <1> QED
    BY <1>1, <1>2

\* The requests on a task or a deploy.
LEMMA TaskUiKeeps ==
    ASSUME StoreInv,
           \/ \E op \in {"cancel", "retry", "deploy"} : Store!UiCheck(op)
           \/ Store!UiCancels \/ Store!CancelFaults \/ Store!UiRetries \/ Store!UiDeploys \/ Store!DeployEnds
    PROVE  StoreInv'
  <1>0. /\ UNCHANGED <<importer, stage, dir, exists, synced, partitions, run, await, calls, begun, faults>>
        /\ UNCHANGED <<deleted, del>>
    BY DEF Store!UiCheck, Store!UiCancels, Store!CancelFaults, Store!UiRetries, Store!UiDeploys,
           Store!DeployEnds, Store!UiUnchanged, Store!UiRequest, Store!dirVars, Store!importVars,
           Store!agentVars, Store!taskVars, Store!budget, Store!uiVars
  <1>1. ui' \subseteq Store!UiOps /\ (capture = "absent" => ui' \subseteq ui \cup {"deploy"})
        /\ ("create" \in ui' => "create" \in ui)
    <2>1. CASE \E op \in {"cancel", "retry", "deploy"} : Store!UiCheck(op)
      BY <2>1, Types DEF StoreInv, Store!UiCheck, Store!Admits, Store!Active, Store!Reopenable, Store!UiOps
    <2>2. CASE Store!UiCancels
      BY <2>2, Types DEF StoreInv, Store!UiCancels, Uncaptured, Store!UiOps
    <2>3. CASE ~Store!UiCancels /\ ~ \E op \in {"cancel", "retry", "deploy"} : Store!UiCheck(op)
      BY <2>3, Types DEF StoreInv, Store!CancelFaults, Store!UiRetries, Store!UiDeploys, Store!DeployEnds,
                         Store!uiVars
    <2> QED
      BY <2>1, <2>2, <2>3
  <1>2. /\ capture' \in Store!RowStates /\ (capture' = "absent" <=> capture = "absent")
        /\ capture' = "done" => capture = "done"
    BY Types DEF StoreInv, Store!UiCheck, Store!UiCancels, Store!CancelFaults, Store!UiRetries,
                 Store!UiDeploys, Store!DeployEnds, Store!IfActive, Store!Active, Store!Reopenable,
                 Store!RowStates, Store!taskVars
  <1>3. status' = status \/ (capture # "absent" /\ status' = "faulted")
    BY DEF StoreInv, Uncaptured, Store!UiCheck, Store!UiCancels, Store!CancelFaults, Store!UiRetries,
           Store!UiDeploys, Store!DeployEnds
  <1>4. deploy' \in {"absent", "active", "over"} /\ asked' \in 0 .. StoreOps
    <2>1. deploy' \in {"absent", "active", "over"}
      BY Types DEF StoreInv, Store!UiCheck, Store!UiCancels, Store!CancelFaults, Store!UiRetries,
             Store!UiDeploys, Store!DeployEnds, Store!taskVars
    <2>2. asked' = asked \/ (asked < StoreOps /\ asked' = asked + 1)
      BY DEF Store!UiCheck, Store!UiCancels, Store!CancelFaults, Store!UiRetries,
             Store!UiDeploys, Store!DeployEnds, Store!UiRequest, Store!budget
    <2>3. asked \in 0 .. StoreOps
      BY Types DEF StoreInv
    <2>4. asked' \in 0 .. StoreOps
      BY <2>2, <2>3, StoreAssumption
    <2> QED
      BY <2>1, <2>4
  <1>5. Uncaptured'
    BY <1>0, <1>1, <1>2, <1>3 DEF StoreInv, Uncaptured
  <1>6. capture # "absent" => importer = "idle"
    BY DEF StoreInv, Uncaptured
  <1>7. Imported' /\ Leftover'
    BY <1>0, <1>2, <1>3, <1>6 DEF StoreInv, Imported, Leftover, Whole
  <1>8. status' \in Store!Statuses
    BY <1>3, Types DEF StoreInv, Store!Statuses
  <1> QED
    BY <1>0, <1>1, <1>2, <1>4, <1>5, <1>7, <1>8, RowsKeep, Types DEF StoreInv

\* delete_image up to the soft delete.
LEMMA DeletesKeep ==
    ASSUME StoreInv, Store!DeleteLooks \/ Store!DeleteCancels \/ Store!DeleteFaults \/ Store!Deletes
    PROVE  StoreInv'
  <1>0. /\ UNCHANGED <<importer, stage, dir, exists, synced, partitions, run, await, calls, begun, faults>>
        /\ UNCHANGED <<ui, deploy>>
    BY DEF Store!DeleteLooks, Store!DeleteCancels, Store!DeleteFaults, Store!Deletes, Store!UiUnchanged,
           Store!UiRequest, Store!dirVars, Store!importVars, Store!agentVars, Store!taskVars, Store!budget
  <1>1. \/ /\ del' \in {"looked", "delete"} /\ (del' = "looked" => capture # "absent")
           /\ UNCHANGED <<status, deleted, capture>> /\ asked < StoreOps /\ asked' = asked + 1 /\ del = "idle"
        \/ /\ del \in {"looked", "cancelled"} /\ del' \in {"cancelled", "delete"} /\ UNCHANGED <<deleted, asked>>
           /\ status' \in {status, "faulted"} /\ capture' \in {capture, "cancelled"}
        \/ del = "delete" /\ del' = "clear" /\ deleted' = TRUE /\ UNCHANGED <<status, capture, asked>>
    BY DEF Store!DeleteLooks, Store!DeleteCancels, Store!DeleteFaults, Store!Deletes, Store!UiRequest,
           Store!taskVars, Store!budget, Store!Active, Store!IfActive
  <1>2. del \in {"looked", "cancelled"} => capture # "absent" /\ importer = "idle"
    BY DEF StoreInv, Uncaptured
  <1>3. Uncaptured'
    BY <1>0, <1>1, <1>2 DEF StoreInv, Uncaptured
  <1>4. /\ deleted => deleted'
        /\ capture' = "absent" <=> capture = "absent"
        /\ status' = status \/ (capture # "absent" /\ status' = "faulted")
        /\ del' \in {"clear", "clear stage"} => deleted'
        /\ importer # "idle" => status' = status
    <2>1. CASE del' \in {"looked", "delete"} /\ UNCHANGED <<status, deleted, capture>>
      BY <2>1
    <2>2. CASE /\ del \in {"looked", "cancelled"} /\ del' \in {"cancelled", "delete"} /\ UNCHANGED deleted
               /\ status' \in {status, "faulted"} /\ capture' \in {capture, "cancelled"}
      BY <1>2, <2>2
    <2>3. CASE del' = "clear" /\ deleted' = TRUE /\ UNCHANGED <<status, capture>>
      BY <2>3
    <2> QED
      BY <1>1, <2>1, <2>2, <2>3
  <1>5. Imported'
    <2>1. Whole(StoreRuns + 1)' <=> Whole(StoreRuns + 1)
      BY <1>0 DEF Whole
    <2> QED
      BY <1>0, <1>4, <2>1 DEF StoreInv, Imported
  <1>6. Leftover'
    BY <1>0, <1>1, <1>2 DEF StoreInv, Leftover, Imported
  <1>7. status' \in Store!Statuses /\ deleted' \in BOOLEAN /\ capture' \in Store!RowStates
        /\ del' \in Store!DeleteStates /\ (capture' = "done" => capture = "done")
    BY <1>1, Types DEF StoreInv, Store!Statuses, Store!RowStates, Store!DeleteStates
  <1>8. asked' \in 0 .. StoreOps
    BY <1>1, Types, StoreAssumption DEF StoreInv
  <1> QED
    BY <1>0, <1>3, <1>4, <1>5, <1>6, <1>7, <1>8, RowsKeep, Types DEF StoreInv

\* The directory goes, and with it what is being uploaded.
LEMMA DeleteClearsKeeps ==
    ASSUME StoreInv, Store!DeleteClears
    PROVE  StoreInv'
  <1>0. /\ UNCHANGED <<status, deleted, capture, deploy, ui, partitions, stage, importer, run, await, begun,
                       asked, faults>>
        /\ del = "clear" /\ del' = "clear stage" /\ calls' = Store!Tear(calls) /\ exists' = FALSE
        /\ dir' = Store!Empty /\ synced' = {}
    BY DEF Store!DeleteClears, Store!RemoveDir, Store!UiUnchanged, Store!taskVars, Store!budget,
           Store!importVars, Store!agentVars
  <1>1. deleted
    BY <1>0 DEF StoreInv, Imported
  <1>2. /\ calls' \in [Calls -> CallRecords \cup {NoCall}]
        /\ \A j \in Calls : /\ calls'[j].kind = calls[j].kind /\ calls'[j].n = calls[j].n
                            /\ calls'[j].run = calls[j].run /\ (calls'[j] = NoCall <=> calls[j] = NoCall)
                            /\ calls'[j] = calls[j] \/ (calls[j].st = "writing" /\ calls'[j].st = "torn")
    BY <1>0, TearStep DEF StoreInv
  <1>3. Store!TypeOK'
    <2>1. dir' \in [Names -> 0 .. StoreRuns + 1] /\ exists' \in BOOLEAN /\ synced' \subseteq Names
      BY <1>0, NamesAreNames
    <2>2. del' \in Store!DeleteStates
      BY <1>0 DEF Store!DeleteStates
    <2> QED
      BY <1>0, <1>2, <2>1, <2>2, Types, TypesKept DEF StoreInv
  <1>4. Uncaptured' /\ Imported' /\ Leftover'
    BY <1>0, <1>1, <1>2 DEF StoreInv, Uncaptured, Imported, Leftover
  <1>5. Uploads'
    <2>1. await \in Calls \cup {Nobody}
      BY Types DEF StoreInv
    <2>2. \A j \in Calls : Upload(calls[j]) => Upload(calls[j])'
      BY <1>0, <1>1, <1>2 DEF Upload
    <2> QED
      BY <1>0, <1>1, <1>2, <2>1, <2>2 DEF StoreInv, Uploads
  <1>6. Reports' /\ Captured'
    BY <1>0, <1>1, <1>2 DEF StoreInv, Reports, Captured, SomeWhole
  <1> QED
    BY <1>3, <1>4, <1>5, <1>6 DEF StoreInv

LEMMA DeleteClearsStageKeeps ==
    ASSUME StoreInv, Store!DeleteClearsStage
    PROVE  StoreInv'
  <1>0. /\ UNCHANGED <<status, deleted, capture, deploy, ui, partitions, dir, exists, synced, importer, run,
                       await, calls, begun, asked, faults>>
        /\ del = "clear stage" /\ del' = "idle" /\ stage' = Store!NoStage
    BY DEF Store!DeleteClearsStage, Store!imageVars, Store!dirVars, Store!taskVars, Store!agentVars,
           Store!budget
  <1>1. deleted /\ ~stage'.exists
    BY <1>0, NamesAreNames DEF StoreInv, Imported
  <1>2. Store!TypeOK'
    <2>1. stage' \in [exists : BOOLEAN, names : SUBSET Names]
      BY <1>0, NamesAreNames
    <2>2. del' \in Store!DeleteStates
      BY <1>0 DEF Store!DeleteStates
    <2> QED
      BY <1>0, <2>1, <2>2, Types, TypesKept DEF StoreInv
  <1>3. Uncaptured' /\ Imported' /\ Leftover'
    BY <1>0, <1>1 DEF StoreInv, Uncaptured, Imported, Leftover
  <1>4. Uploads' /\ Reports' /\ Captured'
    BY <1>0, FilesFrame
  <1> QED
    BY <1>2, <1>3, <1>4 DEF StoreInv

LEMMA UiKeeps ==
    ASSUME StoreInv, Store!UiNext
    PROVE  StoreInv'
  BY CreateKeeps, TaskUiKeeps, DeletesKeep, DeleteClearsKeeps, DeleteClearsStageKeeps DEF Store!UiNext

-----------------------------------------------------------------------------
(* The agent.                                                              *)

LEMMA AgentFrame ==
    ASSUME StoreInv, capture # "absent", Store!AgentUnchanged
    PROVE  /\ UNCHANGED <<status, deleted, partitions, dir, exists, synced, stage, importer, capture, deploy, del, ui>>
           /\ Uncaptured' /\ Imported' /\ Leftover'
           /\ \A r : Whole(r)' <=> Whole(r)
           /\ SomeWhole' <=> SomeWhole
  <1>1. UNCHANGED <<status, deleted, partitions, dir, exists, synced, stage, importer, capture, deploy, del, ui>>
    BY DEF Store!AgentUnchanged, Store!imageVars, Store!dirVars, Store!importVars, Store!taskVars, Store!uiVars
  <1>2. \A r : Whole(r)' <=> Whole(r)
    BY <1>1 DEF Whole
  <1>3. importer = "idle" /\ "create" \notin ui /\ status # "none"
    BY DEF StoreInv, Uncaptured
  <1>4. Uncaptured' /\ Leftover'
    BY <1>1, <1>3 DEF Uncaptured, Leftover
  <1>5. Imported'
    BY <1>1, <1>3 DEF StoreInv, Imported
  <1>6. SomeWhole' <=> SomeWhole
    BY <1>1, <1>2 DEF SomeWhole
  <1> QED
    BY <1>1, <1>2, <1>4, <1>5, <1>6

\* Who waits or runs has a capture.
LEMMA AgentHasCapture ==
    ASSUME StoreInv, run.phase # "idle" \/ await # Nobody \/ \E i \in Calls : calls[i] # NoCall
    PROVE  capture # "absent"
  BY UncapturedIsQuiet

LEMMA AgentTypes ==
    ASSUME StoreInv, capture # "absent", Store!AgentUnchanged,
           run' \in [no : 0 .. StoreRuns, phase : Store!Phases, left : SUBSET Names],
           await' \in Calls \cup {Nobody}, calls' \in [Calls -> CallRecords \cup {NoCall}],
           begun' \in 0 .. StoreRuns, asked' \in 0 .. StoreOps, faults' \in 0 .. StoreFaults
    PROVE  Store!TypeOK'
  <1>1. UNCHANGED <<status, deleted, partitions, dir, exists, synced, stage, importer, capture, deploy, del, ui>>
    BY AgentFrame
  <1> QED
    BY <1>1, Types, TypesKept DEF StoreInv

LEMMA FaultTypes ==
    ASSUME StoreInv, Store!Fault \/ UNCHANGED Store!budget
    PROVE  begun' \in 0 .. StoreRuns /\ asked' \in 0 .. StoreOps /\ faults' \in 0 .. StoreFaults
  <1>1. begun \in 0 .. StoreRuns /\ asked \in 0 .. StoreOps /\ faults \in 0 .. StoreFaults
    BY Types DEF StoreInv
  <1>2. /\ UNCHANGED <<begun, asked>>
        /\ faults' = faults \/ (faults < StoreFaults /\ faults' = faults + 1)
    BY DEF Store!Fault, Store!budget
  <1> QED
    BY <1>1, <1>2, StoreAssumption

\* The agent's run is over, or is about to be reported failed, or a report
\* is to be repeated.
LEMMA AgentRests ==
    ASSUME StoreInv, capture # "absent", Store!AgentUnchanged, await' = Nobody,
           run' \in [no : 0 .. StoreRuns, phase : Store!Phases, left : SUBSET Names],
           \/ run' = Store!NoRun
           \/ run.phase \in {"prepare", "store"} /\ run'.phase = "fail" /\ run'.no = run.no
           \/ run.phase \notin {"prepare", "store"} /\ run' = run,
           calls' \in [Calls -> CallRecords \cup {NoCall}],
           \A j \in Calls : calls'[j] \in {calls[j], NoCall},
           Store!Fault \/ UNCHANGED Store!budget
    PROVE  StoreInv'
  <1>1. Store!TypeOK'
    BY AgentTypes, FaultTypes
  <1>2. /\ NoCall.kind = "none" /\ NoCall.st = "free" /\ NoCall = Store!NoCall
        /\ Store!NoRun.phase = "idle"
    BY DEF NoCall, Store!NoCall, Store!NoRun
  <1>3. /\ run'.phase \notin {"prepare", "store"}
        /\ run'.phase = "finish" => run' = run
        /\ run'.phase # "idle" => run'.no = run.no /\ run.phase # "idle"
        /\ run.phase \in {"finish", "idle"} => run'.phase \in {"finish", "idle"}
    BY <1>2
  <1>4. Uploads'
    BY <1>2, <1>3 DEF StoreInv, Uploads
  <1>5. (\A r : Whole(r)' <=> Whole(r)) /\ (SomeWhole' <=> SomeWhole) /\ UNCHANGED <<deleted, capture>>
    BY AgentFrame
  <1>6. \A j \in Calls : calls'[j].kind \in {calls[j].kind, "none"} /\ (calls'[j] = calls[j] \/ calls'[j].kind = "none")
    BY <1>2
  <1>7. Reports'
    <2>0. run' = run => (Whole(run.no) <=> Whole(run.no)')
      BY AgentFrame DEF Whole
    <2>1. run'.phase = "finish" => (deleted \/ Whole(run.no))'
      BY <1>3, <1>5, <2>0 DEF StoreInv, Reports
    <2>2. \A i \in Calls : calls'[i].kind = "finished" => run'.phase \in {"finish", "idle"} /\ SomeWhole'
      BY <1>3, <1>5, <1>6 DEF StoreInv, Reports
    <2>3. run'.phase = "finish" \/ (\E i \in Calls : calls'[i].kind = "finished") =>
             \A j \in Calls : calls'[j].kind \in {"finished", "none"}
      BY <1>3, <1>6 DEF StoreInv, Reports
    <2> QED
      BY <2>1, <2>2, <2>3 DEF Reports
  <1>8. Captured'
    BY <1>5, <1>6 DEF StoreInv, Captured
  <1> QED
    BY <1>1, <1>4, <1>7, <1>8, AgentFrame DEF StoreInv

LEMMA NoCallFields == /\ NoCall.kind = "none" /\ NoCall.st = "free" /\ NoCall = Store!NoCall
                      /\ Store!NoRun.phase = "idle"
                      /\ Store!NoRun \in [no : 0 .. StoreRuns, phase : Store!Phases, left : SUBSET Names]
  BY StoreAssumption DEF NoCall, Store!NoCall, Store!NoRun, Store!Phases

\* A call that is answered or broken off is no longer there.
LEMMA CallGone ==
    ASSUME StoreInv, NEW i \in Calls, calls' = [calls EXCEPT ![i] = Store!NoCall]
    PROVE  /\ calls' \in [Calls -> CallRecords \cup {NoCall}] /\ calls'[i] = NoCall
           /\ \A j \in Calls \ {i} : calls'[j] = calls[j]
           /\ \A j \in Calls : calls'[j] \in {calls[j], NoCall}
  <1>1. calls \in [Calls -> CallRecords \cup {NoCall}] /\ NoCall = Store!NoCall
    BY Types, NoCallFields DEF StoreInv
  <1> QED
    BY <1>1

LEMMA BeginKeeps ==
    ASSUME StoreInv, Store!Begin
    PROVE  StoreInv'
  <1>1. /\ run.phase = "idle" /\ begun < StoreRuns /\ capture # "absent" /\ begun' = begun + 1
        /\ run' = [no |-> begun + 1, phase |-> "prepare", left |-> Names]
        /\ UNCHANGED <<await, calls, asked, faults>> /\ Store!AgentUnchanged
        /\ \A i \in Calls : calls[i].kind \notin {"finished", "failed"}
    BY DEF Store!Begin, Names, Store!ReportsOver
  <1>2. begun \in 0 .. StoreRuns
    BY Types DEF StoreInv
  <1>3. begun + 1 \in 1 .. StoreRuns /\ begun + 1 \in 0 .. StoreRuns
    BY <1>1, <1>2, StoreAssumption
  <1>4. run' \in [no : 0 .. StoreRuns, phase : Store!Phases, left : SUBSET Names]
    BY <1>1, <1>3 DEF Store!Phases
  <1>5. Store!TypeOK'
    BY <1>1, <1>3, <1>4, AgentTypes, Types DEF StoreInv
  <1>6. run'.phase = "prepare" /\ run'.left = Names /\ run'.no \in 1 .. StoreRuns
    BY <1>1, <1>3
  <1>7. await = Nobody
    BY <1>1 DEF StoreInv, Uploads
  <1>8. Uploads'
    BY <1>1, <1>6, <1>7 DEF StoreInv, Uploads
  <1>9. Reports'
    BY <1>1, <1>6 DEF Reports
  <1>10. Captured'
    BY <1>1, AgentFrame DEF StoreInv, Captured
  <1> QED
    BY <1>1, <1>5, <1>8, <1>9, <1>10, AgentFrame DEF StoreInv

LEMMA IssueKeeps ==
    ASSUME StoreInv, NEW i \in Calls, Store!Issue(i)
    PROVE  StoreInv'
  <1>1. PICK n \in Names :
             /\ IF run.phase = "store" THEN Store!IsNextFile(n) ELSE n = Table
             /\ calls' = [calls EXCEPT ![i] = [kind |-> Store!CallOf(run.phase), n |-> n,
                                               run |-> run.no, st |-> "sent"]]
    BY DEF Store!Issue, Names
  <1>2. /\ run.phase # "idle" /\ await = Nobody /\ calls[i] = NoCall /\ await' = i
        /\ run.phase = "store" => \A j \in Calls : calls[j] = NoCall
        /\ UNCHANGED <<run, begun, asked, faults>> /\ Store!AgentUnchanged
    BY DEF Store!Issue, NoCall, Store!OrphansOver, Store!budget
  <1>3. run.no \in 0 .. StoreRuns /\ run.phase \in Store!Phases /\ calls \in [Calls -> CallRecords \cup {NoCall}]
    BY Types DEF StoreInv
  <1>4. /\ Store!CallOf(run.phase) \in Store!CallKinds
        /\ Store!CallOf(run.phase) = "finished" <=> run.phase = "finish"
        /\ run.phase = "store" => Store!CallOf(run.phase) = "store"
    BY <1>2, <1>3 DEF Store!CallOf, Store!CallKinds, Store!Phases
  <1> DEFINE c == [kind |-> Store!CallOf(run.phase), n |-> n, run |-> run.no, st |-> "sent"]
  <1>5. c \in CallRecords /\ c.kind = Store!CallOf(run.phase) /\ c.st = "sent" /\ c.n = n /\ c.run = run.no
    BY <1>3, <1>4 DEF CallRecords, Store!CallStates
  <1> HIDE DEF c
  <1>6. /\ calls' \in [Calls -> CallRecords \cup {NoCall}]
        /\ calls'[i] = c /\ \A j \in Calls \ {i} : calls'[j] = calls[j]
    BY <1>1, <1>3, <1>5 DEF c
  <1>7. capture # "absent"
    BY <1>2, AgentHasCapture
  <1>8. Store!TypeOK'
    BY <1>2, <1>6, <1>7, AgentTypes, Types DEF StoreInv
  <1>9. /\ (\A r : Whole(r)' <=> Whole(r)) /\ (SomeWhole' <=> SomeWhole)
        /\ UNCHANGED <<deleted, capture, dir, synced, partitions>>
    BY <1>2, <1>7, AgentFrame
  <1>10. Uploads'
    <2>1. c # NoCall
      BY <1>5, NoCallFields
    <2>2. run.phase = "store" => n \in run.left
      BY <1>1 DEF Store!IsNextFile
    <2>3. run.phase = "store" => Upload(calls[i])'
      BY <1>2, <1>4, <1>5, <1>6, <2>2 DEF Upload
    <2>4. \A j \in Calls : calls'[j].st = "insert" => calls'[j].n # Table
      BY <1>5, <1>6 DEF StoreInv, Uploads
    <2>5. /\ run.phase = "prepare" => run.left = Names
          /\ run.no \in 1 .. StoreRuns
          /\ run.phase = "store" /\ ~deleted =>
                 \A m \in Names \ run.left : dir[m] = run.no /\ m \in synced /\ (m # Table => m \in partitions)
      BY <1>2 DEF StoreInv, Uploads
    <2>6. run.phase = "store" => \A j \in Calls : j # i => calls'[j] = NoCall
      BY <1>2, <1>6
    <2> QED
      BY <1>2, <1>6, <1>9, <2>1, <2>3, <2>4, <2>5, <2>6 DEF Uploads
  <1>11. Reports'
    <2>1. run.phase = "finish" => (deleted \/ Whole(run.no)) /\ SomeWhole
      BY <1>2 DEF StoreInv, Reports, SomeWhole, Uploads
    <2>2. \A j \in Calls : calls[j].kind = "finished" => run.phase = "finish"
      BY <1>2 DEF StoreInv, Reports
    <2>3. run.phase = "finish" => \A j \in Calls : calls[j].kind \in {"finished", "none"}
      BY DEF StoreInv, Reports
    <2> QED
      BY <1>2, <1>4, <1>5, <1>6, <1>9, <2>1, <2>2, <2>3 DEF Reports
  <1>12. Captured'
    BY <1>5, <1>6, <1>9 DEF StoreInv, Captured
  <1> QED
    BY <1>2, <1>7, <1>8, <1>10, <1>11, <1>12, AgentFrame DEF StoreInv

LEMMA ReplyKeeps ==
    ASSUME StoreInv, NEW i \in Calls, Store!Reply(i)
    PROVE  StoreInv'
  <1>1. /\ await = i /\ calls[i].st \in {"ok", "rejected"} /\ await' = Nobody
        /\ run' = Store!Answered(calls[i]) /\ calls' = [calls EXCEPT ![i] = Store!NoCall]
        /\ UNCHANGED <<begun, asked, faults>> /\ UNCHANGED Store!budget /\ Store!AgentUnchanged
    BY DEF Store!Reply, Store!budget
  <1>2. /\ calls' \in [Calls -> CallRecords \cup {NoCall}] /\ calls'[i] = NoCall
        /\ \A j \in Calls \ {i} : calls'[j] = calls[j]
        /\ \A j \in Calls : calls'[j] \in {calls[j], NoCall}
    BY <1>1, CallGone
  <1>3. await # Nobody
    BY <1>1, StoreAssumption
  <1>4. capture # "absent" /\ run.phase # "idle"
    BY <1>3, AgentHasCapture DEF StoreInv, Uploads
  <1>5. run \in [no : 0 .. StoreRuns, phase : Store!Phases, left : SUBSET Names]
    BY Types DEF StoreInv
  <1>6. run.phase \in {"prepare", "store", "finish", "fail"}
    BY <1>4, <1>5 DEF Store!Phases
  <1>7. CASE run.phase \in {"finish", "fail"}
    <2>1. run' = Store!NoRun
      BY <1>1, <1>7 DEF Store!Answered
    <2> QED
      BY <1>1, <1>2, <1>4, <2>1, AgentRests, NoCallFields
  <1>8. CASE run.phase \in {"prepare", "store"} /\ calls[i].st = "rejected"
    <2>1. run' = [run EXCEPT !.phase = "fail"]
      BY <1>1, <1>8 DEF Store!Answered
    <2>2. run' \in [no : 0 .. StoreRuns, phase : Store!Phases, left : SUBSET Names]
          /\ run'.phase = "fail" /\ run'.no = run.no
      BY <1>5, <2>1 DEF Store!Phases
    <2> QED
      BY <1>1, <1>2, <1>4, <1>8, <2>2, AgentRests
  <1>9. CASE run.phase = "prepare" /\ calls[i].st = "ok"
    <2>1. run' = [run EXCEPT !.phase = "store"]
      BY <1>1, <1>9 DEF Store!Answered
    <2>2. run' \in [no : 0 .. StoreRuns, phase : Store!Phases, left : SUBSET Names]
          /\ run'.phase = "store" /\ run'.no = run.no /\ run'.left = run.left
      BY <1>5, <2>1 DEF Store!Phases
    <2>3. run.left = Names /\ run.no \in 1 .. StoreRuns
      BY <1>9, <1>4 DEF StoreInv, Uploads
    <2>4. Uploads'
      <3>1. \A j \in Calls : calls'[j].st = "insert" => calls'[j].n # Table
        BY <1>2, NoCallFields DEF StoreInv, Uploads
      <3> QED
        BY <1>1, <2>2, <2>3, <3>1 DEF Uploads
    <2>5. Reports'
      <3>1. \A j \in Calls : calls[j].kind # "finished"
        BY <1>9 DEF StoreInv, Reports
      <3>2. \A j \in Calls : calls'[j].kind # "finished"
        BY <3>1, <1>2, NoCallFields
      <3> QED
        BY <2>2, <3>2 DEF Reports
    <2>6. Captured'
      BY <1>1, <1>2, <1>4, AgentFrame, NoCallFields DEF StoreInv, Captured
    <2>7. Store!TypeOK'
      BY <1>1, <1>2, <1>4, <2>2, AgentTypes, FaultTypes
    <2> QED
      BY <1>1, <1>4, <2>4, <2>5, <2>6, <2>7, AgentFrame DEF StoreInv
  <1>10. CASE run.phase = "store" /\ calls[i].st = "ok"
    <2> DEFINE n == calls[i].n
    <2>1. run' = Store!Stored(n)
      BY <1>1, <1>10 DEF Store!Answered
    <2>2. Upload(calls[i]) /\ run.no \in 1 .. StoreRuns /\ \A j \in Calls : j # i => calls[j] = NoCall
      BY <1>1, <1>3, <1>10 DEF StoreInv, Uploads
    <2>3. \A j \in Calls : calls'[j] = NoCall
      BY <1>2, <2>2
    <2>4. n \in run.left /\ (~deleted => dir[n] = run.no /\ n \in synced /\ (n # Table => n \in partitions))
      BY <1>10, <2>2 DEF Upload
    <2>5. ~deleted => \A m \in Names \ run.left :
                          dir[m] = run.no /\ m \in synced /\ (m # Table => m \in partitions)
      BY <1>10 DEF StoreInv, Uploads
    <2> HIDE DEF n
    <2>6. /\ run' \in [no : 0 .. StoreRuns, phase : Store!Phases, left : SUBSET Names]
          /\ run'.no = run.no /\ run'.left = run.left \ {n}
          /\ \/ run'.phase = "store"
             \/ run'.phase = "finish" /\ run.left = {n}
      BY <1>5, <1>10, <2>1 DEF Store!Stored, Store!Phases
    <2>7. /\ UNCHANGED <<deleted, capture, dir, synced, partitions>>
          /\ Store!AgentUnchanged
      BY <1>1, <1>4, AgentFrame
    <2>8. ~deleted' => \A m \in Names \ run'.left :
                          dir'[m] = run'.no /\ m \in synced' /\ (m # Table => m \in partitions')
      BY <2>4, <2>5, <2>6, <2>7
    <2>9. Uploads'
      BY <1>1, <2>2, <2>3, <2>6, <2>8, NoCallFields DEF Uploads
    <2>10. Reports'
      <3>1. run'.phase = "finish" => (deleted \/ Whole(run.no))'
        <4>1. run'.phase = "finish" => run'.left = {}
          BY <2>6, <1>10
        <4>2. partitions \subseteq StoreParts /\ synced \subseteq Names
          BY Types DEF StoreInv
        <4> QED
          BY <2>7, <2>8, <4>1, <4>2, StoreAssumption, NamesAreNames DEF Whole
      <3> QED
        BY <2>3, <3>1, NoCallFields DEF Reports
    <2>11. Captured'
      BY <1>4, <2>3, <2>7, AgentFrame, NoCallFields DEF StoreInv, Captured
    <2>12. Store!TypeOK'
      BY <1>1, <1>2, <1>4, <2>6, AgentTypes, FaultTypes
    <2> QED
      BY <1>1, <1>4, <2>9, <2>10, <2>11, <2>12, AgentFrame DEF StoreInv
  <1> QED
    BY <1>1, <1>6, <1>7, <1>8, <1>9, <1>10

LEMMA AgentKeeps ==
    ASSUME StoreInv, Store!AgentNext \/ Store!AnswerLost \/ Store!Crash
    PROVE  StoreInv'
  <1>0. /\ run \in [no : 0 .. StoreRuns, phase : Store!Phases, left : SUBSET Names]
        /\ calls \in [Calls -> CallRecords \cup {NoCall}]
    BY Types DEF StoreInv
  <1>1. ASSUME Store!Unanswered
        PROVE  /\ await' = Nobody /\ Store!AgentUnchanged
               /\ run' \in [no : 0 .. StoreRuns, phase : Store!Phases, left : SUBSET Names]
               /\ \/ run.phase \in {"prepare", "store"} /\ run'.phase = "fail" /\ run'.no = run.no
                  \/ run.phase \notin {"prepare", "store"} /\ run' = run
    BY <1>0, <1>1 DEF Store!Unanswered, Store!Phases
  <1>2. CASE Store!AnswerLost
    <2>1. capture # "absent" /\ Store!Unanswered /\ UNCHANGED calls /\ Store!Fault
      BY <1>2, AgentHasCapture DEF Store!AnswerLost
    <2> QED
      BY <1>0, <1>1, <2>1, AgentRests
  <1>3. CASE \E i \in Calls : Store!ServerGone(i)
    <2>1. PICK i \in Calls : Store!ServerGone(i)
      BY <1>3
    <2>2. capture # "absent"
      BY <2>1, AgentHasCapture, StoreAssumption DEF Store!ServerGone
    <2>3. Store!Unanswered /\ UNCHANGED Store!budget /\ calls' = [calls EXCEPT ![i] = Store!NoCall]
      BY <2>1 DEF Store!ServerGone
    <2>4. calls' \in [Calls -> CallRecords \cup {NoCall}] /\ \A j \in Calls : calls'[j] \in {calls[j], NoCall}
      BY <2>3, CallGone
    <2> QED
      BY <1>1, <2>2, <2>3, <2>4, AgentRests
  <1>4. CASE Store!Stopped \/ Store!Crash
    <2>1. /\ run.phase # "idle" /\ run' = Store!NoRun /\ await' = Nobody /\ UNCHANGED calls
          /\ Store!AgentUnchanged /\ (Store!Fault \/ UNCHANGED Store!budget)
      BY <1>4 DEF Store!Stopped, Store!Crash
    <2>2. capture # "absent"
      BY <2>1, AgentHasCapture
    <2> QED
      BY <1>0, <2>1, <2>2, AgentRests, NoCallFields
  <1> QED
    BY <1>2, <1>3, <1>4, BeginKeeps, IssueKeeps, ReplyKeeps DEF Store!AgentNext

-----------------------------------------------------------------------------
(* The handlers of the agent's calls.                                      *)

\* What a handler never touches, and what that leaves true.
LEMMA HandlerFrame ==
    ASSUME StoreInv, NEW i \in Calls, calls[i] # NoCall, Store!HandlerUnchanged,
           status' \in {status, "capturing", "faulted", "ready"}, capture' # "absent"
    PROVE  /\ capture # "absent" /\ Uncaptured' /\ Imported' /\ Leftover'
           /\ UNCHANGED <<deleted, stage, importer, deploy, del, ui, run, await, begun, asked, faults>>
  <1>1. UNCHANGED <<deleted, stage, importer, deploy, del, ui, run, await, begun, asked, faults>>
    BY DEF Store!HandlerUnchanged, Store!importVars, Store!uiVars, Store!agentVars, Store!budget
  <1>2. capture # "absent"
    BY AgentHasCapture
  <1>3. importer = "idle" /\ "create" \notin ui /\ status # "none"
    BY <1>2 DEF StoreInv, Uncaptured
  <1>4. Uncaptured' /\ Leftover'
    BY <1>1, <1>3 DEF Uncaptured, Leftover
  <1>5. Imported'
    BY <1>1, <1>3 DEF StoreInv, Imported
  <1> QED
    BY <1>1, <1>2, <1>4, <1>5

LEMMA HandlerTypes ==
    ASSUME StoreInv, NEW i \in Calls, calls[i] # NoCall, Store!HandlerUnchanged,
           status' \in {status, "capturing", "faulted", "ready"}, capture' # "absent",
           capture' \in Store!RowStates, partitions' \subseteq StoreParts,
           dir' \in [Names -> 0 .. StoreRuns + 1], exists' \in BOOLEAN, synced' \subseteq Names,
           calls' \in [Calls -> CallRecords \cup {NoCall}]
    PROVE  Store!TypeOK'
  <1>1. UNCHANGED <<deleted, stage, importer, deploy, del, ui, run, await, begun, asked, faults>>
    BY HandlerFrame
  <1>2. status' \in Store!Statuses
    BY Types DEF StoreInv, Store!Statuses
  <1> QED
    BY <1>1, <1>2, Types, TypesKept DEF StoreInv

\* A handler the run's upload does not wait for leaves the uploads as they are.
LEMMA OthersKeepUploads ==
    ASSUME StoreInv, NEW i \in Calls, calls[i] # NoCall, UNCHANGED <<run, await>>,
           ~(run.phase = "store" /\ await = i),
           \A j \in Calls : calls'[j].st = "insert" => calls'[j].n # Table,
           \A j \in Calls : j = await /\ calls[j] # NoCall => calls'[j] # NoCall
    PROVE  Uploads'
  <1>1. await \in Calls \cup {Nobody}
    BY Types DEF StoreInv
  <1>2. run.phase = "store" => run.left = Names /\ await = Nobody
    BY DEF StoreInv, Uploads
  <1>3. /\ await # Nobody => run.phase # "idle" /\ calls'[await] # NoCall
        /\ run.phase = "prepare" => run.left = Names
        /\ run.phase # "idle" => run.no \in 1 .. StoreRuns
    BY <1>1 DEF StoreInv, Uploads
  <1> QED
    BY <1>2, <1>3 DEF Uploads

\* Only the handler of a finished report meets a finished capture.
LEMMA OthersKeepReports ==
    ASSUME StoreInv, NEW i \in Calls, calls[i].kind \in {"started", "store", "failed"}, UNCHANGED run,
           \A j \in Calls : calls'[j].kind \in {calls[j].kind, "none"}
    PROVE  Reports'
  <1>1. run.phase # "finish" /\ \A j \in Calls : calls[j].kind # "finished"
    BY DEF StoreInv, Reports
  <1> QED
    BY <1>1 DEF Reports

LEMMA FilesKeepReports ==
    ASSUME StoreInv, UNCHANGED <<run, deleted, partitions, dir, synced>>,
           \A j \in Calls : calls'[j].kind \in {calls[j].kind, "none"}
    PROVE  Reports' /\ (SomeWhole => SomeWhole')
  <1>1. \A r : Whole(r)' <=> Whole(r)
    BY DEF Whole
  <1>2. SomeWhole => SomeWhole'
    BY <1>1 DEF SomeWhole
  <1>3. Whole(run.no)' <=> Whole(run.no)
    BY DEF Whole
  <1> QED
    BY <1>2, <1>3 DEF StoreInv, Reports

\* A handler at work is none of a capture that is done.
LEMMA AtWork ==
    ASSUME StoreInv, NEW i \in Calls, calls[i].kind \in {"started", "store"},
           calls[i].st \notin {"sent", "ok", "rejected", "gone"}
    PROVE  capture # "done"
  BY DEF StoreInv, Captured

\* The call that is handled is there; only of an upload does the run expect
\* something while it uploads.
LEMMA Handled ==
    ASSUME StoreInv, NEW i \in Calls, calls[i].kind \in Store!CallKinds
    PROVE  /\ calls[i] # NoCall /\ calls[i] \in CallRecords
           /\ calls[i].kind # "store" => ~(run.phase = "store" /\ await = i)
           /\ capture # "absent"
  <1>1. calls[i] # NoCall
    BY NoCallFields DEF Store!CallKinds
  <1>2. calls[i] \in CallRecords
    BY <1>1, Types DEF StoreInv
  <1>3. calls[i].kind # "store" => ~(run.phase = "store" /\ await = i)
    BY StoreAssumption DEF StoreInv, Uploads, Upload
  <1>4. capture # "absent"
    BY <1>1, AgentHasCapture
  <1> QED
    BY <1>1, <1>2, <1>3, <1>4

\* StartedLooks, StartCapture and StartedWrites.
LEMMA StartedKeeps ==
    ASSUME StoreInv, NEW i \in Calls,
           Store!StartedLooks(i) \/ Store!StartCapture(i) \/ Store!StartedWrites(i)
    PROVE  StoreInv'
  <1>1. calls[i].kind = "started" /\ Store!HandlerUnchanged /\ UNCHANGED <<dir, exists, synced>>
    BY DEF Store!StartedLooks, Store!StartCapture, Store!StartedWrites, Store!At, Store!dirVars
  <1>2. calls[i] # NoCall /\ capture # "absent" /\ ~(run.phase = "store" /\ await = i)
    BY <1>1, Handled DEF Store!CallKinds
  <1>3. PICK to \in Store!CallStates : Store!To(i, to) /\ to # "insert"
                                       /\ (capture' = "done" => to \in {"ok", "rejected"} /\ capture = "done")
    <2>1. CASE Store!StartedLooks(i)
      BY <2>1, <1>2 DEF Store!StartedLooks, Store!CallStates
    <2>2. CASE Store!StartCapture(i)
      <3>1. capture # "done"
        BY <2>2, AtWork DEF Store!StartCapture, Store!At
      <3> QED
        BY <2>2, <3>1 DEF Store!StartCapture, Store!CallStates
    <2>3. CASE Store!StartedWrites(i)
      <3>1. capture # "done"
        BY <2>3, AtWork DEF Store!StartedWrites, Store!At
      <3> QED
        BY <2>3, <3>1 DEF Store!StartedWrites, Store!CallStates, Store!IfActive
    <2> QED
      BY <2>1, <2>2, <2>3
  <1>4. /\ calls' \in [Calls -> CallRecords \cup {NoCall}]
        /\ calls'[i] \in CallRecords /\ calls'[i].st = to
        /\ \A j \in Calls \ {i} : calls'[j] = calls[j]
        /\ \A j \in Calls : calls'[j].kind = calls[j].kind
    BY <1>2, <1>3, CallStep DEF StoreInv
  <1>5. /\ status' \in {status, "capturing", "faulted", "ready"} /\ partitions' \in {partitions, {}}
        /\ capture' \in {capture, "running"}
        /\ partitions' = partitions \/ capture # "done"
    <2>1. Store!StartCapture(i) => capture # "done"
      BY AtWork DEF Store!StartCapture, Store!At
    <2> QED
      BY <2>1 DEF Store!StartedLooks, Store!StartCapture, Store!StartedWrites, Store!IfActive
  <1>6. UNCHANGED <<run, await, deleted>> /\ Uncaptured' /\ Imported' /\ Leftover'
    BY <1>1, <1>2, <1>5, HandlerFrame
  <1>7. Store!TypeOK'
    <2>1. capture' \in Store!RowStates /\ partitions' \subseteq StoreParts
      BY <1>5, Types DEF StoreInv, Store!RowStates
    <2> QED
      BY <1>1, <1>2, <1>4, <1>5, <2>1, HandlerTypes, Types DEF StoreInv
  <1>8. Uploads'
    <2>1. \A j \in Calls : calls'[j].st = "insert" => calls'[j].n # Table
      BY <1>3, <1>4 DEF StoreInv, Uploads
    <2>2. \A j \in Calls : calls[j] # NoCall => calls'[j] # NoCall
      BY <1>4, NoCallFields, CallOrNone DEF StoreInv
    <2> QED
      BY <1>2, <1>6, <2>1, <2>2, OthersKeepUploads
  <1>9. Reports'
    BY <1>1, <1>4, <1>6, OthersKeepReports
  <1>10. Captured'
    <2>1. capture' = "done" => capture = "done" /\ UNCHANGED <<partitions, dir, synced, deleted>>
      BY <1>1, <1>3, <1>5, <1>6
    <2>2. capture' = "done" => SomeWhole'
      BY <2>1 DEF StoreInv, Captured, SomeWhole, Whole
    <2> QED
      BY <1>3, <1>4, <2>1, <2>2 DEF StoreInv, Captured
  <1> QED
    BY <1>6, <1>7, <1>8, <1>9, <1>10 DEF StoreInv

LEMMA StartedClearsKeeps ==
    ASSUME StoreInv, NEW i \in Calls, Store!StartedClears(i)
    PROVE  StoreInv'
  <1>1. /\ calls[i].kind = "started" /\ calls[i].st \in {"clear", "clear again"} /\ Store!HandlerUnchanged
        /\ UNCHANGED <<status, partitions, capture>>
        /\ dir' = Store!Empty /\ exists' = FALSE /\ synced' = {}
        /\ calls' = [Store!Tear(calls) EXCEPT ![i].st = IF @ = "clear" THEN "reset" ELSE "reset again"]
    BY DEF Store!StartedClears, Store!At, Store!RemoveDir
  <1>2. calls[i] # NoCall /\ calls[i] \in CallRecords /\ capture # "absent" /\ ~(run.phase = "store" /\ await = i)
    BY <1>1, Handled DEF Store!CallKinds
  <1>3. capture # "done"
    BY <1>1, AtWork
  <1> DEFINE t == Store!Tear(calls)
  <1>4. /\ t \in [Calls -> CallRecords \cup {NoCall}]
        /\ \A j \in Calls : /\ t[j].kind = calls[j].kind /\ t[j].n = calls[j].n
                            /\ t[j] = NoCall <=> calls[j] = NoCall
                            /\ t[j] = calls[j] \/ (calls[j].st = "writing" /\ t[j].st = "torn")
    BY TearStep DEF StoreInv
  <1>5. t[i] = calls[i] /\ calls' = [t EXCEPT ![i].st = IF @ = "clear" THEN "reset" ELSE "reset again"]
    BY <1>1, <1>4
  <1> HIDE DEF t
  <1>6. PICK to \in {"reset", "reset again"} : calls' = [t EXCEPT ![i].st = to]
    BY <1>5
  <1>7. /\ \A j \in Calls \ {i} : calls'[j] = t[j]
        /\ calls'[i] = [calls[i] EXCEPT !.st = to]
        /\ DOMAIN calls' = Calls /\ calls' = [j \in Calls |-> calls'[j]]
    <2>1. t \in [Calls -> CallRecords \cup {NoCall}] /\ t[i] = calls[i] /\ calls[i] \in CallRecords
      BY <1>2, <1>4, <1>5
    <2>2. calls' = [t EXCEPT ![i] = [t[i] EXCEPT !.st = to]]
      BY <1>6
    <2> QED
      BY <2>1, <2>2
  <1>8. calls'[i] \in CallRecords /\ calls'[i].st = to /\ calls'[i].kind = "started"
    BY <1>1, <1>2, <1>7 DEF CallRecords, Store!CallStates
  <1>9. /\ calls' \in [Calls -> CallRecords \cup {NoCall}]
        /\ \A j \in Calls : calls'[j].kind = calls[j].kind
        /\ \A j \in Calls : calls[j] # NoCall => calls'[j] # NoCall
    <2>1. \A j \in Calls : calls'[j] \in CallRecords \cup {NoCall}
      BY <1>4, <1>7, <1>8
    <2>2. calls' \in [Calls -> CallRecords \cup {NoCall}]
      BY <1>7, <2>1
    <2>3. calls'[i] # NoCall
      BY <1>8, NoCallFields
    <2>4. ASSUME NEW j \in Calls
          PROVE  calls'[j].kind = calls[j].kind /\ (calls[j] # NoCall => calls'[j] # NoCall)
      <3>1. CASE j = i
        BY <1>1, <1>8, <2>3, <3>1
      <3>2. CASE j # i
        <4>1. calls'[j] = t[j]
          BY <1>7, <3>2
        <4>2. t[j].kind = calls[j].kind /\ (t[j] = NoCall <=> calls[j] = NoCall)
          BY <1>4
        <4> QED
          BY <4>1, <4>2
      <3> QED
        BY <3>1, <3>2
    <2> QED
      BY <2>2, <2>4
  <1>10. UNCHANGED <<run, await>> /\ Uncaptured' /\ Imported' /\ Leftover'
    BY <1>1, <1>2, HandlerFrame
  <1>11. Store!TypeOK'
    <2>1. dir' \in [Names -> 0 .. StoreRuns + 1] /\ exists' \in BOOLEAN /\ synced' \subseteq Names
      BY <1>1, NamesAreNames
    <2> QED
      BY <1>1, <1>2, <1>9, <2>1, HandlerTypes, Types DEF StoreInv
  <1>12. Uploads'
    <2>1. \A j \in Calls : calls'[j].st = "insert" => calls'[j].n # Table
      <3> SUFFICES ASSUME NEW j \in Calls, calls'[j].st = "insert" PROVE calls'[j].n # Table
        OBVIOUS
      <3>1. j # i
        BY <1>8
      <3>2. calls'[j] = t[j] /\ t[j].n = calls[j].n /\ (t[j] = calls[j] \/ t[j].st = "torn")
        BY <1>4, <1>7, <3>1
      <3> QED
        BY <3>2 DEF StoreInv, Uploads
    <2> QED
      BY <1>2, <1>9, <1>10, <2>1, OthersKeepUploads
  <1>13. Reports'
    BY <1>1, <1>9, <1>10, OthersKeepReports
  <1>14. Captured'
    BY <1>1, <1>3 DEF Captured
  <1> QED
    BY <1>10, <1>11, <1>12, <1>13, <1>14 DEF StoreInv

\* Every step of an upload's handler, from what it does to the files, the
\* rows and its call.
LEMMA UploadStep ==
    ASSUME StoreInv, NEW i \in Calls, calls[i].kind = "store", Store!HandlerUnchanged,
           UNCHANGED <<status, capture>>, NEW to \in Store!CallStates, Store!To(i, to),
           capture = "done" => to \in {"ok", "rejected"} /\ UNCHANGED <<partitions, dir, synced>>,
           to = "insert" => calls[i].n # Table,
           partitions' \subseteq StoreParts, dir' \in [Names -> 0 .. StoreRuns + 1], exists' \in BOOLEAN,
           synced' \subseteq Names,
           run.phase = "store" /\ await = i /\ ~deleted =>
               /\ to \in {"renamed", "insert", "ok"} => dir'[calls[i].n] = run.no
               /\ to \in {"insert", "ok"} => calls[i].n \in synced'
               /\ to = "ok" /\ calls[i].n # Table => calls[i].n \in partitions'
               /\ \A n \in Names \ run.left :
                     dir'[n] = run.no /\ n \in synced' /\ (n # Table => n \in partitions')
    PROVE  StoreInv'
  <1>1. calls[i] # NoCall /\ capture # "absent"
    BY Handled DEF Store!CallKinds
  <1>2. /\ calls' \in [Calls -> CallRecords \cup {NoCall}]
        /\ calls'[i] \in CallRecords /\ calls'[i].st = to /\ calls'[i].kind = "store"
        /\ calls'[i].n = calls[i].n /\ calls'[i].run = calls[i].run
        /\ \A j \in Calls \ {i} : calls'[j] = calls[j]
        /\ \A j \in Calls : calls'[j].kind = calls[j].kind
    BY <1>1, CallStep DEF StoreInv
  <1>3. UNCHANGED <<run, await, deleted>> /\ Uncaptured' /\ Imported' /\ Leftover'
    BY <1>1, HandlerFrame
  <1>4. Store!TypeOK'
    BY <1>1, <1>2, HandlerTypes, Types DEF StoreInv
  <1>5. /\ \A j \in Calls : calls'[j].st = "insert" => calls'[j].n # Table
        /\ \A j \in Calls : calls[j] # NoCall => calls'[j] # NoCall
    BY <1>2, NoCallFields DEF StoreInv, Uploads
  <1>6. Uploads'
    <2>1. CASE ~(run.phase = "store" /\ await = i)
      BY <1>1, <1>3, <1>5, <2>1, OthersKeepUploads
    <2>2. CASE run.phase = "store" /\ await = i
      <3>1. /\ Upload(calls[i]) /\ run.no \in 1 .. StoreRuns
            /\ \A j \in Calls : j # i => calls[j] = NoCall
        BY <2>2, StoreAssumption DEF StoreInv, Uploads
      <3>2. Upload(calls[i])'
        BY <1>2, <1>3, <2>2, <3>1 DEF Upload
      <3>3. calls'[i] # NoCall
        BY <1>1, <1>5
      <3>4. \A j \in Calls : j # i => calls'[j] = NoCall
        BY <1>2, <3>1
      <3>5. ~deleted => \A n \in Names \ run.left :
                            dir'[n] = run.no /\ n \in synced' /\ (n # Table => n \in partitions')
        BY <2>2
      <3> QED
        BY <1>3, <1>5, <2>2, <3>1, <3>2, <3>3, <3>4, <3>5 DEF Uploads
    <2> QED
      BY <2>1, <2>2
  <1>7. Reports'
    BY <1>2, <1>3, OthersKeepReports
  <1>8. Captured'
    <2>1. capture = "done" => SomeWhole'
      BY <1>3 DEF StoreInv, Captured, SomeWhole, Whole
    <2> QED
      BY <1>2, <2>1 DEF StoreInv, Captured
  <1> QED
    BY <1>3, <1>4, <1>6, <1>7, <1>8 DEF StoreInv

\* What the run has while it waits for an upload.
LEMMA Awaited ==
    ASSUME StoreInv, NEW i \in Calls, run.phase = "store", await = i, ~deleted
    PROVE  /\ Upload(calls[i]) /\ calls[i].n \in run.left /\ calls[i].run = run.no /\ run.no \in 1 .. StoreRuns
           /\ \A n \in Names \ run.left : dir[n] = run.no /\ n \in synced /\ (n # Table => n \in partitions)
  BY StoreAssumption DEF StoreInv, Uploads, Upload

LEMMA UploadKeeps ==
    ASSUME StoreInv, NEW i \in Calls,
           \/ Store!StoreLooks(i) \/ Store!StoreOpens(i) \/ Store!StoreRenames(i) \/ Store!StoreSyncs(i)
           \/ Store!SavePartition(i)
    PROVE  StoreInv'
  <1>1. calls[i].kind = "store" /\ Store!HandlerUnchanged /\ UNCHANGED <<status, capture>>
    BY DEF Store!StoreLooks, Store!StoreOpens, Store!StoreRenames, Store!StoreSyncs, Store!SavePartition, Store!At
  <1>2. /\ partitions \subseteq StoreParts /\ dir \in [Names -> 0 .. StoreRuns + 1] /\ exists \in BOOLEAN
        /\ synced \subseteq Names /\ calls[i].n \in Names /\ calls[i].run \in 0 .. StoreRuns
    BY <1>1, Types, Handled DEF StoreInv, CallRecords, Store!CallKinds
  <1>3. CASE Store!StoreLooks(i)
    <2>1. PICK to \in {"open", "rejected"} : Store!To(i, to) /\ (to = "open" => capture = "running")
      BY <1>3 DEF Store!StoreLooks
    <2>2. to \in Store!CallStates
      BY DEF Store!CallStates
    <2>3. UNCHANGED <<partitions, dir, exists, synced>>
      BY <1>3 DEF Store!StoreLooks, Store!dirVars
    <2> QED
      BY <1>1, <1>2, <2>1, <2>2, <2>3, UploadStep, Awaited
  <1>4. CASE Store!StoreOpens(i)
    <2>1. Store!To(i, "writing") /\ calls[i].st = "open" /\ exists' = TRUE /\ UNCHANGED <<partitions, dir, synced>>
      BY <1>4 DEF Store!StoreOpens, Store!At
    <2>2. "writing" \in Store!CallStates
      BY DEF Store!CallStates
    <2>3. capture # "done"
      BY <1>1, <2>1, AtWork
    <2> QED
      BY <1>1, <1>2, <2>1, <2>2, <2>3, UploadStep, Awaited
  <1>5. CASE Store!StoreRenames(i) /\ calls[i].st = "writing"
    <2>1. /\ Store!To(i, "renamed") /\ dir' = [dir EXCEPT ![calls[i].n] = calls[i].run]
          /\ synced' = synced \ {calls[i].n} /\ UNCHANGED <<partitions, exists>>
      BY <1>5 DEF Store!StoreRenames, Store!At
    <2>2. "renamed" \in Store!CallStates
      BY DEF Store!CallStates
    <2>3. capture # "done"
      BY <1>1, <1>5, AtWork
    <2>4. dir' \in [Names -> 0 .. StoreRuns + 1] /\ synced' \subseteq Names
      BY <1>2, <2>1, StoreAssumption
    <2>5. run.phase = "store" /\ await = i /\ ~deleted =>
              /\ dir'[calls[i].n] = run.no
              /\ \A n \in Names \ run.left :
                    dir'[n] = run.no /\ n \in synced' /\ (n # Table => n \in partitions')
      BY <1>2, <2>1, Awaited
    <2> QED
      BY <1>1, <1>2, <2>1, <2>2, <2>3, <2>4, <2>5, UploadStep
  <1>6. CASE Store!StoreRenames(i) /\ calls[i].st = "torn"
    <2>1. Store!To(i, "rejected") /\ UNCHANGED <<partitions, exists, dir, synced>>
      BY <1>6 DEF Store!StoreRenames, Store!At
    <2>2. "rejected" \in Store!CallStates
      BY DEF Store!CallStates
    <2> QED
      BY <1>1, <1>2, <2>1, <2>2, UploadStep, Awaited
  <1>7. CASE Store!StoreSyncs(i)
    <2>1. PICK to \in {"rejected", "ok", "insert"} :
              Store!To(i, to) /\ (to = "ok" => calls[i].n = Table) /\ (to = "insert" => calls[i].n # Table)
      BY <1>7 DEF Store!StoreSyncs
    <2>2. /\ calls[i].st = "renamed" /\ synced' = {n \in Names : dir[n] # 0} /\ UNCHANGED <<partitions, dir, exists>>
      BY <1>7 DEF Store!StoreSyncs, Store!At, Names, Store!NoFile
    <2>3. to \in Store!CallStates
      BY DEF Store!CallStates
    <2>4. capture # "done"
      BY <1>1, <2>2, AtWork
    <2>5. run.phase = "store" /\ await = i /\ ~deleted =>
              /\ dir'[calls[i].n] = run.no /\ calls[i].n \in synced'
              /\ \A n \in Names \ run.left :
                    dir'[n] = run.no /\ n \in synced' /\ (n # Table => n \in partitions')
      BY <1>2, <2>2, Awaited DEF Upload
    <2> QED
      BY <1>1, <1>2, <2>1, <2>2, <2>3, <2>4, <2>5, UploadStep
  <1>8. CASE Store!SavePartition(i)
    <2>1. PICK to \in {"rejected", "ok"} : Store!To(i, to)
      BY <1>8 DEF Store!SavePartition
    <2>2. calls[i].st = "insert" /\ partitions' = partitions \cup {calls[i].n} /\ UNCHANGED <<dir, exists, synced>>
      BY <1>8 DEF Store!SavePartition, Store!At, Store!dirVars
    <2>3. to \in Store!CallStates
      BY DEF Store!CallStates
    <2>4. capture # "done"
      BY <1>1, <2>2, AtWork
    <2>5. calls[i].n # Table
      BY <2>2 DEF StoreInv, Uploads
    <2>6. partitions' \subseteq StoreParts
      BY <1>2, <2>2, <2>5 DEF Names, Store!Names
    <2>7. run.phase = "store" /\ await = i /\ ~deleted =>
              /\ dir'[calls[i].n] = run.no /\ calls[i].n \in synced' /\ calls[i].n \in partitions'
              /\ \A n \in Names \ run.left :
                    dir'[n] = run.no /\ n \in synced' /\ (n # Table => n \in partitions')
      BY <1>2, <2>2, Awaited DEF Upload
    <2> QED
      BY <1>1, <1>2, <2>1, <2>2, <2>3, <2>4, <2>6, <2>7, UploadStep
  <1> QED
    BY <1>3, <1>4, <1>5, <1>6, <1>7, <1>8 DEF Store!StoreRenames, Store!At

\* The steps of a report's handler, which touch no file.
LEMMA ReportStep ==
    ASSUME StoreInv, NEW i \in Calls, calls[i].kind \in {"finished", "failed"}, Store!HandlerUnchanged,
           UNCHANGED <<partitions, dir, exists, synced>>, status' \in {status, "faulted", "ready"},
           NEW to \in Store!CallStates, Store!To(i, to), to # "insert",
           capture' \in {capture, "failed", "done"},
           capture' = "done" => capture = "done" \/ calls[i].kind = "finished"
    PROVE  StoreInv'
  <1>1. calls[i] # NoCall /\ capture # "absent" /\ ~(run.phase = "store" /\ await = i)
    BY Handled DEF Store!CallKinds
  <1>2. /\ calls' \in [Calls -> CallRecords \cup {NoCall}]
        /\ calls'[i] \in CallRecords /\ calls'[i].st = to
        /\ \A j \in Calls \ {i} : calls'[j] = calls[j]
        /\ \A j \in Calls : calls'[j].kind = calls[j].kind
    BY <1>1, CallStep DEF StoreInv
  <1>3. UNCHANGED <<run, await, deleted>> /\ Uncaptured' /\ Imported' /\ Leftover'
    BY <1>1, HandlerFrame
  <1>4. Store!TypeOK'
    <2>1. capture' \in Store!RowStates /\ capture' # "absent"
      BY <1>1, Types DEF StoreInv, Store!RowStates
    <2> QED
      BY <1>1, <1>2, <2>1, HandlerTypes, Types DEF StoreInv
  <1>5. Uploads'
    <2>1. /\ \A j \in Calls : calls'[j].st = "insert" => calls'[j].n # Table
          /\ \A j \in Calls : calls[j] # NoCall => calls'[j] # NoCall
      BY <1>2, NoCallFields, CallOrNone DEF StoreInv, Uploads
    <2> QED
      BY <1>1, <1>3, <2>1, OthersKeepUploads
  <1>6. Reports' /\ (SomeWhole => SomeWhole')
    BY <1>2, <1>3, FilesKeepReports
  <1>7. Captured'
    <2>1. CASE calls[i].kind = "finished"
      <3>1. SomeWhole /\ \A j \in Calls : calls[j].kind \in {"finished", "none"}
        BY <2>1 DEF StoreInv, Reports
      <3> QED
        BY <1>2, <1>6, <3>1 DEF Captured
    <2>2. CASE calls[i].kind = "failed"
      BY <1>2, <1>6, <2>2 DEF StoreInv, Captured
    <2> QED
      BY <2>1, <2>2
  <1> QED
    BY <1>3, <1>4, <1>5, <1>6, <1>7 DEF StoreInv

LEMMA ReportKeeps ==
    ASSUME StoreInv, NEW i \in Calls,
           \/ Store!ReportLooks(i) \/ Store!FinishedLooks(i) \/ Store!ReportFaults(i) \/ Store!ReportFails(i)
           \/ Store!MarkReady(i) \/ Store!MarkDone(i)
    PROVE  StoreInv'
  <1>1. /\ calls[i].kind \in {"finished", "failed"} /\ Store!HandlerUnchanged
        /\ UNCHANGED <<partitions, dir, exists, synced>> /\ status' \in {status, "faulted", "ready"}
    BY DEF Store!ReportLooks, Store!FinishedLooks, Store!ReportFaults, Store!ReportFails, Store!MarkReady,
           Store!MarkDone, Store!At, Store!dirVars
  <1>2. /\ capture' \in {capture, "failed", "done"}
        /\ capture' = "done" => capture = "done" \/ calls[i].kind = "finished"
    BY DEF Store!ReportLooks, Store!FinishedLooks, Store!ReportFaults, Store!ReportFails, Store!MarkReady,
           Store!MarkDone, Store!At, Store!IfActive
  <1>3. \E to \in {"look", "fault", "ok", "rejected", "ready", "faulted", "readied"} : Store!To(i, to)
    BY DEF Store!ReportLooks, Store!FinishedLooks, Store!ReportFaults, Store!ReportFails, Store!MarkReady,
           Store!MarkDone
  <1>4. PICK to \in {"look", "fault", "ok", "rejected", "ready", "faulted", "readied"} : Store!To(i, to)
    BY <1>3
  <1>5. to \in Store!CallStates /\ to # "insert"
    BY DEF Store!CallStates
  <1> QED
    BY <1>1, <1>2, <1>4, <1>5, ReportStep

LEMMA AbandonedKeeps ==
    ASSUME StoreInv, NEW i \in Calls, Store!Abandoned(i)
    PROVE  StoreInv'
  <1>1. /\ await # i /\ calls[i] # NoCall /\ calls' = [calls EXCEPT ![i] = Store!NoCall]
        /\ UNCHANGED <<status, partitions, dir, exists, synced, capture>> /\ Store!HandlerUnchanged
    BY DEF Store!Abandoned, NoCall, Store!dirVars
  <1>2. /\ calls' \in [Calls -> CallRecords \cup {NoCall}] /\ calls'[i] = NoCall
        /\ \A j \in Calls \ {i} : calls'[j] = calls[j]
        /\ \A j \in Calls : calls'[j] \in {calls[j], NoCall}
    BY <1>1, CallGone
  <1>3. capture # "absent"
    BY <1>1, AgentHasCapture
  <1>4. UNCHANGED <<run, await, deleted>> /\ Uncaptured' /\ Imported' /\ Leftover'
    BY <1>1, <1>3, HandlerFrame
  <1>5. Store!TypeOK'
    BY <1>1, <1>2, <1>3, HandlerTypes, Types DEF StoreInv
  <1>6. Uploads'
    <2>1. \A j \in Calls : calls'[j].st = "insert" => calls'[j].n # Table
      BY <1>2, NoCallFields DEF StoreInv, Uploads
    <2>2. \A j \in Calls : j = await /\ calls[j] # NoCall => calls'[j] # NoCall
      BY <1>1, <1>2
    <2> QED
      BY <1>1, <1>4, <2>1, <2>2, OthersKeepUploads
  <1>7. \A j \in Calls : calls'[j].kind \in {calls[j].kind, "none"} /\ (calls'[j] = calls[j] \/ calls'[j].kind = "none")
    BY <1>2, NoCallFields
  <1>8. Reports' /\ (SomeWhole => SomeWhole')
    BY <1>1, <1>4, <1>7, FilesKeepReports
  <1>9. Captured'
    BY <1>1, <1>7, <1>8 DEF StoreInv, Captured
  <1> QED
    BY <1>4, <1>5, <1>6, <1>8, <1>9 DEF StoreInv

\* The server restarts: only the call the agent waits for is still there.
LEMMA RestartKeeps ==
    ASSUME StoreInv, Store!Restart
    PROVE  StoreInv'
  <1>1. /\ Store!Fault /\ status' = IF status = "importing" THEN "faulted" ELSE status
        /\ stage' = Store!NoStage /\ importer' = "idle" /\ del' = "idle" /\ ui' = {}
        /\ UNCHANGED <<deleted, partitions, dir, exists, synced, capture, deploy, run, await>>
    BY DEF Store!Restart, Store!dirVars, Store!taskVars, Store!agentVars
  <1>2. /\ \A j \in Calls : j # await => calls'[j] = NoCall
        /\ await \in Calls => /\ calls[await].st \in {"ok", "rejected"} => calls'[await] = calls[await]
                              /\ calls[await].st \notin {"ok", "rejected"} =>
                                     calls'[await] = [calls[await] EXCEPT !.st = "gone"]
        /\ calls' = [j \in Calls |-> calls'[j]]
    BY DEF Store!Restart, NoCall
  <1>3. await \in Calls \cup {Nobody} /\ (await \in Calls => await # Nobody)
    BY Types, StoreAssumption DEF StoreInv
  <1>4. await \in Calls => /\ calls[await] \in CallRecords /\ calls'[await] \in CallRecords
                           /\ calls'[await].kind = calls[await].kind
                           /\ calls'[await].n = calls[await].n /\ calls'[await].run = calls[await].run
                           /\ calls'[await].st \in {calls[await].st, "gone"}
    <2>1. await \in Calls => calls[await] \in CallRecords
      BY <1>3, Types DEF StoreInv, Uploads
    <2>2. \A c \in CallRecords : /\ [c EXCEPT !.st = "gone"] \in CallRecords
                                 /\ [c EXCEPT !.st = "gone"].kind = c.kind
                                 /\ [c EXCEPT !.st = "gone"].n = c.n
                                 /\ [c EXCEPT !.st = "gone"].run = c.run
                                 /\ [c EXCEPT !.st = "gone"].st = "gone"
      BY DEF CallRecords, Store!CallStates
    <2>3. CASE await \in Calls /\ calls[await].st \in {"ok", "rejected"}
      BY <1>2, <2>1, <2>3
    <2>4. CASE await \in Calls /\ calls[await].st \notin {"ok", "rejected"}
      <3>1. calls'[await] = [calls[await] EXCEPT !.st = "gone"]
        BY <1>2, <2>4
      <3> QED
        BY <2>1, <2>2, <2>4, <3>1
    <2> QED
      BY <2>3, <2>4
  <1>5. calls' \in [Calls -> CallRecords \cup {NoCall}]
    <2>1. \A j \in Calls : calls'[j] \in CallRecords \cup {NoCall}
      BY <1>2, <1>4
    <2> QED
      BY <1>2, <2>1
  <1>6. Store!TypeOK'
    <2>1. stage' \in [exists : BOOLEAN, names : SUBSET Names] /\ importer' \in Store!ImportStates
          /\ del' \in Store!DeleteStates /\ ui' \subseteq Store!UiOps /\ status' \in Store!Statuses
      BY <1>1, NamesAreNames, Types DEF StoreInv, Store!ImportStates, Store!DeleteStates, Store!Statuses
    <2>2. begun' \in 0 .. StoreRuns /\ asked' \in 0 .. StoreOps /\ faults' \in 0 .. StoreFaults
      BY <1>1, FaultTypes
    <2> QED
      BY <1>1, <1>5, <2>1, <2>2, Types, TypesKept DEF StoreInv
  <1>7. /\ Whole(StoreRuns + 1)' <=> Whole(StoreRuns + 1)
        /\ Whole(run.no)' <=> Whole(run.no)
        /\ SomeWhole => SomeWhole'
    BY <1>1 DEF Whole, SomeWhole
  <1>8. Uncaptured'
    <2>1. capture = "absent" => run = Store!NoRun /\ \A j \in Calls : calls'[j] = NoCall
      <3>1. capture = "absent" => await = Nobody /\ run = Store!NoRun
        BY UncapturedIsQuiet DEF StoreInv, Uncaptured
      <3> QED
        BY <1>2, <1>3, <3>1
    <2> QED
      BY <1>1, <2>1 DEF StoreInv, Uncaptured
  <1>9. Imported' /\ Leftover'
    <2>1. faults' # 0
      BY <1>1, Types DEF StoreInv, Store!Fault
    <2>2. ~stage'.exists
      BY <1>1, NamesAreNames
    <2> QED
      BY <1>1, <1>7, <2>1, <2>2 DEF StoreInv, Imported, Leftover
  <1>10. \A j \in Calls : /\ calls'[j].kind \in {calls[j].kind, "none"}
                          /\ calls'[j].kind # "none" => calls'[j].n = calls[j].n /\ calls'[j].st \in {calls[j].st, "gone"}
    BY <1>2, <1>4, NoCallFields
  <1>11. Uploads'
    <2>1. \A j \in Calls : calls'[j].st = "insert" => calls'[j].n # Table
      <3>1. \A j \in Calls : calls'[j].kind = "none" => calls'[j].st = "free"
        BY <1>2, <1>4, NoCallFields DEF CallRecords, Store!CallKinds
      <3> QED
        BY <1>10, <3>1 DEF StoreInv, Uploads
    <2>2. await # Nobody => calls'[await] # NoCall /\ run.phase # "idle"
      BY <1>3, <1>4, NoCallFields DEF StoreInv, Uploads, CallRecords, Store!CallKinds
    <2>3. run.phase = "store" /\ await # Nobody => Upload(calls[await])'
      <3>1. run.phase = "store" /\ await # Nobody => Upload(calls[await])
        BY DEF StoreInv, Uploads
      <3> QED
        BY <1>1, <1>3, <1>4, <3>1 DEF Upload
    <2> QED
      BY <1>1, <1>2, <2>1, <2>2, <2>3 DEF StoreInv, Uploads
  <1>12. Reports'
    BY <1>1, <1>10, FilesKeepReports
  <1>13. Captured'
    BY <1>1, <1>7, <1>10 DEF StoreInv, Captured
  <1> QED
    BY <1>6, <1>8, <1>9, <1>11, <1>12, <1>13 DEF StoreInv

-----------------------------------------------------------------------------
LEMMA StoreKeeps == StoreInv /\ Store!Next => StoreInv'
  BY ImportKeeps, UiKeeps, AgentKeeps, StartedKeeps, StartedClearsKeeps, UploadKeeps, ReportKeeps,
     AbandonedKeeps, RestartKeeps
     DEF Store!Next, Store!HandlerNext

LEMMA StoreStutters == StoreInv /\ UNCHANGED storeVars => StoreInv'
  <1> SUFFICES ASSUME StoreInv, UNCHANGED storeVars PROVE StoreInv'
    OBVIOUS
  <1>1. UNCHANGED <<status, deleted, partitions, dir, exists, synced, stage, importer, capture, deploy, del,
                    ui, run, await, calls, begun, asked, faults>>
    BY DEF storeVars
  <1>2. Store!TypeOK'
    BY <1>1, Types, TypesKept DEF StoreInv
  <1>3. Uncaptured' /\ Imported' /\ Leftover'
    BY <1>1 DEF StoreInv, Uncaptured, Imported, Leftover, Whole
  <1>4. Uploads' /\ Reports' /\ Captured'
    BY <1>1, FilesFrame
  <1> QED
    BY <1>2, <1>3, <1>4 DEF StoreInv

\* The invariant says what the properties do.
LEMMA StoreMeans ==
    ASSUME StoreInv
    PROVE  Store!TypeOK /\ Store!ReadyIsWhole /\ Store!ImportingIsUnderWay /\ Store!NoLeftovers
  <1>1. Store!ReadyIsWhole
    <2> SUFFICES ASSUME status = "ready", ~deleted, capture \in {"absent", "done"}
                 PROVE  /\ partitions = StoreParts /\ synced = Names
                        /\ \E r \in 1 .. StoreRuns + 1 : \A n \in Names : dir[n] = r
      BY DEF Store!ReadyIsWhole, Names
    <2>1. CASE capture = "absent"
      <3>1. Whole(StoreRuns + 1)
        BY <2>1 DEF StoreInv, Imported
      <3>2. StoreRuns + 1 \in 1 .. StoreRuns + 1
        BY StoreAssumption
      <3> QED
        BY <3>1, <3>2 DEF Whole
    <2>2. CASE capture = "done"
      <3>1. PICK r \in 1 .. StoreRuns : Whole(r)
        BY <2>2 DEF StoreInv, Captured, SomeWhole
      <3>2. r \in 1 .. StoreRuns + 1
        BY StoreAssumption
      <3> QED
        BY <3>1, <3>2 DEF Whole
    <2> QED
      BY <2>1, <2>2
  <1>2. Store!ImportingIsUnderWay
    BY DEF StoreInv, Imported, Store!ImportingIsUnderWay
  <1>3. Store!NoLeftovers
    BY DEF StoreInv, Imported, Leftover, Store!NoLeftovers
  <1> QED
    BY <1>1, <1>2, <1>3 DEF StoreInv

LEMMA StoreIsSafe == Spec => [](part = "store" => StoreInv)
  <1>1. Init => (part = "store" => StoreInv)
    BY StoreStarts DEF Init
  <1>2. (part = "store" => StoreInv) /\ [Next]_vars => (part = "store" => StoreInv)'
    BY StoreKeeps, StoreStutters DEF Next, vars
  <1> QED
    BY <1>1, <1>2, PTL DEF Spec

(* ImagesAreWhole: for any number of partitions, of calls being handled,   *)
(* of runs of the agent, requests and faults, a ready image whose capture  *)
(* or import is over has all its rows and files, of one run and fsynced    *)
(* (api/agent/src/tasks.rs, service/image.rs, service/archive.rs).         *)
THEOREM ImagesAreWhole == Spec => []ReadyIsWhole
  <1>1. (part = "store" => StoreInv) => ReadyIsWhole
    BY StoreMeans DEF ReadyIsWhole
  <1> QED
    BY <1>1, StoreIsSafe, PTL

(* ImportsComeToAnEnd: for the same instances no image is left importing   *)
(* without its import, and a rejected or deleted import leaves no files    *)
(* (service/archive.rs import and start, api/ui/src/images.rs).            *)
THEOREM ImportsComeToAnEnd == Spec => []ImportsEnd
  <1>1. (part = "store" => StoreInv) => ImportsEnd
    BY StoreMeans DEF ImportsEnd
  <1> QED
    BY <1>1, StoreIsSafe, PTL

-----------------------------------------------------------------------------
(***************************************************************************)
(* The addresses of multicasts.  The invariant only says what is in the    *)
(* air; the rest is the arithmetic of groups and ports.                    *)
(***************************************************************************)
(* What is in the air is a file of a task, and tasks send known slots.     *)
Held == /\ sending \in [Tasks -> Slots \cup {Casts!NoSlot}]
        /\ held \subseteq [task : Tasks, slot : Slots]

(* The ports of a slot in range are its own two, below the sentinel.       *)
LEMMA PortsInRange ==
    ASSUME NEW s \in Int, Casts!InRange(s)
    PROVE  Casts!Port(s) = 50000 + 2 * s /\ Casts!Ports(s) = {50000 + 2 * s, 50001 + 2 * s}
<1>1. s \in 0 .. 7766
  BY DEF Casts!InRange, Casts!MAX_MULTICAST_SLOT
<1>2. Casts!Port(s) = 50000 + 2 * s
  <2>1. Casts!Port(s) = 50000 + (s % 65536) * 2
    BY <1>1 DEF Casts!Port, Casts!MAX_MULTICAST_SLOT, Casts!MULTICAST_PORT_BASE, Casts!U16Max
  <2>2. (s % 65536) * 2 = 2 * s
    BY <1>1
  <2> QED BY <2>1, <2>2
<1>3. Casts!Port(s) # Casts!U16Max
  BY <1>1, <1>2 DEF Casts!U16Max
<1> QED BY <1>1, <1>2, <1>3 DEF Casts!Ports

(* A slot out of range has the sentinel and nothing else.                  *)
LEMMA PortsOutOfRange ==
    ASSUME NEW s \in Int, ~Casts!InRange(s)
    PROVE  Casts!Ports(s) = {65535}
BY DEF Casts!InRange, Casts!Port, Casts!Ports, Casts!U16Max

LEMMA InInterval ==
    ASSUME NEW x \in Int, NEW a \in Int, NEW b \in Int, a <= x, x <= b PROVE x \in a .. b
OBVIOUS

(* The two ports of a slot in range are dynamic ports.                     *)
LEMMA PairIsDynamic ==
    ASSUME NEW s \in Int, 0 <= s, s <= 7766, NEW x, x = 50000 + 2 * s \/ x = 50001 + 2 * s
    PROVE  x \in Casts!MULTICAST_PORT_BASE .. Casts!U16Max
<1>1. Casts!MULTICAST_PORT_BASE \in Int /\ Casts!U16Max \in Int
  BY DEF Casts!MULTICAST_PORT_BASE, Casts!U16Max
<1>2. x \in Int /\ Casts!MULTICAST_PORT_BASE <= x /\ x <= Casts!U16Max
  BY DEF Casts!MULTICAST_PORT_BASE, Casts!U16Max
<1> QED BY <1>1, <1>2, InInterval

(* Whatever the slot, its ports are dynamic ports of 16 bits.              *)
LEMMA PortsAreDynamic ==
    ASSUME NEW s \in Int
    PROVE  Casts!Ports(s) \subseteq Casts!MULTICAST_PORT_BASE .. Casts!U16Max
<1>1. CASE Casts!InRange(s)
  <2>1. 0 <= s /\ s <= 7766
    BY <1>1 DEF Casts!InRange, Casts!MAX_MULTICAST_SLOT
  <2>2. \A x \in Casts!Ports(s) : x = 50000 + 2 * s \/ x = 50001 + 2 * s
    BY <1>1, PortsInRange
  <2> QED BY <2>1, <2>2, PairIsDynamic
<1>2. CASE ~Casts!InRange(s)
  BY <1>2, PortsOutOfRange DEF Casts!MULTICAST_PORT_BASE, Casts!U16Max
<1> QED BY <1>1, <1>2

(* Two slots of which one is in range have no port in common.              *)
LEMMA PortsApart ==
    ASSUME NEW s \in Int, NEW r \in Int, s # r, Casts!InRange(s)
    PROVE  Casts!Ports(s) \cap Casts!Ports(r) = {}
<1>1. s \in 0 .. 7766
  BY DEF Casts!InRange, Casts!MAX_MULTICAST_SLOT
<1>2. CASE Casts!InRange(r)
  <2>1. r \in 0 .. 7766
    BY <1>2 DEF Casts!InRange, Casts!MAX_MULTICAST_SLOT
  <2>2. /\ 50000 + 2 * s # 50000 + 2 * r /\ 50000 + 2 * s # 50001 + 2 * r
        /\ 50001 + 2 * s # 50000 + 2 * r /\ 50001 + 2 * s # 50001 + 2 * r
    BY <1>1, <2>1
  <2> QED BY <1>2, <2>2, PortsInRange
<1>3. CASE ~Casts!InRange(r)
  <2>1. 50000 + 2 * s # 65535 /\ 50001 + 2 * s # 65535
    BY <1>1
  <2> QED BY <1>3, <2>1, PortsInRange, PortsOutOfRange
<1> QED BY <1>2, <1>3

(* Tasks that are close have groups of their own.                          *)
LEMMA GroupsApart ==
    ASSUME NEW t \in Tasks, NEW u \in Tasks, t # u
    PROVE  Casts!Group(t) # Casts!Group(u)
<1>1. t \in Nat /\ u \in Nat /\ t - u < 262144 /\ u - t < 262144
  BY PortsAssumption DEF Casts!TasksAreClose, Casts!GROUPS_IN_SCOPE
<1>2. t % 262144 # u % 262144
  BY <1>1
<1> QED BY <1>2 DEF Casts!Group, Casts!GROUPS_IN_SCOPE

(* What is in the air stays a file of a task.                              *)
LEMMA HeldInv == Spec => [](part = "ports" => Held)
<1>1. Init => (part = "ports" => Held)
  BY DEF Init, Casts!Init, Held
<1>2. (part = "ports" => Held) /\ [Next]_vars => (part = "ports" => Held)'
  <2> SUFFICES ASSUME part = "ports" => Held, [Next]_vars, part' = "ports" PROVE Held'
    OBVIOUS
  <2>0. part = "ports" /\ Held /\ (Casts!Next \/ UNCHANGED <<sending, held>>)
    BY DEF Next, vars, portVars
  <2>1. ASSUME NEW t \in Tasks, NEW s \in Slots, Casts!Send(t, s) PROVE Held'
    BY <2>0, <2>1 DEF Casts!Send, Held
  <2>2. ASSUME NEW x \in held, Casts!LetGo(x) PROVE Held'
    BY <2>0, <2>2 DEF Casts!LetGo, Held
  <2>3. CASE UNCHANGED <<sending, held>>
    BY <2>0, <2>3 DEF Held
  <2> QED BY <2>0, <2>1, <2>2, <2>3 DEF Casts!Next
<1> QED BY <1>1, <1>2, PTL DEF Spec

(* FilesKeepApart: no two files in the air share a group and a port        *)
(* (get_multicast_port, multicast_group), whichever tasks less than the    *)
(* number of groups apart run together and however many partitions their   *)
(* images have.                                                            *)
THEOREM FilesKeepApart == Spec => []TrafficSeparate
<1>1. Held => Casts!TrafficSeparate
  <2> SUFFICES ASSUME Held, NEW x \in held, NEW y \in held
               PROVE  /\ Casts!Ports(x.slot) \subseteq Casts!MULTICAST_PORT_BASE .. Casts!U16Max
                      /\ x # y /\ (Casts!InRange(x.slot) \/ Casts!InRange(y.slot)) =>
                            Casts!Group(x.task) # Casts!Group(y.task) \/ Casts!Ports(x.slot) \cap Casts!Ports(y.slot) = {}
    BY DEF Casts!TrafficSeparate
  <2>1. /\ x.task \in Tasks /\ y.task \in Tasks
        /\ x.slot \in Int /\ y.slot \in Int
        /\ x = [task |-> x.task, slot |-> x.slot] /\ y = [task |-> y.task, slot |-> y.slot]
    BY PortsAssumption DEF Held, Casts!SlotsAreNumbers
  <2>2. Casts!Ports(x.slot) \subseteq Casts!MULTICAST_PORT_BASE .. Casts!U16Max
    BY <2>1, PortsAreDynamic
  <2>3. ASSUME x # y, Casts!InRange(x.slot) \/ Casts!InRange(y.slot)
        PROVE  Casts!Group(x.task) # Casts!Group(y.task) \/ Casts!Ports(x.slot) \cap Casts!Ports(y.slot) = {}
    <3>1. CASE x.task # y.task
      BY <2>1, <3>1, GroupsApart
    <3>2. CASE x.task = y.task
      <4>1. x.slot # y.slot
        BY <2>1, <2>3, <3>2
      <4>2. Casts!Ports(x.slot) \cap Casts!Ports(y.slot) = {} \/ Casts!Ports(y.slot) \cap Casts!Ports(x.slot) = {}
        BY <2>1, <2>3, <4>1, PortsApart
      <4> QED BY <4>2
    <3> QED BY <3>1, <3>2
  <2> QED BY <2>2, <2>3
<1>2. (part = "ports" => Held) => TrafficSeparate
  BY <1>1 DEF TrafficSeparate
<1> QED BY <1>2, HeldInv, PTL

-----------------------------------------------------------------------------
(***************************************************************************)
(* The disks of a machine.                                                 *)
(***************************************************************************)
\* Where a task has not chosen a disk, or needs it no more; where a restore
\* prepares it; where it writes partitions.
Unchosen == {"idle", "capture", "restore", "failed"}
Preparing == {"fits", "zap", "load", "probe", "find"}
Writing == {"write", "writing", "written"}

\* Devices, images and the task are records of the right form.
Formed ==
    /\ attached \subseteq DOMAIN Devices
    /\ disks = [d \in DOMAIN Devices |-> disks[d]]
    /\ \A d \in DOMAIN Devices :
          IsDevice(disks[d]) /\ Numbered(disks[d].table) /\ Numbered(disks[d].known)
    /\ IsImage(image) /\ Numbered(image.table) /\ IsSequence(image.parts)
    /\ job = [pc |-> job.pc, task |-> job.task, shape |-> job.shape, partuuid |-> job.partuuid,
              disk |-> job.disk, targets |-> job.targets, index |-> job.index]

\* The disk that was chosen is a candidate, the agent does not run from it,
\* and other candidates were plugged in since.
Candidate(d) == Imaging!IsImagingCandidate(disks[d])
Sole(d) == /\ d \in attached /\ Candidate(d) /\ ~disks[d].root
           /\ \A e \in attached \ {d} : Candidate(e) => e \in PluggableDevices
Chosen == job.pc \notin Unchosen => Sole(job.disk)

\* The restore of a partition leaves the table alone, and has one target, the
\* partition it was asked for.
Asked(n) ==
    /\ n \in DOMAIN disks[job.disk].known.entries
    /\ Imaging!SameId(disks[job.disk].known.entries[n].partuuid, job.partuuid)
Aimed ==
    job.shape = "partition" =>
        /\ job.pc \notin Preparing
        /\ job.pc \in Writing =>
              /\ DOMAIN job.targets = 1 .. 1 /\ Len(job.targets) = 1 /\ job.index \in Nat \ {0}
              /\ Asked(job.targets[1].dev)
        /\ job.pc \in {"writing", "written"} => job.index = 1

DisksInv == Formed /\ Chosen /\ Aimed

(* LeastPartition: Min picks the least number of a set.                    *)
LEMMA LeastPartition ==
    ASSUME NEW T, T \subseteq Nat, T # {}
    PROVE  Imaging!Min(T) \in T
<1> DEFINE R == OpToRel(<, Nat)
<1>1. IsWellFoundedOn(R, Nat) BY NatLessThanWellFounded
<1>2. \A x, y \in Nat : y < x => <<y, x>> \in R BY DEF OpToRel
<1> HIDE DEF R
<1>3. PICK x \in T : \A y \in T : ~(<<y, x>> \in R) BY <1>1, WFMin
<1>4. ASSUME NEW y \in T PROVE x <= y
  <2>1. x \in Nat /\ y \in Nat /\ ~(y < x) BY <1>2, <1>3
  <2> QED BY <2>1
<1> QED BY <1>4 DEF Imaging!Min

\* The instance has a Cardinality of its own.
LEMMA SameCardinality == ASSUME NEW S PROVE Imaging!Cardinality(S) = Cardinality(S)
BY DEF Imaging!Cardinality, Cardinality

(* TargetIsSole: find_target_disk answers with the only candidate.         *)
LEMMA TargetIsSole ==
    ASSUME Formed, Imaging!FindTargetDisk # Imaging!None
    PROVE  Sole(Imaging!FindTargetDisk)
<1> DEFINE T == {d \in attached : Imaging!IsImagingCandidate(disks[d])}
<1>0. Imaging!FindTargetDisk =
         IF Imaging!Cardinality(T) # 1 \/ Imaging!ContainsRoot(disks[CHOOSE d \in T : TRUE])
         THEN Imaging!None ELSE CHOOSE d \in T : TRUE
  BY DEF Imaging!FindTargetDisk
<1>1. Cardinality(T) = 1 /\ ~Imaging!ContainsRoot(disks[CHOOSE d \in T : TRUE])
      /\ Imaging!FindTargetDisk = CHOOSE d \in T : TRUE
  <2> HIDE DEF T
  <2>1. Imaging!Cardinality(T) = Cardinality(T)
    BY SameCardinality
  <2>2. CASE Imaging!Cardinality(T) # 1 \/ Imaging!ContainsRoot(disks[CHOOSE d \in T : TRUE])
    BY <1>0, <2>2
  <2>3. CASE ~(Imaging!Cardinality(T) # 1 \/ Imaging!ContainsRoot(disks[CHOOSE d \in T : TRUE]))
    BY <1>0, <2>1, <2>3
  <2> QED BY <2>2, <2>3
<1>2. IsFiniteSet(T)
  <2>1. T \in SUBSET DOMAIN Devices BY DEF Formed
  <2> QED BY <2>1, FS_Subset, DevicesAssumption
<1>3. PICK x : T = {x}
  <2> HIDE DEF T
  <2> QED BY <1>1, <1>2, FS_Singleton
<1>4. Imaging!FindTargetDisk = x /\ ~disks[x].root
  <2> HIDE DEF T
  <2> QED BY <1>1, <1>3 DEF Imaging!ContainsRoot
<1>5. x \in attached /\ Candidate(x) /\ \A e \in attached : Candidate(e) => e = x
  BY <1>3 DEF Candidate
<1> QED BY <1>4, <1>5 DEF Sole

(* PartitionIsAsked: BlockDevice::partition finds one that was asked for.  *)
LEMMA PartitionIsAsked ==
    ASSUME Formed, job.disk \in DOMAIN Devices,
           Imaging!Partition(Imaging!Disk, job.partuuid) # 0
    PROVE  Asked(Imaging!Partition(Imaging!Disk, job.partuuid))
<1> DEFINE b == disks[job.disk]
           T == {n \in DOMAIN b.known.entries : Imaging!SameId(b.known.entries[n].partuuid, job.partuuid)}
<1>1. T # {} /\ Imaging!Partition(Imaging!Disk, job.partuuid) = Imaging!Min(T)
  BY DEF Imaging!Partition, Imaging!Disk, Imaging!Numbers
<1>2. T \subseteq Nat BY DEF Formed, Numbered
<1>3. Imaging!Min(T) \in T
  <2> HIDE DEF T
  <2> QED BY <1>1, <1>2, LeastPartition
<1> QED BY <1>1, <1>3, Zenon DEF Asked

-----------------------------------------------------------------------------
\* A disk after a tool or a write: its partitions are still numbered, and what
\* makes it a candidate is as before.
Altered(b, c) ==
    /\ IsDevice(c) /\ Numbered(c.table) /\ Numbered(c.known)
    /\ c.type = b.type /\ c.ro = b.ro /\ c.hotplug = b.hotplug /\ c.removable = b.removable
    /\ c.transport = b.transport /\ c.root = b.root

\* Only the chosen disk changes, if any.
Changes == \E c : Altered(disks[job.disk], c) /\ disks' = [disks EXCEPT ![job.disk] = c]

\* A disk that changes stays a candidate, with numbered partitions.
LEMMA ChangesKeep ==
    ASSUME DisksInv, Sole(job.disk), Changes \/ disks' = disks,
           UNCHANGED <<attached, image>>
    PROVE  /\ attached' \subseteq DOMAIN Devices
           /\ disks' = [d \in DOMAIN Devices |-> disks'[d]]
           /\ \A d \in DOMAIN Devices :
                 IsDevice(disks'[d]) /\ Numbered(disks'[d].table) /\ Numbered(disks'[d].known)
           /\ IsImage(image') /\ Numbered(image'.table) /\ IsSequence(image'.parts)
           /\ job'.disk = job.disk => Sole(job.disk)'
<1>1. job.disk \in DOMAIN Devices BY DEF DisksInv, Formed, Sole
<1>2. \A d \in DOMAIN Devices :
         /\ IsDevice(disks'[d]) /\ Numbered(disks'[d].table) /\ Numbered(disks'[d].known)
         /\ (Candidate(d)' <=> Candidate(d)) /\ disks'[d].root = disks[d].root
  BY <1>1 DEF DisksInv, Formed, Changes, Altered, Candidate, Imaging!IsImagingCandidate
<1>3. disks' = [d \in DOMAIN Devices |-> disks'[d]]
  BY <1>1 DEF DisksInv, Formed, Changes
<1> QED BY <1>1, <1>2, <1>3 DEF DisksInv, Formed, Sole

\* Only a partition of the chosen disk is written.
Writes(n) ==
    \E k : /\ disks' = [disks EXCEPT ![job.disk].content = k]
           /\ \A o \in DOMAIN disks[job.disk].content :
                 k[o] # disks[job.disk].content[o] =>
                    o \in Imaging!Sectors(disks[job.disk].known.entries[n])

\* A device without its contents is what the rest of it is.
LEMMA HollowDevice ==
    ASSUME NEW b, IsDevice(b)
    PROVE  [b EXCEPT !.content = 0] =
          [type |-> b.type, ro |-> b.ro, hotplug |-> b.hotplug, removable |-> b.removable,
           transport |-> b.transport, root |-> b.root, sector |-> b.sector, sectors |-> b.sectors,
           boot |-> b.boot, header |-> b.header, table |-> b.table, known |-> b.known,
           content |-> 0]
BY DEF IsDevice

\* A device that differs in what its partitions hold.
Filled(r, k) == [r EXCEPT !.content = k]
LEMMA FilledDevice ==
    ASSUME NEW r, IsDevice(r), NEW k
    PROVE  /\ IsDevice(Filled(r, k)) /\ Filled(r, k).content = k
           /\ Numbered(r.table) /\ Numbered(r.known) => Altered(r, Filled(r, k))
           /\ Filled(r, k).known = r.known
           /\ [Filled(r, k) EXCEPT !.content = 0] = [r EXCEPT !.content = 0]
<1> DEFINE b == Filled(r, k)
<1>1. b = [type |-> r.type, ro |-> r.ro, hotplug |-> r.hotplug, removable |-> r.removable,
           transport |-> r.transport, root |-> r.root, sector |-> r.sector, sectors |-> r.sectors,
           boot |-> r.boot, header |-> r.header, table |-> r.table, known |-> r.known,
           content |-> k]
  BY DEF IsDevice, Filled
<1> HIDE DEF b
<1>2. [r EXCEPT !.content = 0] =
          [type |-> r.type, ro |-> r.ro, hotplug |-> r.hotplug, removable |-> r.removable,
           transport |-> r.transport, root |-> r.root, sector |-> r.sector, sectors |-> r.sectors,
           boot |-> r.boot, header |-> r.header, table |-> r.table, known |-> r.known,
           content |-> 0]
  BY HollowDevice
<1>3. /\ IsDevice(b) /\ b.content = k /\ b.table = r.table /\ b.known = r.known
      /\ b.type = r.type /\ b.ro = r.ro /\ b.hotplug = r.hotplug /\ b.removable = r.removable
      /\ b.transport = r.transport /\ b.root = r.root
      /\ b.sector = r.sector /\ b.sectors = r.sectors /\ b.boot = r.boot /\ b.header = r.header
  BY <1>1 DEF IsDevice
<1>4. [b EXCEPT !.content = 0] =
          [type |-> b.type, ro |-> b.ro, hotplug |-> b.hotplug, removable |-> b.removable,
           transport |-> b.transport, root |-> b.root, sector |-> b.sector, sectors |-> b.sectors,
           boot |-> b.boot, header |-> b.header, table |-> b.table, known |-> b.known,
           content |-> 0]
  BY <1>3, HollowDevice
<1>5. [b EXCEPT !.content = 0] = [r EXCEPT !.content = 0]
  BY <1>2, <1>3, <1>4
<1> QED BY <1>3, <1>5 DEF b, Altered

(* WritesChange: writing a partition leaves the rest of its disk alone.    *)
LEMMA WritesChange ==
    ASSUME DisksInv, Sole(job.disk), NEW n, Writes(n)
    PROVE  /\ Changes
           /\ \A d \in DOMAIN Devices :
                 [disks'[d] EXCEPT !.content = 0] = [disks[d] EXCEPT !.content = 0]
           /\ \A d \in DOMAIN Devices : disks'[d].known = disks[d].known
           /\ \A d \in DOMAIN Devices : \A m \in DOMAIN disks[d].content :
                 disks'[d].content[m] # disks[d].content[m] =>
                    d = job.disk /\ m \in Imaging!Sectors(disks[job.disk].known.entries[n])
<1>1. PICK k : /\ disks' = [disks EXCEPT ![job.disk].content = k]
               /\ \A o \in DOMAIN disks[job.disk].content :
                     k[o] # disks[job.disk].content[o] =>
                        o \in Imaging!Sectors(disks[job.disk].known.entries[n])
  BY DEF Writes
<1> DEFINE b == [disks[job.disk] EXCEPT !.content = k]
<1>2. job.disk \in DOMAIN Devices BY DEF DisksInv, Formed, Sole
<1>3. disks' = [disks EXCEPT ![job.disk] = b] BY <1>1
<1>5. Altered(disks[job.disk], b) /\ b.content = k /\ b.known = disks[job.disk].known
      /\ [b EXCEPT !.content = 0] = [disks[job.disk] EXCEPT !.content = 0]
  <2>1. IsDevice(disks[job.disk]) /\ Numbered(disks[job.disk].table) /\ Numbered(disks[job.disk].known)
    BY <1>2 DEF DisksInv, Formed
  <2>2. b = Filled(disks[job.disk], k) BY DEF Filled
  <2> HIDE DEF b
  <2> QED BY <2>1, <2>2, FilledDevice
<1>6. disks'[job.disk] = b /\ \A d \in DOMAIN Devices : d # job.disk => disks'[d] = disks[d]
  <2> HIDE DEF b
  <2> QED BY <1>2, <1>3 DEF DisksInv, Formed
<1>7. Changes
  <2> HIDE DEF b
  <2> QED BY <1>3, <1>5 DEF Changes
<1> HIDE DEF b
<1> QED BY <1>1, <1>5, <1>6, <1>7

(* StepKeeps: a step of a task that has its disk, and changes only that    *)
(* disk, or the partition it was asked for.                                *)
LEMMA StepKeeps ==
    ASSUME DisksInv, Sole(job.disk), UNCHANGED <<attached, image>>,
           \/ disks' = disks
           \/ job.shape # "partition" /\ Changes
           \/ \E n : Writes(n) /\ (job.shape = "partition" => Asked(n)),
           NEW pcs, NEW targets, NEW index,
           job' = [job EXCEPT !.pc = pcs, !.targets = targets, !.index = index],
           job.shape = "partition" =>
              /\ pcs \notin Preparing
              /\ pcs \in Writing => /\ DOMAIN targets = 1 .. 1 /\ Len(targets) = 1 /\ index \in Nat \ {0}
                                    /\ Asked(targets[1].dev)
              /\ pcs \in {"writing", "written"} => index = 1
    PROVE  DisksInv' /\ Imaging!Touches
<1>1. /\ job'.pc = pcs /\ job'.shape = job.shape /\ job'.partuuid = job.partuuid
      /\ job'.disk = job.disk /\ job'.targets = targets /\ job'.index = index
      /\ job' = [pc |-> job'.pc, task |-> job'.task, shape |-> job'.shape, partuuid |-> job'.partuuid,
                 disk |-> job'.disk, targets |-> job'.targets, index |-> job'.index]
  BY DEF DisksInv, Formed
<1>2. Changes \/ disks' = disks BY WritesChange
<1>3. Formed' /\ Chosen'
  BY <1>1, <1>2, ChangesKeep DEF DisksInv, Formed, Chosen
<1>4. job.disk \in DOMAIN Devices BY DEF DisksInv, Formed, Sole
<1>5. job.shape = "partition" => \A n : Asked(n) => Asked(n)'
  <2>1. CASE disks' = disks BY <2>1, <1>1 DEF Asked, Imaging!SameId
  <2>2. ASSUME NEW n, Writes(n) PROVE disks'[job.disk].known = disks[job.disk].known
    BY <2>2, <1>4, WritesChange
  <2>3. CASE \E n : Writes(n) BY <2>2, <2>3, <1>1 DEF Asked, Imaging!SameId
  <2> QED BY <2>1, <2>3
<1>6. Aimed'
  <2> SUFFICES ASSUME job.shape = "partition" PROVE Aimed'
    BY <1>1 DEF Aimed
  <2> QED BY <1>1, <1>5 DEF Aimed
<1>7. Imaging!Touches
  <2> SUFFICES ASSUME NEW d \in DOMAIN disks, disks'[d] # disks[d]
               PROVE  /\ d \in attached /\ Imaging!IsImagingCandidate(disks[d]) /\ ~disks[d].root
                      /\ \A e \in attached \ {d} : Imaging!IsImagingCandidate(disks[e]) => e \in PluggableDevices
                      /\ job.shape = "partition" =>
                            /\ [disks'[d] EXCEPT !.content = 0] = [disks[d] EXCEPT !.content = 0]
                            /\ \A o \in DOMAIN disks[d].content :
                                  disks'[d].content[o] # disks[d].content[o] =>
                                     \E n \in Imaging!Numbers(disks[d].known) :
                                        /\ o \in Imaging!Sectors(disks[d].known.entries[n])
                                        /\ Imaging!SameId(disks[d].known.entries[n].partuuid, job.partuuid)
    BY DEF Imaging!Touches
  <2>1. d \in DOMAIN Devices BY DEF DisksInv, Formed
  <2>2. d = job.disk
    BY <1>2, <2>1 DEF DisksInv, Formed, Changes
  <2>3. /\ d \in attached /\ Imaging!IsImagingCandidate(disks[d]) /\ ~disks[d].root
        /\ \A e \in attached \ {d} : Imaging!IsImagingCandidate(disks[e]) => e \in PluggableDevices
    BY <2>2 DEF Sole, Candidate
  <2>4. ASSUME job.shape = "partition"
        PROVE  /\ [disks'[d] EXCEPT !.content = 0] = [disks[d] EXCEPT !.content = 0]
               /\ \A o \in DOMAIN disks[d].content :
                     disks'[d].content[o] # disks[d].content[o] =>
                        \E n \in Imaging!Numbers(disks[d].known) :
                           /\ o \in Imaging!Sectors(disks[d].known.entries[n])
                           /\ Imaging!SameId(disks[d].known.entries[n].partuuid, job.partuuid)
    <3>1. PICK n : Writes(n) /\ Asked(n) BY <2>4
    <3> QED BY <3>1, <2>1, <2>2, WritesChange DEF Asked, Imaging!Numbers
  <2> QED BY <2>3, <2>4
<1> QED BY <1>3, <1>6, <1>7 DEF DisksInv

-----------------------------------------------------------------------------
\* A sequence with one more element.
LEMMA ListedLonger == ASSUME NEW s, IsSequence(s), NEW e PROVE IsSequence(Append(s, e))
<1> DEFINE S == {s[k] : k \in DOMAIN s}
           T == S \cup {e}
<1>1. s \in Seq(S) BY DEF IsSequence
<1>2. s \in Seq(T)
  <2> HIDE DEF S
  <2> QED BY <1>1
<1>3. /\ Append(s, e) \in Seq(T) /\ DOMAIN Append(s, e) = 1 .. Len(s) + 1
      /\ Append(s, e)[Len(s) + 1] = e /\ \A k \in 1 .. Len(s) : Append(s, e)[k] = s[k]
      /\ Len(s) \in Nat /\ DOMAIN s = 1 .. Len(s)
  <2> HIDE DEF T
  <2>1. e \in T BY DEF T
  <2> QED BY <1>2, <2>1
<1>4. T \subseteq {Append(s, e)[k] : k \in DOMAIN Append(s, e)}
  <2> SUFFICES ASSUME NEW x \in T PROVE \E k \in DOMAIN Append(s, e) : x = Append(s, e)[k]
    OBVIOUS
  <2> QED BY <1>3
<1> HIDE DEF T
<1> QED BY <1>3, <1>4 DEF IsSequence

\* A step that leaves the disks alone.
LEMMA DisksKept ==
    ASSUME DisksInv, UNCHANGED <<attached, disks>>,
           IsImage(image') /\ Numbered(image'.table) /\ IsSequence(image'.parts),
           job' = [pc |-> job'.pc, task |-> job'.task, shape |-> job'.shape, partuuid |-> job'.partuuid,
                   disk |-> job'.disk, targets |-> job'.targets, index |-> job'.index],
           job'.pc \notin Unchosen => Sole(job'.disk),
           job'.shape = "partition" => job'.pc \notin Preparing \cup Writing
    PROVE  DisksInv' /\ Imaging!Touches
<1>1. Formed' BY DEF DisksInv, Formed
<1>2. Chosen'
  BY DEF Chosen, Sole, Candidate
<1>3. Aimed'
  BY DEF Aimed, Preparing, Writing
<1>4. Imaging!Touches BY DEF Imaging!Touches
<1> QED BY <1>1, <1>2, <1>3, <1>4 DEF DisksInv

-----------------------------------------------------------------------------
\* A task that does not have its disk yet changes nothing.
LEMMA StartKeeps ==
    ASSUME DisksInv, NEW t, NEW shape, NEW p, Imaging!StartTask(t, shape, p)
    PROVE  DisksInv' /\ Imaging!Touches
<1>1. IsImage(image') /\ Numbered(image'.table) /\ IsSequence(image'.parts)
  <2>1. image' = image \/ image' \in ImportedImages BY DEF Imaging!StartTask
  <2>2. CASE image' = image BY <2>2 DEF DisksInv, Formed, IsSequence
  <2>3. CASE image' \in ImportedImages BY <2>3, DevicesAssumption DEF IsSequence
  <2> QED BY <2>1, <2>2, <2>3
<1>2. /\ job' = [pc |-> t, task |-> t, shape |-> shape, partuuid |-> p,
                 disk |-> Imaging!None, targets |-> <<>>, index |-> 0]
      /\ t \in {"capture", "restore"} /\ UNCHANGED <<attached, disks>>
  BY DEF Imaging!StartTask, Imaging!Idle
<1> QED BY <1>1, <1>2, DisksKept DEF Unchosen, Preparing, Writing

\* What a capture does; its disk is only read.
LEMMA CaptureKeeps ==
    ASSUME DisksInv,
           \/ Imaging!CapturePrepare \/ Imaging!CaptureTable \/ Imaging!CapturePlan
           \/ \E result : Imaging!CaptureUpload(result)
           \/ \E root : Imaging!CaptureReport(root)
    PROVE  DisksInv' /\ Imaging!Touches
<1> USE DEF Unchosen, Preparing, Writing, Imaging!At, Imaging!Go, Imaging!Fails
<1>1. job = [pc |-> job.pc, task |-> job.task, shape |-> job.shape, partuuid |-> job.partuuid,
             disk |-> job.disk, targets |-> job.targets, index |-> job.index]
      /\ IsImage(image) /\ Numbered(image.table) /\ IsSequence(image.parts)
  BY DEF DisksInv, Formed
<1>2. CASE Imaging!CapturePrepare
  <2>1. UNCHANGED <<attached, disks>> BY <1>2 DEF Imaging!CapturePrepare
  <2>2. CASE Imaging!FindTargetDisk = Imaging!None
    <3>1. job' = [job EXCEPT !.pc = "failed"] /\ image' = image
      BY <1>2, <2>2 DEF Imaging!CapturePrepare
    <3> QED BY <1>1, <2>1, <3>1, DisksKept DEF IsSequence
  <2>3. CASE Imaging!FindTargetDisk # Imaging!None
    <3>1. /\ job' = [job EXCEPT !.pc = "table", !.disk = Imaging!FindTargetDisk]
          /\ image' = [Imaging!NoImage EXCEPT !.kind = job.shape,
                                              !.sector = disks[Imaging!FindTargetDisk].sector]
      BY <1>2, <2>3 DEF Imaging!CapturePrepare
    <3>2. IsImage(image') /\ Numbered(image'.table) /\ IsSequence(image'.parts)
      <4>1. /\ image'.table = Imaging!NoTable /\ image'.parts = <<>>
            /\ image' = [ready |-> FALSE, kind |-> job.shape, sector |-> disks[Imaging!FindTargetDisk].sector,
                         table |-> Imaging!NoTable, parts |-> <<>>, root |-> 0]
        BY <3>1 DEF Imaging!NoImage
      <4>2. IsImage(image') BY <4>1 DEF IsImage
      <4>3. Numbered(image'.table) BY <4>1 DEF Numbered, Imaging!NoTable
      <4>4. IsSequence(image'.parts) BY <4>1 DEF IsSequence
      <4> QED BY <4>2, <4>3, <4>4
    <3>3. Sole(Imaging!FindTargetDisk) BY <2>3, TargetIsSole DEF DisksInv
    <3> QED BY <1>1, <2>1, <3>1, <3>2, <3>3, DisksKept
  <2> QED BY <2>2, <2>3
<1>3. CASE Imaging!CaptureTable
  <2>1. /\ UNCHANGED <<attached, disks>> /\ job.pc = "table"
        /\ job' = [job EXCEPT !.pc = "select"] \/ job' = [job EXCEPT !.pc = "failed"]
        /\ image' = image \/ image' = [image EXCEPT !.table = disks[job.disk].table]
    BY <1>3 DEF Imaging!CaptureTable, Imaging!Disk
  <2>2. Sole(job.disk) BY <2>1 DEF DisksInv, Chosen
  <2>3. IsImage(image') /\ Numbered(image'.table) /\ IsSequence(image'.parts)
    <3>1. Numbered(disks[job.disk].table) BY <2>2 DEF DisksInv, Formed, Sole
    <3>2. CASE image' = image BY <1>1, <3>2 DEF IsSequence
    <3>3. CASE image' = [image EXCEPT !.table = disks[job.disk].table]
      BY <1>1, <3>1, <3>3 DEF IsImage, IsSequence
    <3> QED BY <2>1, <3>2, <3>3
  <2> QED BY <1>1, <2>1, <2>2, <2>3, DisksKept
<1>4. CASE Imaging!CapturePlan
  <2>1. /\ UNCHANGED <<attached, disks, image>> /\ job.pc = "select"
        /\ \/ \E targets : job' = [job EXCEPT !.pc = "upload", !.index = 1, !.targets = targets]
           \/ job' = [job EXCEPT !.pc = "failed"]
    BY <1>4 DEF Imaging!CapturePlan
  <2>2. Sole(job.disk) BY <2>1 DEF DisksInv, Chosen
  <2> QED BY <1>1, <2>1, <2>2, DisksKept DEF IsSequence
<1>5. ASSUME NEW result, Imaging!CaptureUpload(result) PROVE DisksInv' /\ Imaging!Touches
  <2>1. /\ UNCHANGED <<attached, disks>> /\ job.pc = "upload"
        /\ \/ \E p : /\ job' = [job EXCEPT !.index = @ + 1]
                     /\ image' = [image EXCEPT !.parts = Append(@, p)]
           \/ job' = [job EXCEPT !.pc = "failed"] /\ image' = image
    BY <1>5 DEF Imaging!CaptureUpload
  <2>2. Sole(job.disk) BY <2>1 DEF DisksInv, Chosen
  <2>3. ASSUME NEW p, image' = [image EXCEPT !.parts = Append(@, p)]
        PROVE  IsImage(image') /\ Numbered(image'.table) /\ IsSequence(image'.parts)
    <3>1. IsImage(image') /\ image'.table = image.table /\ image'.parts = Append(image.parts, p)
      BY <1>1, <2>3 DEF IsImage
    <3> QED BY <1>1, <3>1, ListedLonger
  <2>4. IsImage(image') /\ Numbered(image'.table) /\ IsSequence(image'.parts)
    <3>1. CASE image' = image BY <1>1, <3>1 DEF IsSequence
    <3> QED BY <2>1, <2>3, <3>1
  <2>5. /\ job' = [pc |-> job'.pc, task |-> job'.task, shape |-> job'.shape, partuuid |-> job'.partuuid,
                   disk |-> job'.disk, targets |-> job'.targets, index |-> job'.index]
        /\ job'.disk = job.disk /\ job'.pc \in {"upload", "failed"}
    BY <1>1, <2>1
  <2>6. Sole(job'.disk) BY <2>2, <2>5
  <2> QED BY <2>1, <2>4, <2>5, <2>6, DisksKept
<1>6. ASSUME NEW root, Imaging!CaptureReport(root) PROVE DisksInv' /\ Imaging!Touches
  <2>1. /\ UNCHANGED <<attached, disks>> /\ job.pc = "upload"
        /\ job' = [job EXCEPT !.pc = "done"]
        /\ \E r : image' = [image EXCEPT !.root = root, !.ready = r]
    BY <1>6 DEF Imaging!CaptureReport
  <2>2. Sole(job.disk) BY <2>1 DEF DisksInv, Chosen
  <2>3. IsImage(image') /\ Numbered(image'.table) /\ IsSequence(image'.parts)
    <3>1. IsImage(image') /\ image'.table = image.table /\ image'.parts = image.parts
      BY <1>1, <2>1 DEF IsImage
    <3> QED BY <1>1, <3>1 DEF IsSequence
  <2> QED BY <1>1, <2>1, <2>2, <2>3, DisksKept
<1> QED BY <1>2, <1>3, <1>4, <1>5, <1>6

-----------------------------------------------------------------------------
\* What a restore does before it writes.
LEMMA PrepareKeeps ==
    ASSUME DisksInv, Imaging!RestorePrepare \/ Imaging!RestoreFits \/ Imaging!FindAgain
    PROVE  DisksInv' /\ Imaging!Touches
<1> USE DEF Unchosen, Imaging!At, Imaging!Go, Imaging!Fails
<1>1. job = [pc |-> job.pc, task |-> job.task, shape |-> job.shape, partuuid |-> job.partuuid,
             disk |-> job.disk, targets |-> job.targets, index |-> job.index]
      /\ IsImage(image) /\ Numbered(image.table) /\ IsSequence(image.parts)
  BY DEF DisksInv, Formed
<1>2. CASE Imaging!RestorePrepare \/ Imaging!FindAgain
  <2>1. /\ UNCHANGED <<attached, disks, image>>
        /\ \/ job' = [job EXCEPT !.pc = "failed"]
           \/ /\ Imaging!FindTargetDisk # Imaging!None
              /\ \E p \in {"fits", "plan"} :
                    /\ job' = [job EXCEPT !.pc = p, !.disk = Imaging!FindTargetDisk]
                    /\ p = "fits" => job.shape = "disk"
    BY <1>1, <1>2 DEF Imaging!RestorePrepare, Imaging!FindAgain
  <2>2. CASE job' = [job EXCEPT !.pc = "failed"]
    BY <1>1, <2>1, <2>2, DisksKept DEF IsSequence, Preparing, Writing
  <2>3. ASSUME NEW p \in {"fits", "plan"}, Imaging!FindTargetDisk # Imaging!None,
               job' = [job EXCEPT !.pc = p, !.disk = Imaging!FindTargetDisk],
               p = "fits" => job.shape = "disk"
        PROVE  DisksInv' /\ Imaging!Touches
    <3>1. Sole(Imaging!FindTargetDisk) BY <2>3, TargetIsSole DEF DisksInv
    <3>2. /\ job' = [pc |-> job'.pc, task |-> job'.task, shape |-> job'.shape, partuuid |-> job'.partuuid,
                     disk |-> job'.disk, targets |-> job'.targets, index |-> job'.index]
          /\ job'.disk = Imaging!FindTargetDisk /\ job'.pc = p /\ job'.shape = job.shape
      BY <1>1, <2>3
    <3>3. job'.shape = "partition" => job'.pc \notin Preparing \cup Writing
      BY <2>3, <3>2 DEF Preparing, Writing
    <3>4. IsImage(image') /\ Numbered(image'.table) /\ IsSequence(image'.parts)
      BY <1>1, <2>1 DEF IsSequence
    <3> QED BY <2>1, <3>1, <3>2, <3>3, <3>4, DisksKept
  <2> QED BY <2>1, <2>2, <2>3
<1>3. CASE Imaging!RestoreFits
  <2>1. /\ UNCHANGED <<attached, disks, image>> /\ job.pc = "fits"
        /\ \E p \in {"zap", "failed"} : job' = [job EXCEPT !.pc = p]
    BY <1>3 DEF Imaging!RestoreFits
  <2>2. Sole(job.disk) /\ job.shape # "partition"
    BY <2>1 DEF DisksInv, Chosen, Aimed, Preparing
  <2> QED BY <1>1, <2>1, <2>2, DisksKept DEF IsSequence
<1> QED BY <1>2, <1>3

\* sgdisk and partprobe, on the one disk; a partition's restore calls neither.
LEMMA ToolKeeps ==
    ASSUME DisksInv, NEW p, NEW q, NEW c, Imaging!Tool(p, q, c),
           p \in {"zap", "load", "probe"}, Altered(disks[job.disk], c)
    PROVE  DisksInv' /\ Imaging!Touches
<1>1. /\ job.pc = p /\ UNCHANGED <<attached, image>>
      /\ disks' = disks \/ disks' = [disks EXCEPT ![job.disk] = c]
      /\ \E r \in {q, "failed"} : job' = [job EXCEPT !.pc = r]
  BY DEF Imaging!Tool, Imaging!At, Imaging!Go, Imaging!Fails
<1>2. Sole(job.disk) /\ job.shape # "partition"
  BY <1>1 DEF DisksInv, Chosen, Aimed, Unchosen, Preparing
<1>3. disks' = disks \/ Changes BY <1>1 DEF Changes
<1>4. PICK r : job' = [job EXCEPT !.pc = r] BY <1>1
<1>5. job' = [job EXCEPT !.pc = r, !.targets = job.targets, !.index = job.index]
  BY <1>4 DEF DisksInv, Formed
<1> QED BY <1>1, <1>2, <1>3, <1>5, StepKeeps

\* A device whose label, tables and contents are others.
Rebuilt(b, boot, header, tab, kn, content) ==
    [type |-> b.type, ro |-> b.ro, hotplug |-> b.hotplug, removable |-> b.removable,
     transport |-> b.transport, root |-> b.root, sector |-> b.sector, sectors |-> b.sectors,
     boot |-> boot, header |-> header, table |-> tab, known |-> kn, content |-> content]
LEMMA RebuiltAlters ==
    ASSUME NEW b, NEW boot, NEW header, NEW tab, NEW kn, NEW content, Numbered(tab), Numbered(kn)
    PROVE  Altered(b, Rebuilt(b, boot, header, tab, kn, content))
BY DEF Altered, Rebuilt, IsDevice

\* What the kernel reads is numbered like the table.
LEMMA RereadAlters ==
    ASSUME NEW b, IsDevice(b), Numbered(b.table)
    PROVE  Altered(b, Imaging!Reread(b))
<1>1. Imaging!Reread(b) = Rebuilt(b, b.boot, b.header, b.table, b.table, b.content)
  BY DEF Imaging!Reread, IsDevice, Rebuilt
<1> QED BY <1>1, RebuiltAlters

\* sgdisk --zap-all, sgdisk --load-backup and partprobe.
LEMMA ToolsKeep ==
    ASSUME DisksInv, Imaging!Zap \/ Imaging!Load \/ Imaging!Probe
    PROVE  DisksInv' /\ Imaging!Touches
<1> DEFINE b == disks[job.disk]
<1>1. job.pc \in {"zap", "load", "probe"}
  BY DEF Imaging!Zap, Imaging!Load, Imaging!Probe, Imaging!Tool, Imaging!At
<1>2. Sole(job.disk) BY <1>1 DEF DisksInv, Chosen, Unchosen
<1>3. IsDevice(b) /\ Numbered(b.table) /\ Numbered(b.known) /\ Numbered(image.table)
  BY <1>2 DEF DisksInv, Formed, Sole
<1>4. CASE Imaging!Zap
  <2>1. PICK c : c = [b EXCEPT !.boot = "none", !.header = FALSE, !.table = Imaging!NoTable] OBVIOUS
  <2>2. Numbered(Imaging!NoTable) BY DEF Numbered, Imaging!NoTable
  <2>3. Altered(b, c) BY <1>3, <2>1, <2>2 DEF Altered, IsDevice
  <2>4. Imaging!Tool("zap", "load", c) BY <1>4, <2>1 DEF Imaging!Zap, Imaging!Disk
  <2> QED BY <2>3, <2>4, ToolKeeps
<1>5. CASE Imaging!Load
  <2>1. PICK c : c = [b EXCEPT !.boot = "protective", !.header = TRUE, !.table = image.table]
    OBVIOUS
  <2>2. Imaging!Tool("load", "probe", c) BY <1>5, <2>1 DEF Imaging!Load, Imaging!Disk
  <2>3. Altered(b, c) BY <1>3, <2>1 DEF Altered, IsDevice
  <2> QED BY <2>2, <2>3, ToolKeeps
<1>6. CASE Imaging!Probe
  <2>1. Altered(b, Imaging!Reread(b))
    <3> HIDE DEF b
    <3> QED BY <1>3, RereadAlters
  <2>2. Imaging!Tool("probe", "find", Imaging!Reread(b)) BY <1>6 DEF Imaging!Probe, Imaging!Disk
  <2> QED BY <2>1, <2>2, ToolKeeps
<1> QED BY <1>4, <1>5, <1>6

\* Where the partitions of the image go.
LEMMA PlanKeeps ==
    ASSUME DisksInv, Imaging!RestorePlan
    PROVE  DisksInv' /\ Imaging!Touches
<1>1. /\ job.pc = "plan" /\ UNCHANGED <<attached, disks, image>>
  BY DEF Imaging!RestorePlan, Imaging!At
<1>2. Sole(job.disk) BY <1>1 DEF DisksInv, Chosen, Unchosen
<1>3. CASE job' = [job EXCEPT !.pc = "failed"]
  <2>1. job' = [job EXCEPT !.pc = "failed", !.targets = job.targets, !.index = job.index]
    BY <1>3 DEF DisksInv, Formed
  <2> QED BY <1>1, <1>2, <2>1, StepKeeps DEF Preparing, Writing
<1>4. CASE job' # [job EXCEPT !.pc = "failed"]
  <2> DEFINE where(i) == IF job.shape = "disk" THEN Imaging!DiskPlan[i]
                         ELSE Imaging!Partition(Imaging!Disk, job.partuuid)
             targets == [i \in DOMAIN image.parts |->
                            Imaging!Target(image.parts[i].number, where(i), image.parts[i].fs,
                                           Imaging!Size(Imaging!Disk, where(i)), image.parts[i])]
  <2>1. job' = [job EXCEPT !.pc = "write", !.index = 1, !.targets = targets]
        /\ (job.shape # "disk" => Imaging!PartitionPlanned)
    BY <1>4 DEF Imaging!RestorePlan, Imaging!Fails, Imaging!Go
  <2>2. ASSUME job.shape = "partition"
        PROVE  DOMAIN targets = 1 .. 1 /\ Len(targets) = 1 /\ Asked(targets[1].dev)
    <3>1. Len(image.parts) = 1 /\ Imaging!Partition(Imaging!Disk, job.partuuid) # 0
      BY <2>1, <2>2 DEF Imaging!PartitionPlanned
    <3>2. DOMAIN image.parts = 1 .. 1
      BY <3>1 DEF DisksInv, Formed, IsSequence
    <3>3. targets[1].dev = Imaging!Partition(Imaging!Disk, job.partuuid)
      BY <2>2, <3>2 DEF Imaging!Target
    <3>4. job.disk \in DOMAIN Devices BY <1>2 DEF DisksInv, Formed, Sole
    <3>5. Asked(Imaging!Partition(Imaging!Disk, job.partuuid))
      BY <3>1, <3>4, PartitionIsAsked DEF DisksInv
    <3>6. DOMAIN targets = 1 .. 1 /\ targets = [i \in 1 .. 1 |-> targets[i]]
      BY <3>2
    <3>7. Len(targets) = 1
      <4> HIDE DEF targets
      <4> QED BY <3>6
    <3> QED BY <3>3, <3>5, <3>6, <3>7
  <2> HIDE DEF targets
  <2>3. job' = [job EXCEPT !.pc = "write", !.targets = targets, !.index = 1]
    BY <2>1 DEF DisksInv, Formed
  <2>4. job.shape = "partition" =>
           /\ "write" \notin Preparing
           /\ "write" \in Writing => /\ DOMAIN targets = 1 .. 1 /\ Len(targets) = 1 /\ 1 \in Nat \ {0}
                                     /\ Asked(targets[1].dev)
           /\ "write" \in {"writing", "written"} => 1 = 1
    BY <2>2 DEF Preparing, Writing
  <2> QED BY <1>1, <1>2, <2>3, <2>4, StepKeeps
<1> QED BY <1>3, <1>4

-----------------------------------------------------------------------------
\* A step that writes the partition whose turn it is, if any.
LEMMA PutKeeps ==
    ASSUME DisksInv, job.pc \in Writing,
           job.pc = "write" => job.index <= Len(job.targets),
           UNCHANGED <<attached, image>>,
           disks' = disks \/ \E c : Imaging!Put(c),
           \/ \E p \in {"writing", "written", "failed"} : job' = [job EXCEPT !.pc = p]
           \/ job' = [job EXCEPT !.pc = "write", !.index = @ + 1]
    PROVE  DisksInv' /\ Imaging!Touches
<1> DEFINE n == job.targets[job.index].dev
<1>1. Sole(job.disk) BY DEF DisksInv, Chosen, Unchosen, Writing
<1>2. job.shape = "partition" =>
         /\ DOMAIN job.targets = 1 .. 1 /\ Len(job.targets) = 1 /\ job.index = 1 /\ Asked(job.targets[1].dev)
  <2> SUFFICES ASSUME job.shape = "partition"
               PROVE  /\ DOMAIN job.targets = 1 .. 1 /\ Len(job.targets) = 1 /\ job.index = 1
                      /\ Asked(job.targets[1].dev)
    OBVIOUS
  <2>1. /\ DOMAIN job.targets = 1 .. 1 /\ Len(job.targets) = 1 /\ job.index \in Nat \ {0}
        /\ Asked(job.targets[1].dev)
        /\ job.pc \in {"writing", "written"} => job.index = 1
    BY DEF DisksInv, Aimed
  <2>2. job.pc = "write" => job.index = 1 BY <2>1
  <2> QED BY <2>1, <2>2 DEF Writing
<1>3. disks' = disks \/ (Writes(n) /\ (job.shape = "partition" => Asked(n)))
  <2>1. ASSUME NEW c, Imaging!Put(c) PROVE Writes(n)
    <3> DEFINE e == disks[job.disk].known.entries[n]
               lying == disks[job.disk].content
    <3>1. PICK lost \in SUBSET ((Imaging!Sectors(e) \ {e.first}) \cap DOMAIN lying) :
             disks' = [disks EXCEPT ![job.disk].content =
                         [o \in DOMAIN @ |-> IF o = e.first THEN c
                                             ELSE IF o \in lost THEN Imaging!Torn ELSE @[o]]]
      BY <2>1, Zenon DEF Imaging!Put, Imaging!Current, Imaging!Disk
    <3> DEFINE k == [o \in DOMAIN lying |-> IF o = e.first THEN c
                                            ELSE IF o \in lost THEN Imaging!Torn ELSE lying[o]]
    <3>2. disks' = [disks EXCEPT ![job.disk].content = k] BY <3>1
    <3>3. e.first \in Imaging!Sectors(e) BY DEF Imaging!Sectors
    <3>4. \A o \in DOMAIN lying : k[o] # lying[o] => o \in Imaging!Sectors(e)
      <4> HIDE DEF e, lying
      <4> QED BY <3>3
    <3> HIDE DEF k
    <3> QED BY <3>2, <3>4 DEF Writes
  <2> QED BY <1>2, <2>1
<1> HIDE DEF n
<1>4. PICK p, i :
         /\ job' = [job EXCEPT !.pc = p, !.targets = job.targets, !.index = i]
         /\ \/ p \in {"writing", "written", "failed"} /\ i = job.index
            \/ p = "write" /\ i = job.index + 1
  <2>1. ASSUME NEW p \in {"writing", "written", "failed"}, job' = [job EXCEPT !.pc = p]
        PROVE  job' = [job EXCEPT !.pc = p, !.targets = job.targets, !.index = job.index]
    BY <2>1 DEF DisksInv, Formed
  <2>2. ASSUME job' = [job EXCEPT !.pc = "write", !.index = @ + 1]
        PROVE  job' = [job EXCEPT !.pc = "write", !.targets = job.targets, !.index = job.index + 1]
    BY <2>2 DEF DisksInv, Formed
  <2> QED BY <2>1, <2>2
<1>5. job.shape = "partition" =>
         /\ p \notin Preparing
         /\ p \in Writing => /\ DOMAIN job.targets = 1 .. 1 /\ Len(job.targets) = 1 /\ i \in Nat \ {0}
                             /\ Asked(job.targets[1].dev)
         /\ p \in {"writing", "written"} => i = 1
  BY <1>2, <1>4 DEF Preparing
<1> QED BY <1>1, <1>3, <1>4, <1>5, StepKeeps

\* Filesystems are written and grown, one after the other.
LEMMA WritingKeeps ==
    ASSUME DisksInv,
           \/ Imaging!WriteBegins \/ Imaging!WriteEnds \/ Imaging!GrowNot \/ Imaging!GrowExt
           \/ Imaging!GrowBtrfs \/ Imaging!RestoreDone
    PROVE  DisksInv' /\ Imaging!Touches
<1> USE DEF Imaging!At, Imaging!Go, Imaging!Fails
<1>1. CASE Imaging!WriteBegins
  <2>1. /\ job.pc = "write" /\ job.index <= Len(job.targets)
        /\ UNCHANGED <<attached, image>>
        /\ disks' = disks \/ \E c : Imaging!Put(c)
        /\ \E p \in {"writing", "written", "failed"} : job' = [job EXCEPT !.pc = p]
    BY <1>1 DEF Imaging!WriteBegins
  <2> QED BY <2>1, PutKeeps DEF Writing
<1>2. CASE Imaging!WriteEnds
  <2>1. /\ job.pc = "writing" /\ UNCHANGED <<attached, image>>
        /\ disks' = disks \/ \E c : Imaging!Put(c)
        /\ \E p \in {"writing", "written", "failed"} : job' = [job EXCEPT !.pc = p]
    BY <1>2 DEF Imaging!WriteEnds
  <2> QED BY <2>1, PutKeeps DEF Writing
<1>3. CASE Imaging!GrowNot \/ Imaging!GrowExt \/ Imaging!GrowBtrfs
  <2>1. /\ job.pc = "written" /\ UNCHANGED <<attached, image>>
        /\ disks' = disks \/ \E c : Imaging!Put(c)
        /\ \/ job' = [job EXCEPT !.pc = "failed"]
           \/ job' = [job EXCEPT !.pc = "write", !.index = @ + 1]
    BY <1>3 DEF Imaging!GrowNot, Imaging!GrowExt, Imaging!GrowBtrfs, Imaging!Effect, Imaging!Ends,
                Imaging!NextPartition
  <2> QED BY <2>1, PutKeeps DEF Writing
<1>4. CASE Imaging!RestoreDone
  <2>1. job.pc = "write" /\ UNCHANGED <<attached, disks, image>> /\ job' = [job EXCEPT !.pc = "done"]
    BY <1>4 DEF Imaging!RestoreDone
  <2>2. Sole(job.disk) BY <2>1 DEF DisksInv, Chosen, Unchosen
  <2>3. IsImage(image') /\ Numbered(image'.table) /\ IsSequence(image'.parts)
    BY <2>1 DEF DisksInv, Formed, IsSequence
  <2>4. /\ job' = [pc |-> job'.pc, task |-> job'.task, shape |-> job'.shape, partuuid |-> job'.partuuid,
                   disk |-> job'.disk, targets |-> job'.targets, index |-> job'.index]
        /\ job'.disk = job.disk /\ job'.pc = "done"
    BY <2>1 DEF DisksInv, Formed
  <2> QED BY <2>1, <2>2, <2>3, <2>4, DisksKept DEF Preparing, Writing
<1> QED BY <1>1, <1>2, <1>3, <1>4

-----------------------------------------------------------------------------
\* The end of a task, a crash, and a device that is plugged in.
LEMMA EndKeeps ==
    ASSUME DisksInv,
           Imaging!Reported \/ Imaging!Crash \/ \E d \in PluggableDevices : Imaging!PlugIn(d)
    PROVE  DisksInv' /\ Imaging!Touches
<1>1. /\ Imaging!Idle = [pc |-> Imaging!Idle.pc, task |-> Imaging!Idle.task, shape |-> Imaging!Idle.shape,
                         partuuid |-> Imaging!Idle.partuuid, disk |-> Imaging!Idle.disk,
                         targets |-> Imaging!Idle.targets, index |-> Imaging!Idle.index]
      /\ Imaging!Idle.pc = "idle" /\ Imaging!Idle.shape = "none"
  BY DEF Imaging!Idle, Imaging!None
<1>2. CASE Imaging!Reported
  <2>1. job' = Imaging!Idle /\ UNCHANGED <<attached, disks, image>> BY <1>2 DEF Imaging!Reported
  <2>2. IsImage(image') /\ Numbered(image'.table) /\ IsSequence(image'.parts)
    BY <2>1 DEF DisksInv, Formed, IsSequence
  <2> QED BY <1>1, <2>1, <2>2, DisksKept DEF Unchosen, Preparing, Writing
<1>3. CASE Imaging!Crash
  <2>1. /\ job' = Imaging!Idle /\ UNCHANGED <<attached, image>>
        /\ disks' = [d \in DOMAIN disks |-> Imaging!Reread(disks[d])]
    BY <1>3 DEF Imaging!Crash
  <2>2. DOMAIN disks = DOMAIN Devices BY DEF DisksInv, Formed
  <2>3. ASSUME NEW d \in DOMAIN Devices
        PROVE  IsDevice(disks'[d]) /\ Numbered(disks'[d].table) /\ Numbered(disks'[d].known)
    <3>1. IsDevice(disks[d]) /\ Numbered(disks[d].table) BY DEF DisksInv, Formed
    <3>2. disks'[d] = Imaging!Reread(disks[d]) BY <2>1, <2>2
    <3>3. Altered(disks[d], disks'[d]) BY <3>1, <3>2, RereadAlters
    <3> QED BY <3>3 DEF Altered
  <2>4. Formed'
    BY <1>1, <2>1, <2>2, <2>3 DEF DisksInv, Formed, IsSequence
  <2>5. Chosen' /\ Aimed' BY <1>1, <2>1 DEF Chosen, Aimed, Unchosen
  <2>6. Imaging!Touches BY <1>1, <2>1 DEF Imaging!Touches
  <2> QED BY <2>4, <2>5, <2>6 DEF DisksInv
<1>4. ASSUME NEW d \in PluggableDevices, Imaging!PlugIn(d)
      PROVE  DisksInv' /\ Imaging!Touches
  <2>1. attached' = attached \cup {d} /\ UNCHANGED <<disks, image, job>> BY <1>4 DEF Imaging!PlugIn
  <2>2. d \in DOMAIN Devices BY DevicesAssumption
  <2>3. Formed' BY <2>1, <2>2 DEF DisksInv, Formed, IsSequence
  <2>4. Chosen' BY <2>1 DEF DisksInv, Chosen, Sole, Candidate
  <2>5. Aimed' BY <2>1 DEF DisksInv, Aimed, Asked
  <2>6. Imaging!Touches BY <2>1 DEF Imaging!Touches
  <2> QED BY <2>3, <2>4, <2>5, <2>6 DEF DisksInv
<1> QED BY <1>2, <1>3, <1>4

\* The invariant holds of a machine that starts,
LEMMA DisksStart == ASSUME Imaging!Init PROVE DisksInv
<1>1. /\ attached \in FittedDevices /\ disks = Devices /\ job = Imaging!Idle
      /\ image = Imaging!NoImage
  BY DEF Imaging!Init
<1>2. IsImage(image) /\ Numbered(image.table) /\ IsSequence(image.parts)
  <2>1. image.table = Imaging!NoTable /\ image.parts = <<>> /\ IsImage(image)
    BY <1>1 DEF Imaging!NoImage, IsImage
  <2>2. Numbered(image.table) BY <2>1 DEF Numbered, Imaging!NoTable
  <2>3. IsSequence(image.parts) BY <2>1 DEF IsSequence
  <2> QED BY <2>1, <2>2, <2>3
<1>3. Formed BY <1>1, <1>2, DevicesAssumption DEF Formed, Imaging!Idle
<1>4. job.pc = "idle" /\ job.shape # "partition"
  BY <1>1 DEF Imaging!Idle, Imaging!None
<1> QED BY <1>3, <1>4 DEF DisksInv, Chosen, Aimed, Unchosen

\* after every step of its task,
LEMMA DisksStep == ASSUME DisksInv, Imaging!Next PROVE DisksInv' /\ Imaging!Touches
<1>1. ASSUME NEW t \in {"capture", "restore"},
             \/ Imaging!StartTask(t, "disk", Imaging!None)
             \/ \E p \in Imaging!Partuuids : Imaging!StartTask(t, "partition", p)
      PROVE  DisksInv' /\ Imaging!Touches
  BY <1>1, StartKeeps
<1> QED BY <1>1, CaptureKeeps, PrepareKeeps, ToolsKeep, PlanKeeps, WritingKeeps, EndKeeps
        DEF Imaging!Next

\* and after the steps of the other parts.
LEMMA DisksStay == ASSUME DisksInv, UNCHANGED diskVars PROVE DisksInv'
BY DEF diskVars, DisksInv, Formed, IsSequence, Chosen, Sole, Candidate, Aimed, Asked

(* TasksKeepToTheirDisk: a task changes only the disk it chose, which was  *)
(* the only candidate and not the agent's own (find_target_disk), and the  *)
(* restore of a partition changes nothing of it but what that partition    *)
(* holds, for whatever devices, images, crashes and failing tools.         *)
THEOREM TasksKeepToTheirDisk == Spec => OthersUntouched
<1> DEFINE I == part = "disk" => DisksInv
<1>1. Init => I
  BY DisksStart DEF Init
<1>3. I /\ [Next]_vars => I'
  BY DisksStep, DisksStay DEF Next, vars
<1>4. I /\ [Next]_vars => [part = "disk" => Imaging!Touches]_<<part, diskVars>>
  BY DisksStep DEF Next, vars
<1> HIDE DEF I
<1> QED BY <1>1, <1>3, <1>4, PTL DEF Spec, OthersUntouched

-----------------------------------------------------------------------------
(***************************************************************************)
(* ArchiveIsFaithful.  ArchInv says what the stream and the import hold    *)
(* while they are at work.  Of any archive: what an import has received    *)
(* are files of its valid manifest, none twice, each with the checksum     *)
(* asked for (Receives); at the end as many names as files, so it is       *)
(* whole.  Of an archive nothing happened to: its manifest describes the   *)
(* exported image and its entries are the files listed, in order           *)
(* (Written), and the import has read a prefix of them (Untroubled), so    *)
(* that only a manifest or a script that is too long is ever refused.      *)
(***************************************************************************)
LEMMA SequenceIs ==
    ASSUME NEW S, NEW s \in Seq(S)
    PROVE  IsSequence(s) /\ Len(s) \in Nat /\ DOMAIN s = 1 .. Len(s)
<1>1. Len(s) \in Nat /\ DOMAIN s = 1 .. Len(s) /\ s = [k \in 1 .. Len(s) |-> s[k]]
  OBVIOUS
<1>2. PICK T : T = {s[k] : k \in DOMAIN s} OBVIOUS
<1>3. \A k \in 1 .. Len(s) : s[k] \in T BY <1>1, <1>2
<1>4. s \in Seq(T) BY <1>1, <1>3
<1> QED BY <1>1, <1>2, <1>4 DEF IsSequence

LEMMA Sequences ==
    ASSUME NEW s, IsSequence(s)
    PROVE  /\ Len(s) \in Nat /\ DOMAIN s = 1 .. Len(s)
           /\ \A e : /\ IsSequence(Append(s, e)) /\ Len(Append(s, e)) = Len(s) + 1
                     /\ Append(s, e)[Len(s) + 1] = e
                     /\ \A k \in DOMAIN s : Append(s, e)[k] = s[k]
           /\ s # <<>> => /\ Len(s) >= 1 /\ Head(s) = s[1]
                          /\ IsSequence(Tail(s)) /\ Len(Tail(s)) = Len(s) - 1
                          /\ \A k \in DOMAIN Tail(s) : Tail(s)[k] = s[k + 1]
           /\ s = <<>> <=> Len(s) = 0
<1>1. PICK S : S = {s[k] : k \in DOMAIN s} OBVIOUS
<1>2. s \in Seq(S) BY <1>1 DEF IsSequence
<1>3. Len(s) \in Nat /\ DOMAIN s = 1 .. Len(s) BY <1>2
<1>4. ASSUME NEW e
      PROVE  /\ IsSequence(Append(s, e)) /\ Len(Append(s, e)) = Len(s) + 1
             /\ Append(s, e)[Len(s) + 1] = e
             /\ \A k \in DOMAIN s : Append(s, e)[k] = s[k]
  <2>1. PICK T : T = S \cup {e} OBVIOUS
  <2>2. s \in Seq(T) /\ e \in T
    <3>1. s = [k \in 1 .. Len(s) |-> s[k]] /\ \A k \in 1 .. Len(s) : s[k] \in T BY <1>2, <2>1
    <3> QED BY <1>3, <2>1, <3>1
  <2>3. Append(s, e) \in Seq(T) BY <2>2
  <2>4. IsSequence(Append(s, e)) BY <2>3, SequenceIs
  <2> QED BY <1>3, <2>2, <2>4
<1>5. ASSUME s # <<>>
      PROVE  /\ Len(s) >= 1 /\ Head(s) = s[1]
             /\ IsSequence(Tail(s)) /\ Len(Tail(s)) = Len(s) - 1
             /\ \A k \in DOMAIN Tail(s) : Tail(s)[k] = s[k + 1]
  <2>1. Tail(s) \in Seq(S) BY <1>2, <1>5
  <2>2. IsSequence(Tail(s)) BY <2>1, SequenceIs
  <2> QED BY <1>2, <1>5, <2>2
<1>6. s = <<>> <=> Len(s) = 0 BY <1>2
<1> QED BY <1>3, <1>4, <1>5, <1>6

Chained(a, b, c) ==
    /\ IsSequence(c) /\ Len(c) = Len(a) + Len(b)
    /\ \A k \in DOMAIN c : (k \in DOMAIN a /\ c[k] = a[k])
                           \/ (k - Len(a) \in DOMAIN b /\ c[k] = b[k - Len(a)])
    /\ \A k \in DOMAIN a : k \in DOMAIN c /\ c[k] = a[k]
    /\ \A k \in DOMAIN b : Len(a) + k \in DOMAIN c /\ c[Len(a) + k] = b[k]
Chain(a, b) == a \o b
LEMMA Joined ==
    ASSUME NEW a, IsSequence(a), NEW b, IsSequence(b)
    PROVE  Chained(a, b, Chain(a, b))
<1>0. PICK c : c = Chain(a, b) OBVIOUS
<1>1. PICK S, T, U : S = {a[k] : k \in DOMAIN a} /\ T = {b[k] : k \in DOMAIN b} /\ U = S \cup T OBVIOUS
<1>2. a \in Seq(S) /\ b \in Seq(T) BY <1>1 DEF IsSequence
<1>3. Len(a) \in Nat /\ DOMAIN a = 1 .. Len(a) /\ Len(b) \in Nat /\ DOMAIN b = 1 .. Len(b) BY <1>2
<1>4. a \in Seq(U) /\ b \in Seq(U)
  <2>1. a = [k \in 1 .. Len(a) |-> a[k]] /\ \A k \in 1 .. Len(a) : a[k] \in U BY <1>1, <1>2
  <2>2. b = [k \in 1 .. Len(b) |-> b[k]] /\ \A k \in 1 .. Len(b) : b[k] \in U BY <1>1, <1>2
  <2>3. a \in Seq(U) BY <1>3, <2>1
  <2>4. b \in Seq(U) BY <1>3, <2>2
  <2> QED BY <2>3, <2>4
<1>5. c \in Seq(U) /\ Len(c) = Len(a) + Len(b) /\ DOMAIN c = 1 .. Len(a) + Len(b)
  BY <1>0, <1>4 DEF Chain
<1>6. IsSequence(c) BY <1>5, SequenceIs
<1>7. \A k \in 1 .. Len(a) + Len(b) : c[k] = IF k <= Len(a) THEN a[k] ELSE b[k - Len(a)]
  BY <1>0, <1>3, <1>4 DEF Chain
<1>8. Chained(a, b, c) BY <1>3, <1>5, <1>6, <1>7 DEF Chained
<1> QED BY <1>0, <1>8

\* What a manifest lists: the table, the partitions, the scripts.
LEMMA ListedIs ==
    ASSUME NEW m, IsSequence(m.parts), IsSequence(m.scripts), NEW l, l = Archives!Listed(m)
    PROVE  /\ IsSequence(l)
           /\ \A k \in DOMAIN l : \/ l[k] = m.table /\ m.table # Archives!NoTable
                                  \/ \E j \in DOMAIN m.parts : l[k] = m.parts[j]
                                  \/ \E j \in DOMAIN m.scripts : l[k] = m.scripts[j]
           /\ m.table # Archives!NoTable => \E k \in DOMAIN l : l[k] = m.table
           /\ \E o \in Nat : \A j \in DOMAIN m.parts : o + j \in DOMAIN l /\ l[o + j] = m.parts[j]
           /\ \A j \in DOMAIN m.scripts : \E k \in DOMAIN l : l[k] = m.scripts[j]
<1>1. PICK t : t = IF m.table = Archives!NoTable THEN <<>> ELSE <<m.table>> OBVIOUS
<1>2. PICK a : a = Chain(t, m.parts) OBVIOUS
<1>3. l = Chain(a, m.scripts) BY <1>1, <1>2 DEF Archives!Listed, Chain
<1>4. IsSequence(t) /\ Len(t) \in Nat /\ DOMAIN t = 1 .. Len(t)
      /\ (m.table = Archives!NoTable => Len(t) = 0)
      /\ (m.table # Archives!NoTable => Len(t) = 1 /\ t[1] = m.table)
  <2>1. CASE m.table = Archives!NoTable
    <3>1. t = <<>> BY <1>1, <2>1
    <3>2. t \in Seq({}) /\ Len(t) = 0 BY <3>1
    <3> QED BY <2>1, <3>2, SequenceIs
  <2>2. CASE m.table # Archives!NoTable
    <3>1. PICK x : x = m.table OBVIOUS
    <3>2. t = <<x>> BY <1>1, <2>2, <3>1
    <3>3. t \in Seq({x}) /\ Len(t) = 1 /\ t[1] = x BY <3>2
    <3> QED BY <2>2, <3>1, <3>3, SequenceIs
  <2> QED BY <2>1, <2>2
<1>5. /\ IsSequence(a) /\ Len(a) = Len(t) + Len(m.parts)
      /\ \A k \in DOMAIN a : (k \in DOMAIN t /\ a[k] = t[k])
                             \/ (k - Len(t) \in DOMAIN m.parts /\ a[k] = m.parts[k - Len(t)])
      /\ \A k \in DOMAIN t : k \in DOMAIN a /\ a[k] = t[k]
      /\ \A k \in DOMAIN m.parts : Len(t) + k \in DOMAIN a /\ a[Len(t) + k] = m.parts[k]
  <2>1. Chained(t, m.parts, a) BY <1>2, <1>4, Joined
  <2> QED BY <2>1 DEF Chained
<1>6. /\ IsSequence(l)
      /\ \A k \in DOMAIN l : (k \in DOMAIN a /\ l[k] = a[k])
                             \/ (k - Len(a) \in DOMAIN m.scripts /\ l[k] = m.scripts[k - Len(a)])
      /\ \A k \in DOMAIN a : k \in DOMAIN l /\ l[k] = a[k]
      /\ \A k \in DOMAIN m.scripts : Len(a) + k \in DOMAIN l /\ l[Len(a) + k] = m.scripts[k]
  <2>1. Chained(a, m.scripts, l) BY <1>3, <1>5, Joined
  <2> QED BY <2>1 DEF Chained
<1>7. ASSUME NEW k \in DOMAIN l
      PROVE  \/ l[k] = m.table /\ m.table # Archives!NoTable
             \/ \E j \in DOMAIN m.parts : l[k] = m.parts[j]
             \/ \E j \in DOMAIN m.scripts : l[k] = m.scripts[j]
  <2>1. CASE k \in DOMAIN a /\ l[k] = a[k]
    <3>1. CASE k \in DOMAIN t /\ a[k] = t[k] BY <1>4, <2>1, <3>1
    <3>2. CASE k - Len(t) \in DOMAIN m.parts /\ a[k] = m.parts[k - Len(t)] BY <2>1, <3>2
    <3> QED BY <1>5, <2>1, <3>1, <3>2
  <2>2. CASE k - Len(a) \in DOMAIN m.scripts /\ l[k] = m.scripts[k - Len(a)] BY <2>2
  <2> QED BY <1>6, <2>1, <2>2
<1>8. m.table # Archives!NoTable => \E k \in DOMAIN l : l[k] = m.table
  BY <1>4, <1>5, <1>6
<1>9. \A j \in DOMAIN m.parts : Len(t) + j \in DOMAIN l /\ l[Len(t) + j] = m.parts[j]
  BY <1>5, <1>6
<1>10. \A j \in DOMAIN m.scripts : \E k \in DOMAIN l : l[k] = m.scripts[j]
  BY <1>6
<1> QED BY <1>4, <1>6, <1>7, <1>8, <1>9, <1>10


\* A manifest's lists are sequences; a stream holds one manifest at most.
IsManifest(m) == IsSequence(m.parts) /\ IsSequence(m.scripts)
Manifested(s) == s = <<>> \/ (s = <<s[1]>> /\ IsManifest(s[1]))

\* The state has its shape; a file is the first capture's or the second's;
\* nothing is on the way while the export is open.
ArchiveForms ==
    /\ export = [pc |-> export.pc, image |-> export.image, opened |-> export.opened]
    /\ export.image \in ExportedImages
    /\ IsSequence(export.opened) /\ \A k \in DOMAIN export.opened : export.opened[k] \in {1, 2}
    /\ \A f \in DOMAIN files : files[f] \in {1, 2}
    /\ stream = [manifest |-> stream.manifest, entries |-> stream.entries, cut |-> stream.cut]
    /\ Manifested(stream.manifest) /\ IsSequence(stream.entries)
    /\ export.pc = "open" => stream = Archives!NoStream /\ honest /\ import.pc = "idle"
    /\ import.pc # "idle" => stream # Archives!NoStream

\* What a running or finished import has received: files its valid manifest
\* lists, each once and unaltered; at the end, all of them.
Receives ==
    /\ import = [pc |-> import.pc, manifest |-> import.manifest, received |-> import.received,
                 rest |-> import.rest]
    /\ import.pc \in {"idle", "receive", "imported", "refused"}
    /\ import.pc \in {"receive", "imported"} =>
          /\ import.manifest # <<>> /\ Manifested(import.manifest) /\ Archives!Valid(import.manifest[1])
          /\ IsSequence(import.received) /\ IsSequence(import.rest)
          /\ \A k \in DOMAIN import.received :
                /\ import.received[k].name \in Archives!ListedFiles
                /\ import.received[k].data = Archives!Sha(import.received[k].name)
          /\ \A j, k \in DOMAIN import.received :
                import.received[j].name = import.received[k].name => j = k
    /\ import.pc = "imported" => Archives!ListedFiles \subseteq Archives!ReceivedFiles

\* A manifest that describes an image.
Describes(m, i) ==
    /\ IsManifest(m) /\ Archives!Valid(m) /\ m.format = Archives!RequiredFormat(m)
    /\ m.kind = i.kind /\ m.root = i.root
    /\ [k \in DOMAIN m.parts |-> m.parts[k].number] = [k \in DOMAIN i.parts |-> i.parts[k].number]
    /\ [k \in DOMAIN m.scripts |-> <<m.scripts[k].name, m.scripts[k].sha, m.scripts[k].root>>]
         = [k \in DOMAIN i.scripts |-> <<i.scripts[k].name, i.scripts[k].body, i.scripts[k].root>>]
    /\ m.table.sha \in {0, 1, 2}

\* An archive that nothing happened to is what the export wrote: its manifest
\* describes the image, its entries are the files the manifest lists.
Written ==
    honest /\ stream # Archives!NoStream =>
        LET m == stream.manifest[1] IN
        /\ stream.manifest # <<>> /\ Describes(m, export.image) /\ ~stream.cut
        /\ Len(stream.entries) = Len(Archives!Listed(m))
        /\ \A k \in DOMAIN stream.entries : stream.entries[k] = Archives!Entry(Archives!Listed(m)[k])

\* The import of such an archive reads its entries in order, and gives up
\* only on a manifest or a script that is too long.
Untroubled ==
    honest =>
        /\ import.pc \in {"receive", "imported"} =>
              /\ import.manifest = stream.manifest
              /\ Len(import.received) + Len(import.rest) = Len(stream.entries)
              /\ \A k \in DOMAIN import.received : import.received[k] = stream.entries[k]
              /\ \A k \in DOMAIN import.rest :
                    import.rest[k] = stream.entries[Len(import.received) + k]
        /\ import.pc = "refused" => \/ ~Archives!Fits(stream.manifest[1])
           \/ \E k \in DOMAIN export.image.scripts : export.image.scripts[k].body > SmallBytes

ArchInv == ArchiveForms /\ Receives /\ Written /\ Untroubled

\* A function on the first numbers is a sequence.
LEMMA SequenceOf ==
    ASSUME NEW n \in Nat, NEW f, f = [k \in 1 .. n |-> f[k]]
    PROVE  IsSequence(f) /\ Len(f) = n /\ DOMAIN f = 1 .. n
<1>1. PICK S : S = {f[k] : k \in 1 .. n} OBVIOUS
<1>2. \A k \in 1 .. n : f[k] \in S BY <1>1
<1>3. f \in Seq(S) /\ Len(f) = n BY <1>2
<1> QED BY <1>3, SequenceIs

\* As many values as indices, when no two indices share one.
Values(f, n, T) == (\A k \in 1 .. n : f[k] \in T) /\ \A x \in T : \E k \in 1 .. n : f[k] = x
Once(f, n) == \A j, k \in 1 .. n : f[j] = f[k] => j = k
LEMMA CountOf ==
    ASSUME NEW n \in Nat, NEW f, NEW T, Values(f, n, T), Once(f, n)
    PROVE  Cardinality(T) = n
<1>1. PICK g : g = [k \in 1 .. n |-> f[k]] OBVIOUS
<1>2. g \in [1 .. n -> T] /\ \A j, k \in 1 .. n : g[j] = g[k] => j = k BY <1>1 DEF Values, Once
<1>3. \A x \in T : \E k \in 1 .. n : g[k] = x BY <1>1 DEF Values
<1>4. g \in Bijection(1 .. n, T)
  BY <1>2, <1>3 DEF Bijection, Injection, Surjection, IsInjective
<1>5. ExistsBijection(1 .. n, T) BY <1>4 DEF ExistsBijection
<1> QED BY <1>5, FS_CountingElements

\* Two files that a valid manifest lists are one file if they have one name.
LEMMA ListedOnce ==
    ASSUME NEW m, Archives!Valid(m), NEW l, l = Archives!Listed(m)
    PROVE  \A j, k \in DOMAIN l : l[j].file = l[k].file => j = k
<1>1. PICK f : f = [k \in DOMAIN l |-> l[k].file] OBVIOUS
<1>2. Archives!IsInjective(f) BY <1>1 DEF Archives!Valid
<1> QED BY <1>1, <1>2 DEF Archives!IsInjective

\* The files an import waits for and the checksum it wants of each.
LEMMA Wanted ==
    ASSUME import.manifest # <<>>, Manifested(import.manifest), Archives!Valid(import.manifest[1]),
           NEW l, l = Archives!Listed(import.manifest[1])
    PROVE  /\ IsSequence(l)
           /\ Archives!ListedFiles = {l[k].file : k \in DOMAIN l}
           /\ \A k \in DOMAIN l : Archives!Sha(l[k].file) = l[k].sha
<1>1. PICK m : m = import.manifest[1] OBVIOUS
<1>2. IsManifest(m) BY <1>1 DEF Manifested
<1>3. IsSequence(l) BY <1>1, <1>2, ListedIs DEF IsManifest
<1>4. \A j, k \in DOMAIN l : l[j].file = l[k].file => j = k BY <1>1, ListedOnce
<1>5. PICK R : R = Archives!Range(l) OBVIOUS
<1>6. R = {l[k] : k \in DOMAIN l} BY <1>5 DEF Archives!Range
<1>7. Archives!ListedFiles = {l[k].file : k \in DOMAIN l}
  <2>1. Archives!ListedFiles = {x.file : x \in R} BY <1>5 DEF Archives!ListedFiles
  <2> QED BY <1>6, <2>1
<1>8. ASSUME NEW k \in DOMAIN l PROVE Archives!Sha(l[k].file) = l[k].sha
  <2>1. PICK f : f = l[k].file OBVIOUS
  <2>2. Archives!Sha(f) = (CHOOSE x \in R : x.file = f).sha BY <1>5 DEF Archives!Sha
  <2>3. PICK x : x = CHOOSE y \in R : y.file = f OBVIOUS
  <2>4. x \in R /\ x.file = f BY <1>6, <2>1, <2>3
  <2>5. x = l[k] BY <1>4, <1>6, <2>1, <2>4
  <2> QED BY <2>1, <2>2, <2>3, <2>5
<1> QED BY <1>3, <1>7, <1>8

\* Steps that leave the import alone keep what it has received.
LEMMA ReceivesKept == ASSUME Receives, UNCHANGED import PROVE Receives'
BY DEF Receives, Archives!ListedFiles, Archives!Sha, Archives!ReceivedFiles

\* A shape of streams: a manifest at most, and entries.
Streamed(s) == /\ s = [manifest |-> s.manifest, entries |-> s.entries, cut |-> s.cut]
               /\ Manifested(s.manifest) /\ IsSequence(s.entries)

\* What was altered on its way is a stream still.
LEMMA AlteredIsStream ==
    ASSUME NEW s, Streamed(s), NEW t \in Archives!Altered(s)
    PROVE  Streamed(t)
<1>1. PICK e, m, c : e = s.entries /\ m = s.manifest /\ c = s.cut OBVIOUS
<1>2. s = [manifest |-> m, entries |-> e, cut |-> c] /\ Manifested(m) /\ IsSequence(e)
  BY <1>1 DEF Streamed
<1>3. Len(e) \in Nat /\ DOMAIN e = 1 .. Len(e) BY <1>2, Sequences
<1>4. ASSUME NEW k \in 0 .. Len(e) - 1, NEW d, t = [s EXCEPT !.entries = SubSeq(e, 1, k), !.cut = d]
      PROVE  Streamed(t)
  <2>1. PICK S, u : S = {e[j] : j \in DOMAIN e} /\ u = SubSeq(e, 1, k) OBVIOUS
  <2>2. u \in Seq(S)
    <3>1. \A j \in 1 .. k : e[j] \in S BY <1>3, <2>1
    <3>2. k \in Int BY <1>3
    <3> QED BY <2>1, <3>1, <3>2, SubSeqProperties
  <2>3. IsSequence(u) BY <2>2, SequenceIs
  <2>4. t = [manifest |-> m, entries |-> u, cut |-> d] BY <1>2, <1>4, <2>1
  <2> QED BY <1>2, <2>3, <2>4 DEF Streamed
<1>5. ASSUME NEW k \in DOMAIN e, NEW x, t = [s EXCEPT !.entries = [@ EXCEPT ![k] = x]]
      PROVE  Streamed(t)
  <2>1. PICK u : u = [e EXCEPT ![k] = x] OBVIOUS
  <2>2. u = [j \in 1 .. Len(e) |-> u[j]] BY <1>3, <2>1
  <2>3. IsSequence(u) BY <1>3, <2>2, SequenceOf
  <2>4. t = [manifest |-> m, entries |-> u, cut |-> c] BY <1>2, <1>5, <2>1
  <2> QED BY <1>2, <2>3, <2>4 DEF Streamed
<1>6. ASSUME NEW x, t = [s EXCEPT !.entries = Append(@, x)] PROVE Streamed(t)
  <2>1. PICK u : u = Append(e, x) OBVIOUS
  <2>2. IsSequence(u) BY <1>2, <2>1, Sequences
  <2>3. t = [manifest |-> m, entries |-> u, cut |-> c] BY <1>2, <1>6, <2>1
  <2> QED BY <1>2, <2>2, <2>3 DEF Streamed
<1>7. CASE t = [s EXCEPT !.entries = Archives!Reverse(@)]
  <2>1. PICK u : u = [j \in 1 .. Len(e) |-> e[(Len(e) - j) + 1]] OBVIOUS
  <2>2. u = Archives!Reverse(e) /\ u = [j \in 1 .. Len(e) |-> u[j]]
    BY <2>1 DEF Archives!Reverse
  <2>3. IsSequence(u) BY <1>3, <2>2, SequenceOf
  <2>4. t = [manifest |-> m, entries |-> u, cut |-> c] BY <1>2, <1>7, <2>2
  <2> QED BY <1>2, <2>3, <2>4 DEF Streamed
<1>8. CASE t = [s EXCEPT !.manifest = <<>>]
  <2>1. t = [manifest |-> <<>>, entries |-> e, cut |-> c] BY <1>2, <1>8
  <2> QED BY <1>2, <2>1 DEF Streamed, Manifested
<1>9. \/ t \in {[s EXCEPT !.entries = SubSeq(@, 1, k)] : k \in 0 .. Len(s.entries) - 1}
      \/ t \in {[s EXCEPT !.entries = SubSeq(@, 1, k), !.cut = TRUE] : k \in 0 .. Len(s.entries) - 1}
      \/ t \in {[s EXCEPT !.entries[k].data = 9] : k \in DOMAIN s.entries}
      \/ t \in {[s EXCEPT !.entries[k].plain = FALSE] : k \in DOMAIN s.entries}
      \/ t \in {[s EXCEPT !.entries = Append(@, @[k])] : k \in DOMAIN s.entries}
      \/ t \in {[s EXCEPT !.entries = Append(@, Archives!Entry([file |-> <<"p", 9>>, sha |-> 1]))]}
      \/ t \in {[s EXCEPT !.entries = Archives!Reverse(@)]}
      \/ t \in {[s EXCEPT !.manifest = <<>>]}
  BY Zenon DEF Archives!Altered
<1>10. CASE t \in {[s EXCEPT !.entries = SubSeq(@, 1, k)] : k \in 0 .. Len(s.entries) - 1}
  <2>1. PICK k \in 0 .. Len(s.entries) - 1 : t = [s EXCEPT !.entries = SubSeq(@, 1, k)]
    BY <1>10
  <2>2. k \in 0 .. Len(e) - 1 /\ t = [s EXCEPT !.entries = SubSeq(e, 1, k), !.cut = c]
    BY <1>1, <1>2, <2>1
  <2> QED BY <1>4, <2>2
<1>11. CASE t \in {[s EXCEPT !.entries = SubSeq(@, 1, k), !.cut = TRUE] : k \in 0 .. Len(s.entries) - 1}
  <2>1. PICK k \in 0 .. Len(s.entries) - 1 : t = [s EXCEPT !.entries = SubSeq(@, 1, k), !.cut = TRUE]
    BY <1>11
  <2>2. k \in 0 .. Len(e) - 1 /\ t = [s EXCEPT !.entries = SubSeq(e, 1, k), !.cut = TRUE]
    BY <1>1, <2>1
  <2> QED BY <1>4, <2>2
<1>12. CASE t \in {[s EXCEPT !.entries[k].data = 9] : k \in DOMAIN s.entries}
  <2>1. PICK k \in DOMAIN s.entries : t = [s EXCEPT !.entries[k].data = 9] BY <1>12
  <2>2. PICK x : x = [s.entries[k] EXCEPT !.data = 9] OBVIOUS
  <2>3. t = [s EXCEPT !.entries = [@ EXCEPT ![k] = x]] BY <2>1, <2>2
  <2> QED BY <1>1, <1>5, <2>1, <2>3
<1>13. CASE t \in {[s EXCEPT !.entries[k].plain = FALSE] : k \in DOMAIN s.entries}
  <2>1. PICK k \in DOMAIN s.entries : t = [s EXCEPT !.entries[k].plain = FALSE] BY <1>13
  <2>2. PICK x : x = [s.entries[k] EXCEPT !.plain = FALSE] OBVIOUS
  <2>3. t = [s EXCEPT !.entries = [@ EXCEPT ![k] = x]] BY <2>1, <2>2
  <2> QED BY <1>1, <1>5, <2>1, <2>3
<1>14. CASE t \in {[s EXCEPT !.entries = Append(@, @[k])] : k \in DOMAIN s.entries}
  <2>1. PICK k \in DOMAIN s.entries : t = [s EXCEPT !.entries = Append(@, @[k])] BY <1>14
  <2>2. PICK x : x = s.entries[k] OBVIOUS
  <2>3. t = [s EXCEPT !.entries = Append(@, x)] BY <2>1, <2>2
  <2> QED BY <1>6, <2>3
<1>15. CASE t \in {[s EXCEPT !.entries = Append(@, Archives!Entry([file |-> <<"p", 9>>, sha |-> 1]))]}
  <2>1. PICK x : x = Archives!Entry([file |-> <<"p", 9>>, sha |-> 1]) OBVIOUS
  <2>2. t = [s EXCEPT !.entries = Append(@, x)] BY <1>15, <2>1
  <2>3. Streamed(t) BY <1>6, <2>2, Zenon
  <2> QED BY <2>3
<1> QED BY <1>7, <1>8, <1>9, <1>10, <1>11, <1>12, <1>13, <1>14, <1>15

LEMMA EmptyIsSequence == IsSequence(<<>>) /\ Len(<<>>) = 0 /\ DOMAIN <<>> = {}
<1>1. <<>> \in Seq({}) /\ Len(<<>>) = 0 /\ DOMAIN <<>> = {} OBVIOUS
<1>2. PICK s : s = <<>> OBVIOUS
<1>3. s \in Seq({}) BY <1>1, <1>2, Zenon
<1>4. IsSequence(s) BY <1>3, SequenceIs
<1> QED BY <1>1, <1>2, <1>4, Zenon

LEMMA ArchiveStarts == ASSUME Archives!Init PROVE ArchInv
<1>1. PICK i \in ExportedImages : /\ files = [f \in Archives!Range(Archives!FilesOf(i)) |-> 1]
                                  /\ export = [pc |-> "open", image |-> i, opened |-> <<>>]
  BY DEF Archives!Init
<1>2. /\ stream = Archives!NoStream /\ honest = TRUE
      /\ import = [pc |-> "idle", manifest |-> <<>>, received |-> <<>>, rest |-> <<>>]
  BY DEF Archives!Init
<1>3. ArchiveForms
  <2>1. IsSequence(export.opened) /\ DOMAIN export.opened = {} BY <1>1, EmptyIsSequence
  <2>2. \A f \in DOMAIN files : files[f] = 1
    <3>1. PICK F : F = Archives!Range(Archives!FilesOf(i)) OBVIOUS
    <3> QED BY <1>1, <3>1
  <2>3. /\ stream = [manifest |-> stream.manifest, entries |-> stream.entries, cut |-> stream.cut]
        /\ Manifested(stream.manifest) /\ IsSequence(stream.entries)
    BY <1>2, EmptyIsSequence DEF Archives!NoStream, Manifested
  <2>4. /\ export = [pc |-> export.pc, image |-> export.image, opened |-> export.opened]
        /\ export.image \in ExportedImages
    BY <1>1
  <2>5. import.pc = "idle" BY <1>2
  <2> QED BY <1>2, <2>1, <2>2, <2>3, <2>4, <2>5 DEF ArchiveForms
<1>4. Receives BY <1>2 DEF Receives
<1>5. Written /\ Untroubled BY <1>2 DEF Written, Untroubled
<1> QED BY <1>3, <1>4, <1>5 DEF ArchInv

LEMMA OpenKeeps == ASSUME ArchInv, Archives!OpenNext PROVE ArchInv'
<1>1. /\ export.pc = "open" /\ stream = Archives!NoStream /\ honest /\ import.pc = "idle"
      /\ UNCHANGED <<files, stream, import, honest>>
  BY DEF ArchInv, ArchiveForms, Archives!OpenNext
<1>2. PICK f : f = Archives!FilesOf(export.image)[Len(export.opened) + 1] OBVIOUS
<1>3. \/ f \in DOMAIN files /\ export' = [export EXCEPT !.opened = Append(@, files[f])]
      \/ export' = [export EXCEPT !.pc = "failed"]
  BY <1>2 DEF Archives!OpenNext
<1>4. /\ IsSequence(export.opened) /\ \A k \in DOMAIN export.opened : export.opened[k] \in {1, 2}
      /\ export = [pc |-> export.pc, image |-> export.image, opened |-> export.opened]
      /\ \A g \in DOMAIN files : files[g] \in {1, 2}
  BY DEF ArchInv, ArchiveForms
<1>5. /\ export' = [pc |-> export'.pc, image |-> export'.image, opened |-> export'.opened]
      /\ export'.image = export.image
      /\ IsSequence(export'.opened) /\ \A k \in DOMAIN export'.opened : export'.opened[k] \in {1, 2}
  <2>1. CASE f \in DOMAIN files /\ export' = [export EXCEPT !.opened = Append(@, files[f])]
    <3>1. PICK v, o : v = files[f] /\ o = Append(export.opened, v) OBVIOUS
    <3>2. IsSequence(o) /\ Len(o) = Len(export.opened) + 1 /\ o[Len(export.opened) + 1] = v
          /\ \A k \in DOMAIN export.opened : o[k] = export.opened[k]
      BY <1>4, <3>1, Sequences
    <3>3. /\ Len(export.opened) \in Nat /\ DOMAIN export.opened = 1 .. Len(export.opened)
          /\ DOMAIN o = 1 .. Len(o)
      BY <1>4, <3>2, Sequences
    <3>4. v \in {1, 2} BY <1>4, <2>1, <3>1
    <3>5. \A k \in DOMAIN o : o[k] \in {1, 2} BY <1>4, <3>2, <3>3, <3>4
    <3>6. export' = [pc |-> export.pc, image |-> export.image, opened |-> o] BY <1>4, <2>1, <3>1
    <3> QED BY <3>2, <3>5, <3>6
  <2>2. CASE export' = [export EXCEPT !.pc = "failed"]
    <3>1. export' = [pc |-> "failed", image |-> export.image, opened |-> export.opened]
      BY <1>4, <2>2
    <3> QED BY <1>4, <3>1
  <2> QED BY <1>3, <2>1, <2>2
<1>6. ArchiveForms' BY <1>1, <1>5 DEF ArchInv, ArchiveForms
<1>7. Written' /\ Untroubled' BY <1>1 DEF Written, Untroubled
<1> QED BY <1>1, <1>6, <1>7, ReceivesKept DEF ArchInv

LEMMA RecaptureKeeps == ASSUME ArchInv, Archives!Recapture PROVE ArchInv'
<1>1. UNCHANGED <<export, stream, import, honest>> BY DEF Archives!Recapture
<1>2. \A f \in DOMAIN files' : files'[f] \in {1, 2}
  <2>1. CASE files' = [f \in {} |-> 0] BY <2>1
  <2>2. CASE \E f : files' = [g \in DOMAIN files \cup {f} |-> IF g = f THEN 2 ELSE files[g]]
    BY <2>2 DEF ArchInv, ArchiveForms
  <2> QED BY <2>1, <2>2 DEF Archives!Recapture
<1>3. ArchiveForms' BY <1>1, <1>2 DEF ArchInv, ArchiveForms
<1>4. Written' /\ Untroubled' BY <1>1 DEF ArchInv, Written, Untroubled
<1> QED BY <1>1, <1>3, <1>4, ReceivesKept DEF ArchInv

LEMMA OnTheWayKeeps == ASSUME ArchInv, Archives!OnTheWay PROVE ArchInv'
<1>1. /\ import.pc = "idle" /\ stream # Archives!NoStream /\ ~honest'
      /\ UNCHANGED <<files, export, import>> /\ stream' \in Archives!Altered(stream)
  BY DEF Archives!OnTheWay
<1>2. Streamed(stream) BY DEF ArchInv, ArchiveForms, Streamed
<1>3. PICK t : t = stream' OBVIOUS
<1>4. Streamed(t) BY <1>1, <1>2, <1>3, AlteredIsStream
<1>5. /\ stream' = [manifest |-> stream'.manifest, entries |-> stream'.entries, cut |-> stream'.cut]
      /\ Manifested(stream'.manifest) /\ IsSequence(stream'.entries)
  BY <1>3, <1>4 DEF Streamed
<1>6. export.pc # "open" BY <1>1 DEF ArchInv, ArchiveForms
<1>7. ArchiveForms' BY <1>1, <1>5, <1>6 DEF ArchInv, ArchiveForms, Manifested, IsManifest
<1>8. Written' /\ Untroubled' BY <1>1 DEF Written, Untroubled
<1> QED BY <1>1, <1>7, <1>8, ReceivesKept DEF ArchInv

\* The entries of a manifest.
LEMMA EntriesOf ==
    ASSUME NEW m, IsManifest(m), NEW l, l = Archives!Listed(m),
           NEW e, e = [k \in DOMAIN l |-> Archives!Entry(l[k])]
    PROVE  /\ IsSequence(e) /\ Len(e) = Len(l) /\ DOMAIN e = DOMAIN l
           /\ \A k \in DOMAIN e : e[k] = Archives!Entry(l[k])
<1>1. IsSequence(l) BY ListedIs DEF IsManifest
<1>2. Len(l) \in Nat /\ DOMAIN l = 1 .. Len(l) BY <1>1, Sequences
<1>3. e = [k \in 1 .. Len(l) |-> e[k]] BY <1>2
<1>4. IsSequence(e) /\ Len(e) = Len(l) /\ DOMAIN e = 1 .. Len(l) BY <1>2, <1>3, SequenceOf
<1> QED BY <1>2, <1>4

LEMMA HandMadeKeeps == ASSUME ArchInv, Archives!HandMade PROVE ArchInv'
<1>1. /\ import.pc = "idle" /\ ~honest' /\ UNCHANGED <<files, import>>
      /\ export' = [export EXCEPT !.pc = "failed"]
  BY DEF Archives!HandMade
<1>2. PICK m \in HandMadeManifests :
         stream' = [manifest |-> <<m>>, cut |-> FALSE,
                    entries |-> [k \in DOMAIN Archives!Listed(m) |-> Archives!Entry(Archives!Listed(m)[k])]]
  BY DEF Archives!HandMade
<1>3. IsManifest(m) BY ArchivesAssumption DEF IsManifest
<1>4. PICK l, e : l = Archives!Listed(m) /\ e = [k \in DOMAIN l |-> Archives!Entry(l[k])] OBVIOUS
<1>5. IsSequence(e) BY <1>3, <1>4, EntriesOf
<1>6. stream' = [manifest |-> <<m>>, entries |-> e, cut |-> FALSE] BY <1>2, <1>4
<1>7. /\ stream' = [manifest |-> stream'.manifest, entries |-> stream'.entries, cut |-> stream'.cut]
      /\ Manifested(stream'.manifest) /\ IsSequence(stream'.entries)
  BY <1>3, <1>5, <1>6 DEF Manifested
<1>8. export' = [pc |-> "failed", image |-> export.image, opened |-> export.opened]
  BY <1>1 DEF ArchInv, ArchiveForms
<1>9. ArchiveForms' BY <1>1, <1>7, <1>8 DEF ArchInv, ArchiveForms, Manifested, IsManifest
<1>10. Written' /\ Untroubled' BY <1>1 DEF Written, Untroubled
<1> QED BY <1>1, <1>9, <1>10, ReceivesKept DEF ArchInv

\* A manifest that describes an image is one that an import can read, if it fits.
LEMMA DescribedIsReadable ==
    ASSUME NEW m, NEW i, Describes(m, i), Archives!Fits(m)
    PROVE  Archives!Readable(m)
BY DEF Describes, Archives!Readable, Archives!RequiredFormat, Archives!FORMAT, Archives!COMPATIBLE_FORMAT

LEMMA ImportOpensKeeps == ASSUME ArchInv, Archives!ImportOpens PROVE ArchInv'
<1>1. /\ import.pc = "idle" /\ stream # Archives!NoStream
      /\ UNCHANGED <<files, export, stream, honest>>
  BY DEF Archives!ImportOpens
<1>2. /\ Manifested(stream.manifest) /\ IsSequence(stream.entries)
      /\ export.pc # "open"
      /\ import = [pc |-> import.pc, manifest |-> import.manifest, received |-> import.received,
                   rest |-> import.rest]
  BY <1>1 DEF ArchInv, ArchiveForms, Receives
<1>3. ArchiveForms' BY <1>1, <1>2 DEF ArchInv, ArchiveForms
<1>4. Written' BY <1>1 DEF ArchInv, Written
<1>5. PICK m : m = stream.manifest[1] OBVIOUS
<1>6. CASE Archives!ManifestFirst /\ Archives!Valid(m)
  <2>1. import' = [pc |-> "receive", manifest |-> stream.manifest, received |-> <<>>,
                   rest |-> stream.entries]
    BY <1>5, <1>6 DEF Archives!ImportOpens
  <2>2. stream.manifest # <<>> BY <1>6 DEF Archives!ManifestFirst
  <2>3. import'.manifest[1] = m /\ DOMAIN import'.received = {} /\ IsSequence(import'.received)
        /\ Len(import'.received) = 0
    BY <1>5, <2>1, EmptyIsSequence
  <2>4. Receives' BY <1>2, <1>6, <2>1, <2>2, <2>3 DEF Receives
  <2>5. Untroubled'
    <3>1. Len(stream.entries) \in Nat /\ DOMAIN stream.entries = 1 .. Len(stream.entries)
      BY <1>2, Sequences
    <3>2. \A k \in DOMAIN stream.entries : 0 + k = k BY <3>1
    <3> QED BY <1>1, <2>1, <2>3, <3>1, <3>2 DEF Untroubled
  <2> QED BY <1>3, <1>4, <2>4, <2>5 DEF ArchInv
<1>7. CASE ~(Archives!ManifestFirst /\ Archives!Valid(m))
  <2>1. import' = [import EXCEPT !.pc = "refused"]
    BY <1>5, <1>7 DEF Archives!ImportOpens
  <2>2. import' = [pc |-> "refused", manifest |-> import.manifest, received |-> import.received,
                   rest |-> import.rest]
    BY <1>2, <2>1
  <2>3. Receives' BY <2>2 DEF Receives
  <2>4. honest => ~Archives!Fits(m)
    <3> SUFFICES ASSUME honest, Archives!Fits(m) PROVE FALSE OBVIOUS
    <3>1. stream.manifest # <<>> /\ Describes(m, export.image)
      BY <1>1, <1>5 DEF ArchInv, Written
    <3>2. Archives!ManifestFirst BY <1>5, <3>1, DescribedIsReadable DEF Archives!ManifestFirst
    <3> QED BY <1>7, <3>1, <3>2 DEF Describes
  <2>5. Untroubled'
    <3>1. import'.pc = "refused" BY <2>2
    <3> QED BY <1>1, <1>5, <2>4, <3>1 DEF Untroubled, Archives!Fits, Archives!Listed
  <2> QED BY <1>3, <1>4, <2>3, <2>5 DEF ArchInv
<1> QED BY <1>6, <1>7

\* A script of an honest archive is a script of the image.
LEMMA ScriptDescribed ==
    ASSUME NEW m, NEW i, Describes(m, i), IsSequence(i.scripts), NEW k \in DOMAIN m.scripts
    PROVE  k \in DOMAIN i.scripts /\ m.scripts[k].sha = i.scripts[k].body
<1>1. PICK f, g : /\ f = [j \in DOMAIN m.scripts |-> <<m.scripts[j].name, m.scripts[j].sha, m.scripts[j].root>>]
                  /\ g = [j \in DOMAIN i.scripts |-> <<i.scripts[j].name, i.scripts[j].body, i.scripts[j].root>>]
  OBVIOUS
<1>2. f = g BY <1>1 DEF Describes
<1>3. DOMAIN m.scripts = DOMAIN i.scripts BY <1>1, <1>2
<1>4. f[k] = g[k] BY <1>2
<1> QED BY <1>1, <1>3, <1>4

LEMMA ReceiveEndsKeeps == ASSUME ArchInv, Archives!ReceiveEnds PROVE ArchInv'
<1>1. /\ import.pc = "receive" /\ import.rest = <<>>
      /\ UNCHANGED <<files, export, stream, honest>>
  BY DEF Archives!ReceiveEnds
<1>2. PICK p : p = IF Archives!ListedFiles \subseteq Archives!ReceivedFiles /\ ~stream.cut
                   THEN "imported" ELSE "refused"
  OBVIOUS
<1>3. import' = [pc |-> p, manifest |-> import.manifest, received |-> import.received,
                 rest |-> import.rest]
  BY <1>2 DEF Archives!ReceiveEnds, ArchInv, Receives
<1>4. p = "imported" => Archives!ListedFiles \subseteq Archives!ReceivedFiles BY <1>2
<1>5. p \in {"imported", "refused"} BY <1>2
<1>6. /\ Archives!ListedFiles' = Archives!ListedFiles /\ Archives!ReceivedFiles' = Archives!ReceivedFiles
      /\ \A k \in DOMAIN import.received :
            import.received[k].data = Archives!Sha(import.received[k].name)
               => (import.received[k].data = Archives!Sha(import.received[k].name))'
  BY <1>3 DEF Archives!ListedFiles, Archives!ReceivedFiles, Archives!Sha
<1>7. Receives' BY <1>1, <1>3, <1>4, <1>5, <1>6 DEF ArchInv, Receives
<1>8. ArchiveForms' /\ Written'
  BY <1>1, <1>3, <1>5 DEF ArchInv, ArchiveForms, Written
<1>9. Untroubled'
  <2>1. ASSUME honest PROVE p = "imported"
    <3>1. /\ import.manifest = stream.manifest /\ ~stream.cut
          /\ Len(import.received) + Len(import.rest) = Len(stream.entries)
          /\ \A k \in DOMAIN import.received : import.received[k] = stream.entries[k]
          /\ IsSequence(import.received) /\ import.manifest # <<>> /\ Manifested(import.manifest)
          /\ Archives!Valid(import.manifest[1]) /\ stream # Archives!NoStream
          /\ IsSequence(stream.entries)
      BY <1>1, <2>1 DEF ArchInv, Untroubled, Receives, Written, ArchiveForms
    <3>2. PICK l : l = Archives!Listed(import.manifest[1]) OBVIOUS
    <3>3. /\ Len(stream.entries) = Len(l)
          /\ \A k \in DOMAIN stream.entries : stream.entries[k] = Archives!Entry(l[k])
      BY <2>1, <3>1, <3>2 DEF ArchInv, Written
    <3>4. IsSequence(l) /\ Archives!ListedFiles = {l[k].file : k \in DOMAIN l}
      BY <3>1, <3>2, Wanted
    <3>5. Len(import.rest) = 0 BY <1>1, EmptyIsSequence
    <3>6. /\ Len(l) \in Nat /\ DOMAIN l = 1 .. Len(l)
          /\ Len(import.received) \in Nat /\ DOMAIN import.received = 1 .. Len(import.received)
          /\ DOMAIN stream.entries = 1 .. Len(stream.entries)
      BY <3>1, <3>4, Sequences
    <3>7. ASSUME NEW k \in DOMAIN l PROVE l[k].file \in Archives!ReceivedFiles
      <4>1. k \in DOMAIN import.received /\ import.received[k] = Archives!Entry(l[k])
        BY <3>1, <3>3, <3>5, <3>6
      <4>2. import.received[k].name = l[k].file BY <4>1 DEF Archives!Entry
      <4> QED BY <4>1, <4>2 DEF Archives!ReceivedFiles, Archives!Range
    <3> QED BY <1>2, <3>1, <3>4, <3>7
  <2> QED BY <1>1, <1>3, <2>1 DEF ArchInv, Untroubled
<1> QED BY <1>7, <1>8, <1>9 DEF ArchInv

LEMMA ReceiveEntryKeeps == ASSUME ArchInv, Archives!ReceiveEntry PROVE ArchInv'
<1>1. /\ import.pc = "receive" /\ import.rest # <<>>
      /\ UNCHANGED <<files, export, stream, honest>>
  BY DEF Archives!ReceiveEntry
<1>2. /\ import = [pc |-> import.pc, manifest |-> import.manifest, received |-> import.received,
                   rest |-> import.rest]
      /\ import.manifest # <<>> /\ Manifested(import.manifest) /\ Archives!Valid(import.manifest[1])
      /\ IsSequence(import.received) /\ IsSequence(import.rest)
      /\ \A k \in DOMAIN import.received :
            /\ import.received[k].name \in Archives!ListedFiles
            /\ import.received[k].data = Archives!Sha(import.received[k].name)
      /\ \A j, k \in DOMAIN import.received :
            import.received[j].name = import.received[k].name => j = k
  BY <1>1 DEF ArchInv, Receives
<1>3. PICK l, n, e, r, t : /\ l = Archives!Listed(import.manifest[1]) /\ n = Len(import.received)
                           /\ e = Head(import.rest) /\ r = Append(import.received, e)
                           /\ t = Tail(import.rest)
  OBVIOUS
<1>4. /\ n \in Nat /\ DOMAIN import.received = 1 .. n
      /\ IsSequence(r) /\ Len(r) = n + 1 /\ DOMAIN r = 1 .. n + 1 /\ r[n + 1] = e
      /\ \A k \in 1 .. n : r[k] = import.received[k]
      /\ e = import.rest[1] /\ Len(import.rest) \in Nat /\ DOMAIN import.rest = 1 .. Len(import.rest)
      /\ Len(import.rest) >= 1
      /\ IsSequence(t) /\ Len(t) = Len(import.rest) - 1 /\ DOMAIN t = 1 .. Len(import.rest) - 1
      /\ \A k \in DOMAIN t : t[k] = import.rest[k + 1]
  <2>1. IsSequence(r) /\ Len(r) = n + 1 /\ r[n + 1] = e
        /\ (\A k \in DOMAIN import.received : r[k] = import.received[k])
        /\ n \in Nat /\ DOMAIN import.received = 1 .. n
    BY <1>2, <1>3, Sequences
  <2>2. /\ e = import.rest[1] /\ Len(import.rest) \in Nat
        /\ DOMAIN import.rest = 1 .. Len(import.rest)
        /\ Len(import.rest) >= 1
        /\ IsSequence(t) /\ Len(t) = Len(import.rest) - 1
        /\ \A k \in DOMAIN t : t[k] = import.rest[k + 1]
    BY <1>1, <1>2, <1>3, Sequences
  <2>3. DOMAIN r = 1 .. Len(r) /\ DOMAIN t = 1 .. Len(t) BY <2>1, <2>2, Sequences
  <2> QED BY <2>1, <2>2, <2>3
<1>5. PICK R : R = Archives!ReceivedFiles OBVIOUS
<1>6. R = {import.received[k].name : k \in 1 .. n}
  <2>1. PICK S : S = Archives!Range(import.received) OBVIOUS
  <2>2. S = {import.received[k] : k \in 1 .. n} BY <1>4, <2>1 DEF Archives!Range
  <2>3. R = {x.name : x \in S} BY <1>5, <2>1 DEF Archives!ReceivedFiles
  <2> QED BY <2>2, <2>3
<1>7. PICK W : W = Archives!ListedFiles OBVIOUS
<1>8. CASE Archives!Acceptable(e)
  <2>1. import' = [pc |-> "receive", manifest |-> import.manifest, received |-> r, rest |-> t]
    BY <1>1, <1>2, <1>3, <1>8 DEF Archives!ReceiveEntry
  <2>2. e.name \in W /\ e.name \notin R /\ e.data = Archives!Sha(e.name)
    BY <1>5, <1>7, <1>8 DEF Archives!Acceptable, Archives!Checksum
  <2>3. /\ \A k \in DOMAIN r : r[k].name \in W /\ r[k].data = Archives!Sha(r[k].name)
        /\ \A j, k \in DOMAIN r : r[j].name = r[k].name => j = k
    <3>1. ASSUME NEW k \in DOMAIN r PROVE r[k].name \in W /\ r[k].data = Archives!Sha(r[k].name)
      BY <1>2, <1>4, <1>7, <2>2
    <3>2. ASSUME NEW j \in DOMAIN r, NEW k \in DOMAIN r, r[j].name = r[k].name PROVE j = k
      <4>1. DOMAIN r = 1 .. n + 1 /\ n \in Nat /\ DOMAIN import.received = 1 .. n BY <1>4
      <4>2. \A h \in 1 .. n : r[h].name \in R BY <1>4, <1>6
      <4>3. r[n + 1].name \notin R BY <1>4, <2>2
      <4>4. CASE j \in 1 .. n /\ k \in 1 .. n BY <1>2, <1>4, <3>2, <4>4
      <4>5. j \in 1 .. n \/ j = n + 1 BY <4>1
      <4>6. k \in 1 .. n \/ k = n + 1 BY <4>1
      <4> QED BY <3>2, <4>2, <4>3, <4>4, <4>5, <4>6
    <3> QED BY <3>1, <3>2
  <2>4. W = Archives!ListedFiles'
        /\ \A k \in DOMAIN r : Archives!Sha(r[k].name) = (Archives!Sha(import.received[k].name))'
    BY <1>7, <2>1 DEF Archives!ListedFiles, Archives!Sha
  <2>5. Receives' BY <1>2, <1>4, <2>1, <2>3, <2>4 DEF Receives
  <2>6. ArchiveForms' /\ Written' BY <1>1, <2>1 DEF ArchInv, ArchiveForms, Written
  <2>7. Untroubled'
    <3>1. ASSUME honest
          PROVE  /\ import.manifest = stream.manifest
                 /\ Len(r) + Len(t) = Len(stream.entries)
                 /\ \A k \in DOMAIN r : r[k] = stream.entries[k]
                 /\ \A k \in DOMAIN t : t[k] = stream.entries[Len(r) + k]
      <4>1. /\ import.manifest = stream.manifest
            /\ n + Len(import.rest) = Len(stream.entries)
            /\ \A k \in DOMAIN import.received : import.received[k] = stream.entries[k]
            /\ \A k \in DOMAIN import.rest : import.rest[k] = stream.entries[n + k]
        BY <1>1, <1>3, <3>1 DEF ArchInv, Untroubled
      <4>2. ASSUME NEW k \in DOMAIN t PROVE t[k] = stream.entries[Len(r) + k]
        <5>1. /\ k \in 1 .. Len(import.rest) - 1 /\ Len(import.rest) \in Nat /\ n \in Nat
              /\ Len(r) = n + 1
          BY <1>4
        <5>2. k + 1 \in 1 .. Len(import.rest) /\ n + (k + 1) = Len(r) + k
          <6>1. k \in Int /\ Len(import.rest) \in Int BY <5>1
          <6> QED BY <5>1, <6>1
        <5>3. import.rest[k + 1] = stream.entries[n + (k + 1)] BY <1>4, <4>1, <5>2
        <5>4. t[k] = import.rest[k + 1] BY <1>4
        <5> QED BY <5>2, <5>3, <5>4
      <4>3. Len(r) + Len(t) = Len(stream.entries)
        <5>1. /\ Len(import.rest) \in Nat /\ n \in Nat /\ Len(r) = n + 1 /\ Len(t) = Len(import.rest) - 1
              /\ n + Len(import.rest) = Len(stream.entries)
          BY <1>4, <4>1
        <5>2. PICK a, b, c : a = Len(import.rest) /\ b = Len(stream.entries) /\ c = Len(t) OBVIOUS
        <5>3. a \in Nat /\ n \in Nat /\ c = a - 1 /\ b = n + a BY <5>1, <5>2
        <5>4. (n + 1) + c = b BY <5>3
        <5> QED BY <5>1, <5>2, <5>4
      <4>4. \A k \in DOMAIN r : r[k] = stream.entries[k]
        <5>1. DOMAIN r = 1 .. n + 1 /\ n \in Nat BY <1>4
        <5>2. \A k \in 1 .. n : r[k] = stream.entries[k] BY <1>4, <4>1
        <5>3. r[n + 1] = stream.entries[n + 1]
          <6>1. 1 \in DOMAIN import.rest /\ e = import.rest[1] /\ r[n + 1] = e BY <1>4
          <6> QED BY <4>1, <6>1
        <5> QED BY <5>1, <5>2, <5>3
      <4> QED BY <4>1, <4>2, <4>3, <4>4
    <3> QED BY <1>1, <2>1, <3>1 DEF Untroubled
  <2> QED BY <2>5, <2>6, <2>7 DEF ArchInv
<1>9. CASE ~Archives!Acceptable(e)
  <2>1. import' = [pc |-> "refused", manifest |-> import.manifest, received |-> import.received,
                   rest |-> import.rest]
    BY <1>1, <1>2, <1>3, <1>9 DEF Archives!ReceiveEntry
  <2>2. Receives' BY <2>1 DEF Receives
  <2>3. ArchiveForms' /\ Written' BY <1>1, <2>1 DEF ArchInv, ArchiveForms, Written
  <2>4. ASSUME honest
        PROVE  \E k \in DOMAIN export.image.scripts : export.image.scripts[k].body > SmallBytes
    <3>1. PICK m, i : m = import.manifest[1] /\ i = export.image OBVIOUS
    <3>2. /\ import.manifest = stream.manifest
          /\ n + Len(import.rest) = Len(stream.entries)
          /\ \A k \in DOMAIN import.received : import.received[k] = stream.entries[k]
          /\ \A k \in DOMAIN import.rest : import.rest[k] = stream.entries[n + k]
      BY <1>1, <1>3, <2>4 DEF ArchInv, Untroubled
    <3>3. /\ stream # Archives!NoStream /\ IsSequence(stream.entries)
          /\ i \in ExportedImages
      BY <1>1, <3>1 DEF ArchInv, ArchiveForms
    <3>4. /\ Describes(m, i) /\ Len(stream.entries) = Len(l)
          /\ \A k \in DOMAIN stream.entries : stream.entries[k] = Archives!Entry(l[k])
      BY <1>3, <2>4, <3>1, <3>2, <3>3 DEF ArchInv, Written
    <3>5. /\ IsSequence(l) /\ W = {l[k].file : k \in DOMAIN l}
          /\ \A k \in DOMAIN l : Archives!Sha(l[k].file) = l[k].sha
          /\ \A j, k \in DOMAIN l : l[j].file = l[k].file => j = k
      BY <1>2, <1>3, <1>7, Wanted, ListedOnce
    <3>6. /\ Len(l) \in Nat /\ DOMAIN l = 1 .. Len(l) /\ DOMAIN stream.entries = 1 .. Len(l)
      BY <3>3, <3>4, <3>5, Sequences
    <3>7. n + 1 \in DOMAIN l /\ e = Archives!Entry(l[n + 1])
      <4>1. /\ n \in Nat /\ Len(import.rest) \in Nat /\ Len(import.rest) >= 1
            /\ n + Len(import.rest) = Len(l)
        BY <1>4, <3>2, <3>4
      <4>2. n + 1 \in DOMAIN l /\ 1 \in 1 .. Len(import.rest)
        <5>1. PICK u, w : u = Len(import.rest) /\ w = Len(l) OBVIOUS
        <5>2. n \in Nat /\ u \in Nat /\ u >= 1 /\ n + u = w /\ w \in Nat BY <3>6, <4>1, <5>1
        <5>3. n + 1 \in 1 .. w /\ 1 \in 1 .. u BY <5>2
        <5> QED BY <3>6, <5>1, <5>3
      <4>3. e = stream.entries[n + 1] BY <1>4, <3>2, <4>2
      <4> QED BY <3>4, <3>6, <4>2, <4>3
    <3>8. PICK x : x = l[n + 1] OBVIOUS
    <3>9. e.name = x.file /\ e.plain = TRUE /\ e.data = x.sha BY <3>7, <3>8 DEF Archives!Entry
    <3>10. e.name \in W /\ e.data = Archives!Sha(e.name) BY <3>5, <3>7, <3>8, <3>9
    <3>11. e.name \notin R
      <4> SUFFICES ASSUME NEW k \in 1 .. n, import.received[k].name = e.name PROVE FALSE
        BY <1>6
      <4>0. k \in DOMAIN l
        <5>1. n \in Nat /\ n + 1 \in 1 .. Len(l) /\ Len(l) \in Nat BY <1>4, <3>6, <3>7
        <5> QED BY <3>6, <5>1
      <4>1. k \in DOMAIN l /\ import.received[k] = Archives!Entry(l[k])
        BY <1>4, <3>2, <3>4, <3>6, <4>0
      <4>2. import.received[k].name = l[k].file BY <4>1 DEF Archives!Entry
      <4>3. k = n + 1 BY <3>5, <3>7, <3>8, <3>9, <4>1, <4>2
      <4> QED BY <1>4, <4>3
    <3>12. e.name[1] # "p" /\ ~(e.data <= SmallBytes)
      BY <1>5, <1>7, <1>9, <3>9, <3>10, <3>11
      DEF Archives!Acceptable, Archives!PlainFile, Archives!Checksum
    <3>13. IsManifest(m) /\ l = Archives!Listed(m) BY <1>3, <3>1, <3>4 DEF Describes
    <3>14. \/ x = m.table \/ (\E j \in DOMAIN m.parts : x = m.parts[j])
           \/ (\E j \in DOMAIN m.scripts : x = m.scripts[j])
      BY <3>7, <3>8, <3>13, ListedIs DEF IsManifest
    <3>15. x # m.table
      BY <3>4, <3>9, <3>12, ArchivesAssumption DEF Describes
    <3>16. ASSUME NEW j \in DOMAIN m.parts PROVE x # m.parts[j]
      <4>1. m.parts[j].file = Archives!PartitionFile(m.parts[j].number)
        BY <3>4 DEF Describes, Archives!Valid
      <4>2. PICK p : p = m.parts[j].number OBVIOUS
      <4>3. m.parts[j].file[1] = "p" BY <4>1, <4>2 DEF Archives!PartitionFile
      <4> QED BY <3>9, <3>12, <4>3
    <3>17. PICK j \in DOMAIN m.scripts : x = m.scripts[j] BY <3>14, <3>15, <3>16
    <3>18. j \in DOMAIN i.scripts /\ x.sha = i.scripts[j].body
      BY <3>3, <3>4, <3>17, ArchivesAssumption, ScriptDescribed
    <3>19. i.scripts[j].body \in Nat BY <3>3, <3>18, ArchivesAssumption
    <3> QED BY <3>1, <3>9, <3>12, <3>18, <3>19, ArchivesAssumption
  <2>5. Untroubled' BY <1>1, <2>1, <2>4 DEF Untroubled
  <2> QED BY <2>2, <2>3, <2>5 DEF ArchInv
<1> QED BY <1>8, <1>9

\* The manifest that an export writes describes its image.
LEMMA ManifestDescribes ==
    ASSUME ArchInv, Archives!Valid(Archives!Manifest),
           Len(export.opened) = Len(Archives!FilesOf(export.image))
    PROVE  Describes(Archives!Manifest, export.image)
<1>1. PICK i : i = export.image OBVIOUS
<1>2. i \in ExportedImages /\ IsSequence(i.parts) /\ IsSequence(i.scripts)
  BY <1>1, ArchivesAssumption DEF ArchInv, ArchiveForms
<1>3. PICK F : F = Archives!FilesOf(i) OBVIOUS
<1>4. PICK sha : sha = [f \in {<<"table">>} \cup {Archives!PartitionFile(i.parts[k].number) : k \in DOMAIN i.parts} |->
                           export.opened[CHOOSE k \in DOMAIN F : F[k] = f]]
  OBVIOUS
<1>5. PICK a, b, t :
         /\ a = [k \in DOMAIN i.parts |->
                    [number |-> i.parts[k].number, fs |-> i.parts[k].fs,
                     file |-> Archives!PartitionFile(i.parts[k].number),
                     sha |-> sha[Archives!PartitionFile(i.parts[k].number)]]]
         /\ b = [k \in DOMAIN i.scripts |->
                    [name |-> i.scripts[k].name, file |-> Archives!ScriptFile(i.scripts[k].name),
                     sha |-> i.scripts[k].body, root |-> i.scripts[k].root]]
         /\ t = IF i.kind = "disk" THEN [file |-> <<"table">>, sha |-> sha[<<"table">>]] ELSE Archives!NoTable
  OBVIOUS
<1>6. PICK m : m = [kind |-> i.kind, sector |-> i.sector, root |-> i.root, format |-> 0,
                    text |-> i.text, table |-> t, parts |-> a, scripts |-> b]
  OBVIOUS
<1>7. PICK w : w = [m EXCEPT !.format = Archives!RequiredFormat(m)] OBVIOUS
<1>8. w = Archives!Manifest BY <1>1, <1>3, <1>4, <1>5, <1>6, <1>7 DEF Archives!Manifest
<1>9. /\ DOMAIN a = DOMAIN i.parts /\ DOMAIN b = DOMAIN i.scripts
      /\ IsSequence(a) /\ IsSequence(b)
  <2>1. /\ Len(i.parts) \in Nat /\ DOMAIN i.parts = 1 .. Len(i.parts)
        /\ Len(i.scripts) \in Nat /\ DOMAIN i.scripts = 1 .. Len(i.scripts)
    BY <1>2, Sequences
  <2>2. a = [k \in 1 .. Len(i.parts) |-> a[k]] /\ DOMAIN a = 1 .. Len(i.parts) BY <1>5, <2>1
  <2>3. b = [k \in 1 .. Len(i.scripts) |-> b[k]] /\ DOMAIN b = 1 .. Len(i.scripts) BY <1>5, <2>1
  <2>4. IsSequence(a) BY <2>1, <2>2, SequenceOf
  <2>5. IsSequence(b) BY <2>1, <2>3, SequenceOf
  <2> QED BY <2>1, <2>2, <2>3, <2>4, <2>5
<1>10. /\ w.kind = i.kind /\ w.root = i.root /\ w.parts = a /\ w.scripts = b /\ w.table = t
       /\ w.format = Archives!RequiredFormat(m)
  BY <1>6, <1>7
<1>11. Archives!RequiredFormat(w) = Archives!RequiredFormat(m)
  <2>1. m.kind = w.kind /\ m.scripts = w.scripts BY <1>6, <1>10
  <2> QED BY <2>1 DEF Archives!RequiredFormat
<1>12. [k \in DOMAIN w.parts |-> w.parts[k].number] = [k \in DOMAIN i.parts |-> i.parts[k].number]
  <2>1. \A k \in DOMAIN i.parts : a[k].number = i.parts[k].number BY <1>5
  <2> QED BY <1>9, <1>10, <2>1
<1>13. [k \in DOMAIN w.scripts |-> <<w.scripts[k].name, w.scripts[k].sha, w.scripts[k].root>>]
         = [k \in DOMAIN i.scripts |-> <<i.scripts[k].name, i.scripts[k].body, i.scripts[k].root>>]
  <2>1. \A k \in DOMAIN i.scripts : /\ b[k].name = i.scripts[k].name /\ b[k].sha = i.scripts[k].body
                                    /\ b[k].root = i.scripts[k].root
    BY <1>5
  <2> QED BY <1>9, <1>10, <2>1
<1>14. t.sha \in {0, 1, 2}
  <2>1. CASE i.kind # "disk" BY <1>5, <2>1 DEF Archives!NoTable
  <2>2. CASE i.kind = "disk"
    <3>1. PICK p, q : p = [k \in DOMAIN i.parts |-> Archives!PartitionFile(i.parts[k].number)]
                      /\ q = <<<<"table">>>>
      OBVIOUS
    <3>2. F = Chain(q, p) BY <1>3, <2>2, <3>1 DEF Archives!FilesOf, Chain
    <3>3. q \in Seq({<<"table">>}) /\ Len(q) = 1 /\ q[1] = <<"table">> BY <3>1
    <3>4. IsSequence(q) /\ DOMAIN q = 1 .. 1 BY <3>3, SequenceIs
    <3>5. Len(i.parts) \in Nat /\ DOMAIN i.parts = 1 .. Len(i.parts) BY <1>2, Sequences
    <3>6. IsSequence(p)
      <4>1. p = [k \in 1 .. Len(i.parts) |-> p[k]] BY <3>1, <3>5
      <4> QED BY <3>5, <4>1, SequenceOf
    <3>7. Chained(q, p, F) BY <3>2, <3>4, <3>6, Joined
    <3>8. IsSequence(F) /\ 1 \in DOMAIN F /\ F[1] = <<"table">>
      <4>1. 1 \in DOMAIN q BY <3>4
      <4> QED BY <3>3, <3>7, <4>1 DEF Chained
    <3>9. PICK j : j = CHOOSE k \in DOMAIN F : F[k] = <<"table">> OBVIOUS
    <3>10. j \in DOMAIN F BY <3>8, <3>9
    <3>11. DOMAIN F = DOMAIN export.opened
      <4>1. IsSequence(export.opened) BY DEF ArchInv, ArchiveForms
      <4>2. DOMAIN export.opened = 1 .. Len(export.opened) BY <4>1, Sequences
      <4>3. DOMAIN F = 1 .. Len(F) BY <3>8, Sequences
      <4> QED BY <1>1, <1>3, <4>2, <4>3
    <3>12. export.opened[j] \in {1, 2} BY <3>10, <3>11 DEF ArchInv, ArchiveForms
    <3>13. sha[<<"table">>] = export.opened[j] BY <1>4, <3>9
    <3>14. t.sha = sha[<<"table">>] BY <1>5, <2>2
    <3> QED BY <3>12, <3>13, <3>14
  <2> QED BY <2>1, <2>2
<1>15. IsManifest(w) BY <1>9, <1>10 DEF IsManifest
<1>16. Archives!Valid(w) BY <1>8
<1>17. Describes(w, i) BY <1>10, <1>11, <1>12, <1>13, <1>14, <1>15, <1>16 DEF Describes
<1> QED BY <1>1, <1>8, <1>17

LEMMA WriteArchiveKeeps == ASSUME ArchInv, Archives!WriteArchive PROVE ArchInv'
<1>1. /\ export.pc = "open" /\ stream = Archives!NoStream /\ honest /\ import.pc = "idle"
      /\ UNCHANGED <<files, import, honest>>
      /\ Len(export.opened) = Len(Archives!FilesOf(export.image))
  BY DEF ArchInv, ArchiveForms, Archives!WriteArchive
<1>2. export = [pc |-> export.pc, image |-> export.image, opened |-> export.opened]
  BY DEF ArchInv, ArchiveForms
<1>3. PICK m : m = Archives!Manifest OBVIOUS
<1>4. CASE Archives!Valid(m)
  <2>1. Describes(m, export.image) BY <1>1, <1>3, <1>4, ManifestDescribes
  <2>2. PICK l, e : l = Archives!Listed(m) /\ e = [k \in DOMAIN l |-> Archives!Entry(l[k])] OBVIOUS
  <2>3. IsManifest(m) BY <2>1 DEF Describes
  <2>4. IsSequence(e) /\ Len(e) = Len(l) /\ \A k \in DOMAIN e : e[k] = Archives!Entry(l[k])
    BY <2>2, <2>3, EntriesOf
  <2>5. /\ stream' = [manifest |-> <<m>>, cut |-> FALSE, entries |-> e]
        /\ export' = [export EXCEPT !.pc = "written"]
    BY <1>3, <1>4, <2>2 DEF Archives!WriteArchive
  <2>6. export' = [pc |-> "written", image |-> export.image, opened |-> export.opened]
    BY <1>2, <2>5
  <2>7. Manifested(<<m>>) BY <2>3 DEF Manifested
  <2>8. ArchiveForms'
    BY <1>1, <2>4, <2>5, <2>6, <2>7 DEF ArchInv, ArchiveForms, Manifested, IsManifest
  <2>9. Written'
    <3>1. stream'.manifest # <<>> /\ stream'.manifest[1] = m /\ ~stream'.cut
      BY <2>5
    <3>2. export'.image = export.image /\ stream'.entries = e BY <2>5, <2>6
    <3> QED BY <2>1, <2>2, <2>4, <3>1, <3>2 DEF Written
  <2>10. Untroubled' BY <1>1 DEF Untroubled
  <2> QED BY <1>1, <2>8, <2>9, <2>10, ReceivesKept DEF ArchInv
<1>5. CASE ~Archives!Valid(m)
  <2>1. export' = [export EXCEPT !.pc = "failed"] /\ UNCHANGED stream
    BY <1>3, <1>5 DEF Archives!WriteArchive
  <2>2. export' = [pc |-> "failed", image |-> export.image, opened |-> export.opened]
    BY <1>2, <2>1
  <2>3. ArchiveForms' BY <1>1, <2>1, <2>2 DEF ArchInv, ArchiveForms
  <2>4. Written' /\ Untroubled' BY <1>1, <2>1 DEF Written, Untroubled
  <2> QED BY <1>1, <2>3, <2>4, ReceivesKept DEF ArchInv
<1> QED BY <1>4, <1>5

LEMMA ArchiveStep == ASSUME ArchInv, Archives!Next PROVE ArchInv'
BY OpenKeeps, RecaptureKeeps, WriteArchiveKeeps, OnTheWayKeeps, HandMadeKeeps, ImportOpensKeeps,
   ReceiveEntryKeeps, ReceiveEndsKeeps DEF Archives!Next

LEMMA ArchiveStays == ASSUME ArchInv, UNCHANGED archiveVars PROVE ArchInv'
<1>1. UNCHANGED <<files, export, stream, import, honest>> BY DEF archiveVars
<1>2. ArchiveForms' /\ Written' /\ Untroubled'
  BY <1>1 DEF ArchInv, ArchiveForms, Manifested, IsManifest, Written, Untroubled
<1> QED BY <1>1, <1>2, ReceivesKept DEF ArchInv

\* ExportImports: nothing is lost between an export and its import.
LEMMA ExportsImport == ASSUME ArchInv PROVE Archives!ExportImports
<1> SUFFICES ASSUME honest, import.pc \in {"receive", "imported", "refused"},
                    NEW m, NEW i, m = stream.manifest[1], i = export.image
             PROVE  /\ import.pc = "refused" => \/ ~Archives!Fits(m)
                                                \/ \E s \in Archives!Range(i.scripts) : s.body > SmallBytes
                    /\ m.kind = i.kind /\ m.root = i.root
                    /\ [k \in DOMAIN m.parts |-> m.parts[k].number] = [k \in DOMAIN i.parts |-> i.parts[k].number]
                    /\ [k \in DOMAIN m.scripts |-> <<m.scripts[k].name, m.scripts[k].sha, m.scripts[k].root>>]
                         = [k \in DOMAIN i.scripts |-> <<i.scripts[k].name, i.scripts[k].body, i.scripts[k].root>>]
                    /\ m.format = 3 <=> \/ i.kind = "partition"
                                        \/ \E s \in Archives!Range(i.scripts) : s.root # 0
  BY DEF Archives!ExportImports
<1>1. Describes(m, i) BY DEF ArchInv, ArchiveForms, Written
<1>2. i \in ExportedImages /\ IsSequence(i.parts) /\ IsSequence(i.scripts)
  BY ArchivesAssumption DEF ArchInv, ArchiveForms
<1>3. import.pc = "refused" => \/ ~Archives!Fits(m)
                              \/ \E s \in Archives!Range(i.scripts) : s.body > SmallBytes
  BY DEF ArchInv, Untroubled, Archives!Range
<1>4. \A k : k \in DOMAIN m.scripts <=> k \in DOMAIN i.scripts
  <2>1. PICK f, g : /\ f = [j \in DOMAIN m.scripts |-> <<m.scripts[j].name, m.scripts[j].sha, m.scripts[j].root>>]
                    /\ g = [j \in DOMAIN i.scripts |-> <<i.scripts[j].name, i.scripts[j].body, i.scripts[j].root>>]
    OBVIOUS
  <2>2. f = g BY <1>1, <2>1 DEF Describes
  <2> QED BY <2>1, <2>2
<1>5. \A k \in DOMAIN m.scripts : m.scripts[k].root = i.scripts[k].root
  <2> SUFFICES ASSUME NEW k \in DOMAIN m.scripts PROVE m.scripts[k].root = i.scripts[k].root
    OBVIOUS
  <2>1. PICK f, g : /\ f = [j \in DOMAIN m.scripts |-> <<m.scripts[j].name, m.scripts[j].sha, m.scripts[j].root>>]
                    /\ g = [j \in DOMAIN i.scripts |-> <<i.scripts[j].name, i.scripts[j].body, i.scripts[j].root>>]
    OBVIOUS
  <2>2. f = g BY <1>1, <2>1 DEF Describes
  <2>3. f[k] = g[k] BY <2>2
  <2> QED BY <1>4, <2>1, <2>3
<1>6. m.format = 3 <=> i.kind = "partition" \/ \E s \in Archives!Range(i.scripts) : s.root # 0
  <2>1. m.format = 3 <=> m.kind = "partition" \/ \E k \in DOMAIN m.scripts : m.scripts[k].root # 0
    BY <1>1 DEF Describes, Archives!RequiredFormat, Archives!FORMAT, Archives!COMPATIBLE_FORMAT
  <2>2. (\E k \in DOMAIN m.scripts : m.scripts[k].root # 0)
          <=> \E s \in Archives!Range(i.scripts) : s.root # 0
    BY <1>4, <1>5 DEF Archives!Range
  <2>3. m.kind = i.kind BY <1>1 DEF Describes
  <2> QED BY <2>1, <2>2, <2>3
<1> QED BY <1>1, <1>3, <1>6 DEF Describes

\* An import that ended well: what it received are the files of its manifest.
LEMMA ReceivedAll ==
    ASSUME ArchInv, import.pc = "imported",
           NEW m, m = import.manifest[1], NEW l, l = Archives!Listed(m),
           NEW r, r = import.received
    PROVE  /\ IsManifest(m) /\ Archives!Valid(m) /\ IsSequence(l) /\ IsSequence(r)
           /\ \A j, k \in DOMAIN l : l[j].file = l[k].file => j = k
           /\ \A j, k \in DOMAIN r : r[j].name = r[k].name => j = k
           /\ \A k \in DOMAIN r : \E j \in DOMAIN l : l[j].file = r[k].name /\ l[j].sha = r[k].data
           /\ \A x : x \in Archives!ReceivedFiles <=> \E k \in DOMAIN r : r[k].name = x
           /\ \A k \in DOMAIN l : \E j \in DOMAIN r : r[j].name = l[k].file
<1>1. /\ import.manifest # <<>> /\ Manifested(import.manifest) /\ Archives!Valid(m)
      /\ IsSequence(r)
      /\ \A k \in DOMAIN r : r[k].name \in Archives!ListedFiles /\ r[k].data = Archives!Sha(r[k].name)
      /\ \A j, k \in DOMAIN r : r[j].name = r[k].name => j = k
      /\ Archives!ListedFiles \subseteq Archives!ReceivedFiles
  BY DEF ArchInv, Receives
<1>2. IsManifest(m) BY <1>1 DEF Manifested
<1>3. /\ IsSequence(l) /\ Archives!ListedFiles = {l[k].file : k \in DOMAIN l}
      /\ \A k \in DOMAIN l : Archives!Sha(l[k].file) = l[k].sha
  BY <1>1, Wanted
<1>4. \A j, k \in DOMAIN l : l[j].file = l[k].file => j = k BY <1>1, ListedOnce
<1>5. Archives!ReceivedFiles = {r[k].name : k \in DOMAIN r}
  <2>1. PICK S : S = Archives!Range(r) OBVIOUS
  <2>2. S = {r[k] : k \in DOMAIN r} BY <2>1 DEF Archives!Range
  <2>3. Archives!ReceivedFiles = {x.name : x \in S} BY <2>1 DEF Archives!ReceivedFiles
  <2> QED BY <2>2, <2>3
<1>6. \A k \in DOMAIN r : \E j \in DOMAIN l : l[j].file = r[k].name /\ l[j].sha = r[k].data
  BY <1>1, <1>3
<1>7. \A k \in DOMAIN l : \E j \in DOMAIN r : r[j].name = l[k].file
  BY <1>1, <1>3, <1>5
<1> QED BY <1>1, <1>2, <1>3, <1>4, <1>5, <1>6, <1>7

\* ImportedIsWhole: as many entries as files, each one of them.
LEMMA ImportsAreWhole == ASSUME ArchInv PROVE Archives!ImportedIsWhole
<1> SUFFICES ASSUME import.pc = "imported"
             PROVE  /\ Len(import.received) = Len(Archives!Listed(import.manifest[1]))
                    /\ \A e \in Archives!Range(import.received) :
                          \E x \in Archives!Range(Archives!Listed(import.manifest[1])) :
                             x.file = e.name /\ x.sha = e.data
  BY DEF Archives!ImportedIsWhole
<1>1. PICK m, r : m = import.manifest[1] /\ r = import.received OBVIOUS
<1>2. PICK l : l = Archives!Listed(m) OBVIOUS
<1>3. /\ IsSequence(l) /\ IsSequence(r)
      /\ \A j, k \in DOMAIN l : l[j].file = l[k].file => j = k
      /\ \A j, k \in DOMAIN r : r[j].name = r[k].name => j = k
      /\ \A k \in DOMAIN r : \E j \in DOMAIN l : l[j].file = r[k].name /\ l[j].sha = r[k].data
      /\ \A k \in DOMAIN l : \E j \in DOMAIN r : r[j].name = l[k].file
  BY <1>1, <1>2, ReceivedAll
<1>4. Len(r) \in Nat /\ DOMAIN r = 1 .. Len(r) /\ Len(l) \in Nat /\ DOMAIN l = 1 .. Len(l)
  BY <1>3, Sequences
<1>5. PICK f, g, T : /\ f = [k \in DOMAIN l |-> l[k].file] /\ g = [k \in DOMAIN r |-> r[k].name]
                     /\ T = {l[k].file : k \in DOMAIN l}
  OBVIOUS
<1>6. Values(f, Len(l), T) /\ Once(f, Len(l)) BY <1>3, <1>4, <1>5 DEF Values, Once
<1>7. Values(g, Len(r), T) /\ Once(g, Len(r))
  <2>1. \A k \in DOMAIN r : g[k] = r[k].name /\ \E j \in DOMAIN l : l[j].file = r[k].name BY <1>3, <1>5
  <2>2. ASSUME NEW k \in DOMAIN r PROVE g[k] \in T BY <1>5, <2>1
  <2>3. ASSUME NEW x \in T PROVE \E k \in DOMAIN r : g[k] = x
    <3>1. PICK k \in DOMAIN l : x = l[k].file BY <1>5
    <3>2. PICK j \in DOMAIN r : r[j].name = l[k].file BY <1>3
    <3> QED BY <2>1, <3>1, <3>2
  <2>4. Once(g, Len(r)) BY <1>3, <1>4, <1>5 DEF Once
  <2> QED BY <1>4, <2>2, <2>3, <2>4 DEF Values
<1>8. Cardinality(T) = Len(l) /\ Cardinality(T) = Len(r) BY <1>4, <1>6, <1>7, CountOf
<1>9. \A e \in Archives!Range(r) : \E x \in Archives!Range(l) : x.file = e.name /\ x.sha = e.data
  BY <1>3 DEF Archives!Range
<1> QED BY <1>1, <1>2, <1>8, <1>9

\* Two positions at the same distance are one.
LEMMA SameOffset == \A o, j, k \in Int : o + j = o + k => j = k
OBVIOUS

\* ImportedIsRestorable: what a manifest must be for its image to be restored.
LEMMA ImportsAreRestorable == ASSUME ArchInv PROVE Archives!ImportedIsRestorable
<1> SUFFICES ASSUME import.pc = "imported", NEW m, m = import.manifest[1],
                    NEW N, N = {p.number : p \in Archives!Range(m.parts)}
             PROVE  /\ (m.kind = "disk") = (<<"table">> \in Archives!ReceivedFiles)
                    /\ m.kind = "partition" => N = {1}
                    /\ Archives!Cardinality(N) = Len(m.parts) /\ N # {}
                    /\ \A p \in Archives!Range(m.parts) :
                          /\ p.fs \in [disk |-> {"ext4", "btrfs", "swap"},
                                      partition |-> {"ext4", "btrfs"}][m.kind]
                          /\ Archives!PartitionFile(p.number) \in Archives!ReceivedFiles
                    /\ m.root \in N \cup {0}
                    /\ \A s \in Archives!Range(m.scripts) : s.root \in N \cup {0}
  BY DEF Archives!ImportedIsRestorable
<1>1. PICK l, r : l = Archives!Listed(m) /\ r = import.received OBVIOUS
<1>2. /\ IsManifest(m) /\ Archives!Valid(m) /\ IsSequence(l)
      /\ \A j, k \in DOMAIN l : l[j].file = l[k].file => j = k
      /\ \A k \in DOMAIN r : \E j \in DOMAIN l : l[j].file = r[k].name /\ l[j].sha = r[k].data
      /\ \A x : x \in Archives!ReceivedFiles <=> \E k \in DOMAIN r : r[k].name = x
      /\ \A k \in DOMAIN l : \E j \in DOMAIN r : r[j].name = l[k].file
  BY <1>1, ReceivedAll
<1>3. \A x : x \in Archives!ReceivedFiles <=> \E k \in DOMAIN l : l[k].file = x
  BY <1>2
<1>4. IsSequence(m.parts) /\ IsSequence(m.scripts) BY <1>2 DEF IsManifest
<1>5. /\ \A k \in DOMAIN l : \/ l[k] = m.table /\ m.table # Archives!NoTable
                             \/ \E j \in DOMAIN m.parts : l[k] = m.parts[j]
                             \/ \E j \in DOMAIN m.scripts : l[k] = m.scripts[j]
      /\ m.table # Archives!NoTable => \E k \in DOMAIN l : l[k] = m.table
  BY <1>1, <1>4, ListedIs
<1>6. PICK o \in Nat : \A j \in DOMAIN m.parts : o + j \in DOMAIN l /\ l[o + j] = m.parts[j]
  BY <1>1, <1>4, ListedIs
<1>7. /\ IF m.kind = "disk" THEN m.table # Archives!NoTable /\ m.table.file = <<"table">>
         ELSE m.table = Archives!NoTable
      /\ m.parts # <<>>
      /\ m.kind = "partition" => Len(m.parts) = 1 /\ m.parts[1].number = 1
      /\ \A k \in DOMAIN m.parts :
            /\ m.parts[k].fs \in [disk |-> {"ext4", "btrfs", "swap"}, partition |-> {"ext4", "btrfs"}][m.kind]
            /\ m.parts[k].file = Archives!PartitionFile(m.parts[k].number)
      /\ \A k \in DOMAIN m.scripts : m.scripts[k].file = Archives!ScriptFile(m.scripts[k].name)
      /\ Archives!RootsArchived(m)
  BY <1>2 DEF Archives!Valid
<1>8. /\ Len(m.parts) \in Nat /\ DOMAIN m.parts = 1 .. Len(m.parts) /\ Len(m.parts) >= 1
  BY <1>4, <1>7, Sequences
<1>9. \A x : x \in N <=> \E k \in DOMAIN m.parts : m.parts[k].number = x
  <2>1. PICK R : R = Archives!Range(m.parts) OBVIOUS
  <2>2. R = {m.parts[k] : k \in DOMAIN m.parts} BY <2>1 DEF Archives!Range
  <2>3. N = {p.number : p \in R} BY <2>1
  <2> QED BY <2>2, <2>3
<1>10. (m.kind = "disk") = (<<"table">> \in Archives!ReceivedFiles)
  <2>1. ASSUME m.kind = "disk" PROVE <<"table">> \in Archives!ReceivedFiles
    BY <1>3, <1>5, <1>7, <2>1
  <2>2. ASSUME m.kind # "disk", <<"table">> \in Archives!ReceivedFiles PROVE FALSE
    <3>1. PICK k \in DOMAIN l : l[k].file = <<"table">> BY <1>3, <2>2
    <3>2. m.table = Archives!NoTable BY <1>7, <2>2
    <3>3. ASSUME NEW j \in DOMAIN m.parts PROVE m.parts[j].file # <<"table">>
      <4>1. PICK p : p = m.parts[j].number OBVIOUS
      <4>2. m.parts[j].file = <<"p", p>> BY <1>7, <4>1 DEF Archives!PartitionFile
      <4> QED BY <4>2
    <3>4. ASSUME NEW j \in DOMAIN m.scripts PROVE m.scripts[j].file # <<"table">>
      <4>1. PICK p : p = m.scripts[j].name OBVIOUS
      <4>2. m.scripts[j].file = <<"s", p>> BY <1>7, <4>1 DEF Archives!ScriptFile
      <4> QED BY <4>2
    <3> QED BY <1>5, <3>1, <3>2, <3>3, <3>4
  <2> QED BY <2>1, <2>2
<1>11. ASSUME m.kind = "partition" PROVE N = {1}
  <2>1. DOMAIN m.parts = 1 .. 1 /\ m.parts[1].number = 1 BY <1>7, <1>8, <1>11
  <2> QED BY <1>9, <2>1
<1>12. Archives!Cardinality(N) = Len(m.parts) /\ N # {}
  <2>1. PICK f : f = [k \in DOMAIN m.parts |-> m.parts[k].number] OBVIOUS
  <2>2. Values(f, Len(m.parts), N) BY <1>8, <1>9, <2>1 DEF Values
  <2>3. Once(f, Len(m.parts))
    <3> SUFFICES ASSUME NEW j \in DOMAIN m.parts, NEW k \in DOMAIN m.parts,
                        m.parts[j].number = m.parts[k].number
                 PROVE  j = k
      BY <1>8, <2>1 DEF Once
    <3>1. m.parts[j].file = m.parts[k].file BY <1>7
    <3>2. PICK a, b : a = o + j /\ b = o + k OBVIOUS
    <3>3. a \in DOMAIN l /\ l[a] = m.parts[j] /\ b \in DOMAIN l /\ l[b] = m.parts[k]
      BY <1>6, <3>2
    <3>4. a = b BY <1>2, <3>1, <3>3
    <3>5. j \in Int /\ k \in Int /\ o \in Int BY <1>6, <1>8
    <3>6. o + j = o + k BY <3>2, <3>4
    <3>7. j = k BY <3>5, <3>6, SameOffset
    <3> QED BY <3>7
  <2>4. Cardinality(N) = Len(m.parts) BY <1>8, <2>2, <2>3, CountOf
  <2>5. Archives!Cardinality(N) = Cardinality(N)
    BY DEF Archives!Cardinality, Cardinality
  <2>6. 1 \in DOMAIN m.parts BY <1>8
  <2> QED BY <1>9, <2>4, <2>5, <2>6
<1>13. ASSUME NEW p \in Archives!Range(m.parts)
       PROVE  /\ p.fs \in [disk |-> {"ext4", "btrfs", "swap"},
                           partition |-> {"ext4", "btrfs"}][m.kind]
              /\ Archives!PartitionFile(p.number) \in Archives!ReceivedFiles
  <2>1. PICK k \in DOMAIN m.parts : p = m.parts[k] BY DEF Archives!Range
  <2>2. o + k \in DOMAIN l /\ l[o + k].file = Archives!PartitionFile(p.number)
    BY <1>6, <1>7, <2>1
  <2> QED BY <1>3, <1>7, <2>1, <2>2
<1>14. \A x \in {m.root} \cup {m.scripts[k].root : k \in DOMAIN m.scripts} : x \in N \cup {0}
  BY <1>7, <1>9 DEF Archives!RootsArchived
<1>15. \A s \in Archives!Range(m.scripts) : s.root \in N \cup {0}
  BY <1>14 DEF Archives!Range
<1> QED BY <1>10, <1>11, <1>12, <1>13, <1>14, <1>15

(* ArchivesAreFaithful: an archive that was written is accepted and gives  *)
(* back the image (write.rs, read.rs), unless its manifest or a script of  *)
(* it is longer than an import takes; and whatever archive is accepted,    *)
(* however it was made or altered, is whole and can be restored; for       *)
(* whatever images, manifests and sizes.                                   *)
THEOREM ArchivesAreFaithful == Spec => []ArchiveIsFaithful
<1> DEFINE I == part = "archive" => ArchInv
<1>1. Init => I
  BY ArchiveStarts DEF Init
<1>2. I /\ [Next]_vars => I'
  BY ArchiveStep, ArchiveStays DEF Next, vars
<1>3. I => ArchiveIsFaithful
  BY ExportsImport, ImportsAreWhole, ImportsAreRestorable DEF ArchiveIsFaithful
<1> QED BY <1>1, <1>2, <1>3, PTL DEF Spec
=============================================================================

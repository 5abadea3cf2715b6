---------------------------- MODULE DiskImaging ----------------------------
(***************************************************************************)
(* What a task does to the disks of the machine it runs on: capturing a    *)
(* disk or a partition into the image, and restoring the image.            *)
(*                                                                         *)
(* A disk holds what its label is told from (boot, the kind of its MBR,    *)
(* and header, whether a GPT header is there), a partition table, the      *)
(* kernel's view of it and, by the sector where it begins, each filesystem *)
(* that was ever written: it stays when the table changes, and any         *)
(* partition that begins there shows it.  A filesystem is a record: fs     *)
(* (the detected type), uuid, label, size (bytes it spans), data (what is  *)
(* stored in it) and pages (page sizes at whose end a swap signature       *)
(* stands).  Bytes and sectors are small numbers.                          *)
(***************************************************************************)
EXTENDS Integers, Sequences, FiniteSets, FiniteSetsExt, Functions, SequencesExt

CONSTANTS
    Machine,        \* the devices that may be there, by name; their content is given for
                    \* every sector where a partition of a device or an import begins
    Fitted,         \* sets of devices the machine may start with
    Pluggable,      \* devices somebody may plug in later
    Imports,        \* images that were imported
    MinEntryBytes, HeaderSectors, EndOfBytes,   \* of GPT: MIN_ENTRY_BYTES, HEADER_SECTORS, 2^64
    BlockSize, BtrfsMinResize,
    PageSizes,
    Folded,         \* identifiers in lower case
    MaxOps          \* bound on tasks, crashes and devices plugged in

VARIABLES
    attached, disks,
    image,     \* what the server holds of the image a task is about
    source,    \* the disk as it was when its capture began
    job,       \* the task's future: pc, shape, partuuid, disk, targets, index
    ops

vars == <<attached, disks, image, source, job, ops>>

None == "none"
Garbage == [fs |-> None, uuid |-> None, label |-> None, size |-> 0, data |-> None, pages |-> {}]
Torn == [Garbage EXCEPT !.data = "torn"]
NoTable == [signature |-> FALSE, entryBytes |-> 0, count |-> 0, length |-> 0, entries |-> <<>>]
NoImage == [ready |-> FALSE, kind |-> None, sector |-> 0, table |-> NoTable, parts |-> <<>>, root |-> 0]
Idle == [pc |-> "idle", task |-> None, shape |-> None, partuuid |-> None,
         disk |-> None, targets |-> <<>>, index |-> 0]

Init == /\ attached \in Fitted
        /\ disks = Machine
        /\ image = NoImage
        /\ source = Garbage
        /\ job = Idle
        /\ ops = 0

Op == ops < MaxOps /\ ops' = ops + 1
At(pc) == job.pc = pc
Go(pc) == job' = [job EXCEPT !.pc = pc]
Fails == Go("failed")
Disk == disks[job.disk]

-----------------------------------------------------------------------------
(* What lsblk shows, and the disk that is imaged.                          *)

IsImagingCandidate(b) ==
    b.type = "disk" /\ ~b.ro /\ ~b.hotplug /\ ~b.removable /\ b.transport # "usb"

ContainsRoot(b) == b.root

(* mutant: the first of several candidates is taken.                       *)
FindTargetDiskFirst ==
    LET candidates == {d \in attached : IsImagingCandidate(disks[d])}
    IN  IF candidates = {} THEN None ELSE CHOOSE d \in candidates : TRUE

(* find_target_disk: the only candidate, unless the agent runs from it.    *)
FindTargetDisk ==
    LET candidates == {d \in attached : IsImagingCandidate(disks[d])}
    IN  IF Cardinality(candidates) # 1 \/ ContainsRoot(disks[CHOOSE d \in candidates : TRUE])
        THEN None
        ELSE CHOOSE d \in candidates : TRUE

Numbers(t) == DOMAIN t.entries
Bytes(e, sector) == (e.last + 1 - e.first) * sector
Size(b, n) == Bytes(b.known.entries[n], b.sector)
Sectors(e) == {e.first} \cup (e.first .. e.last)
(* What partition n holds, as the kernel shows it.                         *)
Content(b, n) == b.content[b.known.entries[n].first]
Children(b) == SetToSortSeq(Numbers(b.known), <)
SameId(x, y) == x # None /\ y # None /\ Folded[x] = Folded[y]

Filesystems == {"ext2", "ext3", "ext4", "vfat", "btrfs", "swap"}
IsExt(fs) == fs \in {"ext2", "ext3", "ext4"}
KindFstypes(kind) == IF kind = "disk" THEN Filesystems ELSE Filesystems \ {"swap"}

Target(number, dev, fs, size, c) ==
    [number |-> number, dev |-> dev, fs |-> fs, size |-> size, uuid |-> c.uuid, label |-> c.label]

(* BlockDevice::partition; None is no partition number.                    *)
Partition(b, partuuid) ==
    LET found == {n \in Numbers(b.known) : SameId(b.known.entries[n].partuuid, partuuid)}
    IN  IF found = {} THEN 0 ELSE Min(found)

-----------------------------------------------------------------------------
(* The partition table and its backup.                                     *)

(* Backup::parse accepts the table.                                        *)
Parses(t) == /\ t.signature /\ t.entryBytes >= MinEntryBytes
             /\ t.count * t.entryBytes <= t.length
             /\ \A n \in Numbers(t) : t.entries[n].first <= t.entries[n].last

RequiredSectors(t, sector) ==
    IF Numbers(t) = {} THEN 0
    ELSE Max({t.entries[n].last : n \in Numbers(t)}) + 1
         + (t.count * t.entryBytes + sector - 1) \div sector + HeaderSectors

(* Backup::partitions: every partition ends within 64 bits.                *)
Measurable(t, sector) == \A n \in Numbers(t) : (t.entries[n].last + 1) * sector < EndOfBytes

Label(b) == CASE b.boot = "none" -> "missing"
              [] b.boot = "plain" -> "dos"
              [] b.boot = "protective" -> IF b.header THEN "gpt" ELSE "protective"

(* backup_partition_table succeeds.                                        *)
BackedUp(b) == Label(b) = "gpt" /\ Parses(b.table) /\ Measurable(b.table, b.sector)

-----------------------------------------------------------------------------
(* Capturing.                                                              *)

(* A deploy takes any image of the kind that is ready.                     *)
StartTask(task, shape, partuuid) ==
    /\ Op /\ At("idle")
    /\ \/ task = "capture" /\ UNCHANGED image
       \/ /\ task = "restore" /\ image' \in Imports \cup {image}
          /\ image'.ready /\ image'.kind = shape
    /\ job' = [Idle EXCEPT !.pc = task, !.task = task, !.shape = shape, !.partuuid = partuuid]
    /\ UNCHANGED <<attached, disks, source>>

(* Capture::prepare; the server empties the image when it hears of it.     *)
CapturePrepare ==
    /\ At("capture")
    /\ IF FindTargetDisk = None THEN Fails /\ UNCHANGED <<image, source>>
       ELSE /\ job' = [job EXCEPT !.pc = "table", !.disk = FindTargetDisk]
            /\ image' = [NoImage EXCEPT !.kind = job.shape, !.sector = disks[FindTargetDisk].sector]
            /\ source' = disks[FindTargetDisk]
    /\ UNCHANGED <<attached, disks, ops>>

(* capture_table of both shapes.                                           *)
CaptureTable ==
    /\ At("table")
    /\ \/ /\ job.shape = "partition" /\ Go("select") /\ UNCHANGED image
       \/ /\ job.shape = "disk"
          /\ IF BackedUp(Disk)
             THEN Go("select") /\ image' = [image EXCEPT !.table = Disk.table]
             ELSE Fails /\ UNCHANGED image
    /\ UNCHANGED <<attached, disks, source, ops>>

Formatted(b) == SelectSeq(Children(b), LAMBDA n : Content(b, n).fs # None)

(* capture_plan of both shapes.                                            *)
CapturePlan ==
    LET wanted == IF job.shape = "disk" THEN Formatted(Disk) ELSE <<Partition(Disk, job.partuuid)>>
        found == 0 \notin Range(wanted)
        supported == \A n \in Range(wanted) : Content(Disk, n).fs \in KindFstypes(job.shape)
        number(n) == IF job.shape = "disk" THEN n ELSE 1
    IN  /\ At("select")
        /\ IF found /\ supported
           THEN job' = [job EXCEPT !.pc = "upload", !.index = 1,
                            !.targets = [i \in DOMAIN wanted |->
                                Target(number(wanted[i]), wanted[i], Content(Disk, wanted[i]).fs,
                                       Size(Disk, wanted[i]), Content(Disk, wanted[i]))]]
           ELSE Fails
        /\ UNCHANGED <<attached, disks, image, source, ops>>

Current == job.targets[job.index]

(* swap::capture takes the smallest page that ends in a signature.         *)
Captured(c) == IF c.fs # "swap" THEN c
               ELSE [Garbage EXCEPT !.fs = "swap", !.uuid = c.uuid, !.label = c.label,
                                    !.data = c.data, !.pages = {Min(c.pages)}]
CanCapture(c) == c.fs = "swap" => c.pages # {}

(* mutant: the end of partclone's output is taken for its success.         *)
UploadedAnyway(result) == TRUE
(* Output: the stream ends well only when partclone exits with success.    *)
Uploaded(result) == result = "success"

(* repair_filesystem: swap is not checked.                                 *)
Repaired(fs, result) == fs = "swap" \/ result # "unrepaired"

(* One partition: checked, cloned, uploaded.  partclone may be cut off     *)
(* after any part of its output.                                           *)
CaptureUpload(result) ==
    LET c == Content(Disk, Current.dev)
        whole == [c |-> Captured(c), number |-> Current.number, size |-> Current.size,
                  fs |-> Current.fs, uuid |-> Current.uuid, label |-> Current.label]
        part == IF result = "success" THEN whole ELSE [whole EXCEPT !.c = Torn]
    IN  /\ At("upload") /\ job.index <= Len(job.targets)
        /\ IF Repaired(Current.fs, result) /\ Uploaded(result) /\ CanCapture(c)
           THEN /\ job' = [job EXCEPT !.index = @ + 1]
                /\ image' = [image EXCEPT !.parts = Append(@, part)]
           ELSE Fails /\ UNCHANGED image
        /\ UNCHANGED <<attached, disks, source, ops>>

(* report_root, and the report that the task is finished; the report of    *)
(* the root may fail without failing the task.                             *)
HoldsSystem(t) == IsExt(t.fs) /\ Content(Disk, t.dev).data = "system"
RootPartition == LET systems == {t.number : t \in {s \in Range(job.targets) : HoldsSystem(s)}}
                 IN  IF Cardinality(systems) = 1 THEN Max(systems) ELSE 0
CaptureReport(root) ==
    /\ At("upload") /\ job.index > Len(job.targets) /\ root \in {0, RootPartition}
    /\ image' = [image EXCEPT !.root = root, !.ready = job.targets # <<>>]
    /\ Go("done")
    /\ UNCHANGED <<attached, disks, source, ops>>

-----------------------------------------------------------------------------
(* Restoring.                                                              *)

(* Restore::prepare.                                                       *)
RestorePrepare ==
    /\ At("restore")
    /\ IF image.parts = <<>> \/ FindTargetDisk = None THEN Fails
       ELSE job' = [job EXCEPT !.disk = FindTargetDisk,
                               !.pc = IF job.shape = "disk" THEN "fits" ELSE "plan"]
    /\ UNCHANGED <<attached, disks, image, source, ops>>

(* restore_partition_table's checks.                                       *)
TableFits(b, t) == /\ b.sector = image.sector
                   /\ Parses(t)
                   /\ b.sectors * b.sector >= RequiredSectors(t, image.sector) * image.sector

RestoreFits ==
    /\ At("fits") /\ (IF TableFits(Disk, image.table) THEN Go("zap") ELSE Fails)
    /\ UNCHANGED <<attached, disks, image, source, ops>>

Numbering == UNION {Numbers(Machine[d].table) : d \in DOMAIN Machine}
             \cup UNION {Numbers(i.table) : i \in Imports}

(* The kernel reads the table.                                             *)
Reread(b) == [b EXCEPT !.known = b.table]

(* sgdisk --zap-all, sgdisk --load-backup, partprobe: each may fail before *)
(* or after it had its effect, which is on the tables: no filesystem is    *)
(* wiped.                                                                  *)
Tool(pc, next, changed) ==
    /\ At(pc)
    /\ \/ disks' = [disks EXCEPT ![job.disk] = changed] /\ (Go(next) \/ Fails)
       \/ Fails /\ UNCHANGED disks
    /\ UNCHANGED <<attached, image, source, ops>>
Zap == Tool("zap", "load", [Disk EXCEPT !.boot = "none", !.header = FALSE, !.table = NoTable])
Load == Tool("load", "probe", [Disk EXCEPT !.boot = "protective", !.header = TRUE,
                                           !.table = image.table])
Probe == Tool("probe", "find", Reread(Disk))

(* The disk as the new table shows it.                                     *)
FindAgain ==
    /\ At("find")
    /\ IF FindTargetDisk = None THEN Fails
       ELSE job' = [job EXCEPT !.pc = "plan", !.disk = FindTargetDisk]
    /\ UNCHANGED <<attached, disks, image, source, ops>>

(* mutant: identifiers are compared as they are written.                   *)
TwinVerbatim(b, n, part) ==
    \E m \in Numbers(b.known) \ {n} :
        part.uuid # None /\ Content(b, m).uuid = part.uuid
(* A filesystem beside partition n that the image's one would duplicate.   *)
Twin(b, n, part) ==
    \E m \in Numbers(b.known) \ {n} :
        \/ SameId(Content(b, m).uuid, part.uuid)
        \/ part.label # None /\ Content(b, m).label = part.label

(* restore_plan of both shapes: where each partition goes.                 *)
DiskPlan == [i \in DOMAIN image.parts |-> image.parts[i].number]
DiskPlanned == Range(DiskPlan) \subseteq Numbers(Disk.known)
PartitionPlanned ==
    LET n == Partition(Disk, job.partuuid)
        part == image.parts[1]
    IN  /\ Len(image.parts) = 1 /\ part.number = 1
        /\ n # 0 /\ Size(Disk, n) >= part.size
        /\ Disk.sector = image.sector
        /\ ~Twin(Disk, n, part)

RestorePlan ==
    LET where(i) == IF job.shape = "disk" THEN DiskPlan[i] ELSE Partition(Disk, job.partuuid)
        planned == IF job.shape = "disk" THEN DiskPlanned ELSE PartitionPlanned
    IN  /\ At("plan")
        /\ IF planned
           THEN job' = [job EXCEPT !.pc = "write", !.index = 1,
                            !.targets = [i \in DOMAIN image.parts |->
                                Target(image.parts[i].number, where(i), image.parts[i].fs,
                                       Size(Disk, where(i)), image.parts[i])]]
           ELSE Fails
        /\ UNCHANGED <<attached, disks, image, source, ops>>

Stored == (CHOOSE p \in Range(image.parts) : p.number = Current.number).c

(* A partition is written: whatever else began in its sectors may be       *)
(* overwritten or, where the filesystem has no block in use, may not.      *)
Put(c) ==
    LET e == Disk.known.entries[Current.dev]
        others == (Sectors(e) \ {e.first}) \cap DOMAIN Disk.content
    IN  \E lost \in SUBSET {o \in others : Disk.content[o] # Torn} :
           disks' = [disks EXCEPT ![job.disk].content =
                        [o \in DOMAIN @ |-> IF o = e.first THEN c ELSE IF o \in lost THEN Torn ELSE @[o]]]

(* swap::restore takes nothing but a page with a signature at its end.     *)
IsSwapHeader(c) == c.pages # {} /\ Max(c.pages) \in PageSizes

(* restore_compressed begins to write; a swap header is checked before.    *)
WriteBegins ==
    /\ At("write") /\ job.index <= Len(job.targets)
    /\ \/ /\ Current.fs # "swap"
          /\ \/ Put(Torn) /\ (Go("writing") \/ Fails)
             \/ Fails /\ UNCHANGED disks
       \/ /\ Current.fs = "swap"
          /\ IF IsSwapHeader(Stored)
             THEN \/ /\ Put([Stored EXCEPT !.pages = @ \cup {q \in Content(Disk, Current.dev).pages :
                                                               q > Max(Stored.pages)}])
                     /\ Go("written")
                  \/ Put(Torn) /\ Fails
             ELSE Fails /\ UNCHANGED disks
    /\ UNCHANGED <<attached, image, source, ops>>

(* partclone wrote all it was sent and exits with success, or the transfer *)
(* or partclone failed.                                                    *)
WriteEnds ==
    /\ At("writing")
    /\ \/ Put(Stored) /\ Go("written")
       \/ Fails /\ UNCHANGED disks
    /\ UNCHANGED <<attached, image, source, ops>>

(* partition_bytes, ext_geometry and btrfs_geometry.                       *)
Available == Size(Disk, Current.dev)
Blocks(c) == c.size \div BlockSize
HasRoom(c) == Available \div BlockSize > Blocks(c)

(* grow: nothing to do for vfat and swap, nor for a filesystem that fills  *)
(* its partition, nor for a btrfs the kernel would not resize.             *)
Grows(c) == HasRoom(c) /\ (IsExt(c.fs) \/ (c.fs = "btrfs" /\ Available >= BtrfsMinResize))
Grown(c) == [c EXCEPT !.size = (Available \div BlockSize) * BlockSize]
NextPartition == job' = [job EXCEPT !.pc = "write", !.index = @ + 1]

GrowNot == /\ At("written") /\ ~Grows(Content(Disk, Current.dev))
           /\ NextPartition
           /\ UNCHANGED <<attached, disks, image, source, ops>>

(* How growing ends: the filesystem may have grown and the task fail.      *)
Ends(outcome) == \/ outcome = "grown" /\ NextPartition
                 \/ outcome # "grown" /\ Fails
Effect(outcome, c) == \/ outcome \in {"grown", "cut off", "still mounted"} /\ Put(Grown(c))
                      \/ outcome \notin {"grown", "still mounted"} /\ UNCHANGED disks

(* e2fsck -f -p leaves errors, or resize2fs fails at some point.           *)
ExtOutcomes == {"grown", "unchecked", "cut off"}
GrowExt == LET c == Content(Disk, Current.dev)
           IN  /\ At("written") /\ IsExt(c.fs) /\ Grows(c)
               /\ \E outcome \in ExtOutcomes : Effect(outcome, c) /\ Ends(outcome)
               /\ UNCHANGED <<attached, image, source, ops>>

(* Mounted, resized, and unmounted whether or not it grew.                 *)
BtrfsOutcomes == {"grown", "not mounted", "not resized", "still mounted"}
GrowBtrfs == LET c == Content(Disk, Current.dev)
             IN  /\ At("written") /\ c.fs = "btrfs" /\ Grows(c)
                 /\ \E outcome \in BtrfsOutcomes : Effect(outcome, c) /\ Ends(outcome)
                 /\ UNCHANGED <<attached, image, source, ops>>

RestoreDone == /\ At("write") /\ job.index > Len(job.targets) /\ Go("done")
               /\ UNCHANGED <<attached, disks, image, source, ops>>

-----------------------------------------------------------------------------
(* The result was reported; a restored machine also reboots.               *)
Reported == /\ job.pc \in {"done", "failed"} /\ job' = Idle
            /\ UNCHANGED <<attached, disks, image, source, ops>>

(* The task is cancelled, or the machine loses power and boots again.      *)
Crash == /\ Op /\ ~At("idle") /\ job' = Idle
         /\ disks' = [d \in DOMAIN disks |-> Reread(disks[d])]
         /\ UNCHANGED <<attached, image, source>>

PlugIn(d) == /\ Op /\ d \notin attached /\ attached' = attached \cup {d}
             /\ UNCHANGED <<disks, image, source, job>>

Partuuids == UNION {{Machine[d].table.entries[n].partuuid : n \in Numbers(Machine[d].table)} :
                      d \in DOMAIN Machine}

Next ==
    \/ \E task \in {"capture", "restore"} :
          \/ StartTask(task, "disk", None)
          \/ \E p \in Partuuids : StartTask(task, "partition", p)
    \/ CapturePrepare \/ CaptureTable \/ CapturePlan
    \/ \E result \in {"success", "broken", "unrepaired"} : CaptureUpload(result)
    \/ \E root \in {0} \cup Numbering : CaptureReport(root)
    \/ RestorePrepare \/ RestoreFits \/ Zap \/ Load \/ Probe \/ FindAgain \/ RestorePlan
    \/ WriteBegins \/ WriteEnds \/ GrowNot \/ GrowExt \/ GrowBtrfs \/ RestoreDone
    \/ Reported \/ Crash
    \/ \E d \in Pluggable : PlugIn(d)

Spec == Init /\ [][Next]_vars

-----------------------------------------------------------------------------
(* TypeOK: the future knows its disk and its place in its targets.         *)
TypeOK == /\ job.disk \in attached \cup {None}
          /\ job.index \in 0 .. Len(job.targets) + 1
          /\ job.pc \notin {"idle", "capture", "restore", "failed"} => job.disk # None

(* CapturedIsWhole: an image that became ready by a capture holds what the *)
(* disk held when the capture began: its table and every filesystem on it, *)
(* or the one partition asked for, and nothing that was cut off.  Its      *)
(* partitions are those of its table, and hold what they are said to hold, *)
(* unless the kernel still had others or a filesystem that an earlier      *)
(* table left there is longer than the partition.                          *)
Coherent(i) == \A p \in Range(i.parts) :
                  /\ p.c.size <= p.size
                  /\ i.kind = "disk" => /\ p.number \in Numbers(i.table)
                                        /\ p.c.size <= Bytes(i.table.entries[p.number], i.sector)
Disjoint(t) == \A m, n \in Numbers(t) : m # n => Sectors(t.entries[m]) \cap Sectors(t.entries[n]) = {}
Inside(b) == \A n \in Numbers(b.known) : Content(b, n).size <= Size(b, n)
CapturedIsWhole ==
    job.task = "capture" /\ At("done") /\ image.ready =>
        LET numbers == IF job.shape = "disk" THEN Range(Formatted(source))
                       ELSE {Partition(source, job.partuuid)}
        IN  /\ job.shape = "disk" => image.table = source.table
            /\ source.known = source.table /\ Inside(source) => Coherent(image)
            /\ {p.c : p \in Range(image.parts)} = {Captured(Content(source, n)) : n \in numbers}
            /\ Len(image.parts) = Cardinality(numbers)
            /\ image.root # 0 =>
                 {n \in numbers : IsExt(Content(source, n).fs) /\ Content(source, n).data = "system"}
                    = {IF job.shape = "disk" THEN image.root ELSE Partition(source, job.partuuid)}

(* RestoredIsImage: a restore that succeeded left every filesystem of the  *)
(* image in its partition, inside that partition, and filling it when it   *)
(* is of a kind that grows, if the image's partitions are of its table, do *)
(* not overlap and are as long as what they hold.                          *)
RestoredIsImage ==
    job.task = "restore" /\ At("done")
    /\ Coherent(image) /\ Disjoint(image.table) =>
        /\ job.shape = "disk" => Disk.table = image.table /\ Disk.known = image.table
        /\ \A i \in DOMAIN image.parts :
              LET p == image.parts[i]
                  n == IF job.shape = "disk" THEN p.number ELSE Partition(Disk, job.partuuid)
                  c == Content(Disk, n)
              IN  /\ [c EXCEPT !.size = 0, !.pages = {}] = [p.c EXCEPT !.size = 0, !.pages = {}]
                  /\ p.c.pages \subseteq c.pages
                  /\ c.size <= Size(Disk, n)
                  /\ IsExt(c.fs) \/ (c.fs = "btrfs" /\ Size(Disk, n) >= BtrfsMinResize) =>
                        c.size + BlockSize > Size(Disk, n)

(* ErasedFits: a disk whose table is taken away gets one that fits it: the *)
(* partitions end before the backup table at the end of the disk starts.   *)
ErasedFits ==
    job.pc \in {"zap", "load", "probe", "find", "plan", "write", "writing", "written"}
    /\ job.task = "restore" /\ job.shape = "disk" =>
        LET t == image.table
            arraySectors == CHOOSE k \in 0 .. t.length : /\ k * Disk.sector >= t.count * t.entryBytes
                                                         /\ (k - 1) * Disk.sector < t.count * t.entryBytes
        IN  /\ Disk.sector = image.sector
            /\ \A n \in Numbers(t) : t.entries[n].last < Disk.sectors - 1 - arraySectors

(* NoTwins: a partition that was restored by itself carries no filesystem  *)
(* UUID or label that another partition of its disk shows, one that an     *)
(* earlier table left behind and nobody formatted included.  A whole disk  *)
(* has no such promise: a partition its image holds no filesystem for      *)
(* shows what lay there before.                                            *)
NoTwins ==
    job.task = "restore" /\ job.shape = "partition" /\ At("done") =>
        LET n == Partition(Disk, job.partuuid)
        IN  \A m \in Numbers(Disk.known) \ {n} :
               LET c == Content(Disk, m)
               IN  /\ ~SameId(c.uuid, Content(Disk, n).uuid)
                   /\ c.label # None => c.label # Content(Disk, n).label

(* OthersUntouched: a task changes only the one disk it chose, and one     *)
(* that restores a partition changes only what that partition holds, as    *)
(* the kernel has it: that is not the disk's table after a restore whose   *)
(* last tool, partprobe, failed.                                           *)
Touches ==
    \A d \in DOMAIN disks : disks'[d] # disks[d] /\ ~(job'.pc = "idle") =>
        /\ d \in attached /\ IsImagingCandidate(disks[d]) /\ ~disks[d].root
        /\ \A e \in attached \ {d} : IsImagingCandidate(disks[e]) => e \in Pluggable
        /\ job.shape = "partition" =>
              /\ [disks'[d] EXCEPT !.content = 0] = [disks[d] EXCEPT !.content = 0]
              /\ \A o \in DOMAIN disks[d].content :
                    disks'[d].content[o] # disks[d].content[o] =>
                        \E n \in Numbers(disks[d].known) :
                           /\ o \in Sectors(disks[d].known.entries[n])
                           /\ SameId(disks[d].known.entries[n].partuuid, job.partuuid)
OthersUntouched == [][Touches]_vars
=============================================================================

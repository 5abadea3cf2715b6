------------------------------ MODULE MCMachine ------------------------------
(***************************************************************************)
(* An image on its way between machines: the disks, the server's image     *)
(* store, the archive and the addresses of multicasts, side by side.  They *)
(* share nothing here, so a behaviour is one of the component that part    *)
(* names.                                                                  *)
(***************************************************************************)
EXTENDS Integers, Sequences, FiniteSets, TLC

CONSTANTS Devices, FittedDevices, PluggableDevices,    \* DiskImaging: what may be in a machine
          ImportedImages,                              \* and the images it may be given
          ImagingOps,                                  \* bound on its requests and faults
          StoreParts, Table, Calls, Nobody,            \* ImageStore: the image and its handlers
          StoreRuns, StoreOps, StoreFaults,            \* and its bounds
          Tasks, Slots,                                \* MulticastPorts
          ExportedImages, HandMadeManifests,           \* Archive: what is exported, what is imported,
          SmallBytes, ManifestBytes                    \* the longest table or script, and manifest

VARIABLES part,
          attached, disks, image, source, job, ops,
          files, export, stream, import, honest,
          sending, held,
          status, deleted, partitions, dir, exists, synced, stage, importer, capture, deploy, del,
          ui, run, await, calls, begun, asked, faults

diskVars == <<attached, disks, image, source, job, ops>>
archiveVars == <<files, export, stream, import, honest>>
portVars == <<sending, held>>
storeVars == <<status, deleted, partitions, dir, exists, synced, stage, importer, capture, deploy, del,
               ui, run, await, calls, begun, asked, faults>>
vars == <<part, diskVars, archiveVars, portVars, storeVars>>

Entry(first, last, partuuid) == [first |-> first, last |-> last, partuuid |-> partuuid]
Gpt(count, entries) == [signature |-> TRUE, entryBytes |-> 1, count |-> count, length |-> 4,
                          entries |-> entries]
NoTable == [signature |-> FALSE, entryBytes |-> 0, count |-> 0, length |-> 0, entries |-> <<>>]
Fs(fs, uuid, label, size, data, pages) ==
    [fs |-> fs, uuid |-> uuid, label |-> label, size |-> size, data |-> data, pages |-> pages]
Esp == Fs("vfat", "u1", "none", 6, "boot", {})
System == Fs("ext4", "u2", "root", 8, "system", {})
Swap == Fs("swap", "u3", "none", 0, "swap", {4, 8})
Internal(root, sectors, gpt, content) ==
    [type |-> "disk", ro |-> FALSE, hotplug |-> FALSE, removable |-> FALSE, transport |-> "nvme",
     root |-> root, sector |-> 2, sectors |-> sectors, boot |-> "protective", header |-> TRUE,
     table |-> gpt, known |-> gpt, content |-> content]
Blank == Fs("none", "none", "none", 0, "none", {})
Disk1 == Internal(FALSE, 24, Gpt(4, 1 :> Entry(2, 5, "p1") @@ 2 :> Entry(6, 12, "p2") @@ 3 :> Entry(13, 15, "p3")),
                  2 :> Esp @@ 6 :> System @@ 13 :> Swap)
Disk2 == Internal(FALSE, 18, Gpt(4, 1 :> Entry(2, 5, "q1") @@ 2 :> Entry(6, 14, "q2")),
                  2 :> Fs("ext4", "u4", "none", 8, "home", {}) @@ 6 :> Blank @@ 13 :> Blank)
Stick == [Disk2 EXCEPT !.transport = "usb", !.removable = TRUE, !.hotplug = TRUE]
Image(kind, sector, gpt, parts) ==
    [ready |-> TRUE, kind |-> kind, sector |-> sector, table |-> gpt, parts |-> parts, root |-> 0]
Part(number, c, size) == [c |-> c, number |-> number, size |-> size, fs |-> c.fs,
                          uuid |-> c.uuid, label |-> c.label]

SomeDevices ==
    [disk1 |-> Disk1, disk2 |-> Disk2, stick |-> Stick, agent |-> [Disk2 EXCEPT !.root = TRUE],
     msdos |-> [Disk2 EXCEPT !.boot = "plain", !.header = FALSE],
     bare |-> [Disk2 EXCEPT !.header = FALSE]]
SomeFitted == {{"disk1"}, {"msdos"}, {"bare"}, {"disk2", "stick"}, {"disk1", "disk2"}, {"agent"}}
SomeImages ==
    {Image("disk", 2, Gpt(3, 1 :> Entry(2, 20, "i1")), <<Part(1, Fs("ext4", "u5", "none", 8, "a", {}), 38)>>),
     Image("disk", 2, Gpt(3, 1 :> Entry(2, 21, "i1")), <<Part(1, Fs("ext4", "u5", "none", 8, "a", {}), 40)>>),
     Image("disk", 2, Gpt(4, 1 :> Entry(2, 5, "i1") @@ 2 :> Entry(6, 8, "p2")),
           <<Part(1, Fs("btrfs", "u5", "root", 6, "a", {}), 8)>>),
     Image("disk", 4, Gpt(4, 1 :> Entry(2, 4, "i1")), <<Part(1, Fs("ext4", "u5", "none", 8, "a", {}), 12)>>),
     Image("disk", 2, [Gpt(4, 1 :> Entry(3, 2, "i1")) EXCEPT !.count = 5], <<Part(1, Esp, 2)>>),
     Image("disk", 2, Gpt(4, 1 :> Entry(2, 4, "i1")), <<Part(2, Esp, 2)>>),
     Image("partition", 2, NoTable, <<Part(1, Fs("ext4", "U2", "none", 6, "b", {}), 8)>>),
     Image("partition", 2, NoTable, <<Part(1, Fs("btrfs", "u6", "root", 6, "b", {}), 8)>>),
     Image("partition", 4, NoTable, <<Part(1, Fs("btrfs", "u6", "x", 6, "b", {}), 8)>>)}

Imaging == INSTANCE DiskImaging WITH
    Machine <- Devices, Fitted <- FittedDevices, Pluggable <- PluggableDevices, Imports <- ImportedImages,
    MinEntryBytes <- 1, HeaderSectors <- 1, EndOfBytes <- 64, BlockSize <- 4, BtrfsMinResize <- 12,
    PageSizes <- {4, 8},
    Folded <- [u1 |-> "u1", u2 |-> "u2", U2 |-> "u2", u3 |-> "u3", u4 |-> "u4", u5 |-> "u5", u6 |-> "u6",
               p1 |-> "p1", p2 |-> "p2", p3 |-> "p3", q1 |-> "q1", q2 |-> "q2", i1 |-> "i1"],
    MaxOps <- ImagingOps

ArchPart(n, fs) == [number |-> n, fs |-> fs]
ArchScript(name, body, root) == [name |-> name, body |-> body, root |-> root]
Exported(kind, parts, root, scripts) ==
    [kind |-> kind, sector |-> 512, parts |-> parts, root |-> root, scripts |-> scripts, text |-> 1]
Good == [format |-> 3, kind |-> "disk", sector |-> 512, root |-> 1, text |-> 1, table |-> [file |-> <<"table">>, sha |-> 1],
         parts |-> <<[number |-> 1, fs |-> "ext4", file |-> <<"p", 1>>, sha |-> 1],
                     [number |-> 2, fs |-> "swap", file |-> <<"p", 2>>, sha |-> 1]>>,
         scripts |-> <<[name |-> "x", file |-> <<"s", "x">>, sha |-> 1, root |-> 0]>>]
SomeExported ==
    {Exported("disk", <<ArchPart(1, "ext4"), ArchPart(2, "swap")>>, 1, <<ArchScript("x", 1, 0)>>),
     Exported("disk", <<ArchPart(1, "ext4")>>, 0, <<ArchScript("x", 1, 1), ArchScript("y", 2, 0)>>),
     Exported("disk", <<ArchPart(1, "ext4")>>, 1, <<ArchScript("x", 5, 0)>>),
     [Exported("disk", <<ArchPart(1, "ext4")>>, 1, <<>>) EXCEPT !.text = 4],
     Exported("partition", <<ArchPart(1, "btrfs")>>, 0, <<>>)}
SomeManifests ==
    {Good, [Good EXCEPT !.format = 4], [Good EXCEPT !.text = 2], [Good EXCEPT !.sector = 100],
     [Good EXCEPT !.kind = "partition"], [Good EXCEPT !.table = [file |-> <<"none">>, sha |-> 0]],
     [Good EXCEPT !.parts = <<>>], [Good EXCEPT !.parts[2] = Good.parts[1]],
     [Good EXCEPT !.parts[1].fs = "xfs"], [Good EXCEPT !.parts[1].file = <<"p", 3>>],
     [Good EXCEPT !.scripts[1].root = 3], [Good EXCEPT !.root = 3],
     [Good EXCEPT !.format = 2, !.scripts[1].root = 1], [Good EXCEPT !.table.sha = 5],
     [Good EXCEPT !.scripts = <<@[1], @[1]>>]}
Archives == INSTANCE Archive WITH
    Images <- ExportedImages, Manifests <- HandMadeManifests,
    SectorSizes <- {512, 4096}, Fstypes <- [disk |-> {"ext4", "btrfs", "swap"}, partition |-> {"ext4", "btrfs"}],
    MaxSmall <- SmallBytes, MaxManifest <- ManifestBytes

Casts == INSTANCE MulticastPorts

Store == INSTANCE ImageStore WITH
    Parts <- StoreParts, None <- Nobody,
    MaxRuns <- StoreRuns, MaxOps <- StoreOps, MaxFaults <- StoreFaults,
    parts <- partitions, row <- capture, runs <- begun, ops <- asked

(* Finitely many devices, each with what is known of it, and partitions    *)
(* with numbers.                                                           *)
IsDevice(b) ==
    b = [type |-> b.type, ro |-> b.ro, hotplug |-> b.hotplug, removable |-> b.removable,
         transport |-> b.transport, root |-> b.root, sector |-> b.sector, sectors |-> b.sectors,
         boot |-> b.boot, header |-> b.header, table |-> b.table, known |-> b.known,
         content |-> b.content]
IsImage(i) ==
    i = [ready |-> i.ready, kind |-> i.kind, sector |-> i.sector, table |-> i.table,
         parts |-> i.parts, root |-> i.root]
Numbered(t) == DOMAIN t.entries \subseteq Nat \ {0}
ASSUME DevicesAssumption ==
    /\ IsFiniteSet(DOMAIN Devices) /\ Devices = [d \in DOMAIN Devices |-> Devices[d]]
    /\ FittedDevices \subseteq SUBSET DOMAIN Devices /\ PluggableDevices \subseteq DOMAIN Devices
    /\ \A d \in DOMAIN Devices : /\ IsDevice(Devices[d])
                                 /\ Numbered(Devices[d].table) /\ Numbered(Devices[d].known)
    /\ \A i \in ImportedImages : /\ IsImage(i) /\ Numbered(i.table)
                                 /\ i.parts \in Seq({i.parts[k] : k \in DOMAIN i.parts})
ASSUME StoreAssumption ==
    /\ Table \notin StoreParts /\ Nobody \notin Calls
    /\ StoreRuns \in Nat /\ StoreOps \in Nat /\ StoreFaults \in Nat
(* What is exported or listed is listed in order, a script is some bytes   *)
(* long, and a partition table, which is 1 or 2, is short enough.          *)
IsSequence(s) == s \in Seq({s[k] : k \in DOMAIN s})
ASSUME ArchivesAssumption ==
    /\ SmallBytes \in Nat \ {0, 1}
    /\ \A i \in ExportedImages : /\ IsSequence(i.parts) /\ IsSequence(i.scripts)
                                  /\ \A k \in DOMAIN i.scripts : i.scripts[k].body \in Nat
    /\ \A m \in HandMadeManifests : IsSequence(m.parts) /\ IsSequence(m.scripts)
ASSUME PortsAssumption == Casts!TasksAreClose /\ Casts!SlotsAreNumbers

Off == "off"
DiskOff == /\ attached = Off /\ disks = Off /\ image = Off /\ source = Off /\ job = Off /\ ops = Off
ArchiveOff == files = Off /\ export = Off /\ stream = Off /\ import = Off /\ honest = Off
PortsOff == sending = Off /\ held = Off
StoreOff == /\ status = Off /\ deleted = Off /\ partitions = Off /\ dir = Off /\ exists = Off /\ synced = Off
            /\ stage = Off /\ importer = Off /\ capture = Off /\ deploy = Off /\ del = Off /\ ui = Off
            /\ run = Off /\ await = Off /\ calls = Off /\ begun = Off /\ asked = Off /\ faults = Off

Init == \/ part = "disk" /\ Imaging!Init /\ ArchiveOff /\ PortsOff /\ StoreOff
        \/ part = "archive" /\ Archives!Init /\ DiskOff /\ PortsOff /\ StoreOff
        \/ part = "ports" /\ Casts!Init /\ DiskOff /\ ArchiveOff /\ StoreOff
        \/ part = "store" /\ Store!Init /\ DiskOff /\ ArchiveOff /\ PortsOff

Next == /\ UNCHANGED part
        /\ \/ part = "disk" /\ Imaging!Next
              /\ UNCHANGED <<archiveVars, portVars, storeVars>>
           \/ part = "archive" /\ Archives!Next
              /\ UNCHANGED <<diskVars, portVars, storeVars>>
           \/ part = "ports" /\ Casts!Next
              /\ UNCHANGED <<diskVars, archiveVars, storeVars>>
           \/ part = "store" /\ Store!Next
              /\ UNCHANGED <<diskVars, archiveVars, portVars>>

Spec == Init /\ [][Next]_vars

(* CapturedIsWhole: an image that a capture made ready (capture.rs) holds  *)
(* what the disk held when the capture began: its table and every          *)
(* filesystem, or the one partition asked for, nothing of it cut off,      *)
(* whichever upload or tool failed on the way.                             *)
CapturedIsWhole == part = "disk" => Imaging!TypeOK /\ Imaging!CapturedIsWhole

(* RestoredIsImage: a restore that succeeds (restore.rs) leaves each       *)
(* filesystem of the image inside its partition, grown to fill it if its   *)
(* kind grows, unless the image disagrees with itself; a disk's table is   *)
(* taken away only for one that fits the disk (ErasedFits); and a          *)
(* partition restored by itself shares its filesystem's UUID or label with *)
(* no partition beside it (NoTwins).                                       *)
RestoredIsImage ==
    part = "disk" => Imaging!ErasedFits /\ Imaging!RestoredIsImage /\ Imaging!NoTwins

(* OthersUntouched: a task changes only the one disk it chose, never the   *)
(* agent's own or one of several candidates (find_target_disk), and the    *)
(* restore of a partition changes nothing but what that partition holds.   *)
OthersUntouched == [][part = "disk" => Imaging!Touches]_<<part, diskVars>>

(* ArchiveIsFaithful: an archive that was written is accepted, unless its  *)
(* manifest or a script of it is too long for an import, and gives back    *)
(* the image, in a format no newer than it needs (ExportImports); and      *)
(* whatever archive is accepted, each file of its manifest arrived once    *)
(* and unaltered (ImportedIsWhole) and a machine can restore it            *)
(* (ImportedIsRestorable).                                                 *)
ArchiveIsFaithful ==
    part = "archive" => /\ Archives!ExportImports
                        /\ Archives!ImportedIsWhole /\ Archives!ImportedIsRestorable

(* TrafficSeparate: no two files that are in the air at the same time      *)
(* share a group and a port (get_multicast_port), also when their slots    *)
(* are out of range, and no port leaves 16 bits.                           *)
TrafficSeparate == part = "ports" => Casts!TrafficSeparate

(* ReadyIsWhole: a ready image whose capture or import is over has all its *)
(* rows and files, of one run and fsynced (ImageStore!ReadyIsWhole).       *)
ReadyIsWhole == part = "store" => Store!TypeOK /\ Store!ReadyIsWhole

(* ImportsEnd: nothing is left importing for ever, and an import that was  *)
(* rejected or whose image was deleted leaves no files (archive.rs start,  *)
(* import; ImageStore!ImportingIsUnderWay, NoLeftovers).                   *)
ImportsEnd == part = "store" => Store!ImportingIsUnderWay /\ Store!NoLeftovers
==============================================================================

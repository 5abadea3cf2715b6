----------------------------- MODULE MCServices -----------------------------
(* The services around the task machinery, side by side: the script proxy, *)
(* the server process, network boot, the mounting of a restored system for *)
(* its scripts, and the packer of image files.  They share nothing, so one *)
(* run explores each of them from its own initial states; "part" says      *)
(* which.                                                                  *)
EXTENDS Naturals, Sequences, FiniteSets

CONSTANTS
    Clients, MaxConnections, MaxMoves, Heads, Lookups,   \* Proxy
    Callers, Conns, MaxServes,                           \* Server
    Machines, PublicUrls,                                \* Boot
    DiskPartitions, SystemPartition, Fstabs, Matchings,  \* SystemMount: the disk, what the system's
    HostMounts, Folded, StopAttempts,                    \* fstab says, and the agent's own mounts
    RawFiles, PackCommands, PackRuns                     \* Pack: image files, commands, bound on its runs

VARIABLES part,
          slots, pc, req, tries, status, upstream, answers, down, active, uploaded, moves,
          opened, claim, phase, todo, running, aborted, shutdown, conn, registry, written, serves,
          url, machine,
          mounting, matching, fstab, planned, left, table, tracked, inside, known, stops, failed,
          source, imagefile, args, packing, nth, raw, packed, systems, partial, out, runs

proxyVars == <<slots, pc, req, tries, status, upstream, answers, down, active, uploaded,
               moves>>
serverVars == <<opened, claim, phase, todo, running, aborted, shutdown, conn, registry, written,
                serves>>
bootVars == <<url, machine>>
mountVars == <<mounting, matching, fstab, planned, left, table, tracked, inside, known, stops, failed>>
packVars == <<source, imagefile, args, packing, nth, raw, packed, systems, partial, out, runs>>
vars == <<part, proxyVars, serverVars, bootVars, mountVars, packVars>>

P == INSTANCE Proxy WITH Conns <- Clients, todo <- tries
S == INSTANCE Server
B == INSTANCE Boot
M == INSTANCE SystemMount WITH
        Partitions <- DiskPartitions, RootDevice <- SystemPartition,
        pc <- mounting, todo <- left, tries <- stops
K == INSTANCE Pack WITH
        Sources <- RawFiles, Commands <- PackCommands, MaxRuns <- PackRuns,
        Fstypes <- [disk |-> {"ext4", "vfat", "btrfs", "swap"}, partition |-> {"ext4", "vfat", "btrfs"}],
        file <- imagefile, pc <- packing, next <- nth

ASSUME ServicesAssumption ==
    /\ IsFiniteSet(Clients)
    /\ MaxConnections \in Nat
    /\ Lookups \subseteq SUBSET P!Addresses
    /\ "none" \notin Callers
    /\ \A u \in PublicUrls : u \in Seq(STRING)
    /\ DiskPartitions \in Seq({DiskPartitions[k] : k \in DOMAIN DiskPartitions})
    /\ M!FstabsArePlain /\ M!HostIsPlain
(* An image file lists its partitions, each no smaller than what is used   *)
(* of it; one without a table holds at most one filesystem.                *)
IsRaw(p) ==
    /\ p = [number |-> p.number, fs |-> p.fs, os |-> p.os, end |-> p.end, size |-> p.size,
            used |-> p.used, state |-> p.state, data |-> p.data]
    /\ p.size \in Nat /\ p.used \in Nat /\ p.used <= p.size
ASSUME FilesAssumption ==
    /\ PackRuns \in Nat
    /\ \A f \in RawFiles :
          /\ f.gpt \in BOOLEAN /\ f.bytes \in Nat /\ f.parts \in Seq({f.parts[k] : k \in DOMAIN f.parts})
          /\ \A k \in DOMAIN f.parts : IsRaw(f.parts[k])
          /\ ~f.gpt => Len(f.parts) <= 1 /\ \A k \in DOMAIN f.parts : f.parts[k].used <= f.bytes

(* What the run gives them: every head of up to two lines, and names that  *)
(* resolve to nothing, to one address, or to one and a public one.         *)
SomeHeaders ==
    {[name |-> "transfer-encoding", value |-> v] : v \in {"chunked", "gzip"}}
        \cup {[name |-> "content-length", value |-> v] : v \in {"1", "2", "bad"}}
        \cup {[name |-> "connection", value |-> v] : v \in {"content-length", "x-note"}}
        \cup {[name |-> "x-note", value |-> "text"]}
SomeHeads ==
    [method : {"CONNECT", "GET"}, uri : {"absolute", "malformed"}, port : {80, 443},
     headers : {<<>>} \cup [1..1 -> SomeHeaders] \cup [1..2 -> SomeHeaders]]
SomeAddresses == [form : {"v4", "v6", "mapped", "nat64", "compatible", "six_to_four"},
                  class : {"public", "private", "own"}]
SomeLookups ==
    {{}} \cup {{a} : a \in SomeAddresses}
        \cup {{a, [form |-> "v4", class |-> "public"]} : a \in SomeAddresses}
SomeUrls == {<<"host">>, <<"host", "">>, <<"host", "", "">>, <<"host", "", "path", "">>}

(* A disk with an ESP, the system, and two partitions of one label.        *)
Child(name, uuid, label, fstype) ==
    [name |-> name, uuid |-> uuid, partuuid |-> "none", label |-> label, partlabel |-> "none", fstype |-> fstype]
Line(key, value, path, fstype) == [key |-> key, value |-> value, path |-> path, fstype |-> fstype]
RootLine == Line("uuid", "u2", <<>>, "ext4")
Efi == Line("label", "esp", <<"boot", "efi">>, "vfat")
SomePartitions == <<Child("a1", "u1", "esp", "vfat"), Child("a2", "u2", "root", "ext4"),
                    Child("a3", "u3", "boot", "ext4"), Child("a4", "u4", "boot", "none")>>
SomeFstabs == {<<>>, <<RootLine, Efi, Line("uuid", "U3", <<"boot">>, "ext4")>>,
               <<RootLine, Efi, Line("label", "boot", <<"boot">>, "ext4")>>,
               <<Line("name", "a3", <<"home">>, "ext4"), Line("name", "a4", <<"srv">>, "auto"),
                 Line("tmpfs", "x", <<"tmp">>, "tmpfs"), Line("uuid", "u3", <<"home">>, "swap"),
                 Line("partuuid", "u9", <<"relative">>, "ext4")>>}
SomeHostMounts == [proc |-> <<>>, dev |-> <<<<"dev", "pts">>>>,
                   sys |-> <<<<"sys", "fs">>, <<"sys", "fs", "cgroup">>>>]
SomeFolding == [u1 |-> "u1", u2 |-> "u2", u3 |-> "u3", U3 |-> "u3", u4 |-> "u4", u9 |-> "u9"]

(* Disks and filesystem images, good and bad, and commands.                *)
RawPart(n, fs, os, end, size, used, state) ==
    [number |-> n, fs |-> fs, os |-> os, end |-> end, size |-> size, used |-> used, state |-> state, data |-> n]
RawDisk(bytes, parts) == [gpt |-> TRUE, bytes |-> bytes, parts |-> parts]
RawFs(fs, state) == [gpt |-> FALSE, bytes |-> 6, parts |-> <<RawPart(1, fs, "yes", 6, 4, 2, state)>>]
Script(name) == [name |-> name, valid |-> TRUE]
ScriptRoot(name, n) == [name |-> name, partition |-> n]
Command(scripts, roots, n) == [scripts |-> scripts, roots |-> roots, root |-> n]
SomeFiles ==
    {RawDisk(9, <<RawPart(1, "vfat", "no", 3, 2, 1, "clean"), RawPart(3, "none", "no", 4, 1, 0, "clean"),
                  RawPart(2, "ext4", "yes", 9, 5, 3, "clean")>>),
     RawDisk(8, <<RawPart(1, "ext4", "yes", 4, 2, 1, "clean"), RawPart(2, "ext4", "yes", 8, 2, 1, "clean")>>),
     RawDisk(5, <<RawPart(1, "ext4", "yes", 4, 2, 1, "clean"), RawPart(2, "ext4", "yes", 8, 2, 1, "clean")>>),
     RawDisk(8, <<RawPart(1, "ext4", "unreadable", 4, 2, 1, "broken"), RawPart(2, "xfs", "no", 8, 2, 1, "clean")>>),
     RawDisk(4, <<RawPart(1, "none", "no", 4, 2, 1, "clean")>>),
     RawFs("ext4", "corrected"), RawFs("ext4", "broken"), RawFs("btrfs", "clean"), RawFs("swap", "clean"),
     [gpt |-> FALSE, bytes |-> 6, parts |-> <<>>]}
SomeCommands ==
    {Command(<<>>, <<>>, 0), Command(<<Script("x"), Script("y")>>, <<ScriptRoot("y", 1)>>, 2),
     Command(<<Script("x")>>, <<ScriptRoot("x", 3)>>, 0), Command(<<Script("x"), Script("x")>>, <<>>, 0),
     Command(<<Script("x")>>, <<ScriptRoot("x", 1), ScriptRoot("x", 2)>>, 0),
     Command(<<Script("x")>>, <<ScriptRoot("y", 1)>>, 0),
     Command(<<[name |-> "x", valid |-> FALSE]>>, <<>>, 0)}

Off == "off"
ProxyOff == /\ slots = Off /\ pc = Off /\ req = Off /\ tries = Off /\ status = Off /\ upstream = Off
            /\ answers = Off /\ down = Off /\ active = Off /\ uploaded = Off /\ moves = Off
ServerOff == /\ opened = Off /\ claim = Off /\ phase = Off /\ todo = Off /\ running = Off
             /\ aborted = Off /\ shutdown = Off /\ conn = Off /\ registry = Off /\ written = Off /\ serves = Off
BootOff == url = Off /\ machine = Off
MountOff == /\ mounting = Off /\ matching = Off /\ fstab = Off /\ planned = Off /\ left = Off /\ table = Off
            /\ tracked = Off /\ inside = Off /\ known = Off /\ stops = Off /\ failed = Off
PackOff == /\ source = Off /\ imagefile = Off /\ args = Off /\ packing = Off /\ nth = Off /\ raw = Off
           /\ packed = Off /\ systems = Off /\ partial = Off /\ out = Off /\ runs = Off

Init == \/ part = "proxy" /\ P!Init /\ ServerOff /\ BootOff /\ MountOff /\ PackOff
        \/ part = "server" /\ S!Init /\ ProxyOff /\ BootOff /\ MountOff /\ PackOff
        \/ part = "boot" /\ B!Init /\ ProxyOff /\ ServerOff /\ MountOff /\ PackOff
        \/ part = "mount" /\ M!Init /\ ProxyOff /\ ServerOff /\ BootOff /\ PackOff
        \/ part = "pack" /\ K!Init /\ ProxyOff /\ ServerOff /\ BootOff /\ MountOff

Next == /\ UNCHANGED part
        /\ \/ part = "proxy" /\ P!Next /\ UNCHANGED <<serverVars, bootVars, mountVars, packVars>>
           \/ part = "server" /\ S!Next /\ UNCHANGED <<proxyVars, bootVars, mountVars, packVars>>
           \/ part = "boot" /\ B!Next /\ UNCHANGED <<proxyVars, serverVars, mountVars, packVars>>
           \/ part = "mount" /\ M!Next /\ UNCHANGED <<proxyVars, serverVars, bootVars, packVars>>
           \/ part = "pack" /\ K!Next /\ UNCHANGED <<proxyVars, serverVars, bootVars, mountVars>>

(* The fairness of Proxy, where it is the part. *)
Fairness ==
    \A c \in Clients : WF_vars(/\ part = "proxy" /\ P!Timers(c)
                               /\ UNCHANGED <<part, serverVars, bootVars, mountVars, packVars>>)

Spec == Init /\ [][Next]_vars /\ Fairness

(* ProxyIsStrict: a session of the script proxy (relay.rs) is connected    *)
(* only to a public machine that is not the server itself, in whatever     *)
(* form the address is written (OnlyAllowed); the body it sends on ends    *)
(* where the upstream server expects it to end (FramingAgrees); its client *)
(* is sent one response head (OneAnswer); and it holds one slot of the     *)
(* semaphore for as long as it lasts (SlotsAreCounted).                    *)
ProxyIsStrict == part = "proxy" => /\ P!OnlyAllowed /\ P!FramingAgrees
                                   /\ P!OneAnswer /\ P!SlotsAreCounted

(* StopsClean: only the caller of serve that holds the claim has a Server, *)
(* and its addresses are not those of listeners that outlive theirs        *)
(* (OneServer); a connection that outlives its server, or is accepted by a *)
(* listener that does, and so any host registered over it, even one that   *)
(* registers during the stop, is cut off (NoneLeftBehind); and a page of   *)
(* another site cannot make the dashboard change anything                  *)
(* (NoForeignWrites, is_same_origin).                                      *)
StopsClean == part = "server" => S!OneServer /\ S!NoneLeftBehind /\ S!NoForeignWrites

(* BootsItself: with a public URL without a path, however it is written, a *)
(* machine that boots from the network fetches what this server serves     *)
(* (boot script, iPXE).                                                    *)
BootsItself == part = "boot" => B!BootsItself

(* MountsAreUndone: no mount of the restored system hides another, however *)
(* its fstab orders the lines, and for a partition image only what fstab   *)
(* names without ambiguity is mounted (mount_system); after the release    *)
(* nothing of it is mounted, and the release fails only when a process     *)
(* could not be killed or the kernel's table not be read.                  *)
MountsAreUndone ==
    part = "mount" => /\ M!NothingHidden /\ M!UniquelyMounted
                      /\ M!NothingLeftMounted /\ M!CleanRelease

(* PackedIsWhole: the packer's output (pack.rs) is absent or a whole       *)
(* archive of the image, even after it failed or was killed half-way       *)
(* (OutIsWhole); the image file stays as it is, and a run that ended by    *)
(* itself leaves no partial output of its own (LeavesNoTrace).             *)
PackedIsWhole == part = "pack" => K!OutIsWhole /\ K!LeavesNoTrace

(* SlotsComeBack: every session of the proxy comes to an end and gives its *)
(* slot back, whatever client and server do (idle and connect timeouts).   *)
SlotsComeBack ==
    \A c \in Clients : (part = "proxy" /\ pc[c] = "head") ~> (part = "proxy" /\ pc[c] = "closed")
=============================================================================

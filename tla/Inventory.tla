------------------------------ MODULE Inventory -----------------------------
(* The host inventory and what is planned on it: machines register and     *)
(* report their partitions, operators group, rename and delete hosts, and  *)
(* the deploy, multicast and capture dialogs turn a loaded copy of the     *)
(* inventory into a request that the server plans and stores in two steps. *)
EXTENDS Naturals, Sequences, FiniteSets, FiniteSetsExt

CONSTANTS Machines,
          Layouts,   \* the partitions a machine's disk may hold
          Stored,    \* the hosts there may be when the dashboard is opened
          Images,    \* what the image may be
          MaxHosts, MaxActs

VARIABLES rows,     \* hosts by id: mac, name, whether the disk is usable, partitions
          lastId,   \* AUTOINCREMENT: the last id given out
          group,    \* the members of the group
          image,
          tasks,    \* stored tasks: the partition of each host's row; history: the machines meant
          dialog,   \* the open dialog: its kind, the copies it loaded, what was picked
          request,  \* a request at the server: what it asks, and how far it is
          acts

vars == <<rows, lastId, group, image, tasks, dialog, request, acts>>

None == "none"
Whole == "whole disk"
NoUuid == [value |-> "", case |-> ""]
Fstypes == {"ext4", "vfat", "btrfs"}       \* ImageKind::Partition.fstypes()

CanonicalMac(mac) == [mac EXCEPT !.case = "lower"]

SameUuid(a, b) == a # NoUuid /\ a.value = b.value

-----------------------------------------------------------------------------
\* What the dashboard works out from the copies it loaded.

Unfit(im, parts, target) ==
    /\ im.source # <<>>
    /\ LET s == im.source[1]
       IN  \/ target.size < s.size
           \/ \E other \in parts :
                 /\ other.number # target.number
                 /\ \/ SameUuid(s.uuid, other.uuid)
                    \/ s.label # None /\ other.label = s.label

DeployTarget(im, parts, partuuid) ==
    {p.partuuid : p \in {q \in parts : q.partuuid = partuuid /\ ~Unfit(im, parts, q)}}

MatchPartitions(parts, by, value) ==
    {p \in parts : (by = "label" /\ p.partlabel = value) \/ (by = "number" /\ p.number = value)}

\* Resolution::Target, as a set of at most one partition.
Resolve(im, parts, by, value) ==
    LET found == MatchPartitions(parts, by, value)
    IN  IF Cardinality(found) = 1 THEN {p.partuuid : p \in {q \in found : ~Unfit(im, parts, q)}} ELSE {}

CaptureSources(parts) == {p.partuuid : p \in {q \in parts : q.fstype \in Fstypes}}

\* The partitions that the dialog would ask for, host by host; {} where there is none.
Picked(d) ==
    [h \in DOMAIN d.hosts |->
        CASE d.kind = "multicast" -> Resolve(d.image, d.hosts[h].parts, d.pick.by, d.pick.value)
          [] d.kind = "deploy" -> DeployTarget(d.image, d.hosts[h].parts, d.pick.value)
          [] OTHER -> CaptureSources(d.hosts[h].parts) \cap {d.pick.value}]

\* Whether the dialog's button is enabled: deploy_request, multicast_request.
Ready(d) ==
    /\ d.kind # None /\ DOMAIN d.hosts # {}
    /\ d.kind # "capture" => d.image.status = "ready"
    /\ (d.kind = "capture" /\ d.pick.by = Whole) \/ (d.kind # "capture" /\ d.image.kind = "disk")
       \/ \A h \in DOMAIN d.hosts : Picked(d)[h] # {}

Targets(d) ==
    [h \in DOMAIN d.hosts |->
        IF (d.kind = "capture" /\ d.pick.by = Whole) \/ (d.kind # "capture" /\ d.image.kind = "disk")
        THEN Whole ELSE CHOOSE p \in Picked(d)[h] : TRUE]

NoDialog == [kind |-> None, hosts |-> <<>>, image |-> [kind |-> None, status |-> None, source |-> <<>>],
             pick |-> [by |-> None, value |-> None]]
NoRequest == [op |-> None, pc |-> "idle", targets |-> <<>>, meant |-> <<>>]

-----------------------------------------------------------------------------
\* The server's checks.

ImagingTargets(hs) == hs \subseteq DOMAIN rows /\ \A h \in hs : rows[h].disk

\* target_partitions for one host of a partition image.
TargetFits(parts, partuuid) ==
    \E t \in parts :
        /\ t.partuuid = partuuid /\ Len(image.source) = 1
        /\ LET s == image.source[1]
           IN  /\ t.size >= s.size
               /\ ~\E other \in parts :
                     /\ other.number # t.number
                     /\ \/ SameUuid(s.uuid, other.uuid)
                        \/ s.label # None /\ other.label = s.label

PlanRestore(targets) ==
    /\ image.status = "ready" /\ ImagingTargets(DOMAIN targets)
    /\ \A h \in DOMAIN targets :
          IF image.kind = "disk" THEN targets[h] = Whole
          ELSE targets[h] # Whole /\ TargetFits(rows[h].parts, targets[h])

PlanCapture(targets) ==
    /\ ImagingTargets(DOMAIN targets)
    /\ \A h \in DOMAIN targets : targets[h] # Whole =>
          \E p \in rows[h].parts : p.partuuid = targets[h] /\ p.fstype \in Fstypes

\* What a handler finds out before it writes; delete_host looks for the host's next task.
Looks(op, targets) ==
    CASE op \in {"deploy", "multicast"} -> PlanRestore(targets)
      [] op = "capture" -> PlanCapture(targets)
      [] op = "delete" -> ~\E t \in tasks : DOMAIN t.targets \cap DOMAIN targets # {}
      [] OTHER -> TRUE

-----------------------------------------------------------------------------
Init == /\ rows \in Stored /\ lastId = Cardinality(DOMAIN rows) /\ group = DOMAIN rows
        /\ image \in Images /\ tasks = {}
        /\ dialog = NoDialog /\ request = NoRequest /\ acts = 0

Acts == acts < MaxActs /\ acts' = acts + 1
Put(f, x, y) == [z \in DOMAIN f \cup {x} |-> IF z = x THEN y ELSE f[z]]
Without(f, x) == [z \in DOMAIN f \ {x} |-> f[z]]

\* mutant: the number of a deleted host is given out again
NextIdReused == Max({0} \cup DOMAIN rows) + 1

NextId == lastId + 1

\* start_stream: upsert_host by mac, then the stream works for that id.
Register(m, case, usable) ==
    LET mac == CanonicalMac([machine |-> m, case |-> case])
        known == {h \in DOMAIN rows : rows[h].mac = mac}
        id == IF known = {} THEN NextId ELSE CHOOSE h \in known : TRUE
        before == IF known = {} THEN [mac |-> mac, name |-> None, disk |-> TRUE, parts |-> {}] ELSE rows[id]
    IN  /\ Acts /\ id <= MaxHosts
        /\ rows' = Put(rows, id, [before EXCEPT !.disk = usable, !.parts = IF usable THEN @ ELSE {}])
        /\ lastId' = Max({lastId, id})
        /\ UNCHANGED <<group, image, tasks, dialog, request>>

\* set_partitions: a stream keeps the id it was given, and nothing is stored for a host that is gone.
Report(h, layout) ==
    /\ Acts /\ h \in DOMAIN rows /\ rows' = [rows EXCEPT ![h].parts = layout]
    /\ UNCHANGED <<lastId, group, image, tasks, dialog, request>>

\* create_group, update_group_members: all or nothing; delete_group.
SetMembers(hs) ==
    /\ Acts /\ group' = IF hs \subseteq DOMAIN rows THEN hs ELSE group
    /\ UNCHANGED <<rows, lastId, image, tasks, dialog, request>>

ImageBecomes(i) == /\ Acts /\ image' = i
                   /\ UNCHANGED <<rows, lastId, group, tasks, dialog, request>>

\* The host's memberships and task rows go with it.
Delete(h) == /\ rows' = Without(rows, h) /\ group' = group \ {h}
             /\ tasks' = {[targets |-> Without(t.targets, h), meant |-> Without(t.meant, h)] : t \in tasks}

\* Another dashboard deletes the host.
DeletedElsewhere(h) ==
    /\ Acts /\ h \in DOMAIN rows /\ Looks("delete", [x \in {h} |-> Whole]) /\ Delete(h)
    /\ UNCHANGED <<lastId, image, dialog, request>>

\* A task is settled.
Settle(t) == /\ tasks' = tasks \ {t}
             /\ UNCHANGED <<rows, lastId, group, image, dialog, request, acts>>

-----------------------------------------------------------------------------
\* The dashboard.

\* A dialog on one host, or on the members of the group, with what it loads.
Open(kind, hs) ==
    /\ Acts /\ dialog.kind = None /\ hs # {} /\ hs \subseteq DOMAIN rows
    /\ kind = "multicast" => hs = group
    /\ kind # "multicast" => Cardinality(hs) = 1 \/ (kind = "reboot" /\ hs = group)
    /\ dialog' = [NoDialog EXCEPT !.kind = kind, !.hosts = [h \in hs |-> rows[h]], !.image = image]
    /\ UNCHANGED <<rows, lastId, group, image, tasks, request>>

\* The host list's poll brings the row of a dialog on one host up to date, or takes it away.
Refresh ==
    /\ dialog.kind \notin {None, "multicast"} /\ Cardinality(DOMAIN dialog.hosts) = 1
    /\ dialog' = IF DOMAIN dialog.hosts \subseteq DOMAIN rows
                 THEN [dialog EXCEPT !.hosts = [h \in DOMAIN @ |-> rows[h]]] ELSE NoDialog
    /\ UNCHANGED <<rows, lastId, group, image, tasks, request, acts>>

\* The choices a dialog offers: a partition, a label or number to match, the whole disk.
Offered(d) ==
    LET parts == UNION {d.hosts[h].parts : h \in DOMAIN d.hosts}
    IN  CASE d.kind = "multicast" -> {[by |-> "label", value |-> p.partlabel] : p \in parts}
                                     \cup {[by |-> "number", value |-> p.number] : p \in parts}
          [] d.kind = "deploy" -> {[by |-> "partition", value |-> p.partuuid] : p \in parts}
          [] OTHER -> {[by |-> "partition", value |-> p.partuuid] : p \in parts}
                      \cup {[by |-> Whole, value |-> None]}

Pick == /\ dialog.kind \in {"deploy", "multicast", "capture"} /\ dialog.pick.by = None
        /\ \E c \in Offered(dialog) : dialog' = [dialog EXCEPT !.pick = c]
        /\ UNCHANGED <<rows, lastId, group, image, tasks, request, acts>>

Close == /\ dialog.kind # None /\ dialog' = NoDialog
         /\ UNCHANGED <<rows, lastId, group, image, tasks, request, acts>>

Submit ==
    /\ request.pc = "idle" /\ dialog.kind # None
    /\ dialog.kind \in {"deploy", "multicast", "capture"} => Ready(dialog)
    /\ request' = [op |-> dialog.kind, pc |-> "sent",
                   targets |-> IF dialog.kind \in {"deploy", "multicast", "capture"} THEN Targets(dialog)
                               ELSE [h \in DOMAIN dialog.hosts |-> Whole],
                   meant |-> [h \in DOMAIN dialog.hosts |-> dialog.hosts[h].mac.machine]]
    /\ dialog' = NoDialog
    /\ UNCHANGED <<rows, lastId, group, image, tasks, acts>>

-----------------------------------------------------------------------------
\* A handler: it looks, then it writes.

ServerLooks ==
    /\ request.pc = "sent"
    /\ request' = IF Looks(request.op, request.targets) THEN [request EXCEPT !.pc = "planned"] ELSE NoRequest
    /\ UNCHANGED <<rows, lastId, group, image, tasks, dialog, acts>>

\* create_with_inputs: one transaction, which a host that is gone undoes.
Store == /\ tasks' = IF DOMAIN request.targets \subseteq DOMAIN rows
                     THEN tasks \cup {[targets |-> request.targets, meant |-> request.meant]} ELSE tasks
         /\ UNCHANGED <<rows, group>>

Rename(h) == /\ rows' = IF h \in DOMAIN rows THEN [rows EXCEPT ![h].name = request.meant[h]] ELSE rows
             /\ UNCHANGED <<group, tasks>>

ServerWrites ==
    /\ request.pc = "planned" /\ request' = NoRequest
    /\ LET h == CHOOSE x \in DOMAIN request.targets : TRUE
       IN  CASE request.op = "delete" -> Delete(h)
             [] request.op = "rename" -> Rename(h)
             [] OTHER -> Store
    /\ UNCHANGED <<lastId, image, dialog, acts>>

-----------------------------------------------------------------------------
DialogKinds == {"deploy", "multicast", "capture", "reboot", "rename", "delete"}

Next == \/ \E m \in Machines, case \in {"lower", "upper"}, usable \in BOOLEAN : Register(m, case, usable)
        \/ \E h \in 1..lastId : DeletedElsewhere(h) \/ \E l \in Layouts : Report(h, l)
        \/ \E hs \in SUBSET (1..lastId) : SetMembers(hs) \/ \E k \in DialogKinds : Open(k, hs)
        \/ \E i \in Images : ImageBecomes(i)
        \/ \E t \in tasks : Settle(t)
        \/ Refresh \/ Pick \/ Close \/ Submit \/ ServerLooks \/ ServerWrites

(* The dialogs and the server agree on what may be done: while what a      *)
(* dialog loaded is still so, the server takes exactly the requests the    *)
(* dialog lets through, on every host with a usable disk; the two work     *)
(* that out in different crates.  What is taken leaves no two filesystems  *)
(* of one UUID or label on the host's disk.                                *)
DialogAgrees ==
    LET d == dialog
    IN  (/\ d.kind \in {"deploy", "multicast", "capture"}
         /\ DOMAIN d.hosts \subseteq DOMAIN rows
         /\ \A h \in DOMAIN d.hosts : d.hosts[h] = rows[h] /\ rows[h].disk
         /\ d.image = image)
        => /\ Ready(d) => Looks(d.kind, Targets(d))
           /\ d.kind = "deploy" /\ image.kind = "partition" =>
                 \A h \in DOMAIN d.hosts : \A p \in rows[h].parts :
                     Looks("deploy", [x \in {h} |-> p.partuuid]) =>
                         image.status = "ready" /\ DeployTarget(image, d.hosts[h].parts, p.partuuid) # {}
           /\ d.kind # "capture" /\ Ready(d) /\ image.kind = "partition" =>
                 \A h \in DOMAIN d.hosts : \A p \in rows[h].parts :
                     p.partuuid # Targets(d)[h] =>
                         /\ ~SameUuid(image.source[1].uuid, p.uuid)
                         /\ image.source[1].label # None => p.label # image.source[1].label

(* A request reaches the machine its operator chose: hosts are deleted,    *)
(* machines register again under whatever spelling of their address, and   *)
(* a dialog or a request may be older than all that, but every row of a    *)
(* stored task and every given name is the chosen machine's, no machine is *)
(* listed twice, and no group or task names a host that is gone.           *)
MeantMachine ==
    /\ \A g, h \in DOMAIN rows : rows[g].mac.machine = rows[h].mac.machine => g = h
    /\ \A h \in DOMAIN rows : rows[h].name \in {None, rows[h].mac.machine}
    /\ group \subseteq DOMAIN rows
    /\ \A t \in tasks : \A h \in DOMAIN t.targets :
          h \in DOMAIN rows /\ t.meant[h] = rows[h].mac.machine
=============================================================================

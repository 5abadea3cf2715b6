---------------------------- MODULE SystemMount ----------------------------
(***************************************************************************)
(* Mounting the restored system for its scripts, as its /etc/fstab says,   *)
(* and taking it down again.  A path is a sequence of names below the      *)
(* mount root, which is <<>>; the kernel's table lists the mounts in the   *)
(* order they were made.                                                   *)
(***************************************************************************)
EXTENDS Integers, Sequences, FiniteSets, Functions, SequencesExt

CONSTANTS
    Partitions,     \* the children of the disk, in order
    RootDevice,     \* name of the partition that holds the system
    Fstabs,         \* contents of /etc/fstab: sequences of lines
    Matchings,      \* "first" for a disk image, "unique" for a partition image
    HostMounts,     \* what is mounted below /proc, /sys and /dev of the agent
    Folded,
    StopAttempts    \* STOP_ATTEMPTS

VARIABLES
    pc, matching,
    fstab,
    planned,   \* lines of fstab still to mount
    todo,      \* paths still to mount, or still to unmount
    table,     \* the kernel's mounts below the root
    tracked,   \* MountedSystem::mounted
    inside,    \* processes left in the system: none, some, or some that stay
    known,     \* whether release could read the kernel's table
    tries, failed

vars == <<pc, matching, fstab, planned, todo, table, tracked, inside, known, tries, failed>>

Init == /\ pc = "root" /\ matching \in Matchings /\ fstab \in Fstabs
        /\ planned = {} /\ todo = <<>> /\ table = <<>> /\ tracked = <<>>
        /\ inside = "none" /\ known = TRUE /\ tries = 0 /\ failed = FALSE

NoPath == <<"relative">>   \* a mount point that is not an absolute, plain path

-----------------------------------------------------------------------------
(* plan_mounts.                                                            *)

Matches(p, key, value) ==
    CASE key \in {"uuid", "partuuid"} -> p[key] # "none" /\ Folded[p[key]] = Folded[value]
      [] key \in {"label", "partlabel", "name"} -> p[key] = value
      [] OTHER -> FALSE
(* device_key: NAME=value, /dev/disk/by-name/value or /dev/value.          *)
DeviceKey(line) == <<line.key, line.value>>
Found(line) == {i \in DOMAIN Partitions : Matches(Partitions[i], DeviceKey(line)[1], DeviceKey(line)[2])}
Device(line) == Partitions[CHOOSE i \in Found(line) : \A j \in Found(line) : i <= j]

Ambiguous(line) == matching = "unique" /\ \E i, j \in Found(line) : i # j

(* A line that is looked at fails the plan when its device is ambiguous.   *)
Considered(line) == line.fstype # "swap" /\ line.path # NoPath
Planned(line) ==
    /\ Considered(line) /\ line.path # <<>> /\ Found(line) # {}
    /\ ~(Device(line).fstype = "none" /\ line.fstype = "auto")

(* Sorted by depth, lines of the same depth in the order of the file.      *)
Depth(k) == Len(fstab[k].path)
Before(j, k) == Depth(j) < Depth(k) \/ (Depth(j) = Depth(k) /\ j <= k)
First(lines) == CHOOSE k \in lines : \A j \in lines : Before(k, j)

PlanMounts == {k \in DOMAIN fstab : Planned(fstab[k])}

-----------------------------------------------------------------------------
(* MountedSystem::mount: the system, what fstab adds, then proc, sys, dev  *)
(* (bound with all that is mounted below them).  A mount that fails takes  *)
(* down what was mounted, by Drop.                                         *)

Attach(path, below, next) ==
    \/ /\ table' = table \o <<path>> \o below
       /\ tracked' = Append(tracked, path)
       /\ pc' = next
    \/ pc' = "release" /\ UNCHANGED <<table, tracked>>

MountRoot ==
    /\ pc = "root" /\ Attach(<<>>, <<>>, "fstab")
    /\ UNCHANGED <<matching, fstab, planned, todo, inside, known, tries, failed>>

ReadFstab ==
    /\ pc = "fstab"
    /\ IF \E k \in DOMAIN fstab : Considered(fstab[k]) /\ Ambiguous(fstab[k])
       THEN pc' = "release" /\ UNCHANGED planned
       ELSE /\ planned' = {k \in PlanMounts : Device(fstab[k]).name # RootDevice}
            /\ pc' = "mounts"
    /\ UNCHANGED <<matching, fstab, todo, table, tracked, inside, known, tries, failed>>

Special == <<<<"proc">>, <<"sys">>, <<"dev">>>>
MountNext ==
    /\ pc = "mounts"
    /\ \/ /\ planned # {} /\ planned' = planned \ {First(planned)} /\ UNCHANGED todo
          /\ Attach(fstab[First(planned)].path, <<>>, "mounts")
       \/ /\ planned = {} /\ pc' = "special"
          /\ todo' = Special /\ UNCHANGED <<planned, table, tracked>>
    /\ UNCHANGED <<matching, fstab, inside, known, tries, failed>>

MountSpecial ==
    /\ pc = "special"
    /\ \/ /\ todo # <<>> /\ todo' = Tail(todo)
          /\ Attach(Head(todo), HostMounts[Head(todo)[1]], "special")
       \/ todo = <<>> /\ pc' = "mounted" /\ UNCHANGED <<todo, table, tracked>>
    /\ UNCHANGED <<matching, fstab, planned, inside, known, tries, failed>>

(* Scripts run, and may leave processes behind.                            *)
Scripts ==
    /\ pc = "mounted" /\ pc' = "release"
    /\ inside' \in {"none", "some", "stubborn"}
    /\ UNCHANGED <<matching, fstab, planned, todo, table, tracked, known, tries, failed>>

-----------------------------------------------------------------------------
(* release.                                                                *)

(* processes_inside: who has its root in the mounted system.               *)
ProcessesInside == inside # "none"

StopProcesses ==
    /\ pc = "release" /\ tracked # <<>>
    /\ IF ~ProcessesInside \/ tries = StopAttempts THEN pc' = "list" /\ UNCHANGED <<inside, tries>>
       ELSE /\ inside' \in (IF inside = "some" THEN {"none", "some"} ELSE {"stubborn"})
            /\ tries' = tries + 1 /\ UNCHANGED pc
    /\ UNCHANGED <<matching, fstab, planned, todo, table, tracked, known, failed>>

ReleaseNothing ==
    /\ pc = "release" /\ tracked = <<>> /\ pc' = "released"
    /\ UNCHANGED <<matching, fstab, planned, todo, table, tracked, inside, known, tries, failed>>

NewestFirst(paths) == Reverse(paths)

(* mounts_under, or what was tracked when mountinfo cannot be read.        *)
ListMounts ==
    /\ pc = "list" /\ pc' = "unmount"
    /\ \/ todo' = NewestFirst(table) /\ UNCHANGED known
       \/ todo' = NewestFirst(tracked) /\ known' = FALSE
    /\ tracked' = <<>>
    /\ UNCHANGED <<matching, fstab, planned, table, inside, tries, failed>>

Below(path) == {i \in DOMAIN table : IsStrictPrefix(path, table[i])}
Top(path) == {i \in DOMAIN table : table[i] = path
                                   /\ \A j \in DOMAIN table : table[j] = path => j <= i}
(* What is left keeps its place in the order the mounts were made.         *)
Without(gone) == [i \in DOMAIN table \ gone |-> table[i]]

(* mutant: a busy mount is left as it is.                                  *)
DetachedNot(path) == table
(* MNT_DETACH takes the mount and all below it out of the tree.            *)
Detached(path) == Without(Top(path) \cup Below(path))

Busy(path) == Below(path) # {} \/ (ProcessesInside /\ path = <<>>)

UnmountNext ==
    LET path == Head(todo)
    IN  /\ pc = "unmount" /\ todo # <<>> /\ todo' = Tail(todo)
        /\ IF Top(path) # {} /\ ~Busy(path) THEN table' = Without(Top(path)) /\ UNCHANGED failed
           ELSE failed' = TRUE /\ table' = Detached(path)
        /\ UNCHANGED <<pc, matching, fstab, planned, tracked, inside, known, tries>>

Synced == /\ pc = "unmount" /\ todo = <<>> /\ pc' = "released"
          /\ UNCHANGED <<matching, fstab, planned, todo, table, tracked, inside, known, tries, failed>>

(* Two lines of fstab may name one mount point.                            *)
Next == \/ MountRoot \/ ReadFstab \/ MountNext \/ MountSpecial \/ Scripts
        \/ StopProcesses \/ ReleaseNothing \/ ListMounts \/ UnmountNext \/ Synced

Spec == Init /\ [][Next]_vars

-----------------------------------------------------------------------------
Hides(later, earlier) == IsStrictPrefix(later, earlier)

(* What a distribution writes: fstab leaves proc, sys and dev to the       *)
(* system, and what is mounted below those of the agent is seen there.     *)
FstabsArePlain ==
    \A f \in Fstabs : /\ f \in Seq({f[k] : k \in DOMAIN f})
                      /\ \A k \in DOMAIN f : /\ f[k].path \in Seq(STRING)
                                             /\ f[k].path # <<>> => <<f[k].path[1]>> \notin Range(Special)
HostIsPlain ==
    \A path \in Range(Special) :
        LET below == HostMounts[path[1]]
        IN  /\ below \in Seq(Seq(STRING))
            /\ \A k \in DOMAIN below : Len(below[k]) > 1 /\ below[k][1] = path[1]
            /\ \A j, k \in DOMAIN below : j < k => ~Hides(below[k], below[j])

(* NothingHidden: no mount is made over a directory that already has a     *)
(* mount below it, however fstab orders its lines.                         *)
NothingHidden == \A i, j \in DOMAIN table : i < j => ~Hides(table[j], table[i])

(* UniquelyMounted: for a partition image, which lands on a disk with      *)
(* other systems, a partition is mounted only when nothing else on the     *)
(* disk answers to the name fstab gives it.                                *)
UniquelyMounted ==
    matching = "unique" => \A k \in planned : Planned(fstab[k]) /\ Cardinality(Found(fstab[k])) = 1

(* NothingLeftMounted: when the system was released nothing of it is       *)
(* mounted, whether or not something was busy or the kernel's table could  *)
(* be read.                                                                *)
NothingLeftMounted == pc = "released" => DOMAIN table = {}

(* CleanRelease: releasing fails only when a process could not be killed   *)
(* or the kernel's table could not be read.                                *)
CleanRelease == failed => inside # "none" \/ ~known
=============================================================================

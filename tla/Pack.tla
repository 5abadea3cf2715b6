-------------------------------- MODULE Pack --------------------------------
(* The image packer: a raw disk or filesystem image, and scripts, become   *)
(* an archive.  Disk space may run out and tools may fail at any step, the *)
(* packer may be killed, and it may be run again.                          *)
EXTENDS Naturals, Sequences, FiniteSets, Functions, SequencesExt

CONSTANTS Sources,  \* image files: gpt, bytes of the file, parts (a filesystem image has one)
          Commands, \* what the packer may be asked: scripts, script roots, root partition (0: none)
          Fstypes,  \* Fstypes[kind]: the filesystems of an image kind
          MaxRuns

VARIABLES source,   \* the image file as it was given
          file,     \* the image file as it is
          args,     \* the command of the latest run
          pc, next, \* where it is, and the partition it is at
          raw,      \* the extracted partition, if any
          packed, systems,
          partial, out,  \* OUT.partial and OUT
          runs

vars == <<source, file, args, pc, next, raw, packed, systems, partial, out, runs>>

Nothing == <<>>
Ext(fs) == fs \in {"ext2", "ext3", "ext4"}
Kind == IF file.gpt THEN "disk" ELSE "partition"

Init == /\ source \in Sources /\ file = source
        /\ args \in Commands /\ pc = "idle" /\ next = 1
        /\ raw = Nothing /\ packed = <<>> /\ systems = <<>>
        /\ partial = Nothing /\ out = Nothing /\ runs = 0

outputs == <<source, file, partial, out, runs>>

\* scripts::load: each script is valid and given once; a root names one of them, once.
Loads(c) == /\ \A k \in DOMAIN c.scripts : c.scripts[k].valid
            /\ IsInjective([k \in DOMAIN c.scripts |-> c.scripts[k].name])
            /\ \A k \in DOMAIN c.roots : \E j \in DOMAIN c.scripts : c.scripts[j].name = c.roots[k].name
            /\ IsInjective([k \in DOMAIN c.roots |-> c.roots[k].name])

Scripts == [k \in DOMAIN args.scripts |->
              [name |-> args.scripts[k].name,
               root |-> LET mine == {j \in DOMAIN args.roots : args.roots[j].name = args.scripts[k].name}
                        IN  IF mine = {} THEN 0 ELSE args.roots[CHOOSE j \in mine : TRUE].partition]]

Run(c) ==
    /\ pc \in {"idle", "failed", "done"} /\ runs < MaxRuns /\ runs' = runs + 1
    /\ args' = c /\ pc' = IF Loads(c) THEN "probe" ELSE "failed"
    /\ next' = 1 /\ raw' = Nothing /\ packed' = <<>> /\ systems' = <<>>
    /\ UNCHANGED <<source, file, partial, out>>

\* blkid: a filesystem and no GPT makes a partition image; else there must be a table to back up.
Probe ==
    /\ pc = "probe"
    /\ pc' = IF ~file.gpt /\ file.parts # <<>> /\ file.parts[1].fs # "none" THEN "whole"
             ELSE IF file.gpt THEN "extract" ELSE "failed"
    /\ UNCHANGED <<outputs, args, next, raw, packed, systems>>

\* extract_formatted: the partition is copied out, then probed.
Extract ==
    LET p == file.parts[next]
    IN  /\ pc = "extract" /\ next <= Len(file.parts)
        /\ IF p.end > file.bytes THEN pc' = "failed" /\ UNCHANGED <<next, raw>>
           ELSE IF p.fs = "none" THEN next' = next + 1 /\ UNCHANGED <<pc, raw>>
           ELSE IF p.fs \notin Fstypes.disk THEN pc' = "failed" /\ UNCHANGED <<next, raw>>
           ELSE pc' = "clone" /\ raw' = <<p>> /\ UNCHANGED next
        /\ UNCHANGED <<outputs, args, packed, systems>>

\* holds_system: only ext filesystems are looked into; one that cannot be read holds none.
HoldsSystem(p) == Ext(p.fs) /\ p.os = "yes"

\* Looked for only when no root was asked for; then the partition is cloned, and the raw copy removed.
Clone ==
    /\ pc = "clone"
    /\ systems' = IF args.root = 0 /\ HoldsSystem(raw[1]) THEN Append(systems, raw[1].number) ELSE systems
    /\ packed' = Append(packed, raw[1]) /\ raw' = Nothing
    /\ next' = next + 1 /\ pc' = IF Kind = "disk" THEN "extract" ELSE "choose"
    /\ UNCHANGED <<outputs, args>>

ExtractsDone == /\ pc = "extract" /\ next > Len(file.parts) /\ pc' = "choose"
                /\ UNCHANGED <<outputs, args, next, raw, packed, systems>>

\* pack_partition: an ext filesystem is copied and the copy shrunk; others are cloned as they are.
Whole ==
    LET p == file.parts[1]
    IN  /\ pc = "whole"
        /\ IF p.fs \notin Fstypes.partition THEN pc' = "failed" /\ UNCHANGED raw
           ELSE pc' = (IF Ext(p.fs) THEN "check" ELSE "clone") /\ raw' = <<[p EXCEPT !.size = file.bytes]>>
        /\ UNCHANGED <<outputs, args, next, packed, systems>>

\* mutant: the filesystem is checked where it lies, in the image file
CheckInPlace ==
    /\ pc = "check"
    /\ IF raw[1].state = "broken" THEN pc' = "failed" /\ UNCHANGED <<raw, file>>
       ELSE /\ pc' = "shrink" /\ raw' = <<[raw[1] EXCEPT !.state = "clean"]>>
            /\ file' = [file EXCEPT !.parts[1].state = "clean"]
    /\ UNCHANGED <<source, partial, out, runs, args, next, packed, systems>>

\* e2fsck -f -p: what it corrects is fine, any other outcome is not.
Check ==
    /\ pc = "check"
    /\ IF raw[1].state = "broken" THEN pc' = "failed" /\ UNCHANGED raw
       ELSE pc' = "shrink" /\ raw' = <<[raw[1] EXCEPT !.state = "clean"]>>
    /\ UNCHANGED <<outputs, args, next, packed, systems>>

\* resize2fs -M, and the size that dumpe2fs reports then.
Shrink ==
    /\ pc = "shrink" /\ pc' = "clone" /\ raw' = <<[raw[1] EXCEPT !.size = raw[1].used]>>
    /\ UNCHANGED <<outputs, args, next, packed, systems>>

Numbers == {packed[k].number : k \in DOMAIN packed}

\* choose_root: as asked for, or the only system.
Root == IF args.root # 0 THEN args.root ELSE IF Len(systems) = 1 THEN systems[1] ELSE 0

\* choose_root and check_script_roots: roots are packed partitions.
Choose ==
    /\ pc = "choose"
    /\ pc' = IF args.root \in Numbers \cup {0}
                /\ \A k \in DOMAIN Scripts : Scripts[k].root \in Numbers \cup {0}
             THEN "create" ELSE "failed"
    /\ UNCHANGED <<outputs, args, next, raw, packed, systems>>

Archive == [whole |-> TRUE, kind |-> Kind, table |-> Kind = "disk", parts |-> packed,
            root |-> Root, scripts |-> Scripts, args |-> args, run |-> runs]

\* File::create(OUT.partial).
Create ==
    /\ pc = "create" /\ pc' = "write" /\ partial' = <<[whole |-> FALSE, run |-> runs]>>
    /\ UNCHANGED <<source, file, out, runs, args, next, raw, packed, systems>>

\* write_archive refuses a manifest without partitions; then the file is synced.
Write ==
    /\ pc = "write"
    /\ IF packed = <<>> THEN pc' = "failed" /\ partial' = Nothing
       ELSE pc' = "rename" /\ partial' = <<Archive>>
    /\ UNCHANGED <<source, file, out, runs, args, next, raw, packed, systems>>

Rename ==
    /\ pc = "rename" /\ pc' = "done" /\ out' = partial /\ partial' = Nothing
    /\ UNCHANGED <<source, file, runs, args, next, raw, packed, systems>>

\* A step fails: OUT.partial is removed once there is one, the temporary directory always.
Fails ==
    /\ pc \notin {"idle", "failed", "done"} /\ pc' = "failed" /\ raw' = Nothing
    /\ partial' = IF pc \in {"write", "rename"} THEN Nothing ELSE partial
    /\ UNCHANGED <<source, file, out, runs, args, next, packed, systems>>

Killed ==
    /\ pc \notin {"idle", "failed", "done"} /\ pc' = "idle"
    /\ UNCHANGED <<outputs, args, next, raw, packed, systems>>

Next == \/ \E c \in Commands : Run(c)
        \/ Probe \/ Extract \/ Clone \/ ExtractsDone \/ Whole \/ Check \/ Shrink
        \/ Choose \/ Create \/ Write \/ Rename \/ Fails \/ Killed

-----------------------------------------------------------------------------
\* What an archive of the image holds: every partition with a filesystem, here those up to
\* the n-th, and those of them with a system.
Formatted(n) == {k \in DOMAIN source.parts : k <= n /\ source.parts[k].fs # "none"}
SystemsOf(n) == {k \in Formatted(n) : HoldsSystem(source.parts[k])}

\* An archive of the image: all partitions with a filesystem in the table's order with what
\* they held, an ext filesystem image repaired and no smaller than its data; a root that was
\* asked for, or the one system found; script roots among the partitions.
Faithful(a) ==
    LET all == Len(source.parts)
        same(p, q) == p.number = q.number /\ p.fs = q.fs /\ p.data = q.data /\ p.size >= p.used
    IN  /\ a.whole /\ Loads(a.args) /\ a.parts # <<>> /\ Len(a.parts) = Cardinality(Formatted(all))
        /\ \A k \in Formatted(all) : same(a.parts[Cardinality(Formatted(k))], source.parts[k])
        /\ \A k \in DOMAIN a.parts : a.parts[k].fs \in Fstypes[a.kind]
        /\ a.kind = "partition" /\ Ext(a.parts[1].fs) => a.parts[1].state = "clean"
        /\ {a.root} \cup {a.scripts[k].root : k \in DOMAIN a.scripts}
              \subseteq {0} \cup {a.parts[k].number : k \in DOMAIN a.parts}
        /\ a.root = IF a.args.root # 0 THEN a.args.root
                    ELSE IF Cardinality(SystemsOf(all)) = 1
                         THEN source.parts[CHOOSE k \in SystemsOf(all) : TRUE].number ELSE 0

(* OUT is absent, or a whole archive of the image, even after the packer   *)
(* failed or was killed half-way.                                          *)
OutIsWhole == out # Nothing => Faithful(out[1])

(* Packing leaves the image file as it is, and a run that ended by itself  *)
(* leaves no OUT.partial of its own (one of an earlier, killed run may     *)
(* still be there).                                                        *)
LeavesNoTrace == /\ file = source
                 /\ pc \in {"failed", "done"} /\ partial # Nothing => partial[1].run < runs
=============================================================================

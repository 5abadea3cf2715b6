------------------------------ MODULE Archive ------------------------------
(***************************************************************************)
(* Image archives: an export writes a manifest and the files it names, an  *)
(* import reads them back.  Data stands for its own checksum.  While an    *)
(* export runs a new capture may replace the image's files; the stream may *)
(* be cut off or altered on its way; and the archive may be hand-made.     *)
(* Files are <<"table">>, <<"p", n>> and <<"s", name>>.                    *)
(***************************************************************************)
EXTENDS Integers, Sequences, FiniteSets, Functions, SequencesExt

CONSTANTS
    Images,         \* what may be exported: kind, sector, parts, root, scripts, and text: the
                    \* length of its name, its labels and its scripts' inputs
    Manifests,      \* manifests of hand-made archives
    SectorSizes, Fstypes,   \* Fstypes[kind]: FSTYPES of an image kind
    MaxSmall,       \* MAX_PARTITION_TABLE_BYTES, MAX_SCRIPT_BYTES (data is its own length)
    MaxManifest     \* MAX_MANIFEST_BYTES

VARIABLES
    files,     \* the exported image's directory
    export,    \* the export: image, the files opened so far, pc
    stream,    \* the archive on its way: a manifest, entries, and whether it ends early
    import,    \* the import: pc, manifest, received, entries still to read
    honest     \* the stream is what the export wrote

vars == <<files, export, stream, import, honest>>

FORMAT == 3
COMPATIBLE_FORMAT == 2
NoTable == [file |-> <<"none">>, sha |-> 0]
NoStream == [manifest |-> <<>>, entries |-> <<>>, cut |-> FALSE]

PartitionFile(n) == <<"p", n>>
ScriptFile(name) == <<"s", name>>

(* The files of an image in the order they are archived.                   *)
FilesOf(i) == (IF i.kind = "disk" THEN <<<<"table">>>> ELSE <<>>)
              \o [k \in DOMAIN i.parts |-> PartitionFile(i.parts[k].number)]

Init == /\ \E i \in Images :
              /\ files = [f \in Range(FilesOf(i)) |-> 1]
              /\ export = [pc |-> "open", image |-> i, opened |-> <<>>]
        /\ stream = NoStream
        /\ import = [pc |-> "idle", manifest |-> <<>>, received |-> <<>>, rest |-> <<>>]
        /\ honest = TRUE

-----------------------------------------------------------------------------
(* The manifest.                                                           *)

RequiredFormat(m) ==
    IF m.kind = "partition" \/ \E k \in DOMAIN m.scripts : m.scripts[k].root # 0
    THEN FORMAT ELSE COMPATIBLE_FORMAT

Listed(m) == (IF m.table = NoTable THEN <<>> ELSE <<m.table>>) \o m.parts \o m.scripts

RootsArchived(m) ==
    \A r \in {m.root} \cup {m.scripts[k].root : k \in DOMAIN m.scripts} :
        r = 0 \/ \E k \in DOMAIN m.parts : m.parts[k].number = r

(* A manifest is as long as what it quotes and lists.                      *)
Fits(m) == m.text + Len(Listed(m)) <= MaxManifest

(* Manifest::parse.                                                        *)
Readable(m) == Fits(m) /\ m.format \in COMPATIBLE_FORMAT .. FORMAT

(* Manifest::checksums accepts it: a format that suffices, a table exactly *)
(* for disk images, each partition and each script once under its own file *)
(* name, and roots among the partitions.                                   *)
Valid(m) ==
    /\ m.format >= RequiredFormat(m)
    /\ m.sector \in SectorSizes
    /\ IF m.kind = "disk" THEN m.table # NoTable /\ m.table.file = <<"table">> ELSE m.table = NoTable
    /\ m.parts # <<>>
    /\ m.kind = "partition" => Len(m.parts) = 1 /\ m.parts[1].number = 1
    /\ \A k \in DOMAIN m.parts : /\ m.parts[k].number >= 1
                                 /\ m.parts[k].fs \in Fstypes[m.kind]
                                 /\ m.parts[k].file = PartitionFile(m.parts[k].number)
    /\ \A k \in DOMAIN m.scripts : m.scripts[k].file = ScriptFile(m.scripts[k].name)
    /\ IsInjective([k \in DOMAIN Listed(m) |-> Listed(m)[k].file])
    /\ RootsArchived(m)

-----------------------------------------------------------------------------
(* Exporting.                                                              *)

(* HashedFile::open: a file is hashed and kept open; what replaces it in   *)
(* the directory later is not seen.                                        *)
OpenNext ==
    LET todo == FilesOf(export.image)
        f == todo[Len(export.opened) + 1]
    IN  /\ export.pc = "open" /\ Len(export.opened) < Len(todo)
        /\ export' = IF f \in DOMAIN files THEN [export EXCEPT !.opened = Append(@, files[f])]
                     ELSE [export EXCEPT !.pc = "failed"]
        /\ UNCHANGED <<files, stream, import, honest>>

(* A new capture empties the directory, then stores file after file.       *)
Recapture ==
    /\ \/ files' = [f \in {} |-> 0]
       \/ \E f \in Range(FilesOf(export.image)) \ DOMAIN files :
             files' = [g \in DOMAIN files \cup {f} |-> IF g = f THEN 2 ELSE files[g]]
    /\ UNCHANGED <<export, stream, import, honest>>

Manifest ==
    LET i == export.image
        sha(f) == export.opened[CHOOSE k \in DOMAIN FilesOf(i) : FilesOf(i)[k] = f]
        m == [kind |-> i.kind, sector |-> i.sector, root |-> i.root, format |-> 0, text |-> i.text,
              table |-> IF i.kind = "disk" THEN [file |-> <<"table">>, sha |-> sha(<<"table">>)] ELSE NoTable,
              parts |-> [k \in DOMAIN i.parts |->
                            LET f == PartitionFile(i.parts[k].number)
                            IN  [number |-> i.parts[k].number, fs |-> i.parts[k].fs, file |-> f, sha |-> sha(f)]],
              scripts |-> [k \in DOMAIN i.scripts |->
                            [name |-> i.scripts[k].name, file |-> ScriptFile(i.scripts[k].name),
                             sha |-> i.scripts[k].body, root |-> i.scripts[k].root]]]
    IN  [m EXCEPT !.format = RequiredFormat(m)]

Entry(x) == [name |-> x.file, plain |-> TRUE, data |-> x.sha]

(* write_archive, once everything is open.                                 *)
WriteArchive ==
    /\ export.pc = "open" /\ Len(export.opened) = Len(FilesOf(export.image))
    /\ IF Valid(Manifest)
       THEN /\ stream' = [manifest |-> <<Manifest>>, cut |-> FALSE,
                          entries |-> [k \in DOMAIN Listed(Manifest) |-> Entry(Listed(Manifest)[k])]]
            /\ export' = [export EXCEPT !.pc = "written"]
       ELSE export' = [export EXCEPT !.pc = "failed"] /\ UNCHANGED stream
    /\ UNCHANGED <<files, import, honest>>

-----------------------------------------------------------------------------
(* On the way.                                                             *)

Altered(s) ==
    {[s EXCEPT !.entries = SubSeq(@, 1, k)] : k \in 0 .. Len(s.entries) - 1}
    \cup {[s EXCEPT !.entries = SubSeq(@, 1, k), !.cut = TRUE] : k \in 0 .. Len(s.entries) - 1}
    \cup {[s EXCEPT !.entries[k].data = 9] : k \in DOMAIN s.entries}
    \cup {[s EXCEPT !.entries[k].plain = FALSE] : k \in DOMAIN s.entries}
    \cup {[s EXCEPT !.entries = Append(@, @[k])] : k \in DOMAIN s.entries}
    \cup {[s EXCEPT !.entries = Append(@, Entry([file |-> <<"p", 9>>, sha |-> 1]))]}
    \cup {[s EXCEPT !.entries = Reverse(@)]}
    \cup {[s EXCEPT !.manifest = <<>>]}

OnTheWay == /\ import.pc = "idle" /\ honest /\ stream # NoStream
            /\ stream' \in Altered(stream) /\ honest' = FALSE
            /\ UNCHANGED <<files, export, import>>

(* A hand-made archive: a manifest with all it lists.                      *)
HandMade == /\ import.pc = "idle" /\ export.pc = "open" /\ stream = NoStream
            /\ \E m \in Manifests :
                  stream' = [manifest |-> <<m>>, cut |-> FALSE,
                             entries |-> [k \in DOMAIN Listed(m) |-> Entry(Listed(m)[k])]]
            /\ export' = [export EXCEPT !.pc = "failed"]
            /\ honest' = FALSE
            /\ UNCHANGED <<files, import>>

-----------------------------------------------------------------------------
(* Importing.                                                              *)

(* read_manifest.                                                          *)
ManifestFirst == stream.manifest # <<>> /\ Readable(stream.manifest[1])

(* ArchiveReader::open: the manifest comes first and is valid.             *)
ImportOpens ==
    /\ import.pc = "idle" /\ stream # NoStream
    /\ import' = IF ManifestFirst /\ Valid(stream.manifest[1])
                 THEN [pc |-> "receive", manifest |-> stream.manifest, received |-> <<>>,
                       rest |-> stream.entries]
                 ELSE [import EXCEPT !.pc = "refused"]
    /\ UNCHANGED <<files, export, stream, honest>>

ListedFiles == {x.file : x \in Range(Listed(import.manifest[1]))}
Sha(f) == (CHOOSE x \in Range(Listed(import.manifest[1])) : x.file = f).sha
ReceivedFiles == {x.name : x \in Range(import.received)}

(* entry_name, and the checksum of what is written or read.                *)
PlainFile(e) == e.plain
Checksum(e) == e.data

(* mutant: a file that comes twice replaces the first one.                 *)
AcceptableAgain(e) == /\ PlainFile(e) /\ e.name \in ListedFiles
                      /\ e.name[1] # "p" => e.data <= MaxSmall
(* receive: a plain file that the manifest lists, that did not come yet,   *)
(* that is not too large, and that has the checksum the manifest says.     *)
Acceptable(e) == /\ PlainFile(e) /\ e.name \in ListedFiles /\ e.name \notin ReceivedFiles
                 /\ e.name[1] # "p" => e.data <= MaxSmall
                 /\ Checksum(e) = Sha(e.name)

ReceiveEntry ==
    /\ import.pc = "receive" /\ import.rest # <<>>
    /\ import' = IF Acceptable(Head(import.rest))
                 THEN [import EXCEPT !.received = Append(@, Head(import.rest)), !.rest = Tail(@)]
                 ELSE [import EXCEPT !.pc = "refused"]
    /\ UNCHANGED <<files, export, stream, honest>>

(* The end of the stream: nothing listed is missing, and the stream ended  *)
(* where an archive ends.                                                  *)
ReceiveEnds ==
    /\ import.pc = "receive" /\ import.rest = <<>>
    /\ import' = [import EXCEPT !.pc = IF ListedFiles \subseteq ReceivedFiles /\ ~stream.cut
                                       THEN "imported" ELSE "refused"]
    /\ UNCHANGED <<files, export, stream, honest>>

Next == \/ OpenNext \/ Recapture \/ WriteArchive \/ OnTheWay \/ HandMade
        \/ ImportOpens \/ ReceiveEntry \/ ReceiveEnds

Spec == Init /\ [][Next]_vars

-----------------------------------------------------------------------------
(* ExportImports: an archive that was written is accepted as it is, unless *)
(* its manifest or a script is longer than an import takes (an export does *)
(* not look), and what is imported is the image: partitions, roots and     *)
(* scripts in order, in a format no newer than it needs.                   *)
ExportImports ==
    honest /\ import.pc \in {"receive", "imported", "refused"} =>
        LET m == stream.manifest[1]
            i == export.image
        IN  /\ import.pc = "refused" => ~Fits(m) \/ \E s \in Range(i.scripts) : s.body > MaxSmall
            /\ m.kind = i.kind /\ m.root = i.root
            /\ [k \in DOMAIN m.parts |-> m.parts[k].number] = [k \in DOMAIN i.parts |-> i.parts[k].number]
            /\ [k \in DOMAIN m.scripts |-> <<m.scripts[k].name, m.scripts[k].sha, m.scripts[k].root>>]
                 = [k \in DOMAIN i.scripts |-> <<i.scripts[k].name, i.scripts[k].body, i.scripts[k].root>>]
            /\ m.format = 3 <=> \/ i.kind = "partition"
                                \/ \E s \in Range(i.scripts) : s.root # 0

(* ImportedIsWhole: whatever happened to the archive, what is imported is  *)
(* exactly what its manifest lists, each file once and unaltered.          *)
ImportedIsWhole ==
    import.pc = "imported" =>
        /\ Len(import.received) = Len(Listed(import.manifest[1]))
        /\ \A e \in Range(import.received) :
              \E x \in Range(Listed(import.manifest[1])) : x.file = e.name /\ x.sha = e.data

(* ImportedIsRestorable: a machine can restore and run what was imported:  *)
(* a table for a disk, one partition numbered 1 for a partition image,     *)
(* filesystems the agent knows, roots that are there.                      *)
ImportedIsRestorable ==
    import.pc = "imported" =>
        LET m == import.manifest[1]
            numbers == {p.number : p \in Range(m.parts)}
        IN  /\ (m.kind = "disk") = (<<"table">> \in ReceivedFiles)
            /\ m.kind = "partition" => numbers = {1}
            /\ Cardinality(numbers) = Len(m.parts) /\ numbers # {}
            /\ \A p \in Range(m.parts) : p.fs \in Fstypes[m.kind] /\ PartitionFile(p.number) \in ReceivedFiles
            /\ m.root \in numbers \cup {0}
            /\ \A s \in Range(m.scripts) : s.root \in numbers \cup {0}
=============================================================================

---------------------------- MODULE ScriptStore ----------------------------
(***************************************************************************)
(* The library of post-install scripts: what the dashboard and an import   *)
(* write, which scripts an image carries, which inputs a deployment is     *)
(* accepted with and what an agent is later told to run.                   *)
(*                                                                         *)
(* A script's name is a sequence of parts: import_name appends a part and  *)
(* cuts the name to MaxNameLen, so that names made up by an import can     *)
(* meet names that were given.  Reads of a script list take two queries,   *)
(* and anything may be written in between.                                 *)
(***************************************************************************)
EXTENDS Integers, Sequences, SequencesExt, FiniteSets

CONSTANTS
    Images, Hosts,
    Archived,      \* partition numbers every image has
    NoRoot,        \* no root partition chosen
    Definitions,   \* scripts a user writes: [name, body, inputs]
    Archives,      \* script lists of archives: sequences of [def, root]
    Texts,         \* values of a number input
    Empty, NoValue,\* the empty string, and no value at all
    Variables,     \* the configured script variables: name -> value
    Requests,      \* DeployInputs a user sends
    MaxNameLen, MaxScripts, MaxOps

VARIABLES
    scripts,    \* rows by id: [name, body, inputs]
    nextId,     \* AUTOINCREMENT
    links,      \* links[i]: image_scripts of image i in order, [script, root]
    rootOf,     \* images.root_partition
    deleting,   \* delete_script between its check and its DELETE
    reader,     \* get_for_image between its two queries, and its caller
    task,       \* the deployment: its image, stored inputs, definitions it saw
    plan,       \* what planned_scripts answered last
    imported,   \* the import that was the last step, if it was (history)
    ops

libVars == <<scripts, nextId, links, rootOf>>
vars == <<libVars, deleting, reader, task, plan, imported, ops>>

Ids == 1 .. MaxScripts
Rows == DOMAIN scripts
NoImport == [image |-> NoRoot, list |-> <<>>]
NoTask == [image |-> NoRoot]
Idle == [pc |-> "idle"]

-----------------------------------------------------------------------------
(* Definitions and values.                                                 *)

Checks(input, v) ==
    CASE input.kind \in {"text", "secret"} -> TRUE
      [] input.kind = "number" -> v \in Texts
      [] input.kind = "choice" -> v \in input.choices

ValidInput(input) ==
    /\ (input.kind = "choice") = (input.choices # {})
    /\ input.kind = "secret" => input.default = NoValue
    /\ input.default # NoValue => Checks(input, input.default)

ValidScript(d) ==
    /\ d.name # <<>> /\ Len(d.name) <= MaxNameLen
    /\ d.body # Empty
    /\ \A k \in DOMAIN d.inputs : ValidInput(d.inputs[k])
    /\ \A j, k \in DOMAIN d.inputs : j # k => d.inputs[j].name # d.inputs[k].name

ValueFrom(input, values) ==
    IF input.name \in DOMAIN values /\ values[input.name] # Empty
    THEN values[input.name] ELSE input.default

(* None when the input has no value and needs none.                        *)
Fits(input, values) ==
    LET v == ValueFrom(input, values)
    IN  IF v = NoValue THEN ~input.required ELSE Checks(input, v)

Valued(inputs, values) ==
    {k \in DOMAIN inputs : ValueFrom(inputs[k], values) # NoValue}

-----------------------------------------------------------------------------
(* Deploying: the inputs of a request.                                     *)

Known(source) == source.from = "variable" => source.is \in DOMAIN Variables

Resolve(sources) ==
    [n \in DOMAIN sources |-> IF sources[n].from = "value" THEN sources[n].is
                              ELSE Variables[sources[n].is]]

Sources(req) == {req.shared} \cup {req.perMachine[h] : h \in DOMAIN req.perMachine}

Declares(declared, n, perMachine) ==
    LET named == SelectSeq(declared, LAMBDA input : input.name = n)
    IN  named # <<>> /\ named[1].perMachine = perMachine

(* The values an input is looked up in, for host h.                        *)
SourceFor(input, req, h) ==
    IF ~input.perMachine THEN Resolve(req.shared)
    ELSE IF h \in DOMAIN req.perMachine THEN Resolve(req.perMachine[h]) ELSE <<>>

(* mutant: a required input is only asked for when the script is run.      *)
AcceptableUnasked(declared, req) ==
    /\ \A s \in Sources(req) : \A n \in DOMAIN s : Known(s[n])
    /\ \A n \in DOMAIN req.shared : Declares(declared, n, FALSE)
    /\ \A h \in DOMAIN req.perMachine :
          \A n \in DOMAIN req.perMachine[h] : Declares(declared, n, TRUE)

Acceptable(declared, req) ==
    /\ \A s \in Sources(req) : \A n \in DOMAIN s : Known(s[n])
    /\ \A n \in DOMAIN req.shared : Declares(declared, n, FALSE)
    /\ DOMAIN req.perMachine \subseteq Hosts
    /\ \A h \in DOMAIN req.perMachine :
          \A n \in DOMAIN req.perMachine[h] : Declares(declared, n, TRUE)
    /\ \A k \in DOMAIN declared : Declares(declared, declared[k].name, declared[k].perMachine)
    /\ \A h \in Hosts : \A k \in DOMAIN declared :
          Fits(declared[k], SourceFor(declared[k], req, h))

(* One map of values per host: a later script's value replaces an earlier  *)
(* one of the same name.                                                   *)
Resolved(declared, req, h) ==
    LET has == {k \in DOMAIN declared :
                   ValueFrom(declared[k], SourceFor(declared[k], req, h)) # NoValue}
        last(n) == CHOOSE k \in has : /\ declared[k].name = n
                                      /\ \A j \in has : declared[j].name = n => j <= k
    IN  [n \in {declared[k].name : k \in has} |->
            ValueFrom(declared[last(n)], SourceFor(declared[last(n)], req, h))]

-----------------------------------------------------------------------------
Init == /\ scripts = <<>> /\ nextId = 1
        /\ links = [i \in Images |-> <<>>]
        /\ rootOf = [i \in Images |-> NoRoot]
        /\ deleting = NoRoot /\ reader = Idle
        /\ task = NoTask /\ plan = Idle
        /\ imported = NoImport
        /\ ops = 0

Counted == ops < MaxOps /\ ops' = ops + 1
Op == Counted /\ imported' = NoImport
Quiet == imported' = NoImport /\ UNCHANGED ops
Elsewhere == UNCHANGED <<deleting, reader, task, plan>>

Named(lib, name) == {id \in DOMAIN lib : lib[id].name = name}

(* The row write_script leaves: the scripts' names are UNIQUE.             *)
Written(lib, id, name, d) ==
    [j \in DOMAIN lib \cup {id} |->
        IF j = id THEN [name |-> name, body |-> d.body, inputs |-> d.inputs] ELSE lib[j]]

CreateScript(d) ==
    /\ Op /\ ValidScript(d) /\ Named(scripts, d.name) = {} /\ nextId \in Ids
    /\ scripts' = Written(scripts, nextId, d.name, d)
    /\ nextId' = nextId + 1
    /\ Elsewhere /\ UNCHANGED <<links, rootOf>>

UpdateScript(id, d) ==
    /\ Op /\ ValidScript(d) /\ Named(scripts, d.name) \subseteq {id}
    /\ scripts' = Written(scripts, id, d.name, d)
    /\ Elsewhere /\ UNCHANGED <<nextId, links, rootOf>>

Uses(i, id) == \E k \in DOMAIN links[i] : links[i][k].script = id

DeleteChecks(id) ==
    /\ Op /\ deleting = NoRoot
    /\ \A i \in Images : ~Uses(i, id)
    /\ deleting' = id
    /\ UNCHANGED <<libVars, reader, task, plan>>

(* mutant: a delete that relies on its check alone.                        *)
DeleteWritesAnyway ==
    /\ Quiet /\ deleting # NoRoot
    /\ deleting' = NoRoot
    /\ scripts' = [j \in Rows \ {deleting} |-> scripts[j]]
    /\ UNCHANGED <<nextId, links, rootOf, reader, task, plan>>

(* The DELETE, which the foreign key of image_scripts refuses when the     *)
(* script was attached after the check.                                    *)
DeleteWrites ==
    /\ Quiet /\ deleting # NoRoot
    /\ deleting' = NoRoot
    /\ scripts' = IF \E i \in Images : Uses(i, deleting) THEN scripts
                  ELSE [j \in Rows \ {deleting} |-> scripts[j]]
    /\ UNCHANGED <<nextId, links, rootOf, reader, task, plan>>

(* link_scripts: all of the list or, when it names a script twice or one   *)
(* that is not there, nothing.                                             *)
Linkable(lib, list) ==
    /\ \A j, k \in DOMAIN list : j # k => list[j].script # list[k].script
    /\ \A k \in DOMAIN list : list[k].script \in DOMAIN lib

SetForImage(i, ids) ==
    LET old == links[i]
        root(id) == IF Uses(i, id)
                    THEN old[CHOOSE k \in DOMAIN old : old[k].script = id].root ELSE NoRoot
        list == [k \in DOMAIN ids |-> [script |-> ids[k], root |-> root(ids[k])]]
    IN  /\ Op /\ Linkable(scripts, list)
        /\ links' = [links EXCEPT ![i] = list]
        /\ Elsewhere /\ UNCHANGED <<scripts, nextId, rootOf>>

SetRootForImage(i, k, p) ==
    /\ Op /\ k \in DOMAIN links[i] /\ p \in Archived \cup {NoRoot}
    /\ links' = [links EXCEPT ![i][k].root = p]
    /\ Elsewhere /\ UNCHANGED <<scripts, nextId, rootOf>>

SetRootPartition(i, p) ==
    /\ Op /\ p \in Archived \cup {NoRoot}
    /\ rootOf' = [rootOf EXCEPT ![i] = p]
    /\ Elsewhere /\ UNCHANGED <<scripts, nextId, links>>

-----------------------------------------------------------------------------
(* Importing the scripts of an archive, in one transaction.                *)

ImportName(name, attempt) ==
    IF attempt = 1 THEN name
    ELSE Append(SubSeq(name, 1, IF Len(name) < MaxNameLen THEN Len(name) ELSE MaxNameLen - 1),
                attempt)

(* mutant: a script of that name is the image's own to replace.            *)
UsedByOtherForgotten(i, id) == FALSE

UsedByOther(i, id) == \E j \in Images \ {i} : Uses(j, id)

(* Where an attempt of import_script ends: the name is free, the row is    *)
(* the same script, or it is the first attempt and nobody else uses it.    *)
Settles(lib, i, d, attempt) ==
    \/ Named(lib, ImportName(d.name, attempt)) = {}
    \/ \E id \in Named(lib, ImportName(d.name, attempt)) :
          \/ lib[id].body = d.body /\ lib[id].inputs = d.inputs
          \/ attempt = 1 /\ ~UsedByOther(i, id)

ImportScript(st, i, d) ==
    LET attempt == CHOOSE a \in 1 .. (MaxScripts + 2) :
                      /\ Settles(st.lib, i, d, a)
                      /\ \A b \in 1 .. (a - 1) : ~Settles(st.lib, i, d, b)
        name == ImportName(d.name, attempt)
        found == Named(st.lib, name)
        id == IF found = {} THEN st.next ELSE CHOOSE j \in found : TRUE
    IN  [lib |-> Written(st.lib, id, name, d),
         next |-> IF found = {} THEN st.next + 1 ELSE st.next,
         ids |-> Append(st.ids, id)]

(* What the first k scripts of an archive leave.                           *)
ImportedBy(i, list) ==
    LET st[k \in 0 .. Len(list)] ==
            IF k = 0 THEN [lib |-> scripts, next |-> nextId, ids |-> <<>>]
            ELSE ImportScript(st[k - 1], i, list[k].def)
    IN  st

ImportForImage(i, list) ==
    LET end == ImportedBy(i, list)[Len(list)]
        linked == [k \in DOMAIN list |-> [script |-> end.ids[k], root |-> list[k].root]]
    IN  /\ Counted /\ \A k \in DOMAIN list : ValidScript(list[k].def)
        /\ end.next <= MaxScripts + 1 /\ Linkable(end.lib, linked)
        /\ scripts' = end.lib /\ nextId' = end.next
        /\ links' = [links EXCEPT ![i] = linked]
        /\ imported' = [image |-> i, list |-> list]
        /\ Elsewhere /\ UNCHANGED rootOf

-----------------------------------------------------------------------------
(* Reading the scripts of an image: the rows, then the inputs of the ids.  *)

RowsOf(i) == [k \in DOMAIN links[i] |->
                 [script |-> links[i][k].script, root |-> links[i][k].root,
                  body |-> scripts[links[i][k].script].body]]

Read(for, i, req) ==
    /\ Quiet /\ reader = Idle
    /\ reader' = [pc |-> for, image |-> i, rows |-> RowsOf(i), req |-> req]
    /\ UNCHANGED <<libVars, deleting, task, plan>>

(* assemble: inputs of a script that is gone by now read as none.          *)
InputsOf(id) == IF id \in Rows THEN scripts[id].inputs ELSE <<>>

Assembled == [k \in DOMAIN reader.rows |->
                 [body |-> reader.rows[k].body, inputs |-> InputsOf(reader.rows[k].script)]]

ScriptRoots(i, rows) == \A k \in DOMAIN rows : rows[k].root # NoRoot \/ rootOf[i] # NoRoot

Declared(list) ==
    LET all[k \in 0 .. Len(list)] == IF k = 0 THEN <<>> ELSE all[k - 1] \o list[k].inputs
    IN  all[Len(list)]

(* plan_restore and create_with_inputs.                                    *)
DeployReads(i, req) == task = NoTask /\ Read("deploy", i, req)

DeployWrites ==
    /\ Quiet /\ reader.pc = "deploy"
    /\ reader' = Idle
    /\ LET declared == Declared(Assembled) IN
       task' = IF ScriptRoots(reader.image, reader.rows) /\ Acceptable(declared, reader.req)
               THEN [image |-> reader.image, seen |-> Assembled,
                     values |-> [h \in Hosts |-> Resolved(declared, reader.req, h)]]
               ELSE NoTask
    /\ plan' = Idle
    /\ UNCHANGED <<libVars, deleting>>

(* planned_scripts for the agent of host h.                                *)
PlanReads(h) == task # NoTask /\ Read("plan", task.image, h)

ScriptInputs(s, values) ==
    [n \in {s.inputs[k].name : k \in Valued(s.inputs, values)} |->
        ValueFrom(s.inputs[CHOOSE k \in DOMAIN s.inputs : s.inputs[k].name = n], values)]

PlanAnswers ==
    /\ Quiet /\ reader.pc = "plan"
    /\ reader' = Idle
    /\ LET values == task.values[reader.req]
           fits == \A k \in DOMAIN Assembled : \A n \in DOMAIN Assembled[k].inputs :
                      Fits(Assembled[k].inputs[n], values)
       IN  plan' = [pc |-> IF ~ScriptRoots(reader.image, reader.rows) THEN "rootless"
                           ELSE IF fits THEN "runs" ELSE "stale",
                    read |-> Assembled,
                    inputs |-> [k \in DOMAIN Assembled |-> ScriptInputs(Assembled[k], values)]]
    /\ UNCHANGED <<libVars, deleting, task>>

Next ==
    \/ \E d \in Definitions : CreateScript(d)
    \/ \E id \in Rows, d \in Definitions : UpdateScript(id, d)
    \/ \E id \in Rows : DeleteChecks(id)
    \/ DeleteWrites
    \/ \E i \in Images, ids \in SeqOf(Ids, 2) : SetForImage(i, ids)
    \/ \E i \in Images, k \in 1 .. 2, p \in Archived : SetRootForImage(i, k, p)
    \/ \E i \in Images, p \in Archived : SetRootPartition(i, p)
    \/ \E i \in Images, list \in Archives : ImportForImage(i, list)
    \/ \E i \in Images, req \in Requests : DeployReads(i, req)
    \/ DeployWrites
    \/ \E h \in Hosts : PlanReads(h)
    \/ PlanAnswers

Spec == Init /\ [][Next]_vars

-----------------------------------------------------------------------------
(* TypeOK: rows have distinct names of legal length, and ids below the     *)
(* next one.                                                               *)
TypeOK ==
    /\ Rows \subseteq 1 .. (nextId - 1)
    /\ \A i, j \in Rows : i # j => scripts[i].name # scripts[j].name
    /\ \A i \in Rows : Len(scripts[i].name) \in 1 .. MaxNameLen
    /\ plan.pc \in {"idle", "runs", "stale", "rootless"}

(* LinksLive: an image carries only scripts that exist, each once, though  *)
(* delete_script checks for users and deletes in two statements.           *)
LinksLive == \A i \in Images : Linkable(scripts, links[i])

(* ImportIsFaithful: an import that succeeds leaves the image with exactly *)
(* the archive's scripts, bodies and inputs in order, whatever names were  *)
(* taken and though two of them may come to the same name.                 *)
ImportIsFaithful ==
    imported # NoImport =>
        [k \in DOMAIN links[imported.image] |->
            LET e == links[imported.image][k]
            IN  <<scripts[e.script].body, scripts[e.script].inputs, e.root>>]
        = [k \in DOMAIN imported.list |->
            <<imported.list[k].def.body, imported.list[k].def.inputs, imported.list[k].root>>]

(* ImportKeepsOthers: an import never changes what another image runs.     *)
KeepsOthers ==
    imported' # NoImport =>
        \A i \in Images \ {imported'.image} :
           /\ links'[i] = links[i]
           /\ \A k \in DOMAIN links[i] :
                 scripts'[links[i][k].script] = scripts[links[i][k].script]
ImportKeepsOthers == [][KeepsOthers]_vars

SharedInput(list) ==
    \E j, k \in DOMAIN list : j # k /\
        \E a \in DOMAIN list[j].inputs, b \in DOMAIN list[k].inputs :
            list[j].inputs[a].name = list[k].inputs[b].name

(* AcceptedRuns: a deployment that was accepted is only refused to its     *)
(* agents as stale after a script or the list changed, as long as no two   *)
(* scripts share an input's name.                                          *)
AcceptedRuns ==
    plan.pc = "stale" => plan.read # task.seen \/ SharedInput(plan.read)

(* StaleMeansChanged: the same without the proviso, as the refusal says    *)
(* ("no longer fits the inputs stored with this task").                    *)
StaleMeansChanged == plan.pc = "stale" => plan.read # task.seen
=============================================================================

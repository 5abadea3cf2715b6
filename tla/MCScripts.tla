------------------------------ MODULE MCScripts ------------------------------
(***************************************************************************)
(* The script library, the running of scripts, and what an operator sees   *)
(* of them, side by side: a behaviour is one of Store, Runs, Form, Setup   *)
(* or Editor, as part says.                                                *)
(***************************************************************************)
EXTENDS Integers, Sequences, TLC

CONSTANTS StoreOps, RunsOps, FormEdits, SetupActs, EditorEdits,   \* bounds on what happens in each
          none,
          SetupScripts, SetupAttached, SetupPartitions,               \* of ImageSetup
          (* of ScriptStore *)
          StoreImages, StoreHosts, StorePartitions, StoreDefinitions, StoreArchives,
          StoreTexts, StoreVariables, StoreRequests, StoreNameLen, StoreScripts,
          (* of ScriptRuns *)
          PlannedRoots, Restored, Lines, Loud, HeadBytes, TailBytes, LiveBytes, KeptBytes,
          MarkerBytes, Inside, CharBytes, MaxOutput

(* A deployment with scripts to run; an output is cut into lines, lines    *)
(* into characters of at most CharBytes (four in UTF-8), of which the tail *)
(* that is kept has room for one.                                          *)
ASSUME RunsAssumption ==
    /\ PlannedRoots \in Seq(Nat) /\ PlannedRoots # <<>>
    /\ Lines \subseteq Nat \ {0}
    /\ HeadBytes \in Nat \ {0} /\ TailBytes \in Nat \ {0} /\ CharBytes \in 1 .. TailBytes
    /\ LiveBytes \in Nat /\ KeptBytes \in Nat /\ MarkerBytes \in Nat
    /\ Inside \subseteq Nat \ {0}
    /\ \A i \in Inside : \E j \in i .. (i + CharBytes - 1) : j \notin Inside

(* An image's scripts are attached once each; none has the name that       *)
(* stands for the image itself.                                            *)
ASSUME SetupAssumption ==
    /\ "image" \notin SetupScripts
    /\ SetupAttached \in Seq(SetupScripts)
    /\ \A j, k \in DOMAIN SetupAttached : SetupAttached[j] = SetupAttached[k] => j = k

(* Names and inputs of scripts are lists, and so are those of archives.    *)
IsSequence(s) == Len(s) \in Nat /\ s = [k \in 1 .. Len(s) |-> s[k]]
ASSUME LibraryAssumption ==
    /\ StoreNameLen \in Nat \ {0} /\ StoreScripts \in Nat
    /\ \A d \in StoreDefinitions : IsSequence(d.name) /\ IsSequence(d.inputs)
    /\ \A list \in StoreArchives :
          /\ IsSequence(list)
          /\ \A k \in DOMAIN list : IsSequence(list[k].def.name) /\ IsSequence(list[k].def.inputs)

SomeAttached == <<"a", "b">>
SomeRoots == <<1, 1, 2>>
SomeRestored == {{1}, {1, 2}}

VARIABLES part, ops,
          scripts, nextId, links, rootOf, deleting, reader, task, plan, imported,
          row, runs, agent, mounts, out, upload,
          carried, image, fetch, inputs, request, outcome, steady, edits, changes,
          setup, root, current, saved, draft, shown, reload, poll, saving, requests, landed, clean,
          acts, others,
          library, loaded, editor, busy, order, handled, typed

storeVars == <<scripts, nextId, links, rootOf, deleting, reader, task, plan, imported>>
runsVars == <<row, runs, agent, mounts, out, upload>>
formVars == <<carried, image, fetch, inputs, request, outcome, steady, edits, changes>>
setupVars == <<setup, root, current, saved, draft, shown, reload, poll, saving, requests, landed, clean,
               acts, others>>
editorVars == <<library, loaded, editor, busy, order, handled, typed>>
vars == <<part, ops, storeVars, runsVars, formVars, setupVars, editorVars>>

NoRoot == 0
Empty == ""
NoValue == "none"
X == [name |-> "x", kind |-> "number", choices |-> {}, required |-> TRUE,
      default |-> NoValue, perMachine |-> FALSE]
Y == [name |-> "y", kind |-> "choice", choices |-> {"eu"}, required |-> TRUE,
      default |-> NoValue, perMachine |-> TRUE]
Bad == [X EXCEPT !.kind = "secret", !.default = "1"]
Script(name, body, ins) == [name |-> name, body |-> body, inputs |-> ins]
A == Script(<<"a">>, "p", <<X>>)
A2 == Script(<<"a", 2>>, "q", <<Y>>)
Entry(d, p) == [def |-> d, root |-> p]
Value(v) == [from |-> "value", is |-> v]
Variable(v) == [from |-> "variable", is |-> v]
Asks(shared, perMachine) == [shared |-> shared, perMachine |-> perMachine]

SomeDefinitions == {A, Script(<<"a">>, "q", <<>>), Script(<<"a">>, "p", <<Bad>>)}
SomeArchives == {<<Entry(A, NoRoot)>>, <<Entry(A, 1), Entry(A2, NoRoot)>>,
                 <<Entry(A2, NoRoot), Entry([A EXCEPT !.body = "q"], NoRoot)>>,
                 <<Entry([A2 EXCEPT !.body = "p"], 1)>>}
SomeVariables == [site |-> "1"]
SomeRequests == {Asks(<<>>, <<>>), Asks([x |-> Variable("site")], <<>>),
                 Asks([x |-> Value("eu")], <<>>),
                 Asks(<<>>, <<[y |-> Value("eu")]>>)}

Store == INSTANCE ScriptStore WITH
    Images <- StoreImages, Hosts <- StoreHosts, Archived <- StorePartitions,
    Definitions <- StoreDefinitions, Archives <- StoreArchives,
    Texts <- StoreTexts, Variables <- StoreVariables, Requests <- StoreRequests,
    MaxNameLen <- StoreNameLen, MaxScripts <- StoreScripts, MaxOps <- StoreOps

Runs == INSTANCE ScriptRuns WITH
    Roots <- PlannedRoots, MaxOps <- RunsOps

Field(name, kind, choices, default, required, perMachine) ==
    [name |-> name, kind |-> kind, choices |-> choices, default |-> default,
     required |-> required, perMachine |-> perMachine]
Number == Field("b", "number", {}, "7", FALSE, FALSE)
FormLists == {<<>>,
    <<[inputs |-> <<Field("a", "number", {}, "7", FALSE, TRUE),
                    Field("b", "text", {}, NoValue, TRUE, FALSE)>>]>>,
    <<[inputs |-> <<Field("c", "choice", {"x", "y"}, "x", TRUE, FALSE)>>],
      [inputs |-> <<Field("a", "text", {}, NoValue, FALSE, TRUE)>>]>>,
    <<[inputs |-> <<Number>>],
      [inputs |-> <<Number, Field("c", "secret", {}, NoValue, TRUE, TRUE)>>]>>}

Form == INSTANCE DeployForm WITH
    Images <- {1, 2}, Hosts <- {1, 2}, NoImage <- 0, Lists <- FormLists,
    Texts <- {"7", "8"}, Words <- {"8", "x"}, Variables <- [site |-> "8"],
    MaxEdits <- FormEdits, MaxChanges <- 1

Setup == INSTANCE ImageSetup WITH
    Scripts <- SetupScripts, Attached <- SetupAttached, Partitions <- SetupPartitions, Img <- "image",
    MaxActs <- SetupActs, MaxElsewhere <- 1, links <- setup, rootOf <- root

Input(name, kind, default, choices) ==
    [name |-> <<name>>, description |-> none, kind |-> kind, required |-> FALSE,
     default |-> default, perMachine |-> FALSE, choices |-> choices]
First == [name |-> <<"s">>, body |-> <<"w">>,
          inputs |-> <<Input("a", "choice", <<"w">>, <<<<"w">>, <<"7">>>>), Input("b", "number", <<"7">>, <<>>)>>]
Second == [name |-> <<"t">>, body |-> <<"w">>, inputs |-> <<>>]

Editor == INSTANCE ScriptEditor WITH
    Blank <- "_", None <- none, Numbers <- {<<"7">>}, Names <- {<<"t">>, <<"a", "_">>},
    Defaults <- {<<>>, <<"w">>, <<"7">>}, Descriptions <- {<<>>, <<"_">>, <<"_", "w">>},
    ChoiceTexts <- {<<>>, <<<<"w">>, <<>>>>, <<<<"w">>, <<"w">>>>},
    Stored <- {1 :> First, (1 :> First) @@ (2 :> Second)}, Elsewheres <- {Second},
    MaxEdits <- EditorEdits, MaxScripts <- 3,
    scripts <- library, saving <- busy, request <- order, edits <- typed

Off == "off"
StoreOff == /\ scripts = Off /\ nextId = Off /\ links = Off /\ rootOf = Off /\ deleting = Off
            /\ reader = Off /\ task = Off /\ plan = Off /\ imported = Off
RunsOff == row = Off /\ runs = Off /\ agent = Off /\ mounts = Off /\ out = Off /\ upload = Off
FormOff == /\ carried = Off /\ image = Off /\ fetch = Off /\ inputs = Off /\ request = Off
           /\ outcome = Off /\ steady = Off /\ edits = Off /\ changes = Off
SetupOff == /\ setup = Off /\ root = Off /\ current = Off /\ saved = Off /\ draft = Off /\ shown = Off
            /\ reload = Off /\ poll = Off /\ saving = Off /\ requests = Off /\ landed = Off
            /\ clean = Off /\ acts = Off /\ others = Off
EditorOff == /\ library = Off /\ loaded = Off /\ editor = Off /\ busy = Off /\ order = Off
             /\ handled = Off /\ typed = Off

Init == \/ part = "store" /\ Store!Init /\ RunsOff /\ FormOff /\ SetupOff /\ EditorOff
        \/ part = "runs" /\ Runs!Init /\ StoreOff /\ FormOff /\ SetupOff /\ EditorOff
        \/ part = "form" /\ Form!Init /\ ops = 0 /\ StoreOff /\ RunsOff /\ SetupOff /\ EditorOff
        \/ part = "setup" /\ Setup!Init /\ ops = 0 /\ StoreOff /\ RunsOff /\ FormOff /\ EditorOff
        \/ part = "editor" /\ Editor!Init /\ ops = 0 /\ StoreOff /\ RunsOff /\ FormOff /\ SetupOff

Next == /\ UNCHANGED part
        /\ \/ part = "store" /\ Store!Next /\ UNCHANGED <<runsVars, formVars, setupVars, editorVars>>
           \/ part = "runs" /\ Runs!Next /\ UNCHANGED <<storeVars, formVars, setupVars, editorVars>>
           \/ part = "form" /\ Form!Next /\ UNCHANGED <<ops, storeVars, runsVars, setupVars, editorVars>>
           \/ part = "setup" /\ Setup!Next /\ UNCHANGED <<ops, storeVars, runsVars, formVars, editorVars>>
           \/ part = "editor" /\ Editor!Next /\ UNCHANGED <<ops, storeVars, runsVars, formVars, setupVars>>

Spec == Init /\ [][Next]_vars

(* LibraryIsSound: an image carries only scripts that exist, each once,    *)
(* though delete_script checks and deletes in two statements (LinksLive);  *)
(* an import (import_for_image) leaves the image with exactly the scripts  *)
(* of the archive, under names that are unique and of legal length, though *)
(* it makes up names where one is taken (ImportIsFaithful, TypeOK).        *)
LibraryIsSound ==
    part = "store" => Store!TypeOK /\ Store!LinksLive /\ Store!ImportIsFaithful

(* ImportKeepsOthers: importing an image (import_script) never changes     *)
(* what another image runs.                                                *)
ImportKeepsOthers == [][part = "store" => Store!KeepsOthers]_vars

(* AcceptedRuns: a deployment whose inputs were accepted (resolve_inputs)  *)
(* is refused to its agents (planned_scripts) only after a script or the   *)
(* list has changed, unless two scripts share an input's name.             *)
AcceptedRuns == part = "store" => Store!AcceptedRuns

(* ScriptsRunOnce: every way out of run_scripts leaves the restored system *)
(* unmounted (SystemReleased), and the rows of a task's scripts are those  *)
(* of one attempt, in order (OneAttempt).                                  *)
ScriptsRunOnce == part = "runs" => Runs!TypeOK /\ Runs!SystemReleased /\ Runs!OneAttempt

(* OutputKept: whatever the chunks and wherever they break, the stored     *)
(* output (append_script_output) is a head and a tail of what was printed, *)
(* within their bounds, and what is missing is counted (NothingUncounted). *)
OutputKept == part = "runs" => Runs!OutputKept /\ Runs!NothingUncounted

(* FormsAreTaken: what a form shows is what the server takes and stores.   *)
(* That holds of the inputs of a deployment (DeployInputsForm against      *)
(* resolve_inputs), as long as the image's scripts stay, and of the script *)
(* editor (InputDraft against validate_script), whatever was typed before  *)
(* the kind of an input was changed.                                       *)
FormsAreTaken == /\ part = "form" => Form!FormIsTaken
                 /\ part = "editor" => Editor!SavedAsShown

(* SetupIsKept: the pickers of an image's setup (ScriptRootPicker,         *)
(* RootPartitionPicker) set the root of the script they stand for and show *)
(* what was set, except where requests cross (ImageSetup says how).        *)
SetupIsKept == part = "setup" => Setup!SetupIsKept
==============================================================================

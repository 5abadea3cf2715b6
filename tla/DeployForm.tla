----------------------------- MODULE DeployForm -----------------------------
(***************************************************************************)
(* The form that a deploy or multicast dialog shows for the scripts of the *)
(* chosen image: it loads them, starts out with their defaults, and sends  *)
(* what is filled in.  The server resolves the request against the scripts *)
(* the image carries by then (ScriptStore: Acceptable, Resolved).          *)
(*                                                                         *)
(* Choosing another image starts the load again and drops the one under    *)
(* way; until it is answered the form has no inputs and cannot be sent.    *)
(***************************************************************************)
EXTENDS Naturals, Sequences, FiniteSets

CONSTANTS
    Images, Hosts,
    NoImage,
    Lists,          \* script lists an image may carry: sequences of [inputs]
    Texts, Words,   \* what reads as a number, and what an operator types
    Empty, NoValue, \* the empty string, and no value at all
    Variables,      \* the configured script variables: name -> value
    MaxEdits, MaxChanges

VARIABLES
    carried,   \* carried[i]: the scripts of image i on the server
    image,     \* the image chosen in the dialog
    fetch,     \* get_image_scripts: [pc, list]
    inputs,    \* the form's DeployInputs, when it has some
    request,   \* the request on its way
    outcome,   \* what came of the last one
    steady,    \* the scripts of the image did not change since it was chosen (history)
    edits, changes

formVars == <<image, fetch, inputs, edits>>
vars == <<carried, formVars, request, outcome, steady, changes>>

None == [shared |-> <<>>, perMachine |-> <<>>, some |-> FALSE]
Nothing == [sent |-> FALSE]
Idle == [pc |-> "idle", list |-> <<>>]

S == INSTANCE ScriptStore WITH
        Archived <- {}, NoRoot <- NoImage, Definitions <- {}, Archives <- {}, Requests <- {},
        MaxNameLen <- 0, MaxScripts <- 0, MaxOps <- 0, scripts <- <<>>, nextId <- 0, links <- <<>>,
        rootOf <- <<>>, deleting <- NoImage, reader <- Idle, task <- Nothing, plan <- Idle,
        imported <- Nothing, ops <- 0

Value(v) == [from |-> "value", is |-> v]
Variable(n) == [from |-> "variable", is |-> n]
Typed == {Value(v) : v \in Words \cup {Empty}} \cup {Variable(n) : n \in DOMAIN Variables}

Declared(list) == S!Declared(list)

(* form_fields: one field per name, as the first script declares it.       *)
Fields(list) ==
    LET all == Declared(list)
    IN  {all[k] : k \in {k \in DOMAIN all : \A j \in 1 .. (k - 1) : all[j].name # all[k].name}}

Defaults(fields, perMachine) ==
    LET named == {f \in fields : f.perMachine = perMachine /\ f.default # NoValue}
    IN  [n \in {f.name : f \in named} |-> Value((CHOOSE f \in named : f.name = n).default)]

InitialInputs(list) ==
    [some |-> TRUE, shared |-> Defaults(Fields(list), FALSE),
     perMachine |-> [h \in Hosts |-> Defaults(Fields(list), TRUE)]]

(* submitted_inputs: blanks are left out, and hosts without any input.     *)
Filled(sources) == [n \in {n \in DOMAIN sources : sources[n] # Value(Empty)} |-> sources[n]]

SubmittedInputs(form) ==
    [shared |-> Filled(form.shared),
     perMachine |-> [h \in {h \in DOMAIN form.perMachine : DOMAIN Filled(form.perMachine[h]) # {}} |->
                        Filled(form.perMachine[h])]]

-----------------------------------------------------------------------------
Init == /\ carried \in [Images -> Lists]
        /\ image = NoImage /\ fetch = Idle /\ inputs = None
        /\ request = Nothing /\ outcome = Nothing
        /\ steady = TRUE /\ edits = 0 /\ changes = 0

(* mutant: the inputs stay while the scripts of the new image are loaded.  *)
ChooseKeeps(i) ==
    /\ image # i /\ request = Nothing
    /\ image' = i /\ fetch' = [pc |-> "asked", list |-> <<>>]
    /\ steady' = TRUE
    /\ UNCHANGED <<carried, inputs, request, outcome, edits, changes>>

(* ImagePicker; the effect clears the inputs while the load is under way.  *)
Choose(i) ==
    /\ image # i /\ request = Nothing
    /\ image' = i /\ fetch' = [pc |-> "asked", list |-> <<>>]
    /\ inputs' = None /\ steady' = TRUE
    /\ UNCHANGED <<carried, request, outcome, edits, changes>>

(* get_image_scripts reads, and its answer arrives or fails later.         *)
ServerReads ==
    /\ fetch.pc = "asked"
    /\ fetch' = [pc |-> "read", list |-> carried[image]]
    /\ UNCHANGED <<carried, image, inputs, edits, request, outcome, steady, changes>>

Loads ==
    /\ fetch.pc = "read"
    /\ fetch' = [fetch EXCEPT !.pc = "ready"]
    /\ inputs' = InitialInputs(fetch.list)
    /\ UNCHANGED <<carried, image, edits, request, outcome, steady, changes>>

LoadFails ==
    /\ fetch.pc \in {"asked", "read"}
    /\ fetch' = [pc |-> "failed", list |-> <<>>] /\ inputs' = None
    /\ UNCHANGED <<carried, image, edits, request, outcome, steady, changes>>

Overwritten(sources, n, source) ==
    [k \in DOMAIN sources \cup {n} |-> IF k = n THEN source ELSE sources[k]]

(* A change of a field, shared or of one machine (FieldControl): a value   *)
(* the control can hold, or a variable.                                    *)
Holds(f, source) ==
    f.kind = "choice" /\ source.from = "value" => source.is \in f.choices \cup {Empty}

Edit(f, h, source) ==
    /\ fetch.pc = "ready" /\ request = Nothing /\ edits < MaxEdits
    /\ Holds(f, source)
    /\ edits' = edits + 1
    /\ inputs' = IF f.perMachine
                 THEN [inputs EXCEPT !.perMachine[h] = Overwritten(@, f.name, source)]
                 ELSE [inputs EXCEPT !.shared = Overwritten(@, f.name, source)]
    /\ UNCHANGED <<carried, image, fetch, request, outcome, steady, changes>>

(* deploy_request, multicast_request: None without an image or inputs, and *)
(* then the button is disabled.                                            *)
Submit ==
    /\ image # NoImage /\ inputs.some /\ request = Nothing
    /\ request' = [sent |-> TRUE, image |-> image, shown |-> inputs, inputs |-> SubmittedInputs(inputs)]
    /\ outcome' = Nothing
    /\ UNCHANGED <<carried, formVars, steady, changes>>

(* The server stores the task, or refuses and the dialog stays.            *)
Handle ==
    /\ request.sent
    /\ LET declared == Declared(carried[request.image])
           taken == S!Acceptable(declared, request.inputs)
       IN  outcome' = [sent |-> TRUE, image |-> request.image, shown |-> request.shown, taken |-> taken,
                       list |-> carried[request.image], steady |-> steady,
                       stored |-> IF taken THEN [h \in Hosts |-> S!Resolved(declared, request.inputs, h)]
                                  ELSE <<>>]
    /\ request' = Nothing
    /\ UNCHANGED <<carried, formVars, steady, changes>>

(* Another operator gives an image other scripts.                          *)
Elsewhere(i, list) ==
    /\ changes < MaxChanges /\ list # carried[i]
    /\ carried' = [carried EXCEPT ![i] = list]
    /\ steady' = (steady /\ image # i)
    /\ changes' = changes + 1
    /\ UNCHANGED <<formVars, request, outcome>>

Next ==
    \/ \E i \in Images : Choose(i)
    \/ ServerReads \/ Loads \/ LoadFails
    \/ \E f \in Fields(fetch.list), h \in Hosts, source \in Typed : Edit(f, h, source)
    \/ Submit \/ Handle
    \/ \E i \in Images, list \in Lists : Elsewhere(i, list)

Spec == Init /\ [][Next]_vars

-----------------------------------------------------------------------------
(* What the form showed for a field: a blank stands for the default.       *)
Shown(form, f, h) ==
    LET map == IF f.perMachine THEN form.perMachine[h] ELSE form.shared
        v == IF f.name \notin DOMAIN map THEN Empty
             ELSE IF map[f.name].from = "value" THEN map[f.name].is ELSE Variables[map[f.name].is]
    IN  IF v = Empty THEN f.default ELSE v

(* Scripts that share an input declare it alike.                           *)
Alike(list) ==
    LET all == Declared(list)
    IN  \A j, k \in DOMAIN all : all[j].name = all[k].name => all[j] = all[k]

(* FormIsTaken: unless the image's scripts changed since it was chosen, or *)
(* disagree about an input, a form whose required fields are filled and    *)
(* whose values are of their kinds is accepted (resolve_inputs), and each  *)
(* host gets exactly the values the form showed for it.                    *)
FormIsTaken ==
    outcome.sent =>
      LET fields == Fields(outcome.list)
          good(f, h) == IF Shown(outcome.shown, f, h) = NoValue THEN ~f.required
                        ELSE S!Checks(f, Shown(outcome.shown, f, h))
      IN  (outcome.steady /\ Alike(outcome.list)) =>
            IF \A f \in fields, h \in Hosts : good(f, h)
            THEN /\ outcome.taken
                 /\ \A h \in Hosts :
                      outcome.stored[h] =
                        [n \in {f.name : f \in {g \in fields : Shown(outcome.shown, g, h) # NoValue}} |->
                           Shown(outcome.shown, CHOOSE f \in fields : f.name = n, h)]
            ELSE ~outcome.taken
=============================================================================

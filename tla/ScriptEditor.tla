---------------------------- MODULE ScriptEditor ----------------------------
(***************************************************************************)
(* The editor of a script on the dashboard.  A script opens as a draft of  *)
(* texts, is edited field by field and saved as a whole; the server        *)
(* normalises and validates what arrives.  The draft keeps what a field    *)
(* held before its kind changed, though the editor does not show it.       *)
(*                                                                         *)
(* A text is a sequence of words, of which Blank is white space; a text    *)
(* of choices is a sequence of lines, each a text.                         *)
(***************************************************************************)
EXTENDS Naturals, Sequences, SequencesExt, FiniteSets

CONSTANTS
    Blank,        \* a word of white space
    None,         \* no text at all, where one is optional
    Numbers,      \* texts that read as a number
    Names, Defaults, Descriptions, ChoiceTexts,   \* what an operator types
    Stored,       \* libraries at the start: functions from ids to scripts
    Elsewheres,   \* scripts another dashboard saves
    MaxEdits, MaxScripts

VARIABLES
    scripts,    \* server: id -> [name, body, inputs]
    loaded,     \* the list as it was loaded last
    editor,     \* the open editor: [open, id, name, body, inputs]; id 0 for a new script
    saving,
    request,    \* create_script or update_script on its way
    handled,    \* what the server did with the last one (history)
    edits

vars == <<scripts, loaded, editor, saving, request, handled, edits>>

Empty == <<>>
Closed == [open |-> FALSE]
Nothing == [pc |-> "none"]

Kinds == {"text", "number", "choice", "secret"}
Trim(text) == SelectSeq(text, LAMBDA w : w # Blank)
OrEmpty(text) == IF text = None THEN Empty ELSE text

NewDraft == [name |-> Empty, description |-> Empty, kind |-> "text", required |-> FALSE,
             default |-> Empty, perMachine |-> FALSE, choices |-> <<>>]

(* InputDraft::from(&ScriptInput).                                         *)
DraftOf(input) == [input EXCEPT !.description = OrEmpty(@), !.default = OrEmpty(@)]

(* ScriptInput::from(&InputDraft).                                         *)
InputOf(draft) ==
    [draft EXCEPT !.name = Trim(@),
                  !.default = IF draft.kind = "secret" \/ @ = Empty THEN None ELSE @,
                  !.choices = IF draft.kind = "choice" THEN SelectSeq(@, LAMBDA c : c # Empty) ELSE <<>>]

(* deserialize_description, as the request is read.                        *)
Read(input) == [input EXCEPT !.description = IF Trim(@) = Empty THEN None ELSE Trim(@)]

Check(input, v) ==
    CASE input.kind \in {"text", "secret"} -> TRUE
      [] input.kind = "number" -> Trim(v) \in Numbers
      [] input.kind = "choice" -> v \in ToSet(input.choices)

Distinct(list) == Cardinality(ToSet(list)) = Len(list)

ValidName(name) == name # Empty /\ Blank \notin ToSet(name)

(* ScriptInput::validate.                                                  *)
ValidInput(input) ==
    /\ ValidName(input.name)
    /\ (input.kind = "choice") = (input.choices # <<>>)
    /\ Distinct(input.choices)
    /\ input.kind = "secret" => input.default = None
    /\ input.default # None => Check(input, input.default)

(* validate_script.                                                        *)
ValidScript(s) ==
    /\ ValidName(s.name) /\ Trim(s.body) # Empty
    /\ \A k \in DOMAIN s.inputs : ValidInput(s.inputs[k])
    /\ Distinct([k \in DOMAIN s.inputs |-> s.inputs[k].name])

-----------------------------------------------------------------------------
Init == /\ scripts \in Stored /\ loaded = scripts
        /\ editor = Closed /\ saving = FALSE
        /\ request = Nothing /\ handled = Nothing
        /\ edits = 0

Open(id) ==
    /\ ~editor.open
    /\ editor' = [open |-> TRUE, id |-> id, name |-> loaded[id].name, body |-> loaded[id].body,
                  inputs |-> [k \in DOMAIN loaded[id].inputs |-> DraftOf(loaded[id].inputs[k])]]
    /\ saving' = FALSE
    /\ UNCHANGED <<scripts, loaded, request, handled, edits>>

OpenNew ==
    /\ ~editor.open
    /\ editor' = [open |-> TRUE, id |-> 0, name |-> Empty, body |-> Empty, inputs |-> <<>>]
    /\ saving' = FALSE
    /\ UNCHANGED <<scripts, loaded, request, handled, edits>>

Edited(e) ==
    /\ editor.open /\ edits < MaxEdits
    /\ editor' = e /\ edits' = edits + 1
    /\ UNCHANGED <<scripts, loaded, saving, request, handled>>

EditName(text) == editor.open /\ Edited([editor EXCEPT !.name = text])
EditBody(text) == editor.open /\ Edited([editor EXCEPT !.body = text])
AddInput == editor.open /\ Edited([editor EXCEPT !.inputs = Append(@, NewDraft)])
RemoveInput(k) == Edited([editor EXCEPT !.inputs = RemoveAt(@, k)])
MoveInput(k) == k < Len(editor.inputs) /\
    Edited([editor EXCEPT !.inputs[k] = editor.inputs[k + 1], !.inputs[k + 1] = editor.inputs[k]])

(* A field of an input, where the row lets it be typed.                    *)
EditInput(k) ==
    LET kind == editor.inputs[k].kind IN
    \/ \E v \in Names : Edited([editor EXCEPT !.inputs[k].name = v])
    \/ \E v \in Descriptions : Edited([editor EXCEPT !.inputs[k].description = v])
    \/ \E v \in Kinds : Edited([editor EXCEPT !.inputs[k].kind = v])
    \/ kind # "secret" /\ \E v \in Defaults : Edited([editor EXCEPT !.inputs[k].default = v])
    \/ kind = "choice" /\ \E v \in ChoiceTexts : Edited([editor EXCEPT !.inputs[k].choices = v])
    \/ Edited([editor EXCEPT !.inputs[k].required = ~@])
    \/ Edited([editor EXCEPT !.inputs[k].perMachine = ~@])

(* One request is on its way at a time.                                    *)
Save ==
    /\ editor.open /\ ~saving /\ Trim(editor.name) # Empty /\ request = Nothing
    /\ saving' = TRUE
    /\ request' = [pc |-> "sent", draft |-> editor, heard |-> TRUE,
                   script |-> [name |-> Trim(editor.name), body |-> editor.body,
                               inputs |-> [k \in DOMAIN editor.inputs |-> InputOf(editor.inputs[k])]]]
    /\ UNCHANGED <<scripts, loaded, editor, handled, edits>>

(* Cancel: nobody waits for an answer any more.                            *)
Cancel ==
    /\ editor.open
    /\ editor' = Closed /\ saving' = FALSE
    /\ request' = IF request = Nothing THEN Nothing ELSE [request EXCEPT !.heard = FALSE]
    /\ UNCHANGED <<scripts, loaded, handled, edits>>

NewId == CHOOSE id \in 1 .. MaxScripts : id \notin DOMAIN scripts

(* create and update, which refuse an invalid script, a name that is taken *)
(* and an id that is gone.                                                 *)
Handle ==
    /\ request.pc = "sent"
    /\ LET read == [request.script EXCEPT !.inputs = [k \in DOMAIN @ |-> Read(@[k])]]
           new == request.draft.id = 0
           id == IF new THEN NewId ELSE request.draft.id
           free == \A j \in DOMAIN scripts \ {id} : scripts[j].name # read.name
           ok == ValidScript(read) /\ free /\ (new \/ id \in DOMAIN scripts)
       IN  /\ new => Cardinality(DOMAIN scripts) < MaxScripts
           /\ scripts' = IF ok THEN [j \in DOMAIN scripts \cup {id} |-> IF j = id THEN read ELSE scripts[j]]
                         ELSE scripts
           /\ request' = [request EXCEPT !.pc = IF ok THEN "done" ELSE "refused"]
           /\ handled' = [pc |-> IF ok THEN "done" ELSE "refused", draft |-> request.draft, stored |-> read,
                          free |-> free /\ (new \/ id \in DOMAIN scripts)]
           /\ UNCHANGED <<loaded, editor, saving, edits>>

(* on_saved closes the editor and loads the list.                          *)
Answered ==
    /\ request.pc = "done" /\ request.heard
    /\ request' = Nothing /\ handled' = Nothing
    /\ saving' = FALSE /\ editor' = Closed /\ loaded' = scripts
    /\ UNCHANGED <<scripts, edits>>

(* Refused, lost, or nobody waits for it: the list and the draft stay.     *)
Fails ==
    /\ request # Nothing
    /\ request' = Nothing /\ handled' = Nothing
    /\ saving' = (saving /\ ~request.heard)
    /\ UNCHANGED <<scripts, loaded, editor, edits>>

(* ConfirmDialog of a row, whose answer loads the list.                    *)
Delete(id) ==
    /\ ~editor.open /\ request = Nothing /\ edits < MaxEdits
    /\ scripts' = [j \in DOMAIN scripts \ {id} |-> scripts[j]]
    /\ loaded' = scripts' /\ edits' = edits + 1
    /\ UNCHANGED <<editor, saving, request, handled>>

(* Another dashboard saves a script.                                       *)
Elsewhere(id, s) ==
    /\ edits < MaxEdits
    /\ \A j \in DOMAIN scripts \ {id} : scripts[j].name # s.name
    /\ scripts' = [scripts EXCEPT ![id] = s]
    /\ edits' = edits + 1 /\ handled' = Nothing
    /\ UNCHANGED <<loaded, editor, saving, request>>

Next ==
    \/ \E id \in DOMAIN loaded : Open(id)
    \/ OpenNew \/ Save \/ Cancel \/ Handle \/ Answered \/ Fails \/ AddInput
    \/ \E text \in Names : EditName(text)
    \/ \E text \in Descriptions : EditBody(text)
    \/ editor.open /\ \E k \in DOMAIN editor.inputs : EditInput(k) \/ MoveInput(k) \/ RemoveInput(k)
    \/ \E id \in DOMAIN scripts : Delete(id)
    \/ \E id \in DOMAIN scripts, s \in Elsewheres : Elsewhere(id, s)

Spec == Init /\ [][Next]_vars

-----------------------------------------------------------------------------
(* What the row of an input shows.                                         *)
Visible(d) == [d EXCEPT !.name = Trim(@), !.description = Trim(@),
                        !.default = IF d.kind = "secret" THEN Empty ELSE @,
                        !.choices = IF d.kind = "choice" THEN SelectSeq(@, LAMBDA c : c # Empty) ELSE <<>>]

Sensible(d) ==
    /\ ValidName(d.name)
    /\ d.kind = "choice" => d.choices # <<>> /\ Distinct(d.choices)
    /\ d.default = Empty \/ Check(d, d.default)

(* SavedAsShown: the server takes a script exactly when what its editor    *)
(* shows is sensible, however the kinds of its inputs were changed before, *)
(* and opening it again shows the same.                                    *)
SavedAsShown ==
    handled.pc # "none" =>
        LET rows == [k \in DOMAIN handled.draft.inputs |-> Visible(handled.draft.inputs[k])]
            sensible == /\ ValidName(Trim(handled.draft.name)) /\ Trim(handled.draft.body) # Empty
                        /\ \A k \in DOMAIN rows : Sensible(rows[k])
                        /\ Distinct([k \in DOMAIN rows |-> rows[k].name])
        IN  /\ (handled.pc = "done") = (sensible /\ handled.free)
            /\ handled.pc = "done" =>
                 rows = [k \in DOMAIN handled.stored.inputs |-> DraftOf(handled.stored.inputs[k])]
=============================================================================

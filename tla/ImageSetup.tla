----------------------------- MODULE ImageSetup -----------------------------
(***************************************************************************)
(* The post-install setup of an image on one dashboard: the order of its   *)
(* scripts, edited as a draft and saved as a whole, and pickers for the    *)
(* image's root partition and for each script's, which save at once and    *)
(* name the script by its position.  A picker shows a choice before it is  *)
(* saved and goes back when saving fails; it follows the saved value only  *)
(* when that value changes.                                                *)
(***************************************************************************)
EXTENDS Naturals, Sequences, SequencesExt, FiniteSets

CONSTANTS
    Scripts,
    Attached,     \* the scripts attached at the start, in order
    Partitions,   \* the image's partition numbers
    NoRoot,       \* none, or the image's own
    Img,          \* names the picker of the image's root partition
    MaxActs, MaxElsewhere

VARIABLES
    links,     \* server: the image's scripts in order, [script, root]
    rootOf,    \* server: the image's root partition
    current,   \* the list as this dashboard loaded it last
    saved,     \* the image's root partition as polled last
    draft,     \* script ids in the order shown
    shown,     \* what each picker shows
    reload,    \* get_image_scripts on its way: [pc, list]
    poll,      \* get_all_images on its way: [pc, root]
    saving,    \* the Save button waits for its answer
    requests,  \* set_image_scripts and root requests on their way
    landed,    \* the root request the last step handled, if it did (history)
    clean,     \* nothing happened that SetupIsKept excepts (history)
    acts, others

serverVars == <<links, rootOf>>
pageVars == <<current, saved, draft, shown, reload, poll, saving>>
vars == <<serverVars, pageVars, requests, landed, clean, acts, others>>

Roots == Partitions \cup {NoRoot}
Resting == [pc |-> "idle", list |-> <<>>]
PollResting == [pc |-> "idle", root |-> NoRoot]
NoLanding == [was |-> FALSE]

Order(list) == [k \in DOMAIN list |-> list[k].script]
RootIn(list, s) ==
    LET at == {k \in DOMAIN list : list[k].script = s}
    IN  IF at = {} THEN NoRoot ELSE list[CHOOSE k \in at : TRUE].root

Dirty == draft # Order(current)
Pickers(ids) == ToSet(ids) \cup {Img}
SavedAt(list, root, key) == IF key = Img THEN root ELSE RootIn(list, key)

(* The pickers after a render: a new one starts from the saved value, and  *)
(* one whose saved value changed follows it.                               *)
Rendered(ids, list, root) ==
    [key \in Pickers(ids) |->
        IF key \in DOMAIN shown /\ SavedAt(list, root, key) = SavedAt(current, saved, key)
        THEN shown[key] ELSE SavedAt(list, root, key)]

Init == /\ links = [k \in DOMAIN Attached |-> [script |-> Attached[k], root |-> NoRoot]]
        /\ rootOf = NoRoot
        /\ current = links /\ saved = rootOf /\ draft = Order(links)
        /\ shown = [key \in Pickers(draft) |-> NoRoot]
        /\ reload = Resting /\ poll = PollResting
        /\ saving = FALSE /\ requests = <<>>
        /\ landed = NoLanding /\ clean = TRUE
        /\ acts = 0 /\ others = 0

Act == acts < MaxActs /\ acts' = acts + 1

-----------------------------------------------------------------------------
(* The draft.                                                              *)

(* A script that leaves the draft takes its picker along, and with it the  *)
(* request the picker waits for: the server may take it still.             *)
Orphan(r, ids) == r.for = "root" /\ r.key \notin Pickers(ids)
Redraft(ids) ==
    /\ Act /\ draft' = ids
    /\ shown' = Rendered(ids, current, saved)
    /\ requests' = [k \in DOMAIN requests |->
                       [requests[k] EXCEPT !.heard = @ /\ ~Orphan(requests[k], ids)]]
    /\ clean' = (clean /\ \A k \in DOMAIN requests : ~Orphan(requests[k], ids))
    /\ UNCHANGED <<serverVars, current, saved, reload, poll, saving, others>>

Swap(k) == k \in 1 .. (Len(draft) - 1) /\ Redraft([draft EXCEPT ![k] = draft[k + 1], ![k + 1] = draft[k]])
Detach(k) == k \in DOMAIN draft /\ Redraft(RemoveAt(draft, k))
Attach(s) == s \notin ToSet(draft) /\ Redraft(Append(draft, s))
Reset == Dirty /\ ~saving /\ Redraft(Order(current))

Save ==
    /\ Act /\ Dirty /\ ~saving
    /\ saving' = TRUE
    /\ requests' = Append(requests, [for |-> "order", ids |-> draft, pc |-> "sent", heard |-> TRUE])
    /\ UNCHANGED <<serverVars, current, saved, draft, shown, reload, poll, clean, others>>

(* mutant: a script's root can be picked while the order is being edited.  *)
EnabledAlways(key) == key \in DOMAIN shown

Enabled(key) == key \in DOMAIN shown /\ (key # Img => ~Dirty /\ ~saving)

Position(key) == IF key = Img THEN 0 ELSE CHOOSE k \in DOMAIN draft : draft[k] = key

(* A picker shows the choice and sends it.                                 *)
Pick(key, p) ==
    /\ Act /\ Enabled(key) /\ p # shown[key]
    /\ shown' = [shown EXCEPT ![key] = p]
    /\ requests' = Append(requests, [for |-> "root", key |-> key, at |-> Position(key), root |-> p,
                                     back |-> SavedAt(current, saved, key), order |-> Order(current),
                                     pc |-> "sent", heard |-> TRUE])
    /\ clean' = (clean /\ \A k \in DOMAIN requests : requests[k].for = "root" => requests[k].key # key)
    /\ UNCHANGED <<serverVars, current, saved, draft, reload, poll, saving, others>>

-----------------------------------------------------------------------------
(* The server takes the requests of a page in any order.                   *)

(* set_for_image: scripts that stay keep their roots.                      *)
SaveHandled(k) ==
    LET ids == requests[k].ids IN
    /\ requests[k].for = "order" /\ requests[k].pc = "sent"
    /\ links' = [j \in DOMAIN ids |-> [script |-> ids[j], root |-> RootIn(links, ids[j])]]
    /\ requests' = [requests EXCEPT ![k].pc = "done"]
    /\ UNCHANGED <<rootOf, pageVars, clean, acts, others>>

(* set_root_for_image, which may find no script at the position, and       *)
(* set_root_partition.                                                     *)
PickHandled(k) ==
    LET pick == requests[k]
        known == pick.key = Img \/ pick.at \in DOMAIN links
    IN  /\ pick.for = "root" /\ pick.pc = "sent"
        /\ requests' = [requests EXCEPT ![k].pc = IF known THEN "done" ELSE "refused"]
        /\ rootOf' = IF pick.key = Img THEN pick.root ELSE rootOf
        /\ links' = IF pick.key # Img /\ known THEN [links EXCEPT ![pick.at].root = pick.root] ELSE links
        /\ landed' = [was |-> TRUE, key |-> pick.key, root |-> pick.root, order |-> pick.order, before |-> links]
        /\ clean' = (clean /\ (pick.key # Img => pick.order = Order(links)))
        /\ UNCHANGED <<pageVars, acts, others>>

-----------------------------------------------------------------------------
(* Answers, as long as the picker or the setup that asked is there.        *)

Restarted == [pc |-> "asked", list |-> <<>>]
PollRestarted == [pc |-> "asked", root |-> NoRoot]

(* A saved order or script root loads the list again and leaves the draft  *)
(* as it is; the image's root restarts the poll of the images.             *)
Answered(k) ==
    LET r == requests[k]
        image == r.for = "root" /\ r.key = Img
    IN  /\ r.pc = "done" /\ r.heard
        /\ requests' = RemoveAt(requests, k)
        /\ saving' = (saving /\ r.for = "root")
        /\ reload' = IF image THEN reload ELSE Restarted
        /\ poll' = IF image THEN PollRestarted ELSE poll
        /\ UNCHANGED <<serverVars, current, saved, draft, shown, clean, acts, others>>

(* Refused, or no answer: a picker goes back to the value it was picked    *)
(* over, a draft stays.                                                    *)
Fails(k) ==
    LET r == requests[k] IN
    /\ r.heard
    /\ requests' = RemoveAt(requests, k)
    /\ saving' = (saving /\ r.for = "root")
    /\ shown' = IF r.for = "root" THEN [shown EXCEPT ![r.key] = r.back] ELSE shown
    /\ clean' = (clean /\ r.pc # "done" /\ (r.for = "root" => r.back = SavedAt(current, saved, r.key)))
    /\ UNCHANGED <<serverVars, current, saved, draft, reload, poll, acts, others>>

Unheard(k) ==
    /\ ~requests[k].heard
    /\ requests' = RemoveAt(requests, k)
    /\ UNCHANGED <<serverVars, pageVars, clean, acts, others>>

(* Closing the setup and opening it again drops whoever waits for an       *)
(* answer; the draft starts from the list loaded last.                     *)
Reopen ==
    /\ Act
    /\ draft' = Order(current)
    /\ shown' = [key \in Pickers(Order(current)) |-> SavedAt(current, saved, key)]
    /\ requests' = [k \in DOMAIN requests |-> [requests[k] EXCEPT !.heard = FALSE]]
    /\ saving' = FALSE
    /\ clean' = (clean /\ requests = <<>>)
    /\ UNCHANGED <<serverVars, current, saved, reload, poll, others>>

-----------------------------------------------------------------------------
(* Loading.                                                                *)

ReloadReads ==
    /\ reload.pc = "asked"
    /\ reload' = [pc |-> "read", list |-> links]
    /\ UNCHANGED <<serverVars, current, saved, draft, shown, poll, saving, requests, clean, acts, others>>

Reloaded ==
    /\ reload.pc = "read"
    /\ current' = reload.list /\ reload' = Resting
    /\ shown' = Rendered(draft, reload.list, saved)
    /\ UNCHANGED <<serverVars, saved, draft, poll, saving, requests, clean, acts, others>>

PollAsks ==
    /\ poll.pc = "idle" /\ Act
    /\ poll' = PollRestarted
    /\ UNCHANGED <<serverVars, current, saved, draft, shown, reload, saving, requests, clean, others>>

PollReads ==
    /\ poll.pc = "asked"
    /\ poll' = [pc |-> "read", root |-> rootOf]
    /\ UNCHANGED <<serverVars, current, saved, draft, shown, reload, saving, requests, clean, acts, others>>

Polled ==
    /\ poll.pc = "read"
    /\ saved' = poll.root /\ poll' = PollResting
    /\ shown' = Rendered(draft, current, poll.root)
    /\ UNCHANGED <<serverVars, current, draft, reload, saving, requests, clean, acts, others>>

(* Another dashboard.                                                      *)
Elsewhere ==
    /\ others < MaxElsewhere /\ others' = others + 1
    /\ clean' = FALSE
    /\ \/ links' = Reverse(links) /\ UNCHANGED rootOf
       \/ \E k \in DOMAIN links, p \in Roots : links' = [links EXCEPT ![k].root = p] /\ UNCHANGED rootOf
       \/ \E p \in Roots : rootOf' = p /\ UNCHANGED links
    /\ UNCHANGED <<pageVars, requests, acts>>

Next ==
    \/ \E k \in DOMAIN requests : PickHandled(k)
    \/ /\ landed' = NoLanding
       /\ \/ \E k \in 1 .. Cardinality(Scripts) : Swap(k) \/ Detach(k)
          \/ \E s \in Scripts : Attach(s)
          \/ Reset \/ Save \/ Reopen
          \/ \E key \in Scripts \cup {Img}, p \in Roots : Pick(key, p)
          \/ \E k \in DOMAIN requests : SaveHandled(k) \/ Answered(k) \/ Fails(k) \/ Unheard(k)
          \/ ReloadReads \/ Reloaded \/ PollAsks \/ PollReads \/ Polled
          \/ Elsewhere

Spec == Init /\ [][Next]_vars

-----------------------------------------------------------------------------
(* Lands: a script's root partition, sent by position, is set on the       *)
(* script it was picked for and on no other, unless the order on the       *)
(* server is no longer the one that was shown.                             *)
Lands ==
    landed.was /\ landed.key # Img /\ Order(landed.before) = landed.order =>
        links = [k \in DOMAIN landed.before |->
                    IF landed.before[k].script = landed.key
                    THEN [landed.before[k] EXCEPT !.root = landed.root] ELSE landed.before[k]]

(* ShowsSaved: once nothing is on its way, the list and the pickers show   *)
(* what the server has.                                                    *)
ShowsSaved ==
    clean /\ requests = <<>> /\ reload.pc = "idle" /\ poll.pc = "idle" =>
        /\ current = links /\ saved = rootOf
        /\ \A key \in DOMAIN shown : shown[key] = SavedAt(links, rootOf, key)

(* SetupIsKept: the pickers of the setup (ScriptRootPicker,                *)
(* RootPartitionPicker) set what was picked and show what was set, though  *)
(* they send a position and show a choice before it is saved.  Excepted    *)
(* are a script's root that arrives after the order has changed, two       *)
(* requests of one picker that cross, a lost answer, one whose picker was  *)
(* detached or closed meanwhile, and a picker that goes back to a value    *)
(* that was replaced.                                                      *)
SetupIsKept == Lands /\ ShowsSaved
=============================================================================

---------------------------- MODULE MCDashboard -----------------------------
(* What operators see and ask for, side by side: the page of tasks, the    *)
(* panel with a host's script output, the inventory with its dialogs, and  *)
(* the screen of a machine itself.  They share nothing, so one run         *)
(* explores each of them from its own initial states; "part" says which.   *)
EXTENDS Naturals, Sequences, FiniteSets, TLC

CONSTANTS
    Hosts, NoHost, StoredTasks, Types, Limit, MaxTasks, PageActs,      \* TaskPage
    MaxOutput, MaxAttempts, MaxFails,                                  \* OutputPanel
    Machines, Layouts, StoredHosts, Images, MaxHosts, InventoryActs,   \* Inventory
    Work, Queues, Height, KeptLines, MaxScroll, MaxNaks, MaxConfirmed,   \* AgentConsole
    h1, h2, m1, m2                                                     \* what the run puts there

VARIABLES part,
          tasks, gone, filter, cursors, fetch, polled, dialog, request, steady, seen, acts,
          row, output, uploads, settled, attempt, shown, loop, panel, fails,
          rows, lastId, group, image, stored, modal, order, moves,
          task, reboot, confirming, runner, reporters, cast, token, console, standing, machine

pageVars == <<tasks, gone, filter, cursors, fetch, polled, dialog, request, steady, seen, acts>>
panelVars == <<row, output, uploads, settled, attempt, shown, loop, panel, fails>>
inventoryVars == <<rows, lastId, group, image, stored, modal, order, moves>>
screenVars == <<task, reboot, confirming, runner, reporters, cast, token, console, standing, machine>>
vars == <<part, pageVars, panelVars, inventoryVars, screenVars>>

P == INSTANCE TaskPage WITH Stored <- StoredTasks, MaxActs <- PageActs
O == INSTANCE OutputPanel
I == INSTANCE Inventory WITH Stored <- StoredHosts, MaxActs <- InventoryActs,
        tasks <- stored, dialog <- modal, request <- order, acts <- moves
A == INSTANCE AgentConsole WITH row <- standing

(* The tasks table holds no other types and states; a page has room for a  *)
(* task.                                                                   *)
ASSUME PageAssumption ==
    /\ \A ts \in StoredTasks : ts \in Seq(P!Task)
    /\ Types \subseteq P!AllTypes
    /\ Limit \in Nat \ {0}

(* A disk's partition table numbers its partitions and gives each an       *)
(* identity, and a partition image that is ready has one source.  Hosts    *)
(* are stored once, under the canonical address.                           *)
ASSUME InventoryAssumption ==
    /\ \A l \in Layouts : \A p \in l :
          /\ p.size \in Nat /\ p.partuuid # I!Whole
          /\ \A q \in l : p.number = q.number \/ p.partuuid = q.partuuid => p = q
    /\ \A im \in Images :
          /\ im.kind \in {"disk", "partition"}
          /\ im.kind = "partition" /\ im.status = "ready" =>
                Len(im.source) = 1 /\ im.source[1].size \in Nat
    /\ \A hs \in StoredHosts :
          /\ hs \in Seq([mac : [machine : Machines, case : {"lower"}], name : {I!None},
                         disk : BOOLEAN, parts : Layouts])
          /\ \A g, h \in DOMAIN hs : hs[g].mac = hs[h].mac => g = h

(* The tasks of a machine in the order the server gives them out, each     *)
(* with the bytes of its partitions and the number of its scripts.         *)
ASSUME ScreenAssumption ==
    /\ Work \in Seq({Work[k] : k \in DOMAIN Work})
    /\ \A k \in DOMAIN Work : Work[k].parts \in Seq(Nat) /\ Work[k].scripts \in Nat
    /\ Height \in Nat /\ KeptLines \in Nat /\ MaxScroll \in Nat /\ MaxNaks \in Nat
SomeWork == <<[kind |-> "capture", parts |-> <<1, 0>>, scripts |-> 0],
              [kind |-> "multicast", parts |-> <<1>>, scripts |-> 1],
              [kind |-> "deploy", parts |-> <<1>>, scripts |-> 0],
              [kind |-> "reboot", parts |-> <<>>, scripts |-> 0]>>

(* Nothing; a capture; a task that is over, one under way on one host, and *)
(* one on both.                                                            *)
Both(type, a, b) == [type |-> type, rows |-> (h1 :> a) @@ (h2 :> b)]
SomeTasks == {<<>>, <<[type |-> "capture", rows |-> (h1 :> "running")]>>,
              <<Both("multicast", "done", "failed"),
                [type |-> "deploy_partition", rows |-> (h2 :> "running")],
                Both("multicast", "running", "cancelled")>>}

(* Disks on which the image's filesystem, its label or neither is there    *)
(* already, with one partition or two of a partition label.                *)
Part(number, partuuid, partlabel, uuid, label, fstype, size) ==
    [number |-> number, partuuid |-> partuuid, partlabel |-> partlabel, uuid |-> uuid,
     label |-> label, fstype |-> fstype, size |-> size]
Uuid(v, c) == [value |-> v, case |-> c]
SomeLayouts == {{Part("1", "a", "root", Uuid("", ""), "none", "ext4", 2),
             Part("2", "b", "data", Uuid("u", "upper"), "none", "swap", 1)},
            {Part("1", "a", "root", Uuid("", ""), "data", "ext4", 1),
             Part("2", "c", "root", Uuid("", ""), "none", "btrfs", 2)}}
Img(kind, status, source) == [kind |-> kind, status |-> status, source |-> source]
SomeImages == {Img("disk", "ready", <<>>), Img("partition", "faulted", <<>>),
           Img("partition", "ready", <<[size |-> 1, uuid |-> Uuid("u", "lower"), label |-> "data"]>>),
           Img("partition", "ready", <<[size |-> 2, uuid |-> Uuid("", ""), label |-> "none"]>>)}
Host(m, l) == [mac |-> [machine |-> m, case |-> "lower"], name |-> "none", disk |-> TRUE, parts |-> l]
SomeHosts == {<<Host(m1, l)>> : l \in SomeLayouts} \cup {<<Host(m1, l), Host(m2, k)>> : l, k \in SomeLayouts}

Off == "off"
PageOff == /\ tasks = Off /\ gone = Off /\ filter = Off /\ cursors = Off /\ fetch = Off /\ polled = Off
           /\ dialog = Off /\ request = Off /\ steady = Off /\ seen = Off /\ acts = Off
PanelOff == /\ row = Off /\ output = Off /\ uploads = Off /\ settled = Off /\ attempt = Off
            /\ shown = Off /\ loop = Off /\ panel = Off /\ fails = Off
InventoryOff == /\ rows = Off /\ lastId = Off /\ group = Off /\ image = Off /\ stored = Off
                /\ modal = Off /\ order = Off /\ moves = Off
ScreenOff == /\ task = Off /\ reboot = Off /\ confirming = Off /\ runner = Off
             /\ reporters = Off /\ cast = Off /\ token = Off /\ console = Off /\ standing = Off /\ machine = Off

Init == \/ part = "page" /\ P!Init /\ PanelOff /\ InventoryOff /\ ScreenOff
        \/ part = "panel" /\ O!Init /\ PageOff /\ InventoryOff /\ ScreenOff
        \/ part = "inventory" /\ I!Init /\ PageOff /\ PanelOff /\ ScreenOff
        \/ part = "screen" /\ A!Init /\ PageOff /\ PanelOff /\ InventoryOff

Next == /\ UNCHANGED part
        /\ \/ part = "page" /\ P!Next /\ UNCHANGED <<panelVars, inventoryVars, screenVars>>
           \/ part = "panel" /\ O!Next /\ UNCHANGED <<pageVars, inventoryVars, screenVars>>
           \/ part = "inventory" /\ I!Next /\ UNCHANGED <<pageVars, panelVars, screenVars>>
           \/ part = "screen" /\ A!Next /\ UNCHANGED <<pageVars, panelVars, inventoryVars>>

Spec == Init /\ [][Next]_vars

(* TaskPage: turning the pages of the task list (list_tasks, use_poll)     *)
(* passes no matching task over, and every page is what the filter asks.   *)
PagesComplete == part = "page" => P!PagesComplete
(* TaskPage: a retry (retry_task) sets back no host that its dialog showed *)
(* as done, however late it arrives.                                       *)
RetrySpares == [][part = "page" => P!RetrySparesStep]_vars
(* OutputPanel: the panel's poll (use_poll_while) does not rest before it  *)
(* has all of the output that was stored when the row was settled.         *)
RestsWhenWhole == part = "panel" => O!RestsWhenWhole
(* Inventory: the dialogs (unfit, resolve) and the server                  *)
(* (target_partitions) agree on what may be overwritten (DialogAgrees),    *)
(* requests reach the machine they were meant for (host ids,               *)
(* canonical_mac) and nothing refers to a deleted host (MeantMachine).     *)
MeantTarget == part = "inventory" => I!DialogAgrees /\ I!MeantMachine
(* AgentConsole: the agent's screen (view/task.rs, status.rs) tells how    *)
(* the task stands: steps in order, DONE only for a task the server has as *)
(* done, a full bar only when every byte is through, and no report of an   *)
(* earlier task; and a machine goes down after the server was told of the  *)
(* task it ends, but for a task whose report was not answered and for one  *)
(* that the reboot confirmed at the console came too early to see          *)
(* (RebootIsReported, reboot.rs).                                          *)
ScreenIsTrue == part = "screen" => A!ScreenIsTrue /\ A!RebootIsReported
=============================================================================

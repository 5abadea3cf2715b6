--------------------------- MODULE MulticastPorts ---------------------------
(***************************************************************************)
(* The addresses of multicast transfers.  A task sends its files one after *)
(* the other, each to the task's group on two ports of its own: the sender *)
(* binds one, the group listens on the next.  A receiver may still hold    *)
(* the ports of a file when the next file starts.                          *)
(***************************************************************************)
EXTENDS Integers, FiniteSets

CONSTANTS
    Tasks,    \* ids of multicast tasks
    Slots     \* slots of the files: 0 is the partition table, n partition n

VARIABLES
    sending,  \* per task, the slot that is sent
    held      \* [task, slot] whose ports a sender or a receiver holds

vars == <<sending, held>>

U16Max == 65535
MULTICAST_PORT_BASE == 50000
MAX_MULTICAST_SLOT == 7766         \* (u16::MAX - MULTICAST_PORT_BASE - 2) / 2
GROUPS_IN_SCOPE == 262144          \* 1 << 18
NoSlot == -1

(* mutant: the files' ports follow each other without a gap.               *)
PortDense(slot) ==
    IF slot \in 0 .. MAX_MULTICAST_SLOT THEN MULTICAST_PORT_BASE + (slot % 65536) ELSE U16Max
(* get_multicast_port; a slot out of range gets a port no other can have.  *)
Port(slot) ==
    IF slot \in 0 .. MAX_MULTICAST_SLOT THEN MULTICAST_PORT_BASE + (slot % 65536) * 2 ELSE U16Max

(* multicast_group, without the upper bits, which all groups share.        *)
Group(task) == task % GROUPS_IN_SCOPE

(* The group port of the sentinel does not exist.                          *)
Ports(slot) == IF Port(slot) = U16Max THEN {U16Max} ELSE {Port(slot), Port(slot) + 1}

Init == /\ sending = [t \in Tasks |-> NoSlot]
        /\ held = {}

(* The next file, of a higher slot than the one before.                    *)
Send(t, s) == /\ s > sending[t]
              /\ sending' = [sending EXCEPT ![t] = s]
              /\ held' = held \cup {[task |-> t, slot |-> s]}

(* The last receiver of an earlier file lets go of its ports.              *)
LetGo(x) == /\ x.slot # sending[x.task]
            /\ held' = held \ {x}
            /\ UNCHANGED sending

Next == \/ \E t \in Tasks, s \in Slots : Send(t, s)
        \/ \E x \in held : LetGo(x)

Spec == Init /\ [][Next]_vars

-----------------------------------------------------------------------------
(* Ids are handed out in order: tasks that run at the same time are less   *)
(* than the number of groups apart.                                        *)
TasksAreClose == /\ Tasks \subseteq Nat
                 /\ \A t, u \in Tasks : t - u < GROUPS_IN_SCOPE
SlotsAreNumbers == Slots \subseteq Int

(* TrafficSeparate: no two files that are in the air at the same time      *)
(* share a group and a port, also when their slots are out of range, and   *)
(* no port leaves 16 bits or the dynamic range.                            *)
InRange(s) == s \in 0 .. MAX_MULTICAST_SLOT
TrafficSeparate ==
    \A x, y \in held :
        /\ Ports(x.slot) \subseteq MULTICAST_PORT_BASE .. U16Max
        /\ x # y /\ (InRange(x.slot) \/ InRange(y.slot)) =>
              Group(x.task) # Group(y.task) \/ Ports(x.slot) \cap Ports(y.slot) = {}
=============================================================================

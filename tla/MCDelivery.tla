---------------------------- MODULE MCDelivery ----------------------------
EXTENDS Delivery, TLC
CONSTANTS c1, c2, i1, i2

TwoDeploys == [t \in {1, 2} |-> "deploy"]
MulticastFirst == 1 :> "multicast" @@ 2 :> "deploy"
Mixed == 1 :> "capture" @@ 2 :> "reboot" @@ 3 :> "deploy"

\* every step but requests and faults
Undisturbed == \/ Dispatch \/ MgrNext
               \/ \E c \in Conns : StreamNext(c)
               \/ LinkNext \/ RunNext
               \/ \E i \in Calls : HandlerNext(i)

(* Two calls at a time, where a call whose agent has given up may be       *)
(* overtaken by the next: two requests, or a request and a fault.          *)
TwoDisturbances == ops' + faults' <= 2
SlotsNext == \/ Undisturbed
             \/ UiNext /\ TwoDisturbances
             \/ FaultNext /\ TwoDisturbances
SlotsSpec == Init /\ [][SlotsNext]_vars
Slots == Permutations({i1, i2})

(* Multicasts with fairness: one disturbance, a request (cancel, kick,     *)
(* retry) or a fault, and the deploy that is queued behind the multicast   *)
(* only where no request is made.  What this leaves out is never among the *)
(* actions that are fair.                                                  *)
OneDisturbance == /\ ops' + faults' <= 1
                  /\ ops' > 0 => rows'[2] = "absent"
CastNext == \/ Undisturbed
            \/ UiNext /\ OneDisturbance
            \/ FaultNext /\ OneDisturbance
CastSpec == Init /\ [][CastNext]_vars /\ Fairness
=============================================================================

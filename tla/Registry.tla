------------------------------ MODULE Registry ------------------------------
(***************************************************************************)
(* The server's HostRegistry, the streams registered in it, a browser that *)
(* follows it through a ConnectionFeed, and the progress board that the    *)
(* streams write to.                                                       *)
(*                                                                         *)
(* The registry changes under its write lock and broadcasts every change   *)
(* while it holds it; watch reads the hosts and subscribes under the read  *)
(* lock.  So each of these is one step.  A stream that ends takes two: its *)
(* Registration is dropped, then the host's progress is forgotten.         *)
(***************************************************************************)
EXTENDS Integers, Sequences, FiniteSets

CONSTANTS Hosts,
          Capacity,        \* of the broadcast channel: 32 in the code
          MaxStreams       \* bound on the connections hosts make

ASSUME RegistryAssumption == /\ IsFiniteSet(Hosts)
                             /\ Capacity \in Nat \ {0}
                             /\ MaxStreams \in Nat

VARIABLES
    entry,      \* entry[h]: the generation of the host's HostEntry, or NoEntry
    next,       \* next_generation
    streams,    \* HostStreams that have not ended
    ended,      \* generations displaced by a newer one, deregistered or drained
    snapshot,   \* the feed's connected: hosts to send, or NoSnapshot
    updates,    \* broadcast events the feed has yet to receive
    view,       \* the hosts the browser shows as connected
    board,      \* hosts with progress on the ProgressBoard
    reported    \* streams whose progress nothing has ended yet

registryVars == <<entry, next, ended>>
feedVars == <<snapshot, updates, view>>
boardVars == <<board, reported>>
vars == <<registryVars, streams, feedVars, boardVars>>

NoEntry == -1
NoSnapshot == [hosts |-> {}, pending |-> FALSE]
Snapshot(S) == [hosts |-> S, pending |-> TRUE]

Streams == [host : Hosts, generation : Nat, serving : BOOLEAN]
Events == [id : Hosts, connected : BOOLEAN]

Connected == {h \in Hosts : entry[h] # NoEntry}

TypeOK ==
    /\ entry \in [Hosts -> Nat \cup {NoEntry}]
    /\ next \in Nat
    /\ streams \subseteq Streams
    /\ ended \subseteq Nat
    /\ snapshot \in [hosts : SUBSET Hosts, pending : BOOLEAN]
    /\ updates \in Seq(Events)
    /\ view \subseteq Hosts
    /\ board \subseteq Hosts
    /\ reported \subseteq Nat

\* a server that has just started, and a browser that has just subscribed
Init ==
    /\ entry = [h \in Hosts |-> NoEntry]
    /\ next = 0
    /\ streams = {} /\ ended = {}
    /\ snapshot = Snapshot({})
    /\ updates = <<>>
    /\ view = {}
    /\ board = {} /\ reported = {}

Event(h, up) == [id |-> h, connected |-> up]

\* a receiver that is behind by more than the capacity finds out on its next
\* recv; until then the events only pile up
Broadcast(events) == updates' = updates \o events

-----------------------------------------------------------------------------
(* The registry.                                                           *)

\* a newer connection of the host takes the entry over
Register(h) ==
    /\ next < MaxStreams
    /\ entry' = [entry EXCEPT ![h] = next]
    /\ next' = next + 1
    /\ streams' = streams \cup {[host |-> h, generation |-> next, serving |-> TRUE]}
    /\ Broadcast(<<Event(h, TRUE)>>)
    /\ ended' = ended \cup ({entry[h]} \ {NoEntry})
    /\ UNCHANGED <<snapshot, view, boardVars>>

\* mutant: any stream of the host tears its entry down
IsHostRegistered(s) == entry[s.host] # NoEntry

\* mutant: generation 0 is taken for no registration
IsRegisteredNonzero(s) == s.generation > 0 /\ entry[s.host] = s.generation

\* "Only tear down if this connection is still the registered one"
IsRegistered(s) == entry[s.host] = s.generation

\* serve is over, for whatever reason, and drops the Registration
StreamDropped(s) ==
    /\ s.serving
    /\ streams' = (streams \ {s}) \cup {[s EXCEPT !.serving = FALSE]}
    /\ IF IsRegistered(s)
       THEN /\ entry' = [entry EXCEPT ![s.host] = NoEntry]
            /\ Broadcast(<<Event(s.host, FALSE)>>)
       ELSE UNCHANGED <<entry, updates>>
    /\ UNCHANGED <<next, ended, snapshot, view, boardVars>>

\* the host says that it is about to disconnect
Deregister(h) ==
    /\ entry[h] # NoEntry
    /\ entry' = [entry EXCEPT ![h] = NoEntry]
    /\ ended' = ended \cup {entry[h]}
    /\ Broadcast(<<Event(h, FALSE)>>)
    /\ UNCHANGED <<next, streams, snapshot, view, boardVars>>

\* the server stops; the map is drained in any order
Orders(S) == {s \in [1..Cardinality(S) -> S] :
                 \A h \in S : \E i \in 1..Cardinality(S) :
                     s[i] = h /\ \A j \in 1..Cardinality(S) : s[j] = h => j = i}

DisconnectAll ==
    /\ Connected # {}
    /\ entry' = [h \in Hosts |-> NoEntry]
    /\ ended' = ended \cup {entry[h] : h \in Connected}
    /\ \E s \in Orders(Connected) :
          Broadcast([i \in 1..Cardinality(Connected) |-> Event(s[i], FALSE)])
    /\ UNCHANGED <<next, streams, snapshot, view, boardVars>>

-----------------------------------------------------------------------------
(* A ConnectionFeed and the browser behind it.                             *)

\* a browser subscribes again after its stream of events broke
Watch ==
    /\ snapshot' = Snapshot(Connected)
    /\ updates' = <<>>
    /\ UNCHANGED <<registryVars, streams, view, boardVars>>

Lagged == Len(updates) > Capacity

\* ConnectionFeed::next: the snapshot first
SendSnapshot ==
    /\ snapshot.pending
    /\ view' = snapshot.hosts
    /\ snapshot' = NoSnapshot
    /\ UNCHANGED <<registryVars, streams, updates, boardVars>>

\* mutant: what was missed is skipped
ResyncSkips ==
    /\ ~snapshot.pending
    /\ Lagged
    /\ updates' = <<>>
    /\ UNCHANGED <<registryVars, streams, snapshot, view, boardVars>>

\* mutant: a feed that fell behind waits for ever
ResyncNever == FALSE /\ UNCHANGED vars

\* RecvError::Lagged: subscribe again with a fresh snapshot
Resync ==
    /\ ~snapshot.pending
    /\ Lagged
    /\ snapshot' = Snapshot(Connected)
    /\ updates' = <<>>
    /\ UNCHANGED <<registryVars, streams, view, boardVars>>

Apply(v, e) == IF e.connected THEN v \cup {e.id} ELSE v \ {e.id}

SendChange ==
    /\ ~snapshot.pending
    /\ ~Lagged
    /\ updates # <<>>
    /\ view' = Apply(view, Head(updates))
    /\ updates' = Tail(updates)
    /\ UNCHANGED <<registryVars, streams, snapshot, boardVars>>

FeedNext == SendSnapshot \/ Resync \/ SendChange

-----------------------------------------------------------------------------
(* The progress board.                                                     *)

\* the stream receives AgentEvent::Progress
Report(s) ==
    /\ s.serving
    /\ board' = board \cup {s.host}
    /\ reported' = reported \cup {s.generation}
    /\ UNCHANGED <<registryVars, streams, feedVars>>

\* start_stream forgets the host's progress once serve has returned
StreamForgets(s) ==
    /\ ~s.serving
    /\ streams' = streams \ {s}
    /\ board' = board \ {s.host}
    /\ reported' = reported \ {s.generation}
    /\ UNCHANGED <<registryVars, feedVars>>

\* the host finishes, fails or is cancelled
Settle(h) ==
    /\ h \in board
    /\ board' = board \ {h}
    /\ reported' = reported \ {s.generation : s \in {x \in streams : x.host = h}}
    /\ UNCHANGED <<registryVars, streams, feedVars>>

-----------------------------------------------------------------------------

HostNext(h) == Register(h) \/ Deregister(h) \/ Settle(h)
StreamNext(s) == StreamDropped(s) \/ Report(s) \/ StreamForgets(s)

Next == \/ \E h \in Hosts : HostNext(h)
        \/ \E s \in streams : StreamNext(s)
        \/ DisconnectAll
        \/ Watch
        \/ FeedNext

Spec == Init /\ [][Next]_vars

\* the feed's task is polled whenever it can go on
LiveSpec == Spec /\ WF_vars(FeedNext)

-----------------------------------------------------------------------------
(* Properties.                                                             *)

(***************************************************************************)
(* "a stale connection's cleanup can't tear down a newer registration": a  *)
(* connection that is served, that no newer one displaced and nobody       *)
(* disconnected on purpose stays registered, so dispatches reach it.       *)
(***************************************************************************)
NewestIsRegistered ==
    \A s \in streams :
        s.serving /\ s.generation \notin ended => entry[s.host] = s.generation

(***************************************************************************)
(* connected_hosts lists no host whose connection is gone: an entry always *)
(* belongs to a stream that will still drop its registration.              *)
(***************************************************************************)
EntriesAreServed ==
    \A h \in Connected : \E s \in streams :
        s.serving /\ s.host = h /\ s.generation = entry[h]

(***************************************************************************)
(* "Resubscribes with a fresh snapshot whenever it falls behind, so a      *)
(* consumer applying every change ends up with the registry's state": a    *)
(* browser with nothing left to receive shows what the registry holds.     *)
(***************************************************************************)
FeedAgrees == ~snapshot.pending /\ updates = <<>> => view = Connected

(***************************************************************************)
(* ... and it does get there, however far behind it fell and however often *)
(* it had to subscribe again, once hosts stop coming and going.            *)
(***************************************************************************)
FeedCatchesUp == <>[](view = Connected)

(***************************************************************************)
(* "The progress board keeps the latest progress each agent reported,      *)
(* until the host finishes, fails, is cancelled or disconnects"            *)
(* (README.md): progress of a registered stream that none of these ended   *)
(* is on the board.  It does not hold: forget carries no generation.       *)
(***************************************************************************)
ProgressKept ==
    \A h \in Connected : entry[h] \in reported => h \in board
=============================================================================

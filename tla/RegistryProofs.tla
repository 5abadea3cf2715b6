--------------------------- MODULE RegistryProofs ---------------------------
(***************************************************************************)
(* What the registry and its feed guarantee for any hosts, any capacity of *)
(* the broadcast channel and any number of connections.                    *)
(***************************************************************************)
EXTENDS Registry, FiniteSetTheorems, SequenceTheorems, TLAPS

(***************************************************************************)
(* A generation names one stream.  Without that a drop could not tell its  *)
(* own entry from a newer one.                                             *)
(***************************************************************************)
Generations ==
    /\ \A s \in streams : s.generation < next
    /\ \A s, o \in streams : s.generation = o.generation => s = o

RegistryInv == TypeOK /\ Generations /\ NewestIsRegistered /\ EntriesAreServed

LEMMA InitRegistry == Init => RegistryInv
  BY DEF Init, RegistryInv, TypeOK, Generations, NewestIsRegistered,
         EntriesAreServed, Connected, NoEntry, Snapshot, Streams, Events

\* A finite set has a length to be drained in.
LEMMA ConnectedFinite == Cardinality(Connected) \in Nat
  <1>1. Connected \subseteq Hosts
    BY DEF Connected
  <1>2. IsFiniteSet(Connected)
    BY <1>1, RegistryAssumption, FS_Subset
  <1> QED
    BY <1>2, FS_CardinalityType

\* What is broadcast is a sequence of events.
LEMMA OneEvent == \A h \in Hosts, up \in BOOLEAN : <<Event(h, up)>> \in Seq(Events)
  <1>1. \A h \in Hosts, up \in BOOLEAN : Event(h, up) \in Events
    BY DEF Event, Events
  <1>2. \A e \in Events : <<e>> \in Seq(Events)
    OBVIOUS
  <1> QED
    BY <1>1, <1>2

Drained(s) == [i \in 1..Cardinality(Connected) |-> Event(s[i], FALSE)]

LEMMA DrainedEvents ==
    ASSUME NEW s \in Orders(Connected)
    PROVE  Drained(s) \in Seq(Events) /\ Len(Drained(s)) = Cardinality(Connected)
  <1>1. \A i \in 1..Cardinality(Connected) : Event(s[i], FALSE) \in Events
    BY DEF Orders, Connected, Event, Events
  <1>2. Drained(s) \in [1..Cardinality(Connected) -> Events]
    BY <1>1 DEF Drained
  <1>3. Drained(s) \in Seq(Events)
    BY <1>2, ConnectedFinite, SeqDef
  <1>4. DOMAIN Drained(s) = 1..Len(Drained(s))
    BY <1>3, LenProperties
  <1>5. Len(Drained(s)) \in Nat
    BY <1>3
  <1>6. 1..Len(Drained(s)) = 1..Cardinality(Connected)
    BY <1>2, <1>4
  <1> QED
    BY <1>3, <1>5, <1>6, ConnectedFinite

-----------------------------------------------------------------------------
(* The registry.                                                           *)

LEMMA RegisterKeeps ==
    ASSUME RegistryInv, NEW h \in Hosts, Register(h)
    PROVE  RegistryInv'
  <1> DEFINE n == [host |-> h, generation |-> next, serving |-> TRUE]
  <1>0. n \in Streams /\ streams' = streams \cup {n} /\ next' = next + 1
           /\ next \in Nat /\ streams \subseteq Streams
    BY DEF Register, Streams, RegistryInv, TypeOK
  <1>1. TypeOK'
    <2>1. updates' \in Seq(Events)
      BY OneEvent, ConcatProperties DEF Register, Broadcast, RegistryInv, TypeOK
    <2>2. entry' \in [Hosts -> Nat \cup {NoEntry}] /\ next' \in Nat
      BY <1>0 DEF Register, RegistryInv, TypeOK
    <2>3. streams' \subseteq Streams
      BY <1>0
    <2>4. ended' \subseteq Nat
      BY DEF Register, RegistryInv, TypeOK
    <2> QED
      BY <2>1, <2>2, <2>3, <2>4 DEF Register, RegistryInv, TypeOK, boardVars
  <1>2. Generations'
    <2>1. \A s \in streams : s.generation \in Nat /\ s.generation < next
      BY <1>0 DEF RegistryInv, Generations, Streams
    <2>2. \A s \in streams' : s \in streams \/ (s = n /\ s.generation = next)
      BY <1>0
    <2>3. ASSUME NEW s \in streams' PROVE s.generation < next'
      <3>1. s.generation \in Nat /\ s.generation <= next
        BY <1>0, <2>1, <2>2
      <3> QED
        BY <1>0, <3>1
    <2>4. ASSUME NEW s \in streams', NEW o \in streams', s.generation = o.generation
          PROVE  s = o
      <3>1. CASE s \in streams /\ o \in streams
        BY <2>4, <3>1 DEF RegistryInv, Generations
      <3>2. CASE s \notin streams \/ o \notin streams
        <4>1. s.generation = next
          BY <2>2, <2>4, <3>2
        <4>2. \A x \in streams : x.generation # next
          BY <1>0, <2>1
        <4>3. s \notin streams /\ o \notin streams
          BY <2>4, <4>1, <4>2
        <4> QED
          BY <2>2, <4>3
      <3> QED
        BY <3>1, <3>2
    <2> QED
      BY <2>3, <2>4 DEF Generations
  <1>3. entry'[h] = next /\ \A g \in Hosts \ {h} : entry'[g] = entry[g]
    BY DEF Register, RegistryInv, TypeOK
  <1>4. NewestIsRegistered'
    <2> SUFFICES ASSUME NEW s \in streams', s.serving, s.generation \notin ended'
                 PROVE  entry'[s.host] = s.generation
      BY DEF NewestIsRegistered
    <2>1. CASE s = n
      BY <1>3, <2>1
    <2>2. CASE s \in streams
      <3>1. s.host \in Hosts /\ s.generation \in Nat
        BY <1>0, <2>2 DEF Streams
      <3>2. s.generation \notin ended /\ s.generation \notin {entry[h]} \ {NoEntry}
        BY DEF Register
      <3>3. entry[s.host] = s.generation
        BY <2>2, <3>2 DEF RegistryInv, NewestIsRegistered
      <3>4. s.host # h
        BY <3>1, <3>2, <3>3 DEF NoEntry
      <3> QED
        BY <1>3, <3>1, <3>3, <3>4
    <2> QED
      BY <1>0, <2>1, <2>2
  <1>5. EntriesAreServed'
    <2> SUFFICES ASSUME NEW g \in Hosts, entry'[g] # NoEntry
                 PROVE  \E s \in streams' :
                           s.serving /\ s.host = g /\ s.generation = entry'[g]
      BY DEF EntriesAreServed, Connected
    <2>1. CASE g = h
      BY <1>0, <1>3, <2>1
    <2>2. CASE g # h
      BY <1>0, <1>3, <2>2 DEF RegistryInv, EntriesAreServed, Connected
    <2> QED
      BY <2>1, <2>2
  <1> QED
    BY <1>1, <1>2, <1>4, <1>5 DEF RegistryInv

LEMMA DropKeeps ==
    ASSUME RegistryInv, NEW s \in streams, StreamDropped(s)
    PROVE  RegistryInv'
  <1> DEFINE d == [s EXCEPT !.serving = FALSE]
  <1>0. /\ s \in Streams /\ d \in Streams /\ streams \subseteq Streams
        /\ streams' = (streams \ {s}) \cup {d}
        /\ d.generation = s.generation /\ d.host = s.host /\ ~d.serving
        /\ next' = next /\ ended' = ended
    BY DEF StreamDropped, Streams, RegistryInv, TypeOK
  <1>1. TypeOK'
    <2>1. entry' \in [Hosts -> Nat \cup {NoEntry}]
      BY <1>0 DEF StreamDropped, RegistryInv, TypeOK
    <2>2. s.host \in Hosts /\ updates \in Seq(Events)
      BY <1>0 DEF Streams, RegistryInv, TypeOK
    <2>3. updates' = updates \/ updates' = updates \o <<Event(s.host, FALSE)>>
      BY DEF StreamDropped, Broadcast
    <2>4. updates' \in Seq(Events)
      BY <2>2, <2>3, OneEvent, ConcatProperties
    <2> QED
      BY <1>0, <2>1, <2>4 DEF StreamDropped, RegistryInv, TypeOK, boardVars
  <1>2. Generations'
    BY <1>0 DEF RegistryInv, Generations
  <1>3. /\ \A g \in Hosts \ {s.host} : entry'[g] = entry[g]
        /\ entry'[s.host] = IF IsRegistered(s) THEN NoEntry ELSE entry[s.host]
    BY <1>0 DEF StreamDropped, RegistryInv, TypeOK, Streams
  <1>4. NewestIsRegistered'
    <2> SUFFICES ASSUME NEW o \in streams', o.serving, o.generation \notin ended
                 PROVE  entry'[o.host] = o.generation
      BY <1>0 DEF NewestIsRegistered
    <2>1. o \in streams /\ o # s /\ o.host \in Hosts
      BY <1>0 DEF Streams
    <2>2. entry[o.host] = o.generation /\ o.generation # s.generation
      BY <2>1 DEF RegistryInv, NewestIsRegistered, Generations
    <2> QED
      BY <1>0, <1>3, <2>1, <2>2 DEF IsRegistered
  <1>5. EntriesAreServed'
    <2> SUFFICES ASSUME NEW g \in Hosts, entry'[g] # NoEntry
                 PROVE  \E o \in streams' :
                           o.serving /\ o.host = g /\ o.generation = entry'[g]
      BY DEF EntriesAreServed, Connected
    <2>1. entry'[g] = entry[g]
      BY <1>0, <1>3
    <2>2. PICK o \in streams : o.serving /\ o.host = g /\ o.generation = entry[g]
      BY <2>1 DEF RegistryInv, EntriesAreServed, Connected
    <2>3. o # s
      BY <1>3, <2>1, <2>2 DEF IsRegistered
    <2> QED
      BY <1>0, <2>1, <2>2, <2>3
  <1> QED
    BY <1>1, <1>2, <1>4, <1>5 DEF RegistryInv

LEMMA DeregisterKeeps ==
    ASSUME RegistryInv, NEW h \in Hosts, Deregister(h)
    PROVE  RegistryInv'
  <1>1. TypeOK'
    <2>1. updates' \in Seq(Events)
      BY OneEvent, ConcatProperties DEF Deregister, Broadcast, RegistryInv, TypeOK
    <2> QED
      BY <2>1 DEF Deregister, RegistryInv, TypeOK, boardVars
  <1>2. entry'[h] = NoEntry /\ \A g \in Hosts \ {h} : entry'[g] = entry[g]
    BY DEF Deregister, RegistryInv, TypeOK
  <1>3. NewestIsRegistered'
    BY <1>2 DEF Deregister, RegistryInv, TypeOK, Streams, NewestIsRegistered
  <1>4. EntriesAreServed'
    BY <1>2 DEF Deregister, RegistryInv, EntriesAreServed, Connected
  <1> QED
    BY <1>1, <1>3, <1>4 DEF RegistryInv, Generations, Deregister

LEMMA DisconnectAllKeeps ==
    ASSUME RegistryInv, DisconnectAll
    PROVE  RegistryInv'
  <1>1. TypeOK'
    <2>1. PICK s \in Orders(Connected) : updates' = updates \o Drained(s)
      BY DEF DisconnectAll, Broadcast, Drained
    <2>2. updates' \in Seq(Events)
      BY <2>1, DrainedEvents, ConcatProperties DEF RegistryInv, TypeOK
    <2>3. ended' \subseteq Nat
      BY DEF DisconnectAll, RegistryInv, TypeOK, Connected
    <2> QED
      BY <2>2, <2>3 DEF DisconnectAll, RegistryInv, TypeOK, boardVars
  <1>2. NewestIsRegistered'
    <2> SUFFICES ASSUME NEW s \in streams, s.serving, s.generation \notin ended'
                 PROVE  FALSE
      BY DEF NewestIsRegistered, DisconnectAll
    <2>1. s.host \in Hosts /\ s.generation \in Nat /\ s.generation \notin ended
      BY DEF RegistryInv, TypeOK, Streams, DisconnectAll
    <2>2. entry[s.host] = s.generation
      BY <2>1 DEF RegistryInv, NewestIsRegistered
    <2>3. s.host \in Connected
      BY <2>1, <2>2 DEF Connected, NoEntry
    <2> QED
      BY <2>2, <2>3 DEF DisconnectAll
  <1>3. EntriesAreServed'
    BY DEF DisconnectAll, EntriesAreServed, Connected
  <1> QED
    BY <1>1, <1>2, <1>3 DEF RegistryInv, Generations, DisconnectAll

LEMMA OthersKeep ==
    ASSUME RegistryInv,
           \/ Watch \/ FeedNext
           \/ \E h \in Hosts : Settle(h)
           \/ \E s \in streams : Report(s) \/ StreamForgets(s)
           \/ UNCHANGED vars
    PROVE  RegistryInv'
  <1>1. UNCHANGED registryVars
    BY DEF Watch, FeedNext, SendSnapshot, Resync, SendChange, Settle, Report,
           StreamForgets, vars
  <1>2. streams' \subseteq streams /\ \A s \in streams : s.serving => s \in streams'
    BY DEF Watch, FeedNext, SendSnapshot, Resync, SendChange, Settle, Report,
           StreamForgets, vars
  <1>3. Generations'
    BY <1>1, <1>2 DEF RegistryInv, Generations, registryVars
  <1>4. NewestIsRegistered'
    BY <1>1, <1>2 DEF RegistryInv, NewestIsRegistered, registryVars
  <1>5. EntriesAreServed'
    BY <1>1, <1>2 DEF RegistryInv, EntriesAreServed, registryVars, Connected
  <1>6. TypeOK'
    <2> USE DEF RegistryInv, TypeOK, registryVars
    <2>1. CASE Watch \/ Resync
      <3>1. Connected \subseteq Hosts
        BY DEF Connected
      <3>2. snapshot' = Snapshot(Connected) /\ updates' = <<>> /\ UNCHANGED <<view, boardVars>>
        BY <2>1 DEF Watch, Resync
      <3>3. snapshot' \in [hosts : SUBSET Hosts, pending : BOOLEAN]
        BY <3>1, <3>2 DEF Snapshot
      <3> QED
        BY <1>1, <1>2, <3>2, <3>3 DEF boardVars
    <2>2. CASE SendSnapshot
      BY <1>1, <1>2, <2>2 DEF SendSnapshot, NoSnapshot, boardVars
    <2>3. CASE SendChange
      <3>1. Head(updates) \in Events /\ Tail(updates) \in Seq(Events)
        BY <2>3, HeadTailProperties DEF SendChange
      <3>2. Apply(view, Head(updates)) \subseteq Hosts
        BY <3>1 DEF Apply, Events
      <3> QED
        BY <1>1, <1>2, <2>3, <3>1, <3>2 DEF SendChange, boardVars
    <2>4. CASE \E h \in Hosts : Settle(h)
      BY <1>1, <1>2, <2>4 DEF Settle, feedVars
    <2>5. CASE \E s \in streams : Report(s) \/ StreamForgets(s)
      BY <1>1, <1>2, <2>5 DEF Report, StreamForgets, feedVars, Streams
    <2>6. CASE UNCHANGED vars
      BY <1>1, <1>2, <2>6 DEF vars, feedVars, boardVars
    <2> QED
      BY <2>1, <2>2, <2>3, <2>4, <2>5, <2>6 DEF FeedNext
  <1> QED
    BY <1>3, <1>4, <1>5, <1>6 DEF RegistryInv

LEMMA RegistryInvariant == Spec => []RegistryInv
  <1>1. RegistryInv /\ [Next]_vars => RegistryInv'
    BY RegisterKeeps, DropKeeps, DeregisterKeeps, DisconnectAllKeeps, OthersKeep
    DEF Next, HostNext, StreamNext
  <1> QED
    BY <1>1, InitRegistry, PTL DEF Spec

(***************************************************************************)
(* A connection stays registered until it ends, a newer one of its host    *)
(* displaces it or it is disconnected on purpose, in whatever order old    *)
(* and new connections come, end and are cleaned up.                       *)
(***************************************************************************)
THEOREM RegistrationsAreSafe == Spec => []NewestIsRegistered
  <1>1. RegistryInv => NewestIsRegistered
    BY DEF RegistryInv
  <1> QED
    BY <1>1, RegistryInvariant, PTL

(***************************************************************************)
(* The registry never lists a host whose connection has been cleaned up:   *)
(* every entry has a stream that serves it, so dispatch always reaches a   *)
(* channel somebody reads.                                                 *)
(***************************************************************************)
THEOREM EntriesHaveStreams == Spec => []EntriesAreServed
  <1>1. RegistryInv => EntriesAreServed
    BY DEF RegistryInv
  <1> QED
    BY <1>1, RegistryInvariant, PTL

-----------------------------------------------------------------------------
(***************************************************************************)
(* The feed.  For every host, the last event about it that the feed has    *)
(* yet to receive says whether it is connected; if there is none, what the *)
(* browser shows, or is about to be sent as the snapshot, says so.         *)
(***************************************************************************)
Base == IF snapshot.pending THEN snapshot.hosts ELSE view

Silent(q, h) == \A k \in 1..Len(q) : q[k].id # h

LastSays(q, h, conn) ==
    \E k \in 1..Len(q) : /\ q[k].id = h /\ (q[k].connected <=> h \in conn)
                         /\ \A j \in 1..Len(q) : k < j => q[j].id # h

Says(q, base, h, conn) == \/ LastSays(q, h, conn)
                          \/ Silent(q, h) /\ (h \in base <=> h \in conn)

FeedInv == \A h \in Hosts : Says(updates, Base, h, Connected)

\* Later events decide, and events about other hosts change nothing.
LEMMA ConcatSays ==
    ASSUME NEW q \in Seq(Events), NEW r \in Seq(Events), NEW base,
           NEW h \in Hosts, NEW conn
    PROVE  /\ LastSays(r, h, conn) => Says(q \o r, base, h, conn)
           /\ Silent(r, h) /\ Says(q, base, h, conn) => Says(q \o r, base, h, conn)
  <1> DEFINE c == q \o r
  <1>1. /\ Len(q) \in Nat /\ Len(r) \in Nat /\ Len(c) = Len(q) + Len(r)
        /\ \A i \in 1..Len(c) : c[i] = IF i <= Len(q) THEN q[i] ELSE r[i - Len(q)]
    BY ConcatProperties
  <1> HIDE DEF c
  <1>2. ASSUME LastSays(r, h, conn) PROVE LastSays(c, h, conn)
    <2>1. PICK k \in 1..Len(r) : /\ r[k].id = h /\ (r[k].connected <=> h \in conn)
                                 /\ \A j \in 1..Len(r) : k < j => r[j].id # h
      BY <1>2 DEF LastSays
    <2>2. Len(q) + k \in 1..Len(c) /\ c[Len(q) + k] = r[k]
      BY <1>1
    <2>3. ASSUME NEW j \in 1..Len(c), Len(q) + k < j PROVE c[j].id # h
      <3>1. j - Len(q) \in 1..Len(r) /\ k < j - Len(q) /\ c[j] = r[j - Len(q)]
        BY <1>1, <2>3
      <3> QED
        BY <2>1, <3>1
    <2> QED
      BY <2>1, <2>2, <2>3 DEF LastSays
  <1>3. ASSUME Silent(r, h), Silent(q, h) PROVE Silent(c, h)
    <2> SUFFICES ASSUME NEW j \in 1..Len(c) PROVE c[j].id # h
      BY DEF Silent
    <2>1. CASE j <= Len(q)
      BY <1>1, <1>3, <2>1 DEF Silent
    <2>2. CASE ~(j <= Len(q))
      <3>1. j - Len(q) \in 1..Len(r) /\ c[j] = r[j - Len(q)]
        BY <1>1, <2>2
      <3> QED
        BY <1>3, <3>1 DEF Silent
    <2> QED
      BY <2>1, <2>2
  <1>4. ASSUME Silent(r, h), LastSays(q, h, conn) PROVE LastSays(c, h, conn)
    <2>1. PICK k \in 1..Len(q) : /\ q[k].id = h /\ (q[k].connected <=> h \in conn)
                                 /\ \A j \in 1..Len(q) : k < j => q[j].id # h
      BY <1>4 DEF LastSays
    <2>2. k \in 1..Len(c) /\ c[k] = q[k]
      BY <1>1
    <2>3. ASSUME NEW j \in 1..Len(c), k < j PROVE c[j].id # h
      <3>1. CASE j <= Len(q)
        BY <1>1, <2>1, <2>3, <3>1
      <3>2. CASE ~(j <= Len(q))
        <4>1. j - Len(q) \in 1..Len(r) /\ c[j] = r[j - Len(q)]
          BY <1>1, <3>2
        <4> QED
          BY <1>4, <4>1 DEF Silent
      <3> QED
        BY <3>1, <3>2
    <2> QED
      BY <2>1, <2>2, <2>3 DEF LastSays
  <1> QED
    BY <1>2, <1>3, <1>4 DEF Says, c

\* Receiving the first event moves it from the queue into the base.
LEMMA TailSays ==
    ASSUME NEW q \in Seq(Events), q # <<>>, NEW base, NEW h \in Hosts,
           NEW conn, Says(q, base, h, conn)
    PROVE  Says(Tail(q), Apply(base, Head(q)), h, conn)
  <1> DEFINE t == Tail(q)
  <1>1. /\ Len(q) \in Nat /\ Len(t) = Len(q) - 1 /\ Head(q) = q[1] /\ Len(q) >= 1
        /\ \A i \in 1..Len(t) : t[i] = q[i + 1]
        /\ Head(q) \in Events
    BY HeadTailProperties
  <1> HIDE DEF t
  <1>2. CASE Silent(q, h) /\ (h \in base <=> h \in conn)
    <2>1. Silent(t, h) /\ Head(q).id # h
      BY <1>1, <1>2 DEF Silent
    <2>2. h \in Apply(base, Head(q)) <=> h \in conn
      BY <1>2, <2>1 DEF Apply
    <2> QED
      BY <2>1, <2>2 DEF Says, t
  <1>3. CASE LastSays(q, h, conn)
    <2>1. PICK k \in 1..Len(q) : /\ q[k].id = h /\ (q[k].connected <=> h \in conn)
                                 /\ \A j \in 1..Len(q) : k < j => q[j].id # h
      BY <1>3 DEF LastSays
    <2>2. CASE k = 1
      <3>1. Silent(t, h)
        <4> SUFFICES ASSUME NEW i \in 1..Len(t) PROVE t[i].id # h
          BY DEF Silent
        <4>1. i + 1 \in 1..Len(q) /\ 1 < i + 1 /\ t[i] = q[i + 1]
          BY <1>1
        <4> QED
          BY <2>1, <2>2, <4>1
      <3>2. h \in Apply(base, Head(q)) <=> h \in conn
        BY <1>1, <2>1, <2>2 DEF Apply
      <3> QED
        BY <3>1, <3>2 DEF Says, t
    <2>3. CASE k # 1
      <3>1. k - 1 \in 1..Len(t) /\ t[k - 1] = q[k]
        BY <1>1, <2>3
      <3>2. ASSUME NEW j \in 1..Len(t), k - 1 < j PROVE t[j].id # h
        <4>1. j + 1 \in 1..Len(q) /\ k < j + 1 /\ t[j] = q[j + 1]
          BY <1>1, <3>2
        <4> QED
          BY <2>1, <4>1
      <3>3. LastSays(t, h, conn)
        BY <2>1, <3>1, <3>2 DEF LastSays
      <3> QED
        BY <3>3 DEF Says, t
    <2> QED
      BY <2>2, <2>3
  <1> QED
    BY <1>2, <1>3 DEF Says

\* One event.
LEMMA OneSays ==
    ASSUME NEW h \in Hosts, NEW g \in Hosts, NEW up \in BOOLEAN
    PROVE  /\ g # h => Silent(<<Event(g, up)>>, h)
           /\ \A conn : (up <=> h \in conn) => LastSays(<<Event(h, up)>>, h, conn)
  BY DEF Silent, LastSays, Event

\* Broadcasting one change of host g.
LEMMA BroadcastSays ==
    ASSUME RegistryInv, FeedInv, NEW g \in Hosts, NEW up \in BOOLEAN,
           Broadcast(<<Event(g, up)>>), UNCHANGED <<snapshot, view>>,
           Connected' = IF up THEN Connected \cup {g} ELSE Connected \ {g}
    PROVE  FeedInv'
  <1> SUFFICES ASSUME NEW h \in Hosts
               PROVE  Says(updates', Base, h, Connected')
    BY DEF FeedInv, Base
  <1>1. updates \in Seq(Events) /\ <<Event(g, up)>> \in Seq(Events)
    BY OneEvent DEF RegistryInv, TypeOK
  <1>2. CASE h = g
    <2>1. up <=> h \in Connected'
      BY <1>2
    <2> QED
      BY <1>1, <1>2, <2>1, OneSays, ConcatSays DEF Broadcast
  <1>3. CASE h # g
    <2>1. Says(updates, Base, h, Connected')
      BY <1>3 DEF FeedInv, Says, LastSays
    <2>2. Silent(<<Event(g, up)>>, h)
      BY <1>3, OneSays
    <2> QED
      BY <1>1, <2>1, <2>2, ConcatSays DEF Broadcast
  <1> QED
    BY <1>2, <1>3

\* Draining the map tells the feed of every host once.
LEMMA DrainSays ==
    ASSUME RegistryInv, FeedInv, DisconnectAll
    PROVE  FeedInv'
  <1>1. PICK s \in Orders(Connected) : updates' = updates \o Drained(s)
    BY DEF DisconnectAll, Broadcast, Drained
  <1>2. Drained(s) \in Seq(Events) /\ Len(Drained(s)) = Cardinality(Connected)
           /\ updates \in Seq(Events) /\ Cardinality(Connected) \in Nat
    BY DrainedEvents, ConnectedFinite DEF RegistryInv, TypeOK
  <1>3. Connected' = {} /\ UNCHANGED <<snapshot, view>>
    BY DEF DisconnectAll, Connected
  <1> SUFFICES ASSUME NEW h \in Hosts
               PROVE  Says(updates \o Drained(s), Base, h, {})
    BY <1>1, <1>3 DEF FeedInv, Base
  <1>4. CASE h \in Connected
    <2>1. PICK i \in 1..Cardinality(Connected) :
             s[i] = h /\ \A j \in 1..Cardinality(Connected) : s[j] = h => j = i
      BY <1>4 DEF Orders
    <2>2. \A j \in 1..Cardinality(Connected) :
             Drained(s)[j].id = s[j] /\ Drained(s)[j].connected = FALSE
      BY DEF Drained, Event
    <2>3. LastSays(Drained(s), h, {})
      BY <1>2, <2>1, <2>2 DEF LastSays
    <2> QED
      BY <1>2, <2>3, ConcatSays
  <1>5. CASE h \notin Connected
    <2>1. \A j \in 1..Cardinality(Connected) : Drained(s)[j].id = s[j] /\ s[j] \in Connected
      BY DEF Drained, Event, Orders
    <2>2. Silent(Drained(s), h)
      BY <1>2, <1>5, <2>1 DEF Silent
    <2>3. Says(updates, Base, h, {})
      BY <1>5 DEF FeedInv, Says, LastSays
    <2> QED
      BY <1>2, <2>2, <2>3, ConcatSays
  <1> QED
    BY <1>4, <1>5

\* A fresh subscription agrees with the registry.
LEMMA FreshSays ==
    ASSUME snapshot' = Snapshot(Connected), updates' = <<>>, UNCHANGED entry
    PROVE  FeedInv'
  BY DEF FeedInv, Says, Silent, Base, Snapshot, Connected

LEMMA FeedKept == RegistryInv /\ FeedInv /\ [Next]_vars => FeedInv'
  <1> SUFFICES ASSUME RegistryInv, FeedInv, [Next]_vars PROVE FeedInv'
    OBVIOUS
  <1>0. entry \in [Hosts -> Nat \cup {NoEntry}] /\ next \in Nat /\ next # NoEntry
    BY DEF RegistryInv, TypeOK, NoEntry
  <1>1. CASE \E h \in Hosts : Register(h)
    <2> PICK h \in Hosts : Register(h)
      BY <1>1
    <2>1. Connected' = Connected \cup {h}
      BY <1>0 DEF Register, Connected
    <2> QED
      BY <2>1, BroadcastSays DEF Register
  <1>2. CASE \E h \in Hosts : Deregister(h)
    <2> PICK h \in Hosts : Deregister(h)
      BY <1>2
    <2>1. Connected' = Connected \ {h}
      BY <1>0 DEF Deregister, Connected
    <2> QED
      BY <2>1, BroadcastSays DEF Deregister
  <1>3. CASE \E s \in streams : StreamDropped(s)
    <2> PICK s \in streams : StreamDropped(s)
      BY <1>3
    <2>1. s.host \in Hosts
      BY DEF RegistryInv, TypeOK, Streams
    <2>2. CASE IsRegistered(s)
      <3>1. Connected' = Connected \ {s.host}
        BY <1>0, <2>1, <2>2 DEF StreamDropped, Connected
      <3> QED
        BY <2>1, <2>2, <3>1, BroadcastSays DEF StreamDropped
    <2>3. CASE ~IsRegistered(s)
      BY <2>3 DEF StreamDropped, FeedInv, Base, Connected
    <2> QED
      BY <2>2, <2>3
  <1>4. CASE DisconnectAll
    BY <1>4, DrainSays
  <1>5. CASE Watch \/ Resync
    BY <1>5, FreshSays DEF Watch, Resync, registryVars
  <1>6. CASE SendSnapshot
    <2>1. Base' = Base /\ UNCHANGED <<entry, updates>>
      BY <1>6 DEF SendSnapshot, Base, NoSnapshot, registryVars
    <2> QED
      BY <2>1 DEF FeedInv, Connected
  <1>7. CASE SendChange
    <2>1. Base' = Apply(Base, Head(updates)) /\ updates' = Tail(updates) /\ entry' = entry
      BY <1>7 DEF SendChange, Base, registryVars
    <2>2. updates \in Seq(Events) /\ updates # <<>>
      BY <1>7 DEF SendChange, RegistryInv, TypeOK
    <2> QED
      BY <2>1, <2>2, TailSays DEF FeedInv, Connected
  <1>8. CASE UNCHANGED <<entry, feedVars>>
    BY <1>8 DEF FeedInv, Base, Connected, feedVars
  <1> QED
    BY <1>1, <1>2, <1>3, <1>4, <1>5, <1>6, <1>7, <1>8
    DEF Next, HostNext, StreamNext, FeedNext, Settle, Report, StreamForgets,
        vars, registryVars

(***************************************************************************)
(* A browser that has received everything shows what the registry holds,   *)
(* whatever the capacity of the broadcast channel, however often it lagged *)
(* behind and whenever it subscribed.                                      *)
(***************************************************************************)
THEOREM FeedIsFaithful == Spec => []FeedAgrees
  <1>1. Init => FeedInv
    BY DEF Init, FeedInv, Says, Silent, Base, Snapshot, Connected
  <1>2. RegistryInv /\ FeedInv => FeedAgrees
    <2> SUFFICES ASSUME RegistryInv, FeedInv, ~snapshot.pending, updates = <<>>
                 PROVE  view = Connected
      BY DEF FeedAgrees
    <2>1. \A h \in Hosts : h \in view <=> h \in Connected
      BY DEF FeedInv, Says, LastSays, Base
    <2>2. view \subseteq Hosts /\ Connected \subseteq Hosts
      BY DEF RegistryInv, TypeOK, Connected
    <2> QED
      BY <2>1, <2>2
  <1> QED
    BY <1>1, <1>2, FeedKept, RegistryInvariant, PTL DEF Spec

=============================================================================

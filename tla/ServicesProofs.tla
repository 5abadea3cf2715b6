--------------------------- MODULE ServicesProofs ---------------------------
(***************************************************************************)
(* What the script proxy, the server process and network boot guarantee    *)
(* for any number of clients, callers, connections and machines, and for   *)
(* any request heads, lookups and public URLs; the mounting of a restored  *)
(* system, for any disk and any fstab; and the packer, for any image files *)
(* and commands.                                                           *)
(***************************************************************************)
EXTENDS MCServices, FiniteSetTheorems, SequenceTheorems, WellFoundedInduction, TLAPS

-----------------------------------------------------------------------------
(***************************************************************************)
(* The proxy.  Its sessions touch only what is theirs, so the invariant is *)
(* one statement about each session (Session) and the count of the slots.  *)
(***************************************************************************)
Stages == {"none", "head", "resolve", "connect", "tunnel", "forward", "closing", "closed"}
Live(stage) == stage \notin {"none", "closed"}

ProxyType ==
    /\ slots \in Nat
    /\ pc \in [Clients -> Stages]
    /\ DOMAIN req = Clients /\ DOMAIN tries = Clients
    /\ upstream \in [Clients -> P!Addresses \cup {P!NoAddress}]
    /\ status \in [Clients -> Nat]
    /\ answers \in [Clients -> Seq(Nat)]
    /\ down \in [Clients -> BOOLEAN]

\* a request that was admitted
Admitted(r) == P!allows_port(r.kind, r.port) /\ r.body = r.reads

Session(c) ==
    /\ pc[c] \in {"resolve", "connect", "tunnel", "forward"} => Admitted(req[c])
    /\ \A a \in tries[c] : a \in P!Addresses /\ P!allows_address(a)
    /\ upstream[c] # P!NoAddress => upstream[c].class = "public" /\ Admitted(req[c])
    /\ pc[c] \in {"none", "head", "resolve", "connect"} => answers[c] = <<>> /\ ~down[c]
    /\ pc[c] = "forward" => Len(answers[c]) = IF down[c] THEN 1 ELSE 0
    /\ Len(answers[c]) <= 1

ProxyInv == /\ ProxyType /\ P!SlotsAreCounted
            /\ \A c \in Clients : Session(c)

Same(c) == /\ pc'[c] = pc[c] /\ req'[c] = req[c] /\ tries'[c] = tries[c]
           /\ upstream'[c] = upstream[c] /\ answers'[c] = answers[c] /\ down'[c] = down[c]

Sessions == {c \in Clients : pc[c] \notin {"none", "closed"}}

LEMMA SameKeeps ==
    ASSUME NEW c \in Clients, Session(c), Same(c)
    PROVE  Session(c)'
  BY DEF Session, Same, Admitted

\* An address that passes the filter leads to a public machine.
LEMMA AllowedIsPublic ==
    ASSUME NEW a \in P!Addresses, P!allows_address(a)
    PROVE  a.class = "public"
  BY DEF P!Addresses, P!allows_address, P!is_public, P!canonical, P!own_addresses,
         P!Embedding, P!Classes

\* The lines that frame the body are passed on, unless the head is refused.
LEMMA FramingKept ==
    ASSUME NEW headers, ~P!ListsFraming(headers)
    PROVE  P!body_framing(headers, DOMAIN headers)
             = P!body_framing(headers, P!rewrite_head(headers))
  <1>1. \A name \in {"content-length", "transfer-encoding"} :
           P!Named(headers, DOMAIN headers, name)
             = P!Named(headers, P!rewrite_head(headers), name)
    BY DEF P!Named, P!rewrite_head, P!ListsFraming
  <1>2. P!header_values(headers, DOMAIN headers, "content-length")
          = P!header_values(headers, P!rewrite_head(headers), "content-length")
    BY <1>1 DEF P!header_values
  <1>3. P!Named(headers, DOMAIN headers, "transfer-encoding")
          = P!Named(headers, P!rewrite_head(headers), "transfer-encoding")
    BY <1>1
  <1>4. P!FinalEncoding(headers, DOMAIN headers)
          = P!FinalEncoding(headers, P!rewrite_head(headers))
    BY <1>3 DEF P!FinalEncoding
  <1> QED
    BY <1>2, <1>4 DEF P!body_framing

LEMMA ParsedIsFramed ==
    ASSUME NEW head, P!parse(head) # P!NoRequest
    PROVE  P!parse(head).body = P!parse(head).reads
  <1>1. CASE head.method = "CONNECT"
    BY <1>1 DEF P!parse
  <1>2. CASE head.method # "CONNECT"
    BY <1>2, FramingKept DEF P!parse
  <1> QED
    BY <1>1, <1>2

\* Counting means the same inside the instance.
LEMMA SameCardinality == ASSUME NEW X PROVE P!Cardinality(X) = Cardinality(X)
  BY DEF P!Cardinality, Cardinality

LEMMA SlotsKept ==
    ASSUME ProxyInv, NEW c \in Clients, pc' \in [Clients -> Stages],
           \A d \in Clients \ {c} : pc'[d] = pc[d],
           \/ Live(pc[c]) /\ Live(pc'[c]) /\ slots' = slots
           \/ pc[c] = "none" /\ pc'[c] = "closed" /\ slots' = slots
           \/ pc[c] = "none" /\ Live(pc'[c]) /\ slots' = slots - 1
           \/ Live(pc[c]) /\ pc'[c] = "closed" /\ slots' = slots + 1
    PROVE  P!SlotsAreCounted'
  <1>1. IsFiniteSet(Sessions) /\ Cardinality(Sessions) \in Nat
    <2>1. Sessions \subseteq Clients
      BY DEF Sessions
    <2> QED
      BY <2>1, ServicesAssumption, FS_Subset, FS_CardinalityType
  <1>2. slots + Cardinality(Sessions) = MaxConnections /\ slots \in Nat
    BY SameCardinality DEF ProxyInv, P!SlotsAreCounted, Sessions, ProxyType
  <1>3. slots' + Cardinality(Sessions') = slots + Cardinality(Sessions)
    <2>1. CASE Live(pc[c]) <=> Live(pc'[c])
      <3>1. Sessions' = Sessions
        BY <2>1 DEF Sessions, Live
      <3>2. slots' = slots
        BY <2>1 DEF Live
      <3> QED
        BY <3>1, <3>2
    <2>2. CASE ~Live(pc[c]) /\ Live(pc'[c])
      <3>1. Sessions' = Sessions \cup {c} /\ c \notin Sessions
        BY <2>2 DEF Sessions, Live
      <3>2. Cardinality(Sessions') = Cardinality(Sessions) + 1
        BY <1>1, <3>1, FS_AddElement
      <3>3. slots' = slots - 1
        BY <2>2 DEF Live
      <3> QED
        BY <1>1, <1>2, <3>2, <3>3
    <2>3. CASE Live(pc[c]) /\ ~Live(pc'[c])
      <3>1. Sessions' = Sessions \ {c} /\ c \in Sessions
        BY <2>3 DEF Sessions, Live
      <3>2. Cardinality(Sessions') = Cardinality(Sessions) - 1
        BY <1>1, <3>1, FS_RemoveElement
      <3>3. slots' = slots + 1
        BY <2>3 DEF Live
      <3> QED
        BY <1>1, <1>2, <3>2, <3>3
    <2> QED
      BY <2>1, <2>2, <2>3
  <1> QED
    BY <1>2, <1>3, SameCardinality DEF P!SlotsAreCounted, Sessions

\* What a step has to show: it keeps types and count, touches one session only.
LEMMA ProxyStep ==
    ASSUME ProxyInv, NEW c \in Clients, ProxyType', P!SlotsAreCounted', Session(c)',
           \A d \in Clients \ {c} : Same(d)
    PROVE  ProxyInv'
  <1>1. \A d \in Clients \ {c} : Session(d)'
    BY SameKeeps DEF ProxyInv
  <1> QED
    BY <1>1 DEF ProxyInv

\* A response head is sent to one client.
LEMMA AnswersAppends ==
    ASSUME ProxyInv, NEW c \in Clients, NEW n \in Nat, P!Answers(c, n)
    PROVE  /\ answers' \in [Clients -> Seq(Nat)]
           /\ Len(answers'[c]) = Len(answers[c]) + 1
           /\ \A d \in Clients \ {c} : answers'[d] = answers[d]
  <1>1. answers \in [Clients -> Seq(Nat)]
    BY DEF ProxyInv, ProxyType
  <1>2. Append(answers[c], n) \in Seq(Nat) /\ Len(Append(answers[c], n)) = Len(answers[c]) + 1
    BY <1>1
  <1> QED
    BY <1>1, <1>2 DEF P!Answers

\* A session returns.
LEMMA OverKeeps ==
    ASSUME ProxyInv, NEW c \in Clients, Live(pc[c]), P!Over(c), UNCHANGED answers
    PROVE  ProxyInv'
  <1>1. /\ pc' \in [Clients -> Stages] /\ pc'[c] = "closed" /\ slots' = slots + 1
        /\ upstream'[c] = P!NoAddress /\ tries'[c] = {}
        /\ \A d \in Clients \ {c} : Same(d)
    BY DEF P!Over, P!Goes, ProxyInv, ProxyType, Stages, Same
  <1>2. ProxyType'
    BY DEF P!Over, P!Goes, ProxyInv, ProxyType, Stages
  <1>3. P!SlotsAreCounted'
    BY <1>1, SlotsKept DEF Same
  <1>4. Session(c)'
    BY <1>1 DEF Session, ProxyInv
  <1> QED
    BY <1>1, <1>2, <1>3, <1>4, ProxyStep

\* A session answers for itself: its client has not been answered yet.
LEMMA RejectKeeps ==
    ASSUME ProxyInv, NEW c \in Clients, NEW s \in Nat, Live(pc[c]), answers[c] = <<>>,
           P!Reject(c, s)
    PROVE  ProxyInv'
  <1>1. CASE P!Over(c) /\ UNCHANGED answers
    BY <1>1, OverKeeps
  <1>2. CASE P!Answers(c, s) /\ P!Goes(c, "closing") /\ UNCHANGED <<slots, P!Holds>>
    <2>1. /\ pc' \in [Clients -> Stages] /\ pc'[c] = "closing" /\ UNCHANGED <<slots, P!Holds>>
          /\ answers' \in [Clients -> Seq(Nat)] /\ Len(answers'[c]) = 1
          /\ \A d \in Clients \ {c} : Same(d)
      BY <1>2 DEF P!Answers, P!Goes, P!Holds, ProxyInv, ProxyType, Stages, Same
    <2>2. ProxyType'
      BY <2>1 DEF P!Holds, ProxyInv, ProxyType
    <2>3. P!SlotsAreCounted'
      BY <2>1, SlotsKept DEF Same, Live
    <2>4. Session(c)'
      BY <2>1 DEF Session, ProxyInv, P!Holds, Admitted
    <2> QED
      BY <2>1, <2>2, <2>3, <2>4, ProxyStep
  <1> QED
    BY <1>1, <1>2 DEF P!Reject

\* A live session moves on without touching slots or other sessions.
LEMMA OnwardKeeps ==
    ASSUME ProxyInv, NEW c \in Clients, Live(pc[c]), ProxyType', UNCHANGED slots, Live(pc'[c]),
           \A d \in Clients \ {c} : Same(d), Session(c)'
    PROVE  ProxyInv'
  <1>1. P!SlotsAreCounted'
    BY SlotsKept DEF ProxyType, Same
  <1> QED
    BY <1>1, ProxyStep

LEMMA AcceptKeeps ==
    ASSUME ProxyInv, NEW c \in Clients, P!Accept(c)
    PROVE  ProxyInv'
  <1>1. \A d \in Clients \ {c} : Same(d)
    BY DEF P!Accept, P!Answers, P!Goes, P!Holds, ProxyInv, ProxyType, Same
  <1>2. CASE slots > 0
    <2>1. pc'[c] = "head" /\ slots' = slots - 1 /\ UNCHANGED <<answers, P!Holds>>
      BY <1>2 DEF P!Accept, P!Goes, ProxyInv, ProxyType
    <2>2. ProxyType'
      <3>1. slots' \in Nat
        BY <1>2, <2>1 DEF ProxyInv, ProxyType
      <3>2. pc' \in [Clients -> Stages]
        BY <1>2 DEF P!Accept, P!Goes, ProxyInv, ProxyType, Stages
      <3> QED
        BY <2>1, <3>1, <3>2 DEF P!Holds, ProxyInv, ProxyType
    <2>3. P!SlotsAreCounted'
      BY <1>1, <2>1, <2>2, SlotsKept DEF P!Accept, ProxyType, Same, Live
    <2>4. Session(c)'
      BY <2>1 DEF P!Accept, P!Holds, ProxyInv, Session, Admitted
    <2> QED
      BY <1>1, <2>2, <2>3, <2>4, ProxyStep
  <1>3. CASE ~(slots > 0)
    <2>1. /\ pc'[c] = "closed" /\ UNCHANGED <<slots, P!Holds>> /\ pc[c] = "none"
          /\ answers'[c] = Append(answers[c], 503)
      BY <1>3 DEF P!Accept, P!Goes, P!Answers, ProxyInv, ProxyType
    <2>2. ProxyType'
      <3>1. answers' \in [Clients -> Seq(Nat)]
        BY <1>3, AnswersAppends DEF P!Accept
      <3>2. pc' \in [Clients -> Stages]
        BY <1>3 DEF P!Accept, P!Goes, ProxyInv, ProxyType, Stages
      <3> QED
        BY <2>1, <3>1, <3>2 DEF P!Holds, ProxyInv, ProxyType
    <2>3. P!SlotsAreCounted'
      <3>1. pc' \in [Clients -> Stages] /\ \A d \in Clients \ {c} : pc'[d] = pc[d]
        BY <1>1, <2>2 DEF ProxyType, Same
      <3>2. slots' = slots
        BY <2>1
      <3> QED
        BY <2>1, <3>1, <3>2, SlotsKept
    <2>4. Session(c)'
      <3>1. Len(answers'[c]) = 1
        BY <1>3, <2>1, AnswersAppends DEF P!Accept, ProxyInv, Session
      <3> QED
        BY <2>1, <3>1 DEF P!Holds, ProxyInv, Session, Admitted
    <2> QED
      BY <1>1, <2>2, <2>3, <2>4, ProxyStep
  <1> QED
    BY <1>2, <1>3

LEMMA HeadKeeps ==
    ASSUME ProxyInv, NEW c \in Clients, P!HeadRead(c) \/ P!HeadFails(c)
    PROVE  ProxyInv'
  <1>0. pc[c] = "head" /\ Live(pc[c]) /\ answers[c] = <<>>
    BY DEF P!HeadRead, P!HeadFails, Live, ProxyInv, Session
  <1>1. CASE P!HeadFails(c)
    BY <1>0, <1>1, RejectKeeps, OverKeeps DEF P!HeadFails
  <1>2. CASE P!HeadRead(c)
    <2>1. PICK head \in Heads :
             LET request == P!parse(head) IN
             IF request = P!NoRequest THEN P!Reject(c, 400)
             ELSE IF ~P!allows_port(request.kind, request.port) THEN P!Reject(c, 403)
             ELSE /\ req' = [req EXCEPT ![c] = request]
                  /\ P!Goes(c, "resolve")
                  /\ UNCHANGED <<slots, answers, tries, status, upstream, down, active,
                                 uploaded, moves>>
      BY <1>2 DEF P!HeadRead
    <2>2. CASE P!Reject(c, 400) \/ P!Reject(c, 403)
      BY <1>0, <2>2, RejectKeeps
    <2>3. CASE ~(P!Reject(c, 400) \/ P!Reject(c, 403))
      <3>1. /\ P!parse(head) # P!NoRequest /\ req' = [req EXCEPT ![c] = P!parse(head)]
            /\ P!allows_port(P!parse(head).kind, P!parse(head).port)
            /\ P!Goes(c, "resolve") /\ UNCHANGED <<slots, answers, tries, status, upstream, down>>
        BY <2>1, <2>3
      <3>2. Admitted(req'[c])
        BY <3>1, ParsedIsFramed DEF Admitted, ProxyInv, ProxyType
      <3>3. ProxyType' /\ pc'[c] = "resolve"
        BY <3>1 DEF P!Goes, ProxyInv, ProxyType, Stages
      <3>5. \A d \in Clients \ {c} : Same(d)
        BY <3>1 DEF P!Goes, ProxyInv, ProxyType, Same
      <3>4. Session(c)'
        BY <1>0, <3>1, <3>2, <3>3 DEF ProxyInv, Session
      <3> QED
        BY <1>0, <3>1, <3>3, <3>4, <3>5, OnwardKeeps DEF Live
    <2> QED
      BY <2>2, <2>3
  <1> QED
    BY <1>1, <1>2

LEMMA ConnectKeeps ==
    ASSUME ProxyInv, NEW c \in Clients,
           \/ P!ResolveFails(c) \/ P!Resolve(c)
           \/ P!ConnectFails(c) \/ P!ConnectGivesUp(c)
    PROVE  ProxyInv'
  <1>0. pc[c] \in {"resolve", "connect"} /\ Live(pc[c]) /\ answers[c] = <<>>
    BY DEF P!ResolveFails, P!Resolve, P!ConnectFails, P!ConnectGivesUp, Live, ProxyInv, Session
  <1>1. CASE \E s \in Nat : P!Reject(c, s)
    BY <1>0, <1>1, RejectKeeps
  <1>2. CASE P!ResolveFails(c)
    BY <1>1, <1>2 DEF P!ResolveFails
  <1>3. CASE P!Resolve(c) /\ ~ \E s \in Nat : P!Reject(c, s)
    <2>1. PICK found \in Lookups :
             /\ tries' = [tries EXCEPT ![c] = {a \in found : P!allows_address(a)}]
             /\ P!Goes(c, "connect")
             /\ UNCHANGED <<slots, answers, req, status, upstream, down, active, uploaded, moves>>
      BY <1>3 DEF P!Resolve
    <2>2. \A a \in tries'[c] : a \in P!Addresses /\ P!allows_address(a)
      BY <2>1, ServicesAssumption DEF ProxyInv, ProxyType
    <2>3. ProxyType' /\ pc'[c] = "connect" /\ \A d \in Clients \ {c} : Same(d)
      BY <2>1 DEF P!Goes, ProxyInv, ProxyType, Stages, Same
    <2>4. Session(c)'
      BY <1>0, <1>3, <2>1, <2>2, <2>3 DEF P!Resolve, ProxyInv, Session
    <2> QED
      BY <1>0, <2>1, <2>3, <2>4, OnwardKeeps DEF Live
  <1>4. CASE P!ConnectFails(c)
    <2>1. PICK a \in tries[c] : tries' = [tries EXCEPT ![c] = @ \ {a}]
      BY <1>4 DEF P!ConnectFails
    <2>2. tries'[c] \subseteq tries[c] /\ UNCHANGED <<slots, pc, req, upstream, answers, down>>
      BY <1>4, <2>1 DEF P!ConnectFails, ProxyInv, ProxyType
    <2>3. ProxyType' /\ \A d \in Clients \ {c} : Same(d)
      BY <1>4, <2>1, <2>2 DEF P!ConnectFails, ProxyInv, ProxyType, Same
    <2>4. Session(c)'
      BY <2>2 DEF ProxyInv, Session, Admitted
    <2> QED
      BY <1>0, <2>2, <2>3, <2>4, OnwardKeeps
  <1>5. CASE P!ConnectGivesUp(c)
    BY <1>1, <1>5 DEF P!ConnectGivesUp, ProxyInv, ProxyType
  <1> QED
    BY <1>1, <1>2, <1>3, <1>4, <1>5

LEMMA ConnectedKeeps ==
    ASSUME ProxyInv, NEW c \in Clients, P!Connected(c)
    PROVE  ProxyInv'
  <1>1. PICK a \in tries[c] : upstream' = [upstream EXCEPT ![c] = a]
    BY DEF P!Connected
  <1>2. /\ a \in P!Addresses /\ a.class = "public" /\ Admitted(req[c])
        /\ answers[c] = <<>> /\ ~down[c] /\ pc[c] = "connect"
    BY AllowedIsPublic DEF P!Connected, ProxyInv, Session
  <1>3. /\ UNCHANGED <<slots, req, status, down>> /\ tries'[c] = {} /\ upstream'[c] = a
        /\ \A d \in Clients \ {c} : Same(d)
    BY <1>1 DEF P!Connected, P!Answers, P!Goes, ProxyInv, ProxyType, Same
  <1>4. DOMAIN tries' = Clients /\ upstream' \in [Clients -> P!Addresses \cup {P!NoAddress}]
    BY <1>1, <1>2 DEF P!Connected, ProxyInv, ProxyType
  <1>5. CASE req[c].kind = "connect"
    <2>1. /\ pc' \in [Clients -> Stages] /\ pc'[c] = "tunnel"
          /\ answers' \in [Clients -> Seq(Nat)] /\ Len(answers'[c]) = 1
      <3>1. P!Goes(c, "tunnel") /\ P!Answers(c, 200)
        BY <1>5 DEF P!Connected
      <3>2. answers' \in [Clients -> Seq(Nat)] /\ Len(answers'[c]) = Len(answers[c]) + 1
        BY <3>1, AnswersAppends, 200 \in Nat
      <3>3. Len(answers[c]) = 0
        BY <1>2
      <3>4. pc' \in [Clients -> Stages] /\ pc'[c] = "tunnel"
        BY <3>1 DEF P!Goes, ProxyInv, ProxyType, Stages
      <3> QED
        BY <3>2, <3>3, <3>4
    <2>2. ProxyType'
      BY <1>3, <1>4, <2>1 DEF ProxyInv, ProxyType
    <2>3. Session(c)'
      BY <1>2, <1>3, <2>1 DEF ProxyInv, Session, Admitted
    <2> QED
      BY <1>2, <1>3, <2>1, <2>2, <2>3, OnwardKeeps DEF Live
  <1>6. CASE req[c].kind # "connect"
    <2>1. pc' \in [Clients -> Stages] /\ pc'[c] = "forward" /\ UNCHANGED answers
      BY <1>6 DEF P!Connected, P!Goes, ProxyInv, ProxyType, Stages
    <2>2. ProxyType'
      BY <1>3, <1>4, <2>1 DEF ProxyInv, ProxyType
    <2>3. Session(c)'
      BY <1>2, <1>3, <2>1 DEF ProxyInv, Session, Admitted
    <2> QED
      BY <1>2, <1>3, <2>1, <2>2, <2>3, OnwardKeeps DEF Live
  <1> QED
    BY <1>5, <1>6

LEMMA MovesKeeps ==
    ASSUME ProxyInv, NEW c \in Clients, P!Moves(c) \/ P!Uploaded(c)
    PROVE  ProxyInv'
  <1>0. pc[c] \in {"tunnel", "forward"} /\ Live(pc[c]) /\ pc[c] \notin {"none", "head", "resolve", "connect"}
    BY DEF P!Moves, P!Uploaded, Live
  <1>1. UNCHANGED <<slots, pc, req, tries, status, upstream>>
    BY DEF P!Moves, P!Uploaded
  <1>2. CASE UNCHANGED <<down, answers>>
    <2>1. ProxyType' /\ Session(c)' /\ \A d \in Clients \ {c} : Same(d)
      BY <1>1, <1>2 DEF ProxyInv, ProxyType, Session, Admitted, Same
    <2> QED
      BY <1>0, <1>1, <2>1, OnwardKeeps
  <1>3. CASE down' = [down EXCEPT ![c] = TRUE] /\ UNCHANGED answers /\ (pc[c] = "forward" => down[c])
    <2>1. ProxyType' /\ down'[c] /\ \A d \in Clients \ {c} : Same(d)
      BY <1>1, <1>3 DEF ProxyInv, ProxyType, Same
    <2>2. Session(c)'
      BY <1>0, <1>1, <1>3, <2>1 DEF ProxyInv, Session, Admitted
    <2> QED
      BY <1>0, <1>1, <2>1, <2>2, OnwardKeeps
  <1>4. CASE down' = [down EXCEPT ![c] = TRUE] /\ P!Answers(c, P!Theirs) /\ pc[c] = "forward" /\ ~down[c]
    <2>1. Len(answers[c]) = 0
      BY <1>4 DEF ProxyInv, Session
    <2>2. answers' \in [Clients -> Seq(Nat)] /\ Len(answers'[c]) = 1
      <3>1. P!Theirs \in Nat
        BY DEF P!Theirs
      <3>2. answers' \in [Clients -> Seq(Nat)] /\ Len(answers'[c]) = Len(answers[c]) + 1
        BY <1>4, <3>1, AnswersAppends
      <3> QED
        BY <2>1, <3>2
    <2>3. ProxyType' /\ down'[c] /\ \A d \in Clients \ {c} : Same(d)
      BY <1>1, <1>4, <2>2 DEF P!Answers, ProxyInv, ProxyType, Same
    <2>4. Session(c)'
      BY <1>0, <1>1, <2>2, <2>3 DEF ProxyInv, Session, Admitted
    <2> QED
      BY <1>0, <1>1, <2>3, <2>4, OnwardKeeps
  <1> QED
    BY <1>2, <1>3, <1>4 DEF P!Moves, P!Uploaded

\* A forwarded request ends: the proxy speaks for itself only if the server
\* has not.
LEMMA ForwardEndsKeeps ==
    ASSUME ProxyInv, NEW c \in Clients, NEW result, pc[c] = "forward", P!ForwardEnds(c, result)
    PROVE  ProxyInv'
  <1>0. Live(pc[c])
    BY DEF Live
  <1>1. CASE ~down[c]
    <2>1. Len(answers[c]) = 0 /\ answers[c] \in Seq(Nat)
      BY <1>1 DEF ProxyInv, ProxyType, Session
    <2>2. answers[c] = <<>>
      BY <2>1
    <2>3. P!Reject(c, 504) \/ P!Reject(c, 502)
      BY <1>1 DEF P!ForwardEnds
    <2> QED
      BY <1>0, <2>2, <2>3, RejectKeeps
  <1>2. CASE P!Goes(c, "closing") /\ UNCHANGED <<slots, answers, P!Holds>>
    <2>1. ProxyType' /\ pc'[c] = "closing" /\ \A d \in Clients \ {c} : Same(d)
      BY <1>2 DEF P!Goes, P!Holds, ProxyInv, ProxyType, Stages, Same
    <2>2. Session(c)'
      BY <1>2, <2>1 DEF P!Holds, ProxyInv, Session, Admitted
    <2> QED
      BY <1>0, <1>2, <2>1, <2>2, OnwardKeeps DEF Live
  <1>3. CASE P!Over(c) /\ UNCHANGED answers
    BY <1>0, <1>3, OverKeeps
  <1> QED
    BY <1>1, <1>2, <1>3 DEF P!ForwardEnds

LEMMA EndsKeep ==
    ASSUME ProxyInv, NEW c \in Clients,
           P!TunnelEnds(c) \/ P!ForwardDone(c) \/ P!IdleLooks(c) \/ P!Close(c)
    PROVE  ProxyInv'
  <1>0. pc[c] \in {"tunnel", "forward", "closing"} /\ Live(pc[c])
    BY DEF P!TunnelEnds, P!ForwardDone, P!IdleLooks, P!Close, Live
  <1>1. CASE P!Over(c) /\ UNCHANGED answers
    BY <1>0, <1>1, OverKeeps
  <1>2. CASE \E result : pc[c] = "forward" /\ P!ForwardEnds(c, result)
    BY <1>2, ForwardEndsKeeps
  <1>3. CASE UNCHANGED <<slots, pc, req, tries, status, upstream, answers, down>>
    BY <1>0, <1>3, SameCardinality
       DEF ProxyInv, ProxyType, Session, Admitted, P!SlotsAreCounted
  <1> QED
    BY <1>0, <1>1, <1>2, <1>3 DEF P!TunnelEnds, P!ForwardDone, P!IdleLooks, P!Idles, P!Close

LEMMA ProxyStarts == P!Init => ProxyInv
  <1> SUFFICES ASSUME P!Init PROVE ProxyInv
    OBVIOUS
  <1>1. ProxyType
    BY ServicesAssumption DEF P!Init, ProxyType, Stages
  <1>2. P!SlotsAreCounted
    <2>1. {c \in Clients : pc[c] \notin {"none", "closed"}} = {}
      BY DEF P!Init
    <2>2. Cardinality({}) = 0
      BY FS_EmptySet
    <2>3. slots + 0 = MaxConnections
      BY ServicesAssumption DEF P!Init
    <2> QED
      BY <2>1, <2>2, <2>3, SameCardinality DEF P!SlotsAreCounted
  <1>3. \A c \in Clients : Session(c)
    BY DEF P!Init, Session, P!NoAddress
  <1> QED
    BY <1>1, <1>2, <1>3 DEF ProxyInv

LEMMA ProxyKeeps == ProxyInv /\ P!Next => ProxyInv'
  <1> SUFFICES ASSUME ProxyInv, NEW c \in Clients, P!Step(c) PROVE ProxyInv'
    BY DEF P!Next
  <1> QED
    BY AcceptKeeps, HeadKeeps, ConnectKeeps, ConnectedKeeps, MovesKeeps, EndsKeep DEF P!Step

LEMMA ProxyIsSafe == ProxyInv => P!OnlyAllowed /\ P!FramingAgrees /\ P!OneAnswer /\ P!SlotsAreCounted
  BY DEF ProxyInv, Session, Admitted, P!OnlyAllowed, P!FramingAgrees, P!OneAnswer

(***************************************************************************)
(* THEOREM.  Whatever clients send and names resolve to, the script proxy  *)
(* (relay.rs, request.rs) connects only to public machines, passes on a    *)
(* body that ends where its head says, answers once and counts its slots.  *)
(***************************************************************************)
THEOREM ProxyStaysStrict == Spec => []ProxyIsStrict
<1> DEFINE Inv == part = "proxy" => ProxyInv
<1>1. Init => Inv
  BY ProxyStarts DEF Init
<1>2. Inv /\ [Next]_vars => Inv'
  <2> SUFFICES ASSUME Inv, [Next]_vars, part' = "proxy" PROVE ProxyInv'
    OBVIOUS
  <2>1. CASE Next
    BY <2>1, ProxyKeeps DEF Next
  <2>2. CASE UNCHANGED vars
    BY <2>2, SameCardinality
       DEF vars, proxyVars, ProxyInv, ProxyType, Session, Admitted, P!SlotsAreCounted
  <2> QED
    BY <2>1, <2>2
<1>3. Inv => ProxyIsStrict
  BY ProxyIsSafe DEF ProxyIsStrict
<1> QED
  BY <1>1, <1>2, <1>3, PTL DEF Spec

-----------------------------------------------------------------------------
(***************************************************************************)
(* The server process.  The claim belongs to the one caller whose Server   *)
(* is not idle; what was accepted for an earlier Server is cut off, and so *)
(* is everything while no Server accepts connections.                      *)
(***************************************************************************)
Phases == {"idle", "binding", "serving", "draining", "cutting"}
ConnState == [of : Nat, on : S!Http \cup {"none"}, cut : BOOLEAN]

ServerType ==
    /\ phase \in [Callers -> Phases] /\ DOMAIN running = Callers
    /\ serves \in Nat /\ conn \in [Conns -> ConnState]

\* A server that is not idle is the one with the claim, and only it listens, on
\* addresses that no listener of an earlier one still has.
Claimed == \A k \in Callers : /\ phase[k] # "idle" => claim = k
                              /\ phase[k] = "idle" => running[k] = {}
                              /\ running[k] \cap aborted = {}

Accepting == \E k \in Callers : phase[k] \in {"serving", "draining", "cutting"}
GoneIsCut == \A c \in Conns : S!Open(c) /\ ~(conn[c].of = serves /\ Accepting) => conn[c].cut

ServerInv == ServerType /\ Claimed /\ GoneIsCut /\ S!NoForeignWrites

LEMMA ServerStarts == S!Init => ServerInv
  <1> SUFFICES ASSUME S!Init PROVE ServerInv
    OBVIOUS
  <1>1. PICK n : n = S!NoConn
    OBVIOUS
  <1>2. n \in ConnState
    BY <1>1 DEF S!NoConn, S!None, ConnState
  <1>3. conn = [c \in Conns |-> n] /\ \A c \in Conns : ~S!Open(c)
    BY <1>1 DEF S!Init, S!Open
  <1>4. ServerType
    BY <1>2, <1>3 DEF S!Init, ServerType, Phases
  <1>5. Claimed /\ S!NoForeignWrites
    BY DEF S!Init, Claimed, S!NoForeignWrites, S!None
  <1> QED
    BY <1>3, <1>4, <1>5 DEF ServerInv, GoneIsCut

\* Steps of serve: the claim is taken, listeners are bound, given up or spawned.
LEMMA ServeKeeps ==
    ASSUME ServerInv, NEW k \in Callers,
           S!ServeBegins(k) \/ S!Bind(k) \/ S!BindFails(k) \/ S!Spawn(k)
    PROVE  ServerInv'
  <1>0. UNCHANGED <<conn, written, aborted>>
    BY DEF S!ServeBegins, S!Bind, S!BindFails, S!Spawn
  <1>1. CASE S!ServeBegins(k)
    <2>1. ServerType' /\ \A j \in Callers \ {k} : phase'[j] = phase[j]
      BY <1>0, <1>1 DEF S!ServeBegins, ServerInv, ServerType, Phases
    <2>2. phase[k] = "idle" /\ phase'[k] = "binding" /\ UNCHANGED running /\ claim' = k
      BY <1>1 DEF S!ServeBegins, ServerInv, ServerType
    <2>3. \A j \in Callers : phase[j] = "idle"
      BY <1>1, ServicesAssumption DEF S!ServeBegins, S!MayServe, S!None, ServerInv, Claimed
    <2>4. Claimed'
      BY <1>0, <2>1, <2>2, <2>3 DEF ServerInv, Claimed
    <2>5. \A c \in Conns : S!Open(c) => conn[c].cut
      BY <2>3 DEF ServerInv, GoneIsCut, Accepting
    <2> QED
      BY <1>0, <2>1, <2>4, <2>5 DEF ServerInv, GoneIsCut, S!Open, S!NoConn, S!NoForeignWrites
  <1>2. CASE S!Bind(k)
    <2>1. ServerType' /\ UNCHANGED <<phase, claim, serves>> /\ phase[k] = "binding"
          /\ \A j \in Callers \ {k} : running'[j] = running[j]
      BY <1>0, <1>2 DEF S!Bind, ServerInv, ServerType
    <2>2. running'[k] \cap aborted = {}
      BY <1>2 DEF S!Bind, ServerInv, ServerType, Claimed
    <2>3. Claimed'
      BY <1>0, <2>1, <2>2 DEF ServerInv, Claimed
    <2> QED
      BY <1>0, <2>1, <2>3 DEF ServerInv, GoneIsCut, Accepting, S!Open, S!NoConn, S!NoForeignWrites
  <1>3. CASE S!BindFails(k)
    <2>1. ServerType' /\ phase'[k] = "idle" /\ running'[k] = {} /\ phase[k] = "binding" /\ UNCHANGED serves
          /\ \A j \in Callers \ {k} : phase'[j] = phase[j] /\ running'[j] = running[j]
      BY <1>0, <1>3 DEF S!BindFails, ServerInv, ServerType, Phases
    <2>2. \A j \in Callers \ {k} : phase[j] = "idle"
      BY <2>1 DEF ServerInv, Claimed
    <2>3. Claimed'
      BY <1>0, <2>1, <2>2 DEF ServerInv, Claimed
    <2>4. ~Accepting
      BY <2>1, <2>2 DEF Accepting
    <2>5. GoneIsCut'
      BY <1>0, <2>1, <2>4 DEF ServerInv, GoneIsCut, S!Open, S!NoConn
    <2> QED
      BY <1>0, <2>1, <2>3, <2>5 DEF ServerInv, S!NoForeignWrites
  <1>4. CASE S!Spawn(k)
    <2>1. ServerType' /\ phase'[k] = "serving" /\ UNCHANGED <<running, claim, serves>> /\ phase[k] = "binding"
          /\ \A j \in Callers \ {k} : phase'[j] = phase[j]
      BY <1>0, <1>4 DEF S!Spawn, ServerInv, ServerType, Phases
    <2>2. Claimed'
      BY <1>0, <2>1 DEF ServerInv, Claimed
    <2>3. Accepting'
      BY <2>1 DEF Accepting
    <2>4. GoneIsCut'
      BY <1>0, <2>1, <2>3 DEF ServerInv, GoneIsCut, S!Open, S!NoConn
    <2> QED
      BY <1>0, <2>1, <2>2, <2>4 DEF ServerInv, S!NoForeignWrites
  <1> QED
    BY <1>1, <1>2, <1>3, <1>4

\* Connections come, register, make requests and go.
LEMMA ConnectionsKeep ==
    ASSUME ServerInv, NEW c \in Conns,
           S!Accept(c) \/ S!Register(c) \/ S!Ends(c) \/ S!UiRequest(c)
    PROVE  ServerInv'
  <1>0. UNCHANGED <<claim, phase, running, aborted, serves>>
    BY DEF S!Accept, S!Register, S!Ends, S!UiRequest
  <1>1. CASE S!Accept(c)
    <2>1. PICK new \in ConnState : /\ conn' = [conn EXCEPT ![c] = new]
                                   /\ new.cut \/ (new.of = serves /\ Accepting)
      <3>1. PICK on \in S!Http :
               \/ \E k \in Callers :
                     /\ phase[k] # "binding" /\ on \in running[k]
                     /\ conn' = [conn EXCEPT ![c] = [of |-> serves, on |-> on, cut |-> phase[k] = "cutting"]]
               \/ conn' = [conn EXCEPT ![c] = [of |-> 0, on |-> on, cut |-> TRUE]]
        BY <1>1 DEF S!Accept
      <3>2. CASE \E k \in Callers :
                     /\ phase[k] # "binding" /\ on \in running[k]
                     /\ conn' = [conn EXCEPT ![c] = [of |-> serves, on |-> on, cut |-> phase[k] = "cutting"]]
        <4>1. PICK k \in Callers :
                     /\ phase[k] # "binding" /\ on \in running[k]
                     /\ conn' = [conn EXCEPT ![c] = [of |-> serves, on |-> on, cut |-> phase[k] = "cutting"]]
          BY <3>2
        <4>2. PICK cut \in BOOLEAN : cut = (phase[k] = "cutting")
          OBVIOUS
        <4>3. PICK new : new = [of |-> serves, on |-> on, cut |-> cut]
          OBVIOUS
        <4>4. new \in ConnState /\ new.of = serves
          BY <4>2, <4>3 DEF ServerInv, ServerType, ConnState
        <4>5. conn' = [conn EXCEPT ![c] = new]
          BY <4>1, <4>2, <4>3
        <4>6. Accepting
          BY <4>1 DEF ServerInv, ServerType, Phases, Claimed, Accepting
        <4> QED
          BY <4>4, <4>5, <4>6
      <3>3. CASE conn' = [conn EXCEPT ![c] = [of |-> 0, on |-> on, cut |-> TRUE]]
        <4>1. PICK cut \in BOOLEAN : cut = TRUE
          OBVIOUS
        <4>2. PICK new : new = [of |-> 0, on |-> on, cut |-> cut]
          OBVIOUS
        <4>3. new \in ConnState /\ new.cut = cut
          BY <4>1, <4>2 DEF ConnState
        <4>4. conn' = [conn EXCEPT ![c] = new]
          BY <3>3, <4>1, <4>2
        <4> QED
          BY <4>1, <4>3, <4>4
      <3> QED
        BY <3>1, <3>2, <3>3
    <2>2. conn'[c] = new /\ \A d \in Conns \ {c} : conn'[d] = conn[d]
      BY <2>1 DEF ServerInv, ServerType
    <2>3. UNCHANGED written
      BY <1>1 DEF S!Accept
    <2>4. ServerType' /\ Claimed'
      BY <1>0, <2>1 DEF ServerInv, ServerType, Claimed
    <2>5. \A d \in Conns \ {c} : S!Open(d)' = S!Open(d)
      BY <2>2 DEF S!Open
    <2>6. Accepting' = Accepting
      BY <1>0 DEF Accepting
    <2>7. GoneIsCut'
      BY <1>0, <2>1, <2>2, <2>5, <2>6 DEF ServerInv, GoneIsCut
    <2> QED
      BY <2>3, <2>4, <2>7 DEF ServerInv, S!NoForeignWrites
  <1>2. CASE S!Register(c)
    BY <1>0, <1>2 DEF S!Register, ServerInv, ServerType, Claimed, GoneIsCut, Accepting, S!Open, S!NoConn,
                      S!NoForeignWrites
  <1>3. CASE S!Ends(c)
    <2>1. conn' = [conn EXCEPT ![c] = S!NoConn] /\ UNCHANGED written
      BY <1>3 DEF S!Ends
    <2>2. S!NoConn \in ConnState
      BY DEF S!NoConn, S!None, ConnState
    <2>3. conn'[c] = S!NoConn /\ \A d \in Conns \ {c} : conn'[d] = conn[d]
      BY <2>1, <2>2 DEF ServerInv, ServerType
    <2>4. ~S!Open(c)' /\ \A d \in Conns \ {c} : S!Open(d)' = S!Open(d)
      BY <2>3 DEF S!Open
    <2>5. ServerType' /\ Claimed'
      BY <1>0, <2>1, <2>2 DEF ServerInv, ServerType, Claimed
    <2>6. GoneIsCut'
      BY <1>0, <2>3, <2>4 DEF ServerInv, GoneIsCut, Accepting
    <2> QED
      BY <2>1, <2>5, <2>6 DEF ServerInv, S!NoForeignWrites
  <1>4. CASE S!UiRequest(c)
    <2>1. PICK r \in S!Requests : S!is_same_origin(r) /\ written' = r.from
      BY <1>4 DEF S!UiRequest
    <2>2. r.from # "elsewhere"
      BY <2>1 DEF S!Requests, S!is_same_origin, S!None
    <2>3. UNCHANGED conn
      BY <1>4 DEF S!UiRequest
    <2> QED
      BY <1>0, <2>1, <2>2, <2>3 DEF ServerInv, ServerType, Claimed, GoneIsCut, Accepting, S!Open, S!NoConn,
                                    S!NoForeignWrites
  <1> QED
    BY <1>1, <1>2, <1>3, <1>4

\* The abort token: what it cuts off stays where it was.
LEMMA AbortedCuts ==
    ASSUME ServerInv, conn' = S!Aborted
    PROVE  /\ conn' \in [Conns -> ConnState]
           /\ \A c \in Conns : /\ S!Open(c)' => S!Open(c) /\ conn'[c].of = conn[c].of
                               /\ S!Open(c)' /\ conn[c].cut => conn'[c].cut
                               /\ S!Open(c)' /\ conn[c].of = serves => conn'[c].cut
  <1>1. ASSUME NEW c \in Conns
        PROVE  /\ conn'[c] \in ConnState
               /\ S!Open(c)' => S!Open(c) /\ conn'[c].of = conn[c].of
               /\ S!Open(c)' /\ conn[c].cut => conn'[c].cut
               /\ S!Open(c)' /\ conn[c].of = serves => conn'[c].cut
    <2>1. conn'[c] = IF conn[c].of = serves /\ S!Open(c) THEN [conn[c] EXCEPT !.cut = TRUE] ELSE conn[c]
      BY DEF S!Aborted
    <2>2. conn[c] \in ConnState
      BY DEF ServerInv, ServerType
    <2>3. CASE conn[c].of = serves /\ S!Open(c)
      <3>1. PICK b \in BOOLEAN : b = TRUE
        OBVIOUS
      <3>2. conn'[c] = [conn[c] EXCEPT !.cut = b]
        BY <2>1, <2>3, <3>1
      <3>3. conn'[c] \in ConnState /\ conn'[c].of = conn[c].of /\ conn'[c].cut = b
        BY <2>2, <3>2 DEF ConnState
      <3> QED
        BY <2>3, <3>1, <3>3
    <2>4. CASE ~(conn[c].of = serves /\ S!Open(c))
      <3>1. conn'[c] = conn[c]
        BY <2>1, <2>4
      <3>2. S!Open(c)' = S!Open(c)
        BY <3>1 DEF S!Open
      <3> QED
        BY <2>2, <2>4, <3>1, <3>2
    <2> QED
      BY <2>3, <2>4
  <1>2. \E f : conn' = [c \in Conns |-> f[c]]
    <2>1. conn' = [c \in Conns |-> S!Aborted[c]]
      BY DEF S!Aborted
    <2> QED
      BY <2>1
  <1> QED
    BY <1>1, <1>2

\* Listeners end and Servers are stopped or dropped.
LEMMA StopKeeps ==
    ASSUME ServerInv, NEW k \in Callers,
           \/ S!Stop(k) \/ S!GraceOver(k) \/ S!StopReturns(k) \/ S!DropServer(k)
           \/ \E l \in running[k] : S!ListenerFails(k, l) \/ S!ListenerEnds(k, l)
    PROVE  ServerInv'
  <1>0. phase[k] \in Phases \ {"idle"} /\ UNCHANGED <<written, serves>>
    BY DEF S!Stop, S!StopRequested, S!GraceOver, S!StopReturns, S!DropServer, S!Dropped, S!ListenerFails,
           S!ListenerEnds, ServerInv, ServerType, Phases
  <1>1. CASE S!Stop(k)
    <2>1. ServerType' /\ phase'[k] = "draining" /\ UNCHANGED <<running, aborted, claim, conn>>
          /\ \A j \in Callers \ {k} : phase'[j] = phase[j]
      BY <1>0, <1>1 DEF S!Stop, ServerInv, ServerType, Phases
    <2>2. Claimed'
      BY <1>0, <2>1 DEF ServerInv, Claimed
    <2>3. Accepting'
      BY <2>1 DEF Accepting
    <2>4. GoneIsCut'
      BY <1>0, <2>1, <2>3 DEF ServerInv, GoneIsCut, S!Open, S!NoConn
    <2> QED
      BY <1>0, <2>1, <2>2, <2>4 DEF ServerInv, S!NoForeignWrites
  <1>2. CASE \E l \in running[k] : S!ListenerFails(k, l) \/ S!ListenerEnds(k, l)
    <2>1. /\ UNCHANGED <<phase, aborted, claim, conn>> /\ DOMAIN running' = Callers
          /\ running'[k] \subseteq running[k] /\ \A j \in Callers \ {k} : running'[j] = running[j]
      BY <1>2 DEF S!ListenerFails, S!ListenerEnds, ServerInv, ServerType
    <2>2. ServerType' /\ Claimed'
      BY <1>0, <2>1 DEF ServerInv, ServerType, Claimed
    <2> QED
      BY <1>0, <2>1, <2>2 DEF ServerInv, GoneIsCut, Accepting, S!Open, S!NoConn, S!NoForeignWrites
  <1>3. CASE S!GraceOver(k)
    <2>1. phase' \in [Callers -> Phases] /\ phase'[k] = "cutting" /\ UNCHANGED <<running, aborted, claim>>
          /\ \A j \in Callers \ {k} : phase'[j] = phase[j]
      BY <1>3 DEF S!GraceOver, ServerInv, ServerType, Phases
    <2>2. conn' = S!Aborted
      BY <1>3 DEF S!GraceOver
    <2>3. Claimed' /\ ServerType'
      BY <1>0, <2>1, <2>2, AbortedCuts DEF ServerInv, ServerType, Claimed
    <2>4. Accepting'
      BY <2>1 DEF Accepting
    <2>5. GoneIsCut'
      BY <1>0, <2>2, <2>4, AbortedCuts DEF ServerInv, GoneIsCut
    <2> QED
      BY <1>0, <2>3, <2>5 DEF ServerInv, S!NoForeignWrites
  <1>4. CASE S!Dropped(k)
    <2>1. /\ phase' \in [Callers -> Phases] /\ phase'[k] = "idle" /\ running'[k] = {}
          /\ DOMAIN running' = Callers /\ aborted' = aborted \cup running[k]
          /\ \A j \in Callers \ {k} : phase'[j] = phase[j] /\ running'[j] = running[j]
      BY <1>4 DEF S!Dropped, ServerInv, ServerType, Phases
    <2>2. conn' = S!Aborted
      BY <1>4 DEF S!Dropped
    <2>3. \A j \in Callers \ {k} : phase[j] = "idle" /\ running[j] = {}
      BY <1>0 DEF ServerInv, Claimed
    <2>4. Claimed' /\ ServerType'
      BY <1>0, <2>1, <2>2, <2>3, AbortedCuts DEF ServerInv, ServerType, Claimed
    <2>5. GoneIsCut'
      BY <1>0, <2>2, AbortedCuts DEF ServerInv, GoneIsCut
    <2> QED
      BY <1>0, <2>4, <2>5 DEF ServerInv, S!NoForeignWrites
  <1> QED
    BY <1>1, <1>2, <1>3, <1>4 DEF S!StopReturns, S!DropServer

LEMMA ServerKeeps == ServerInv /\ S!Next => ServerInv'
  <1> SUFFICES ASSUME ServerInv, S!Next PROVE ServerInv'
    OBVIOUS
  <1>1. CASE S!OpenImaged
    BY <1>1 DEF S!OpenImaged, ServerInv, ServerType, Claimed, GoneIsCut, Accepting, S!Open, S!NoConn,
                S!NoForeignWrites
  <1>2. ASSUME NEW l, S!AbortedEnds(l) PROVE ServerInv'
    BY <1>2 DEF S!AbortedEnds, ServerInv, ServerType, Claimed, GoneIsCut, Accepting, S!Open, S!NoConn,
                S!NoForeignWrites
  <1>3. CASE ~S!OpenImaged /\ ~\E l \in aborted : S!AbortedEnds(l)
    BY <1>3, ServeKeeps, StopKeeps, ConnectionsKeep DEF S!Next
  <1> QED
    BY <1>1, <1>2, <1>3

LEMMA ServerIsSafe == ServerInv => S!OneServer /\ S!NoneLeftBehind /\ S!NoForeignWrites
  <1> SUFFICES ASSUME ServerInv PROVE S!OneServer /\ S!NoneLeftBehind
    BY DEF ServerInv
  <1>1. S!OneServer
    BY DEF ServerInv, ServerType, Phases, Claimed, S!OneServer
  <1>2. claim = S!None => ~Accepting
    BY ServicesAssumption DEF ServerInv, Claimed, Accepting, S!None
  <1>3. S!NoneLeftBehind
    BY <1>2 DEF ServerInv, GoneIsCut, S!NoneLeftBehind
  <1> QED
    BY <1>1, <1>3

(***************************************************************************)
(* THEOREM.  However serve, stop and drop of any number of callers, the    *)
(* late ends of listeners and the ends of connections interleave           *)
(* (server/src/lib.rs, listener.rs), there is one Server at a time, what   *)
(* the listeners of one that is gone have accepted or still accept is cut  *)
(* off, and no request from another site is served (csrf.rs).              *)
(***************************************************************************)
THEOREM ServerStopsClean == Spec => []StopsClean
<1> DEFINE Inv == part = "server" => ServerInv
<1>1. Init => Inv
  BY ServerStarts DEF Init
<1>2. Inv /\ [Next]_vars => Inv'
  <2> SUFFICES ASSUME Inv, [Next]_vars, part' = "server" PROVE ServerInv'
    OBVIOUS
  <2>1. CASE Next
    BY <2>1, ServerKeeps DEF Next
  <2>2. CASE UNCHANGED vars
    BY <2>2 DEF vars, serverVars, ServerInv, ServerType, Claimed, GoneIsCut, Accepting, S!Open, S!NoConn,
                S!NoForeignWrites
  <2> QED
    BY <2>1, <2>2
<1>3. Inv => StopsClean
  BY ServerIsSafe DEF StopsClean
<1> QED
  BY <1>1, <1>2, <1>3, PTL DEF Spec

-----------------------------------------------------------------------------
(***************************************************************************)
(* Network boot, for any public URL without a path: the invariant says     *)
(* what a machine fetches next at each stage, the lemmas that it is there. *)
(***************************************************************************)
Parts == STRING \cup {"boot", "boot.ipxe", "manifest.ipxe", "x86_64", "arm64", "vmlinuz",
                      "initramfs", "ipxe.efi", "ipxe-arm64.efi", "undionly.kpxe", ".", "..", B!Empty}

MachineState == [stage : {"off", "firmware", "ipxe", "chain", "booted"},
                 build : B!Builds \cup {B!None}, next : Seq(Parts),
                 kernel : {"x86_64", "arm64", B!None}, initrd : {"x86_64", "arm64", B!None},
                 server : Seq(Parts)]

Fetches(m) ==
    /\ m.stage \in {"firmware", "ipxe", "chain", "booted"} => m.build \in B!Builds
    /\ m.stage = "firmware" => m.next \in B!Spellings(B!BinaryOf(m.build))
    /\ m.stage = "ipxe" => m.next = B!Base \o <<"boot", "boot.ipxe">>
    /\ m.stage = "chain" => m.next = B!Base \o <<"boot", "manifest.ipxe">>
    /\ m.stage = "booted" => /\ m.kernel = B!Runs(m.build) /\ m.initrd = m.kernel
                             /\ m.server = B!Base

BootInv == /\ url \in Seq(Parts) /\ Len(B!Base) = 1
           /\ machine \in [Machines -> MachineState]
           /\ \A m \in Machines : Fetches(machine[m])

LEMMA EmptyIsNoName == B!Empty \notin {"ipxe.efi", "ipxe-arm64.efi", "undionly.kpxe"}
  BY Zenon DEF B!Empty

LEMMA SameOne == ASSUME NEW x PROVE B!Cardinality({x}) = 1
  <1>1. B!Cardinality({x}) = Cardinality({x})
    BY DEF B!Cardinality, Cardinality
  <1> QED
    BY <1>1, FS_Singleton

\* Of places up to n there is a last one.
LEMMA GreatestOf ==
    ASSUME NEW n \in Nat, NEW T, T \subseteq 1 .. n, T # {}
    PROVE  B!Max(T) \in T
  <1> DEFINE R == OpToRel(<, Nat)
             D == {n - x : x \in T}
  <1>1. IsWellFoundedOn(R, Nat)
    BY NatLessThanWellFounded
  <1>2. \A x, y \in Nat : y < x => <<y, x>> \in R
    BY DEF OpToRel
  <1>3. D \subseteq Nat /\ D # {}
    <2>1. \A x \in T : n - x \in Nat
      OBVIOUS
    <2> QED
      BY <2>1
  <1> HIDE DEF R
  <1>4. PICK d \in D : \A e \in D : ~(<<e, d>> \in R)
    <2> HIDE DEF D
    <2> QED
      BY <1>1, <1>3, WFMin
  <1>5. PICK x \in T : d = n - x
    OBVIOUS
  <1>6. ASSUME NEW y \in T PROVE x >= y
    <2>1. n - y \in D /\ d \in Nat /\ n - y \in Nat
      BY <1>3
    <2>2. ~(n - y < n - x)
      BY <1>2, <1>4, <1>5, <2>1
    <2>3. x \in Nat /\ y \in Nat
      OBVIOUS
    <2> QED
      BY <2>2, <2>3
  <1> QED
    BY <1>6 DEF B!Max

\* The trimmed URL.
LEMMA BaseType == ASSUME url \in Seq(Parts) PROVE B!Base \in Seq(Parts)
  <1> DEFINE filled == {i \in DOMAIN url : url[i] # B!Empty}
             last == IF filled = {} THEN 0 ELSE B!Max(filled)
  <1>1. filled \subseteq 1 .. Len(url) /\ Len(url) \in Nat
    OBVIOUS
  <1>2. last \in 0 .. Len(url)
    <2> HIDE DEF filled
    <2>1. filled # {} => B!Max(filled) \in filled
      BY <1>1, GreatestOf
    <2>2. \A x \in filled : x \in 0 .. Len(url)
      BY <1>1
    <2>3. CASE filled = {}
      <3>1. last = 0
        BY <2>3
      <3> HIDE DEF last
      <3> QED
        BY <1>1, <3>1
    <2>4. CASE filled # {}
      <3>1. last \in filled
        BY <2>1, <2>4
      <3> HIDE DEF last
      <3> QED
        BY <2>2, <3>1
    <2> QED
      BY <2>3, <2>4
  <1>3. B!Base = SubSeq(url, 1, last)
    BY DEF B!Base
  <1> HIDE DEF last
  <1>4. \A i \in 1 .. last : url[i] \in Parts
    <2>1. \A i \in 1 .. Len(url) : url[i] \in Parts
      OBVIOUS
    <2> QED
      BY <1>1, <1>2, <2>1
  <1>5. SubSeq(url, 1, last) \in Seq(Parts)
    BY <1>2, <1>4, SubSeqProperties
  <1> QED
    BY <1>3, <1>5

\* What a URL of this server leads to is decided by what follows the host.
LEMMA Beyond ==
    ASSUME NEW b \in Seq(Parts), NEW x \in Seq(Parts)
    PROVE  /\ SubSeq(b \o x, 1, Len(b)) = b
           /\ SubSeq(b \o x, Len(b) + 1, Len(b \o x)) = x
           /\ b \o x \in Seq(Parts)
  <1>1. /\ b \o x \in Seq(Parts) /\ Len(b \o x) = Len(b) + Len(x)
        /\ \A i \in 1 .. Len(b) + Len(x) :
              (b \o x)[i] = IF i <= Len(b) THEN b[i] ELSE x[i - Len(b)]
    BY ConcatProperties
  <1>2. Len(b) \in Nat /\ Len(x) \in Nat
    OBVIOUS
  <1> DEFINE whole == b \o x
             first == SubSeq(whole, 1, Len(b))
             rest == SubSeq(whole, Len(b) + 1, Len(b) + Len(x))
  <1>3. first = b
    <2>1. \A i \in 1 .. Len(b) : whole[i] \in Parts /\ whole[i] = b[i]
      BY <1>1, <1>2
    <2>2. /\ first \in Seq(Parts) /\ Len(first) = Len(b)
          /\ \A i \in 1 .. Len(b) : first[i] = whole[1 + i - 1]
      <3> HIDE DEF whole
      <3>1. Len(b) \in Int /\ 1 \in Int
        BY <1>2
      <3> QED
        BY <1>2, <2>1, <3>1, SubSeqProperties
    <2>3. \A i \in 1 .. Len(b) : first[i] = b[i]
      BY <1>2, <2>1, <2>2
    <2> HIDE DEF first, whole
    <2> QED
      BY <2>2, <2>3
  <1>4. rest = x
    <2>1. \A i \in Len(b) + 1 .. Len(b) + Len(x) : whole[i] \in Parts /\ whole[i] = x[i - Len(b)]
      BY <1>1, <1>2
    <2>2. /\ rest \in Seq(Parts) /\ Len(rest) = Len(x)
          /\ \A i \in 1 .. Len(x) : rest[i] = whole[Len(b) + i]
      <3> HIDE DEF whole
      <3>1. Len(b) + 1 \in Int /\ Len(b) + Len(x) \in Int
        BY <1>2
      <3>2. /\ rest \in Seq(Parts)
            /\ Len(rest) = IF Len(b) + 1 <= Len(b) + Len(x)
                           THEN (Len(b) + Len(x)) - (Len(b) + 1) + 1 ELSE 0
            /\ \A i \in 1 .. (Len(b) + Len(x)) - (Len(b) + 1) + 1 :
                  rest[i] = whole[Len(b) + 1 + i - 1]
        BY <2>1, <3>1, SubSeqProperties
      <3> HIDE DEF rest
      <3> QED
        BY <1>2, <3>2
    <2>3. \A i \in 1 .. Len(x) : rest[i] = x[i]
      <3> HIDE DEF rest, whole
      <3> QED
        BY <1>2, <2>1, <2>2
    <2> HIDE DEF rest, whole
    <2> QED
      BY <2>2, <2>3
  <1> QED
    BY <1>1, <1>3, <1>4

LEMMA ServedHere ==
    ASSUME url \in Seq(Parts), Len(B!Base) = 1
    PROVE  /\ B!Served(B!Base \o <<"boot", "boot.ipxe">>) # B!NoFile
           /\ B!Served(B!Base \o <<"boot", "manifest.ipxe">>) # B!NoFile
           /\ \A arch \in {"x86_64", "arm64"}, file \in {"vmlinuz", "initramfs"} :
                B!Served(B!Base \o <<"boot", arch, file>>) = [kind |-> file, arch |-> arch]
  <1>1. \A x \in Seq(Parts) : SubSeq(B!Base \o x, 2, Len(B!Base \o x)) = x
    <2>1. \A x \in Seq(Parts) : SubSeq(B!Base \o x, Len(B!Base) + 1, Len(B!Base \o x)) = x
      BY BaseType, Beyond
    <2>2. Len(B!Base) + 1 = 2
      OBVIOUS
    <2> QED
      BY <2>1, <2>2
  <1>2. B!Served(B!Base \o <<"boot", "boot.ipxe">>) # B!NoFile
    <2>1. <<"boot", "boot.ipxe">> \in Seq(Parts)
      BY DEF Parts
    <2> QED
      BY <1>1, <2>1 DEF B!Served, B!NoFile, B!None
  <1>3. B!Served(B!Base \o <<"boot", "manifest.ipxe">>) # B!NoFile
    <2>1. <<"boot", "manifest.ipxe">> \in Seq(Parts) /\ <<"boot", "manifest.ipxe">> # <<"boot", "boot.ipxe">>
      BY DEF Parts
    <2> QED
      BY <1>1, <2>1 DEF B!Served, B!NoFile, B!None
  <1>4. ASSUME NEW arch \in {"x86_64", "arm64"}, NEW file \in {"vmlinuz", "initramfs"}
        PROVE  B!Served(B!Base \o <<"boot", arch, file>>) = [kind |-> file, arch |-> arch]
    <2> DEFINE x == <<"boot", arch, file>>
    <2>1. /\ x \in Seq(Parts) /\ Len(x) = 3 /\ x[1] = "boot" /\ x[2] = arch /\ x[3] = file
          /\ x # <<"boot", "boot.ipxe">> /\ x # <<"boot", "manifest.ipxe">>
      BY DEF Parts
    <2>2. x[2] \in B!Builds /\ x[3] \in {"vmlinuz", "initramfs"} /\ B!ReadArch(x[2]) = arch
      BY DEF B!Builds, B!ReadArch
    <2> HIDE DEF x
    <2>3. B!Served(B!Base \o x) = [kind |-> file, arch |-> arch]
      BY <1>1, <2>1, <2>2 DEF B!Served
    <2> QED
      BY <2>3 DEF x
  <1> QED
    BY <1>2, <1>3, <1>4

\* However DHCP spells the name, read_req_open finds the binary.
LEMMA SpeltIsFound ==
    ASSUME NEW build \in B!Builds, NEW path \in B!Spellings(B!BinaryOf(build))
    PROVE  B!boot_file(B!Relative(path)) # B!NoFile
  <1> DEFINE file == B!BinaryOf(build)
             named == {i \in DOMAIN path : path[i] \notin {B!Empty, ".", ".."}}
  <1>1. file \in {"ipxe.efi", "ipxe-arm64.efi", "undionly.kpxe"}
    BY DEF B!BinaryOf, B!Builds
  <1>2. PICK n \in {1, 2, 3} : named = {n} /\ path[n] = file
    <2> HIDE DEF file
    <2>1. path \in {<<file>>, <<B!Empty, file>>, <<".", file>>, <<"..", B!Empty, file>>}
      BY DEF B!Spellings, file
    <2>2. file \notin {B!Empty, ".", ".."}
      BY <1>1, EmptyIsNoName
    <2>3. CASE path = <<file>>
      <3>1. DOMAIN path = {1} /\ path[1] = file
        BY <2>3
      <3> QED
        BY <2>2, <3>1
    <2>4. CASE path = <<B!Empty, file>>
      <3>1. DOMAIN path = {1, 2} /\ path[1] = B!Empty /\ path[2] = file
        BY <2>4
      <3> QED
        BY <2>2, <3>1
    <2>5. CASE path = <<".", file>>
      <3>1. DOMAIN path = {1, 2} /\ path[1] = "." /\ path[2] = file
        BY <2>5
      <3> QED
        BY <2>2, <3>1
    <2>6. CASE path = <<"..", B!Empty, file>>
      <3>1. DOMAIN path = {1, 2, 3} /\ path[1] = ".." /\ path[2] = B!Empty /\ path[3] = file
        BY <2>6
      <3> QED
        BY <2>2, <3>1
    <2> QED
      BY <2>1, <2>3, <2>4, <2>5, <2>6
  <1>3. B!Relative(path) = <<file>>
    <2> DEFINE Sorted(f) == \A i, j \in DOMAIN f : i < j => f[i] < f[j]
               order == CHOOSE f \in [1 .. B!Cardinality(named) -> named] : Sorted(f)
    <2>1. B!Relative(path) = [i \in DOMAIN order |-> path[order[i]]]
      BY DEF B!Relative
    <2>2. B!Cardinality(named) = 1
      BY <1>2, SameOne
    <2>3. \E f \in [1 .. 1 -> {n}] : Sorted(f)
      <3>1. [i \in 1 .. 1 |-> n] \in [1 .. 1 -> {n}] /\ Sorted([i \in 1 .. 1 |-> n])
        OBVIOUS
      <3> QED
        BY <3>1
    <2>4. order \in [1 .. 1 -> {n}]
      <3> HIDE DEF Sorted, named
      <3> QED
        BY <1>2, <2>2, <2>3
    <2> HIDE DEF order
    <2>5. DOMAIN order = 1 .. 1 /\ order[1] = n
      BY <2>4
    <2>6. B!Relative(path) = [i \in 1 .. 1 |-> file]
      <3> HIDE DEF file, named
      <3> QED
        BY <1>2, <2>1, <2>5
    <2> QED
      BY <2>6
  <1>4. <<file>> \in {<<"ipxe.efi">>, <<"ipxe-arm64.efi">>, <<"undionly.kpxe">>}
    BY <1>1
  <1> QED
    BY <1>3, <1>4 DEF B!boot_file, B!NoFile, B!None

LEMMA OffState == B!Off \in MachineState /\ Fetches(B!Off)
  BY DEF B!Off, B!None, MachineState, B!Builds, Fetches

LEMMA Starting ==
    ASSUME NEW r \in MachineState, NEW build \in B!Builds, NEW path \in Seq(Parts)
    PROVE  [r EXCEPT !.stage = "firmware", !.build = build, !.next = path] \in MachineState
  BY DEF MachineState

LEMMA BootStarts == B!Init /\ Len(B!Base) = 1 => BootInv
  <1> SUFFICES ASSUME B!Init, Len(B!Base) = 1 PROVE BootInv
    OBVIOUS
  <1>1. url \in Seq(Parts)
    BY ServicesAssumption DEF B!Init, Parts
  <1> QED
    BY <1>1, OffState DEF B!Init, BootInv

\* A machine goes on to a state in which it fetches what is there.
LEMMA LoadsKeeps ==
    ASSUME BootInv, NEW m \in Machines, NEW to \in MachineState, Fetches(to), B!Loads(m, to)
    PROVE  BootInv'
  <1>1. UNCHANGED url /\ machine' = [machine EXCEPT ![m] = to]
    BY DEF B!Loads
  <1>2. \A j \in Machines : Fetches(machine'[j])
    BY <1>1 DEF BootInv
  <1>3. B!Base' = B!Base
    BY <1>1 DEF B!Base
  <1>4. \A j \in Machines : Fetches(machine[j])'
    BY <1>2, <1>3 DEF Fetches
  <1> QED
    BY <1>1, <1>3, <1>4 DEF BootInv

LEMMA PowerKeeps ==
    ASSUME BootInv, NEW m \in Machines, B!PowerOn(m) \/ B!PowerOff(m)
    PROVE  BootInv'
  <1>1. CASE B!PowerOff(m)
    BY <1>1, OffState, LoadsKeeps DEF B!PowerOff
  <1>2. CASE B!PowerOn(m)
    <2>0. PICK build \in B!Builds : \E path \in B!Spellings(B!BinaryOf(build)) :
             B!Loads(m, [B!Off EXCEPT !.stage = "firmware", !.build = build, !.next = path])
      BY <1>2 DEF B!PowerOn
    <2>1. PICK path \in B!Spellings(B!BinaryOf(build)) :
             B!Loads(m, [B!Off EXCEPT !.stage = "firmware", !.build = build, !.next = path])
      BY <2>0
    <2> DEFINE to == [B!Off EXCEPT !.stage = "firmware", !.build = build, !.next = path]
    <2>2. path \in Seq(Parts)
      <3>1. B!BinaryOf(build) \in Parts /\ B!Empty \in Parts /\ "." \in Parts /\ ".." \in Parts
        BY DEF B!BinaryOf, B!Builds, Parts
      <3>2. \A f, e, d \in Parts : <<f>> \in Seq(Parts) /\ <<e, f>> \in Seq(Parts)
                                      /\ <<d, e, f>> \in Seq(Parts)
        OBVIOUS
      <3> QED
        BY <3>1, <3>2 DEF B!Spellings
    <2>3. to.stage = "firmware" /\ to.build = build /\ to.next = path
      BY DEF B!Off
    <2>4. to \in MachineState
      BY <2>2, OffState, Starting
    <2> HIDE DEF to
    <2>5. Fetches(to)
      BY <2>3 DEF Fetches
    <2> QED
      BY <2>1, <2>4, <2>5, LoadsKeeps DEF to
  <1> QED
    BY <1>1, <1>2

LEMMA FetchKeeps ==
    ASSUME BootInv, NEW m \in Machines, B!Tftp(m) \/ B!Bootstrap(m) \/ B!Manifest(m)
    PROVE  BootInv'
  <1>0. machine[m] \in MachineState /\ Fetches(machine[m]) /\ B!Base \in Seq(Parts)
    BY BaseType DEF BootInv
  <1>1. \A x \in {<<"boot", "boot.ipxe">>, <<"boot", "manifest.ipxe">>} : B!Base \o x \in Seq(Parts)
    <2>1. <<"boot", "boot.ipxe">> \in Seq(Parts) /\ <<"boot", "manifest.ipxe">> \in Seq(Parts)
      BY DEF Parts
    <2> QED
      BY <1>0, <2>1, Beyond
  <1>2. CASE B!Tftp(m)
    <2> DEFINE to == [machine[m] EXCEPT !.stage = "ipxe", !.next = B!Base \o <<"boot", "boot.ipxe">>]
    <2>1. machine[m].stage = "firmware" /\ machine[m].build \in B!Builds
          /\ machine[m].next \in B!Spellings(B!BinaryOf(machine[m].build))
      BY <1>0, <1>2 DEF B!Tftp, Fetches
    <2>2. B!boot_file(B!Relative(machine[m].next)) # B!NoFile
      BY <2>1, SpeltIsFound
    <2>3. B!Loads(m, to)
      BY <1>2, <2>2 DEF B!Tftp
    <2>4. to \in MachineState /\ to.stage = "ipxe" /\ to.build = machine[m].build
          /\ to.next = B!Base \o <<"boot", "boot.ipxe">>
      BY <1>0, <1>1 DEF MachineState
    <2> HIDE DEF to
    <2>5. Fetches(to)
      BY <2>1, <2>4 DEF Fetches
    <2> QED
      BY <2>3, <2>4, <2>5, LoadsKeeps
  <1>3. CASE B!Bootstrap(m)
    <2> DEFINE to == [machine[m] EXCEPT !.stage = "chain", !.next = B!Base \o <<"boot", "manifest.ipxe">>]
    <2>1. machine[m].stage = "ipxe" /\ machine[m].build \in B!Builds
          /\ machine[m].next = B!Base \o <<"boot", "boot.ipxe">>
      BY <1>0, <1>3 DEF B!Bootstrap, Fetches
    <2>2. B!Served(machine[m].next) # B!NoFile
      BY <2>1, ServedHere DEF BootInv
    <2>3. B!Loads(m, to)
      BY <1>3, <2>2 DEF B!Bootstrap, B!ScriptBase
    <2>4. to \in MachineState /\ to.stage = "chain" /\ to.build = machine[m].build
          /\ to.next = B!Base \o <<"boot", "manifest.ipxe">>
      BY <1>0, <1>1 DEF MachineState
    <2> HIDE DEF to
    <2>5. Fetches(to)
      BY <2>1, <2>4 DEF Fetches
    <2> QED
      BY <2>3, <2>4, <2>5, LoadsKeeps
  <1>4. CASE B!Manifest(m)
    <2> DEFINE arch == B!Writes(B!ReadArch(machine[m].build))
               to == [machine[m] EXCEPT !.stage = "booted", !.next = <<>>, !.kernel = arch,
                                        !.initrd = arch, !.server = B!Base]
    <2>1. machine[m].stage = "chain" /\ machine[m].build \in B!Builds
          /\ machine[m].next = B!Base \o <<"boot", "manifest.ipxe">>
      BY <1>0, <1>4 DEF B!Manifest, Fetches
    <2>2. arch \in {"x86_64", "arm64"} /\ arch = B!Runs(machine[m].build)
      BY <2>1 DEF B!Writes, B!ReadArch, B!Runs, B!Builds
    <2>3. /\ B!Served(machine[m].next) # B!NoFile
          /\ B!Served(B!Base \o <<"boot", arch, "vmlinuz">>) = [kind |-> "vmlinuz", arch |-> arch]
          /\ B!Served(B!Base \o <<"boot", arch, "initramfs">>) = [kind |-> "initramfs", arch |-> arch]
      <3> HIDE DEF arch
      <3> QED
        BY <2>1, <2>2, ServedHere DEF BootInv
    <2>4. B!Loads(m, to)
      <3>1. [kind |-> "vmlinuz", arch |-> arch] # B!NoFile /\ [kind |-> "initramfs", arch |-> arch] # B!NoFile
        BY DEF B!NoFile, B!None
      <3>2. B!NoFile \notin {B!Served(machine[m].next), B!Served(B!Base \o <<"boot", arch, "vmlinuz">>),
                             B!Served(B!Base \o <<"boot", arch, "initramfs">>)}
        BY <2>3, <3>1
      <3>3. B!Loads(m, [machine[m] EXCEPT !.stage = "booted", !.next = <<>>,
                            !.kernel = B!Served(B!Base \o <<"boot", arch, "vmlinuz">>).arch,
                            !.initrd = B!Served(B!Base \o <<"boot", arch, "initramfs">>).arch,
                            !.server = B!Base])
        BY <1>4, <3>2, Zenon DEF B!Manifest, B!ScriptBase
      <3>4. /\ B!Served(B!Base \o <<"boot", arch, "vmlinuz">>).arch = arch
            /\ B!Served(B!Base \o <<"boot", arch, "initramfs">>).arch = arch
        <4> HIDE DEF arch
        <4> QED
          BY <2>3
      <3> HIDE DEF arch
      <3> QED
        BY <3>3, <3>4
    <2> HIDE DEF arch
    <2>5. to \in MachineState /\ to.stage = "booted" /\ to.build = machine[m].build
          /\ to.kernel = arch /\ to.initrd = arch /\ to.server = B!Base
      <3> DEFINE n == <<>>
                 next == [machine[m] EXCEPT !.stage = "booted", !.next = n, !.kernel = arch,
                                            !.initrd = arch, !.server = B!Base]
      <3>1. n \in Seq(Parts)
        OBVIOUS
      <3>2. to = next
        OBVIOUS
      <3> HIDE DEF n, to
      <3>3. /\ next \in MachineState /\ next.stage = "booted" /\ next.build = machine[m].build
            /\ next.kernel = arch /\ next.initrd = arch /\ next.server = B!Base
        BY <1>0, <2>2, <3>1 DEF MachineState
      <3> HIDE DEF next
      <3> QED
        BY <3>2, <3>3
    <2> HIDE DEF to
    <2>6. Fetches(to)
      BY <2>1, <2>2, <2>5 DEF Fetches
    <2> QED
      BY <2>4, <2>5, <2>6, LoadsKeeps
  <1> QED
    BY <1>2, <1>3, <1>4

LEMMA BootKeeps == BootInv /\ B!Next => BootInv'
  BY PowerKeeps, FetchKeeps DEF B!Next

(***************************************************************************)
(* THEOREM.  Whatever the public URL, as long as it has no path of its     *)
(* own, and however DHCP spells the binary's name, no machine that boots   *)
(* from this server (crates/boot: tftp.rs, boot.ipxe, manifest) is told to *)
(* fetch what is not there, and each gets a kernel and initramfs of its    *)
(* own architecture.                                                       *)
(***************************************************************************)
THEOREM MachinesBoot == Spec => []BootsItself
<1> DEFINE Inv == part = "boot" /\ Len(B!Base) = 1 => BootInv
<1>1. Init => Inv
  BY BootStarts DEF Init
<1>2. Inv /\ [Next]_vars => Inv'
  <2> SUFFICES ASSUME Inv, [Next]_vars, part' = "boot", (Len(B!Base) = 1)' PROVE BootInv'
    OBVIOUS
  <2>1. UNCHANGED <<part, url>>
    BY DEF Next, vars, bootVars, B!Next, B!PowerOn, B!Tftp, B!Bootstrap, B!Manifest, B!PowerOff, B!Loads
  <2>2. B!Base' = B!Base
    BY <2>1 DEF B!Base
  <2>3. BootInv
    BY <2>1, <2>2
  <2>4. CASE Next
    BY <2>1, <2>3, <2>4, BootKeeps DEF Next
  <2>5. CASE UNCHANGED vars
    <3>1. UNCHANGED machine
      BY <2>5 DEF vars, bootVars
    <3> QED
      BY <2>1, <2>2, <2>3, <3>1 DEF BootInv, Fetches
  <2> QED
    BY <2>4, <2>5
<1>3. Inv => BootsItself
  BY DEF BootInv, Fetches, BootsItself, B!BootsItself, MachineState
<1> QED
  BY <1>1, <1>2, <1>3, PTL DEF Spec

-----------------------------------------------------------------------------
(***************************************************************************)
(* Mounting a restored system.  While it is built up, what is mounted next *)
(* is no shallower than what is mounted already and lies outside the       *)
(* directories still to come, so it hides nothing (Built).  While it is    *)
(* taken down, the root is the last path to unmount and takes all that is  *)
(* left along, and if nothing is busy and the table was read the paths to  *)
(* come are exactly what is left, newest first (TakenDown).                *)
(***************************************************************************)
Specials == {"proc", "sys", "dev"}
Names == STRING \cup Specials
Paths == Seq(Names)
Stacks == {<<<<"proc">>, <<"sys">>, <<"dev">>>>, <<<<"sys">>, <<"dev">>>>, <<<<"dev">>>>, <<>>}
Coming(stack) == {stack[k][1] : k \in DOMAIN stack}

OneRoot == \A i, j \in DOMAIN table : table[i] = <<>> /\ table[j] = <<>> => i = j

\* Directories that nothing is mounted at or below.
Free(names) == \A i \in DOMAIN table : table[i] # <<>> => table[i][1] \notin names

PlanShape == /\ fstab \in Fstabs /\ planned \subseteq DOMAIN fstab /\ M!UniquelyMounted
             /\ \A k \in planned : fstab[k].path # <<>>

Stacked ==
    /\ table \in Seq(Paths) /\ tracked \in Seq(Paths) /\ M!NothingHidden /\ OneRoot
    /\ table = <<>> <=> tracked = <<>>
    /\ tracked # <<>> => tracked[1] = <<>> /\ table[1] = <<>>
Built ==
    /\ Stacked
    /\ mounting # "root" /\ mounting # "release" => tracked # <<>>
    /\ mounting = "root" => tracked = <<>>
    /\ mounting = "fstab" => \A i \in DOMAIN table : table[i] = <<>>
    /\ mounting \in {"fstab", "mounts"} =>
          /\ Free(Specials)
          /\ \A i \in DOMAIN table, k \in planned : Len(table[i]) <= Len(fstab[k].path)
    /\ mounting = "special" => left \in Stacks /\ Free(Coming(left))
    /\ ~failed /\ known

TakenDown ==
    /\ DOMAIN table \subseteq Nat /\ \A i \in DOMAIN table : table[i] \in Paths
    /\ M!NothingHidden /\ OneRoot
    /\ left \in Seq(Paths)
    /\ left # <<>> => left[Len(left)] = <<>>
    /\ left = <<>> => DOMAIN table = {}
    /\ inside = "none" /\ known =>
          /\ ~failed /\ DOMAIN table = 1 .. Len(left)
          /\ \A k \in 1 .. Len(left) : left[k] = table[Len(left) + 1 - k]

Building == {"root", "fstab", "mounts", "special", "mounted", "release", "list"}
MountInv ==
    /\ mounting \in Building \cup {"unmount", "released"}
    /\ PlanShape
    /\ mounting \in Building => Built
    /\ mounting = "unmount" => TakenDown
    /\ mounting = "released" => DOMAIN table = {} /\ M!CleanRelease

LEMMA LeastNat ==
    ASSUME NEW T, T \subseteq Nat, T # {}
    PROVE  \E x \in T : \A y \in T : x <= y
  <1> DEFINE R == OpToRel(<, Nat)
  <1>1. IsWellFoundedOn(R, Nat)
    BY NatLessThanWellFounded
  <1>2. \A x, y \in Nat : y < x => <<y, x>> \in R
    BY DEF OpToRel
  <1> HIDE DEF R
  <1>3. PICK x \in T : \A y \in T : ~(<<y, x>> \in R)
    BY <1>1, WFMin
  <1>4. ASSUME NEW y \in T PROVE x <= y
    <2>1. x \in Nat /\ y \in Nat /\ ~(y < x)
      BY <1>2, <1>3
    <2> QED
      BY <2>1
  <1> QED
    BY <1>4

\* A path hides another only when it is shorter and begins it.
LEMMA HidesFacts ==
    ASSUME NEW p \in Paths, NEW q \in Paths
    PROVE  /\ M!Hides(p, q) => Len(p) < Len(q)
           /\ M!Hides(p, q) /\ p # <<>> => q # <<>> /\ q[1] = p[1]
           /\ q # <<>> => M!Hides(<<>>, q)
  <1>1. ASSUME M!Hides(p, q) PROVE Len(p) <= Len(q) /\ SubSeq(p, 1, Len(p)) = SubSeq(q, 1, Len(p)) /\ p # q
    BY <1>1 DEF M!Hides, M!IsStrictPrefix, M!IsPrefix
  <1>2. Len(p) \in Nat /\ Len(q) \in Nat /\ SubSeq(p, 1, Len(p)) = p BY DEF Paths
  <1>3. ASSUME M!Hides(p, q), Len(p) = Len(q) PROVE FALSE
    <2>1. SubSeq(q, 1, Len(q)) = q BY DEF Paths
    <2> QED BY <1>1, <1>2, <1>3, <2>1
  <1>4. ASSUME M!Hides(p, q), p # <<>> PROVE q # <<>> /\ q[1] = p[1]
    <2>1. Len(p) > 0 BY <1>4, <1>2 DEF Paths
    <2>2. p = SubSeq(q, 1, Len(p)) /\ Len(p) <= Len(q) BY <1>1, <1>2, <1>4
    <2>3. SubSeq(q, 1, Len(p))[1] = q[1] BY <1>2, <2>1, <2>2 DEF Paths
    <2> QED BY <1>2, <2>1, <2>2, <2>3 DEF Paths
  <1>5. ASSUME q # <<>> PROVE M!Hides(<<>>, q)
    <2>1. Len(<<>>) = 0 /\ Len(<<>>) <= Len(q) BY <1>2
    <2>2. SubSeq(<<>>, 1, 0) = SubSeq(q, 1, 0) BY DEF Paths
    <2> QED BY <1>5, <2>1, <2>2 DEF M!Hides, M!IsStrictPrefix, M!IsPrefix
  <1> QED BY <1>1, <1>2, <1>3, <1>4, <1>5

LEMMA Wider == \A p \in Seq(STRING) : p \in Paths
  BY DEF Paths, Names

\* The special directories, by their paths.
LEMMA SpecialPaths == \A name \in Specials : <<name>> \in M!Range(M!Special)
  <1>1. PICK s : s = <<<<"proc">>, <<"sys">>, <<"dev">>>> OBVIOUS
  <1>2. DOMAIN s = {1, 2, 3} /\ s[1] = <<"proc">> /\ s[2] = <<"sys">> /\ s[3] = <<"dev">> BY <1>1
  <1>3. \A k \in {1, 2, 3} : s[k] \in M!Range(s) BY <1>2 DEF M!Range
  <1> QED BY <1>1, <1>2, <1>3 DEF Specials, M!Special

\* The lines of fstab have places and paths.
LEMMA Lines ==
    ASSUME fstab \in Fstabs
    PROVE  /\ DOMAIN fstab = 1 .. Len(fstab) /\ Len(fstab) \in Nat
           /\ \A k \in DOMAIN fstab : fstab[k].path \in Paths /\ M!Depth(k) \in Nat
           /\ \A k \in DOMAIN fstab : fstab[k].path # <<>> => fstab[k].path[1] \notin Specials
  <1>1. /\ fstab \in Seq({fstab[k] : k \in DOMAIN fstab})
        /\ \A k \in DOMAIN fstab : /\ fstab[k].path \in Seq(STRING)
                                   /\ fstab[k].path # <<>> => <<fstab[k].path[1]>> \notin M!Range(M!Special)
    BY ServicesAssumption DEF M!FstabsArePlain
  <1>2. \A name \in Specials : <<name>> \in M!Range(M!Special) BY SpecialPaths
  <1>3. Len(fstab) \in Nat /\ DOMAIN fstab = 1 .. Len(fstab) BY <1>1
  <1>4. \A k \in DOMAIN fstab : fstab[k].path \in Paths
    <2>1. \A k \in DOMAIN fstab : fstab[k].path \in Seq(STRING) BY <1>1
    <2> QED BY <2>1, Wider
  <1>5. \A k \in DOMAIN fstab : M!Depth(k) \in Nat BY <1>4 DEF M!Depth, Paths
  <1> QED BY <1>1, <1>2, <1>3, <1>4, <1>5

LEMMA FirstIs ==
    ASSUME PlanShape, planned # {}
    PROVE  M!First(planned) \in planned /\ \A j \in planned : M!Depth(M!First(planned)) <= M!Depth(j)
  <1>0. planned \subseteq Nat /\ \A k \in planned : M!Depth(k) \in Nat BY Lines DEF PlanShape
  <1>1. PICK D : D = {M!Depth(k) : k \in planned} OBVIOUS
  <1>2. PICK d \in D : \A e \in D : d <= e BY <1>0, <1>1, LeastNat
  <1>3. PICK T : T = {k \in planned : M!Depth(k) = d} OBVIOUS
  <1>4. PICK k \in T : \A j \in T : k <= j BY <1>0, <1>1, <1>3, LeastNat
  <1>5. k \in planned /\ \A j \in planned : M!Before(k, j)
    <2> SUFFICES ASSUME NEW j \in planned PROVE M!Before(k, j) BY <1>3
    <2>1. M!Depth(k) = d /\ d <= M!Depth(j) /\ M!Depth(j) \in Nat /\ d \in Nat BY <1>0, <1>1, <1>2, <1>3
    <2>2. M!Depth(j) = d => k <= j BY <1>3, <1>4
    <2> QED BY <2>1, <2>2 DEF M!Before
  <1>6. M!First(planned) \in planned /\ \A j \in planned : M!Before(M!First(planned), j)
    BY <1>5 DEF M!First
  <1>7. PICK f : f = M!First(planned) OBVIOUS
  <1>8. ASSUME NEW j \in planned PROVE M!Depth(f) <= M!Depth(j)
    <2>1. M!Before(f, j) /\ M!Depth(f) \in Nat /\ M!Depth(j) \in Nat BY <1>0, <1>6, <1>7
    <2> QED BY <2>1 DEF M!Before
  <1> QED BY <1>6, <1>7, <1>8

-----------------------------------------------------------------------------
(* Building up.                                                            *)
Plain(name, below) ==
    /\ below \in Seq(Paths)
    /\ \A k \in DOMAIN below : Len(below[k]) > 1 /\ below[k][1] = name
    /\ \A j, k \in DOMAIN below : j < k => ~M!Hides(below[k], below[j])

LEMMA HostPlain == \A name \in Specials : Plain(name, HostMounts[name])
  <1>1. \A name \in Specials : <<name>> \in M!Range(M!Special) /\ <<name>>[1] = name BY SpecialPaths
  <1>2. \A s \in Seq(Seq(STRING)) : s \in Seq(Paths)
    <2>1. Seq(STRING) \subseteq Paths BY Wider
    <2>2. \A X, Y : X \subseteq Y => Seq(X) \subseteq Seq(Y) OBVIOUS
    <2> QED BY <2>1, <2>2
  <1> QED BY <1>1, <1>2, ServicesAssumption DEF M!HostIsPlain, Plain

\* One more mount, with what is mounted below it.
Grown(t, path, below) == t \o <<path>> \o below
Joined(t, path, below, u) ==
    /\ u \in Seq(Paths) /\ u # <<>> /\ DOMAIN u = 1 .. Len(t) + 1 + Len(below)
    /\ Len(u) = Len(t) + 1 + Len(below)
    /\ \A i \in 1 .. Len(t) : u[i] = t[i]
    /\ u[Len(t) + 1] = path
    /\ \A i \in 1 .. Len(below) : u[Len(t) + 1 + i] = below[i]
LEMMA GrownIs ==
    ASSUME NEW t \in Seq(Paths), NEW path \in Paths, NEW below \in Seq(Paths)
    PROVE  Joined(t, path, below, Grown(t, path, below))
  <1>0. PICK u : u = Grown(t, path, below) OBVIOUS
  <1>1. PICK a : a = t \o <<path>> OBVIOUS
  <1>2. /\ a \in Seq(Paths) /\ Len(a) = Len(t) + 1 /\ a[Len(t) + 1] = path
        /\ \A i \in 1 .. Len(t) : a[i] = t[i]
    BY <1>1
  <1>3. u = a \o below BY <1>0, <1>1 DEF Grown
  <1>5. Len(t) \in Nat /\ Len(below) \in Nat OBVIOUS
  <1> HIDE DEF Paths
  <1>4. u \in Seq(Paths) /\ Len(u) = Len(a) + Len(below)
    <2>1. a \o below \in Seq(Paths) /\ Len(a \o below) = Len(a) + Len(below) BY <1>2, ConcatProperties
    <2> QED BY <1>3, <2>1
  <1>6. \A i \in 1 .. Len(a) : u[i] = a[i] BY <1>2, <1>3, <1>5
  <1>7. \A i \in 1 .. Len(below) : u[Len(a) + i] = below[i] BY <1>2, <1>3, <1>5
  <1>8. u[Len(t) + 1] = path
    <2>1. Len(t) + 1 \in 1 .. Len(a) BY <1>2, <1>5
    <2> QED BY <1>2, <1>6, <2>1
  <1>9. \A i \in 1 .. Len(t) : u[i] = t[i]
    <2>1. \A i \in 1 .. Len(t) : i \in 1 .. Len(a) BY <1>2, <1>5
    <2> QED BY <1>2, <1>6, <2>1
  <1>10. u # <<>> /\ DOMAIN u = 1 .. Len(t) + 1 + Len(below) BY <1>2, <1>4, <1>5
  <1> QED BY <1>0, <1>2, <1>4, <1>7, <1>8, <1>9, <1>10 DEF Joined

\* Where a mount of the grown table comes from.
From(t, path, below, u, i) ==
    \/ i \in DOMAIN t /\ i < Len(t) + 1 /\ u[i] = t[i]
    \/ i = Len(t) + 1 /\ u[i] = path
    \/ i > Len(t) + 1 /\ i - (Len(t) + 1) \in DOMAIN below /\ u[i] = below[i - (Len(t) + 1)]
LEMMA GrownFrom ==
    ASSUME NEW t \in Seq(Paths), NEW path, NEW below \in Seq(Paths), NEW u,
           Joined(t, path, below, u), NEW i \in DOMAIN u
    PROVE  From(t, path, below, u, i)
  <1>1. Len(t) \in Nat /\ Len(below) \in Nat /\ DOMAIN t = 1 .. Len(t) /\ DOMAIN below = 1 .. Len(below) OBVIOUS
  <1>2. i \in 1 .. Len(t) + 1 + Len(below) BY DEF Joined
  <1>3. CASE i <= Len(t)
    <2>1. i \in 1 .. Len(t) /\ i < Len(t) + 1 BY <1>1, <1>2, <1>3
    <2> QED BY <1>1, <2>1 DEF Joined, From
  <1>4. CASE i = Len(t) + 1 BY <1>4 DEF Joined, From
  <1>5. CASE i > Len(t) + 1
    <2>1. PICK k \in 1 .. Len(below) : k = i - (Len(t) + 1) /\ i = Len(t) + 1 + k
      <3>1. i - (Len(t) + 1) \in 1 .. Len(below) BY <1>1, <1>2, <1>5
      <3>2. i = Len(t) + 1 + (i - (Len(t) + 1)) BY <1>1, <1>2
      <3> QED BY <3>1, <3>2
    <2>2. u[i] = below[k] BY <2>1 DEF Joined
    <2> QED BY <1>1, <1>5, <2>1, <2>2 DEF From
  <1>6. i \in Nat BY <1>1, <1>2
  <1> QED BY <1>1, <1>6, <1>3, <1>4, <1>5

\* What is mounted next hides nothing, nor does what comes along with it.
Over(path, below) ==
    /\ path \in Paths /\ below \in Seq(Paths)
    /\ \A i \in DOMAIN table : ~M!Hides(path, table[i])
    /\ \A k \in DOMAIN below : /\ Len(below[k]) > Len(path) /\ below[k] # <<>>
                               /\ \A i \in DOMAIN table : ~M!Hides(below[k], table[i])
    /\ \A j, k \in DOMAIN below : j < k => ~M!Hides(below[k], below[j])
    /\ (path = <<>>) = (table = <<>>)

LEMMA AttachKeeps ==
    ASSUME NEW path, NEW below, Stacked, Over(path, below),
           table' = Grown(table, path, below), tracked' = Append(tracked, path)
    PROVE  Stacked' /\ Joined(table, path, below, table') /\ tracked' # <<>>
  <1>1. PICK t, u : t = table /\ u = table' OBVIOUS
  <1>2. t \in Seq(Paths) /\ path \in Paths /\ below \in Seq(Paths) BY <1>1 DEF Stacked, Over
  <1>3. Joined(t, path, below, u) BY <1>1, <1>2, GrownIs
  <1>4. \A i \in DOMAIN u : From(t, path, below, u, i) BY <1>2, <1>3, GrownFrom
  <1>5. /\ DOMAIN t = 1 .. Len(t) /\ Len(t) \in Nat /\ DOMAIN below = 1 .. Len(below) /\ Len(below) \in Nat
        /\ DOMAIN u \subseteq Nat
    BY <1>2, <1>3 DEF Joined
  <1>6. \A i \in DOMAIN t : t[i] \in Paths BY <1>2
  <1>7. \A k \in DOMAIN below : below[k] \in Paths BY <1>2
  <1>8. ASSUME NEW i \in DOMAIN u, NEW j \in DOMAIN u, i < j PROVE ~M!Hides(u[j], u[i])
    <2>0. From(t, path, below, u, i) /\ From(t, path, below, u, j) /\ i \in Nat /\ j \in Nat BY <1>4, <1>5
    <2>1. CASE j \in DOMAIN t /\ j < Len(t) + 1 /\ u[j] = t[j]
      <3>1. i \in DOMAIN t /\ u[i] = t[i]
        <4>1. i < Len(t) + 1 BY <1>5, <1>8, <2>0, <2>1
        <4> QED BY <1>5, <2>0, <4>1 DEF From
      <3> QED BY <1>1, <1>8, <2>1, <3>1 DEF Stacked, M!NothingHidden
    <2>2. CASE j = Len(t) + 1 /\ u[j] = path
      <3>1. i \in DOMAIN t /\ u[i] = t[i]
        <4>1. i < Len(t) + 1 BY <1>8, <2>2
        <4> QED BY <1>5, <2>0, <4>1 DEF From
      <3> QED BY <1>1, <2>2, <3>1 DEF Over
    <2>3. CASE j > Len(t) + 1 /\ j - (Len(t) + 1) \in DOMAIN below /\ u[j] = below[j - (Len(t) + 1)]
      <3>1. PICK k \in DOMAIN below : k = j - (Len(t) + 1) /\ u[j] = below[k] BY <2>3
      <3>2. CASE i \in DOMAIN t /\ u[i] = t[i] BY <1>1, <3>1, <3>2 DEF Over
      <3>3. CASE u[i] = path
        <4>1. Len(below[k]) > Len(path) BY DEF Over
        <4>2. Len(below[k]) \in Nat /\ Len(path) \in Nat BY <1>2, <1>7 DEF Paths
        <4>3. ~(Len(below[k]) < Len(path)) BY <4>1, <4>2
        <4> QED BY <1>2, <1>7, <3>1, <3>3, <4>3, HidesFacts
      <3>4. CASE i > Len(t) + 1 /\ i - (Len(t) + 1) \in DOMAIN below /\ u[i] = below[i - (Len(t) + 1)]
        <4>1. PICK h \in DOMAIN below : h = i - (Len(t) + 1) /\ u[i] = below[h] BY <3>4
        <4>2. h < k BY <1>5, <1>8, <2>0, <3>1, <4>1
        <4> QED BY <3>1, <4>1, <4>2 DEF Over
      <3> QED BY <2>0, <3>2, <3>3, <3>4 DEF From
    <2> QED BY <2>0, <2>1, <2>2, <2>3 DEF From
  <1>9. ASSUME NEW i \in DOMAIN u, u[i] = <<>> PROVE i = 1
    <2>1. CASE i \in DOMAIN t /\ u[i] = t[i]
      <3>1. 1 \in DOMAIN t /\ t[1] = <<>> BY <1>1, <1>5, <2>1 DEF Stacked
      <3> QED BY <1>1, <1>9, <2>1, <3>1 DEF Stacked, OneRoot
    <2>2. CASE i = Len(t) + 1 /\ u[i] = path
      <3>1. t = <<>> BY <1>1, <1>9, <2>2 DEF Over
      <3> QED BY <2>2, <3>1
    <2>3. CASE i > Len(t) + 1 /\ i - (Len(t) + 1) \in DOMAIN below /\ u[i] = below[i - (Len(t) + 1)]
      BY <1>9, <2>3 DEF Over
    <2> QED BY <1>4, <2>1, <2>2, <2>3 DEF From
  <1>10. u[1] = <<>>
    <2>1. CASE t = <<>>
      <3>1. Len(t) = 0 /\ path = <<>> BY <1>1, <2>1 DEF Over
      <3> QED BY <1>3, <3>1 DEF Joined
    <2>2. CASE t # <<>>
      <3>1. 1 \in 1 .. Len(t) /\ t[1] = <<>> BY <1>1, <1>2, <1>5, <2>2 DEF Stacked
      <3> QED BY <1>3, <3>1 DEF Joined
    <2> QED BY <2>1, <2>2
  <1>11. tracked' \in Seq(Paths) /\ tracked' # <<>> /\ tracked'[1] = <<>>
    <2>1. PICK v : v = tracked OBVIOUS
    <2>2. v \in Seq(Paths) /\ tracked' = Append(v, path) BY <2>1 DEF Stacked
    <2>3. /\ tracked' \in Seq(Paths) /\ Len(tracked') = Len(v) + 1 /\ tracked'[Len(v) + 1] = path
          /\ \A k \in 1 .. Len(v) : tracked'[k] = v[k]
      BY <1>2, <2>2, AppendProperties
    <2>4. Len(v) \in Nat BY <2>2
    <2>5. tracked' # <<>> BY <2>3, <2>4
    <2>6. CASE v = <<>>
      <3>1. Len(v) = 0 /\ path = <<>> BY <2>1, <2>6 DEF Over, Stacked
      <3> QED BY <2>3, <2>5, <3>1
    <2>7. CASE v # <<>>
      <3>1. 1 \in 1 .. Len(v) /\ v[1] = <<>> BY <2>1, <2>2, <2>4, <2>7 DEF Stacked
      <3> QED BY <2>3, <2>5, <3>1
    <2> QED BY <2>6, <2>7
  <1>12. M!NothingHidden' BY <1>1, <1>8 DEF M!NothingHidden, M!Hides
  <1>13. OneRoot' BY <1>1, <1>9 DEF OneRoot
  <1>14. u \in Seq(Paths) /\ u # <<>> BY <1>3 DEF Joined
  <1> QED BY <1>1, <1>3, <1>10, <1>11, <1>12, <1>13, <1>14 DEF Stacked

LEMMA StackedStays ==
    ASSUME Stacked, UNCHANGED <<table, tracked>>
    PROVE  Stacked'
  BY DEF Stacked, M!NothingHidden, M!Hides, OneRoot

LEMMA PlanStays ==
    ASSUME PlanShape, UNCHANGED <<fstab, matching>>, planned' \subseteq planned
    PROVE  PlanShape'
  BY DEF PlanShape, M!UniquelyMounted, M!Planned, M!Considered, M!Found, M!Device

\* A mount that fails.
LEMMA FailsKeeps ==
    ASSUME MountInv, mounting \in Building, mounting' = "release", planned' \subseteq planned,
           UNCHANGED <<matching, fstab, table, tracked, known, failed>>
    PROVE  MountInv'
  <1>1. Stacked' BY StackedStays DEF MountInv, Built
  <1>2. PlanShape' BY PlanStays DEF MountInv
  <1>3. Built' BY <1>1 DEF MountInv, Built
  <1> QED BY <1>2, <1>3 DEF MountInv, Building

LEMMA RootKeeps == MountInv /\ M!MountRoot => MountInv'
  <1> SUFFICES ASSUME MountInv, M!MountRoot PROVE MountInv' OBVIOUS
  <1>0. mounting = "root" /\ Built BY DEF M!MountRoot, MountInv, Building
  <1>1. CASE mounting' = "release" /\ UNCHANGED <<table, tracked>>
    BY <1>0, <1>1, FailsKeeps DEF M!MountRoot, Building
  <1>2. CASE table' = Grown(table, <<>>, <<>>) /\ tracked' = Append(tracked, <<>>) /\ mounting' = "fstab"
    <2>1. PICK path, below : path = <<>> /\ below = <<>> OBVIOUS
    <2>2. table = <<>> /\ Stacked BY <1>0 DEF Built, Stacked
    <2>3. Over(path, below) BY <2>1, <2>2 DEF Over, Paths
    <2>4. Stacked' /\ Joined(table, path, below, table') /\ tracked' # <<>>
      BY <1>2, <2>1, <2>2, <2>3, AttachKeeps
    <2>5. \A i \in DOMAIN table' : table'[i] = <<>>
      <3>1. Len(table) = 0 /\ Len(below) = 0 BY <2>1, <2>2
      <3>2. DOMAIN table' = 1 .. 1 /\ table'[1] = path BY <2>4, <3>1 DEF Joined
      <3> QED BY <2>1, <3>2
    <2>6. PlanShape' BY PlanStays DEF M!MountRoot, MountInv
    <2>7. fstab' \in Fstabs /\ planned' \subseteq DOMAIN fstab' BY <2>6 DEF PlanShape
    <2>8. \A k \in planned' : Len(fstab'[k].path) \in Nat
      <3>1. UNCHANGED fstab BY DEF M!MountRoot
      <3>2. fstab \in Fstabs BY <2>7, <3>1
      <3>3. \A k \in DOMAIN fstab : fstab[k].path \in Paths BY <3>2, Lines
      <3> QED BY <2>7, <3>1, <3>3 DEF Paths
    <2>9. Built'
      <3>1. \A i \in DOMAIN table', k \in planned' : Len(table'[i]) <= Len(fstab'[k].path)
        BY <2>5, <2>8
      <3> QED BY <1>0, <1>2, <2>4, <2>5, <3>1 DEF Built, Free, M!MountRoot
    <2> QED BY <1>2, <2>6, <2>9 DEF MountInv, Building
  <1> QED BY <1>1, <1>2 DEF M!MountRoot, M!Attach, Grown

LEMMA FoundOnce ==
    ASSUME NEW line, M!Found(line) # {}, \A i, j \in M!Found(line) : i = j
    PROVE  M!Cardinality(M!Found(line)) = 1
  <1>1. PICK x : M!Found(line) = {x} OBVIOUS
  <1>2. M!Cardinality({x}) = Cardinality({x}) BY DEF M!Cardinality, Cardinality
  <1> QED BY <1>1, <1>2, FS_Singleton

LEMMA ReadKeeps == MountInv /\ M!ReadFstab => MountInv'
  <1> SUFFICES ASSUME MountInv, M!ReadFstab PROVE MountInv' OBVIOUS
  <1>0. mounting = "fstab" /\ Built /\ PlanShape BY DEF M!ReadFstab, MountInv, Building
  <1>1. CASE mounting' = "release" /\ UNCHANGED planned
    BY <1>0, <1>1, FailsKeeps DEF M!ReadFstab, Building
  <1>2. CASE mounting' # "release"
    <2>1. /\ \A k \in DOMAIN fstab : M!Considered(fstab[k]) => ~M!Ambiguous(fstab[k])
          /\ planned' = {k \in M!PlanMounts : M!Device(fstab[k]).name # SystemPartition}
          /\ mounting' = "mounts" /\ UNCHANGED <<matching, fstab, table, tracked, known, failed>>
      BY <1>2 DEF M!ReadFstab
    <2>2. planned' \subseteq DOMAIN fstab /\ \A k \in planned' : M!Planned(fstab[k]) BY <2>1 DEF M!PlanMounts
    <2>3. ASSUME matching = "unique", NEW k \in planned'
          PROVE  M!Cardinality(M!Found(fstab[k])) = 1
      <3>1. M!Considered(fstab[k]) /\ M!Found(fstab[k]) # {} BY <2>2 DEF M!Planned
      <3>2. ~M!Ambiguous(fstab[k]) BY <2>1, <2>2, <3>1
      <3>3. \A i, j \in M!Found(fstab[k]) : i = j BY <2>3, <3>2 DEF M!Ambiguous
      <3> QED BY <3>1, <3>3, FoundOnce
    <2>4. PlanShape'
      <3>1. \A k \in planned' : fstab[k].path # <<>> BY <2>2 DEF M!Planned
      <3>2. M!UniquelyMounted'
        BY <2>1, <2>2, <2>3 DEF M!UniquelyMounted, M!Planned, M!Considered, M!Found, M!Device
      <3> QED BY <1>0, <2>1, <2>2, <3>1, <3>2 DEF PlanShape
    <2>5. Stacked' BY <1>0, <2>1, StackedStays DEF Built
    <2>6. \A i \in DOMAIN table, k \in planned' : Len(table[i]) <= Len(fstab[k].path)
      <3> SUFFICES ASSUME NEW i \in DOMAIN table, NEW k \in planned' PROVE Len(table[i]) <= Len(fstab[k].path)
        OBVIOUS
      <3>1. table[i] = <<>> BY <1>0 DEF Built
      <3>2. fstab[k].path \in Paths BY <1>0, <2>2, Lines DEF PlanShape
      <3> QED BY <3>1, <3>2 DEF Paths
    <2>7. Free(Specials)' BY <1>0, <2>1 DEF Built, Free
    <2>8. Built' BY <1>0, <2>1, <2>5, <2>6, <2>7 DEF Built, Stacked
    <2> QED BY <2>1, <2>4, <2>8 DEF MountInv, Building
  <1> QED BY <1>1, <1>2 DEF M!ReadFstab

LEMMA NextKeeps == MountInv /\ M!MountNext => MountInv'
  <1> SUFFICES ASSUME MountInv, M!MountNext PROVE MountInv' OBVIOUS
  <1>0. mounting = "mounts" /\ Built /\ PlanShape BY DEF M!MountNext, MountInv, Building
  <1>00. UNCHANGED <<matching, fstab, known, failed>> BY DEF M!MountNext
  <1>1. CASE planned = {}
    <2>1. mounting' = "special" /\ left' = <<<<"proc">>, <<"sys">>, <<"dev">>>> /\ UNCHANGED <<planned, table, tracked>>
      BY <1>1 DEF M!MountNext, M!Special
    <2>2. Stacked' BY <1>0, <2>1, StackedStays DEF Built
    <2>3. PlanShape' BY <1>0, <1>00, <2>1, PlanStays
    <2>4. left' \in Stacks /\ Coming(left') \subseteq Specials
      <3>1. PICK l : l = left' OBVIOUS
      <3>2. DOMAIN l = {1, 2, 3} /\ l[1] = <<"proc">> /\ l[2] = <<"sys">> /\ l[3] = <<"dev">>
        BY <2>1, <3>1
      <3>3. Coming(l) \subseteq Specials BY <3>2 DEF Coming, Specials
      <3> QED BY <2>1, <3>1, <3>3 DEF Stacks
    <2>5. \A i \in DOMAIN table : table[i] # <<>> => table[i][1] \notin Coming(left')
      BY <1>0, <2>4 DEF Built, Free
    <2>6. Built' BY <1>0, <1>00, <2>1, <2>2, <2>4, <2>5 DEF Built, Free, Stacked, Coming
    <2> QED BY <2>1, <2>3, <2>6 DEF MountInv, Building
  <1>2. CASE mounting' = "release" /\ planned' \subseteq planned /\ UNCHANGED <<table, tracked>>
    BY <1>0, <1>00, <1>2, FailsKeeps DEF Building
  <1>3. CASE /\ planned # {} /\ mounting' = "mounts" /\ planned' = planned \ {M!First(planned)}
             /\ table' = Grown(table, fstab[M!First(planned)].path, <<>>)
             /\ tracked' = Append(tracked, fstab[M!First(planned)].path)
    <2>1. PICK f, path, below : f = M!First(planned) /\ path = fstab[f].path /\ below = <<>> OBVIOUS
    <2>2. f \in planned /\ \A k \in planned : Len(path) <= Len(fstab[k].path)
      BY <1>0, <1>3, <2>1, FirstIs DEF M!Depth
    <2>3. /\ path \in Paths /\ path # <<>> /\ path[1] \notin Specials
          /\ \A k \in planned : fstab[k].path \in Paths
      BY <1>0, <2>1, <2>2, Lines DEF PlanShape
    <2>4. ASSUME NEW i \in DOMAIN table PROVE ~M!Hides(path, table[i])
      <3>1. table[i] \in Paths BY <1>0 DEF Built, Stacked
      <3>2. Len(table[i]) <= Len(path) BY <1>0, <2>1, <2>2 DEF Built
      <3>3. Len(table[i]) \in Nat /\ Len(path) \in Nat BY <2>3, <3>1 DEF Paths
      <3> QED BY <2>3, <3>1, <3>2, <3>3, HidesFacts
    <2>5. Over(path, below)
      <3>1. table # <<>> BY <1>0 DEF Built, Stacked
      <3>2. below \in Seq(Paths) /\ DOMAIN below = {} BY <2>1
      <3> QED BY <2>3, <2>4, <3>1, <3>2 DEF Over
    <2>6. Stacked' /\ Joined(table, path, below, table') /\ tracked' # <<>>
      BY <1>0, <1>3, <2>1, <2>5, AttachKeeps DEF Built
    <2>7. table \in Seq(Paths) /\ below \in Seq(Paths) /\ DOMAIN below = {} BY <1>0, <2>1 DEF Built, Stacked
    <2>8. \A i \in DOMAIN table' : (i \in DOMAIN table /\ table'[i] = table[i]) \/ table'[i] = path
      <3>1. \A i \in DOMAIN table' : From(table, path, below, table', i) BY <2>6, <2>7, GrownFrom
      <3> QED BY <2>7, <3>1 DEF From
    <2>9. PlanShape' BY <1>0, <1>00, <1>3, PlanStays
    <2>10. Free(Specials)' BY <1>0, <2>3, <2>8 DEF Free, Built
    <2>11. \A i \in DOMAIN table', k \in planned' : Len(table'[i]) <= Len(fstab'[k].path)
      BY <1>0, <1>00, <1>3, <2>2, <2>8 DEF Built
    <2>12. Built' BY <1>0, <1>00, <1>3, <2>6, <2>10, <2>11 DEF Built
    <2> QED BY <1>3, <2>9, <2>12 DEF MountInv, Building
  <1> QED BY <1>1, <1>2, <1>3 DEF M!MountNext, M!Attach, Grown

LEMMA StackFacts ==
    ASSUME NEW s \in Stacks, s # <<>>
    PROVE  /\ \E name \in Specials : Head(s) = <<name>> /\ Coming(Tail(s)) \subseteq Coming(s) \ {name}
                                    /\ name \in Coming(s)
           /\ Tail(s) \in Stacks
  <1>0. PICK t : t = Tail(s) OBVIOUS
  <1>1. CASE s = <<<<"proc">>, <<"sys">>, <<"dev">>>>
    <2>1. Head(s) = <<"proc">> /\ t = <<<<"sys">>, <<"dev">>>> BY <1>0, <1>1
    <2>2. DOMAIN t = {1, 2} /\ t[1] = <<"sys">> /\ t[2] = <<"dev">> BY <2>1
    <2>3. DOMAIN s = {1, 2, 3} /\ s[1] = <<"proc">> /\ s[2] = <<"sys">> /\ s[3] = <<"dev">> BY <1>1
    <2>4. Coming(t) = {"sys", "dev"} /\ Coming(s) = {"proc", "sys", "dev"} BY <2>2, <2>3 DEF Coming
    <2> QED BY <1>0, <2>1, <2>4 DEF Stacks, Specials
  <1>2. CASE s = <<<<"sys">>, <<"dev">>>>
    <2>1. Head(s) = <<"sys">> /\ t = <<<<"dev">>>> BY <1>0, <1>2
    <2>2. DOMAIN t = {1} /\ t[1] = <<"dev">> BY <2>1
    <2>3. DOMAIN s = {1, 2} /\ s[1] = <<"sys">> /\ s[2] = <<"dev">> BY <1>2
    <2>4. Coming(t) = {"dev"} /\ Coming(s) = {"sys", "dev"} BY <2>2, <2>3 DEF Coming
    <2> QED BY <1>0, <2>1, <2>4 DEF Stacks, Specials
  <1>3. CASE s = <<<<"dev">>>>
    <2>1. Head(s) = <<"dev">> /\ t = <<>> BY <1>0, <1>3
    <2>2. DOMAIN t = {} BY <2>1
    <2>3. DOMAIN s = {1} /\ s[1] = <<"dev">> BY <1>3
    <2>4. Coming(t) = {} /\ Coming(s) = {"dev"} BY <2>2, <2>3 DEF Coming
    <2> QED BY <1>0, <2>1, <2>4 DEF Stacks, Specials
  <1> QED BY <1>1, <1>2, <1>3 DEF Stacks

LEMMA OneIs == ASSUME NEW X, NEW x \in X PROVE <<x>> \in Seq(X) OBVIOUS

LEMMA SpecialKeeps == MountInv /\ M!MountSpecial => MountInv'
  <1> SUFFICES ASSUME MountInv, M!MountSpecial PROVE MountInv' OBVIOUS
  <1>0. mounting = "special" /\ Built /\ PlanShape BY DEF M!MountSpecial, MountInv, Building
  <1>00. UNCHANGED <<matching, fstab, planned, known, failed>> BY DEF M!MountSpecial
  <1>01. PlanShape' BY <1>0, <1>00, PlanStays
  <1>1. CASE mounting' = "mounted" /\ UNCHANGED <<left, table, tracked>>
    <2>1. Stacked' BY <1>0, <1>1, StackedStays DEF Built
    <2>2. Built' BY <1>0, <1>00, <1>1, <2>1 DEF Built
    <2> QED BY <1>01, <1>1, <2>2 DEF MountInv, Building
  <1>2. CASE mounting' = "release" /\ UNCHANGED <<table, tracked>>
    BY <1>0, <1>00, <1>2, FailsKeeps DEF Building
  <1>3. CASE /\ left # <<>> /\ left' = Tail(left) /\ mounting' = "special"
             /\ table' = Grown(table, Head(left), HostMounts[Head(left)[1]])
             /\ tracked' = Append(tracked, Head(left))
    <2>0. /\ left \in Stacks /\ Tail(left) \in Stacks
          /\ \E name \in Specials : /\ Head(left) = <<name>> /\ name \in Coming(left)
                                   /\ Coming(Tail(left)) \subseteq Coming(left) \ {name}
      BY <1>0, <1>3, StackFacts DEF Built
    <2>01. PICK name \in Specials : /\ Head(left) = <<name>> /\ name \in Coming(left)
                                    /\ Coming(Tail(left)) \subseteq Coming(left) \ {name}
      BY <2>0
    <2>1. PICK path, below : path = <<name>> /\ below = HostMounts[name] OBVIOUS
    <2>2. /\ left \in Stacks /\ left' \in Stacks /\ name \in Specials /\ name \in Coming(left)
          /\ Coming(left') \subseteq Coming(left) \ {name}
          /\ path = Head(left) /\ below = HostMounts[Head(left)[1]]
      BY <1>3, <2>0, <2>01, <2>1
    <2>3. path \in Paths /\ path # <<>> /\ Len(path) = 1 /\ path[1] = name
      <3>1. name \in Names BY <2>2 DEF Names
      <3>2. <<name>> \in Seq(Names) BY <3>1, OneIs
      <3>3. path # <<>> /\ Len(path) = 1 /\ path[1] = name BY <2>1
      <3> QED BY <2>1, <3>2, <3>3 DEF Paths
    <2>4. /\ below \in Seq(Paths)
          /\ \A k \in DOMAIN below : Len(below[k]) > 1 /\ below[k][1] = name
          /\ \A j, k \in DOMAIN below : j < k => ~M!Hides(below[k], below[j])
      BY <2>1, <2>2, HostPlain DEF Plain
    <2>5. \A k \in DOMAIN below : below[k] \in Paths /\ below[k] # <<>>
      <3>1. \A k \in DOMAIN below : below[k] \in Paths BY <2>4
      <3> QED BY <2>4, <3>1 DEF Paths
    <2>6. ASSUME NEW p \in Paths, p # <<>>, p[1] = name, NEW i \in DOMAIN table PROVE ~M!Hides(p, table[i])
      <3>1. table[i] \in Paths BY <1>0 DEF Built, Stacked
      <3>2. table[i] # <<>> => table[i][1] # name BY <1>0, <2>2 DEF Built, Free
      <3> QED BY <2>6, <3>1, <3>2, HidesFacts
    <2>7. Over(path, below)
      <3>1. table # <<>> BY <1>0 DEF Built, Stacked
      <3> QED BY <2>3, <2>4, <2>5, <2>6, <3>1 DEF Over
    <2>8. Stacked' /\ Joined(table, path, below, table') /\ tracked' # <<>>
      BY <1>0, <1>3, <2>2, <2>7, AttachKeeps DEF Built
    <2>9. Free(Coming(left))'
      <3>1. \A i \in DOMAIN table' : From(table, path, below, table', i)
        <4>1. table \in Seq(Paths) BY <1>0 DEF Built, Stacked
        <4> QED BY <2>4, <2>8, <4>1, GrownFrom
      <3> SUFFICES ASSUME NEW i \in DOMAIN table', table'[i] # <<>> PROVE table'[i][1] \notin Coming(left')
        BY DEF Free, Coming
      <3>2. CASE i \in DOMAIN table /\ table'[i] = table[i] BY <1>0, <2>2, <3>2 DEF Built, Free
      <3>3. CASE table'[i] = path BY <2>2, <2>3, <3>3
      <3>4. CASE i - (Len(table) + 1) \in DOMAIN below /\ table'[i] = below[i - (Len(table) + 1)]
        BY <2>2, <2>4, <3>4
      <3> QED BY <3>1, <3>2, <3>3, <3>4 DEF From
    <2>10. Built' BY <1>0, <1>00, <1>3, <2>2, <2>8, <2>9 DEF Built
    <2> QED BY <1>01, <1>3, <2>10 DEF MountInv, Building
  <1> QED BY <1>1, <1>2, <1>3 DEF M!MountSpecial, M!Attach, Grown

LEMMA ScriptsKeep == MountInv /\ M!Scripts => MountInv'
  <1> SUFFICES ASSUME MountInv, M!Scripts PROVE MountInv' OBVIOUS
  <1>1. /\ mounting = "mounted" /\ mounting' = "release" /\ Built /\ PlanShape
        /\ UNCHANGED <<matching, fstab, planned, table, tracked, known, failed>>
    BY DEF M!Scripts, MountInv, Building
  <1>2. Stacked' BY <1>1, StackedStays DEF Built
  <1>3. Built' BY <1>1, <1>2 DEF Built
  <1> QED BY <1>1, <1>3, PlanStays DEF MountInv, Building

-----------------------------------------------------------------------------
(* Taking down.                                                            *)
LEMMA KillKeeps == MountInv /\ M!StopProcesses => MountInv'
  <1> SUFFICES ASSUME MountInv, M!StopProcesses PROVE MountInv' OBVIOUS
  <1>1. /\ mounting = "release" /\ mounting' \in {"release", "list"} /\ Built /\ PlanShape /\ tracked # <<>>
        /\ UNCHANGED <<matching, fstab, planned, table, tracked, known, failed>>
    BY DEF M!StopProcesses, MountInv, Building
  <1>2. Stacked' BY <1>1, StackedStays DEF Built
  <1>3. Built' BY <1>1, <1>2 DEF Built
  <1> QED BY <1>1, <1>3, PlanStays DEF MountInv, Building

LEMMA NothingKeeps == MountInv /\ M!ReleaseNothing => MountInv'
  <1> SUFFICES ASSUME MountInv, M!ReleaseNothing PROVE MountInv' OBVIOUS
  <1>1. /\ mounting = "release" /\ mounting' = "released" /\ Built /\ PlanShape /\ tracked = <<>>
        /\ UNCHANGED <<matching, fstab, planned, table, tracked, inside, known, failed>>
    BY DEF M!ReleaseNothing, MountInv, Building
  <1>2. DOMAIN table = {} /\ ~failed
    <2>1. table = <<>> BY <1>1 DEF Built, Stacked
    <2> QED BY <1>1, <2>1 DEF Built
  <1> QED BY <1>1, <1>2, PlanStays DEF MountInv, Building, M!CleanRelease

Turned(s, r) == /\ r \in Seq(Paths) /\ Len(r) = Len(s) /\ r # <<>> /\ r[Len(r)] = s[1]
                /\ \A k \in 1 .. Len(r) : r[k] = s[Len(r) + 1 - k]
LEMMA ReverseIs ==
    ASSUME NEW s \in Seq(Paths), s # <<>>
    PROVE  Turned(s, M!Reverse(s))
  <1>1. PICK r : r = M!Reverse(s) OBVIOUS
  <1>2. r = [k \in 1 .. Len(s) |-> s[(Len(s) - k) + 1]] BY <1>1 DEF M!Reverse
  <1>3. Len(s) \in Nat /\ Len(s) > 0 OBVIOUS
  <1>4. \A k \in 1 .. Len(s) : (Len(s) - k) + 1 \in 1 .. Len(s) /\ (Len(s) - k) + 1 = Len(s) + 1 - k
    BY <1>3
  <1>5. \A k \in 1 .. Len(s) : s[(Len(s) - k) + 1] \in Paths BY <1>4
  <1>6. r \in Seq(Paths) /\ Len(r) = Len(s) BY <1>2, <1>3, <1>5
  <1>7. \A k \in 1 .. Len(r) : r[k] = s[Len(r) + 1 - k] BY <1>2, <1>4, <1>6
  <1>8. r # <<>> /\ r[Len(r)] = s[1]
    <2>1. Len(r) \in 1 .. Len(r) /\ Len(r) + 1 - Len(r) = 1 BY <1>3, <1>6
    <2>2. r # <<>> BY <1>3, <1>6
    <2> QED BY <1>7, <2>1, <2>2
  <1> QED BY <1>1, <1>6, <1>7, <1>8 DEF Turned

LEMMA ListKeeps == MountInv /\ M!ListMounts => MountInv'
  <1> SUFFICES ASSUME MountInv, M!ListMounts PROVE MountInv' OBVIOUS
  <1>1. /\ mounting = "list" /\ mounting' = "unmount" /\ Built /\ PlanShape
        /\ UNCHANGED <<matching, fstab, planned, table, inside, failed>>
    BY DEF M!ListMounts, MountInv, Building
  <1>2. /\ Stacked /\ tracked # <<>> /\ table # <<>> /\ table \in Seq(Paths) /\ tracked \in Seq(Paths)
        /\ tracked[1] = <<>> /\ table[1] = <<>> /\ ~failed
    BY <1>1 DEF Built, Stacked
  <1>3. \/ Turned(table, left')
        \/ Turned(tracked, left') /\ known' = FALSE
    BY <1>2, ReverseIs DEF M!ListMounts, M!NewestFirst
  <1>4. left' \in Seq(Paths) /\ left' # <<>> /\ left'[Len(left')] = <<>>
    BY <1>2, <1>3 DEF Turned
  <1>5. DOMAIN table = 1 .. Len(table) /\ Len(table) \in Nat /\ \A i \in DOMAIN table : table[i] \in Paths
    BY <1>2
  <1>6. M!NothingHidden' /\ OneRoot' BY <1>1, <1>2 DEF Stacked, M!NothingHidden, M!Hides, OneRoot
  <1>7. inside = "none" /\ known' => /\ DOMAIN table = 1 .. Len(left')
                                     /\ \A k \in 1 .. Len(left') : left'[k] = table[Len(left') + 1 - k]
    BY <1>3, <1>5 DEF Turned
  <1>8. DOMAIN table \subseteq Nat BY <1>5
  <1>9. TakenDown' BY <1>1, <1>2, <1>4, <1>5, <1>6, <1>7, <1>8 DEF TakenDown
  <1> QED BY <1>1, <1>9, PlanStays DEF MountInv, Building

\* The table without some of its mounts.
Reduced(t, u) == DOMAIN u \subseteq DOMAIN t /\ \A i \in DOMAIN u : u[i] = t[i]
LEMMA WithoutIs ==
    ASSUME NEW gone
    PROVE  /\ Reduced(table, M!Without(gone))
           /\ DOMAIN M!Without(gone) = DOMAIN table \ gone
  BY DEF M!Without, Reduced

LEMMA UnmountKeeps == MountInv /\ M!UnmountNext => MountInv'
  <1> SUFFICES ASSUME MountInv, M!UnmountNext PROVE MountInv' OBVIOUS
  <1>1. /\ mounting = "unmount" /\ TakenDown /\ PlanShape /\ left # <<>> /\ left' = Tail(left)
        /\ UNCHANGED <<mounting, matching, fstab, planned, inside, known>>
    BY DEF M!UnmountNext, MountInv, Building
  <1>2. PICK path, l, n : path = Head(left) /\ l = left /\ n = Len(left) OBVIOUS
  <1>3. /\ l \in Seq(Paths) /\ n \in Nat /\ n > 0 /\ l[n] = <<>> /\ path = l[1] /\ path \in Paths
        /\ left' \in Seq(Paths) /\ Len(left') = n - 1 /\ \A k \in 1 .. n - 1 : left'[k] = l[k + 1]
    <2>1. l \in Seq(Paths) /\ l # <<>> /\ l[n] = <<>> BY <1>1, <1>2 DEF TakenDown
    <2> QED BY <1>1, <1>2, <2>1
  <1>4. \/ M!Top(path) # {} /\ ~M!Busy(path) /\ table' = M!Without(M!Top(path)) /\ UNCHANGED failed
        \/ /\ ~(M!Top(path) # {} /\ ~M!Busy(path))
           /\ failed' = TRUE /\ table' = M!Without(M!Top(path) \cup M!Below(path))
    BY <1>2 DEF M!UnmountNext, M!Detached
  <1>5. Reduced(table, table') BY <1>4, WithoutIs
  <1>6. DOMAIN table' \subseteq Nat /\ \A i \in DOMAIN table' : table'[i] \in Paths
    BY <1>1, <1>5 DEF TakenDown, Reduced
  <1>7. M!NothingHidden' /\ OneRoot'
    <2>1. M!NothingHidden /\ OneRoot BY <1>1 DEF TakenDown
    <2>2. OneRoot' BY <1>5, <2>1 DEF OneRoot, Reduced
    <2>3. M!NothingHidden' BY <1>5, <2>1 DEF M!NothingHidden, Reduced, M!Hides
    <2> QED BY <2>2, <2>3
  <1>8. ASSUME left' = <<>> PROVE DOMAIN table' = {}
    <2>1. n = 1
      <3>1. n - 1 = 0 BY <1>3, <1>8
      <3> QED BY <1>3, <3>1
    <2>2. path = <<>> BY <1>3, <2>1
    <2>3. ASSUME NEW i \in DOMAIN table PROVE i \in M!Top(path) \/ i \in M!Below(path)
      <3>1. CASE table[i] = <<>>
        <4>1. \A j \in DOMAIN table : table[j] = path => j = i BY <1>1, <2>2, <3>1 DEF TakenDown, OneRoot
        <4>2. i \in Nat BY <1>1 DEF TakenDown
        <4> QED BY <2>2, <3>1, <4>1, <4>2 DEF M!Top
      <3>2. CASE table[i] # <<>>
        <4>1. table[i] \in Paths BY <1>1 DEF TakenDown
        <4>2. M!Hides(path, table[i]) BY <1>3, <2>2, <3>2, <4>1, HidesFacts
        <4> QED BY <4>2 DEF M!Below, M!Hides
      <3> QED BY <3>1, <3>2
    <2>4. ~M!Busy(path) => M!Below(path) = {} BY DEF M!Busy
    <2>5. CASE M!Top(path) # {} /\ ~M!Busy(path) /\ table' = M!Without(M!Top(path))
      <3>1. DOMAIN table' = DOMAIN table \ M!Top(path) BY <2>5, WithoutIs
      <3> QED BY <2>3, <2>4, <2>5, <3>1
    <2>6. CASE table' = M!Without(M!Top(path) \cup M!Below(path))
      <3>1. DOMAIN table' = DOMAIN table \ (M!Top(path) \cup M!Below(path)) BY <2>6, WithoutIs
      <3> QED BY <2>3, <3>1
    <2> QED BY <1>4, <2>5, <2>6
  <1>9. ASSUME left' # <<>> PROVE left'[Len(left')] = <<>>
    <2>1. n - 1 # 0 BY <1>3, <1>9
    <2>2. n - 1 \in 1 .. n - 1 /\ (n - 1) + 1 = n BY <1>3, <2>1
    <2> QED BY <1>3, <2>2
  <1>10. ASSUME inside = "none", known
         PROVE  /\ ~failed' /\ DOMAIN table' = 1 .. n - 1
                /\ \A k \in 1 .. n - 1 : left'[k] = table'[(n - 1) + 1 - k]
    <2>1. /\ ~failed /\ DOMAIN table = 1 .. n /\ \A k \in 1 .. n : l[k] = table[n + 1 - k]
          /\ M!NothingHidden
      BY <1>1, <1>2, <1>10 DEF TakenDown
    <2>2. path = table[n]
      <3>1. 1 \in 1 .. n /\ n + 1 - 1 = n BY <1>3
      <3> QED BY <1>3, <2>1, <3>1
    <2>3. n \in DOMAIN table /\ \A i \in DOMAIN table : i <= n /\ i \in Nat BY <1>3, <2>1
    <2>4. M!Top(path) = {n}
      <3>1. n \in M!Top(path) BY <2>2, <2>3 DEF M!Top
      <3>2. ASSUME NEW i \in M!Top(path) PROVE i = n
        <4>1. i \in DOMAIN table /\ n <= i BY <2>2, <2>3 DEF M!Top
        <4> QED BY <1>3, <2>3, <4>1
      <3> QED BY <3>1, <3>2
    <2>5. M!Below(path) = {}
      <3> SUFFICES ASSUME NEW i \in DOMAIN table, M!Hides(path, table[i]) PROVE FALSE
        BY DEF M!Below, M!Hides
      <3>1. table[i] \in Paths BY <1>1 DEF TakenDown
      <3>2. CASE i = n
        <4>1. Len(path) < Len(path) BY <1>3, <2>2, <3>2, HidesFacts
        <4> QED BY <1>3, <4>1 DEF Paths
      <3>3. CASE i # n
        <4>1. i < n BY <1>3, <2>3, <3>3
        <4> QED BY <2>1, <2>2, <2>3, <4>1 DEF M!NothingHidden
      <3> QED BY <3>2, <3>3
    <2>6. ~M!Busy(path) BY <1>10, <2>5 DEF M!Busy, M!ProcessesInside
    <2>7. table' = M!Without({n}) /\ failed' = failed BY <1>4, <2>4, <2>6
    <2>8. DOMAIN table' = 1 .. n - 1
      <3>1. DOMAIN table' = (1 .. n) \ {n} BY <2>1, <2>7, WithoutIs
      <3> QED BY <1>3, <3>1
    <2>9. ASSUME NEW k \in 1 .. n - 1 PROVE left'[k] = table'[(n - 1) + 1 - k]
      <3>1. k + 1 \in 1 .. n /\ n + 1 - (k + 1) = (n - 1) + 1 - k /\ (n - 1) + 1 - k \in 1 .. n - 1
        BY <1>3
      <3>2. left'[k] = l[k + 1] /\ l[k + 1] = table[n + 1 - (k + 1)] BY <1>3, <2>1, <3>1
      <3>3. table'[(n - 1) + 1 - k] = table[(n - 1) + 1 - k] BY <1>5, <2>8, <3>1 DEF Reduced
      <3> QED BY <3>1, <3>2, <3>3
    <2> QED BY <2>1, <2>7, <2>8, <2>9
  <1>11. TakenDown' BY <1>1, <1>3, <1>6, <1>7, <1>8, <1>9, <1>10 DEF TakenDown
  <1>12. PlanShape' BY <1>1, PlanStays
  <1> QED BY <1>1, <1>11, <1>12 DEF MountInv, Building

LEMMA SyncedKeeps == MountInv /\ M!Synced => MountInv'
  <1> SUFFICES ASSUME MountInv, M!Synced PROVE MountInv' OBVIOUS
  <1>1. /\ mounting = "unmount" /\ mounting' = "released" /\ TakenDown /\ PlanShape /\ left = <<>>
        /\ UNCHANGED <<matching, fstab, planned, table, inside, known, failed>>
    BY DEF M!Synced, MountInv, Building
  <1>2. DOMAIN table = {} /\ M!CleanRelease BY <1>1 DEF TakenDown, M!CleanRelease
  <1> QED BY <1>1, <1>2, PlanStays DEF MountInv, Building, M!CleanRelease

LEMMA MountStarts == M!Init => MountInv
  <1> SUFFICES ASSUME M!Init PROVE MountInv OBVIOUS
  <1>1. /\ mounting = "root" /\ fstab \in Fstabs /\ planned = {} /\ table = <<>> /\ tracked = <<>>
        /\ known = TRUE /\ failed = FALSE
    BY DEF M!Init
  <1>2. table \in Seq(Paths) /\ tracked \in Seq(Paths) /\ DOMAIN table = {} BY <1>1
  <1>3. Stacked BY <1>1, <1>2 DEF Stacked, M!NothingHidden, OneRoot
  <1>4. Built BY <1>1, <1>3 DEF Built
  <1>5. PlanShape BY <1>1 DEF PlanShape, M!UniquelyMounted
  <1> QED BY <1>1, <1>4, <1>5 DEF MountInv, Building

LEMMA MountStutters == MountInv /\ UNCHANGED mountVars => MountInv'
  <1> SUFFICES ASSUME MountInv, UNCHANGED mountVars PROVE MountInv' OBVIOUS
  <1>1. UNCHANGED <<mounting, matching, fstab, planned, left, table, tracked, inside, known, failed>>
    BY DEF mountVars
  <1>2. PlanShape' BY <1>1, PlanStays DEF MountInv
  <1>3. Built => Built' BY <1>1, StackedStays DEF Built, Free, Coming
  <1>4. TakenDown => TakenDown' BY <1>1 DEF TakenDown, M!NothingHidden, M!Hides, OneRoot
  <1> QED BY <1>1, <1>2, <1>3, <1>4 DEF MountInv, M!CleanRelease

LEMMA MountKeeps == MountInv /\ M!Next => MountInv'
  BY RootKeeps, ReadKeeps, NextKeeps, SpecialKeeps, ScriptsKeep, KillKeeps, NothingKeeps,
     ListKeeps, UnmountKeeps, SyncedKeeps DEF M!Next

(* SystemsAreReleased: a system is mounted so that no mount hides       *)
(* another (plan_mounts), a partition image's fstab mounts only what it    *)
(* names without ambiguity, and after the release (MountedSystem::release) *)
(* nothing is mounted; the release of a system that nothing holds busy,    *)
(* with the kernel's table read, does not fail.                            *)
THEOREM SystemsAreReleased == Spec => []MountsAreUndone
  <1> DEFINE Inv == part = "mount" => MountInv
  <1>1. Init => Inv
    BY MountStarts DEF Init
  <1>2. Inv /\ [Next]_vars => Inv'
    <2> SUFFICES ASSUME MountInv, part = "mount", [Next]_vars PROVE MountInv'
      <3>1. [Next]_vars => part' = part BY DEF Next, vars
      <3> QED BY <3>1
    <2>1. CASE Next BY <2>1, MountKeeps DEF Next
    <2>2. CASE UNCHANGED vars BY <2>2, MountStutters DEF vars
    <2> QED BY <2>1, <2>2
  <1>3. Inv => MountsAreUndone
    <2> SUFFICES ASSUME MountInv PROVE /\ M!NothingHidden /\ M!UniquelyMounted
                                       /\ M!NothingLeftMounted /\ M!CleanRelease
      BY DEF MountsAreUndone
    <2>1. CASE mounting \in Building
      BY <2>1 DEF MountInv, PlanShape, Built, Stacked, Building, M!NothingLeftMounted, M!CleanRelease
    <2>2. CASE mounting = "unmount"
      BY <2>2 DEF MountInv, PlanShape, TakenDown, M!NothingLeftMounted, M!CleanRelease
    <2>3. CASE mounting = "released"
      BY <2>3 DEF MountInv, PlanShape, M!NothingHidden, M!NothingLeftMounted
    <2> QED BY <2>1, <2>2, <2>3 DEF MountInv
  <1> QED BY <1>1, <1>2, <1>3, PTL DEF Spec

-----------------------------------------------------------------------------
(***************************************************************************)
(* The packer.  Up to the partition it is at, what it packed is every      *)
(* formatted one in its place, and what it found every system; the output  *)
(* is only ever renamed from an archive that was finished.                 *)
(***************************************************************************)
Count == Len(source.parts)
Rank(k) == Cardinality(K!Formatted(k))
SystemRank(k) == Cardinality(K!SystemsOf(k))

\* What was extracted or packed is the partition it was taken from.
CopyOf(q, p) == /\ IsRaw(q) /\ q.number = p.number /\ q.fs = p.fs /\ q.data = p.data /\ q.os = p.os
Fitting(q) == /\ q.fs \in [disk |-> {"ext4", "vfat", "btrfs", "swap"},
                           partition |-> {"ext4", "vfat", "btrfs"}][K!Kind]
              /\ ~source.gpt /\ K!Ext(q.fs) => q.state = "clean"

PackedUpTo(n) ==
    /\ DOMAIN packed = 1 .. Len(packed) /\ Len(packed) = Rank(n) /\ Rank(n) \in Nat
    /\ packed = [k \in DOMAIN packed |-> packed[k]]
    /\ \A k \in K!Formatted(n) : Rank(k) \in DOMAIN packed /\ CopyOf(packed[Rank(k)], source.parts[k])
    /\ \A j \in DOMAIN packed : Fitting(packed[j])
SystemsUpTo(n) ==
    /\ DOMAIN systems = 1 .. Len(systems) /\ Len(systems) = SystemRank(n) /\ SystemRank(n) \in Nat
    /\ systems = [k \in DOMAIN systems |-> systems[k]]
    /\ \A k \in K!SystemsOf(n) :
          SystemRank(k) \in DOMAIN systems /\ systems[SystemRank(k)] = source.parts[k].number

Cloning == {"check", "shrink", "clone"}
Through == {"choose", "create", "write", "rename"}
Working == {"probe", "extract", "whole"} \cup Cloning \cup Through
Extracted ==
    /\ raw = <<raw[1]>> /\ nth <= Count /\ CopyOf(raw[1], source.parts[nth])
    /\ raw[1].fs # "none"
    /\ raw[1].fs \in [disk |-> {"ext4", "vfat", "btrfs", "swap"},
                      partition |-> {"ext4", "vfat", "btrfs"}][K!Kind]
    /\ packing # "clone" => ~source.gpt /\ nth = 1 /\ K!Ext(raw[1].fs)
    /\ packing = "shrink" => raw[1].state = "clean"
    /\ packing = "clone" => Fitting(raw[1])

RootsPacked == /\ args.root \in K!Numbers \cup {0}
               /\ \A k \in DOMAIN K!Scripts : K!Scripts[k].root \in K!Numbers \cup {0}

\* How far a run is.
RunAtWork ==
    /\ K!Loads(args) /\ nth \in 1 .. Count + 1
    /\ PackedUpTo(nth - 1) /\ (args.root = 0 => SystemsUpTo(nth - 1))
    /\ packing = "probe" => nth = 1
    /\ packing = "extract" => source.gpt
    /\ packing = "whole" => ~source.gpt /\ nth = 1 /\ Count = 1 /\ source.parts[1].fs # "none"
    /\ packing \in Cloning => Extracted
    /\ packing \in Through => nth = Count + 1
    /\ packing \in {"create", "write", "rename"} => RootsPacked
    /\ packing = "rename" => packed # <<>> /\ partial = <<K!Archive>>

\* OUT.partial is of a run that is over, unless this one is about to write it or was killed.
PartialOk ==
    /\ runs \in Nat
    /\ partial # <<>> => /\ partial[1].run \in Nat /\ partial[1].run <= runs
                         /\ packing \notin {"idle", "write", "rename"} => partial[1].run < runs

PackInv ==
    /\ source \in RawFiles /\ imagefile = source
    /\ packing \in {"idle", "failed", "done"} \cup Working
    /\ packing \in Working => RunAtWork
    /\ PartialOk /\ K!OutIsWhole

LEMMA FileIs ==
    ASSUME source \in RawFiles
    PROVE  /\ Count \in Nat /\ DOMAIN source.parts = 1 .. Count /\ source.bytes \in Nat
           /\ source.gpt \in BOOLEAN
           /\ \A k \in 1 .. Count : IsRaw(source.parts[k])
           /\ ~source.gpt => Count <= 1 /\ \A k \in 1 .. Count : source.parts[k].used <= source.bytes
<1>1. PICK f \in RawFiles : f = source
  OBVIOUS
<1>2. f.parts \in Seq({f.parts[k] : k \in DOMAIN f.parts})
  BY FilesAssumption
<1>3. Len(f.parts) \in Nat /\ DOMAIN f.parts = 1 .. Len(f.parts)
  BY <1>2
<1>4. /\ f.gpt \in BOOLEAN /\ f.bytes \in Nat /\ \A k \in DOMAIN f.parts : IsRaw(f.parts[k])
      /\ ~f.gpt => Len(f.parts) <= 1 /\ \A k \in DOMAIN f.parts : f.parts[k].used <= f.bytes
  BY FilesAssumption
<1> QED BY <1>1, <1>3, <1>4 DEF Count

-----------------------------------------------------------------------------
\* Formatted partitions, and systems, are counted one by one.
LEMMA Ranks ==
    ASSUME source \in RawFiles, NEW n \in 0 .. Count
    PROVE  /\ IsFiniteSet(K!Formatted(n)) /\ Rank(n) \in Nat /\ Rank(n) <= n
           /\ IsFiniteSet(K!SystemsOf(n)) /\ SystemRank(n) \in Nat
<1>1. K!Formatted(n) \subseteq 1 .. n /\ n \in Nat
  BY FileIs DEF K!Formatted
<1>2. IsFiniteSet(1 .. n) /\ Cardinality(1 .. n) = n
  <2>1. 1 \in Int /\ n \in Int BY <1>1
  <2> QED BY <2>1, <1>1, FS_Interval
<1>3. IsFiniteSet(K!Formatted(n)) /\ Rank(n) <= n
  BY <1>1, <1>2, FS_Subset DEF Rank
<1>4. IsFiniteSet(K!SystemsOf(n))
  <2>1. K!SystemsOf(n) \subseteq K!Formatted(n) BY DEF K!SystemsOf
  <2> QED BY <2>1, <1>3, FS_Subset
<1> QED BY <1>3, <1>4, FS_CardinalityType DEF Rank, SystemRank

LEMMA NoneYet ==
    ASSUME source \in RawFiles
    PROVE  /\ K!Formatted(0) = {} /\ Rank(0) = 0
           /\ K!SystemsOf(0) = {} /\ SystemRank(0) = 0
<1>1. K!Formatted(0) = {}
  BY FileIs DEF K!Formatted
<1>2. K!SystemsOf(0) = {}
  BY <1>1 DEF K!SystemsOf
<1> QED BY <1>1, <1>2, FS_EmptySet DEF Rank, SystemRank

LEMMA OneMore ==
    ASSUME source \in RawFiles, NEW n \in 1 .. Count
    PROVE  /\ source.parts[n].fs = "none" =>
                  /\ K!Formatted(n) = K!Formatted(n - 1) /\ Rank(n) = Rank(n - 1)
           /\ source.parts[n].fs # "none" =>
                  /\ K!Formatted(n) = K!Formatted(n - 1) \cup {n}
                  /\ Rank(n) = Rank(n - 1) + 1
           /\ n \in K!SystemsOf(n) =>
                  /\ K!SystemsOf(n) = K!SystemsOf(n - 1) \cup {n}
                  /\ SystemRank(n) = SystemRank(n - 1) + 1
           /\ n \notin K!SystemsOf(n) =>
                  /\ K!SystemsOf(n) = K!SystemsOf(n - 1)
                  /\ SystemRank(n) = SystemRank(n - 1)
<1>0. DOMAIN source.parts = 1 .. Count /\ Count \in Nat
  BY FileIs
<1>1. K!Formatted(n) \ {n} = K!Formatted(n - 1)
  BY <1>0 DEF K!Formatted
<1>2. n \in K!Formatted(n) <=> source.parts[n].fs # "none"
  BY <1>0 DEF K!Formatted
<1>3. K!SystemsOf(n) \ {n} = K!SystemsOf(n - 1)
  BY <1>1 DEF K!SystemsOf
<1>4. n \notin K!Formatted(n - 1) /\ n \notin K!SystemsOf(n - 1)
  BY <1>1, <1>3
<1>5. IsFiniteSet(K!Formatted(n - 1)) /\ IsFiniteSet(K!SystemsOf(n - 1))
  <2>1. n - 1 \in 0 .. Count BY <1>0
  <2> QED BY <2>1, Ranks
<1>6. /\ Cardinality(K!Formatted(n - 1) \cup {n}) = Cardinality(K!Formatted(n - 1)) + 1
      /\ Cardinality(K!SystemsOf(n - 1) \cup {n}) = Cardinality(K!SystemsOf(n - 1)) + 1
  BY <1>4, <1>5, FS_AddElement
<1>7. ASSUME source.parts[n].fs = "none"
      PROVE  K!Formatted(n) = K!Formatted(n - 1)
  BY <1>1, <1>2, <1>7
<1>8. ASSUME source.parts[n].fs # "none"
      PROVE  K!Formatted(n) = K!Formatted(n - 1) \cup {n}
  BY <1>1, <1>2, <1>8
<1>9. ASSUME n \in K!SystemsOf(n)
      PROVE  K!SystemsOf(n) = K!SystemsOf(n - 1) \cup {n}
  BY <1>3, <1>9
<1>10. ASSUME n \notin K!SystemsOf(n)
       PROVE  K!SystemsOf(n) = K!SystemsOf(n - 1)
  BY <1>3, <1>10
<1> QED BY <1>6, <1>7, <1>8, <1>9, <1>10 DEF Rank, SystemRank

-----------------------------------------------------------------------------
LEMMA FaithfulStays ==
    ASSUME UNCHANGED source
    PROVE  \A a : K!Faithful(a)' = K!Faithful(a)
<1>1. \A n : K!Formatted(n)' = K!Formatted(n)
  BY DEF K!Formatted
<1>2. \A n : K!SystemsOf(n)' = K!SystemsOf(n)
  BY <1>1 DEF K!SystemsOf
<1> QED BY <1>1, <1>2 DEF K!Faithful

LEMMA OutStays ==
    ASSUME K!OutIsWhole, UNCHANGED <<source, out>>
    PROVE  K!OutIsWhole'
  BY FaithfulStays DEF K!OutIsWhole, K!Nothing

LEMMA KindStays ==
    ASSUME UNCHANGED <<source, imagefile>>
    PROVE  /\ K!Kind' = K!Kind /\ Count' = Count
           /\ \A n : Rank(n)' = Rank(n) /\ SystemRank(n)' = SystemRank(n)
           /\ \A n : K!Formatted(n)' = K!Formatted(n) /\ K!SystemsOf(n)' = K!SystemsOf(n)
           /\ \A q : Fitting(q)' = Fitting(q)
<1>1. /\ K!Kind' = K!Kind /\ Count' = Count
      /\ \A n : K!Formatted(n)' = K!Formatted(n)
  BY DEF K!Kind, Count, K!Formatted
<1>2. \A n : K!SystemsOf(n)' = K!SystemsOf(n)
  BY <1>1 DEF K!SystemsOf
<1>3. \A n : Rank(n)' = Rank(n) /\ SystemRank(n)' = SystemRank(n)
  BY <1>1, <1>2 DEF Rank, SystemRank
<1>4. \A q : Fitting(q)' = Fitting(q)
  BY <1>1 DEF Fitting
<1> QED BY <1>1, <1>2, <1>3, <1>4

\* Nothing more is packed.
LEMMA PackedStays ==
    ASSUME UNCHANGED <<source, imagefile, packed, systems>>, NEW n, NEW m, n = m, PackedUpTo(n)
    PROVE  PackedUpTo(m)' /\ (SystemsUpTo(n) => SystemsUpTo(m)')
  BY KindStays DEF PackedUpTo, SystemsUpTo

LEMMA PackStarts == K!Init => PackInv
<1> SUFFICES ASSUME K!Init PROVE PackInv OBVIOUS
<1>1. source \in RawFiles /\ imagefile = source /\ packing = "idle" /\ partial = <<>> /\ out = <<>> /\ runs = 0
  BY DEF K!Init, K!Nothing
<1>2. K!OutIsWhole BY <1>1 DEF K!OutIsWhole, K!Nothing
<1> QED BY <1>1, <1>2 DEF PackInv, PartialOk, Working, Cloning, Through

\* A step that leaves OUT alone and ends the run.
LEMMA RunOver ==
    ASSUME PackInv, packing' \in {"idle", "failed"}, UNCHANGED <<source, imagefile, out, runs>>,
           \/ UNCHANGED partial /\ (packing' = "failed" => packing \notin {"idle", "write", "rename"})
           \/ partial' = <<>>
    PROVE  PackInv'
<1>1. K!OutIsWhole' BY OutStays DEF PackInv
<1>2. PartialOk' BY DEF PartialOk, PackInv
<1> QED BY <1>1, <1>2 DEF PackInv, Working, Cloning, Through

LEMMA RunKeeps == ASSUME PackInv, NEW c \in PackCommands, K!Run(c) PROVE PackInv'
<1>1. /\ packing \in {"idle", "failed", "done"} /\ runs' = runs + 1 /\ args' = c
      /\ packing' = (IF K!Loads(c) THEN "probe" ELSE "failed")
      /\ nth' = 1 /\ packed' = <<>> /\ systems' = <<>> /\ UNCHANGED <<source, imagefile, partial, out>>
  BY DEF K!Run, K!Nothing
<1>2. K!OutIsWhole' BY <1>1, OutStays DEF PackInv
<1>3. PartialOk' BY <1>1 DEF PartialOk, PackInv
<1>4. ASSUME packing' = "probe" PROVE RunAtWork'
  <2>1. source \in RawFiles /\ nth' = 1 /\ Count \in Nat /\ Count' = Count
    BY <1>1, FileIs, KindStays DEF PackInv
  <2>2. PackedUpTo(0)'
    <3>1. Rank(0)' = 0 /\ K!Formatted(0)' = {} BY <1>1, <2>1, NoneYet, KindStays
    <3> QED BY <1>1, <3>1 DEF PackedUpTo
  <2>3. SystemsUpTo(0)'
    <3>1. SystemRank(0)' = 0 /\ K!SystemsOf(0)' = {} BY <1>1, <2>1, NoneYet, KindStays
    <3> QED BY <1>1, <3>1 DEF SystemsUpTo
  <2>4. nth' - 1 = 0 BY <2>1
  <2>5. K!Loads(args)'
    <3>1. K!Loads(c) BY <1>1, <1>4
    <3> QED BY <1>1, <3>1
  <2>6. PackedUpTo(nth - 1)' /\ SystemsUpTo(nth - 1)' BY <2>2, <2>3, <2>4
  <2> QED BY <1>4, <2>1, <2>5, <2>6 DEF RunAtWork, Cloning, Through
<1> QED BY <1>1, <1>2, <1>3, <1>4 DEF PackInv, Working, Cloning, Through

\* A step of a run that goes on, with the outputs and what was packed as they were.
LEMMA RunGoesOn ==
    ASSUME PackInv, packing \in Working, UNCHANGED <<source, imagefile, args, packed, systems, partial, out, runs>>,
           packing' \in Working \ {"rename"}, nth' = nth, packing \notin {"idle", "write", "rename"},
           packing' = "extract" => source.gpt,
           packing' = "probe" => nth = 1,
           packing' = "whole" => ~source.gpt /\ nth = 1 /\ Count = 1 /\ source.parts[1].fs # "none",
           packing' \in Cloning => Extracted',
           packing' \in Through => nth = Count + 1,
           packing' \in {"create", "write"} => RootsPacked
    PROVE  PackInv'
<1>1. K!OutIsWhole' BY OutStays DEF PackInv
<1>2. PartialOk' BY DEF PartialOk, PackInv
<1>3. RunAtWork BY DEF PackInv
<1>4. K!Loads(args)' BY <1>3 DEF RunAtWork
<1>5. PackedUpTo(nth - 1)' BY <1>3, PackedStays DEF RunAtWork
<1>6. (args.root = 0 => SystemsUpTo(nth - 1))' BY <1>3, PackedStays DEF RunAtWork
<1>7. Count' = Count BY KindStays
<1>8. RootsPacked => RootsPacked'
  <2>1. K!Scripts' = K!Scripts BY DEF K!Scripts
  <2>2. K!Numbers' = K!Numbers BY DEF K!Numbers
  <2> QED BY <2>1, <2>2 DEF RootsPacked
<1>9. RunAtWork' BY <1>3, <1>4, <1>5, <1>6, <1>7, <1>8 DEF RunAtWork, Working
<1> QED BY <1>1, <1>2, <1>9 DEF PackInv

LEMMA ProbeKeeps == PackInv /\ K!Probe => PackInv'
<1> SUFFICES ASSUME PackInv, K!Probe PROVE PackInv' OBVIOUS
<1>1. /\ packing = "probe" /\ RunAtWork /\ nth = 1
      /\ UNCHANGED <<source, imagefile, args, nth, packed, systems, partial, out, runs>>
  BY DEF K!Probe, K!outputs, PackInv, RunAtWork, Working
<1>2. CASE packing' = "failed"
  BY <1>1, <1>2, RunOver
<1>3. CASE packing' = "whole" /\ ~imagefile.gpt /\ imagefile.parts # <<>> /\ imagefile.parts[1].fs # "none"
  <2>1. source \in RawFiles /\ imagefile = source BY DEF PackInv
  <2>2. Count = 1
    <3>1. Count \in Nat /\ DOMAIN source.parts = 1 .. Count /\ Count <= 1 BY <1>3, <2>1, FileIs
    <3>2. Count # 0
      <4>1. source \in RawFiles /\ source.parts \in Seq({source.parts[k] : k \in DOMAIN source.parts})
        BY <2>1, FilesAssumption
      <4> QED BY <1>3, <2>1, <4>1 DEF Count
    <3> QED BY <3>1, <3>2
  <2> QED BY <1>1, <1>3, <2>1, <2>2, RunGoesOn DEF Working, Cloning, Through
<1>4. CASE packing' = "extract" /\ imagefile.gpt
  <2>1. imagefile = source BY DEF PackInv
  <2> QED BY <1>1, <1>4, <2>1, RunGoesOn DEF Working, Cloning, Through
<1> QED BY <1>2, <1>3, <1>4 DEF K!Probe

\* What comes next when nothing of the n-th partition is packed.
LEMMA Skipped ==
    ASSUME source \in RawFiles, NEW n \in 1 .. Count, source.parts[n].fs = "none"
    PROVE  /\ PackedUpTo(n - 1) => PackedUpTo(n)
           /\ SystemsUpTo(n - 1) => SystemsUpTo(n)
<1>1. K!Formatted(n) = K!Formatted(n - 1) /\ Rank(n) = Rank(n - 1)
  BY OneMore
<1>2. n \notin K!SystemsOf(n)
  BY DEF K!SystemsOf, K!Formatted
<1>3. K!SystemsOf(n) = K!SystemsOf(n - 1) /\ SystemRank(n) = SystemRank(n - 1)
  BY <1>2, OneMore
<1> QED BY <1>1, <1>3 DEF PackedUpTo, SystemsUpTo

LEMMA ExtractKeeps == PackInv /\ K!Extract => PackInv'
<1> SUFFICES ASSUME PackInv, K!Extract PROVE PackInv' OBVIOUS
<1>1. /\ packing = "extract" /\ RunAtWork /\ source.gpt /\ nth <= Count
      /\ UNCHANGED <<source, imagefile, args, packed, systems, partial, out, runs>>
      /\ source \in RawFiles /\ imagefile = source
  BY DEF K!Extract, K!outputs, PackInv, RunAtWork, Working, Count
<1>2. nth \in 1 .. Count /\ Count \in Nat
  BY <1>1, FileIs DEF RunAtWork
<1>3. CASE packing' = "failed"
  BY <1>1, <1>3, RunOver
<1>4. CASE nth' = nth + 1 /\ UNCHANGED <<packing, raw>> /\ source.parts[nth].fs = "none"
  <2>1. K!OutIsWhole' BY <1>1, OutStays DEF PackInv
  <2>2. PartialOk' BY <1>1, <1>4 DEF PartialOk, PackInv
  <2>3. PackedUpTo(nth) /\ (args.root = 0 => SystemsUpTo(nth))
    BY <1>1, <1>2, <1>4, Skipped DEF RunAtWork
  <2>4. nth' - 1 = nth /\ nth' \in 1 .. Count + 1 BY <1>2, <1>4
  <2>5. PackedUpTo(nth - 1)' /\ (args.root = 0 => SystemsUpTo(nth - 1))'
    BY <1>1, <2>3, <2>4, PackedStays
  <2>6. Count' = Count BY <1>1, KindStays
  <2>7. RunAtWork'
    BY <1>1, <1>4, <2>4, <2>5, <2>6 DEF RunAtWork, Cloning, Through
  <2> QED BY <1>1, <1>4, <2>1, <2>2, <2>7 DEF PackInv
<1>5. CASE /\ packing' = "clone" /\ raw' = <<source.parts[nth]>> /\ UNCHANGED nth
           /\ source.parts[nth].fs # "none"
           /\ source.parts[nth].fs \in {"ext4", "vfat", "btrfs", "swap"}
  <2>1. IsRaw(source.parts[nth]) BY <1>1, <1>2, FileIs
  <2>2. K!Kind = "disk" BY <1>1 DEF K!Kind
  <2>3. Extracted'
    <3>1. K!Kind' = "disk" /\ Count' = Count BY <1>1, <2>2, KindStays
    <3>2. PICK p : p = source.parts[nth] OBVIOUS
    <3>3. raw' = <<p>> /\ raw'[1] = p BY <1>5, <3>2
    <3>4. CopyOf(raw[1], source.parts[nth])' BY <1>1, <1>5, <2>1, <3>2, <3>3 DEF CopyOf, IsRaw
    <3>5. Fitting(raw[1])' BY <1>1, <1>5, <3>1, <3>2, <3>3 DEF Fitting
    <3> QED BY <1>1, <1>5, <3>1, <3>2, <3>3, <3>4, <3>5 DEF Extracted
  <2> QED BY <1>1, <1>5, <2>3, RunGoesOn DEF Working, Cloning, Through
<1> QED BY <1>1, <1>3, <1>4, <1>5 DEF K!Extract

LEMMA ExtractsDoneKeeps == PackInv /\ K!ExtractsDone => PackInv'
<1> SUFFICES ASSUME PackInv, K!ExtractsDone PROVE PackInv' OBVIOUS
<1>1. /\ packing = "extract" /\ packing' = "choose" /\ RunAtWork /\ nth > Count
      /\ UNCHANGED <<source, imagefile, args, nth, packed, systems, partial, out, runs>>
      /\ source \in RawFiles
  BY DEF K!ExtractsDone, K!outputs, PackInv, RunAtWork, Working, Count
<1>2. nth = Count + 1
  BY <1>1, FileIs DEF RunAtWork
<1> QED BY <1>1, <1>2, RunGoesOn DEF Working, Cloning, Through

LEMMA WholeKeeps == PackInv /\ K!Whole => PackInv'
<1> SUFFICES ASSUME PackInv, K!Whole PROVE PackInv' OBVIOUS
<1>1. /\ packing = "whole" /\ RunAtWork /\ ~source.gpt /\ nth = 1 /\ Count = 1 /\ source.parts[1].fs # "none"
      /\ UNCHANGED <<source, imagefile, args, nth, packed, systems, partial, out, runs>>
      /\ source \in RawFiles /\ imagefile = source
  BY DEF K!Whole, K!outputs, PackInv, RunAtWork, Working
<1>2. CASE packing' = "failed"
  BY <1>1, <1>2, RunOver
<1>3. CASE packing' # "failed"
  <2>1. PICK p : p = source.parts[1] OBVIOUS
  <2>2. PICK q : q = [p EXCEPT !.size = source.bytes] OBVIOUS
  <2>3. /\ p.fs \in {"ext4", "vfat", "btrfs"} /\ packing' = (IF K!Ext(p.fs) THEN "check" ELSE "clone")
        /\ raw' = <<q>>
    BY <1>1, <1>3, <2>1, <2>2 DEF K!Whole
  <2>4. IsRaw(p) /\ p.used <= source.bytes /\ source.bytes \in Nat BY <1>1, <2>1, FileIs
  <2>5. /\ IsRaw(q) /\ q.number = p.number /\ q.fs = p.fs /\ q.data = p.data /\ q.os = p.os
    BY <2>2, <2>4 DEF IsRaw
  <2>6. Extracted'
    <3>1. K!Kind' = "partition" /\ Count' = Count /\ ~source'.gpt
      <4>1. K!Kind = "partition" BY <1>1 DEF K!Kind
      <4> QED BY <1>1, <4>1, KindStays
    <3>2. raw' = <<raw'[1]>> /\ raw'[1] = q BY <2>3
    <3>3. CopyOf(raw[1], source.parts[nth])' BY <1>1, <2>1, <2>5, <3>2 DEF CopyOf, IsRaw
    <3>4. packing' = "clone" => Fitting(raw[1])' BY <2>3, <2>5, <3>1, <3>2 DEF Fitting
    <3> QED BY <1>1, <2>1, <2>3, <2>5, <3>1, <3>2, <3>3, <3>4 DEF Extracted
  <2> QED BY <1>1, <2>3, <2>6, RunGoesOn DEF Working, Cloning, Through
<1> QED BY <1>2, <1>3

\* The copy of a filesystem image is worked on.
LEMMA CopyKeeps ==
    ASSUME PackInv, packing \in {"check", "shrink"}, packing' \in {"shrink", "clone"},
           UNCHANGED <<source, imagefile, args, nth, packed, systems, partial, out, runs>>,
           NEW q, raw' = <<q>>, IsRaw(q), q.number = raw[1].number, q.fs = raw[1].fs,
           q.data = raw[1].data, q.os = raw[1].os, q.state = "clean"
    PROVE  PackInv'
<1>1. packing \in Working /\ RunAtWork /\ Extracted /\ ~source.gpt /\ nth = 1 /\ K!Ext(raw[1].fs)
  BY DEF PackInv, RunAtWork, Extracted, Working, Cloning
<1>2. K!Kind' = K!Kind /\ Count' = Count
  BY KindStays
<1>3. raw'[1] = q
  OBVIOUS
<1>4. CopyOf(raw[1], source.parts[nth])'
  BY <1>1, <1>3 DEF CopyOf, Extracted, IsRaw
<1>5. Fitting(raw[1])'
  BY <1>1, <1>2, <1>3 DEF Fitting, Extracted
<1>6. Extracted'
  BY <1>1, <1>2, <1>3, <1>4, <1>5 DEF Extracted
<1> QED BY <1>1, <1>6, RunGoesOn DEF Working, Cloning, Through

LEMMA CheckKeeps == PackInv /\ K!Check => PackInv'
<1> SUFFICES ASSUME PackInv, K!Check PROVE PackInv' OBVIOUS
<1>1. /\ packing = "check" /\ RunAtWork /\ Extracted
      /\ UNCHANGED <<source, imagefile, args, nth, packed, systems, partial, out, runs>>
  BY DEF K!Check, K!outputs, PackInv, RunAtWork, Working, Cloning
<1>2. CASE packing' = "failed"
  BY <1>1, <1>2, RunOver
<1>3. CASE packing' # "failed"
  <2>1. PICK r, q : r = raw[1] /\ q = [r EXCEPT !.state = "clean"] OBVIOUS
  <2>2. packing' = "shrink" /\ raw' = <<q>> BY <1>3, <2>1 DEF K!Check
  <2>3. IsRaw(r) BY <1>1, <2>1 DEF Extracted, CopyOf
  <2>4. /\ IsRaw(q) /\ q.number = r.number /\ q.fs = r.fs /\ q.data = r.data /\ q.os = r.os
        /\ q.state = "clean"
    BY <2>1, <2>3 DEF IsRaw
  <2> QED BY <1>1, <2>1, <2>2, <2>4, CopyKeeps
<1> QED BY <1>2, <1>3

LEMMA ShrinkKeeps == PackInv /\ K!Shrink => PackInv'
<1> SUFFICES ASSUME PackInv, K!Shrink PROVE PackInv' OBVIOUS
<1>1. /\ packing = "shrink" /\ packing' = "clone" /\ RunAtWork /\ Extracted
      /\ UNCHANGED <<source, imagefile, args, nth, packed, systems, partial, out, runs>>
  BY DEF K!Shrink, K!outputs, PackInv, RunAtWork, Working, Cloning
<1>2. PICK r, q : r = raw[1] /\ q = [r EXCEPT !.size = r.used]
  OBVIOUS
<1>3. raw' = <<q>>
  BY <1>2 DEF K!Shrink
<1>4. IsRaw(r) /\ r.state = "clean"
  BY <1>1, <1>2 DEF Extracted, CopyOf
<1>5. /\ IsRaw(q) /\ q.number = r.number /\ q.fs = r.fs /\ q.data = r.data /\ q.os = r.os
      /\ q.state = "clean"
  BY <1>2, <1>4 DEF IsRaw
<1> QED BY <1>1, <1>2, <1>3, <1>5, CopyKeeps

\* One more at the end of a list.
LEMMA Longer ==
    ASSUME NEW l, NEW x, Len(l) \in Nat, DOMAIN l = 1 .. Len(l), l = [k \in DOMAIN l |-> l[k]]
    PROVE  /\ Len(Append(l, x)) = Len(l) + 1 /\ DOMAIN Append(l, x) = 1 .. Len(l) + 1
           /\ Append(l, x) = [k \in 1 .. Len(l) + 1 |-> Append(l, x)[k]]
           /\ \A k \in 1 .. Len(l) : Append(l, x)[k] = l[k]
           /\ Append(l, x)[Len(l) + 1] = x
<1>1. PICK V : V = {l[k] : k \in DOMAIN l} \cup {x}
  OBVIOUS
<1>2. l \in Seq(V) /\ x \in V
  BY <1>1
<1>3. Append(l, x) \in Seq(V) /\ Len(Append(l, x)) = Len(l) + 1
  BY <1>2
<1>4. /\ \A k \in 1 .. Len(l) : Append(l, x)[k] = l[k]
      /\ Append(l, x)[Len(l) + 1] = x
  BY <1>2
<1>5. PICK m : m = Append(l, x)
  OBVIOUS
<1>6. m \in Seq(V) /\ Len(m) = Len(l) + 1
  BY <1>3, <1>5
<1>7. DOMAIN m = 1 .. Len(l) + 1 /\ m = [k \in 1 .. Len(l) + 1 |-> m[k]]
  BY <1>6
<1> QED BY <1>4, <1>5, <1>6, <1>7

LEMMA ClonePacks ==
    ASSUME PackInv, packing = "clone", packed' = Append(packed, raw[1]), UNCHANGED <<source, imagefile>>,
           NEW n, n = nth
    PROVE  PackedUpTo(n)'
<1>1. /\ RunAtWork /\ Extracted /\ source \in RawFiles /\ imagefile = source /\ PackedUpTo(nth - 1)
  BY DEF PackInv, RunAtWork, Working, Cloning
<1>2. nth \in 1 .. Count /\ Count \in Nat
  BY <1>1, FileIs DEF RunAtWork, Extracted
<1>3. PICK q : q = raw[1]
  OBVIOUS
<1>4. CopyOf(q, source.parts[nth]) /\ source.parts[nth].fs # "none" /\ Fitting(q)
  BY <1>1, <1>3 DEF Extracted, CopyOf
<1>5. /\ K!Formatted(nth) = K!Formatted(nth - 1) \cup {nth}
      /\ Rank(nth) = Rank(nth - 1) + 1
  BY <1>1, <1>2, <1>4, OneMore
<1>6. /\ Len(packed) \in Nat /\ DOMAIN packed = 1 .. Len(packed) /\ Len(packed) = Rank(nth - 1)
      /\ packed = [k \in DOMAIN packed |-> packed[k]]
      /\ \A k \in K!Formatted(nth - 1) :
            Rank(k) \in DOMAIN packed /\ CopyOf(packed[Rank(k)], source.parts[k])
      /\ \A j \in DOMAIN packed : Fitting(packed[j])
  BY <1>1 DEF PackedUpTo
<1>7. packed' = Append(packed, q)
  BY <1>3
<1>8. /\ Len(packed') = Len(packed) + 1 /\ DOMAIN packed' = 1 .. Len(packed) + 1
      /\ packed' = [k \in DOMAIN packed' |-> packed'[k]]
      /\ \A k \in 1 .. Len(packed) : packed'[k] = packed[k]
      /\ packed'[Len(packed) + 1] = q
  <2>1. PICK l : l = packed OBVIOUS
  <2>2. Len(l) \in Nat /\ DOMAIN l = 1 .. Len(l) /\ l = [k \in DOMAIN l |-> l[k]] BY <1>6, <2>1
  <2>3. /\ Len(Append(l, q)) = Len(l) + 1 /\ DOMAIN Append(l, q) = 1 .. Len(l) + 1
        /\ Append(l, q) = [k \in 1 .. Len(l) + 1 |-> Append(l, q)[k]]
        /\ \A k \in 1 .. Len(l) : Append(l, q)[k] = l[k]
        /\ Append(l, q)[Len(l) + 1] = q
    BY <2>2, Longer
  <2> QED BY <1>7, <2>1, <2>3
<1>9. ASSUME NEW k \in K!Formatted(nth)
      PROVE  Rank(k) \in DOMAIN packed' /\ CopyOf(packed'[Rank(k)], source.parts[k])
  <2>1. CASE k = nth BY <1>4, <1>5, <1>6, <1>8, <2>1
  <2>2. CASE k \in K!Formatted(nth - 1) BY <1>6, <1>8, <2>2
  <2> QED BY <1>5, <2>1, <2>2
<1>10. ASSUME NEW j \in DOMAIN packed' PROVE Fitting(packed'[j])
  <2>1. CASE j = Len(packed) + 1 BY <1>4, <1>8, <2>1
  <2>2. CASE j \in 1 .. Len(packed) BY <1>6, <1>8, <2>2
  <2> QED BY <1>6, <1>8, <2>1, <2>2
<1>11. /\ DOMAIN packed' = 1 .. Len(packed') /\ Len(packed') = Rank(nth) /\ Rank(nth) \in Nat
  BY <1>5, <1>6, <1>8
<1>12. /\ \A k : Rank(k)' = Rank(k) /\ K!Formatted(k)' = K!Formatted(k)
       /\ \A x : Fitting(x)' = Fitting(x)
  BY KindStays
<1> QED BY <1>8, <1>9, <1>10, <1>11, <1>12 DEF PackedUpTo

LEMMA CloneLooks ==
    ASSUME PackInv, packing = "clone", args.root = 0, UNCHANGED <<source, imagefile>>, NEW n, n = nth,
           systems' = IF K!HoldsSystem(raw[1]) THEN Append(systems, raw[1].number) ELSE systems
    PROVE  SystemsUpTo(n)'
<1>1. RunAtWork /\ Extracted /\ source \in RawFiles /\ SystemsUpTo(nth - 1)
  BY DEF PackInv, RunAtWork, Working, Cloning
<1>2. nth \in 1 .. Count /\ Count \in Nat /\ DOMAIN source.parts = 1 .. Count
  BY <1>1, FileIs DEF RunAtWork, Extracted
<1>3. PICK q, p : q = raw[1] /\ p = source.parts[nth]
  OBVIOUS
<1>4. q.number = p.number /\ q.fs = p.fs /\ q.os = p.os /\ p.fs # "none"
  BY <1>1, <1>3 DEF Extracted, CopyOf
<1>5. K!HoldsSystem(q) <=> nth \in K!SystemsOf(nth)
  BY <1>2, <1>3, <1>4 DEF K!HoldsSystem, K!SystemsOf, K!Formatted
<1>6. /\ Len(systems) \in Nat /\ DOMAIN systems = 1 .. Len(systems)
      /\ Len(systems) = SystemRank(nth - 1)
      /\ systems = [k \in DOMAIN systems |-> systems[k]]
      /\ \A k \in K!SystemsOf(nth - 1) :
            SystemRank(k) \in DOMAIN systems /\ systems[SystemRank(k)] = source.parts[k].number
  BY <1>1 DEF SystemsUpTo
<1>7. /\ \A k : SystemRank(k)' = SystemRank(k) /\ K!SystemsOf(k)' = K!SystemsOf(k)
  BY KindStays
<1>8. CASE ~K!HoldsSystem(q)
  <2>1. K!SystemsOf(nth) = K!SystemsOf(nth - 1) /\ SystemRank(nth) = SystemRank(nth - 1)
    BY <1>1, <1>2, <1>5, <1>8, OneMore
  <2>2. systems' = systems BY <1>3, <1>8
  <2> QED BY <1>6, <1>7, <2>1, <2>2 DEF SystemsUpTo
<1>9. CASE K!HoldsSystem(q)
  <2>1. /\ K!SystemsOf(nth) = K!SystemsOf(nth - 1) \cup {nth}
        /\ SystemRank(nth) = SystemRank(nth - 1) + 1
    BY <1>1, <1>2, <1>5, <1>9, OneMore
  <2>2. systems' = Append(systems, p.number) BY <1>3, <1>4, <1>9
  <2>3. /\ Len(systems') = Len(systems) + 1 /\ DOMAIN systems' = 1 .. Len(systems) + 1
        /\ systems' = [k \in DOMAIN systems' |-> systems'[k]]
        /\ \A k \in 1 .. Len(systems) : systems'[k] = systems[k]
        /\ systems'[Len(systems) + 1] = p.number
    <3>1. PICK l, x : l = systems /\ x = p.number OBVIOUS
    <3>2. Len(l) \in Nat /\ DOMAIN l = 1 .. Len(l) /\ l = [k \in DOMAIN l |-> l[k]] BY <1>6, <3>1
    <3>3. /\ Len(Append(l, x)) = Len(l) + 1 /\ DOMAIN Append(l, x) = 1 .. Len(l) + 1
          /\ Append(l, x) = [k \in 1 .. Len(l) + 1 |-> Append(l, x)[k]]
          /\ \A k \in 1 .. Len(l) : Append(l, x)[k] = l[k]
          /\ Append(l, x)[Len(l) + 1] = x
      BY <3>2, Longer
    <3> QED BY <2>2, <3>1, <3>3
  <2>4. ASSUME NEW k \in K!SystemsOf(nth)
        PROVE  SystemRank(k) \in DOMAIN systems' /\ systems'[SystemRank(k)] = source.parts[k].number
    <3>1. CASE k = nth BY <1>3, <1>6, <2>1, <2>3, <3>1
    <3>2. CASE k \in K!SystemsOf(nth - 1) BY <1>6, <2>3, <3>2
    <3> QED BY <2>1, <3>1, <3>2
  <2> QED BY <1>6, <1>7, <2>1, <2>3, <2>4 DEF SystemsUpTo
<1> QED BY <1>8, <1>9

LEMMA CloneKeeps == PackInv /\ K!Clone => PackInv'
<1> SUFFICES ASSUME PackInv, K!Clone PROVE PackInv' OBVIOUS
<1>1. /\ packing = "clone" /\ RunAtWork /\ Extracted /\ source \in RawFiles /\ imagefile = source
      /\ UNCHANGED <<source, imagefile, args, partial, out, runs>> /\ nth' = nth + 1
      /\ packed' = Append(packed, raw[1])
      /\ systems' = (IF args.root = 0 /\ K!HoldsSystem(raw[1])
                     THEN Append(systems, raw[1].number) ELSE systems)
      /\ packing' = (IF K!Kind = "disk" THEN "extract" ELSE "choose")
  BY DEF K!Clone, K!outputs, PackInv, RunAtWork, Working, Cloning
<1>2. nth \in 1 .. Count /\ Count \in Nat /\ (~source.gpt => Count <= 1) /\ source.gpt \in BOOLEAN
  BY <1>1, FileIs DEF RunAtWork, Extracted
<1>3. PICK n : n = nth
  OBVIOUS
<1>4. PackedUpTo(n)'
  BY <1>1, <1>3, ClonePacks
<1>5. args.root = 0 => SystemsUpTo(n)'
  BY <1>1, <1>3, CloneLooks
<1>6. nth' - 1 = n
  BY <1>1, <1>2, <1>3
<1>7. PackedUpTo(nth - 1)' /\ (args.root = 0 => SystemsUpTo(nth - 1))'
  BY <1>1, <1>4, <1>5, <1>6
<1>8. Count' = Count
  BY <1>1, KindStays
<1>9. packing' = "extract" => source.gpt
  BY <1>1 DEF K!Kind
<1>10. packing' = "choose" => nth = Count
  BY <1>1, <1>2 DEF K!Kind
<1>11. RunAtWork'
  BY <1>1, <1>2, <1>7, <1>8, <1>9, <1>10 DEF RunAtWork, Cloning, Through
<1>12. K!OutIsWhole'
  BY <1>1, OutStays DEF PackInv
<1>13. PartialOk'
  BY <1>1 DEF PartialOk, PackInv
<1> QED BY <1>1, <1>11, <1>12, <1>13 DEF PackInv, Working, Through

LEMMA ChooseKeeps == PackInv /\ K!Choose => PackInv'
<1> SUFFICES ASSUME PackInv, K!Choose PROVE PackInv' OBVIOUS
<1>1. /\ packing = "choose" /\ RunAtWork /\ nth = Count + 1
      /\ UNCHANGED <<source, imagefile, args, nth, packed, systems, partial, out, runs>>
  BY DEF K!Choose, K!outputs, PackInv, RunAtWork, Working, Through
<1>2. CASE packing' = "failed"
  BY <1>1, <1>2, RunOver
<1>3. CASE packing' = "create" /\ RootsPacked
  BY <1>1, <1>3, RunGoesOn DEF Working, Cloning, Through
<1> QED BY <1>2, <1>3 DEF K!Choose, RootsPacked

LEMMA OutputCreated == PackInv /\ K!Create => PackInv'
<1> SUFFICES ASSUME PackInv, K!Create PROVE PackInv' OBVIOUS
<1>1. /\ packing = "create" /\ packing' = "write" /\ RunAtWork /\ nth = Count + 1 /\ RootsPacked
      /\ partial' = <<[whole |-> FALSE, run |-> runs]>>
      /\ UNCHANGED <<source, imagefile, args, nth, packed, systems, out, runs>>
  BY DEF K!Create, PackInv, RunAtWork, Working, Through
<1>2. PartialOk'
  BY <1>1 DEF PartialOk, PackInv
<1>3. RunAtWork'
  <2>1. PackedUpTo(nth - 1)' /\ (args.root = 0 => SystemsUpTo(nth - 1))'
    BY <1>1, PackedStays DEF RunAtWork
  <2>2. RootsPacked'
    <3>1. K!Scripts' = K!Scripts BY <1>1 DEF K!Scripts
    <3>2. K!Numbers' = K!Numbers BY <1>1 DEF K!Numbers
    <3> QED BY <1>1, <3>1, <3>2 DEF RootsPacked
  <2>3. Count' = Count BY <1>1, KindStays
  <2> QED BY <1>1, <2>1, <2>2, <2>3 DEF RunAtWork, Cloning
<1> QED BY <1>1, <1>2, <1>3, OutStays DEF PackInv, Working, Through

\* What an archive that is written has for a root.
LEMMA RootIs ==
    ASSUME PackInv, packing \in {"write", "rename"}
    PROVE  /\ K!Root \in K!Numbers \cup {0}
           /\ args.root = 0 /\ K!Cardinality(K!SystemsOf(Count)) = 1 =>
                 K!Root = source.parts[CHOOSE k \in K!SystemsOf(Count) : TRUE].number
           /\ args.root = 0 /\ K!Cardinality(K!SystemsOf(Count)) # 1 => K!Root = 0
           /\ args.root # 0 => K!Root = args.root
<1>1. /\ RunAtWork /\ source \in RawFiles /\ RootsPacked /\ nth = Count + 1
  BY DEF PackInv, RunAtWork, Working, Through
<1>2. Count \in Nat /\ nth - 1 = Count /\ DOMAIN source.parts = 1 .. Count
  BY <1>1, FileIs
<1>3. CASE args.root # 0
  BY <1>1, <1>3 DEF K!Root, RootsPacked
<1>4. CASE args.root = 0
  <2>1. SystemsUpTo(Count) /\ PackedUpTo(Count) BY <1>1, <1>2, <1>4 DEF RunAtWork
  <2>2. K!Cardinality(K!SystemsOf(Count)) = Len(systems)
    <3>1. K!Cardinality(K!SystemsOf(Count)) = Cardinality(K!SystemsOf(Count))
      BY DEF K!Cardinality, Cardinality
    <3> QED BY <2>1, <3>1 DEF SystemsUpTo, SystemRank
  <2>3. CASE Len(systems) # 1
    BY <1>4, <2>2, <2>3 DEF K!Root
  <2>4. CASE Len(systems) = 1
    <3>1. PICK k : k = CHOOSE x \in K!SystemsOf(Count) : TRUE OBVIOUS
    <3>2. k \in K!SystemsOf(Count)
      <4>1. K!SystemsOf(Count) # {}
        <5>1. SystemRank(Count) = 1 BY <2>1, <2>4 DEF SystemsUpTo
        <5> QED BY <5>1, FS_EmptySet DEF SystemRank
      <4> QED BY <3>1, <4>1
    <3>3. SystemRank(k) \in DOMAIN systems /\ systems[SystemRank(k)] = source.parts[k].number
      BY <2>1, <3>2 DEF SystemsUpTo
    <3>4. systems[1] = source.parts[k].number
      BY <2>1, <2>4, <3>3 DEF SystemsUpTo
    <3>5. k \in K!Formatted(Count) BY <3>2 DEF K!SystemsOf
    <3>6. Rank(k) \in DOMAIN packed /\ packed[Rank(k)].number = source.parts[k].number
      BY <2>1, <3>5 DEF PackedUpTo, CopyOf
    <3>7. source.parts[k].number \in K!Numbers BY <3>6 DEF K!Numbers
    <3> QED BY <1>4, <2>2, <2>4, <3>1, <3>4, <3>7 DEF K!Root
  <2> QED BY <2>3, <2>4
<1> QED BY <1>3, <1>4

LEMMA ArchiveIsFaithfulNow ==
    ASSUME PackInv, packing \in {"write", "rename"}, packed # <<>>
    PROVE  K!Faithful(K!Archive)
<1>1. /\ RunAtWork /\ source \in RawFiles /\ imagefile = source /\ RootsPacked /\ nth = Count + 1
  BY DEF PackInv, RunAtWork, Working, Through
<1>2. Count \in Nat /\ nth - 1 = Count /\ source.gpt \in BOOLEAN /\ DOMAIN source.parts = 1 .. Count
  BY <1>1, FileIs
<1>3. PackedUpTo(Count) /\ K!Loads(args)
  BY <1>1, <1>2 DEF RunAtWork
<1>4. PICK a : a = K!Archive
  OBVIOUS
<1>5. /\ a.whole /\ a.args = args /\ a.parts = packed /\ a.root = K!Root
      /\ a.scripts = K!Scripts /\ a.kind = K!Kind
  BY <1>4 DEF K!Archive
<1>6. \A k : K!Cardinality(K!Formatted(k)) = Rank(k)
  BY DEF K!Cardinality, Cardinality, Rank
<1>7. Len(a.parts) = Rank(Count)
  BY <1>3, <1>5 DEF PackedUpTo
<1>8. ASSUME NEW k \in K!Formatted(Count)
      PROVE  /\ a.parts[Rank(k)].number = source.parts[k].number
             /\ a.parts[Rank(k)].fs = source.parts[k].fs /\ a.parts[Rank(k)].data = source.parts[k].data
             /\ a.parts[Rank(k)].size >= a.parts[Rank(k)].used
  <2>1. CopyOf(packed[Rank(k)], source.parts[k]) BY <1>3, <1>8 DEF PackedUpTo
  <2> QED BY <1>5, <2>1 DEF CopyOf, IsRaw
<1>9. ASSUME NEW k \in DOMAIN a.parts PROVE Fitting(a.parts[k])
  BY <1>3, <1>5, <1>9 DEF PackedUpTo
<1>10. a.kind = "partition" /\ K!Ext(a.parts[1].fs) => a.parts[1].state = "clean"
  <2> SUFFICES ASSUME a.kind = "partition", K!Ext(a.parts[1].fs) PROVE a.parts[1].state = "clean"
    OBVIOUS
  <2>1. ~source.gpt BY <1>1, <1>5 DEF K!Kind
  <2>2. 1 \in DOMAIN packed
    <3>1. Len(packed) \in Nat /\ DOMAIN packed = 1 .. Len(packed)
          /\ packed = [k \in DOMAIN packed |-> packed[k]]
      BY <1>3 DEF PackedUpTo
    <3>2. Len(packed) # 0
      <4>1. PICK l : l = packed OBVIOUS
      <4>2. l = [k \in 1 .. Len(l) |-> l[k]] /\ l # <<>> BY <3>1, <4>1
      <4>3. l \in Seq({l[k] : k \in 1 .. Len(l)})
        <5>1. Len(l) \in Nat BY <3>1, <4>1
        <5> QED BY <4>2, <5>1
      <4> QED BY <4>1, <4>2, <4>3
    <3> QED BY <3>1, <3>2
  <2> QED BY <1>5, <1>9, <2>1, <2>2 DEF Fitting
<1>11. {a.root} \cup {a.scripts[k].root : k \in DOMAIN a.scripts}
          \subseteq {0} \cup {a.parts[k].number : k \in DOMAIN a.parts}
  BY <1>1, <1>5, RootIs DEF RootsPacked, K!Numbers
<1>12. a.root = IF a.args.root # 0 THEN a.args.root
                ELSE IF K!Cardinality(K!SystemsOf(Count)) = 1
                     THEN source.parts[CHOOSE k \in K!SystemsOf(Count) : TRUE].number ELSE 0
  BY <1>5, RootIs
<1>13. \A k \in DOMAIN a.parts :
          a.parts[k].fs \in [disk |-> {"ext4", "vfat", "btrfs", "swap"},
                             partition |-> {"ext4", "vfat", "btrfs"}][a.kind]
  BY <1>5, <1>9 DEF Fitting
<1>14. K!Faithful(a)
  BY <1>3, <1>5, <1>6, <1>7, <1>8, <1>10, <1>11, <1>12, <1>13 DEF K!Faithful, Count
<1> QED BY <1>4, <1>14

LEMMA WriteKeeps == PackInv /\ K!Write => PackInv'
<1> SUFFICES ASSUME PackInv, K!Write PROVE PackInv' OBVIOUS
<1>1. /\ packing = "write" /\ RunAtWork /\ nth = Count + 1 /\ RootsPacked
      /\ UNCHANGED <<source, imagefile, args, nth, packed, systems, out, runs>>
  BY DEF K!Write, PackInv, RunAtWork, Working, Through
<1>2. CASE packing' = "failed" /\ partial' = <<>>
  BY <1>1, <1>2, RunOver
<1>3. CASE packed # <<>> /\ packing' = "rename" /\ partial' = <<K!Archive>>
  <2>1. K!Archive.run = runs BY DEF K!Archive
  <2>2. PartialOk'
    <3>1. PICK a : a = K!Archive OBVIOUS
    <3>2. partial' = <<a>> /\ a.run = runs BY <1>3, <2>1, <3>1
    <3> QED BY <1>1, <1>3, <3>2 DEF PartialOk, PackInv
  <2>3. PackedUpTo(nth - 1)' /\ (args.root = 0 => SystemsUpTo(nth - 1))'
    BY <1>1, PackedStays DEF RunAtWork
  <2>4. K!Scripts' = K!Scripts /\ K!Numbers' = K!Numbers
    BY <1>1 DEF K!Scripts, K!Numbers
  <2>5. RootsPacked' BY <1>1, <2>4 DEF RootsPacked
  <2>6. Count' = Count /\ K!Kind' = K!Kind BY <1>1, KindStays
  <2>7. K!Archive' = K!Archive
    <3>1. K!Root' = K!Root BY <1>1 DEF K!Root
    <3> QED BY <1>1, <2>4, <2>6, <3>1 DEF K!Archive
  <2>8. RunAtWork' BY <1>1, <1>3, <2>3, <2>5, <2>6, <2>7 DEF RunAtWork, Cloning
  <2> QED BY <1>1, <1>3, <2>2, <2>8, OutStays DEF PackInv, Working, Through
<1> QED BY <1>2, <1>3 DEF K!Write, K!Nothing

LEMMA RenameKeeps == PackInv /\ K!Rename => PackInv'
<1> SUFFICES ASSUME PackInv, K!Rename PROVE PackInv' OBVIOUS
<1>1. /\ packing = "rename" /\ packing' = "done" /\ RunAtWork /\ nth = Count + 1 /\ RootsPacked
      /\ packed # <<>> /\ partial = <<K!Archive>> /\ out' = partial /\ partial' = <<>>
      /\ UNCHANGED <<source, imagefile, args, nth, packed, systems, runs>>
  BY DEF K!Rename, PackInv, RunAtWork, Working, Through, K!Nothing
<1>2. K!OutIsWhole'
  <2>1. K!Faithful(K!Archive)
    BY <1>1, ArchiveIsFaithfulNow DEF PackInv
  <2>2. \A a : K!Faithful(a)' = K!Faithful(a)
    BY <1>1, FaithfulStays
  <2>3. PICK a : a = K!Archive OBVIOUS
  <2>4. out'[1] = a BY <1>1, <2>3
  <2> QED BY <2>1, <2>2, <2>3, <2>4 DEF K!OutIsWhole
<1>3. PartialOk' BY <1>1 DEF PartialOk, PackInv
<1> QED BY <1>1, <1>2, <1>3 DEF PackInv, Working, Cloning, Through

LEMMA FailsKeepsPack == PackInv /\ K!Fails => PackInv'
<1> SUFFICES ASSUME PackInv, K!Fails PROVE PackInv' OBVIOUS
<1>1. /\ packing \notin {"idle", "failed", "done"} /\ packing' = "failed" /\ UNCHANGED <<source, imagefile, out, runs>>
      /\ partial' = (IF packing \in {"write", "rename"} THEN <<>> ELSE partial)
  BY DEF K!Fails, K!Nothing
<1> QED BY <1>1, RunOver

LEMMA KilledKeepsPack == PackInv /\ K!Killed => PackInv'
<1> SUFFICES ASSUME PackInv, K!Killed PROVE PackInv' OBVIOUS
<1>1. packing' = "idle" /\ UNCHANGED <<source, imagefile, out, runs, partial>>
  BY DEF K!Killed, K!outputs
<1> QED BY <1>1, RunOver

LEMMA PackStays == PackInv /\ UNCHANGED packVars => PackInv'
<1> SUFFICES ASSUME PackInv, UNCHANGED packVars PROVE PackInv' OBVIOUS
<1>1. UNCHANGED <<source, imagefile, args, packing, nth, raw, packed, systems, partial, out, runs>>
  BY DEF packVars
<1>2. K!OutIsWhole' /\ PartialOk'
  BY <1>1, OutStays DEF PackInv, PartialOk
<1>3. RunAtWork => RunAtWork'
  <2> SUFFICES ASSUME RunAtWork PROVE RunAtWork' OBVIOUS
  <2>1. PackedUpTo(nth - 1)' /\ (args.root = 0 => SystemsUpTo(nth - 1))'
    BY <1>1, PackedStays DEF RunAtWork
  <2>2. K!Scripts' = K!Scripts /\ K!Numbers' = K!Numbers
    BY <1>1 DEF K!Scripts, K!Numbers
  <2>3. RootsPacked => RootsPacked' BY <1>1, <2>2 DEF RootsPacked
  <2>4. Count' = Count /\ K!Kind' = K!Kind /\ \A q : Fitting(q)' = Fitting(q)
    BY <1>1, KindStays
  <2>5. K!Archive' = K!Archive
    <3>1. K!Root' = K!Root BY <1>1 DEF K!Root
    <3> QED BY <1>1, <2>2, <2>4, <3>1 DEF K!Archive
  <2>6. Extracted => Extracted' BY <1>1, <2>4 DEF Extracted
  <2> QED BY <1>1, <2>1, <2>3, <2>4, <2>5, <2>6 DEF RunAtWork
<1> QED BY <1>1, <1>2, <1>3 DEF PackInv

LEMMA PackStep == PackInv /\ K!Next => PackInv'
<1> SUFFICES ASSUME PackInv, K!Next PROVE PackInv' OBVIOUS
<1>1. ASSUME NEW c \in PackCommands, K!Run(c) PROVE PackInv'
  BY <1>1, RunKeeps
<1> QED
  BY <1>1, ProbeKeeps, ExtractKeeps, CloneKeeps, ExtractsDoneKeeps, WholeKeeps, CheckKeeps, ShrinkKeeps,
     ChooseKeeps, OutputCreated, WriteKeeps, RenameKeeps, FailsKeepsPack, KilledKeepsPack
  DEF K!Next

(* ImagesArePacked: the packer's output is absent or a whole archive of    *)
(* the image whatever fails and however often it is killed and run again,  *)
(* and neither the image file nor a run that ended by itself leaves a      *)
(* trace (pack.rs, write); for whatever image files and commands.          *)
THEOREM ImagesArePacked == Spec => []PackedIsWhole
<1> DEFINE I == part = "pack" => PackInv
<1>1. Init => I
  BY PackStarts DEF Init
<1>2. I /\ [Next]_vars => I'
  BY PackStep, PackStays DEF Next, vars
<1>3. I => PackedIsWhole
  <2>1. PackInv => K!OutIsWhole /\ K!LeavesNoTrace
    BY DEF PackInv, PartialOk, K!LeavesNoTrace, K!Nothing
  <2> QED BY <2>1 DEF PackedIsWhole
<1> QED BY <1>1, <1>2, <1>3, PTL DEF Spec
=============================================================================

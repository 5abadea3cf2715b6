------------------------------- MODULE Proxy -------------------------------
(***************************************************************************)
(* The script proxy (crates/proxy): post-install scripts reach the         *)
(* internet through it while the host has no other way out.  Every         *)
(* accepted client takes one of max_connections slots and runs a session:  *)
(* read the request head, check the port, resolve and filter the           *)
(* addresses, connect, then tunnel (CONNECT) or forward (http://) until    *)
(* the two ends are done or nothing has moved for idle_timeout.            *)
(*                                                                         *)
(* Bytes are abstracted to the fact that some arrived.  A header is a      *)
(* record of its lower-case name and its value; an address is the form it  *)
(* is written in and the class of the machine it leads to.                 *)
(***************************************************************************)
EXTENDS Naturals, Sequences, FiniteSets, FiniteSetsExt

CONSTANTS Conns,            \* clients that connect to the proxy
          MaxConnections,   \* Config::max_connections
          MaxMoves,         \* bound: reads an established session makes
          Heads,            \* request heads: method, uri, port, header lines
          Lookups           \* what names resolve to: sets of addresses

VARIABLES slots,      \* permits left in the semaphore of Proxy::serve
          pc,         \* where the session of a connection stands
          req,        \* the parsed request: kind, port, framing, rewritten head
          todo,       \* the addresses connect still has to try
          status,     \* what connect answers when no address is left
          upstream,   \* the address the session is connected to
          answers,    \* the response heads the client has been sent
          down,       \* Traffic::down is not zero
          active,     \* bytes were read since idle last looked
          uploaded,   \* the request's body has been sent on
          moves       \* reads made, for the bound

vars == <<slots, pc, req, todo, status, upstream, answers, down, active,
          uploaded, moves>>

None == "none"
NoRequest == [kind |-> None, port |-> 0, body |-> None, reads |-> None]
Theirs == 0       \* a response head of the upstream server, whatever its status
NoAddress == [form |-> None, class |-> None]
Classes == {"public", "private", "own"}
Embedding == {"mapped", "nat64", "compatible", "six_to_four"}
Addresses == [form : {"v4", "v6"} \cup Embedding, class : Classes]

---------------------------------------------------------------------------
(* Which address may be reached *)

canonical(a) == IF a.form \in Embedding THEN [a EXCEPT !.form = "v4"] ELSE a

is_public(a) ==
    LET c == canonical(a) IN c.form \in {"v4", "v6"} => c.class # "private"

own_addresses == [form : {"v4", "v6"}, class : {"own"}]

allows_address(a) == is_public(a) /\ canonical(a) \notin own_addresses

allows_port(kind, port) == port \in IF kind = "connect" THEN {443, 22} ELSE {80}

---------------------------------------------------------------------------
(* Reading a request head *)

\* Lines of a head with this name, and what they say.  A head that is passed
\* on is the lines of the one that was read that are kept.
Named(headers, lines, name) == {i \in lines : headers[i].name = name}

header_values(headers, lines, name) ==
    {headers[i].value : i \in Named(headers, lines, name)}

\* The framing a receiver of these lines goes by; None: it is refused.
FinalEncoding(headers, lines) ==
    LET encodings == Named(headers, lines, "transfer-encoding")
    IN  IF encodings = {} THEN None ELSE headers[Max(encodings)].value

Framing(encoding, lengths) ==
    CASE "bad" \in lengths -> None
      [] encoding # None /\ lengths # {} -> None
      [] encoding # None -> IF encoding = "chunked" THEN "chunked" ELSE None
      [] Cardinality(lengths) > 1 -> None
      [] OTHER -> IF lengths = {} THEN "0" ELSE CHOOSE n \in lengths : TRUE

body_framing(headers, lines) ==
    Framing(FinalEncoding(headers, lines), header_values(headers, lines, "content-length"))

connection_listed(headers) == header_values(headers, DOMAIN headers, "connection")

ListsFraming(headers) ==
    connection_listed(headers) \cap {"content-length", "transfer-encoding"} # {}

rewrite_head(headers) ==
    {i \in DOMAIN headers :
        headers[i].name \notin {"connection"} \cup connection_listed(headers)}

parse(head) ==
    IF \/ head.uri = "malformed"
       \/ head.method # "CONNECT" /\ \/ body_framing(head.headers, DOMAIN head.headers) = None
                                     \/ ListsFraming(head.headers)
    THEN NoRequest
    ELSE [kind |-> IF head.method = "CONNECT" THEN "connect" ELSE "forward",
          port |-> head.port,
          body |-> IF head.method = "CONNECT" THEN "0"
                   ELSE body_framing(head.headers, DOMAIN head.headers),
          reads |-> IF head.method = "CONNECT" THEN "0"
                    ELSE body_framing(head.headers, rewrite_head(head.headers))]

---------------------------------------------------------------------------
Init ==
    /\ slots = MaxConnections
    /\ pc = [c \in Conns |-> "none"]
    /\ req = [c \in Conns |-> NoRequest]
    /\ todo = [c \in Conns |-> {}]
    /\ status = [c \in Conns |-> 502]
    /\ upstream = [c \in Conns |-> NoAddress]
    /\ answers = [c \in Conns |-> <<>>]
    /\ down = [c \in Conns |-> FALSE]
    /\ active = [c \in Conns |-> FALSE]
    /\ uploaded = [c \in Conns |-> FALSE]
    /\ moves = [c \in Conns |-> 0]

Goes(c, to) == pc' = [pc EXCEPT ![c] = to]
Answers(c, a) == answers' = [answers EXCEPT ![c] = Append(@, a)]
Holds == <<req, todo, status, upstream, down, active, uploaded, moves>>

\* The session returns: its task drops what it held, the slot last.
Over(c) ==
    /\ Goes(c, "closed")
    /\ slots' = slots + 1
    /\ req' = [req EXCEPT ![c] = NoRequest]
    /\ todo' = [todo EXCEPT ![c] = {}]
    /\ status' = [status EXCEPT ![c] = 502]
    /\ upstream' = [upstream EXCEPT ![c] = NoAddress]
    /\ down' = [down EXCEPT ![c] = FALSE]
    /\ active' = [active EXCEPT ![c] = FALSE]
    /\ uploaded' = [uploaded EXCEPT ![c] = FALSE]
    /\ moves' = [moves EXCEPT ![c] = 0]

\* reject writes the status and closes; the write may fail.
Reject(c, s) ==
    \/ /\ Answers(c, s)
       /\ Goes(c, "closing")
       /\ UNCHANGED <<slots, Holds>>
    \/ /\ Over(c)
       /\ UNCHANGED answers

\* Proxy::serve accepts a client; with no slot left it is refused at once.
Accept(c) ==
    /\ pc[c] = "none"
    /\ IF slots > 0
       THEN /\ slots' = slots - 1
            /\ Goes(c, "head")
            /\ UNCHANGED answers
       ELSE /\ Answers(c, 503)
            /\ Goes(c, "closed")
            /\ UNCHANGED slots
    /\ UNCHANGED Holds

\* read_request gets a whole head, and the session checks the port.
HeadRead(c) ==
    /\ pc[c] = "head"
    /\ \E request \in {parse(head) : head \in Heads} :
        IF request = NoRequest THEN Reject(c, 400)
        ELSE IF ~allows_port(request.kind, request.port) THEN Reject(c, 403)
        ELSE /\ req' = [req EXCEPT ![c] = request]
             /\ Goes(c, "resolve")
             /\ UNCHANGED <<slots, answers, todo, status, upstream, down, active,
                            uploaded, moves>>

\* The head did not come: too slow (408), too large (431), or the client left.
HeadFails(c) ==
    /\ pc[c] = "head"
    /\ \/ \E s \in {408, 431} : Reject(c, s)
       \/ Over(c) /\ UNCHANGED answers

\* lookup_host fails or times out, or the own addresses cannot be listed.
ResolveFails(c) ==
    /\ pc[c] = "resolve"
    /\ \E s \in {502, 504} : Reject(c, s)

\* connect keeps the addresses it may reach, and refuses when that is none.
\* They are tried in the order of the answer, which is anyone's guess.
Resolve(c) ==
    /\ pc[c] = "resolve"
    /\ \E found \in Lookups :
        LET allowed == {a \in found : allows_address(a)}
        IN  IF allowed = {} /\ found # {} THEN Reject(c, 403)
            ELSE /\ todo' = [todo EXCEPT ![c] = allowed]
                 /\ Goes(c, "connect")
                 /\ UNCHANGED <<slots, answers, req, status, upstream, down, active,
                                uploaded, moves>>

\* One address refuses (502) or does not answer in time (504).
ConnectFails(c) ==
    /\ pc[c] = "connect"
    /\ \E a \in todo[c] : todo' = [todo EXCEPT ![c] = @ \ {a}]
    /\ \E s \in {502, 504} : status' = [status EXCEPT ![c] = s]
    /\ UNCHANGED <<slots, pc, req, upstream, answers, down, active, uploaded, moves>>

ConnectGivesUp(c) ==
    /\ pc[c] = "connect"
    /\ todo[c] = {}
    /\ Reject(c, status[c])

\* An address answers; a tunnel is announced to the client, a forwarded
\* request has its rewritten head sent on.
Connected(c) ==
    /\ pc[c] = "connect"
    /\ \E a \in todo[c] : upstream' = [upstream EXCEPT ![c] = a]
    /\ todo' = [todo EXCEPT ![c] = {}]
    /\ active' = [active EXCEPT ![c] = TRUE]
    /\ IF req[c].kind = "connect"
       THEN Answers(c, 200) /\ Goes(c, "tunnel")
       ELSE Goes(c, "forward") /\ UNCHANGED answers
    /\ UNCHANGED <<slots, req, status, down, uploaded, moves>>

\* Bytes are read from one of the two ends and copied to the other; the
\* first of a forwarded answer open the response the client sees.
Moves(c) ==
    /\ pc[c] \in {"tunnel", "forward"}
    /\ moves[c] < MaxMoves
    /\ moves' = [moves EXCEPT ![c] = @ + 1]
    /\ active' = [active EXCEPT ![c] = TRUE]
    /\ \/ /\ ~uploaded[c] \/ pc[c] = "tunnel"
          /\ UNCHANGED <<down, answers>>
       \/ /\ down' = [down EXCEPT ![c] = TRUE]
          /\ IF pc[c] = "forward" /\ ~down[c] THEN Answers(c, Theirs)
             ELSE UNCHANGED answers
    /\ UNCHANGED <<slots, pc, req, todo, status, upstream, uploaded>>

\* A tunnel ends: both directions are closed, or a write or a copy fails.
TunnelEnds(c) ==
    /\ pc[c] = "tunnel"
    /\ Over(c)
    /\ UNCHANGED answers

\* The body is sent; the answer is still awaited.
Uploaded(c) ==
    /\ pc[c] = "forward"
    /\ ~uploaded[c]
    /\ uploaded' = [uploaded EXCEPT ![c] = TRUE]
    /\ UNCHANGED <<slots, pc, req, todo, status, upstream, answers, down, active, moves>>

\* mutant: the client is told of the failure whatever it has received.
ForwardEndsLoudly(c, result) == Reject(c, IF result = "idle" THEN 504 ELSE 502)
\* What a forwarded request comes to, by whether any answer was relayed.
ForwardEnds(c, result) ==
    IF ~down[c] THEN Reject(c, IF result = "idle" THEN 504 ELSE 502)
    ELSE IF result = "ok" THEN Goes(c, "closing") /\ UNCHANGED <<slots, answers, Holds>>
    ELSE Over(c) /\ UNCHANGED answers

\* The answer is complete, the head cannot be written (and nothing is
\* answered), or the body or the answer cannot be copied.
ForwardDone(c) ==
    /\ pc[c] = "forward"
    /\ \/ ForwardEnds(c, "ok")
       \/ ForwardEnds(c, "error")
       \/ moves[c] = 0 /\ ~uploaded[c] /\ Over(c) /\ UNCHANGED answers

\* Traffic::idle's deadline passed with nothing read since the last look.
Idles(c) ==
    /\ ~active[c]
    /\ IF pc[c] = "tunnel" THEN Over(c) /\ UNCHANGED answers ELSE ForwardEnds(c, "idle")

\* mutant: the deadline is computed once, when the relay begins.
IdleLooksOnce(c) == pc[c] \in {"tunnel", "forward"} /\ Idles(c)
\* Traffic::idle wakes at its deadline; bytes read since then have moved it.
IdleLooks(c) ==
    /\ pc[c] \in {"tunnel", "forward"}
    /\ \/ Idles(c)
       \/ /\ active[c]
          /\ active' = [active EXCEPT ![c] = FALSE]
          /\ UNCHANGED <<slots, pc, req, todo, status, upstream, answers, down,
                         uploaded, moves>>

\* close: the client hangs up, or CLOSE_LINGER is over.
Close(c) ==
    /\ pc[c] = "closing"
    /\ Over(c)
    /\ UNCHANGED answers

Step(c) ==
    \/ Accept(c) \/ HeadRead(c) \/ HeadFails(c) \/ ResolveFails(c) \/ Resolve(c)
    \/ ConnectFails(c) \/ ConnectGivesUp(c) \/ Connected(c) \/ Moves(c)
    \/ TunnelEnds(c) \/ Uploaded(c) \/ ForwardDone(c) \/ IdleLooks(c) \/ Close(c)

Next == \E c \in Conns : Step(c)

\* The timers run: the head's, connect's for the lookup and each address,
\* the idle deadline and the linger.  Nothing is assumed of the two ends.
Timers(c) ==
    HeadFails(c) \/ ResolveFails(c) \/ ConnectFails(c) \/ ConnectGivesUp(c) \/ IdleLooks(c)
        \/ Close(c)

Fairness == \A c \in Conns : WF_vars(Timers(c))

Spec == Init /\ [][Next]_vars /\ Fairness

---------------------------------------------------------------------------
\* The proxy is no way into the network it stands in: whatever form an
\* address is written in, a session is connected only to a public machine
\* that is not the server itself, and on a port its kind of request may use.
OnlyAllowed ==
    \A c \in Conns : upstream[c] # NoAddress =>
        /\ upstream[c].class = "public"
        /\ allows_port(req[c].kind, req[c].port)

\* The body the proxy sends on ends where the upstream server, reading the
\* rewritten head, expects it to end: no byte of it is taken for another
\* request.
FramingAgrees ==
    \A c \in Conns : upstream[c] # NoAddress => req[c].body = req[c].reads

\* A client is sent one response head: the proxy never answers for itself
\* once an answer of the upstream server has begun.
OneAnswer == \A c \in Conns : Len(answers[c]) <= 1

\* The semaphore counts the sessions that are still running.
SlotsAreCounted ==
    slots + Cardinality({c \in Conns : pc[c] \notin {"none", "closed"}}) = MaxConnections

\* A client that stops talking does not keep its slot: every session ends,
\* although neither end ever closes its side.
SlotsComeBack == \A c \in Conns : pc[c] = "head" ~> pc[c] = "closed"
=============================================================================

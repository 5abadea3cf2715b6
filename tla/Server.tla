------------------------------- MODULE Server -------------------------------
(***************************************************************************)
(* The server process (crates/server, core/src/{lib,listener}.rs): Imaged  *)
(* opens the data directory once per process; serve claims the right to    *)
(* serve, binds the listeners one by one and spawns them; stop cancels     *)
(* them, lets open connections drain for a grace period, then cuts them    *)
(* off, and dropping the Server does the rest.  An embedding program may   *)
(* call serve from several places, again after a stop, and may drop a      *)
(* Server without stopping it.  The runtime ends a listener some time      *)
(* after its Server was dropped.                                           *)
(*                                                                         *)
(* A connection is an HTTP connection of the machine listener (an agent    *)
(* may register over it) or of the dashboard, whose state-changing         *)
(* requests pass refuse_cross_site_requests (api/ui/src/csrf.rs).          *)
(***************************************************************************)
EXTENDS Naturals, Sequences, FiniteSets

CONSTANTS Callers,     \* places that call Imaged::serve
          Conns,       \* HTTP connections
          MaxServes    \* bound: calls of serve that take the claim

VARIABLES opened,     \* OPENED, and whether open has succeeded
          claim,      \* machine_ip: the caller that serves, or None
          phase,      \* where each caller's Server stands
          todo,       \* listeners its serve still has to bind
          running,    \* its listeners that are bound or being served
          aborted,    \* listeners of dropped Servers, told to end and not ended yet
          shutdown,   \* its shutdown token is cancelled
          conn,       \* connection -> the serve that accepted it, its listener, cut off
          registry,   \* connections whose agent is registered
          written,    \* who made the last state-changing request that was served
          serves      \* calls that took the claim; the last one's Server is the current one

vars == <<opened, claim, phase, todo, running, aborted, shutdown, conn, registry, written, serves>>

None == "none"
Http == {"machine", "dashboard"}
NoConn == [of |-> 0, on |-> None, cut |-> FALSE]
Open(c) == conn[c] # NoConn

\* The listeners a configuration asks for, in the order serve binds them.
Configs ==
    {<<"machine">>, <<"machine", "dashboard">>,
     <<"machine", "dashboard", "tftp", "proxy">>}

Init ==
    /\ opened = FALSE
    /\ claim = None
    /\ phase = [k \in Callers |-> "idle"]
    /\ todo = [k \in Callers |-> <<>>]
    /\ running = [k \in Callers |-> {}]
    /\ aborted = {}
    /\ shutdown = [k \in Callers |-> FALSE]
    /\ conn = [c \in Conns |-> NoConn]
    /\ registry = {}
    /\ written = None
    /\ serves = 0

\* Imaged::open: only one may succeed; a load that fails gives OPENED back.
OpenImaged ==
    /\ ~opened
    /\ \E loaded \in BOOLEAN : opened' = loaded
    /\ UNCHANGED <<claim, phase, todo, running, aborted, shutdown, conn, registry, written, serves>>

\* ServingClaim::take refuses while another Server holds the claim.
MayServe(k) == claim = None

\* serve with a public_url that validates and a free claim.
ServeBegins(k) ==
    /\ opened
    /\ phase[k] = "idle"
    /\ serves < MaxServes
    /\ MayServe(k)
    /\ claim' = k
    /\ serves' = serves + 1
    /\ phase' = [phase EXCEPT ![k] = "binding"]
    /\ \E config \in Configs : todo' = [todo EXCEPT ![k] = config]
    /\ shutdown' = [shutdown EXCEPT ![k] = FALSE]
    /\ UNCHANGED <<opened, running, aborted, conn, registry, written>>

\* An address is bound unless another listener of the process still has it.
Bind(k) ==
    /\ phase[k] = "binding"
    /\ todo[k] # <<>>
    /\ Head(todo[k]) \notin aborted \cup UNION {running[other] : other \in Callers}
    /\ running' = [running EXCEPT ![k] = @ \cup {Head(todo[k])}]
    /\ todo' = [todo EXCEPT ![k] = Tail(@)]
    /\ UNCHANGED <<opened, claim, phase, aborted, shutdown, conn, registry, written, serves>>

\* A bind fails, its address is in use (or the dashboard's assets are missing):
\* serve returns, the listeners bound so far and the claim are dropped.
BindFails(k) ==
    /\ phase[k] = "binding"
    /\ todo[k] # <<>>
    /\ running' = [running EXCEPT ![k] = {}]
    /\ todo' = [todo EXCEPT ![k] = <<>>]
    /\ claim' = None
    /\ phase' = [phase EXCEPT ![k] = "idle"]
    /\ UNCHANGED <<opened, aborted, shutdown, conn, registry, written, serves>>

Spawn(k) ==
    /\ phase[k] = "binding"
    /\ todo[k] = <<>>
    /\ phase' = [phase EXCEPT ![k] = "serving"]
    /\ UNCHANGED <<opened, claim, todo, running, aborted, shutdown, conn, registry, written, serves>>

---------------------------------------------------------------------------
(* Connections *)

\* A listener accepts until it has noticed that it is to end.  What it accepts
\* once its Server's abort token is cancelled is cut off from the start.
Accept(c) ==
    /\ ~Open(c)
    /\ \E on \in Http :
        \/ \E k \in Callers :
            /\ phase[k] # "binding"
            /\ on \in running[k]
            /\ conn' = [conn EXCEPT ![c] = [of |-> serves, on |-> on, cut |-> phase[k] = "cutting"]]
        \/ /\ on \in aborted
           /\ conn' = [conn EXCEPT ![c] = [of |-> 0, on |-> on, cut |-> TRUE]]
    /\ UNCHANGED <<opened, claim, phase, todo, running, aborted, shutdown, registry, written, serves>>

\* An agent's event stream registers its host, however late the handler runs.
Register(c) ==
    /\ conn[c].on = "machine"
    /\ c \notin registry
    /\ registry' = registry \cup {c}
    /\ UNCHANGED <<opened, claim, phase, todo, running, aborted, shutdown, conn, written, serves>>

\* The connection ends: its peer leaves or, once it is cut off, the next read
\* or write of AbortableStream fails; the Registration is dropped with it.
Ends(c) ==
    /\ Open(c)
    /\ conn' = [conn EXCEPT ![c] = NoConn]
    /\ registry' = registry \ {c}
    /\ UNCHANGED <<opened, claim, phase, todo, running, aborted, shutdown, written, serves>>

---------------------------------------------------------------------------
(* Requests to the dashboard's server functions *)

\* What a caller's browser, or a tool, sends along.  A browser marks a request
\* with Sec-Fetch-Site, or at least (an old one) with the Origin it is from.
Requests ==
    [from : {"dashboard"}, site : {"same-origin", None}, origin : {"own"},
     body : {"json"}, safe : BOOLEAN]
    \cup [from : {"tool"}, site : {None}, origin : {None}, body : {"json", "none"},
          safe : BOOLEAN]
    \cup [from : {"elsewhere"}, site : {"cross-site", "same-site", None},
          origin : {"other", "null"}, body : {"json", "form"}, safe : BOOLEAN]

is_same_origin(r) ==
    IF r.site # None THEN r.site \in {"same-origin", "none"}
    ELSE r.origin \in {None, "own"}

has_accepted_body(r) == r.body = "json"

\* refuse_cross_site_requests, then the server function.
UiRequest(c) ==
    /\ conn[c].on = "dashboard"
    /\ \E r \in Requests :
        /\ ~r.safe
        /\ is_same_origin(r) /\ has_accepted_body(r)
        /\ written' = r.from
    /\ UNCHANGED <<opened, claim, phase, todo, running, aborted, shutdown, conn, registry, serves>>

---------------------------------------------------------------------------
(* Stopping *)

\* A listener's task returns an error and stops the others.
ListenerFails(k, l) ==
    /\ phase[k] = "serving"
    /\ l \in running[k]
    /\ running' = [running EXCEPT ![k] = @ \ {l}]
    /\ shutdown' = [shutdown EXCEPT ![k] = TRUE]
    /\ UNCHANGED <<opened, claim, phase, todo, aborted, conn, registry, written, serves>>

\* After the shutdown an HTTP listener waits for its connections (axum's
\* graceful shutdown); tftp and the proxy drop theirs.
ListenerEnds(k, l) ==
    /\ phase[k] # "idle"
    /\ shutdown[k]
    /\ l \in running[k]
    /\ \A c \in Conns : ~(conn[c].of = serves /\ conn[c].on = l)
    /\ running' = [running EXCEPT ![k] = @ \ {l}]
    /\ UNCHANGED <<opened, claim, phase, todo, aborted, shutdown, conn, registry, written, serves>>

\* main stops on a signal or once a listener has failed; an embedding
\* program stops when it likes.
StopRequested(k) == phase[k] = "serving"

\* disconnect_all empties the registry; a stream it drops ends by itself.
Stop(k) ==
    /\ StopRequested(k)
    /\ phase' = [phase EXCEPT ![k] = "draining"]
    /\ shutdown' = [shutdown EXCEPT ![k] = TRUE]
    /\ registry' = {}
    /\ UNCHANGED <<opened, claim, todo, running, aborted, conn, written, serves>>

\* mutant: the abort token is not cancelled.
AbortedNot == conn
\* The abort token reaches every stream that the current Server has accepted.
Aborted == [c \in Conns |-> IF conn[c].of = serves /\ Open(c) THEN [conn[c] EXCEPT !.cut = TRUE]
                            ELSE conn[c]]

\* The grace period is over with connections still open.
GraceOver(k) ==
    /\ phase[k] = "draining"
    /\ running[k] # {}
    /\ phase' = [phase EXCEPT ![k] = "cutting"]
    /\ conn' = Aborted
    /\ UNCHANGED <<opened, claim, todo, running, aborted, shutdown, registry, written, serves>>

\* Drop for Server, then its fields: the listeners still running are told to
\* end, which they do later, and the claim is given back at once.
Dropped(k) ==
    /\ phase' = [phase EXCEPT ![k] = "idle"]
    /\ shutdown' = [shutdown EXCEPT ![k] = TRUE]
    /\ conn' = Aborted
    /\ registry' = {}
    /\ running' = [running EXCEPT ![k] = {}]
    /\ aborted' = aborted \cup running[k]
    /\ claim' = None
    /\ UNCHANGED <<opened, todo, written, serves>>

\* The runtime gets to a listener that was told to end.
AbortedEnds(l) ==
    /\ aborted' = aborted \ {l}
    /\ UNCHANGED <<opened, claim, phase, todo, running, shutdown, conn, registry, written, serves>>

\* stop returns: all listeners are joined, or the second period is over too.
StopReturns(k) ==
    /\ \/ phase[k] = "draining" /\ running[k] = {}
       \/ phase[k] = "cutting"
    /\ Dropped(k)

DropServer(k) == phase[k] = "serving" /\ Dropped(k)

Next ==
    \/ OpenImaged
    \/ \E k \in Callers :
        \/ ServeBegins(k) \/ Bind(k) \/ BindFails(k) \/ Spawn(k) \/ Stop(k)
        \/ GraceOver(k) \/ StopReturns(k) \/ DropServer(k)
        \/ \E l \in running[k] : ListenerFails(k, l) \/ ListenerEnds(k, l)
    \/ \E l \in aborted : AbortedEnds(l)
    \/ \E c \in Conns : Accept(c) \/ Register(c) \/ Ends(c) \/ UiRequest(c)

Spec == Init /\ [][Next]_vars

---------------------------------------------------------------------------
\* Only the caller that holds the claim has a Server, so the address agents are
\* told is the one that is served.  Listeners of Servers that are gone may still
\* hold their addresses (aborted), but none that the Server binds.
OneServer ==
    \A k \in Callers : /\ phase[k] # "idle" => claim = k
                       /\ running[k] # {} => claim = k /\ running[k] \cap aborted = {}

\* A Server that is gone leaves nobody behind: whatever its listeners accepted,
\* before or after, and so any host registered over it, is cut off, also when
\* another Server has begun to serve meanwhile.
NoneLeftBehind ==
    \A c \in Conns : Open(c) /\ (claim = None \/ conn[c].of # serves) => conn[c].cut

\* A page of another site cannot make the dashboard change anything.
NoForeignWrites == written # "elsewhere"
=============================================================================

------------------------------ MODULE GrpcServer ------------------------------
(***************************************************************************)
(* The gRPC servers and channels of mysten-network: ServerBuilder::bind,    *)
(* Server and its cancel handle, connect and connect_lazy, and the way of a *)
(* request through the layers that from_config stacks on the router:        *)
(*                                                                          *)
(*   global concurrency limit > load shed > RequestLifetime > set path      *)
(*   header > trace (MetricsHandler) > propagate path header > service      *)
(*                                                                          *)
(* External, modelled from how this crate uses it: the accept loop serves   *)
(* each connection with a clone of the layered service, made before that    *)
(* service was ever called, calls the clone once per request and drops it   *)
(* with the connection; poll_ready of the concurrency limit takes a permit  *)
(* that call hands to the request; a shutdown closes the listener and waits *)
(* for the connections, each of which ends once its requests have and the   *)
(* streams of their responses, if any (Health/Watch of the health service   *)
(* every server has is one that need never end).  The service under the     *)
(* limit is always ready, so the load shed layer, which sits inside the     *)
(* limit, sheds nothing.  The limit and the request timeout are about a     *)
(* request up to the head of its response, not about the stream after it.   *)
(***************************************************************************)
EXTENDS Multiaddr, FiniteSets

CONSTANTS
    Servers,      \* ServerBuilders, each consumed by one bind
    Channels,     \* client channels, each with at most one connection
    Requests,     \* requests, each sent once
    Paths,        \* endpoint uri paths
    Addrs,        \* addresses given to bind and connect
    Taken,        \* TCP sockets other processes listen on
    GlobalLimit,  \* Config::global_concurrency_limit, or NoLimit
    NoLimit, NoPath, NoAddr, NoSocket, NoServer, NoChannel

ASSUME GrpcAssumption ==
    /\ Addrs \subseteq Multiaddrs
    /\ Taken \subseteq [host : Ip4s \cup Ip6s, port : Ports]
    /\ GlobalLimit \in Nat \cup {NoLimit}
    /\ NoLimit \notin Nat
    /\ IsFiniteSet(Channels) /\ IsFiniteSet(Requests)
    /\ NoPath \notin Paths
    /\ NoAddr \notin Multiaddrs
    /\ NoSocket \notin Sockets
    /\ NoServer \notin Servers
    /\ NoChannel \notin Channels

VARIABLES
    phase,     \* what has become of each ServerBuilder
    local,     \* Server::local_addr
    socket,    \* the socket its listener holds
    cancel,    \* its cancel handle: inside the Server, taken by the caller, sent
               \* on or dropped by the caller, or lost (dropped with the Server)
    files,     \* unix socket files on disk
    chan,      \* the channels, with the service clone that serves each
    req,       \* the requests
    starts,    \* on_start callbacks so far, by path
    drops      \* on_drop callbacks so far, by path

vars == <<phase, local, socket, cancel, files, chan, req, starts, drops>>
serverVars == <<phase, local, socket, cancel, files>>

Phases == {"built", "refused", "bound", "dropped", "serving", "draining", "stopped"}
Stages == {"idle", "sent", "handling", "streaming", "answered", "dropped"}

\* A channel: target is where a lazy one will connect to, to is the server its connection reached, path the field of the
\* RequestLifetime that serves it, permit whether that service has taken a
\* permit of the global limit and not called yet.
ChannelStates ==
    [state : {"none", "lazy", "open", "closed"}, target : SUBSET Sockets,
     to : Servers \cup {NoServer}, path : Paths \cup {NoPath}, permit : BOOLEAN]

\* A request: header is its grpc-path-req header, told the path on_response
\* was called with.
RequestStates ==
    [stage : Stages, on : Channels \cup {NoChannel}, path : Paths \cup {NoPath},
     header : Paths \cup {NoPath}, told : Paths \cup {NoPath}]

Init ==
    /\ phase = [s \in Servers |-> "built"]
    /\ local = [s \in Servers |-> NoAddr]
    /\ socket = [s \in Servers |-> NoSocket]
    /\ cancel = [s \in Servers |-> "inside"]
    /\ files \in SUBSET UnixPaths  \* what earlier servers left
    /\ chan = [c \in Channels |-> [state |-> "none", target |-> {}, to |-> NoServer,
                                   path |-> NoPath, permit |-> FALSE]]
    /\ req = [r \in Requests |-> [stage |-> "idle", on |-> NoChannel, path |-> NoPath,
                                  header |-> NoPath, told |-> NoPath]]
    /\ starts = [p \in Paths |-> 0]
    /\ drops = [p \in Paths |-> 0]

-----------------------------------------------------------------------------
\* Sockets some listener holds.
Listening == Taken \cup {socket[s] : s \in Servers}

\* Mutant of Permits: the permit goes back when the request is called, not when it ends.
Permits_UntilCall(s) == Cardinality({c \in Channels : chan[c].permit /\ chan[c].to = s})

\* Permits of server s's limit that are taken: by a connection that is ready
\* for its next request, and by the requests being handled.
Permits(s) ==
    Cardinality({c \in Channels : chan[c].permit /\ chan[c].to = s})
        + Cardinality({r \in Requests : /\ req[r].stage = "handling"
                                        /\ chan[req[r].on].to = s})

\* The ports tcp_listener may get when it asks for port: any one for 0.
Offered(port) == IF port = 0 THEN Ports ELSE {port}

-----------------------------------------------------------------------------
(* Servers *)

\* bind over TCP: the listener tries the addresses of the host until it gets a
\* free port on one, and local_addr is the address with the port it got.
BindTcp(s, addr) ==
    /\ phase[s] = "built"
    /\ BindsTcp(addr)
    /\ \E sock \in [host : Hosts(addr[1]), port : Offered(addr[2].value)] :
           /\ sock \notin Listening
           /\ socket' = [socket EXCEPT ![s] = sock]
           /\ local' = [local EXCEPT ![s] = UpdateTcpPort(addr, sock.port)]
    /\ phase' = [phase EXCEPT ![s] = "bound"]
    /\ UNCHANGED <<cancel, files, chan, req, starts, drops>>

\* bind over a unix socket creates its file, which must not exist; nothing
\* removes it when the listener is gone.
BindUnix(s, addr) ==
    /\ phase[s] = "built"
    /\ BindsUnix(addr)
    /\ addr[1].value \notin files
    /\ files' = files \cup {addr[1].value}
    /\ socket' = [socket EXCEPT ![s] = [host |-> addr[1].value, port |-> 0]]
    /\ local' = [local EXCEPT ![s] = addr]
    /\ phase' = [phase EXCEPT ![s] = "bound"]
    /\ UNCHANGED <<cancel, chan, req, starts, drops>>

\* bind returns an error, and the builder it consumed is gone: the address is
\* none it knows, its name has no address, every port it could take on any of
\* them is in use, or the file exists.
BindRefused(s, addr) ==
    /\ phase[s] = "built"
    /\ BindsTcp(addr) =>
           [host : Hosts(addr[1]), port : Offered(addr[2].value)] \subseteq Listening
    /\ BindsUnix(addr) => addr[1].value \in files
    /\ phase' = [phase EXCEPT ![s] = "refused"]
    /\ UNCHANGED <<local, socket, cancel, files, chan, req, starts, drops>>

\* Server::take_cancel_handle, possible until serve consumes the Server.
TakeCancelHandle(s) ==
    /\ phase[s] = "bound"
    /\ cancel[s] = "inside"
    /\ cancel' = [cancel EXCEPT ![s] = "taken"]
    /\ UNCHANGED <<phase, local, socket, files, chan, req, starts, drops>>

\* A bound Server is dropped instead of served: its listener goes with it, and
\* with it both ends of the cancellation that are still there.
DropServer(s) ==
    /\ phase[s] = "bound"
    /\ phase' = [phase EXCEPT ![s] = "dropped"]
    /\ socket' = [socket EXCEPT ![s] = NoSocket]
    /\ UNCHANGED <<local, cancel, files, chan, req, starts, drops>>

\* Mutant of Serve: it moves the server future out and drops the rest of self first.
Serve_DropsSelf(s) ==
    /\ phase[s] = "bound"
    /\ phase' = [phase EXCEPT ![s] = "serving"]
    /\ cancel' = [cancel EXCEPT ![s] = IF @ = "inside" THEN "lost" ELSE @]
    /\ UNCHANGED <<local, socket, files, chan, req, starts, drops>>

\* Server::serve: the fields of self that it does not await, the cancel handle
\* among them, live until it returns.
Serve(s) ==
    /\ phase[s] = "bound"
    /\ phase' = [phase EXCEPT ![s] = "serving"]
    /\ UNCHANGED <<local, socket, cancel, files, chan, req, starts, drops>>

\* The caller sends on the handle it took, or drops it.
SendCancel(s) ==
    /\ cancel[s] = "taken"
    /\ cancel' = [cancel EXCEPT ![s] = "sent"]
    /\ UNCHANGED <<phase, local, socket, files, chan, req, starts, drops>>
DropCancelHandle(s) ==
    /\ cancel[s] = "taken"
    /\ cancel' = [cancel EXCEPT ![s] = "dropped"]
    /\ UNCHANGED <<phase, local, socket, files, chan, req, starts, drops>>

\* Mutant of Cancelled: only a value that was sent shuts the server down.
Cancelled_SentOnly(s) == cancel[s] = "sent"

\* rx_cancellation has resolved: its map takes the value of a send and the
\* error of a dropped sender alike to ().
Cancelled(s) == cancel[s] \in {"sent", "dropped", "lost"}

\* The shutdown signal is seen: the listener closes, the connections drain.
Shutdown(s) ==
    /\ phase[s] = "serving"
    /\ Cancelled(s)
    /\ phase' = [phase EXCEPT ![s] = "draining"]
    /\ socket' = [socket EXCEPT ![s] = NoSocket]
    /\ UNCHANGED <<local, cancel, files, chan, req, starts, drops>>

\* serve returns once every connection is closed.
Served(s) ==
    /\ phase[s] = "draining"
    /\ \A c \in Channels : chan[c].state = "open" => chan[c].to # s
    /\ phase' = [phase EXCEPT ![s] = "stopped"]
    /\ UNCHANGED <<local, socket, cancel, files, chan, req, starts, drops>>

-----------------------------------------------------------------------------
(* Channels *)

\* What a connection to server s makes of channel c: RequestLifetimeLayer
\* starts a service off with no path.
Reached(c, s) ==
    [chan[c] EXCEPT !.state = "open", !.target = {}, !.to = s, !.path = NoPath]

\* connect and connect_with_config: an endpoint for the address, and a
\* connection to a listener that holds one of its sockets: a client tries the
\* addresses of a name until one answers.  An error of either leaves no channel.
Connect(c, addr) ==
    /\ chan[c].state = "none"
    /\ EndpointAccepts(addr)
    /\ \E s \in Servers :
           /\ socket[s] \in EndpointSockets(addr)
           /\ chan' = [chan EXCEPT ![c] = Reached(c, s)]
    /\ UNCHANGED <<serverVars, req, starts, drops>>

\* connect_lazy and connect_lazy_with_config connect at the first use.
ConnectLazy(c, addr) ==
    /\ chan[c].state = "none"
    /\ EndpointAccepts(addr)
    /\ chan' = [chan EXCEPT ![c].state = "lazy", ![c].target = EndpointSockets(addr)]
    /\ UNCHANGED <<serverVars, req, starts, drops>>

Establish(c) ==
    /\ chan[c].state = "lazy"
    /\ \E s \in Servers :
           /\ socket[s] \in chan[c].target
           /\ chan' = [chan EXCEPT ![c] = Reached(c, s)]
    /\ UNCHANGED <<serverVars, req, starts, drops>>

\* The connection of channel c ends and the service that served it is
\* dropped: RequestLifetime::drop reports the path it started with, if any.
EndConnection(c) ==
    /\ chan' = [chan EXCEPT ![c].state = "closed", ![c].path = NoPath, ![c].permit = FALSE]
    /\ drops' = IF chan[c].path = NoPath THEN drops
                ELSE [drops EXCEPT ![chan[c].path] = @ + 1]
    /\ UNCHANGED <<serverVars, req, starts>>

\* The client closes its channel, at any time.
Disconnect(c) == chan[c].state = "open" /\ EndConnection(c)

\* A draining server ends a connection whose requests have ended, the streams
\* of their responses too; a dropped one leaves the connections of its backlog
\* with nobody.
DrainConnection(c) ==
    /\ chan[c].state = "open"
    /\ phase[chan[c].to] \in {"draining", "dropped"}
    /\ \A r \in Requests : req[r].on = c => req[r].stage \notin {"handling", "streaming"}
    /\ EndConnection(c)

-----------------------------------------------------------------------------
(* Requests *)

\* A client sends request r for path, with a grpc-path-req header of its own
\* or none.
Send(r, c, path, header) ==
    /\ req[r].stage = "idle"
    /\ chan[c].state = "open"
    /\ req' = [req EXCEPT ![r] = [stage |-> "sent", on |-> c, path |-> path,
                                  header |-> header, told |-> NoPath]]
    /\ UNCHANGED <<serverVars, chan, starts, drops>>

\* poll_ready of the global concurrency limit: one semaphore for all the
\* connections of the server.
PollReady(c) ==
    /\ chan[c].state = "open"
    /\ phase[chan[c].to] = "serving"
    /\ ~chan[c].permit
    /\ GlobalLimit = NoLimit \/ Permits(chan[c].to) < GlobalLimit
    /\ chan' = [chan EXCEPT ![c].permit = TRUE]
    /\ UNCHANGED <<serverVars, req, starts, drops>>

\* Mutant of SetPathHeader: SetRequestHeaderLayer::if_not_present instead of overriding.
SetPathHeader_IfNotPresent(r) ==
    IF req[r].header = NoPath THEN req[r].path ELSE req[r].header

\* The header the request has after SetRequestHeaderLayer::overriding.
SetPathHeader(r) == req[r].path

\* Mutant of FirstCall: every call reports a start.
FirstCall_Always(c) == TRUE

\* RequestLifetime::call reports the start and keeps the path only if it has
\* none yet.
FirstCall(c) == chan[c].path = NoPath

\* call goes down the layers: RequestLifetime::call reports the start and keeps
\* the path unless it has one, the path header is set, MetricsHandler reports
\* the request (on_request, with the uri path) and the service gets it.
Call(r) ==
    LET c == req[r].on IN
    /\ req[r].stage = "sent"
    /\ chan[c].state = "open"
    /\ phase[chan[c].to] = "serving"
    /\ chan[c].permit
    /\ IF FirstCall(c)
       THEN /\ starts' = [starts EXCEPT ![req[r].path] = @ + 1]
            /\ chan' = [chan EXCEPT ![c].permit = FALSE, ![c].path = req[r].path]
       ELSE /\ chan' = [chan EXCEPT ![c].permit = FALSE]
            /\ UNCHANGED starts
    /\ req' = [req EXCEPT ![r].stage = "handling", ![r].header = SetPathHeader(r)]
    /\ UNCHANGED <<serverVars, drops>>

\* The service answers, the path header is copied to the response and
\* MetricsHandler::on_response reports the path it finds there, which must be
\* there: it unwraps it.
Respond(r) ==
    /\ req[r].stage = "handling"
    /\ req' = [req EXCEPT ![r].stage = "answered", ![r].told = req[r].header,
                          ![r].on = NoChannel, ![r].header = NoPath]
    /\ UNCHANGED <<serverVars, chan, starts, drops>>

\* The service answers with the head of a stream: the layers are done with the
\* request, as in Respond, and the connection is left with the stream.
OpenStream(r) ==
    /\ req[r].stage = "handling"
    /\ req' = [req EXCEPT ![r].stage = "streaming", ![r].told = req[r].header,
                          ![r].header = NoPath]
    /\ UNCHANGED <<serverVars, chan, starts, drops>>

\* The stream ends: the service has sent it all, or the client is done with it
\* or gone.
CloseStream(r) ==
    /\ req[r].stage = "streaming"
    /\ req' = [req EXCEPT ![r].stage = "answered", ![r].on = NoChannel]
    /\ UNCHANGED <<serverVars, chan, starts, drops>>

\* The request is dropped before its response: Config::request_timeout (of the
\* server, or of the client; none by default), or the client gave up.
Abandon(r) ==
    /\ req[r].stage \in {"sent", "handling"}
    /\ req' = [req EXCEPT ![r].stage = "dropped", ![r].on = NoChannel,
                          ![r].path = NoPath, ![r].header = NoPath]
    /\ UNCHANGED <<serverVars, chan, starts, drops>>

-----------------------------------------------------------------------------
ServerStep(s) ==
    \/ \E addr \in Addrs : BindTcp(s, addr) \/ BindUnix(s, addr) \/ BindRefused(s, addr)
    \/ TakeCancelHandle(s) \/ Serve(s) \/ DropServer(s)
    \/ SendCancel(s) \/ DropCancelHandle(s)
    \/ Shutdown(s) \/ Served(s)

ChannelStep(c) ==
    \/ \E addr \in (Addrs \cup {local[s] : s \in Servers}) \ {NoAddr} :
           Connect(c, addr) \/ ConnectLazy(c, addr)
    \/ Establish(c) \/ Disconnect(c) \/ DrainConnection(c) \/ PollReady(c)

RequestStep(r) ==
    \/ \E c \in Channels, path \in Paths, header \in Paths \cup {NoPath} :
           Send(r, c, path, header)
    \/ Call(r) \/ Respond(r) \/ OpenStream(r) \/ CloseStream(r) \/ Abandon(r)

Next ==
    \/ \E s \in Servers : ServerStep(s)
    \/ \E c \in Channels : ChannelStep(c)
    \/ \E r \in Requests : RequestStep(r)

Spec == Init /\ [][Next]_vars

\* The accept loop is polled (it is the future serve awaits), connections are
\* polled, and a handler answers, begins its stream or runs into the request
\* timeout (without one, a handler that hangs keeps serve from returning).
\* Streams need never end and clients need do nothing.
Fairness ==
    /\ \A s \in Servers : WF_vars(Shutdown(s)) /\ WF_vars(Served(s))
    /\ \A c \in Channels : WF_vars(DrainConnection(c))
    /\ \A r \in Requests : WF_vars(Respond(r) \/ OpenStream(r) \/ Abandon(r))

FairSpec == Spec /\ Fairness

-----------------------------------------------------------------------------
(* Properties *)

\* Type correctness: in particular a server that is bound has a socket a client
\* can reach, a host and not a name (server.rs:165-172).
TypeOK ==
    /\ phase \in [Servers -> Phases]
    /\ local \in [Servers -> Multiaddrs \cup {NoAddr}]
    /\ socket \in [Servers -> Sockets \cup {NoSocket}]
    /\ cancel \in [Servers -> {"inside", "taken", "sent", "dropped", "lost"}]
    /\ files \subseteq UnixPaths
    /\ chan \in [Channels -> ChannelStates]
    /\ req \in [Requests -> RequestStates]
    /\ starts \in [Paths -> Nat]
    /\ drops \in [Paths -> Nat]

\* The address a server reports is one a client can use to reach it: while the
\* server listens, endpoint_from_multiaddr accepts local_addr, this server's
\* socket is among those it connects to (and is the only one, unless the
\* address has a name with several addresses), to_socket_addr (where it
\* applies) agrees, and nobody else listens there.  It is what every test of
\* server.rs relies on when it binds port 0 and connects to local_addr().
LocalAddrReaches ==
    \A s \in Servers : phase[s] \in {"bound", "serving"} =>
        /\ EndpointAccepts(local[s])
        /\ socket[s] \in EndpointSockets(local[s])
        /\ local[s][1].proto # "dns" => EndpointSockets(local[s]) = {socket[s]}
        /\ ToSocketAddrAccepts(local[s]) => ToSocketAddr(local[s]) = socket[s]
        /\ socket[s] \notin Taken \cup {socket[t] : t \in Servers \ {s}}

\* A server shuts down only after the caller took the cancel handle and sent on
\* it or dropped it: serve, which consumes the Server with a handle nobody
\* took, does not cancel itself by dropping it.
ShutdownOnlyWhenCancelled ==
    \A s \in Servers : phase[s] \in {"draining", "stopped"} => cancel[s] \in {"sent", "dropped"}

\* on_start and on_drop pair up (metrics.rs:34-36: "for each on_start there will
\* be corresponding on_drop"): for every path, no drop comes before its start,
\* and once every connection has ended no start is left without its drop.  It
\* says nothing of the moment a drop comes, nor which calls report a start.
CallbacksPaired ==
    /\ \A p \in Paths : drops[p] <= starts[p]
    /\ (\A c \in Channels : chan[c].state # "open") => starts = drops

\* on_response is called with the path of its own request, whatever
\* grpc-path-req header the client sent and however many requests share the
\* connection; so the header that MetricsHandler unwraps is there.
ResponsePathIsRequestPath ==
    \A r \in Requests :
        req[r].stage \in {"streaming", "answered"} => req[r].told = req[r].path

\* Requests being handled by one server never exceed the global limit, over
\* all of its connections, including the ones whose client has gone.
GlobalLimitHolds ==
    GlobalLimit # NoLimit =>
        \A s \in Servers :
            Cardinality({r \in Requests : req[r].stage = "handling" /\ chan[req[r].on].to = s})
                <= GlobalLimit

\* Some client keeps a stream from server s open.
StreamOpen(s) ==
    \E r \in Requests : /\ req[r].stage = "streaming"
                        /\ chan[req[r].on].state = "open"
                        /\ chan[req[r].on].to = s

\* A cancelled server stops: once the caller has sent on the cancel handle or
\* dropped it, serve returns, even if no client ever disconnects, unless there
\* is for ever a stream open, which a graceful shutdown waits for.
CancelledServerStops ==
    \A s \in Servers :
        (phase[s] = "serving" /\ cancel[s] \in {"sent", "dropped"})
            ~> (phase[s] = "stopped" \/ []StreamOpen(s))
=============================================================================

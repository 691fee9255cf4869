--------------------------- MODULE GrpcServerProofs ---------------------------
(***************************************************************************)
(* Proofs about GrpcServer, for every set of servers, channels, requests    *)
(* and addresses and every limit.                                           *)
(***************************************************************************)
EXTENDS GrpcServer, FiniteSetTheorems, TLAPS

-----------------------------------------------------------------------------
(* Addresses *)

\* What the value of a protocol is, by its name.
LEMMA ProtocolValues ==
  ASSUME NEW x \in Protocol
  PROVE  /\ x.proto \in {"dns", "ip4", "ip6"} => Hosts(x) \subseteq Ip4s \cup Ip6s
         /\ x.proto \in {"ip4", "ip6"} => Hosts(x) = {x.value}
         /\ x.proto = "unix" => x.value \in UnixPaths
         /\ x.proto = "tcp" => x.value \in Ports \cup {0}
  BY HostsAssumption DEF Protocol, Hosts

\* An address that bind takes for TCP has three protocols, the second of which
\* is the port.
LEMMA TcpAddress ==
  ASSUME NEW addr \in Multiaddrs, BindsTcp(addr)
  PROVE  /\ Len(addr) = 3
         /\ addr \in [1..3 -> Protocol]
         /\ addr[1].proto \in {"dns", "ip4", "ip6"}
         /\ Hosts(addr[1]) \subseteq Ip4s \cup Ip6s
         /\ addr[2].proto = "tcp"
         /\ addr[2].value \in Ports \cup {0}
         /\ addr[3].proto \in {"http", "https"}
  <1>1. Len(addr) = 3
    <2>1. 3 <= Len(addr) /\ Len(addr) < 4
      BY DEF BindsTcp, ParseInet, ParseHttpHttps, ParseEnd
    <2>2. Len(addr) \in Nat
      BY DEF Multiaddrs
    <2>3. \A n \in Nat : 3 <= n /\ n < 4 => n = 3
      OBVIOUS
    <2> QED BY <2>1, <2>2, <2>3
  <1>2. addr \in [1..3 -> Protocol]
    BY <1>1 DEF Multiaddrs
  <1>3. /\ addr[1].proto \in {"dns", "ip4", "ip6"}
        /\ addr[2].proto = "tcp"
        /\ addr[3].proto \in {"http", "https"}
    BY DEF BindsTcp, ParseInet, ParseTcp, ParseHttpHttps
  <1>4. addr[1] \in Protocol /\ addr[2] \in Protocol
    BY <1>2
  <1> QED BY <1>1, <1>2, <1>3, <1>4, ProtocolValues

\* The port that was bound replaces the one asked for, and nothing else
\* changes: the result is an address again (so update_tcp_port_in_multiaddr
\* does not panic) and the client connects to that port of the same hosts.
LEMMA UpdatedAddress ==
  ASSUME NEW addr \in Multiaddrs, BindsTcp(addr), NEW port \in Ports, NEW host \in Hosts(addr[1])
  PROVE  LET upd == UpdateTcpPort(addr, port)
             sock == [host |-> host, port |-> port]
         IN  /\ upd \in Multiaddrs
             /\ EndpointAccepts(upd)
             /\ sock \in EndpointSockets(upd)
             /\ upd[1].proto # "dns" => EndpointSockets(upd) = {sock}
             /\ ToSocketAddrAccepts(upd) => ToSocketAddr(upd) = sock
             /\ sock \in Sockets
  <1> DEFINE upd == UpdateTcpPort(addr, port)
  <1>1. /\ addr \in [1..3 -> Protocol] /\ Len(addr) = 3
        /\ addr[1].proto \in {"dns", "ip4", "ip6"} /\ addr[3].proto \in {"http", "https"}
        /\ host \in Ip4s \cup Ip6s
    BY TcpAddress
  <1>2. [proto |-> "tcp", value |-> port] \in Protocol
    BY DEF Protocol
  <1>3. upd = [i \in 1..3 |-> IF i = 2 THEN [proto |-> "tcp", value |-> port] ELSE addr[i]]
    BY <1>1 DEF UpdateTcpPort
  <1>4. upd \in Seq(Protocol) /\ Len(upd) = 3
    <2>1. \A i \in 1..3 : upd[i] \in Protocol
      BY <1>1, <1>2, <1>3
    <2> QED BY <1>3, <2>1, 3 \in Nat
  <1>5. upd[1] = addr[1] /\ upd[2] = [proto |-> "tcp", value |-> port] /\ upd[3] = addr[3]
    BY <1>3
  <1> HIDE DEF upd
  <1>6. EndpointAccepts(upd)
    <2>1. upd # <<>> /\ Len(upd) = 3
      <3>1. Len(<<>>) # 3
        OBVIOUS
      <3> QED BY <3>1, <1>4, Zenon
    <2>2. /\ upd[1].proto \in {"dns", "ip4", "ip6"} /\ upd[2].proto = "tcp"
          /\ upd[3].proto \in {"http", "https"}
      BY <1>1, <1>5
    <2>3. ParseInet(upd, upd[1].proto)
      BY <2>1, <2>2 DEF ParseInet, ParseTcp, ParseHttpHttps, ParseEnd
    <2> QED BY <2>1, <2>2, <2>3 DEF EndpointAccepts
  <1>7. EndpointSockets(upd) = {[host |-> h, port |-> port] : h \in Hosts(addr[1])}
    <2>1. upd[1].proto # "unix" /\ upd[2].value = port
      BY <1>1, <1>5
    <2> QED BY <1>5, <2>1 DEF EndpointSockets
  <1>8. addr[1].proto # "dns" => host = addr[1].value /\ Hosts(addr[1]) = {host}
    BY DEF Hosts
  <1>a. ToSocketAddrAccepts(upd) => ToSocketAddr(upd) = [host |-> host, port |-> port]
    <2> SUFFICES ASSUME ToSocketAddrAccepts(upd)
                 PROVE  ToSocketAddr(upd) = [host |-> host, port |-> port]
      OBVIOUS
    <2>1. addr[1].proto \in {"ip4", "ip6"}
      BY <1>5 DEF ToSocketAddrAccepts
    <2> QED BY <2>1, <1>5, <1>8 DEF ToSocketAddr
  <1>b. addr[1].proto # "dns" => EndpointSockets(upd) = {[host |-> host, port |-> port]}
    BY <1>7, <1>8
  <1>9. [host |-> host, port |-> port] \in Sockets
    BY <1>1 DEF Sockets
  <1> QED BY <1>4, <1>5, <1>6, <1>7, <1>a, <1>b, <1>9 DEF Multiaddrs, upd

\* An address bound over a unix socket is one the client connects to as it is.
LEMMA UnixAddress ==
  ASSUME NEW addr \in Multiaddrs, BindsUnix(addr)
  PROVE  LET sock == [host |-> addr[1].value, port |-> 0]
         IN  /\ addr[1].value \in UnixPaths
             /\ EndpointAccepts(addr)
             /\ EndpointSockets(addr) = {sock}
             /\ addr[1].proto = "unix"
             /\ ~ToSocketAddrAccepts(addr)
             /\ sock \in Sockets
  <1>1. addr # <<>> /\ addr[1].proto = "unix"
    BY DEF BindsUnix, ParseUnix
  <1>2. addr[1] \in Protocol
    <2>1. Len(addr) >= 1
      BY <1>1 DEF Multiaddrs
    <2> QED BY <2>1 DEF Multiaddrs
  <1>3. addr[1].value \in UnixPaths
    BY <1>1, <1>2, ProtocolValues
  <1> QED
    BY <1>1, <1>3 DEF BindsUnix, EndpointAccepts, EndpointSockets, ToSocketAddrAccepts, Sockets

\* An endpoint's targets are sockets.
LEMMA EndpointTarget ==
  ASSUME NEW addr \in Multiaddrs, EndpointAccepts(addr)
  PROVE  EndpointSockets(addr) \subseteq Sockets
  <1>1. CASE BindsTcp(addr)
    BY <1>1, TcpAddress DEF EndpointSockets, Sockets
  <1>2. CASE BindsUnix(addr)
    BY <1>2, UnixAddress
  <1> QED BY <1>1, <1>2 DEF EndpointAccepts, BindsTcp, BindsUnix

-----------------------------------------------------------------------------
(* The inductive invariant *)

\* A server holds a socket exactly while it listens.
ListensWhileServing ==
    \A s \in Servers : socket[s] # NoSocket <=> phase[s] \in {"bound", "serving"}

\* The file of every unix socket that is held exists.
HeldFilesExist ==
    \A s \in Servers : socket[s] # NoSocket /\ socket[s].host \in UnixPaths
                           => socket[s].host \in files

\* Nothing but the caller lets go of a cancel handle.
NoHandleLost == \A s \in Servers : cancel[s] # "lost"

\* A channel with a connection has a server; a request under way has a channel
\* and a path, and once called, its own path as its header.
ChannelsAndRequests ==
    /\ \A c \in Channels : chan[c].state = "open" => chan[c].to \in Servers
    /\ \A r \in Requests : req[r].stage \in {"sent", "handling"} =>
           req[r].on \in Channels /\ req[r].path \in Paths
    /\ \A r \in Requests : req[r].stage = "handling" => req[r].header = req[r].path

ServerInv ==
    /\ TypeOK
    /\ ListensWhileServing
    /\ HeldFilesExist
    /\ NoHandleLost
    /\ LocalAddrReaches
    /\ ShutdownOnlyWhenCancelled
    /\ ChannelsAndRequests
    /\ ResponsePathIsRequestPath

\* The parts about servers, and the parts about channels and requests.
ServerPart ==
    /\ phase \in [Servers -> Phases]
    /\ local \in [Servers -> Multiaddrs \cup {NoAddr}]
    /\ socket \in [Servers -> Sockets \cup {NoSocket}]
    /\ cancel \in [Servers -> {"inside", "taken", "sent", "dropped", "lost"}]
    /\ files \subseteq UnixPaths
    /\ ListensWhileServing
    /\ HeldFilesExist
    /\ NoHandleLost
    /\ LocalAddrReaches
    /\ ShutdownOnlyWhenCancelled

ClientPart ==
    /\ chan \in [Channels -> ChannelStates]
    /\ req \in [Requests -> RequestStates]
    /\ starts \in [Paths -> Nat]
    /\ drops \in [Paths -> Nat]
    /\ ChannelsAndRequests
    /\ ResponsePathIsRequestPath

LEMMA Parts == ServerInv <=> ServerPart /\ ClientPart
  BY DEF ServerInv, ServerPart, ClientPart, TypeOK

LEMMA PartsPrimed == ServerPart' /\ ClientPart' => ServerInv'
  BY DEF ServerInv, ServerPart, ClientPart, TypeOK

LEMMA InitInv == Init => ServerInv
  <1> SUFFICES ASSUME Init PROVE ServerInv
    OBVIOUS
  <1>1. ServerPart
    BY DEF Init, ServerPart, Phases, ListensWhileServing, HeldFilesExist, NoHandleLost,
           LocalAddrReaches, ShutdownOnlyWhenCancelled
  <1>2. ClientPart
    BY DEF Init, ClientPart, ChannelStates, RequestStates, Stages, ChannelsAndRequests,
           ResponsePathIsRequestPath
  <1> QED BY <1>1, <1>2, Parts

\* A step that leaves the servers alone, or the channels and requests.
LEMMA ServerPartStutters ==
  ASSUME ServerPart, UNCHANGED serverVars
  PROVE  ServerPart'
  BY DEF ServerPart, serverVars, ListensWhileServing, HeldFilesExist, NoHandleLost,
         LocalAddrReaches, ShutdownOnlyWhenCancelled

LEMMA ClientPartStutters ==
  ASSUME ClientPart, UNCHANGED <<chan, req, starts, drops>>
  PROVE  ClientPart'
  BY DEF ClientPart, ChannelsAndRequests, ResponsePathIsRequestPath

-----------------------------------------------------------------------------
(* Servers *)

LEMMA BindTcpStep ==
  ASSUME ServerPart, NEW s \in Servers, NEW addr \in Addrs, BindTcp(s, addr)
  PROVE  ServerPart'
  <1>1. addr \in Multiaddrs /\ BindsTcp(addr)
    BY GrpcAssumption DEF BindTcp
  <1>2. PICK sock \in [host : Hosts(addr[1]), port : Offered(addr[2].value)] :
            /\ sock \notin Listening
            /\ socket' = [socket EXCEPT ![s] = sock]
            /\ local' = [local EXCEPT ![s] = UpdateTcpPort(addr, sock.port)]
    BY DEF BindTcp
  <1> DEFINE upd == UpdateTcpPort(addr, sock.port)
  <1>3. /\ sock.port \in Ports /\ sock.host \in Hosts(addr[1])
        /\ sock = [host |-> sock.host, port |-> sock.port]
    BY <1>1, <1>2, TcpAddress DEF Offered
  <1>4. /\ upd \in Multiaddrs /\ EndpointAccepts(upd) /\ sock \in EndpointSockets(upd)
        /\ upd[1].proto # "dns" => EndpointSockets(upd) = {sock}
        /\ ToSocketAddrAccepts(upd) => ToSocketAddr(upd) = sock
        /\ sock \in Sockets
    BY <1>1, <1>3, UpdatedAddress
  <1>5. sock # NoSocket /\ sock.host \notin UnixPaths
    BY <1>1, <1>3, <1>4, TcpAddress, GrpcAssumption, HostsAssumption
  <1>6. sock \notin Taken /\ \A t \in Servers : socket[t] # sock
    BY <1>2 DEF Listening
  <1> HIDE DEF upd
  <1>7. /\ phase[s] = "built" /\ phase' = [phase EXCEPT ![s] = "bound"]
        /\ UNCHANGED <<cancel, files>>
        /\ socket' = [socket EXCEPT ![s] = sock] /\ local' = [local EXCEPT ![s] = upd]
    BY <1>2 DEF BindTcp, upd
  <1>8. LocalAddrReaches'
    BY <1>4, <1>6, <1>7 DEF ServerPart, LocalAddrReaches
  <1>9. ListensWhileServing' /\ HeldFilesExist'
    BY <1>5, <1>7 DEF ServerPart, ListensWhileServing, HeldFilesExist
  <1> QED
    BY <1>4, <1>7, <1>8, <1>9
       DEF ServerPart, Phases, NoHandleLost, ShutdownOnlyWhenCancelled

LEMMA BindUnixStep ==
  ASSUME ServerPart, NEW s \in Servers, NEW addr \in Addrs, BindUnix(s, addr)
  PROVE  ServerPart'
  <1> DEFINE sock == [host |-> addr[1].value, port |-> 0]
  <1>1. addr \in Multiaddrs /\ BindsUnix(addr)
    BY GrpcAssumption DEF BindUnix
  <1>2. /\ sock.host \in UnixPaths /\ EndpointAccepts(addr) /\ EndpointSockets(addr) = {sock}
        /\ ~ToSocketAddrAccepts(addr)
        /\ sock \in Sockets
    BY <1>1, UnixAddress
  <1>3. sock # NoSocket
    BY <1>2, GrpcAssumption
  <1>4. sock \notin Taken
    BY <1>2, GrpcAssumption, HostsAssumption
  <1>5. sock.host = addr[1].value
    OBVIOUS
  <1> HIDE DEF sock
  <1>6. /\ phase[s] = "built" /\ phase' = [phase EXCEPT ![s] = "bound"]
        /\ UNCHANGED cancel
        /\ sock.host \notin files /\ files' = files \cup {sock.host}
        /\ socket' = [socket EXCEPT ![s] = sock] /\ local' = [local EXCEPT ![s] = addr]
    BY <1>5 DEF BindUnix, sock
  <1>7. \A t \in Servers : socket[t] # sock
    BY <1>2, <1>3, <1>6 DEF ServerPart, HeldFilesExist
  <1>8. LocalAddrReaches'
    BY <1>2, <1>4, <1>6, <1>7 DEF ServerPart, LocalAddrReaches
  <1>9. ListensWhileServing' /\ HeldFilesExist'
    BY <1>3, <1>6 DEF ServerPart, ListensWhileServing, HeldFilesExist
  <1> QED
    BY <1>1, <1>2, <1>6, <1>8, <1>9
       DEF ServerPart, Phases, NoHandleLost, ShutdownOnlyWhenCancelled

\* The other steps of a server give it no socket.
LEMMA OtherServerSteps ==
  ASSUME ServerPart, NEW s \in Servers,
         \/ \E addr \in Addrs : BindRefused(s, addr)
         \/ TakeCancelHandle(s) \/ Serve(s) \/ DropServer(s)
         \/ SendCancel(s) \/ DropCancelHandle(s)
         \/ Shutdown(s) \/ Served(s)
  PROVE  ServerPart'
  <1> USE DEF ServerPart, Phases, ListensWhileServing, HeldFilesExist, NoHandleLost,
              ShutdownOnlyWhenCancelled, LocalAddrReaches
  <1>1. CASE \E addr \in Addrs : BindRefused(s, addr)
    BY <1>1 DEF BindRefused
  <1>2. CASE TakeCancelHandle(s)
    BY <1>2 DEF TakeCancelHandle
  <1>3. CASE Serve(s)
    BY <1>3 DEF Serve
  <1>4. CASE SendCancel(s)
    BY <1>4 DEF SendCancel
  <1>5. CASE DropCancelHandle(s)
    BY <1>5 DEF DropCancelHandle
  <1>6. CASE Shutdown(s)
    BY <1>6 DEF Shutdown, Cancelled
  <1>7. CASE Served(s)
    BY <1>7 DEF Served
  <1>8. CASE DropServer(s)
    BY <1>8 DEF DropServer
  <1> QED BY <1>1, <1>2, <1>3, <1>4, <1>5, <1>6, <1>7, <1>8

\* A step of a server leaves the channels and the requests alone.
LEMMA ServerStepPreserves ==
  ASSUME ServerInv, NEW s \in Servers, ServerStep(s)
  PROVE  ServerInv'
  <1>1. ServerPart'
    BY Parts, BindTcpStep, BindUnixStep, OtherServerSteps DEF ServerStep
  <1>2. UNCHANGED <<chan, req, starts, drops>>
    BY DEF ServerStep, BindTcp, BindUnix, BindRefused, TakeCancelHandle, Serve, DropServer,
           SendCancel, DropCancelHandle, Shutdown, Served
  <1>3. ClientPart'
    BY <1>2, Parts, ClientPartStutters
  <1> QED BY <1>1, <1>3, PartsPrimed

-----------------------------------------------------------------------------
(* Channels and requests *)

\* A channel that changes, and nothing else.
LEMMA ChannelChanges ==
  ASSUME ClientPart, NEW c \in Channels, NEW x \in ChannelStates,
         x.state = "open" => x.to \in Servers,
         chan' = [chan EXCEPT ![c] = x],
         UNCHANGED <<req, starts, drops>>
  PROVE  ClientPart'
  BY DEF ClientPart, ChannelsAndRequests, ResponsePathIsRequestPath

\* What Reached makes of a channel.
LEMMA ReachedChannel ==
  ASSUME ClientPart, NEW c \in Channels, NEW s \in Servers
  PROVE  /\ Reached(c, s) \in ChannelStates
         /\ Reached(c, s).state = "open"
         /\ Reached(c, s).to = s
         /\ Reached(c, s).path = NoPath
         /\ Reached(c, s).permit = chan[c].permit
  BY DEF ClientPart, Reached, ChannelStates

LEMMA ChannelStepPreserves ==
  ASSUME ServerInv, NEW c \in Channels, ChannelStep(c)
  PROVE  ServerInv'
  <1>0. ServerPart /\ ClientPart
    BY Parts
  <1>1. UNCHANGED <<serverVars, req>>
    BY DEF ChannelStep, Connect, ConnectLazy, Establish, Disconnect, DrainConnection,
           EndConnection, PollReady
  <1> SUFFICES ClientPart'
    BY <1>0, <1>1, ServerPartStutters, PartsPrimed
  <1>2. chan[c] \in ChannelStates
    BY <1>0 DEF ClientPart
  <1>3. ASSUME NEW addr \in (Addrs \cup {local[s] : s \in Servers}) \ {NoAddr},
               EndpointAccepts(addr)
        PROVE  EndpointSockets(addr) \subseteq Sockets
    <2>1. addr \in Multiaddrs
      BY <1>0, <1>3, GrpcAssumption DEF ServerPart
    <2> QED BY <1>3, <2>1, EndpointTarget
  <1>4. ASSUME NEW addr \in (Addrs \cup {local[s] : s \in Servers}) \ {NoAddr},
               Connect(c, addr)
        PROVE  ClientPart'
    <2>1. PICK s \in Servers : chan' = [chan EXCEPT ![c] = Reached(c, s)]
      BY <1>4 DEF Connect
    <2> DEFINE x == Reached(c, s)
    <2>2. x \in ChannelStates /\ x.to = s /\ x.state = "open"
      BY <1>0, ReachedChannel
    <2> QED BY <1>0, <1>4, <2>1, <2>2, ChannelChanges DEF Connect
  <1>5. ASSUME NEW addr \in (Addrs \cup {local[s] : s \in Servers}) \ {NoAddr},
               ConnectLazy(c, addr)
        PROVE  ClientPart'
    <2> DEFINE x == [chan[c] EXCEPT !.state = "lazy", !.target = EndpointSockets(addr)]
    <2>1. EndpointSockets(addr) \subseteq Sockets
      BY <1>3, <1>5 DEF ConnectLazy
    <2>2. x \in ChannelStates /\ x.state = "lazy"
      BY <1>2, <2>1 DEF ChannelStates
    <2>3. chan' = [chan EXCEPT ![c] = x] /\ UNCHANGED <<req, starts, drops>>
      BY <1>0, <1>5 DEF ConnectLazy, ClientPart, ChannelStates
    <2> QED BY <1>0, <2>1, <2>2, <2>3, ChannelChanges
  <1>6. CASE Establish(c)
    <2>1. PICK s \in Servers : chan' = [chan EXCEPT ![c] = Reached(c, s)]
      BY <1>6 DEF Establish
    <2> DEFINE x == Reached(c, s)
    <2>3. x \in ChannelStates /\ x.to = s /\ x.state = "open"
      BY <1>0, ReachedChannel
    <2> QED BY <1>0, <1>6, <2>1, <2>3, ChannelChanges DEF Establish
  <1>7. CASE Disconnect(c) \/ DrainConnection(c)
    <2> DEFINE x == [chan[c] EXCEPT !.state = "closed", !.path = NoPath, !.permit = FALSE]
    <2>1. EndConnection(c)
      BY <1>7 DEF Disconnect, DrainConnection
    <2>2. chan' = [chan EXCEPT ![c] = x] /\ UNCHANGED <<req, starts>>
      BY <1>0, <2>1 DEF EndConnection, ClientPart, ChannelStates
    <2>3. chan' \in [Channels -> ChannelStates]
      BY <1>0, <1>2, <2>2 DEF ClientPart, ChannelStates
    <2>4. drops' \in [Paths -> Nat]
      BY <1>0, <1>2, <2>1 DEF EndConnection, ClientPart, ChannelStates
    <2>5. \A d \in Channels : chan'[d].state = "open" => chan'[d].to \in Servers
      BY <1>0, <1>2, <2>2 DEF ClientPart, ChannelStates, ChannelsAndRequests
    <2> QED BY <1>0, <2>2, <2>3, <2>4, <2>5
            DEF ClientPart, ChannelsAndRequests, ResponsePathIsRequestPath
  <1>8. CASE PollReady(c)
    <2> DEFINE x == [chan[c] EXCEPT !.permit = TRUE]
    <2>1. chan' = [chan EXCEPT ![c] = x] /\ UNCHANGED <<req, starts, drops>>
      BY <1>0, <1>8 DEF PollReady, ClientPart, ChannelStates
    <2>2. x \in ChannelStates /\ x.state = chan[c].state /\ x.to = chan[c].to
      BY <1>2 DEF ChannelStates
    <2>3. x.state = "open" => x.to \in Servers
      BY <1>0, <2>2 DEF ClientPart, ChannelsAndRequests
    <2> QED BY <1>0, <2>1, <2>2, <2>3, ChannelChanges
  <1> QED BY <1>4, <1>5, <1>6, <1>7, <1>8 DEF ChannelStep

\* A request that changes, with the channels as they were or with the same
\* connections.
RequestFits(x) ==
    /\ x \in RequestStates
    /\ x.stage \in {"sent", "handling"} => x.on \in Channels /\ x.path \in Paths
    /\ x.stage = "handling" => x.header = x.path
    /\ x.stage \in {"streaming", "answered"} => x.told = x.path

LEMMA RequestChanges ==
  ASSUME ClientPart, NEW r \in Requests, NEW x, RequestFits(x),
         req' = [req EXCEPT ![r] = x]
  PROVE  /\ req' \in [Requests -> RequestStates]
         /\ \A q \in Requests : req'[q].stage \in {"sent", "handling"} =>
                req'[q].on \in Channels /\ req'[q].path \in Paths
         /\ \A q \in Requests : req'[q].stage = "handling" => req'[q].header = req'[q].path
         /\ \A q \in Requests :
                req'[q].stage \in {"streaming", "answered"} => req'[q].told = req'[q].path
  BY DEF ClientPart, ChannelsAndRequests, ResponsePathIsRequestPath, RequestFits

LEMMA RequestStepPreserves ==
  ASSUME ServerInv, NEW r \in Requests, RequestStep(r)
  PROVE  ServerInv'
  <1>0. ServerPart /\ ClientPart
    BY Parts
  <1>1. UNCHANGED serverVars
    BY DEF RequestStep, Send, Call, Respond, OpenStream, CloseStream, Abandon
  <1> SUFFICES ClientPart'
    BY <1>0, <1>1, ServerPartStutters, PartsPrimed
  <1>2. req[r] \in RequestStates
    BY <1>0 DEF ClientPart
  <1>3. ASSUME NEW x, RequestFits(x), req' = [req EXCEPT ![r] = x],
               UNCHANGED <<chan, starts, drops>>
        PROVE  ClientPart'
    BY <1>0, <1>3, RequestChanges DEF ClientPart, ChannelsAndRequests, ResponsePathIsRequestPath
  <1>4. CASE \E c \in Channels, path \in Paths, header \in Paths \cup {NoPath} :
               Send(r, c, path, header)
    <2>1. PICK c \in Channels, path \in Paths, header \in Paths \cup {NoPath} :
              Send(r, c, path, header)
      BY <1>4
    <2> DEFINE x == [stage |-> "sent", on |-> c, path |-> path,
                     header |-> header, told |-> NoPath]
    <2>2. RequestFits(x)
      BY DEF RequestFits, RequestStates, Stages
    <2> QED BY <1>3, <2>1, <2>2 DEF Send
  <1>5. CASE Call(r)
    <2> DEFINE c == req[r].on
               first == [chan[c] EXCEPT !.permit = FALSE, !.path = req[r].path]
               later == [chan[c] EXCEPT !.permit = FALSE]
               x == [req[r] EXCEPT !.stage = "handling", !.header = req[r].path]
    <2>1. c \in Channels /\ req[r].path \in Paths
      BY <1>0, <1>5 DEF Call, ClientPart, ChannelsAndRequests
    <2>2. /\ first \in ChannelStates /\ later \in ChannelStates
          /\ first.state = chan[c].state /\ later.state = chan[c].state
          /\ first.to = chan[c].to /\ later.to = chan[c].to
      BY <1>0, <2>1 DEF ClientPart, ChannelStates
    <2>3. \/ chan' = [chan EXCEPT ![c] = first]
          \/ chan' = [chan EXCEPT ![c] = later]
      <3>1. chan \in [Channels -> ChannelStates]
        BY <1>0 DEF ClientPart
      <3>2. CASE FirstCall(c)
        <4>1. chan' = [chan EXCEPT ![c].permit = FALSE, ![c].path = req[r].path]
          BY <1>5, <3>2 DEF Call
        <4> QED BY <2>1, <3>1, <4>1 DEF ChannelStates
      <3>3. CASE ~FirstCall(c)
        <4>1. chan' = [chan EXCEPT ![c].permit = FALSE]
          BY <1>5, <3>3 DEF Call
        <4> QED BY <2>1, <3>1, <4>1 DEF ChannelStates
      <3> QED BY <3>2, <3>3
    <2>4. chan[c].state = "open"
      BY <1>5 DEF Call
    <2>5. /\ chan' \in [Channels -> ChannelStates]
          /\ \A d \in Channels : chan'[d].state = "open" => chan'[d].to \in Servers
      <3> HIDE DEF first, later, c
      <3> QED BY <1>0, <2>1, <2>2, <2>3, <2>4 DEF ClientPart, ChannelsAndRequests
    <2>6. /\ starts' \in [Paths -> Nat] /\ drops' \in [Paths -> Nat]
      BY <1>0, <1>5, <2>1 DEF Call, ClientPart
    <2>7. req' = [req EXCEPT ![r] = x]
      BY <1>5 DEF Call, SetPathHeader
    <2>8. RequestFits(x)
      BY <1>2, <2>1 DEF RequestFits, RequestStates, Stages
    <2> HIDE DEF x
    <2> QED BY <1>0, <2>5, <2>6, <2>7, <2>8, RequestChanges
            DEF ClientPart, ChannelsAndRequests, ResponsePathIsRequestPath
  <1>6. CASE Respond(r)
    <2> DEFINE x == [req[r] EXCEPT !.stage = "answered", !.told = req[r].header,
                                   !.on = NoChannel, !.header = NoPath]
    <2>1. req[r].header = req[r].path
      BY <1>0, <1>6 DEF Respond, ClientPart, ChannelsAndRequests
    <2>2. RequestFits(x)
      BY <1>2, <2>1 DEF RequestFits, RequestStates, Stages
    <2>3. req' = [req EXCEPT ![r] = x] /\ UNCHANGED <<chan, starts, drops>>
      BY <1>6 DEF Respond
    <2> QED BY <1>3, <2>2, <2>3
  <1>7. CASE Abandon(r)
    <2> DEFINE x == [req[r] EXCEPT !.stage = "dropped", !.on = NoChannel,
                                   !.path = NoPath, !.header = NoPath]
    <2>1. RequestFits(x)
      BY <1>2 DEF RequestFits, RequestStates, Stages
    <2>2. req' = [req EXCEPT ![r] = x] /\ UNCHANGED <<chan, starts, drops>>
      BY <1>7 DEF Abandon
    <2> QED BY <1>3, <2>1, <2>2
  <1>8. CASE OpenStream(r)
    <2> DEFINE x == [req[r] EXCEPT !.stage = "streaming", !.told = req[r].header,
                                   !.header = NoPath]
    <2>1. req[r].header = req[r].path
      BY <1>0, <1>8 DEF OpenStream, ClientPart, ChannelsAndRequests
    <2>2. RequestFits(x)
      BY <1>2, <2>1 DEF RequestFits, RequestStates, Stages
    <2>3. req' = [req EXCEPT ![r] = x] /\ UNCHANGED <<chan, starts, drops>>
      BY <1>8 DEF OpenStream
    <2> QED BY <1>3, <2>2, <2>3
  <1>9. CASE CloseStream(r)
    <2> DEFINE x == [req[r] EXCEPT !.stage = "answered", !.on = NoChannel]
    <2>1. req[r].told = req[r].path
      BY <1>0, <1>9 DEF CloseStream, ClientPart, ResponsePathIsRequestPath
    <2>2. RequestFits(x)
      BY <1>2, <2>1 DEF RequestFits, RequestStates, Stages
    <2>3. req' = [req EXCEPT ![r] = x] /\ UNCHANGED <<chan, starts, drops>>
      BY <1>9 DEF CloseStream
    <2> QED BY <1>3, <2>2, <2>3
  <1> QED BY <1>4, <1>5, <1>6, <1>7, <1>8, <1>9 DEF RequestStep

-----------------------------------------------------------------------------
(* Theorems *)

\* Every step keeps the inductive invariant.
LEMMA NextPreserves == ServerInv /\ [Next]_vars => ServerInv'
  <1> SUFFICES ASSUME ServerInv, [Next]_vars PROVE ServerInv'
    OBVIOUS
  <1>1. CASE UNCHANGED vars
    <2>1. ServerPart /\ ClientPart
      BY Parts
    <2> QED BY <1>1, <2>1, ServerPartStutters, ClientPartStutters, PartsPrimed DEF vars, serverVars
  <1> QED BY <1>1, ServerStepPreserves, ChannelStepPreserves, RequestStepPreserves DEF Next

\* The inductive invariant holds of every behaviour of the servers.
THEOREM ServerInvariant == Spec => []ServerInv
  BY InitInv, NextPreserves, PTL DEF Spec

\* The variables keep their types.
THEOREM TypeCorrect == Spec => []TypeOK
  <1>1. ServerInv => TypeOK
    BY DEF ServerInv
  <1> QED BY <1>1, ServerInvariant, PTL

\* For any number of servers over any addresses, bind reports an address that
\* leads a client to the server that reported it and to no other.
THEOREM ReportedAddressReaches == Spec => []LocalAddrReaches
  <1>1. ServerInv => LocalAddrReaches
    BY DEF ServerInv
  <1> QED BY <1>1, ServerInvariant, PTL

\* A server never shuts down but by the handle its caller took.
THEOREM NoShutdownUncancelled == Spec => []ShutdownOnlyWhenCancelled
  <1>1. ServerInv => ShutdownOnlyWhenCancelled
    BY DEF ServerInv
  <1> QED BY <1>1, ServerInvariant, PTL

\* on_response always finds the path header, and in it its own request's path.
THEOREM ResponsesReportTheirRequest == Spec => []ResponsePathIsRequestPath
  <1>1. ServerInv => ResponsePathIsRequestPath
    BY DEF ServerInv
  <1> QED BY <1>1, ServerInvariant, PTL

-----------------------------------------------------------------------------
(* on_start and on_drop *)

\* The open connections whose service started with path p.
OpenOn(p) == {c \in Channels : chan[c].state = "open" /\ chan[c].path = p}

\* For every path, the starts not yet dropped are the open connections whose
\* first request was for that path.
OpenCallsCounted ==
    \A p \in Paths :
        starts[p] = drops[p] + Cardinality({c \in Channels : /\ chan[c].state = "open"
                                                             /\ chan[c].path = p})

LEMMA PairedCounts == OpenCallsCounted <=> \A p \in Paths : starts[p] = drops[p] + Cardinality(OpenOn(p))
  BY DEF OpenCallsCounted, OpenOn

LEMMA PairedCountsPrimed ==
  (\A p \in Paths : starts'[p] = drops'[p] + Cardinality(OpenOn(p)')) => OpenCallsCounted'
  BY DEF OpenCallsCounted, OpenOn

\* One connection more or less.
LEMMA OpenOnFinite ==
  ASSUME NEW p \in Paths
  PROVE  /\ IsFiniteSet(OpenOn(p)) /\ Cardinality(OpenOn(p)) \in Nat
         /\ \A c \in Channels \ OpenOn(p) :
                Cardinality(OpenOn(p) \cup {c}) = Cardinality(OpenOn(p)) + 1
         /\ \A c \in OpenOn(p) :
                Cardinality(OpenOn(p) \ {c}) = Cardinality(OpenOn(p)) - 1
  <1>1. IsFiniteSet(OpenOn(p))
    BY GrpcAssumption, FS_Subset DEF OpenOn
  <1> QED BY <1>1, FS_CardinalityType, FS_AddElement, FS_RemoveElement

\* A step that leaves the same connections on every path, and no callback.
LEMMA PairedStutters ==
  ASSUME OpenCallsCounted, UNCHANGED <<starts, drops>>,
         \A p \in Paths : OpenOn(p)' = OpenOn(p)
  PROVE  OpenCallsCounted'
  BY PairedCounts, PairedCountsPrimed

LEMMA PairedChannelStep ==
  ASSUME ServerInv, OpenCallsCounted, NEW c \in Channels, ChannelStep(c)
  PROVE  OpenCallsCounted'
  <1>0. ServerPart /\ ClientPart /\ chan \in [Channels -> ChannelStates]
    BY Parts DEF ClientPart
  <1>1. CASE \E addr \in (Addrs \cup {local[s] : s \in Servers}) \ {NoAddr} : Connect(c, addr)
    <2>1. PICK addr \in (Addrs \cup {local[s] : s \in Servers}) \ {NoAddr} : Connect(c, addr)
      BY <1>1
    <2>2. \A p \in Paths : OpenOn(p)' = OpenOn(p)
      BY <1>0, <2>1, GrpcAssumption DEF Connect, Reached, OpenOn, ChannelStates
    <2> QED BY <2>1, <2>2, PairedStutters DEF Connect
  <1>2. CASE \E addr \in (Addrs \cup {local[s] : s \in Servers}) \ {NoAddr} : ConnectLazy(c, addr)
    <2>1. PICK addr \in (Addrs \cup {local[s] : s \in Servers}) \ {NoAddr} : ConnectLazy(c, addr)
      BY <1>2
    <2>2. \A p \in Paths : OpenOn(p)' = OpenOn(p)
      BY <1>0, <2>1 DEF ConnectLazy, OpenOn, ChannelStates
    <2> QED BY <2>1, <2>2, PairedStutters DEF ConnectLazy
  <1>3. CASE Establish(c)
    <2>1. \A p \in Paths : OpenOn(p)' = OpenOn(p)
      BY <1>0, <1>3, GrpcAssumption DEF Establish, Reached, OpenOn, ChannelStates
    <2> QED BY <1>3, <2>1, PairedStutters DEF Establish
  <1>4. CASE PollReady(c)
    <2>1. \A p \in Paths : OpenOn(p)' = OpenOn(p)
      BY <1>0, <1>4 DEF PollReady, OpenOn, ChannelStates
    <2> QED BY <1>4, <2>1, PairedStutters DEF PollReady
  <1>5. CASE Disconnect(c) \/ DrainConnection(c)
    <2>1. chan[c].state = "open" /\ EndConnection(c)
      BY <1>5 DEF Disconnect, DrainConnection
    <2>2. \A p \in Paths : OpenOn(p)' = OpenOn(p) \ {c}
      BY <1>0, <2>1 DEF EndConnection, OpenOn, ChannelStates
    <2>3. CASE chan[c].path = NoPath
      <3>1. \A p \in Paths : c \notin OpenOn(p)
        BY <2>3, GrpcAssumption DEF OpenOn
      <3>2. \A p \in Paths : OpenOn(p)' = OpenOn(p)
        BY <2>2, <3>1
      <3> QED BY <2>1, <2>3, <3>2, PairedStutters DEF EndConnection
    <2>4. CASE chan[c].path # NoPath
      <3> DEFINE p0 == chan[c].path
      <3>1. p0 \in Paths
        BY <1>0, <2>4 DEF ChannelStates
      <3>2. c \in OpenOn(p0) /\ \A p \in Paths \ {p0} : c \notin OpenOn(p)
        BY <2>1 DEF OpenOn
      <3>3. drops' = [drops EXCEPT ![p0] = @ + 1] /\ starts' = starts
        BY <2>1, <2>4 DEF EndConnection
      <3>4. starts \in [Paths -> Nat] /\ drops \in [Paths -> Nat]
        BY <1>0 DEF ClientPart
      <3> HIDE DEF p0
      <3>5. ASSUME NEW p \in Paths
            PROVE  starts'[p] = drops'[p] + Cardinality(OpenOn(p)')
        <4>1. starts[p] = drops[p] + Cardinality(OpenOn(p)) /\ Cardinality(OpenOn(p)) \in Nat
          BY PairedCounts, OpenOnFinite
        <4>2. CASE p = p0
          <5>1. Cardinality(OpenOn(p)') = Cardinality(OpenOn(p)) - 1
            BY <2>2, <3>2, <4>2, OpenOnFinite
          <5> QED BY <3>1, <3>3, <3>4, <4>1, <4>2, <5>1
        <4>3. CASE p # p0
          <5>1. OpenOn(p)' = OpenOn(p)
            BY <2>2, <3>2, <4>3
          <5> QED BY <3>1, <3>3, <3>4, <4>1, <4>3, <5>1
        <4> QED BY <4>2, <4>3
      <3> QED BY <3>5, PairedCountsPrimed
    <2> QED BY <2>3, <2>4
  <1> QED BY <1>1, <1>2, <1>3, <1>4, <1>5 DEF ChannelStep

LEMMA PairedRequestStep ==
  ASSUME ServerInv, OpenCallsCounted, NEW r \in Requests, RequestStep(r)
  PROVE  OpenCallsCounted'
  <1>0. ServerPart /\ ClientPart /\ chan \in [Channels -> ChannelStates]
    BY Parts DEF ClientPart
  <1>1. CASE UNCHANGED <<chan, starts, drops>>
    BY <1>1 DEF OpenCallsCounted
  <1>2. CASE Call(r)
    <2> DEFINE c == req[r].on
               p0 == req[r].path
    <2>1. c \in Channels /\ p0 \in Paths /\ chan[c].state = "open"
      BY <1>0, <1>2 DEF Call, ClientPart, ChannelsAndRequests
    <2>2. CASE ~FirstCall(c)
      <3>1. chan' = [chan EXCEPT ![c].permit = FALSE] /\ UNCHANGED <<starts, drops>>
        BY <1>2, <2>2 DEF Call
      <3>2. \A p \in Paths : OpenOn(p)' = OpenOn(p)
        BY <1>0, <2>1, <3>1 DEF OpenOn, ChannelStates
      <3> QED BY <3>1, <3>2, PairedStutters
    <2>3. CASE FirstCall(c)
      <3>1. /\ chan' = [chan EXCEPT ![c].permit = FALSE, ![c].path = p0]
            /\ starts' = [starts EXCEPT ![p0] = @ + 1] /\ drops' = drops
        BY <1>2, <2>3 DEF Call
      <3>2. \A p \in Paths : c \notin OpenOn(p)
        BY <2>3, GrpcAssumption DEF FirstCall, OpenOn
      <3>3. \A p \in Paths : OpenOn(p)' = IF p = p0 THEN OpenOn(p) \cup {c} ELSE OpenOn(p)
        BY <1>0, <2>1, <3>1, <3>2 DEF OpenOn, ChannelStates
      <3>4. starts \in [Paths -> Nat] /\ drops \in [Paths -> Nat]
        BY <1>0 DEF ClientPart
      <3> HIDE DEF p0, c
      <3>5. ASSUME NEW p \in Paths
            PROVE  starts'[p] = drops'[p] + Cardinality(OpenOn(p)')
        <4>1. starts[p] = drops[p] + Cardinality(OpenOn(p)) /\ Cardinality(OpenOn(p)) \in Nat
          BY PairedCounts, OpenOnFinite
        <4>2. CASE p = p0
          <5>1. Cardinality(OpenOn(p)') = Cardinality(OpenOn(p)) + 1
            <6>1. OpenOn(p)' = OpenOn(p) \cup {c} /\ c \in Channels \ OpenOn(p)
              BY <2>1, <3>2, <3>3, <4>2
            <6>2. Cardinality(OpenOn(p) \cup {c}) = Cardinality(OpenOn(p)) + 1
              BY <6>1, OpenOnFinite
            <6> QED BY <6>1, <6>2
          <5> QED BY <2>1, <3>1, <3>4, <4>1, <4>2, <5>1
        <4>3. CASE p # p0
          BY <2>1, <3>1, <3>3, <3>4, <4>1, <4>3
        <4> QED BY <4>2, <4>3
      <3> QED BY <3>5, PairedCountsPrimed
    <2> QED BY <2>2, <2>3
  <1> QED BY <1>1, <1>2 DEF RequestStep, Send, Respond, OpenStream, CloseStream, Abandon

\* Every on_start has its on_drop, for any number of connections and requests:
\* the ones outstanding are the open connections that were called, so none is
\* once the connections have ended.
THEOREM StartsAndDropsPair == Spec => []CallbacksPaired
  <1>1. Init => OpenCallsCounted
    <2> SUFFICES ASSUME Init PROVE OpenCallsCounted
      OBVIOUS
    <2>1. \A p \in Paths : OpenOn(p) = {}
      BY DEF Init, OpenOn
    <2>2. \A p \in Paths : Cardinality(OpenOn(p)) = 0
      BY <2>1, FS_EmptySet
    <2>3. \A p \in Paths : starts[p] = 0 /\ drops[p] = 0
      BY DEF Init
    <2> QED BY <2>2, <2>3, PairedCounts
  <1>2. ServerInv /\ OpenCallsCounted /\ [Next]_vars => OpenCallsCounted'
    <2> SUFFICES ASSUME ServerInv, OpenCallsCounted, [Next]_vars PROVE OpenCallsCounted'
      OBVIOUS
    <2>1. CASE UNCHANGED vars
      BY <2>1 DEF OpenCallsCounted, vars
    <2>2. ASSUME NEW s \in Servers, ServerStep(s) PROVE OpenCallsCounted'
      <3>1. UNCHANGED <<chan, req, starts, drops>>
        BY <2>2 DEF ServerStep, BindTcp, BindUnix, BindRefused, TakeCancelHandle, Serve, DropServer,
                    SendCancel, DropCancelHandle, Shutdown, Served
      <3> QED BY <3>1 DEF OpenCallsCounted
    <2> QED BY <2>1, <2>2, PairedChannelStep, PairedRequestStep DEF Next
  <1>3. ServerInv /\ OpenCallsCounted => CallbacksPaired
    <2> SUFFICES ASSUME ServerInv, OpenCallsCounted PROVE CallbacksPaired
      OBVIOUS
    <2>1. starts \in [Paths -> Nat] /\ drops \in [Paths -> Nat]
      BY DEF ServerInv, TypeOK
    <2>2. \A p \in Paths : /\ starts[p] = drops[p] + Cardinality(OpenOn(p))
                           /\ Cardinality(OpenOn(p)) \in Nat
      BY PairedCounts, OpenOnFinite
    <2>3. \A p \in Paths : drops[p] <= starts[p]
      BY <2>1, <2>2
    <2>4. ASSUME \A c \in Channels : chan[c].state # "open" PROVE starts = drops
      <3>1. \A p \in Paths : OpenOn(p) = {}
        BY <2>4 DEF OpenOn
      <3>2. \A p \in Paths : Cardinality(OpenOn(p)) = 0
        BY <3>1, FS_EmptySet
      <3>3. \A p \in Paths : starts[p] = drops[p]
        BY <2>1, <2>2, <3>2
      <3> QED BY <2>1, <3>3
    <2> QED BY <2>3, <2>4 DEF CallbacksPaired
  <1> QED BY <1>1, <1>2, <1>3, ServerInvariant, PTL DEF Spec

-----------------------------------------------------------------------------
(* The global concurrency limit *)

\* Who holds the permits of server s: connections that are ready for a request,
\* and requests being handled, their connection still there or not.
ReadyOn(s) == {c \in Channels : chan[c].permit /\ chan[c].to = s}
HandledBy(s) == {r \in Requests : req[r].stage = "handling" /\ chan[req[r].on].to = s}

\* A channel that has yet to connect.
Fresh(c) == chan[c].state \in {"none", "lazy"}

\* A permit goes with a connection that was made, and the permits never exceed
\* the limit.
NothingBeforeConnecting ==
    /\ \A c \in Channels : Fresh(c) => ~chan[c].permit
    /\ \A r \in Requests : req[r].stage \in {"sent", "handling"} => ~Fresh(req[r].on)
WithinLimit ==
    GlobalLimit # NoLimit => \A s \in Servers : Permits(s) \leq GlobalLimit

LimitInv == NothingBeforeConnecting /\ WithinLimit

LEMMA PermitsCounted ==
  ASSUME NEW s
  PROVE  /\ IsFiniteSet(ReadyOn(s)) /\ IsFiniteSet(HandledBy(s))
         /\ Cardinality(ReadyOn(s)) \in Nat /\ Cardinality(HandledBy(s)) \in Nat
         /\ Permits(s) = Cardinality(ReadyOn(s)) + Cardinality(HandledBy(s))
  <1>1. IsFiniteSet(ReadyOn(s)) /\ IsFiniteSet(HandledBy(s))
    BY GrpcAssumption, FS_Subset DEF ReadyOn, HandledBy
  <1>2. Permits(s) = Cardinality(ReadyOn(s)) + Cardinality(HandledBy(s))
    BY DEF Permits, ReadyOn, HandledBy
  <1> QED BY <1>1, <1>2, FS_CardinalityType

\* Permits that nobody takes can only go back.
LEMMA PermitsGoBack ==
  ASSUME WithinLimit,
         \A s \in Servers : ReadyOn(s)' \subseteq ReadyOn(s) /\ HandledBy(s)' \subseteq HandledBy(s)
  PROVE  WithinLimit'
  <1> SUFFICES ASSUME GlobalLimit # NoLimit, NEW s \in Servers
               PROVE  Permits(s)' \leq GlobalLimit
    BY DEF WithinLimit
  <1>1. GlobalLimit \in Nat /\ Permits(s) \leq GlobalLimit
    BY GrpcAssumption DEF WithinLimit
  <1>2. /\ IsFiniteSet(ReadyOn(s)) /\ IsFiniteSet(HandledBy(s))
        /\ Cardinality(ReadyOn(s)) \in Nat /\ Cardinality(HandledBy(s)) \in Nat
        /\ Permits(s) = Cardinality(ReadyOn(s)) + Cardinality(HandledBy(s))
    BY PermitsCounted
  <1>3. /\ IsFiniteSet(ReadyOn(s)') /\ Cardinality(ReadyOn(s)') \leq Cardinality(ReadyOn(s))
        /\ IsFiniteSet(HandledBy(s)') /\ Cardinality(HandledBy(s)') \leq Cardinality(HandledBy(s))
    BY <1>2, FS_Subset
  <1>4. Cardinality(ReadyOn(s)') \in Nat /\ Cardinality(HandledBy(s)') \in Nat
    BY <1>3, FS_CardinalityType
  <1>5. Permits(s)' = Cardinality(ReadyOn(s)') + Cardinality(HandledBy(s)')
    BY DEF Permits, ReadyOn, HandledBy
  <1> QED BY <1>1, <1>2, <1>3, <1>4, <1>5

\* Connecting takes no permit: nothing was ready or handled on the channel.
LEMMA ConnectingKeepsLimit ==
  ASSUME ClientPart, LimitInv, NEW c \in Channels, Fresh(c), NEW x,
         x.permit = chan[c].permit, chan' = [chan EXCEPT ![c] = x], UNCHANGED req
  PROVE  LimitInv'
  <1>1. chan \in [Channels -> ChannelStates]
    BY DEF ClientPart
  <1>2. \A d \in Channels : chan'[d] = IF d = c THEN x ELSE chan[d]
    BY <1>1
  <1>3. ~x.permit /\ ~chan[c].permit
    BY DEF LimitInv, NothingBeforeConnecting
  <1>4. \A r \in Requests : req[r].stage \in {"sent", "handling"} =>
            req[r].on \in Channels /\ req[r].on # c /\ ~Fresh(req[r].on)
    BY DEF LimitInv, NothingBeforeConnecting, ClientPart, ChannelsAndRequests
  <1>5. \A s \in Servers : ReadyOn(s)' = ReadyOn(s) /\ HandledBy(s)' = HandledBy(s)
    <2> SUFFICES ASSUME NEW s \in Servers
                 PROVE  ReadyOn(s)' = ReadyOn(s) /\ HandledBy(s)' = HandledBy(s)
      OBVIOUS
    <2>1. ReadyOn(s)' = ReadyOn(s)
      BY <1>2, <1>3 DEF ReadyOn
    <2>2. HandledBy(s)' = HandledBy(s)
      BY <1>2, <1>4 DEF HandledBy
    <2> QED BY <2>1, <2>2
  <1>6. WithinLimit'
    BY <1>5, PermitsGoBack DEF LimitInv
  <1>7. NothingBeforeConnecting'
    <2>1. \A d \in Channels : Fresh(d)' => ~chan'[d].permit
      BY <1>2, <1>3 DEF LimitInv, NothingBeforeConnecting, Fresh
    <2>2. \A r \in Requests : req[r].stage \in {"sent", "handling"} => ~(Fresh(req[r].on)')
      BY <1>2, <1>4 DEF Fresh
    <2>3. \A r \in Requests : req'[r].stage \in {"sent", "handling"} => ~(Fresh(req[r].on)')
      BY <2>2
    <2> QED BY <2>1, <2>3 DEF NothingBeforeConnecting, Fresh
  <1> QED BY <1>6, <1>7 DEF LimitInv

LEMMA LimitChannelStep ==
  ASSUME ServerInv, LimitInv, NEW c \in Channels, ChannelStep(c)
  PROVE  LimitInv'
  <1>0. ServerPart /\ ClientPart /\ chan \in [Channels -> ChannelStates] /\ chan[c] \in ChannelStates
    BY Parts DEF ClientPart
  <1>1. ASSUME NEW addr, Connect(c, addr) PROVE LimitInv'
    <2>1. PICK s \in Servers : chan' = [chan EXCEPT ![c] = Reached(c, s)]
      BY <1>1 DEF Connect
    <2>2. Reached(c, s).permit = chan[c].permit
      BY <1>0 DEF Reached, ChannelStates
    <2>3. Fresh(c) /\ UNCHANGED req
      BY <1>1 DEF Connect, Fresh
    <2> QED BY <1>0, <2>1, <2>2, <2>3, ConnectingKeepsLimit
  <1>2. ASSUME NEW addr, ConnectLazy(c, addr) PROVE LimitInv'
    <2> DEFINE x == [chan[c] EXCEPT !.state = "lazy", !.target = EndpointSockets(addr)]
    <2>1. chan' = [chan EXCEPT ![c] = x] /\ x.permit = chan[c].permit
      BY <1>0, <1>2 DEF ConnectLazy, ChannelStates
    <2>2. Fresh(c) /\ UNCHANGED req
      BY <1>2 DEF ConnectLazy, Fresh
    <2> HIDE DEF x
    <2> QED BY <1>0, <2>1, <2>2, ConnectingKeepsLimit
  <1>3. CASE Establish(c)
    <2>1. PICK s \in Servers : chan' = [chan EXCEPT ![c] = Reached(c, s)]
      BY <1>3 DEF Establish
    <2>2. Reached(c, s).permit = chan[c].permit
      BY <1>0 DEF Reached, ChannelStates
    <2>3. Fresh(c) /\ UNCHANGED req
      BY <1>3 DEF Establish, Fresh
    <2> QED BY <1>0, <2>1, <2>2, <2>3, ConnectingKeepsLimit
  <1>4. CASE Disconnect(c) \/ DrainConnection(c)
    <2>1. EndConnection(c) /\ UNCHANGED req
      BY <1>4 DEF Disconnect, DrainConnection, EndConnection
    <2>2. \A d \in Channels : /\ chan'[d].to = chan[d].to
                              /\ chan'[d].permit => chan[d].permit
                              /\ d # c => chan'[d] = chan[d]
          /\ chan'[c].state = "closed"
      BY <1>0, <2>1 DEF EndConnection, ChannelStates
    <2>3. \A r \in Requests : req[r].stage = "handling" => req[r].on \in Channels
      BY <1>0 DEF ClientPart, ChannelsAndRequests
    <2>4. \A s \in Servers : ReadyOn(s)' \subseteq ReadyOn(s) /\ HandledBy(s)' \subseteq HandledBy(s)
      BY <2>1, <2>2, <2>3 DEF ReadyOn, HandledBy
    <2>5. WithinLimit'
      BY <2>4, PermitsGoBack DEF LimitInv
    <2>6. NothingBeforeConnecting'
      BY <1>0, <2>1, <2>2 DEF LimitInv, NothingBeforeConnecting, Fresh, ClientPart, ChannelsAndRequests
    <2> QED BY <2>5, <2>6 DEF LimitInv
  <1>5. CASE PollReady(c)
    <2>1. /\ chan[c].state = "open" /\ ~chan[c].permit /\ UNCHANGED req
          /\ GlobalLimit = NoLimit \/ Permits(chan[c].to) < GlobalLimit
          /\ chan' = [chan EXCEPT ![c].permit = TRUE]
      BY <1>5 DEF PollReady
    <2>2. \A d \in Channels : /\ chan'[d].to = chan[d].to /\ chan'[d].state = chan[d].state
                              /\ chan'[d].permit = IF d = c THEN TRUE ELSE chan[d].permit
      BY <1>0, <2>1 DEF ChannelStates
    <2>3. \A r \in Requests : req[r].stage \in {"sent", "handling"} => req[r].on \in Channels
      BY <1>0 DEF ClientPart, ChannelsAndRequests
    <2>4. NothingBeforeConnecting'
      BY <2>1, <2>2, <2>3 DEF LimitInv, NothingBeforeConnecting, Fresh
    <2>5. WithinLimit'
      <3> SUFFICES ASSUME GlobalLimit # NoLimit, NEW s \in Servers
                   PROVE  Permits(s)' \leq GlobalLimit
        BY DEF WithinLimit
      <3>1. HandledBy(s)' = HandledBy(s)
        BY <2>1, <2>2, <2>3 DEF HandledBy
      <3>2. Permits(s)' = Cardinality(ReadyOn(s)') + Cardinality(HandledBy(s)')
        BY DEF Permits, ReadyOn, HandledBy
      <3>3. /\ IsFiniteSet(ReadyOn(s)) /\ Cardinality(ReadyOn(s)) \in Nat
            /\ Cardinality(HandledBy(s)) \in Nat
            /\ Permits(s) = Cardinality(ReadyOn(s)) + Cardinality(HandledBy(s))
        BY PermitsCounted
      <3>4. GlobalLimit \in Nat /\ Permits(s) \leq GlobalLimit
        BY GrpcAssumption DEF LimitInv, WithinLimit
      <3>5. CASE s = chan[c].to
        <4>1. ReadyOn(s)' = ReadyOn(s) \cup {c} /\ c \notin ReadyOn(s)
          BY <2>1, <2>2, <3>5 DEF ReadyOn
        <4>2. Cardinality(ReadyOn(s)') = Cardinality(ReadyOn(s)) + 1
          BY <3>3, <4>1, FS_AddElement
        <4>3. Permits(s) < GlobalLimit
          BY <2>1, <3>5
        <4> QED BY <3>1, <3>2, <3>3, <3>4, <4>2, <4>3
      <3>6. CASE s # chan[c].to
        <4>1. ReadyOn(s)' = ReadyOn(s)
          BY <2>1, <2>2, <3>6 DEF ReadyOn
        <4> QED BY <4>1, <3>1, <3>2, <3>3, <3>4
      <3> QED BY <3>5, <3>6
    <2> QED BY <2>4, <2>5 DEF LimitInv
  <1> QED BY <1>1, <1>2, <1>3, <1>4, <1>5 DEF ChannelStep

\* A call hands the permit of the connection to the request.
LEMMA LimitCall ==
  ASSUME ServerInv, LimitInv, NEW r \in Requests, Call(r)
  PROVE  LimitInv'
  <1>0. /\ ClientPart /\ chan \in [Channels -> ChannelStates]
        /\ req \in [Requests -> RequestStates]
    BY Parts DEF ClientPart
  <1>1. PICK c \in Channels : c = req[r].on
    BY <1>0 DEF Call, ClientPart, ChannelsAndRequests
  <1>2. /\ req[r].stage = "sent" /\ chan[c].state = "open" /\ chan[c].permit
        /\ \/ chan' = [chan EXCEPT ![c].permit = FALSE, ![c].path = req[r].path]
           \/ chan' = [chan EXCEPT ![c].permit = FALSE]
        /\ req' = [req EXCEPT ![r].stage = "handling", ![r].header = SetPathHeader(r)]
    BY <1>1 DEF Call
  <1>3. \A d \in Channels : /\ chan'[d].to = chan[d].to /\ chan'[d].state = chan[d].state
                            /\ chan'[d].permit = IF d = c THEN FALSE ELSE chan[d].permit
    <2> DEFINE passed == [chan EXCEPT ![c].permit = FALSE]
    <2>1. /\ passed \in [Channels -> ChannelStates]
          /\ \A d \in Channels : /\ passed[d].to = chan[d].to /\ passed[d].state = chan[d].state
                                 /\ passed[d].permit = IF d = c THEN FALSE ELSE chan[d].permit
      BY <1>0 DEF ChannelStates
    <2> HIDE DEF passed
    <2>2. CASE chan' = passed
      BY <2>1, <2>2
    <2>3. CASE chan' = [passed EXCEPT ![c].path = req[r].path]
      BY <2>1, <2>3 DEF ChannelStates
    <2>4. chan' = passed \/ chan' = [passed EXCEPT ![c].path = req[r].path]
      BY <1>0, <1>2 DEF passed, ChannelStates
    <2> QED BY <2>2, <2>3, <2>4
  <1>4. \A q \in Requests : /\ req'[q].on = req[q].on
                            /\ req'[q].stage = IF q = r THEN "handling" ELSE req[q].stage
    BY <1>0, <1>2 DEF RequestStates
  <1>5. \A q \in Requests : req[q].stage \in {"sent", "handling"} => req[q].on \in Channels
    BY <1>0 DEF ClientPart, ChannelsAndRequests
  <1>a. ASSUME NEW s, NEW q \in Requests
        PROVE  q \in HandledBy(s)' <=> q \in HandledBy(s) \/ (q = r /\ chan[c].to = s)
    <2>1. CASE q = r
      <3>1. req'[q].stage = "handling" /\ req'[q].on = c /\ chan'[c].to = chan[c].to
        BY <2>1, <1>1, <1>3, <1>4
      <3> QED BY <2>1, <3>1, <1>2 DEF HandledBy
    <2>2. CASE q # r
      <3>1. req'[q].stage = req[q].stage /\ req'[q].on = req[q].on
        BY <2>2, <1>4
      <3>2. req[q].stage = "handling" => chan'[req[q].on].to = chan[req[q].on].to
        BY <1>3, <1>5
      <3> QED BY <2>2, <3>1, <3>2 DEF HandledBy
    <2> QED BY <2>1, <2>2
  <1>b. r \notin HandledBy(chan[c].to) /\ \A s : HandledBy(s) \subseteq Requests /\ HandledBy(s)' \subseteq Requests
    BY <1>2 DEF HandledBy
  <1>6. NothingBeforeConnecting'
    <2>1. \A d \in Channels : Fresh(d)' => ~chan'[d].permit
      BY <1>3 DEF LimitInv, NothingBeforeConnecting, Fresh
    <2>2. ASSUME NEW q \in Requests, req'[q].stage \in {"sent", "handling"}
          PROVE  chan'[req'[q].on].state \notin {"none", "lazy"}
      <3>1. req[q].stage \in {"sent", "handling"} /\ req[q].on \in Channels
        BY <2>2, <1>2, <1>4, <1>5
      <3>2. chan[req[q].on].state \notin {"none", "lazy"}
        BY <3>1 DEF LimitInv, NothingBeforeConnecting, Fresh
      <3> QED BY <3>1, <3>2, <1>3, <1>4
    <2> QED BY <2>1, <2>2 DEF NothingBeforeConnecting, Fresh
  <1>7. WithinLimit'
    <2> SUFFICES ASSUME GlobalLimit # NoLimit, NEW s \in Servers
                 PROVE  Permits(s)' \leq GlobalLimit
      BY DEF WithinLimit
    <2>1. Permits(s)' = Cardinality(ReadyOn(s)') + Cardinality(HandledBy(s)')
      BY DEF Permits, ReadyOn, HandledBy
    <2>2. /\ IsFiniteSet(ReadyOn(s)) /\ IsFiniteSet(HandledBy(s))
          /\ Cardinality(ReadyOn(s)) \in Nat /\ Cardinality(HandledBy(s)) \in Nat
          /\ Permits(s) = Cardinality(ReadyOn(s)) + Cardinality(HandledBy(s))
      BY PermitsCounted
    <2>3. GlobalLimit \in Nat /\ Permits(s) \leq GlobalLimit
      BY GrpcAssumption DEF LimitInv, WithinLimit
    <2>4. CASE s = chan[c].to
      <3>1. ReadyOn(s)' = ReadyOn(s) \ {c} /\ c \in ReadyOn(s)
        BY <1>2, <1>3, <2>4 DEF ReadyOn
      <3>2. HandledBy(s)' = HandledBy(s) \cup {r} /\ r \notin HandledBy(s)
        BY <1>a, <1>b, <2>4
      <3>3. Cardinality(ReadyOn(s)') = Cardinality(ReadyOn(s)) - 1
        BY <2>2, <3>1, FS_RemoveElement
      <3>4. Cardinality(HandledBy(s)') = Cardinality(HandledBy(s)) + 1
        BY <2>2, <3>2, FS_AddElement
      <3> QED BY <2>1, <2>2, <2>3, <3>3, <3>4
    <2>5. CASE s # chan[c].to
      <3>1. ReadyOn(s)' = ReadyOn(s)
        BY <1>2, <1>3, <2>5 DEF ReadyOn
      <3>2. HandledBy(s)' = HandledBy(s)
        BY <1>a, <1>b, <2>5
      <3> QED BY <2>1, <2>2, <2>3, <3>1, <3>2
    <2> QED BY <2>4, <2>5
  <1> QED BY <1>6, <1>7 DEF LimitInv

LEMMA LimitRequestStep ==
  ASSUME ServerInv, LimitInv, NEW r \in Requests, RequestStep(r)
  PROVE  LimitInv'
  <1>0. ClientPart /\ req \in [Requests -> RequestStates]
    BY Parts DEF ClientPart
  <1>1. CASE Respond(r) \/ OpenStream(r) \/ CloseStream(r) \/ Abandon(r)
    <2>1. /\ UNCHANGED chan
          /\ \A q \in Requests : \/ req'[q] = req[q]
                                 \/ req'[q].stage \in {"streaming", "answered", "dropped"}
      BY <1>0, <1>1 DEF Respond, OpenStream, CloseStream, Abandon, RequestStates
    <2>2. \A s \in Servers : ReadyOn(s)' \subseteq ReadyOn(s) /\ HandledBy(s)' \subseteq HandledBy(s)
      BY <2>1 DEF ReadyOn, HandledBy
    <2>3. WithinLimit'
      BY <2>2, PermitsGoBack DEF LimitInv
    <2>4. NothingBeforeConnecting'
      BY <2>1 DEF LimitInv, NothingBeforeConnecting, Fresh
    <2> QED BY <2>3, <2>4 DEF LimitInv
  <1>2. ASSUME NEW c \in Channels, NEW path, NEW header, Send(r, c, path, header) PROVE LimitInv'
    <2>1. /\ UNCHANGED chan /\ chan[c].state = "open"
          /\ \A q \in Requests : \/ req'[q] = req[q]
                                 \/ req'[q].stage = "sent" /\ req'[q].on = c
      BY <1>0, <1>2 DEF Send
    <2>2. \A s \in Servers : ReadyOn(s)' \subseteq ReadyOn(s) /\ HandledBy(s)' \subseteq HandledBy(s)
      BY <2>1 DEF ReadyOn, HandledBy
    <2>3. WithinLimit'
      BY <2>2, PermitsGoBack DEF LimitInv
    <2>4. NothingBeforeConnecting'
      BY <2>1 DEF LimitInv, NothingBeforeConnecting, Fresh
    <2> QED BY <2>3, <2>4 DEF LimitInv
  <1> QED BY <1>1, <1>2, LimitCall DEF RequestStep

\* A server never handles more requests at a time than its global limit, over
\* all its connections, gone or not (server.rs:102-112, config.rs:73-74).
THEOREM LimitIsGlobal == Spec => []GlobalLimitHolds
  <1>1. Init => LimitInv
    <2> SUFFICES ASSUME Init PROVE LimitInv
      OBVIOUS
    <2>1. NothingBeforeConnecting
      BY DEF Init, NothingBeforeConnecting, Fresh
    <2>2. ASSUME NEW s \in Servers PROVE Permits(s) = 0
      <3>1. ReadyOn(s) = {} /\ HandledBy(s) = {}
        BY DEF Init, ReadyOn, HandledBy
      <3> QED BY <3>1, PermitsCounted, FS_EmptySet
    <2>3. WithinLimit
      BY <2>2, GrpcAssumption DEF WithinLimit
    <2> QED BY <2>1, <2>3 DEF LimitInv
  <1>2. ServerInv /\ LimitInv /\ [Next]_vars => LimitInv'
    <2> SUFFICES ASSUME ServerInv, LimitInv, [Next]_vars PROVE LimitInv'
      OBVIOUS
    <2>1. ASSUME UNCHANGED <<chan, req>> PROVE LimitInv'
      BY <2>1 DEF LimitInv, NothingBeforeConnecting, WithinLimit, Fresh, Permits
    <2>2. ASSUME NEW s \in Servers, ServerStep(s) PROVE LimitInv'
      <3>1. UNCHANGED <<chan, req>>
        BY <2>2 DEF ServerStep, BindTcp, BindUnix, BindRefused, TakeCancelHandle, Serve, DropServer,
                    SendCancel, DropCancelHandle, Shutdown, Served
      <3> QED BY <3>1, <2>1
    <2>3. CASE UNCHANGED vars
      BY <2>1, <2>3 DEF vars
    <2> QED BY <2>2, <2>3, LimitChannelStep, LimitRequestStep DEF Next
  <1>3. LimitInv => GlobalLimitHolds
    <2> SUFFICES ASSUME LimitInv, GlobalLimit # NoLimit, NEW s \in Servers
                 PROVE  Cardinality(HandledBy(s)) \leq GlobalLimit
      BY DEF GlobalLimitHolds, HandledBy
    <2>1. GlobalLimit \in Nat /\ Permits(s) \leq GlobalLimit
      BY GrpcAssumption DEF LimitInv, WithinLimit
    <2>2. /\ Cardinality(ReadyOn(s)) \in Nat /\ Cardinality(HandledBy(s)) \in Nat
          /\ Permits(s) = Cardinality(ReadyOn(s)) + Cardinality(HandledBy(s))
      BY PermitsCounted
    <2> QED BY <2>1, <2>2
  <1> QED BY <1>1, <1>2, <1>3, ServerInvariant, PTL DEF Spec
=============================================================================

------------------------------- MODULE Multiaddr -------------------------------
(***************************************************************************)
(* The addresses of mysten-network (mysten-network/src/multiaddr.rs, and    *)
(* the matches on an address in client.rs and server.rs).                   *)
(*                                                                          *)
(* A multiaddr is a sequence of protocols.  The parsers walk it from the    *)
(* front and fail at the first protocol they do not expect; which error     *)
(* they report is left out, so a parser is the predicate "it succeeds" and  *)
(* what it returns is read off the address.                                 *)
(***************************************************************************)
EXTENDS Integers, Sequences

CONSTANTS
    Names,       \* DNS names
    Ip4s, Ip6s,  \* IP addresses
    UnixPaths,   \* paths of unix domain sockets
    Ports,       \* TCP ports a listener can have
    Resolve      \* the IP addresses each DNS name resolves to (external)

ASSUME PortsAssumption == Ports \subseteq Nat \ {0}
ASSUME HostsAssumption ==
    /\ Resolve \in [Names -> SUBSET (Ip4s \cup Ip6s)]
    /\ (Ip4s \cup Ip6s) \cap UnixPaths = {}

\* The protocols an address is made of.  Port 0 asks the listener for any
\* free port; "other" is every protocol this crate does not know.
Protocol ==
    [proto : {"dns"}, value : Names]
        \cup [proto : {"ip4"}, value : Ip4s]
        \cup [proto : {"ip6"}, value : Ip6s]
        \cup [proto : {"unix"}, value : UnixPaths]
        \cup [proto : {"tcp"}, value : Ports \cup {0}]
        \cup [proto : {"http", "https", "other"}, value : {0}]

Multiaddrs == Seq(Protocol)

\* A place to listen on or to connect to: a host with a port, or the path of
\* a unix socket (whose port is 0).
Sockets == [host : Ip4s \cup Ip6s, port : Ports \cup {0}]
               \cup [host : UnixPaths, port : {0}]

-----------------------------------------------------------------------------
\* parse_tcp, parse_http_https and parse_end, at the i-th protocol.
ParseTcp(addr, i) == i <= Len(addr) /\ addr[i].proto = "tcp"
ParseHttpHttps(addr, i) == i <= Len(addr) /\ addr[i].proto \in {"http", "https"}
ParseEnd(addr, i) == Len(addr) < i

\* parse_dns, parse_ip4 and parse_ip6: a full /kind/-/tcp/-/{http,https}.
ParseInet(addr, kind) ==
    /\ addr[1].proto = kind
    /\ ParseTcp(addr, 2)
    /\ ParseHttpHttps(addr, 3)
    /\ ParseEnd(addr, 4)

\* parse_unix: a full /unix/-/{http,https}.
ParseUnix(addr) ==
    /\ addr[1].proto = "unix"
    /\ ParseHttpHttps(addr, 2)
    /\ ParseEnd(addr, 3)

\* The IP addresses behind the first protocol of an address: as many as the
\* resolver has for a name, in no order one could rely on.
Hosts(protocol) ==
    IF protocol.proto = "dns" THEN Resolve[protocol.value] ELSE {protocol.value}

-----------------------------------------------------------------------------
\* The match of ServerBuilder::bind on the first protocol: whether the address
\* is one a listener can be bound for, over TCP or over a unix socket.
BindsTcp(addr) ==
    /\ addr # <<>>
    /\ addr[1].proto \in {"dns", "ip4", "ip6"}
    /\ ParseInet(addr, addr[1].proto)
BindsUnix(addr) == addr # <<>> /\ ParseUnix(addr)

\* The match of endpoint_from_multiaddr: whether the client builds an endpoint
\* for the address, and the sockets of which that endpoint connects to one.
EndpointAccepts(addr) ==
    /\ addr # <<>>
    /\ \/ /\ addr[1].proto \in {"dns", "ip4", "ip6"}
          /\ ParseInet(addr, addr[1].proto)
       \/ ParseUnix(addr)

EndpointSockets(addr) ==
    IF addr[1].proto = "unix"
    THEN {[host |-> addr[1].value, port |-> 0]}
    ELSE {[host |-> host, port |-> addr[2].value] : host \in Hosts(addr[1])}

\* to_socket_addr: accepts an ip address with a port, whatever follows it.
ToSocketAddrAccepts(addr) ==
    /\ addr # <<>>
    /\ addr[1].proto \in {"ip4", "ip6"}
    /\ ParseTcp(addr, 2)
ToSocketAddr(addr) == [host |-> addr[1].value, port |-> addr[2].value]

\* Mutant of UpdateTcpPort: the address keeps the port that was asked for.
UpdateTcpPort_Asked(addr, port) == addr

\* update_tcp_port_in_multiaddr: the port that was bound replaces the one that
\* was asked for.  The code panics unless the second protocol is tcp.
UpdateTcpPort(addr, port) == [addr EXCEPT ![2] = [proto |-> "tcp", value |-> port]]
=============================================================================

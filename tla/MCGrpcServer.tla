----------------------------- MODULE MCGrpcServer -----------------------------
(***************************************************************************)
(* Constants for checking GrpcServer: one address of each family over the   *)
(* same two ports, a DNS name that resolves to both IP addresses (of which  *)
(* one has port 1 taken, so that bind falls through to the other), and      *)
(* addresses that stop early, are out of order or run on.                   *)
(***************************************************************************)
EXTENDS GrpcServer

CONSTANTS localhost, loopback4, loopback6, socketFile

Proto(p, v) == [proto |-> p, value |-> v]
Http == Proto("http", 0)

ResolveLocalhost == [n \in Names |-> {loopback4, loopback6}]

OneOfEachFamily ==
    { <<Proto("dns", localhost), Proto("tcp", 0), Http>>,
      <<Proto("dns", localhost), Proto("tcp", 1), Http>>,
      <<Proto("ip4", loopback4), Proto("tcp", 1), Proto("https", 0)>>,
      <<Proto("unix", socketFile), Http>>,
      <<Proto("dns", localhost), Proto("tcp", 0)>> }

OneTakenPort == {[host |-> loopback4, port |-> 1]}

EveryAddress ==
    { <<Proto("ip6", loopback6), Proto("tcp", 2), Http>>,
      <<Proto("unix", socketFile), Proto("tcp", 1), Http>>,
      <<Proto("ip4", loopback4), Http, Proto("tcp", 1)>>,
      <<Proto("ip4", loopback4), Proto("tcp", 1), Http, Http>>,
      <<Proto("other", 0)>>,
      <<>> } \cup OneOfEachFamily
=============================================================================

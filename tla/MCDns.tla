------------------------------- MODULE MCDns -------------------------------
(* Model values and bounds for checking Dns with TLC. *)
EXTENDS Dns, TLC

CONSTANTS c1, c2, c3
MCCallers == {c1, c2}
MCNames == {"mirror"}
MCPorts == {80, 443}
MCStatuses == {"SUCCESS", "ENOTFOUND", "ECANCELLED", "ETIMEOUT"}

Sym == Permutations(MCCallers)
MCAllStatuses == {"SUCCESS", "ENOTFOUND", "ECANCELLED", "ENOMEM", "ETIMEOUT"}
MCOkStatuses == {"SUCCESS"}

(* The address ordering of a finished lookup, over two v4 and two v6     *)
(* addresses over TCP and one v4 node of another socket type that shares *)
(* an address with a TCP node, every conprotos pair and MAX_ADDR 3.       *)
MCAddrs ==
    {[fam |-> f, ip |-> i, tcp |-> TRUE] : f \in {4, 6}, i \in {1, 2}}
      \cup {[fam |-> 4, ip |-> 1, tcp |-> FALSE]}
MCProtos == {"INET", "INET6", "UNSPEC"}
AddrSort == INSTANCE DnsSort WITH Addrs <- MCAddrs, Protos <- MCProtos, MaxAddr <- 3

(* Whenever the resolver runs lookups, the list ~tDnsResContext hands to  *)
(* the connection code is the intended one for every input             *)
(* (DnsSort!SortCorrect, a constant TLC evaluates once).                *)
SortCorrect == resolverOK => AddrSort!SortCorrect
=============================================================================

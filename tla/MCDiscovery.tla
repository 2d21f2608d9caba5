---------------------------- MODULE MCDiscovery ----------------------------
(* Discovery for TLC: the addresses of two nodes, in an order.             *)
EXTENDS Discovery

CONSTANTS n1, n2

BothAddrs == <<n1, n2>>

=============================================================================

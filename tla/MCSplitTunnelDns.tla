-------------------------- MODULE MCSplitTunnelDns --------------------------
EXTENDS SplitTunnelDns, TLC

\* One listed host has a saved address, which the other one may also resolve to.
SavedOfFirst == [h \in Hosts |-> IF h = "first" THEN {"a"} ELSE {}]

NoneSaved == [h \in Hosts |-> {}]

\* Gateways are only compared with each other.
GatewaySymmetry == Permutations(Gateways)
=============================================================================

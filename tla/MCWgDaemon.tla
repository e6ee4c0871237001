----------------------------- MODULE MCWgDaemon -----------------------------
EXTENDS WgDaemon, TLC

\* A server, the same with another key and a bypassed address, and another identity.
Plain == [device |-> "d1", host |-> "h", key |-> "k1", sites |-> {}, names |-> {}]
Rekeyed == [device |-> "d1", host |-> "h", key |-> "k2", sites |-> {"a"}, names |-> {"a"}]
Other == [device |-> "d2", host |-> "h", key |-> "k1", sites |-> {}, names |-> {}]

ThreeConfigs == {Plain, Rekeyed, Other}

SocketSymmetry == Permutations(Sockets)
=============================================================================

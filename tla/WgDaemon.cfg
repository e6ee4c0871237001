\* A server, the same with another key and a bypassed site, another identity; two sockets.
SPECIFICATION Spec
SYMMETRY SocketSymmetry
CONSTANTS
    Addrs = {"h", "a"}
    Accepted = {{"h"}, {"h", "a"}}
    Configs <- ThreeConfigs
    Sockets = {s1, s2}
    MaxDepth = 2
    MaxCount = 1
INVARIANTS
    TypeOK
    CountedIsListed
    CountsExact
    LearnedForConnection
    HandshakePolled
    StopTearsDown

\* README: nested event loops no longer crash the client.
SPECIFICATION Spec
CONSTANTS
    Kinds = {"WireGuard"}
    RouteModes = {"VpnAllSites"}
    MaxRecovery = 1
    MaxChecks = 1
    MaxDepth = 2
INVARIANTS
    NoNullProtocol

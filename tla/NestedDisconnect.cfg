\* README: a manual disconnect is final.
SPECIFICATION Spec
CONSTANTS
    Kinds = {"WireGuard"}
    RouteModes = {"VpnAllSites"}
    MaxRecovery = 1
    MaxChecks = 1
    MaxDepth = 2
INVARIANTS
    DisconnectWins

\* Both protocols and every route mode, slots not interrupted; what must eventually happen.
SPECIFICATION FairSpec
CONSTANTS
    Kinds = {"WireGuard", "Xray"}
    RouteModes = {"VpnAllSites", "VpnOnlyForwardSites", "VpnAllExceptSites"}
    MaxRecovery = 1
    MaxChecks = 1
    MaxDepth = 1
INVARIANTS
    SilentReconnectGuarded
    ConnectingBounded
    UiShowsState
    HealthTimerOnlyWhileConnected
    StoppedTunnelIsRestarted
PROPERTIES
    SilentReconnectHidden
    ConnectingEnds
    SilentReconnectEnds
    DisconnectCompletes

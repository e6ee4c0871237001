\* A second slot may run inside every wait.
SPECIFICATION Spec
CONSTANTS
    Kinds = {"WireGuard", "Unsupported"}
    RouteModes = {"VpnAllSites"}
    MaxRecovery = 1
    MaxChecks = 1
    MaxDepth = 2
INVARIANTS
    TypeOK
    DiagnosticMatchesLifecycle
    RecoveryOnlyWhileConnected
PROPERTIES
    TimeoutErrorKept

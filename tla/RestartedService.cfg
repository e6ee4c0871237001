\* README: the connection owns protection until an explicit disconnect.
SPECIFICATION Spec
CONSTANTS
    Server = server
    Sites = {a, b}
    SiteLists = {{a}}
    RangeLists = {{a}, {a, server}}
    MaxQueue = 2
INVARIANTS
    ConfinedUntilDisconnect

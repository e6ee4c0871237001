\* Two hosts that share an address, saved with the first one, and two gateways.
SPECIFICATION Spec
SYMMETRY GatewaySymmetry
CONSTANTS
    Hosts = {"first", "second"}
    SiteLists = {{}, {"second"}, {"first", "second"}}
    Ips = {"a"}
    Saved <- SavedOfFirst
    Gateways = {g1, g2}
    MaxQueries = 1
    Concurrency = 1
    MaxQueue = 7
INVARIANTS
    TypeOK
    LeasesFollowRules
    NoOrphanRoute
    PrewarmNeverStalls
    NoStaleHole

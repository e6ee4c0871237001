\* README: bypass routes and the allow-list of the kill switch are kept in sync.
SPECIFICATION Spec
CONSTANTS
    Hosts = {"first"}
    SiteLists = {{"first"}}
    Ips = {"a"}
    Saved <- NoneSaved
    Gateways = {"gateway"}
    MaxQueries = 1
    Concurrency = 1
    MaxQueue = 4
INVARIANTS
    BypassedIsAllowed

\* One site besides the server, listed or not, and two unread messages: a stop and a start
\* of the tunnel that the service has not seen yet.
SPECIFICATION Spec
CONSTANTS
    Server = server
    Sites = {a}
    SiteLists = {{a}}
    RangeLists = {{a}}
    MaxQueue = 2
INVARIANTS
    ProtectionConfines
    ListedSitesBlocked
    StrictBlocks
    EndpointReachable

--------------------------- MODULE SplitTunnelDns ---------------------------
(***************************************************************************)
(* Bypass routes learned from DNS (service/server/router_mac.cpp): the     *)
(* leases RouterMac keeps per host, the host routes in the kernel and the  *)
(* allow-list of the kill switch, fed by the answers the DNS proxy         *)
(* (dnssplitrouteobserver.cpp) sees and by the lookups that warm it up.    *)
(*                                                                         *)
(* The client (client/vpnConnection.cpp, core/protocols/xrayProtocol.cpp)  *)
(* configures it over one socket, in order; answers and lookups arrive     *)
(* between any two of its calls.                                           *)
(***************************************************************************)
EXTENDS Naturals, Sequences, FiniteSets

CONSTANTS
    Hosts,         \* hosts the user may list
    SiteLists,     \* the lists of hosts the user has
    Ips,           \* their addresses
    Saved,         \* Saved[h]: the addresses saved with the site h
    Gateways,      \* gateways the traffic may be sent to
    MaxQueries,    \* bound: matching queries that are not answered
    Concurrency,   \* kDnsSplitTunnelPrewarmConcurrency (8 in the code)
    MaxQueue       \* bound: calls of the client that are not served

\* The lists are finite lists of hosts, each saved with some of the addresses.
ASSUME SitesAssumption ==
    /\ IsFiniteSet(Hosts) /\ SiteLists \subseteq SUBSET Hosts
    /\ Saved \in [Hosts -> SUBSET Ips]
    /\ Concurrency \in Nat

NoGateway == "noGateway"

VARIABLES
    client,      \* VpnConnection: its phase and settings
    ipc,         \* its calls the service has not served, in order
    router,      \* RouterMac
    query,       \* hosts whose queries the DNS proxy has forwarded as matching
    lookups,     \* QHostInfo lookups under way, with the generation they belong to
    protection,  \* KillSwitch::m_connectionProtection
    allowed,     \* KillSwitch::m_allowedRanges, without the VPN server
    kernel,      \* the addresses' host routes
    given        \* history: what the client has allowed since it enabled the kill switch

stVars == <<client, ipc, router, query, lookups, protection, allowed, kernel, given>>

-----------------------------------------------------------------------------
(* Values. *)

Clients == [phase : {"off", "connecting", "connected"}, rules : SUBSET Hosts,
            gw : Gateways \cup {NoGateway}, ks : BOOLEAN]

Off == [phase |-> "off", rules |-> {}, gw |-> NoGateway, ks |-> FALSE]

Calls ==
    [op : {"protect", "enableKillSwitch", "addKillSwitchAllowedRange", "routeAddList"}, ips : SUBSET Ips]
    \cup [op : {"configureDnsSplitTunnel"}, rules : SUBSET Hosts,
          gw : Gateways \cup {NoGateway}, ks : BOOLEAN]
    \cup [op : {"release", "disableKillSwitch", "clearSavedRoutes"}]

\* m_dnsSplitTunnelGateway, -KillSwitchEnabled, -RulesKey, -HostLeases, -HostCache, -Ips,
\* m_addedRoutes, -PrewarmQueue and -PrewarmPending.
Routers == [gw : Gateways \cup {NoGateway}, ks : BOOLEAN, rules : SUBSET Hosts,
            leases : [Hosts -> SUBSET Ips], cache : [Hosts -> SUBSET Ips],
            ips : SUBSET Ips, added : SUBSET Ips,
            queue : SUBSET Hosts, pending : 0..Concurrency]

NewRouter == [gw |-> NoGateway, ks |-> FALSE, rules |-> {},
              leases |-> [h \in Hosts |-> {}], cache |-> [h \in Hosts |-> {}],
              ips |-> {}, added |-> {}, queue |-> {}, pending |-> 0]

\* Only whether a lookup is of the current generation matters.
Lookups == [host : Hosts, current : BOOLEAN]

\* A route is absent, added by the running service, or left behind: by a killed service, or
\* by a clear whose deletion of it failed.  The gateway it leads to is not kept.
Routes == {"none", "added", "left"}

SavedIps(rules) == UNION {Saved[h] : h \in rules}

-----------------------------------------------------------------------------
(* RouterMac. *)

\* Adds the routes of ips; an existing one stays and counts as success.
WithRoutes(k, ips) == [i \in Ips |-> IF i \in ips /\ k[i] = "none" THEN "added" ELSE k[i]]

WithoutRoutes(k, ips) == [i \in Ips |-> IF i \in ips THEN "none" ELSE k[i]]

\* A clear deletes the routes of ips and forgets them all, also those the system refuses to
\* delete: routeDelete()'s result is not looked at.
Cleared(k, ips, refused) ==
    [i \in Ips |-> IF i \in refused /\ k[i] /= "none" THEN "left" ELSE WithoutRoutes(k, ips)[i]]

\* syncDnsSplitTunnelIps(): routes for the leased addresses that have none, and none for the
\* others; each may fail.
Sync(r, k, al) ==
    LET leased == UNION {r.leases[h] : h \in Hosts}
    IN \E new \in SUBSET (leased \ r.ips), gone \in SUBSET (r.ips \ leased) :
        /\ router' = [r EXCEPT !.ips = (@ \cup new) \ gone]
        /\ kernel' = WithoutRoutes(WithRoutes(k, new), gone)
        /\ allowed' = IF r.ks THEN (al \cup new) \ gone ELSE al

\* updateDnsSplitTunnelHostLeases()
UpdateLeases(r, h, answers) ==
    IF r.gw = NoGateway \/ answers = {}
    THEN router' = r /\ UNCHANGED <<kernel, allowed>>
    ELSE Sync([r EXCEPT !.leases[h] = @ \cup answers, !.cache[h] = @ \cup answers],
              kernel, allowed)

\* seedDnsSplitTunnelLeasesFromCache()
Seeded(r) ==
    IF r.gw = NoGateway THEN r
    ELSE [r EXCEPT !.leases = [h \in Hosts |-> IF h \in r.rules /\ r.cache[h] /= {}
                                               THEN r.cache[h] ELSE @[h]]]

\* Mutant: the limit on lookups under way is not looked at.
CanTakeAll(r, hs) == hs = r.queue

\* pumpDnsSplitTunnelPrewarm(): as many lookups as fit; hs are the hosts taken.
CanTake(r, hs) ==
    /\ hs \subseteq r.queue
    /\ \/ r.pending + Cardinality(hs) = Concurrency
       \/ r.pending + Cardinality(hs) < Concurrency /\ hs = r.queue

Taken(r, hs) == [r EXCEPT !.queue = @ \ hs, !.pending = @ + Cardinality(hs)]

Started(hs) == [host : hs, current : {TRUE}]

Stale(ls) == {[l EXCEPT !.current = FALSE] : l \in ls}

\* Mutant: the lookups of the last generation still count.
NewGenerationKeepsPending(r) ==
    [r EXCEPT !.queue = IF r.gw = NoGateway THEN {} ELSE r.rules]

\* startDnsSplitTunnelPrewarm(), up to the first pump.
NewGeneration(r) ==
    [r EXCEPT !.queue = IF r.gw = NoGateway THEN {} ELSE r.rules, !.pending = 0]

\* Mutant: the addresses stay on the allow-list.
NotWithdrawn(ips) == allowed

\* clearDnsSplitTunnelLeases(): the kill switch, if it was on then, forgets the addresses.
Withdrawn(ips) == IF router.ks THEN allowed \ ips ELSE allowed

\* configureDnsSplitTunnel().  The proxy forgets its queries: it is restarted with the new
\* rules if it runs.
ConfigureDnsSplitTunnel(c) ==
    LET clear == router.gw /= c.gw \/ router.rules /= c.rules \/ c.rules = {}
        old   == IF clear THEN router.ips ELSE {}
        r1    == [router EXCEPT !.gw = c.gw, !.ks = c.ks, !.rules = c.rules,
                                !.ips = @ \ old,
                                !.leases = IF clear THEN NewRouter.leases ELSE @]
        r2    == NewGeneration(Seeded(r1))
    IN \E hs \in SUBSET Hosts, refused \in SUBSET old :
        /\ query' = {}
        /\ CanTake(r2, hs)
        /\ lookups' = Stale(lookups) \cup Started(hs)
        /\ Sync(Taken(r2, hs), Cleared(kernel, old, refused), Withdrawn(old))
        /\ UNCHANGED <<protection, given>>

\* Mutant: a lookup of an older generation is used as well.
FinishAnyGeneration ==
    /\ \E l \in lookups, answers \in SUBSET Ips :
        LET r == [router EXCEPT !.pending = IF l.current THEN @ - 1 ELSE @]
        IN \E hs \in SUBSET Hosts :
              /\ CanTake(r, hs)
              /\ lookups' = (lookups \ {l}) \cup Started(hs)
              /\ UpdateLeases(Taken(r, hs), l.host, answers)
    /\ UNCHANGED <<client, ipc, query, protection, given>>

\* finishDnsSplitTunnelPrewarmHost()
FinishPrewarm ==
    /\ \E l \in lookups, answers \in SUBSET Ips :
        IF l.current
        THEN \E hs \in SUBSET Hosts :
              LET r == [router EXCEPT !.pending = @ - 1]
              IN /\ CanTake(r, hs)
                 /\ lookups' = (lookups \ {l}) \cup Started(hs)
                 /\ UpdateLeases(Taken(r, hs), l.host, answers)
        ELSE /\ lookups' = lookups \ {l}
             /\ UNCHANGED <<router, kernel, allowed>>
    /\ UNCHANGED <<client, ipc, query, protection, given>>

\* readClientDatagrams(): a program asks for a host that matches the rules.  Whether the
\* proxy runs is the subject of SystemDns; here it may, whenever there are rules.
Query ==
    /\ Cardinality(query) < MaxQueries
    /\ \E h \in router.rules : query' = query \cup {h}
    /\ UNCHANGED <<client, ipc, router, lookups, protection, allowed, kernel, given>>

\* readUpstreamDatagrams(): the first answer ends the query.
Answer ==
    /\ \E h \in query, answers \in SUBSET Ips :
        /\ query' = query \ {h}
        /\ UpdateLeases(router, h, answers)
    /\ UNCHANGED <<client, ipc, lookups, protection, given>>

-----------------------------------------------------------------------------
(* The service serves one call of the client. *)

\* routeAddList(): each route may fail, and is saved if it does not.
RouteAddList(c) ==
    /\ \E ok \in SUBSET c.ips :
        /\ kernel' = WithRoutes(kernel, ok)
        /\ router' = [router EXCEPT !.added = @ \cup ok]
    /\ UNCHANGED <<query, lookups, protection, allowed, given>>

\* Mutant: the list is emptied but the routes stay.
ForgetSavedRoutes ==
    /\ router' = [router EXCEPT !.added = {}]
    /\ UNCHANGED <<kernel, query, lookups, protection, allowed, given>>

ClearSavedRoutes ==
    /\ \E refused \in SUBSET router.added : kernel' = Cleared(kernel, router.added, refused)
    /\ router' = [router EXCEPT !.added = {}]
    /\ UNCHANGED <<query, lookups, protection, allowed, given>>

\* The calls of the kill switch, as far as the allow-list is concerned.  "protect" and
\* "release" are setConnectionProtection(); a protected connection ignores disableKillSwitch().
EnableKillSwitch(c) ==
    /\ allowed' = c.ips /\ given' = c.ips
    /\ protection' = (protection \/ c.op = "protect")
    /\ UNCHANGED <<router, query, lookups, kernel>>

AddAllowedRange(c) ==
    /\ allowed' = allowed \cup c.ips /\ given' = given \cup c.ips
    /\ UNCHANGED <<router, query, lookups, protection, kernel>>

DisableKillSwitch(c) ==
    /\ protection' = (protection /\ c.op /= "release")
    /\ allowed' = IF protection' THEN allowed ELSE {}
    /\ given' = IF protection' THEN given ELSE {}
    /\ UNCHANGED <<router, query, lookups, kernel>>

Serve ==
    /\ ipc /= <<>>
    /\ ipc' = Tail(ipc)
    /\ LET c == Head(ipc)
       IN \/ c.op = "configureDnsSplitTunnel" /\ ConfigureDnsSplitTunnel(c)
          \/ c.op = "routeAddList" /\ RouteAddList(c)
          \/ c.op = "clearSavedRoutes" /\ ClearSavedRoutes
          \/ c.op \in {"protect", "enableKillSwitch"} /\ EnableKillSwitch(c)
          \/ c.op = "addKillSwitchAllowedRange" /\ AddAllowedRange(c)
          \/ c.op \in {"release", "disableKillSwitch"} /\ DisableKillSwitch(c)
    /\ UNCHANGED client

-----------------------------------------------------------------------------
(* The client.  Before a burst of calls it has mostly waited for the reply to an earlier one *)
(* (setupRouting(), routeAddList, physicalNetworkReady), so that nothing is left unserved.   *)

Send(calls) == Len(ipc) + Len(calls) <= MaxQueue /\ ipc' = ipc \o calls

Call(op) == [op |-> op]

CallFor(op, ips) == [op |-> op, ips |-> ips]

Configure(rules, gw, ks) ==
    [op |-> "configureDnsSplitTunnel", rules |-> rules, gw |-> gw, ks |-> ks]

IfKillSwitch(calls) == IF client'.ks THEN calls ELSE <<>>

SavedSites == SavedIps(client'.rules)

\* configureDnsSplitTunnel() and addSitesRoutes() of the client.
ConfigureSites ==
    <<Configure(client'.rules, client'.gw, client'.ks)>>
    \o IF SavedSites = {} THEN <<>>
       ELSE <<CallFor("routeAddList", SavedSites)>>
            \o IfKillSwitch(<<CallFor("addKillSwitchAllowedRange", SavedSites)>>)

Unserved == UNCHANGED <<router, query, lookups, protection, allowed, kernel, given>>

\* connectToVpn(), with settings that may have changed.  Calls of an earlier connection are
\* served first in any case.
Connect ==
    /\ client.phase = "off" /\ ipc = <<>>
    /\ client' \in [phase : {"connecting"}, rules : SiteLists, gw : {NoGateway}, ks : BOOLEAN]
    /\ Send(IF client'.ks THEN <<CallFor("protect", SavedSites)>> ELSE <<Call("release")>>)
    /\ Unserved

\* The tunnel is up: setupRouting() of the protocol, then the Connected handler.  The
\* physical gateway is the one of the moment.
Connected ==
    /\ client.phase = "connecting" /\ ipc = <<>>
    /\ \E gw \in Gateways : client' = [client EXCEPT !.phase = "connected", !.gw = gw]
    /\ Send(IfKillSwitch(<<CallFor("enableKillSwitch", SavedSites)>>) \o ConfigureSites)
    /\ Unserved

\* refreshSiteSplitTunnelRoutes(): the user has changed the list.
Refresh ==
    /\ client.phase = "connected" /\ ipc = <<>>
    /\ \E rules \in SiteLists : client' = [client EXCEPT !.rules = rules]
    /\ Send(ConfigureSites)
    /\ Unserved

\* startSilentReconnect(): the protocol is stopped, which disables the kill switch unless
\* the connection is protected, and started again.  No state is reported that would clear
\* the configuration.
SilentReconnect ==
    /\ client.phase = "connected" /\ ipc = <<>>
    /\ client' = [client EXCEPT !.phase = "connecting", !.gw = NoGateway]
    /\ Send(<<Call("disableKillSwitch")>>)
    /\ Unserved

\* The Disconnected and Error handler, after the protocol has been stopped.  An error
\* keeps the protection, a disconnect has released it.
End ==
    /\ client.phase /= "off"
    /\ client' = Off
    /\ \E op \in {"release", "disableKillSwitch"} :
        Send(<<Call(op), Configure({}, NoGateway, FALSE), Call("clearSavedRoutes")>>)
    /\ Unserved

ClientCrash ==
    /\ client.phase /= "off"
    /\ client' = Off
    /\ UNCHANGED ipc
    /\ Unserved

\* The service is killed and started again by launchd; the routes stay in the kernel.
ServiceKill ==
    /\ router /= NewRouter \/ ipc /= <<>>
    /\ router' = NewRouter
    /\ query' = {} /\ lookups' = {} /\ allowed' = {} /\ given' = {}
    /\ protection' = FALSE
    /\ kernel' = [i \in Ips |-> IF kernel[i] = "none" THEN "none" ELSE "left"]
    /\ ipc' = <<>>
    /\ UNCHANGED client

\* The interface behind a gateway goes down and takes its routes with it.
NetworkDown ==
    /\ \E lost \in SUBSET {i \in Ips : kernel[i] /= "none"} :
        lost /= {} /\ kernel' = WithoutRoutes(kernel, lost)
    /\ UNCHANGED <<client, ipc, router, query, lookups, protection, allowed, given>>

Init ==
    /\ client = Off
    /\ ipc = <<>> /\ router = NewRouter /\ query = {} /\ lookups = {}
    /\ protection = FALSE /\ allowed = {} /\ given = {}
    /\ kernel = [i \in Ips |-> "none"]

Next ==
    \/ FinishPrewarm \/ Query \/ Answer
    \/ Serve
    \/ Connect \/ Connected \/ Refresh \/ SilentReconnect \/ End
    \/ ClientCrash \/ ServiceKill \/ NetworkDown

Spec == Init /\ [][Next]_stVars

-----------------------------------------------------------------------------
(* Properties. *)

TypeOK ==
    /\ client \in Clients /\ ipc \in Seq(Calls) /\ router \in Routers
    /\ query \subseteq Hosts /\ lookups \subseteq Lookups
    /\ protection \in BOOLEAN /\ allowed \subseteq Ips /\ given \subseteq Ips
    /\ kernel \in [Ips -> Routes]

\* README: learned routes are cleared when the configuration changes.  Only hosts of the
\* current rules have leases: a lookup or a query started under older rules adds none.
LeasesFollowRules ==
    \A h \in Hosts : router.leases[h] /= {} => h \in router.rules /\ router.gw /= NoGateway

\* A route of the running service is lost only when the system refuses to delete it: every
\* other one is in one of the two lists from which it will be deleted, although the lists
\* overlap, each is cleared on its own, and routes are added and deleted one by one.
NoOrphanRoute == \A i \in Ips : kernel[i] = "added" => i \in router.ips \cup router.added

\* The warming of the cache neither stalls nor exceeds its limit: the counter is the number
\* of current lookups under way, and hosts wait only while the limit is reached.
PrewarmNeverStalls ==
    /\ router.pending = Cardinality({l \in lookups : l.current})
    /\ router.queue /= {} => router.pending = Concurrency

\* The firewall has no hole for an address that is no longer bypassed: what RouterMac puts on
\* the allow-list it takes off again with the route.
NoStaleHole == client.ks /\ ipc = <<>> => allowed \subseteq given \cup router.ips

\* README: bypass routes and the allow-list of the kill switch are kept in sync.  While the
\* connection is up, no bypassed address is blocked.
BypassedIsAllowed ==
    client.phase = "connected" /\ client.ks /\ ipc = <<>> => router.ips \subseteq allowed
=============================================================================

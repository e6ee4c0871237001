------------------------------ MODULE KillSwitch ------------------------------
(***************************************************************************)
(* The kill switch of the privileged service on macOS:                     *)
(* service/server/killswitch.cpp over the packet filter (pf), with its     *)
(* callers: the client's VpnConnection and Xray protocol on the IPC        *)
(* socket, the WireGuard daemon inside the service on a socket of its own, *)
(* and the socket server that notices when the application is gone.        *)
(*                                                                         *)
(* Every call of the KillSwitch object is one step of the service's event  *)
(* loop, so it is an operator on the record fw (the object's members and   *)
(* what pf enforces); an action is one caller's step.  The two sockets are *)
(* not ordered with each other: what the client has written to the daemon  *)
(* waits in queue while calls on the IPC socket are served.                *)
(*                                                                         *)
(* pf itself is external.  It is modelled as tests/killswitch/main.cpp     *)
(* does: a set of enabled anchors with two tables; what its rules do to a  *)
(* packet is read from deploy/data/macos/pf, where the last match wins.    *)
(***************************************************************************)
EXTENDS Naturals, Sequences

CONSTANTS
    Server,     \* the address of the VPN server
    Sites,      \* the other addresses of the physical network
    SiteLists,  \* the lists of sites a user may configure
    RangeLists, \* the ranges a WireGuard profile may have instead of 0.0.0.0/0
    MaxQueue    \* bound: unread messages on the daemon's socket

Hosts == Sites \cup {Server}

ASSUME ServerAssumption == Server \notin Sites
ASSUME SiteListsAssumption == SiteLists \subseteq SUBSET Sites
ASSUME RangeListsAssumption == RangeLists \subseteq SUBSET Hosts
ASSUME MaxQueueAssumption == MaxQueue \in Nat

VARIABLES
    fw,      \* the KillSwitch object and pf
    conn,    \* the client's connection: phase, protocol kind and configuration
    app,     \* the client: is it running, its kill-switch setting
    daemon,  \* the WireGuard daemon: "down", "running" (the process only), "up"
    queue,   \* the messages on the daemon's socket, not read yet
    leases,  \* the router learns bypass addresses from DNS and opens them
    hist     \* history, see Histories

vars == <<fw, conn, app, daemon, queue, leases, hist>>

-----------------------------------------------------------------------------
(* The values. *)

Modes == {"VpnAllSites", "VpnOnlyForwardSites", "VpnAllExceptSites"}

\* The anchors of amn.conf that decide about these hosts.  Loopback, DHCP and the
\* local network have anchors of their own and are none of Hosts.
Anchors == {"100.blockAll", "110.allowNets", "120.blockNets", "200.allowVPN",
            "250.blockIPv6", "310.blockDNS"}

Firewalls ==
    [strict        : BOOLEAN,          \* Conf/strictKillSwitchEnabled, persisted
     protection    : BOOLEAN,          \* m_connectionProtection
     alwaysBlocked : SUBSET Sites,     \* m_alwaysBlockedSites
     allowed       : SUBSET Hosts,     \* m_allowedRanges
     installed     : BOOLEAN,          \* pf is enabled and refers to the root anchor
     anchors       : SUBSET Anchors,   \* the anchors that have rules
     allownets     : SUBSET Hosts,     \* the table of 110.allowNets
     blocknets     : SUBSET Hosts]     \* the table of 120.blockNets

\* killSwitchOption, splitTunnelType and splitTunnelSites of a connection, and the AllowedIPs
\* of its profile: the default (0.0.0.0/0 and ::/0, or none), another list with 0.0.0.0/0, or
\* ranges of its own.
Configs == [killSwitch : BOOLEAN, mode : Modes, sites : SUBSET Sites,
            own : {"default", "all", "ranges"}, ranges : SUBSET Hosts]

Connections == [phase : {"off", "connecting", "connected", "error"},
                kind : {"WireGuard", "Xray"}, cfg : Configs]

\* disturbed: pf was taken away from the service since protection was last armed.
\* exempt: the hosts opened since it was last armed or released.
\* hole: the server's entry in m_allowedRanges since the rules of a protected connection were
\*   last set: "kept", "unlisted" by refresh(strict), "lost" when the ranges were then updated.
\* armed: protection was armed and the user has not disconnected since.
Histories == [disturbed : BOOLEAN, hole : {"kept", "unlisted", "lost"}, exempt : SUBSET Hosts,
              armed : BOOLEAN]

-----------------------------------------------------------------------------
(* What pf lets out through the physical interface. *)

Leaves(s, h) ==
    ~s.installed \/
    CASE "120.blockNets" \in s.anchors /\ h \in s.blocknets -> FALSE
      [] ~("120.blockNets" \in s.anchors /\ h \in s.blocknets)
         /\ "110.allowNets" \in s.anchors /\ h \in s.allownets -> TRUE
      [] OTHER -> "100.blockAll" \notin s.anchors

LeavesIPv6(s) == ~s.installed \/ {"100.blockAll", "250.blockIPv6"} \cap s.anchors = {}

Flushed(s) == [s EXCEPT !.anchors = {}, !.allownets = {}, !.blocknets = {}]

\* install() if isInstalled() says no; it flushes first and may fail (~ok).
EnsureInstalled(s, ok) == IF s.installed THEN s ELSE [Flushed(s) EXCEPT !.installed = ok]

uninstall(s) == [Flushed(s) EXCEPT !.installed = FALSE]

\* The calls of setAnchorEnabled() and setAnchorTable() that go through all anchors.
SetRules(s, anchors, allow, block) ==
    [s EXCEPT !.anchors = anchors, !.allownets = allow, !.blocknets = block]

-----------------------------------------------------------------------------
(* The KillSwitch object. *)

\* What a connection exempts and what it blocks.
AllowNets(cfg) ==
    CASE cfg.mode = "VpnOnlyForwardSites" -> {}
      [] cfg.mode = "VpnAllExceptSites"   -> {Server} \cup cfg.sites
      [] OTHER                            -> {Server}

BlockNets(cfg) == IF cfg.mode = "VpnOnlyForwardSites" THEN cfg.sites ELSE {}

\* The anchors of a connection that uses the tunnel for everything, or for a list.
FullAnchors == {"100.blockAll", "110.allowNets", "200.allowVPN", "250.blockIPv6", "310.blockDNS"}

ListAnchors == {"120.blockNets", "200.allowVPN", "250.blockIPv6", "310.blockDNS"}

ConnectionAnchors(cfg) == IF cfg.mode = "VpnOnlyForwardSites" THEN ListAnchors ELSE FullAnchors

enableKillSwitch(s, cfg, ok) ==
    SetRules(EnsureInstalled([s EXCEPT !.allowed = AllowNets(cfg)], ok),
             ConnectionAnchors(cfg), AllowNets(cfg), BlockNets(cfg))

applyAlwaysBlockedSites(s, ok) ==
    SetRules(EnsureInstalled([s EXCEPT !.allowed = {}], ok),
             {"120.blockNets", "200.allowVPN"}, {}, s.alwaysBlocked)

\* Mutant: a protocol's cleanup ends the connection's protection.
DisableUnguarded(s, ok) == [uninstall(s) EXCEPT !.allowed = {}]

\* Mutant: the end of a connection does not return to the always-blocked sites.
DisableForgetsSites(s, ok) ==
    IF s.protection THEN s
    ELSE IF s.strict
    THEN [SetRules(s, {"100.blockAll", "250.blockIPv6"}, {}, {}) EXCEPT !.allowed = {}]
    ELSE [uninstall(s) EXCEPT !.allowed = {}]

\* Mutant: strict mode is forgotten when a connection ends.
DisableIgnoresStrict(s, ok) ==
    IF s.protection THEN s
    ELSE IF s.alwaysBlocked # {} THEN applyAlwaysBlockedSites(s, ok)
    ELSE [uninstall(s) EXCEPT !.allowed = {}]

disableKillSwitch(s, ok) ==
    IF s.protection THEN s
    ELSE IF s.strict
    THEN [SetRules(s, {"100.blockAll", "250.blockIPv6"}, {}, {}) EXCEPT !.allowed = {}]
    ELSE IF s.alwaysBlocked # {} THEN applyAlwaysBlockedSites(s, ok)
    ELSE [uninstall(s) EXCEPT !.allowed = {}]

setConnectionProtection(s, enabled, cfg, ok) ==
    IF enabled THEN [enableKillSwitch(s, cfg, ok) EXCEPT !.protection = TRUE]
    ELSE disableKillSwitch([s EXCEPT !.protection = FALSE], ok)

disableAllTraffic(s, ok) ==
    [EnsureInstalled(s, ok) EXCEPT !.anchors = @ \cup {"100.blockAll", "250.blockIPv6"}, !.allowed = {}]

refresh(s, enabled, ok) ==
    LET t == [s EXCEPT !.strict = enabled]
    IN  IF enabled THEN disableAllTraffic(t, ok) ELSE disableKillSwitch(t, ok)

setAlwaysBlockedSites(s, list, ok) ==
    LET t == [s EXCEPT !.alwaysBlocked = list]
        same == list = s.alwaysBlocked /\ (list = {} \/ "120.blockNets" \in s.anchors)
    IN  IF s.strict \/ same \/ s.protection THEN t ELSE disableKillSwitch(t, ok)

resetAllowedRange(s, ranges) ==
    [s EXCEPT !.allowed = ranges, !.allownets = ranges, !.anchors = @ \cup {"110.allowNets"}]

\* Mutant: an added range replaces the ones before it.
AddReplacesRanges(s, ranges) == resetAllowedRange(s, ranges)

addAllowedRange(s, ranges) == resetAllowedRange(s, s.allowed \cup ranges)

removeAllowedRange(s, ranges) == resetAllowedRange(s, s.allowed \ ranges)

\* init() of a service that has just started: only the settings are left.
init(s, ok) ==
    LET t == [s EXCEPT !.protection = FALSE, !.alwaysBlocked = {}, !.allowed = {}]
    IN  IF t.strict THEN disableAllTraffic(t, ok) ELSE t

-----------------------------------------------------------------------------
(* The WireGuard daemon's part of the rules. *)

\* Does allowedIPAddressRanges contain 0.0.0.0/0?  The profile's AllowedIPs go before the
\* setting of the application, unless they are the default.
RoutesAll(cfg) == cfg.own = "all" \/ (cfg.own = "default" /\ cfg.mode # "VpnOnlyForwardSites")

\* allowedIPAddressRanges, if it does not.
AllowedRanges(cfg) == IF cfg.own = "ranges" THEN cfg.ranges ELSE cfg.sites

\* excludedAddresses
Excluded(cfg) == {Server} \cup (IF cfg.mode = "VpnAllExceptSites" THEN cfg.sites ELSE {})

\* The firewall part of addInterface(), once wireguard-go runs and is configured.
addInterface(s, cfg, ok) ==
    LET t == EnsureInstalled(s, ok)
        u == [t EXCEPT !.anchors = @ \cup {"250.blockIPv6"}]
    IN  CASE ~t.installed -> disableKillSwitch(u, ok)
          [] t.installed /\ ~cfg.killSwitch -> u
          [] t.installed /\ cfg.killSwitch /\ RoutesAll(cfg) ->
               SetRules(resetAllowedRange(u, Excluded(cfg)), FullAnchors, Excluded(cfg), {})
          [] OTHER -> SetRules(u, ListAnchors, {}, AllowedRanges(cfg))

-----------------------------------------------------------------------------
(* History. *)

\* A step that may call install(): it disturbs if pf cannot be installed.
Disturbs(ok) == hist.disturbed \/ (~ok /\ ~fw.installed)

Keep(ok) == hist' = [hist EXCEPT !.disturbed = Disturbs(ok)]

\* The rules of a connection with kill switch are set anew.
Renew(ok) == hist' = [hist EXCEPT !.disturbed = Disturbs(ok),
                                  !.hole = IF conn.cfg.killSwitch THEN "kept" ELSE @]

\* The allowed ranges are updated from m_allowedRanges, which opens the hosts hs.
Update(hs) == hist' = [hist EXCEPT !.exempt = @ \cup hs,
                                   !.hole = IF @ = "unlisted" THEN "lost" ELSE @]

\* What a connection may open: what the client's call exempts, and what the daemon does.
Exceptions(cfg) == IF RoutesAll(cfg) THEN Excluded(cfg) ELSE AllowNets(cfg)

\* Protection is released; only the daemon may still open something for cfg.
Released(cfg, ok) ==
    [disturbed |-> Disturbs(ok), hole |-> "kept", armed |-> FALSE,
     exempt |-> IF cfg.killSwitch THEN Exceptions(cfg) ELSE {}]

-----------------------------------------------------------------------------
(* The client. *)

\* The calls of the attempt before have been answered, so the daemon has read its activate.
MayConnect ==
    /\ app.running /\ conn.phase \in {"off", "error"}
    /\ \A i \in DOMAIN queue : queue[i] # "activate"

\* connectToVpn(), where the service's reply may be lost.
connectToVpn(kind, cfg, lost, ok) ==
    /\ MayConnect
    /\ cfg.killSwitch = app.killSwitch
    /\ LET s == setConnectionProtection(fw, cfg.killSwitch, cfg, ok)
           failed == lost \/ (cfg.killSwitch /\ ~s.installed)
       IN  /\ fw' = s
           /\ conn' = [phase |-> IF failed THEN "error" ELSE "connecting", kind |-> kind, cfg |-> cfg]
           /\ hist' = IF cfg.killSwitch
                      THEN [disturbed |-> ~s.installed, hole |-> "kept",
                            exempt |-> Exceptions(cfg), armed |-> TRUE]
                      ELSE Released(cfg, ok)
    /\ UNCHANGED <<app, daemon, queue, leases>>

\* connectToVpn() with addresses that the service rejects.
connectRejected ==
    /\ MayConnect /\ app.killSwitch
    /\ conn' = [conn EXCEPT !.phase = "error"]
    /\ UNCHANGED <<fw, app, daemon, queue, leases, hist>>

disconnectFromVpn(ok) ==
    /\ app.running /\ conn.phase \in {"connecting", "connected"}
    /\ fw' = setConnectionProtection(fw, FALSE, conn.cfg, ok)
    /\ conn' = [conn EXCEPT !.phase = "off"]
    /\ hist' = Released(conn.cfg, ok)
    /\ UNCHANGED <<app, daemon, queue, leases>>

\* The tunnel is up.
Connected ==
    /\ app.running /\ conn.phase = "connecting"
    /\ conn' = [conn EXCEPT !.phase = "connected"]
    /\ UNCHANGED <<fw, app, daemon, queue, hist, leases>>

\* The attempt or the connection fails, or the daemon drops it: no user asked for that.
\* An Xray protocol has then stopped itself.
ConnectionLost(phase, ok) ==
    /\ app.running /\ conn.phase \in {"connecting", "connected"}
    /\ fw' = IF conn.kind = "Xray" THEN disableKillSwitch(fw, ok) ELSE fw
    /\ conn' = [conn EXCEPT !.phase = phase]
    /\ Keep(ok)
    /\ UNCHANGED <<app, daemon, queue, leases>>

\* WireguardProtocol::start() and stop() write to the daemon's socket.
WireguardStart ==
    /\ app.running /\ conn.kind = "WireGuard" /\ conn.phase \in {"connecting", "connected"}
    /\ Len(queue) < MaxQueue
    /\ queue' = Append(queue, "activate")
    /\ UNCHANGED <<fw, conn, app, daemon, hist, leases>>

WireguardStop ==
    /\ app.running /\ conn.kind = "WireGuard" /\ Len(queue) < MaxQueue
    /\ queue' = Append(queue, "deactivate")
    /\ UNCHANGED <<fw, conn, app, daemon, hist, leases>>

\* XrayProtocol::setupRouting() and the stop() of a silent reconnect.
XraySetupRouting(ok) ==
    /\ app.running /\ conn.kind = "Xray" /\ conn.phase \in {"connecting", "connected"}
    /\ conn.cfg.killSwitch
    /\ fw' = enableKillSwitch(fw, conn.cfg, ok)
    /\ Renew(ok)
    /\ UNCHANGED <<conn, app, daemon, queue, leases>>

XrayStop(ok) ==
    /\ app.running /\ conn.kind = "Xray"
    /\ fw' = disableKillSwitch(fw, ok)
    /\ Keep(ok)
    /\ UNCHANGED <<conn, app, daemon, queue, leases>>

\* The client's bypass routes of an Xray connection; the setting of the moment decides.
addSplitTunnelRoutes(h) ==
    /\ app.running /\ conn.kind = "Xray" /\ conn.phase = "connected"
    /\ app.killSwitch /\ conn.cfg.mode = "VpnAllExceptSites"
    /\ fw' = addAllowedRange(fw, {h})
    /\ Update({h})
    /\ UNCHANGED <<conn, app, daemon, queue, leases>>

\* The router is told what to learn from DNS, and forgets the addresses ips it has
\* learned so far (none if the rules are the same).
configureDnsSplitTunnel(ips) ==
    /\ app.running /\ conn.kind = "Xray" /\ conn.phase # "connecting"
    /\ leases' = (/\ conn.phase = "connected" /\ conn.cfg.mode = "VpnAllExceptSites"
                  /\ app.killSwitch)
    /\ IF leases /\ ips # {} THEN fw' = removeAllowedRange(fw, ips) /\ Update({})
       ELSE UNCHANGED <<fw, hist>>
    /\ UNCHANGED <<conn, app, daemon, queue>>

\* A DNS answer adds an address to the ones learned, or drops one.
syncDnsSplitTunnelIps(h) ==
    /\ leases
    /\ \/ fw' = addAllowedRange(fw, {h}) /\ Update({h})
       \/ fw' = removeAllowedRange(fw, {h}) /\ Update({})
    /\ UNCHANGED <<conn, app, daemon, queue, leases>>

\* The gateway's address is opened for API requests in strict mode.
PrepareGatewayRequest(h) ==
    /\ app.running /\ fw.strict
    /\ fw' = addAllowedRange(fw, {h})
    /\ Update({h})
    /\ UNCHANGED <<conn, app, daemon, queue, leases>>

\* The list of sites changes; it is empty unless the kill switch is on.
syncAlwaysBlockedSites(list, ok) ==
    /\ app.running /\ (list # {} => app.killSwitch)
    /\ fw' = setAlwaysBlockedSites(fw, list, ok)
    /\ Keep(ok)
    /\ UNCHANGED <<conn, app, daemon, queue, leases>>

\* The user switches the kill switch (strict: the stored mode); the settings page
\* allows it unless the UI shows Connected.
onKillSwitchModeChanged(list, strict, ok) ==
    LET on == ~app.killSwitch
    IN  /\ app.running /\ conn.phase # "connected"
        /\ (list # {} => on) /\ (strict => on)
        /\ app' = [app EXCEPT !.killSwitch = on]
        /\ fw' = refresh(setAlwaysBlockedSites(fw, list, ok), strict, ok)
        /\ hist' = [hist EXCEPT !.disturbed = Disturbs(ok),
                                !.hole = IF strict /\ fw.protection /\ @ = "kept"
                                         THEN "unlisted" ELSE @]
        /\ UNCHANGED <<conn, daemon, queue, leases>>

\* The application is closed or crashes: its last socket to the service closes.
AppGone(ok) ==
    /\ app.running
    /\ app' = [app EXCEPT !.running = FALSE]
    /\ conn' = [conn EXCEPT !.phase = "off"]
    /\ fw' = setAlwaysBlockedSites(fw, {}, ok)
    /\ Keep(ok)
    /\ UNCHANGED <<daemon, queue, leases>>

AppStarts ==
    /\ ~app.running
    /\ app' = [app EXCEPT !.running = TRUE]
    /\ UNCHANGED <<fw, conn, daemon, queue, hist, leases>>

-----------------------------------------------------------------------------
(* The daemon. *)

\* deleteInterface(): nothing happens without a tunnel process.
DeleteInterface(s, ok) == IF daemon = "down" THEN s ELSE disableKillSwitch(s, ok)

\* activate() without an interface, from the rules s: the process does not start or
\* cannot be configured, or addInterface() reaches the firewall, after which a later
\* step may still fail.  next is the daemon's state afterwards.
AddsInterface(s, next, ok) ==
    \/ next # "up" /\ fw' = s /\ Keep(ok)
    \/ /\ fw' = addInterface(s, conn.cfg, ok) /\ Renew(ok)
       /\ IF EnsureInstalled(s, ok).installed THEN next # "down" ELSE next = "down"

\* Daemon::activate().  An interface that exists keeps its rules (a connection that
\* failed half-way, or a switch of servers), unless it is torn down first.
DaemonActivate(next, ok) ==
    /\ queue # <<>> /\ Head(queue) = "activate"
    /\ \/ daemon = "down" /\ AddsInterface(fw, next, ok)
       \/ daemon = "up" /\ AddsInterface(DeleteInterface(fw, ok), next, ok)
       \/ daemon # "down" /\ next \in {daemon, "up"} /\ fw' = fw /\ Keep(ok)
    /\ daemon' = next
    /\ queue' = Tail(queue)
    /\ UNCHANGED <<conn, app, leases>>

DaemonDeactivate(ok) ==
    /\ queue # <<>> /\ Head(queue) = "deactivate"
    /\ fw' = DeleteInterface(fw, ok)
    /\ daemon' = "down"
    /\ queue' = Tail(queue)
    /\ Keep(ok)
    /\ UNCHANGED <<conn, app, leases>>

\* A split-tunnel host is resolved while the tunnel is up; the rules are the daemon's,
\* which an older connection than conn may have brought.
onSplitTunnelHostResolved(h) ==
    /\ daemon = "up"
    /\ fw' = addAllowedRange(fw, {h})
    /\ Update({h})
    /\ UNCHANGED <<conn, app, daemon, queue, leases>>

-----------------------------------------------------------------------------
(* The environment. *)

\* The service crashes and launchd starts it again; pf keeps its rules.
ServiceRestart(ok) ==
    /\ fw' = init(fw, ok)
    /\ daemon' = "down" /\ queue' = <<>> /\ leases' = FALSE
    /\ Keep(ok)
    /\ UNCHANGED <<conn, app>>

\* Other software disables pf.
PfDisabled ==
    /\ fw.installed
    /\ fw' = [fw EXCEPT !.installed = FALSE]
    /\ hist' = [hist EXCEPT !.disturbed = TRUE]
    /\ UNCHANGED <<conn, app, daemon, queue, leases>>

-----------------------------------------------------------------------------
(* The specification. *)

\* The service starts with pf untouched, possibly in strict mode.
Init ==
    /\ \E strict, ok \in BOOLEAN :
          /\ fw = init([strict |-> strict, protection |-> FALSE, alwaysBlocked |-> {},
                        allowed |-> {}, installed |-> FALSE, anchors |-> {},
                        allownets |-> {}, blocknets |-> {}], ok)
          /\ hist = [disturbed |-> ~ok, hole |-> "kept", exempt |-> {}, armed |-> FALSE]
          /\ \E on \in BOOLEAN :
                (strict => on) /\ app = [running |-> TRUE, killSwitch |-> on]
    /\ conn = [phase |-> "off", kind |-> "WireGuard",
               cfg |-> [killSwitch |-> FALSE, mode |-> "VpnAllSites", sites |-> {},
                        own |-> "default", ranges |-> {}]]
    /\ daemon = "down"
    /\ queue = <<>>
    /\ leases = FALSE

\* The configurations a user can choose (appendSplitTunnelingConfig()).  What a connection
\* does not look at has one value: without kill switch an Xray connection reads whether the
\* mode is VpnAllExceptSites, a WireGuard connection nothing.
XrayConfigs ==
    {c \in [killSwitch : BOOLEAN, mode : Modes, sites : SiteLists \cup {{}},
            own : {"default"}, ranges : {{}}] :
        /\ c.mode = "VpnOnlyForwardSites" => c.killSwitch
        /\ IF c.mode = "VpnAllSites" \/ ~c.killSwitch THEN c.sites = {} ELSE c.sites \in SiteLists}

\* Only WireGuard has AllowedIPs.  A profile with ranges of its own keeps the mode but gets no
\* sites, except the DNS servers as exceptions.
WireguardConfigs ==
    {c \in [killSwitch : BOOLEAN, mode : Modes, sites : SiteLists \cup {{}},
            own : {"default", "all", "ranges"}, ranges : RangeLists \cup {{}}] :
        /\ ~c.killSwitch => c.mode = "VpnAllSites" /\ c.own = "default"
        /\ c.own = "all" => c.mode = "VpnOnlyForwardSites"
        /\ IF c.own = "ranges" THEN c.ranges \in RangeLists ELSE c.ranges = {}
        /\ IF c.mode = "VpnAllSites" \/ (c.mode = "VpnOnlyForwardSites" /\ c.own = "ranges")
           THEN c.sites = {} ELSE c.sites \in SiteLists}

\* Does install() succeed?  A step that takes no rules down first calls it only if pf is not
\* in place.
Installs == IF fw.installed THEN {TRUE} ELSE BOOLEAN

ClientCalls ==
    \/ \E cfg \in XrayConfigs, lost \in BOOLEAN, ok \in Installs :
          connectToVpn("Xray", cfg, lost, ok)
    \/ \E cfg \in WireguardConfigs, lost \in BOOLEAN, ok \in Installs :
          connectToVpn("WireGuard", cfg, lost, ok)
    \/ connectRejected
    \/ \E ok \in Installs : disconnectFromVpn(ok)
    \/ Connected
    \/ \E phase \in {"off", "error"}, ok \in Installs : ConnectionLost(phase, ok)
    \/ WireguardStart
    \/ WireguardStop
    \/ \E ok \in Installs : XraySetupRouting(ok)
    \/ \E ok \in Installs : XrayStop(ok)
    \/ \E h \in Sites : addSplitTunnelRoutes(h)
    \/ \E ips \in SUBSET Sites : configureDnsSplitTunnel(ips)
    \/ \E h \in Sites : PrepareGatewayRequest(h)
    \/ \E list \in SiteLists \cup {{}}, ok \in Installs : syncAlwaysBlockedSites(list, ok)
    \/ \E list \in SiteLists \cup {{}}, strict, ok \in BOOLEAN :
          onKillSwitchModeChanged(list, strict, ok)

ServiceSteps ==
    \/ \E next \in {"down", "running", "up"}, ok \in BOOLEAN : DaemonActivate(next, ok)
    \/ \E ok \in Installs : DaemonDeactivate(ok)
    \/ \E h \in Sites : onSplitTunnelHostResolved(h)
    \/ \E h \in Sites : syncDnsSplitTunnelIps(h)
    \/ \E ok \in Installs : AppGone(ok)

Environment ==
    \/ AppStarts
    \/ \E ok \in Installs : ServiceRestart(ok)
    \/ PfDisabled

Next == ClientCalls \/ ServiceSteps \/ Environment

Spec == Init /\ [][Next]_vars

-----------------------------------------------------------------------------
(* Properties. *)

\* The hosts that both the setting of the application and the profile send into the tunnel.
Tunnelled(cfg) ==
    (IF cfg.mode = "VpnOnlyForwardSites" THEN cfg.sites ELSE Hosts)
    \cap (IF cfg.own = "ranges" THEN cfg.ranges ELSE Hosts)

\* No such host is reached outside the tunnel, except the ones opened for the connection; a
\* list of sites has no exceptions unless the profile overrides it.
Confined ==
    /\ fw.installed /\ ~LeavesIPv6(fw)
    /\ \A h \in Tunnelled(conn.cfg) : Leaves(fw, h) =>
          /\ h \in hist.exempt
          /\ conn.cfg.mode = "VpnOnlyForwardSites" => conn.cfg.own = "all"

\* While m_connectionProtection is set nothing that belongs into the tunnel leaves the
\* machine outside it, whatever cleanup, settings change, late daemon message or crash of
\* the client comes in between, and although the client's rules follow the setting and the
\* daemon's the profile, as long as nobody takes pf away.
ProtectionConfines == fw.protection /\ ~hist.disturbed => Confined

\* Without a connection the listed sites are unreachable for as long as the client has
\* them listed: every way back from a connection's rules leads to the idle block.
ListedSitesBlocked ==
    /\ conn.phase \in {"off", "error"} /\ daemon = "down"
    /\ ~fw.protection /\ ~fw.strict /\ ~hist.disturbed
    => \A h \in fw.alwaysBlocked : ~Leaves(fw, h)

\* Strict mode blocks after an explicit disconnect too: without a connection only the
\* hosts opened on purpose are reachable, and IPv6 is not.
StrictBlocks ==
    /\ daemon = "down"
    /\ fw.strict /\ ~fw.protection /\ ~hist.armed /\ ~hist.disturbed
    => ~LeavesIPv6(fw) /\ \A h \in Hosts : Leaves(fw, h) => h \in hist.exempt

\* The hole for the VPN server stays open while the connection is protected, unless the
\* profile's own ranges cover the server: no update of the allowed ranges (resolved hosts,
\* leases, daemon activation) drops it.  refresh(strict) empties the list of ranges; where
\* setting and profile use the tunnel for everything the hole outlives that, until the list
\* is used again, and the connection's next rules put it back.
EndpointReachable ==
    /\ fw.protection /\ ~hist.disturbed /\ Server \notin conn.cfg.ranges
    /\ \/ hist.hole = "kept"
       \/ /\ hist.hole = "unlisted"
          /\ conn.cfg.mode # "VpnOnlyForwardSites" /\ RoutesAll(conn.cfg)
    => Leaves(fw, Server)

\* README: "the connection owns protection from tunnel startup until an explicit
\* disconnect.  Protocol cleanup keeps the firewall rules active during automatic
\* recovery and after a failed attempt": the same confinement for as long as the user
\* has neither disconnected nor switched the kill switch off.
ConfinedUntilDisconnect ==
    /\ hist.armed /\ ~hist.disturbed
    /\ app.killSwitch /\ conn.phase = "connected"
    => Confined

=============================================================================

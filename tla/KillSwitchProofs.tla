--------------------------- MODULE KillSwitchProofs ---------------------------
(***************************************************************************)
(* Proofs about KillSwitch for every set of sites, every choice of lists   *)
(* and any number of unread messages.                                      *)
(*                                                                         *)
(* None of the four properties is inductive.  Their common invariant says  *)
(* what the rules look like, by who owns them: a protected connection      *)
(* (Guarded, EndpointOpen), nobody (IdleBlock, StrictBlock), and, in every *)
(* state, that nothing is exempted that was not opened on purpose.         *)
(***************************************************************************)
EXTENDS KillSwitch, TLAPS

Types ==
    /\ fw \in Firewalls
    /\ conn \in Connections
    /\ app \in [running : BOOLEAN, killSwitch : BOOLEAN]
    /\ daemon \in {"down", "running", "up"}
    /\ hist \in Histories

\* The exempted hosts are the ones opened since protection was armed, and a connection
\* with kill switch finds its own exceptions among them.
OpenedOnPurpose ==
    /\ fw.allowed \subseteq hist.exempt
    /\ fw.allownets \subseteq hist.exempt
    /\ conn.cfg.killSwitch => Exceptions(conn.cfg) \subseteq hist.exempt

\* A connection that runs with kill switch has armed it.
RunningIsArmed ==
    conn.phase \in {"connecting", "connected"} /\ conn.cfg.killSwitch => hist.armed

\* Only a client whose kill switch is on has sites listed.
SitesNeedKillSwitch == fw.alwaysBlocked # {} => app.killSwitch

\* Rules that somebody counts on are in force.
InForce == (fw.strict \/ fw.protection) /\ ~hist.disturbed => fw.installed

\* The hosts that belong into the tunnel are on the list of blocked ones.
Listed == "120.blockNets" \in fw.anchors /\ Tunnelled(conn.cfg) \subseteq fw.blocknets

\* The rules of a protected connection, the client's or the daemon's: everything is blocked
\* or a list; the list wherever there are no exceptions, everything where setting and
\* profile agree on it.
Guarded ==
    fw.protection /\ ~hist.disturbed =>
        /\ "250.blockIPv6" \in fw.anchors
        /\ Listed \/ "100.blockAll" \in fw.anchors
        /\ conn.cfg.mode = "VpnOnlyForwardSites" /\ conn.cfg.own # "all" => Listed
        /\ conn.cfg.mode # "VpnOnlyForwardSites" /\ RoutesAll(conn.cfg) =>
             "100.blockAll" \in fw.anchors

\* The server is not on the list of blocked hosts; where everything is blocked it is allowed,
\* and in the list every later update starts from unless refresh(strict) has emptied it.
EndpointOpen ==
    fw.protection /\ ~hist.disturbed /\ Server \notin conn.cfg.ranges =>
        /\ "120.blockNets" \in fw.anchors => Server \notin fw.blocknets
        /\ hist.hole = "kept" /\ "100.blockAll" \in fw.anchors =>
             /\ Server \in fw.allowed /\ Server \in fw.allownets
             /\ "110.allowNets" \in fw.anchors
        /\ /\ hist.hole = "unlisted"
           /\ conn.cfg.mode # "VpnOnlyForwardSites" /\ RoutesAll(conn.cfg)
           => Server \in fw.allownets /\ "110.allowNets" \in fw.anchors

\* The rules that nobody else has replaced block the listed sites.
IdleBlock ==
    /\ ~fw.protection /\ ~fw.strict /\ ~hist.disturbed /\ daemon = "down"
    /\ ~(conn.kind = "Xray" /\ conn.phase \in {"connecting", "connected"})
    /\ fw.alwaysBlocked # {}
    => fw.installed /\ "120.blockNets" \in fw.anchors /\ fw.alwaysBlocked \subseteq fw.blocknets

\* The same in strict mode, where the Xray rules belong to an armed connection.
StrictBlock ==
    fw.strict /\ ~fw.protection /\ ~hist.armed /\ ~hist.disturbed /\ daemon = "down"
        => "100.blockAll" \in fw.anchors

IInv == /\ Types /\ OpenedOnPurpose /\ RunningIsArmed /\ SitesNeedKillSwitch /\ InForce
        /\ Guarded /\ EndpointOpen /\ IdleBlock /\ StrictBlock

-----------------------------------------------------------------------------
(* What the functions of the service leave behind. *)

\* install() changes no member of the object and drops rules at most.
LEMMA EnsureInstalledFacts ==
    ASSUME NEW s \in Firewalls, NEW ok \in BOOLEAN
    PROVE  LET t == EnsureInstalled(s, ok)
           IN  /\ t \in Firewalls
               /\ t.strict = s.strict /\ t.protection = s.protection
               /\ t.alwaysBlocked = s.alwaysBlocked /\ t.allowed = s.allowed
               /\ t.installed <=> s.installed \/ ok
               /\ s.installed => t = s
               /\ t.allownets \subseteq s.allownets
BY DEF EnsureInstalled, Flushed, Firewalls

\* The sets a connection exempts and blocks, by the client's call.
LEMMA ConfigFacts ==
    ASSUME NEW cfg \in Configs
    PROVE  /\ AllowNets(cfg) \in SUBSET Hosts /\ BlockNets(cfg) \in SUBSET Hosts
           /\ ConnectionAnchors(cfg) \in SUBSET Anchors
           /\ "250.blockIPv6" \in ConnectionAnchors(cfg)
           /\ Server \notin BlockNets(cfg)
           /\ cfg.mode = "VpnOnlyForwardSites" =>
                /\ "120.blockNets" \in ConnectionAnchors(cfg) /\ BlockNets(cfg) = cfg.sites
                /\ "100.blockAll" \notin ConnectionAnchors(cfg)
           /\ cfg.mode # "VpnOnlyForwardSites" =>
                /\ "100.blockAll" \in ConnectionAnchors(cfg)
                /\ "110.allowNets" \in ConnectionAnchors(cfg)
                /\ "120.blockNets" \notin ConnectionAnchors(cfg)
                /\ Server \in AllowNets(cfg)
BY ServerAssumption
DEF Configs, AllowNets, BlockNets, ConnectionAnchors, FullAnchors, ListAnchors, Hosts, Anchors, Modes

\* The daemon's sets, and what both may open and have to block.
LEMMA ProfileFacts ==
    ASSUME NEW cfg \in Configs
    PROVE  /\ Excluded(cfg) \in SUBSET Hosts /\ AllowedRanges(cfg) \in SUBSET Hosts
           /\ Server \in Excluded(cfg)
           /\ Exceptions(cfg) \in SUBSET Hosts
           /\ AllowNets(cfg) \subseteq Exceptions(cfg)
           /\ RoutesAll(cfg) => Excluded(cfg) \subseteq Exceptions(cfg)
           /\ cfg.mode = "VpnOnlyForwardSites" => Tunnelled(cfg) \subseteq cfg.sites
           /\ ~RoutesAll(cfg) => Tunnelled(cfg) \subseteq AllowedRanges(cfg)
           /\ Server \notin cfg.ranges => Server \notin AllowedRanges(cfg)
           /\ cfg.mode = "VpnOnlyForwardSites" /\ cfg.own # "all" => ~RoutesAll(cfg)
BY ServerAssumption
DEF Configs, AllowNets, Excluded, AllowedRanges, Exceptions, RoutesAll, Tunnelled, Hosts, Modes

\* The anchors of the two kinds of rules.
LEMMA AnchorFacts ==
    /\ FullAnchors \in SUBSET Anchors /\ ListAnchors \in SUBSET Anchors
    /\ "100.blockAll" \in FullAnchors /\ "110.allowNets" \in FullAnchors
    /\ "120.blockNets" \notin FullAnchors /\ "250.blockIPv6" \in FullAnchors
    /\ "120.blockNets" \in ListAnchors /\ "100.blockAll" \notin ListAnchors
    /\ "250.blockIPv6" \in ListAnchors
BY DEF FullAnchors, ListAnchors, Anchors

\* enableKillSwitch() puts the connection's rules in place.
LEMMA EnableFacts ==
    ASSUME NEW s \in Firewalls, NEW cfg \in Configs, NEW ok \in BOOLEAN
    PROVE  LET t == enableKillSwitch(s, cfg, ok)
           IN  /\ t \in Firewalls
               /\ t.strict = s.strict /\ t.protection = s.protection
               /\ t.alwaysBlocked = s.alwaysBlocked
               /\ t.installed <=> s.installed \/ ok
               /\ t.allowed = AllowNets(cfg) /\ t.allownets = AllowNets(cfg)
               /\ t.anchors = ConnectionAnchors(cfg) /\ t.blocknets = BlockNets(cfg)
<1> DEFINE u == [s EXCEPT !.allowed = AllowNets(cfg)]
<1>1. u \in Firewalls /\ u.strict = s.strict /\ u.protection = s.protection
      /\ u.alwaysBlocked = s.alwaysBlocked /\ u.installed = s.installed
      /\ u.allowed = AllowNets(cfg)
  BY ConfigFacts DEF Firewalls
<1> HIDE DEF u
<1> DEFINE v == EnsureInstalled(u, ok)
<1>2. v \in Firewalls /\ v.strict = s.strict /\ v.protection = s.protection
      /\ v.alwaysBlocked = s.alwaysBlocked /\ (v.installed <=> s.installed \/ ok)
      /\ v.allowed = AllowNets(cfg)
  BY <1>1, EnsureInstalledFacts
<1>3. enableKillSwitch(s, cfg, ok)
        = SetRules(v, ConnectionAnchors(cfg), AllowNets(cfg), BlockNets(cfg))
  BY DEF enableKillSwitch, u
<1> HIDE DEF v
<1> DEFINE a == ConnectionAnchors(cfg)
           n == AllowNets(cfg)
           b == BlockNets(cfg)
           t == SetRules(v, a, n, b)
<1>4. a \subseteq Anchors /\ n \subseteq Hosts /\ b \subseteq Hosts
  BY ConfigFacts
<1> HIDE DEF a, n, b
<1>5. t \in Firewalls
  BY <1>2, <1>4 DEF SetRules, Firewalls
<1>6. /\ t.strict = v.strict /\ t.protection = v.protection /\ t.alwaysBlocked = v.alwaysBlocked
      /\ t.installed = v.installed /\ t.allowed = v.allowed
      /\ t.allownets = n /\ t.anchors = a /\ t.blocknets = b
  BY <1>2 DEF SetRules, Firewalls
<1> HIDE DEF t
<1> QED BY <1>2, <1>3, <1>5, <1>6 DEF t, a, n, b

\* disableKillSwitch() leaves a protected connection alone, and otherwise goes back to
\* the strict block, to the listed sites or to no rules at all.
LEMMA DisableFacts ==
    ASSUME NEW s \in Firewalls, NEW ok \in BOOLEAN
    PROVE  LET t == disableKillSwitch(s, ok)
           IN  /\ t \in Firewalls
               /\ t.strict = s.strict /\ t.protection = s.protection
               /\ t.alwaysBlocked = s.alwaysBlocked
               /\ s.protection => t = s
               /\ ~s.protection => t.allowed = {} /\ t.allownets = {}
               /\ ~s.protection /\ s.strict => t.installed = s.installed /\ "100.blockAll" \in t.anchors
               /\ ~s.protection /\ ~s.strict /\ s.alwaysBlocked # {} =>
                    /\ t.installed <=> s.installed \/ ok
                    /\ "120.blockNets" \in t.anchors /\ t.blocknets = s.alwaysBlocked
<1>1. CASE s.protection
  BY <1>1 DEF disableKillSwitch
<1>2. CASE ~s.protection /\ s.strict
  BY <1>2 DEF disableKillSwitch, SetRules, Firewalls, Anchors
<1>3. CASE ~s.protection /\ ~s.strict /\ s.alwaysBlocked # {}
  <2> DEFINE u == [s EXCEPT !.allowed = {}]
  <2>1. u \in Firewalls /\ u.strict = s.strict /\ u.protection = s.protection
        /\ u.alwaysBlocked = s.alwaysBlocked /\ u.installed = s.installed /\ u.allowed = {}
    BY DEF Firewalls
  <2> HIDE DEF u
  <2> DEFINE v == EnsureInstalled(u, ok)
  <2>2. v \in Firewalls /\ v.strict = s.strict /\ v.protection = s.protection
        /\ v.alwaysBlocked = s.alwaysBlocked /\ (v.installed <=> s.installed \/ ok)
        /\ v.allowed = {}
    BY <2>1, EnsureInstalledFacts
  <2>3. disableKillSwitch(s, ok)
          = SetRules(v, {"120.blockNets", "200.allowVPN"}, {}, s.alwaysBlocked)
    BY <1>3 DEF disableKillSwitch, applyAlwaysBlockedSites, u
  <2> HIDE DEF v
  <2> QED BY <1>3, <2>2, <2>3 DEF SetRules, Firewalls, Anchors, Hosts
<1>4. CASE ~s.protection /\ ~s.strict /\ s.alwaysBlocked = {}
  BY <1>4 DEF disableKillSwitch, uninstall, Flushed, Firewalls
<1> QED BY <1>1, <1>2, <1>3, <1>4 DEF Firewalls

\* disableAllTraffic() adds the two blocks and forgets the allowed ranges.
DisableAllPost(s, ok, t) ==
    /\ t \in Firewalls
    /\ t.strict = s.strict /\ t.protection = s.protection
    /\ t.alwaysBlocked = s.alwaysBlocked /\ t.allowed = {}
    /\ t.installed <=> s.installed \/ ok
    /\ t.allownets \subseteq s.allownets
    /\ "100.blockAll" \in t.anchors /\ "250.blockIPv6" \in t.anchors
    /\ s.installed => /\ t.blocknets = s.blocknets /\ t.allownets = s.allownets
                      /\ t.anchors = s.anchors \cup {"100.blockAll", "250.blockIPv6"}

\* disableAllTraffic() has that effect.
LEMMA DisableAllFacts ==
    ASSUME NEW s \in Firewalls, NEW ok \in BOOLEAN
    PROVE  DisableAllPost(s, ok, disableAllTraffic(s, ok))
<1> DEFINE u == EnsureInstalled(s, ok)
<1>1. u \in Firewalls /\ u.strict = s.strict /\ u.protection = s.protection
      /\ u.alwaysBlocked = s.alwaysBlocked /\ (u.installed <=> s.installed \/ ok)
      /\ (s.installed => u = s) /\ u.allownets \subseteq s.allownets
  BY EnsureInstalledFacts
<1> HIDE DEF u
<1>2. disableAllTraffic(s, ok)
        = [u EXCEPT !.anchors = @ \cup {"100.blockAll", "250.blockIPv6"}, !.allowed = {}]
  BY DEF disableAllTraffic, u
<1> DEFINE t == disableAllTraffic(s, ok)
<1>3. /\ t \in Firewalls /\ t.strict = u.strict /\ t.protection = u.protection
      /\ t.alwaysBlocked = u.alwaysBlocked /\ t.allowed = {} /\ t.installed = u.installed
      /\ t.allownets = u.allownets /\ t.blocknets = u.blocknets
      /\ t.anchors = u.anchors \cup {"100.blockAll", "250.blockIPv6"}
  BY <1>1, <1>2 DEF Firewalls, Anchors
<1> HIDE DEF t
<1>4. DisableAllPost(s, ok, t)
  BY <1>1, <1>3 DEF DisableAllPost
<1> QED BY <1>4 DEF t

\* A new list of sites touches the rules only if nobody else owns them.
SetSitesPost(s, list, ok, t) ==
    /\ t \in Firewalls
    /\ t.strict = s.strict /\ t.protection = s.protection
    /\ t.alwaysBlocked = list
    /\ t.allowed \subseteq s.allowed /\ t.allownets \subseteq s.allownets
    /\ s.protection \/ s.strict =>
         /\ t.allowed = s.allowed /\ t.allownets = s.allownets /\ t.installed = s.installed
         /\ t.anchors = s.anchors /\ t.blocknets = s.blocknets
    /\ list = {} /\ s.alwaysBlocked = {} => t = s
    /\ ~s.protection /\ ~s.strict /\ list # {} =>
         \/ t = s
         \/ /\ t.installed <=> s.installed \/ ok
            /\ "120.blockNets" \in t.anchors /\ t.blocknets = list

\* What setAlwaysBlockedSites() leaves behind.
LEMMA SetSitesFacts ==
    ASSUME NEW s \in Firewalls, NEW list \in SUBSET Sites, NEW ok \in BOOLEAN
    PROVE  SetSitesPost(s, list, ok, setAlwaysBlockedSites(s, list, ok))
<1> DEFINE u == [s EXCEPT !.alwaysBlocked = list]
<1>1. u \in Firewalls /\ u.strict = s.strict /\ u.protection = s.protection
      /\ u.alwaysBlocked = list /\ u.allowed = s.allowed /\ u.allownets = s.allownets
      /\ u.installed = s.installed /\ u.anchors = s.anchors /\ u.blocknets = s.blocknets
      /\ (list = s.alwaysBlocked => u = s)
  BY DEF Firewalls
<1>2. setAlwaysBlockedSites(s, list, ok) = u \/ setAlwaysBlockedSites(s, list, ok) = disableKillSwitch(u, ok)
  BY DEF setAlwaysBlockedSites
<1>3. s.protection \/ s.strict => setAlwaysBlockedSites(s, list, ok) = u
  BY DEF setAlwaysBlockedSites
<1>4. setAlwaysBlockedSites(s, list, ok) = u \/ ~(s.strict \/ s.protection)
  BY DEF setAlwaysBlockedSites
<1>5. ~(s.strict \/ s.protection) /\ setAlwaysBlockedSites(s, list, ok) = u =>
        list = s.alwaysBlocked \/ u = disableKillSwitch(u, ok)
  BY DEF setAlwaysBlockedSites
<1>0. list = {} /\ s.alwaysBlocked = {} => setAlwaysBlockedSites(s, list, ok) = u
  BY DEF setAlwaysBlockedSites
<1> HIDE DEF u
<1> DEFINE d == disableKillSwitch(u, ok)
<1>6. /\ d \in Firewalls /\ d.strict = s.strict /\ d.protection = s.protection
      /\ d.alwaysBlocked = list
      /\ ~s.protection => d.allowed = {} /\ d.allownets = {}
      /\ ~s.protection /\ ~s.strict /\ list # {} =>
            /\ d.installed <=> s.installed \/ ok
            /\ "120.blockNets" \in d.anchors /\ d.blocknets = list
  BY <1>1, DisableFacts
<1> HIDE DEF d
<1>7. setAlwaysBlockedSites(s, list, ok) = u \/ setAlwaysBlockedSites(s, list, ok) = d
  BY <1>2 DEF d
<1>8. ~(s.strict \/ s.protection) /\ setAlwaysBlockedSites(s, list, ok) = u =>
        list = s.alwaysBlocked \/ u = d
  BY <1>5 DEF d
<1> QED BY <1>0, <1>1, <1>3, <1>4, <1>6, <1>7, <1>8 DEF SetSitesPost

\* resetAllowedRange() replaces the list and the table together.
LEMMA ResetFacts ==
    ASSUME NEW s \in Firewalls, NEW r \in SUBSET Hosts
    PROVE  LET t == resetAllowedRange(s, r)
           IN  /\ t \in Firewalls
               /\ t.strict = s.strict /\ t.protection = s.protection
               /\ t.alwaysBlocked = s.alwaysBlocked /\ t.installed = s.installed
               /\ t.allowed = r /\ t.allownets = r /\ t.blocknets = s.blocknets
               /\ t.anchors = s.anchors \cup {"110.allowNets"}
BY DEF resetAllowedRange, Firewalls, Anchors

\* The firewall part of the daemon's addInterface(): the connection's rules with kill
\* switch, one more block without, and a cleanup if pf cannot be installed.
AddInterfacePost(s, cfg, ok, t) ==
    /\ t \in Firewalls
    /\ t.strict = s.strict /\ t.protection = s.protection /\ t.alwaysBlocked = s.alwaysBlocked
    /\ s.installed \/ ok => t.installed
    /\ ~((s.installed \/ ok) /\ cfg.killSwitch) =>
         t.allowed \subseteq s.allowed /\ t.allownets \subseteq s.allownets
    /\ s.installed /\ ~cfg.killSwitch =>
         /\ t.allowed = s.allowed /\ t.allownets = s.allownets /\ t.blocknets = s.blocknets
         /\ t.anchors = s.anchors \cup {"250.blockIPv6"}
    /\ (s.installed \/ ok) /\ cfg.killSwitch /\ RoutesAll(cfg) =>
         /\ t.anchors = FullAnchors /\ t.blocknets = {}
         /\ t.allownets = Excluded(cfg) /\ t.allowed = Excluded(cfg)
    /\ (s.installed \/ ok) /\ cfg.killSwitch /\ ~RoutesAll(cfg) =>
         /\ t.anchors = ListAnchors /\ t.blocknets = AllowedRanges(cfg)
         /\ t.allownets = {} /\ t.allowed = s.allowed

\* addInterface() has that effect.
LEMMA AddInterfaceFacts ==
    ASSUME NEW s \in Firewalls, NEW cfg \in Configs, NEW ok \in BOOLEAN
    PROVE  AddInterfacePost(s, cfg, ok, addInterface(s, cfg, ok))
<1> DEFINE t == EnsureInstalled(s, ok)
           u == [t EXCEPT !.anchors = @ \cup {"250.blockIPv6"}]
           v == resetAllowedRange(u, Excluded(cfg))
           r == addInterface(s, cfg, ok)
<1>1. /\ t \in Firewalls /\ t.strict = s.strict /\ t.protection = s.protection
      /\ t.alwaysBlocked = s.alwaysBlocked /\ t.allowed = s.allowed
      /\ (t.installed <=> s.installed \/ ok) /\ (s.installed => t = s)
      /\ t.allownets \subseteq s.allownets
  BY EnsureInstalledFacts
<1>2. r = CASE ~t.installed -> disableKillSwitch(u, ok)
            [] t.installed /\ ~cfg.killSwitch -> u
            [] t.installed /\ cfg.killSwitch /\ RoutesAll(cfg) ->
                 SetRules(v, FullAnchors, Excluded(cfg), {})
            [] OTHER -> SetRules(u, ListAnchors, {}, AllowedRanges(cfg))
  BY DEF addInterface
<1> HIDE DEF t, r
<1>3. /\ u \in Firewalls /\ u.strict = t.strict /\ u.protection = t.protection
      /\ u.alwaysBlocked = t.alwaysBlocked /\ u.allowed = t.allowed /\ u.installed = t.installed
      /\ u.allownets = t.allownets /\ u.blocknets = t.blocknets
      /\ u.anchors = t.anchors \cup {"250.blockIPv6"}
  BY <1>1 DEF Firewalls, Anchors
<1> HIDE DEF u
<1>4. s.installed \in BOOLEAN /\ t.installed \in BOOLEAN /\ u.protection \in BOOLEAN
      /\ cfg.killSwitch \in BOOLEAN
  BY <1>1, <1>3 DEF Firewalls, Configs
<1>5. CASE ~t.installed
  <2> DEFINE d == disableKillSwitch(u, ok)
  <2>1. /\ d \in Firewalls /\ d.strict = u.strict /\ d.protection = u.protection
        /\ d.alwaysBlocked = u.alwaysBlocked
        /\ u.protection => d = u
        /\ ~u.protection => d.allowed = {} /\ d.allownets = {}
    BY <1>3, DisableFacts
  <2>2. r = d
    BY <1>2, <1>5
  <2> HIDE DEF d
  <2>3. d.allowed \subseteq s.allowed /\ d.allownets \subseteq s.allownets
    BY <1>1, <1>3, <1>4, <2>1
  <2>4. AddInterfacePost(s, cfg, ok, d)
    BY <1>1, <1>3, <1>4, <1>5, <2>1, <2>3 DEF AddInterfacePost
  <2> QED BY <2>2, <2>4 DEF r
<1>6. CASE t.installed /\ ~cfg.killSwitch
  <2>1. r = u
    BY <1>2, <1>6
  <2>2. AddInterfacePost(s, cfg, ok, u)
    BY <1>1, <1>3, <1>4, <1>6 DEF AddInterfacePost
  <2> QED BY <2>1, <2>2 DEF r
<1>7. CASE t.installed /\ cfg.killSwitch /\ RoutesAll(cfg)
  <2> DEFINE x == Excluded(cfg)
  <2>1. r = SetRules(v, FullAnchors, x, {})
    BY <1>2, <1>7
  <2>2. x \in SUBSET Hosts
    BY ProfileFacts
  <2>3. v = resetAllowedRange(u, x)
    OBVIOUS
  <2> HIDE DEF x, v
  <2>4. /\ v \in Firewalls /\ v.strict = u.strict /\ v.protection = u.protection
        /\ v.alwaysBlocked = u.alwaysBlocked /\ v.installed = u.installed /\ v.allowed = x
    BY <1>3, <2>2, <2>3, ResetFacts
  <2>5. /\ r \in Firewalls /\ r.strict = v.strict /\ r.protection = v.protection
        /\ r.alwaysBlocked = v.alwaysBlocked /\ r.installed = v.installed /\ r.allowed = v.allowed
        /\ r.anchors = FullAnchors /\ r.allownets = x /\ r.blocknets = {}
    BY <2>1, <2>2, <2>4, AnchorFacts DEF SetRules, Firewalls
  <2>6. AddInterfacePost(s, cfg, ok, r)
    BY <1>1, <1>3, <1>4, <1>7, <2>4, <2>5 DEF AddInterfacePost, x
  <2> QED BY <2>6 DEF r
<1>8. CASE t.installed /\ cfg.killSwitch /\ ~RoutesAll(cfg)
  <2> DEFINE x == AllowedRanges(cfg)
  <2>1. r = SetRules(u, ListAnchors, {}, x)
    BY <1>2, <1>8
  <2>2. x \in SUBSET Hosts
    BY ProfileFacts
  <2> HIDE DEF x
  <2>3. /\ r \in Firewalls /\ r.strict = u.strict /\ r.protection = u.protection
        /\ r.alwaysBlocked = u.alwaysBlocked /\ r.installed = u.installed /\ r.allowed = u.allowed
        /\ r.anchors = ListAnchors /\ r.allownets = {} /\ r.blocknets = x
    BY <1>3, <2>1, <2>2, AnchorFacts DEF SetRules, Firewalls
  <2>4. AddInterfacePost(s, cfg, ok, r)
    BY <1>1, <1>3, <1>4, <1>8, <2>3 DEF AddInterfacePost, x
  <2> QED BY <2>4 DEF r
<1> QED BY <1>4, <1>5, <1>6, <1>7, <1>8

-----------------------------------------------------------------------------
(* The steps.  Each lemma names the facts about the calls that the step makes. *)

\* The types of the parts.
LEMMA Parts ==
    ASSUME IInv
    PROVE  /\ fw \in Firewalls /\ conn \in Connections /\ hist \in Histories
           /\ conn.cfg \in Configs
           /\ fw.strict \in BOOLEAN /\ fw.protection \in BOOLEAN /\ fw.installed \in BOOLEAN
BY DEF IInv, Types, Connections, Firewalls

\* The history after a step that may call install().
LEMMA KeepFacts ==
    ASSUME IInv, NEW ok \in BOOLEAN, Keep(ok)
    PROVE  /\ hist' \in Histories
           /\ hist'.disturbed <=> hist.disturbed \/ (~ok /\ ~fw.installed)
           /\ hist'.hole = hist.hole /\ hist'.exempt = hist.exempt
           /\ hist'.armed = hist.armed
<1>1. hist \in Histories /\ fw.installed \in BOOLEAN
  BY Parts
<1> QED BY <1>1 DEF Keep, Disturbs, Histories

\* The history after a step that sets the connection's rules.
LEMMA RenewFacts ==
    ASSUME IInv, NEW ok \in BOOLEAN, Renew(ok)
    PROVE  /\ hist' \in Histories
           /\ hist'.disturbed <=> hist.disturbed \/ (~ok /\ ~fw.installed)
           /\ conn.cfg.killSwitch => hist'.hole = "kept"
           /\ ~conn.cfg.killSwitch => hist'.hole = hist.hole
           /\ hist'.exempt = hist.exempt /\ hist'.armed = hist.armed
<1> DEFINE x == IF conn.cfg.killSwitch THEN "kept" ELSE hist.hole
<1>1. hist \in Histories /\ fw.installed \in BOOLEAN
  BY Parts
<1>2. x \in {"kept", "unlisted", "lost"} /\ hist' = [hist EXCEPT !.disturbed = Disturbs(ok), !.hole = x]
  BY <1>1 DEF Renew, Histories
<1>3. (conn.cfg.killSwitch => x = "kept") /\ (~conn.cfg.killSwitch => x = hist.hole)
  OBVIOUS
<1> HIDE DEF x
<1> QED BY <1>1, <1>2, <1>3 DEF Disturbs, Histories

\* The history after an update of the allowed ranges.
LEMMA UpdateFacts ==
    ASSUME IInv, NEW hs \in SUBSET Hosts, Update(hs)
    PROVE  /\ hist' \in Histories
           /\ hist'.disturbed = hist.disturbed /\ hist'.armed = hist.armed
           /\ hist'.hole # "unlisted" /\ (hist'.hole = "kept" => hist.hole = "kept")
           /\ hist'.exempt = hist.exempt \cup hs
<1> DEFINE x == IF hist.hole = "unlisted" THEN "lost" ELSE hist.hole
<1>1. hist \in Histories
  BY Parts
<1>2. /\ x \in {"kept", "lost"} /\ (x = "kept" => hist.hole = "kept")
      /\ hist' = [hist EXCEPT !.exempt = hist.exempt \cup hs, !.hole = x]
  BY <1>1 DEF Update, Histories
<1> HIDE DEF x
<1> QED BY <1>1, <1>2 DEF Histories

\* A step that changes neither the rules nor the history, and starts no connection.
LEMMA QuietStep ==
    ASSUME IInv, fw' = fw, hist' = hist,
           conn' = conn, app'.killSwitch = app.killSwitch,
           app' \in [running : BOOLEAN, killSwitch : BOOLEAN], daemon' = daemon
    PROVE  IInv'
BY DEF IInv, Types, OpenedOnPurpose, RunningIsArmed, SitesNeedKillSwitch, InForce, Guarded, Listed,
       EndpointOpen, IdleBlock, StrictBlock

\* A cleanup: the step calls disableKillSwitch(), for a connection that stays as it is
\* or ends, and for any state of the daemon.
LEMMA DisableStep ==
    ASSUME IInv, NEW ok \in BOOLEAN, fw' = disableKillSwitch(fw, ok), Keep(ok),
           conn' \in Connections, conn'.cfg = conn.cfg, conn'.phase \in {conn.phase, "off", "error"},
           UNCHANGED app, daemon' \in {"down", "running", "up"}
    PROVE  IInv'
<1>1. fw \in Firewalls /\ hist \in Histories
  BY Parts
<1>2. /\ hist' \in Histories
      /\ hist'.disturbed <=> hist.disturbed \/ (~ok /\ ~fw.installed)
      /\ hist'.hole = hist.hole /\ hist'.exempt = hist.exempt
      /\ hist'.armed = hist.armed
  BY KeepFacts
<1>3. /\ fw' \in Firewalls /\ fw'.strict = fw.strict /\ fw'.protection = fw.protection
      /\ fw'.alwaysBlocked = fw.alwaysBlocked
      /\ fw.protection => fw' = fw
      /\ ~fw.protection => fw'.allowed = {} /\ fw'.allownets = {}
      /\ ~fw.protection /\ fw.strict => fw'.installed = fw.installed /\ "100.blockAll" \in fw'.anchors
      /\ ~fw.protection /\ ~fw.strict /\ fw.alwaysBlocked # {} =>
           /\ fw'.installed <=> fw.installed \/ ok
           /\ "120.blockNets" \in fw'.anchors /\ fw'.blocknets = fw.alwaysBlocked
  BY <1>1, DisableFacts
<1>4. Types' /\ OpenedOnPurpose' /\ RunningIsArmed' /\ SitesNeedKillSwitch'
  BY <1>2, <1>3 DEF IInv, Types, OpenedOnPurpose, RunningIsArmed, SitesNeedKillSwitch
<1>5. CASE fw.protection
  <2>1. fw' = fw BY <1>3, <1>5
  <2> QED BY <2>1, <1>2, <1>4, <1>5 DEF IInv, InForce, Guarded, Listed, EndpointOpen, IdleBlock, StrictBlock
<1>6. CASE ~fw.protection
  BY <1>2, <1>3, <1>4, <1>6 DEF IInv, InForce, Guarded, Listed, EndpointOpen, IdleBlock, StrictBlock
<1> QED BY <1>5, <1>6

\* The client gives protection up: setConnectionProtection(false).
LEMMA ReleaseStep ==
    ASSUME IInv, NEW ok \in BOOLEAN,
           fw' = disableKillSwitch([fw EXCEPT !.protection = FALSE], ok),
           hist' = Released(conn'.cfg, ok),
           conn' \in Connections, UNCHANGED <<app, daemon>>,
           conn'.cfg.killSwitch => conn'.phase = "off"
    PROVE  IInv'
<1> DEFINE s == [fw EXCEPT !.protection = FALSE]
           d == disableKillSwitch(s, ok)
<1>1. fw \in Firewalls /\ hist \in Histories /\ fw.installed \in BOOLEAN
  BY Parts
<1>2. /\ s \in Firewalls /\ s.strict = fw.strict /\ s.protection = FALSE
      /\ s.alwaysBlocked = fw.alwaysBlocked /\ s.installed = fw.installed
  BY <1>1 DEF Firewalls
<1> HIDE DEF s
<1>3. /\ d \in Firewalls /\ d.strict = fw.strict /\ d.protection = FALSE
      /\ d.alwaysBlocked = fw.alwaysBlocked
      /\ d.allowed = {} /\ d.allownets = {}
      /\ fw.strict => d.installed = fw.installed /\ "100.blockAll" \in d.anchors
      /\ ~fw.strict /\ fw.alwaysBlocked # {} =>
           /\ d.installed <=> fw.installed \/ ok
           /\ "120.blockNets" \in d.anchors /\ d.blocknets = fw.alwaysBlocked
  BY <1>2, DisableFacts
<1>4. fw' = d
  BY DEF s
<1> HIDE DEF d
<1>5. /\ hist' \in Histories /\ (hist'.disturbed <=> hist.disturbed \/ (~ok /\ ~fw.installed))
      /\ ~hist'.armed /\ (conn'.cfg.killSwitch => hist'.exempt = Exceptions(conn'.cfg))
  <2> DEFINE x == IF conn'.cfg.killSwitch THEN Exceptions(conn'.cfg) ELSE {}
  <2>1. conn'.cfg \in Configs
    BY DEF Connections
  <2>2. Exceptions(conn'.cfg) \in SUBSET Hosts
    BY <2>1, ProfileFacts
  <2>3. x \in SUBSET Hosts /\ (conn'.cfg.killSwitch => x = Exceptions(conn'.cfg))
        /\ hist' = [disturbed |-> Disturbs(ok), hole |-> "kept", armed |-> FALSE, exempt |-> x]
    BY <2>2 DEF Released
  <2> HIDE DEF x
  <2> DEFINE dist == Disturbs(ok)
  <2>4. dist \in BOOLEAN /\ (dist <=> hist.disturbed \/ (~ok /\ ~fw.installed))
    BY <1>1 DEF Disturbs, Histories
  <2>5. hist' = [disturbed |-> dist, hole |-> "kept", armed |-> FALSE, exempt |-> x]
    BY <2>3
  <2> HIDE DEF dist
  <2>6. hist' \in Histories /\ hist'.disturbed = dist /\ ~hist'.armed /\ hist'.exempt = x
    BY <2>3, <2>4, <2>5 DEF Histories
  <2> QED BY <2>3, <2>4, <2>6
<1> QED BY <1>3, <1>4, <1>5 DEF IInv, Types, OpenedOnPurpose, RunningIsArmed, SitesNeedKillSwitch,
           InForce, Guarded, Listed, EndpointOpen, IdleBlock, StrictBlock

\* The step that starts a connection.
LEMMA ConnectStep ==
    ASSUME IInv, NEW kind \in {"WireGuard", "Xray"}, NEW cfg \in XrayConfigs \cup WireguardConfigs,
           NEW lost \in BOOLEAN, NEW ok \in BOOLEAN, connectToVpn(kind, cfg, lost, ok)
    PROVE  IInv'
<1>p. fw \in Firewalls /\ conn \in Connections /\ hist \in Histories
  BY Parts
<1>0. cfg \in Configs
  BY SiteListsAssumption, RangeListsAssumption DEF WireguardConfigs, XrayConfigs, Configs
<1>1. cfg.killSwitch \in BOOLEAN
  BY <1>0 DEF Configs
<1>2. CASE cfg.killSwitch
  <2> DEFINE e == enableKillSwitch(fw, cfg, ok)
  <2>1. /\ e \in Firewalls /\ e.alwaysBlocked = fw.alwaysBlocked /\ (e.installed <=> fw.installed \/ ok)
        /\ e.allowed = AllowNets(cfg) /\ e.allownets = AllowNets(cfg)
        /\ e.anchors = ConnectionAnchors(cfg) /\ e.blocknets = BlockNets(cfg)
    BY <1>0, <1>p, EnableFacts
  <2>2. setConnectionProtection(fw, cfg.killSwitch, cfg, ok) = [e EXCEPT !.protection = TRUE]
    BY <1>2 DEF setConnectionProtection
  <2>3. fw' = setConnectionProtection(fw, cfg.killSwitch, cfg, ok)
    BY <1>2 DEF connectToVpn
  <2>4. /\ hist' = [disturbed |-> ~fw'.installed, hole |-> "kept",
                    exempt |-> Exceptions(cfg), armed |-> TRUE]
        /\ UNCHANGED <<app, daemon>>
    BY <1>2, <2>3 DEF connectToVpn
  <2>5. conn'.cfg = cfg /\ conn' \in Connections
    <3> DEFINE failed == lost \/ (cfg.killSwitch /\ ~fw'.installed)
    <3>1. conn' = [phase |-> IF failed THEN "error" ELSE "connecting", kind |-> kind, cfg |-> cfg]
      BY <1>2, <2>3 DEF connectToVpn
    <3> HIDE DEF failed
    <3> QED BY <3>1, <1>0 DEF Connections
  <2> HIDE DEF e
  <2>6. /\ fw' \in Firewalls /\ fw'.protection /\ fw'.alwaysBlocked = fw.alwaysBlocked
        /\ fw'.allowed = AllowNets(cfg) /\ fw'.allownets = AllowNets(cfg)
        /\ fw'.anchors = ConnectionAnchors(cfg) /\ fw'.blocknets = BlockNets(cfg)
    BY <2>1, <2>2, <2>3 DEF Firewalls
  <2>7. hist' \in Histories /\ hist'.disturbed = ~fw'.installed /\ hist'.armed
        /\ hist'.exempt = Exceptions(cfg) /\ hist'.hole = "kept"
    BY <2>4, <2>6, <1>0, ProfileFacts DEF Histories, Firewalls
  <2>8. Guarded' /\ EndpointOpen'
    BY <1>0, <2>5, <2>6, <2>7, ConfigFacts, ProfileFacts DEF Guarded, Listed, EndpointOpen
  <2> QED BY <2>4, <2>5, <2>6, <2>7, <2>8, <1>0, ConfigFacts, ProfileFacts DEF IInv, Types,
             OpenedOnPurpose, RunningIsArmed, SitesNeedKillSwitch, InForce, IdleBlock, StrictBlock
<1>3. CASE ~cfg.killSwitch
  <2>1. fw' = disableKillSwitch([fw EXCEPT !.protection = FALSE], ok)
    BY <1>3 DEF connectToVpn, setConnectionProtection
  <2>2. hist' = Released(cfg, ok) /\ UNCHANGED <<app, daemon>>
    BY <1>3 DEF connectToVpn
  <2>3. conn'.cfg = cfg /\ conn' \in Connections
    BY <1>0, <1>3 DEF connectToVpn, Connections
  <2> QED BY <1>3, <2>1, <2>2, <2>3, ReleaseStep
<1> QED BY <1>1, <1>2, <1>3

\* The service rejects the configuration and changes nothing.
LEMMA RejectedStep ==
    ASSUME IInv, connectRejected
    PROVE  IInv'
<1>1. conn' \in Connections /\ conn'.cfg = conn.cfg /\ conn'.kind = conn.kind
      /\ conn'.phase = "error" /\ conn.phase \in {"off", "error"}
  BY Parts DEF connectRejected, MayConnect, Connections
<1>2. UNCHANGED <<fw, app, daemon, hist>>
  BY DEF connectRejected
<1> QED BY ONLY IInv, <1>1, <1>2 DEF IInv, Types, OpenedOnPurpose, RunningIsArmed,
           SitesNeedKillSwitch, InForce, Guarded, Listed, EndpointOpen, IdleBlock, StrictBlock

\* The user disconnects.
LEMMA DisconnectStep ==
    ASSUME IInv, NEW ok \in BOOLEAN, disconnectFromVpn(ok)
    PROVE  IInv'
<1>1. fw' = disableKillSwitch([fw EXCEPT !.protection = FALSE], ok)
  BY DEF disconnectFromVpn, setConnectionProtection
<1>2. conn' \in Connections /\ conn'.cfg = conn.cfg /\ conn'.phase = "off"
  BY Parts DEF disconnectFromVpn, Connections
<1>3. hist' = Released(conn'.cfg, ok) /\ UNCHANGED <<app, daemon>>
  BY <1>2 DEF disconnectFromVpn
<1> QED BY <1>1, <1>2, <1>3, ReleaseStep

\* The tunnel comes up.
LEMMA ConnectedStep ==
    ASSUME IInv, Connected
    PROVE  IInv'
<1>1. conn' \in Connections /\ conn'.cfg = conn.cfg /\ conn'.kind = conn.kind
      /\ conn'.phase = "connected" /\ conn.phase = "connecting"
  BY Parts DEF Connected, Connections
<1> QED BY <1>1 DEF Connected, IInv, Types, OpenedOnPurpose, RunningIsArmed, SitesNeedKillSwitch,
           InForce, Guarded, Listed, EndpointOpen, IdleBlock, StrictBlock

\* The connection fails.
LEMMA LostStep ==
    ASSUME IInv, NEW phase \in {"off", "error"}, NEW ok \in BOOLEAN, ConnectionLost(phase, ok)
    PROVE  IInv'
<1>1. conn' \in Connections /\ conn'.cfg = conn.cfg /\ conn'.kind = conn.kind
      /\ conn'.phase = phase
  BY Parts DEF ConnectionLost, Connections
<1>2. CASE conn.kind = "Xray"
  <2>1. fw' = disableKillSwitch(fw, ok) /\ Keep(ok) /\ UNCHANGED <<app, daemon>>
    BY <1>2 DEF ConnectionLost
  <2>2. daemon' \in {"down", "running", "up"}
    BY <2>1 DEF IInv, Types
  <2> QED BY <1>1, <2>1, <2>2, DisableStep
<1>3. CASE conn.kind # "Xray"
  <2>1. fw' = fw /\ Keep(ok) /\ UNCHANGED <<app, daemon>>
    BY <1>3 DEF ConnectionLost
  <2>2. /\ hist' \in Histories
        /\ hist'.disturbed <=> hist.disturbed \/ (~ok /\ ~fw.installed)
        /\ hist'.hole = hist.hole /\ hist'.exempt = hist.exempt
        /\ hist'.armed = hist.armed
    BY <2>1, KeepFacts
  <2> QED BY <1>1, <1>3, <2>1, <2>2 DEF IInv, Types, OpenedOnPurpose, RunningIsArmed,
             SitesNeedKillSwitch, InForce, Guarded, Listed, EndpointOpen, IdleBlock, StrictBlock
<1> QED BY <1>2, <1>3

\* Xray's own calls: the rules of the connection are set again, or cleaned up.
LEMMA XraySetupRoutingStep ==
    ASSUME IInv, NEW ok \in BOOLEAN, XraySetupRouting(ok)
    PROVE  IInv'
<1>1. fw \in Firewalls /\ conn.cfg \in Configs
  BY Parts
<1>2. /\ hist' \in Histories
      /\ hist'.disturbed <=> hist.disturbed \/ (~ok /\ ~fw.installed)
      /\ hist'.hole = "kept" /\ hist'.exempt = hist.exempt
      /\ hist'.armed = hist.armed
  BY RenewFacts DEF XraySetupRouting
<1>3. fw' = enableKillSwitch(fw, conn.cfg, ok) /\ UNCHANGED <<conn, app, daemon>>
  BY DEF XraySetupRouting
<1>4. /\ fw' \in Firewalls /\ fw'.strict = fw.strict /\ fw'.protection = fw.protection
      /\ fw'.alwaysBlocked = fw.alwaysBlocked
      /\ fw'.installed <=> fw.installed \/ ok
      /\ fw'.allowed = AllowNets(conn.cfg) /\ fw'.allownets = AllowNets(conn.cfg)
      /\ fw'.anchors = ConnectionAnchors(conn.cfg) /\ fw'.blocknets = BlockNets(conn.cfg)
  BY <1>1, <1>3, EnableFacts
<1>5. hist.armed /\ conn.kind = "Xray" /\ conn.phase \in {"connecting", "connected"}
      /\ AllowNets(conn.cfg) \subseteq hist.exempt
  BY <1>1, ProfileFacts DEF XraySetupRouting, IInv, RunningIsArmed, OpenedOnPurpose
<1>6. Guarded' /\ EndpointOpen'
  BY <1>1, <1>2, <1>3, <1>4, ConfigFacts, ProfileFacts DEF Guarded, Listed, EndpointOpen
<1> QED BY <1>1, <1>2, <1>3, <1>4, <1>5, <1>6 DEF IInv, Types, OpenedOnPurpose,
           RunningIsArmed, SitesNeedKillSwitch, InForce, IdleBlock, StrictBlock

\* Xray's stop() is a cleanup.
LEMMA XrayStopStep ==
    ASSUME IInv, NEW ok \in BOOLEAN, XrayStop(ok)
    PROVE  IInv'
<1>1. fw' = disableKillSwitch(fw, ok) /\ Keep(ok) /\ UNCHANGED <<conn, app, daemon>>
  BY DEF XrayStop
<1>2. conn' \in Connections /\ daemon' \in {"down", "running", "up"}
  BY <1>1 DEF IInv, Types
<1> QED BY <1>1, <1>2, DisableStep

\* A host is opened: for a split-tunnel route or a request to the gateway.
LEMMA OpenStep ==
    ASSUME IInv, NEW h \in Sites, fw' = addAllowedRange(fw, {h}), Update({h}),
           UNCHANGED <<conn, app, daemon>>
    PROVE  IInv'
<1>1. fw \in Firewalls /\ hist \in Histories
  BY Parts
<1> DEFINE r == fw.allowed \cup {h}
<1>2. r \in SUBSET Hosts
  BY <1>1 DEF Firewalls, Hosts
<1>3. /\ hist' \in Histories /\ hist'.disturbed = hist.disturbed
      /\ hist'.hole # "unlisted" /\ (hist'.hole = "kept" => hist.hole = "kept")
      /\ hist'.exempt = hist.exempt \cup {h} /\ hist'.armed = hist.armed
  <2>1. {h} \in SUBSET Hosts
    BY DEF Hosts
  <2> QED BY <2>1, UpdateFacts
<1> HIDE DEF r
<1> DEFINE t == resetAllowedRange(fw, r)
<1>4. /\ t \in Firewalls
      /\ t.strict = fw.strict /\ t.protection = fw.protection
      /\ t.alwaysBlocked = fw.alwaysBlocked /\ t.installed = fw.installed
      /\ t.allowed = r /\ t.allownets = r /\ t.blocknets = fw.blocknets
      /\ t.anchors = fw.anchors \cup {"110.allowNets"}
  BY <1>1, <1>2, ResetFacts
<1> HIDE DEF t
<1>5. r = fw.allowed \cup {h} /\ fw' = t
  BY DEF r, t, addAllowedRange
<1>6. /\ fw' \in Firewalls /\ fw'.strict = fw.strict /\ fw'.protection = fw.protection
      /\ fw'.alwaysBlocked = fw.alwaysBlocked /\ fw'.installed = fw.installed
      /\ fw'.allowed = fw.allowed \cup {h} /\ fw'.allownets = fw.allowed \cup {h}
      /\ fw'.blocknets = fw.blocknets /\ fw'.anchors = fw.anchors \cup {"110.allowNets"}
      /\ conn' = conn /\ app' = app /\ daemon' = daemon
  BY <1>4, <1>5
<1> QED BY ONLY IInv, <1>3, <1>6 DEF IInv, Types, OpenedOnPurpose, RunningIsArmed,
           SitesNeedKillSwitch, InForce, Guarded, Listed, EndpointOpen, IdleBlock, StrictBlock

\* Leases end: no site is the server, so the server's hole stays.
LEMMA CloseStep ==
    ASSUME IInv, NEW ips \in SUBSET Sites, fw' = removeAllowedRange(fw, ips), Update({}),
           UNCHANGED <<conn, app, daemon>>
    PROVE  IInv'
<1>1. fw \in Firewalls /\ hist \in Histories
  BY Parts
<1> DEFINE r == fw.allowed \ ips
           t == resetAllowedRange(fw, r)
<1>2. r \in SUBSET Hosts /\ r \subseteq fw.allowed /\ (Server \in fw.allowed => Server \in r)
  BY <1>1, ServerAssumption DEF Firewalls, Hosts
<1>3. fw' = t
  BY DEF removeAllowedRange
<1> HIDE DEF r
<1>4. /\ t \in Firewalls
      /\ t.strict = fw.strict /\ t.protection = fw.protection
      /\ t.alwaysBlocked = fw.alwaysBlocked /\ t.installed = fw.installed
      /\ t.allowed = r /\ t.allownets = r /\ t.blocknets = fw.blocknets
      /\ t.anchors = fw.anchors \cup {"110.allowNets"}
  BY <1>1, <1>2, ResetFacts
<1> HIDE DEF t
<1>5. /\ conn' = conn /\ app' = app /\ daemon' = daemon
      /\ hist' \in Histories /\ hist'.disturbed = hist.disturbed
      /\ hist'.hole # "unlisted" /\ (hist'.hole = "kept" => hist.hole = "kept")
      /\ hist'.exempt = hist.exempt /\ hist'.armed = hist.armed
  <2>1. {} \in SUBSET Hosts /\ hist.exempt \cup {} = hist.exempt
    OBVIOUS
  <2> QED BY <2>1, UpdateFacts
<1> QED BY ONLY IInv, <1>2, <1>3, <1>4, <1>5 DEF IInv, Types, OpenedOnPurpose, RunningIsArmed,
           SitesNeedKillSwitch, InForce, Guarded, Listed, EndpointOpen, IdleBlock, StrictBlock

\* The router is configured anew and closes what it had learned.
LEMMA ConfigureDnsStep ==
    ASSUME IInv, NEW ips \in SUBSET Sites, configureDnsSplitTunnel(ips)
    PROVE  IInv'
<1>1. UNCHANGED <<conn, app, daemon>>
  BY DEF configureDnsSplitTunnel
<1>2. CASE fw' = removeAllowedRange(fw, ips) /\ Update({})
  BY <1>1, <1>2, CloseStep
<1>3. CASE UNCHANGED <<fw, hist>>
  BY <1>1, <1>3, QuietStep DEF IInv, Types
<1> QED BY <1>2, <1>3 DEF configureDnsSplitTunnel

\* A DNS answer opens or closes an address.
LEMMA SyncDnsStep ==
    ASSUME IInv, NEW h \in Sites, syncDnsSplitTunnelIps(h)
    PROVE  IInv'
<1>1. UNCHANGED <<conn, app, daemon>>
  BY DEF syncDnsSplitTunnelIps
<1>2. CASE fw' = addAllowedRange(fw, {h}) /\ Update({h})
  BY <1>1, <1>2, OpenStep
<1>3. CASE fw' = removeAllowedRange(fw, {h}) /\ Update({})
  <2>1. {h} \in SUBSET Sites
    OBVIOUS
  <2> QED BY <1>1, <1>3, <2>1, CloseStep
<1> QED BY <1>2, <1>3 DEF syncDnsSplitTunnelIps

\* A new list of sites, from a running client or because the application is gone.
LEMMA SitesStep ==
    ASSUME IInv, NEW list \in SUBSET Sites, NEW ok \in BOOLEAN,
           fw' = setAlwaysBlockedSites(fw, list, ok), Keep(ok), UNCHANGED daemon,
           conn' = conn \/ (list = {} /\ conn' = [conn EXCEPT !.phase = "off"]),
           app' \in [running : BOOLEAN, killSwitch : BOOLEAN],
           list # {} => app'.killSwitch
    PROVE  IInv'
<1>1. fw \in Firewalls /\ conn \in Connections
  BY Parts
<1>2. /\ hist' \in Histories
      /\ hist'.disturbed <=> hist.disturbed \/ (~ok /\ ~fw.installed)
      /\ hist'.hole = hist.hole /\ hist'.exempt = hist.exempt
      /\ hist'.armed = hist.armed
  BY KeepFacts
<1>3. SetSitesPost(fw, list, ok, fw')
  BY <1>1, SetSitesFacts
<1>4. /\ conn' \in Connections /\ conn'.cfg = conn.cfg /\ conn'.kind = conn.kind
      /\ conn'.phase \in {conn.phase, "off"} /\ (list # {} => conn' = conn)
  BY <1>1 DEF Connections
<1>5. Types' /\ OpenedOnPurpose' /\ RunningIsArmed' /\ SitesNeedKillSwitch'
  BY <1>2, <1>3, <1>4 DEF SetSitesPost, IInv, Types, OpenedOnPurpose, RunningIsArmed, SitesNeedKillSwitch
<1>6. InForce' /\ Guarded' /\ EndpointOpen' /\ IdleBlock' /\ StrictBlock'
  BY ONLY IInv, <1>1, <1>2, <1>3, <1>4, UNCHANGED daemon
     DEF SetSitesPost, IInv, InForce, Guarded, Listed, EndpointOpen, IdleBlock, StrictBlock
<1> QED BY <1>5, <1>6 DEF IInv

\* The client sends its list of sites.
LEMMA SyncStep ==
    ASSUME IInv, NEW list \in SiteLists \cup {{}}, NEW ok \in BOOLEAN,
           syncAlwaysBlockedSites(list, ok)
    PROVE  IInv'
<1>1. list \in SUBSET Sites
  BY SiteListsAssumption
<1>2. /\ fw' = setAlwaysBlockedSites(fw, list, ok) /\ Keep(ok) /\ UNCHANGED <<conn, app, daemon>>
      /\ list # {} => app.killSwitch
  BY DEF syncAlwaysBlockedSites
<1>3. app' \in [running : BOOLEAN, killSwitch : BOOLEAN]
  BY <1>2 DEF IInv, Types
<1> QED BY <1>1, <1>2, <1>3, SitesStep

\* The last client socket closes: the idle block goes, protection stays.
LEMMA AppGoneStep ==
    ASSUME IInv, NEW ok \in BOOLEAN, AppGone(ok)
    PROVE  IInv'
<1>1. /\ fw' = setAlwaysBlockedSites(fw, {}, ok) /\ Keep(ok) /\ UNCHANGED daemon
      /\ conn' = [conn EXCEPT !.phase = "off"]
  BY DEF AppGone
<1>2. app' \in [running : BOOLEAN, killSwitch : BOOLEAN]
  BY DEF AppGone, IInv, Types
<1>3. {} \in SUBSET Sites
  OBVIOUS
<1> QED BY <1>1, <1>2, <1>3, SitesStep

\* The user switches the kill switch.  A client that switches it on has no sites listed
\* yet, so the rules that strict mode keeps are not taken down in between.
LEMMA ModeStep ==
    ASSUME IInv, NEW list \in SiteLists \cup {{}}, NEW strict \in BOOLEAN, NEW ok \in BOOLEAN,
           onKillSwitchModeChanged(list, strict, ok)
    PROVE  IInv'
<1> DEFINE s == setAlwaysBlockedSites(fw, list, ok)
           t == [s EXCEPT !.strict = strict]
<1>1. fw \in Firewalls /\ hist \in Histories /\ fw.installed \in BOOLEAN /\ list \in SUBSET Sites
  BY Parts, SiteListsAssumption
<1>2. SetSitesPost(fw, list, ok, s)
  BY <1>1, SetSitesFacts
<1>3. fw' = refresh(s, strict, ok)
  BY DEF onKillSwitchModeChanged
<1> HIDE DEF s
<1>4. /\ t \in Firewalls /\ t.strict = strict /\ t.protection = fw.protection
      /\ t.alwaysBlocked = list
      /\ t.allowed = s.allowed /\ t.allownets = s.allownets /\ t.installed = s.installed
      /\ t.anchors = s.anchors /\ t.blocknets = s.blocknets
  BY <1>2 DEF Firewalls, SetSitesPost
<1>5. fw' = IF strict THEN disableAllTraffic(t, ok) ELSE disableKillSwitch(t, ok)
  BY <1>3 DEF refresh
<1> HIDE DEF t
<1>6. /\ hist' \in Histories
      /\ hist'.disturbed <=> hist.disturbed \/ (~ok /\ ~fw.installed)
      /\ fw.protection /\ strict =>
           hist'.hole # "kept" /\ (hist'.hole = "unlisted" => hist.hole \in {"kept", "unlisted"})
      /\ ~strict => hist'.hole = hist.hole
      /\ hist'.exempt = hist.exempt /\ hist'.armed = hist.armed
  <2> DEFINE x == IF strict /\ fw.protection /\ hist.hole = "kept" THEN "unlisted" ELSE hist.hole
  <2>1. /\ x \in {"kept", "unlisted", "lost"}
        /\ fw.protection /\ strict =>
             x # "kept" /\ (x = "unlisted" => hist.hole \in {"kept", "unlisted"})
        /\ ~strict => x = hist.hole
        /\ hist' = [hist EXCEPT !.disturbed = Disturbs(ok), !.hole = x]
    BY <1>1 DEF onKillSwitchModeChanged, Histories
  <2> HIDE DEF x
  <2> QED BY <1>1, <2>1 DEF Histories, Disturbs
<1>7. /\ conn' = conn /\ daemon' = daemon
      /\ app' \in [running : BOOLEAN, killSwitch : BOOLEAN]
      /\ list # {} => app'.killSwitch
      /\ strict => fw.alwaysBlocked = {}
  BY DEF onKillSwitchModeChanged, IInv, Types, SitesNeedKillSwitch
<1>8. fw.protection \/ fw.strict =>
        /\ s.allowed = fw.allowed /\ s.allownets = fw.allownets /\ s.installed = fw.installed
        /\ s.anchors = fw.anchors /\ s.blocknets = fw.blocknets
  BY <1>2 DEF SetSitesPost
<1>9. CASE strict
  <2>1. DisableAllPost(t, ok, fw')
    BY <1>4, <1>5, <1>9, DisableAllFacts
  <2>2. fw.installed => s.installed
    BY <1>1, <1>2, <1>7, <1>8, <1>9 DEF SetSitesPost
  <2>3. Types' /\ OpenedOnPurpose' /\ RunningIsArmed' /\ SitesNeedKillSwitch'
    BY ONLY IInv, <1>2, <1>4, <1>6, <1>7, <2>1
       DEF SetSitesPost, DisableAllPost, IInv, Types, OpenedOnPurpose, RunningIsArmed, SitesNeedKillSwitch
  <2>4. InForce' /\ IdleBlock' /\ StrictBlock'
    BY ONLY IInv, <1>4, <1>6, <1>9, <2>1, <2>2
       DEF DisableAllPost, IInv, InForce, IdleBlock, StrictBlock
  <2>5. Guarded' /\ EndpointOpen'
    <3> SUFFICES ASSUME fw'.protection, ~hist'.disturbed
                 PROVE  Guarded' /\ EndpointOpen'
      BY DEF Guarded, Listed, EndpointOpen
    <3>1. fw.protection /\ ~hist.disturbed /\ fw.installed
      BY <1>4, <1>6, <2>1 DEF DisableAllPost, IInv, InForce
    <3>2. /\ fw'.blocknets = fw.blocknets /\ fw'.allownets = fw.allownets
          /\ fw'.anchors = fw.anchors \cup {"100.blockAll", "250.blockIPv6"}
      BY <1>4, <1>8, <2>1, <3>1 DEF DisableAllPost
    <3>3. Guarded'
      BY ONLY IInv, <1>7, <3>1, <3>2 DEF IInv, Guarded, Listed
    <3>4. EndpointOpen'
      BY ONLY IInv, <1>6, <1>7, <1>9, <3>1, <3>2 DEF IInv, Guarded, Listed, EndpointOpen
    <3> QED BY <3>3, <3>4
  <2> QED BY <2>3, <2>4, <2>5 DEF IInv
<1>10. CASE ~strict
  <2>1. /\ fw' \in Firewalls /\ fw'.strict = strict /\ fw'.protection = fw.protection
        /\ fw'.alwaysBlocked = list
        /\ fw.protection => fw' = t
        /\ ~fw.protection => fw'.allowed = {} /\ fw'.allownets = {}
        /\ ~fw.protection /\ list # {} =>
             /\ fw'.installed <=> s.installed \/ ok
             /\ "120.blockNets" \in fw'.anchors /\ fw'.blocknets = list
    BY <1>4, <1>5, <1>10, DisableFacts
  <2>2. list # {} => (fw.installed => s.installed)
    BY <1>1, <1>2, <1>8 DEF SetSitesPost
  <2>3. fw.protection =>
          /\ fw'.allowed = fw.allowed /\ fw'.allownets = fw.allownets
          /\ fw'.installed = fw.installed
          /\ fw'.anchors = fw.anchors /\ fw'.blocknets = fw.blocknets
    BY <1>4, <1>8, <2>1
  <2>4. Types' /\ OpenedOnPurpose' /\ RunningIsArmed' /\ SitesNeedKillSwitch'
    BY ONLY IInv, <1>6, <1>7, <2>1, <2>3
       DEF IInv, Types, OpenedOnPurpose, RunningIsArmed, SitesNeedKillSwitch
  <2>5. InForce' /\ IdleBlock' /\ StrictBlock'
    BY ONLY IInv, <1>6, <1>7, <1>10, <2>1, <2>2, <2>3 DEF IInv, InForce, IdleBlock, StrictBlock
  <2>6. Guarded' /\ EndpointOpen'
    BY ONLY IInv, <1>6, <1>7, <2>1, <2>3 DEF IInv, Guarded, Listed, EndpointOpen
  <2> QED BY <2>4, <2>5, <2>6 DEF IInv
<1> QED BY <1>9, <1>10

\* The daemon reads a message without touching the rules.
LEMMA DaemonQuietStep ==
    ASSUME IInv, NEW ok \in BOOLEAN, fw' = fw, Keep(ok), UNCHANGED <<conn, app>>,
           daemon' \in {"down", "running", "up"}, daemon' = "down" => daemon = "down"
    PROVE  IInv'
<1>1. /\ hist' \in Histories
      /\ hist'.disturbed <=> hist.disturbed \/ (~ok /\ ~fw.installed)
      /\ hist'.hole = hist.hole /\ hist'.exempt = hist.exempt
      /\ hist'.armed = hist.armed
  BY KeepFacts
<1> QED BY <1>1 DEF IInv, Types, OpenedOnPurpose, RunningIsArmed, SitesNeedKillSwitch, InForce,
           Guarded, Listed, EndpointOpen, IdleBlock, StrictBlock

\* The daemon creates the interface, from rules s that are the current ones or what a
\* cleanup has left of them.
LEMMA AddInterfaceStep ==
    ASSUME IInv, NEW ok \in BOOLEAN, NEW s \in Firewalls,
           s = fw \/ s = disableKillSwitch(fw, ok),
           fw' = addInterface(s, conn.cfg, ok), Renew(ok), UNCHANGED <<conn, app>>,
           daemon' \in {"down", "running", "up"},
           IF EnsureInstalled(s, ok).installed THEN daemon' # "down" ELSE daemon' = "down"
    PROVE  IInv'
<1>1. fw \in Firewalls /\ conn.cfg \in Configs /\ s.installed \in BOOLEAN /\ fw.installed \in BOOLEAN
      /\ fw.protection \in BOOLEAN /\ fw.strict \in BOOLEAN
  BY Parts DEF Firewalls
<1>2. /\ hist' \in Histories
      /\ hist'.disturbed <=> hist.disturbed \/ (~ok /\ ~fw.installed)
      /\ conn.cfg.killSwitch => hist'.hole = "kept"
      /\ ~conn.cfg.killSwitch => hist'.hole = hist.hole
      /\ hist'.exempt = hist.exempt /\ hist'.armed = hist.armed
  BY RenewFacts
<1>3. AddInterfacePost(s, conn.cfg, ok, fw')
  BY <1>1, AddInterfaceFacts
<1>4. /\ s.strict = fw.strict /\ s.protection = fw.protection
      /\ s.alwaysBlocked = fw.alwaysBlocked
      /\ s.allowed \subseteq fw.allowed /\ s.allownets \subseteq fw.allownets
      /\ fw.protection => s = fw
      /\ fw.protection \/ fw.strict \/ fw.alwaysBlocked # {} => (fw.installed => s.installed)
  <2>1. CASE s = fw
    BY <2>1
  <2>2. CASE s = disableKillSwitch(fw, ok)
    <3> DEFINE d == disableKillSwitch(fw, ok)
    <3>1. /\ d \in Firewalls /\ d.strict = fw.strict /\ d.protection = fw.protection
          /\ d.alwaysBlocked = fw.alwaysBlocked
          /\ fw.protection => d = fw
          /\ ~fw.protection => d.allowed = {} /\ d.allownets = {}
          /\ ~fw.protection /\ fw.strict => d.installed = fw.installed /\ "100.blockAll" \in d.anchors
          /\ ~fw.protection /\ ~fw.strict /\ fw.alwaysBlocked # {} =>
               /\ d.installed <=> fw.installed \/ ok
               /\ "120.blockNets" \in d.anchors /\ d.blocknets = fw.alwaysBlocked
      <4>1. fw \in Firewalls
        BY <1>1
      <4> QED BY ONLY <4>1, ok \in BOOLEAN, DisableFacts
    <3> HIDE DEF d
    <3>2. s = d
      BY <2>2 DEF d
    <3> QED BY ONLY <1>1, <3>1, <3>2, ok \in BOOLEAN
  <2> QED BY <2>1, <2>2
<1>5. s.installed \/ ok <=> daemon' # "down"
  BY EnsureInstalledFacts
<1>6. conn' = conn /\ app' = app
  OBVIOUS
<1>7. Types' /\ RunningIsArmed' /\ SitesNeedKillSwitch'
  BY ONLY IInv, <1>2, <1>3, <1>4, <1>6, daemon' \in {"down", "running", "up"}
     DEF AddInterfacePost, IInv, Types, RunningIsArmed, SitesNeedKillSwitch
<1>8. OpenedOnPurpose'
  <2>1. CASE conn.cfg.killSwitch /\ RoutesAll(conn.cfg)
    <3>1. Excluded(conn.cfg) \subseteq hist.exempt
      BY <1>1, <2>1, ProfileFacts DEF IInv, OpenedOnPurpose
    <3> QED BY ONLY IInv, <1>1, <1>2, <1>3, <1>4, <1>6, <2>1, <3>1, ok \in BOOLEAN
            DEF AddInterfacePost, IInv, OpenedOnPurpose
  <2>2. CASE ~(conn.cfg.killSwitch /\ RoutesAll(conn.cfg))
    BY ONLY IInv, <1>1, <1>2, <1>3, <1>4, <1>6, <2>2, ok \in BOOLEAN
       DEF AddInterfacePost, IInv, OpenedOnPurpose
  <2> QED BY <2>1, <2>2
<1>9. InForce' /\ IdleBlock' /\ StrictBlock'
  BY ONLY IInv, <1>1, <1>2, <1>3, <1>4, <1>5, <1>6, ok \in BOOLEAN
     DEF AddInterfacePost, IInv, InForce, IdleBlock, StrictBlock
<1>10. Guarded' /\ EndpointOpen'
  <2> SUFFICES ASSUME fw'.protection, ~hist'.disturbed
               PROVE  Guarded' /\ EndpointOpen'
    BY DEF Guarded, Listed, EndpointOpen
  <2>1. fw.protection /\ s = fw /\ ~hist.disturbed /\ fw.installed
    BY <1>1, <1>2, <1>3, <1>4 DEF AddInterfacePost, IInv, InForce
  <2>2. CASE conn.cfg.killSwitch /\ RoutesAll(conn.cfg)
    <3>1. /\ fw'.anchors = FullAnchors /\ fw'.blocknets = {}
          /\ fw'.allownets = Excluded(conn.cfg) /\ fw'.allowed = Excluded(conn.cfg)
      BY <1>3, <2>1, <2>2 DEF AddInterfacePost
    <3> QED BY ONLY <1>1, <1>6, <2>2, <3>1, AnchorFacts, ProfileFacts
            DEF Guarded, Listed, EndpointOpen
  <2>3. CASE conn.cfg.killSwitch /\ ~RoutesAll(conn.cfg)
    <3>1. /\ fw'.anchors = ListAnchors /\ fw'.blocknets = AllowedRanges(conn.cfg)
          /\ hist'.hole = "kept"
      BY <1>2, <1>3, <2>1, <2>3 DEF AddInterfacePost
    <3> QED BY ONLY <1>1, <1>6, <2>3, <3>1, AnchorFacts, ProfileFacts
            DEF Guarded, Listed, EndpointOpen
  <2>4. CASE ~conn.cfg.killSwitch
    BY ONLY IInv, <1>2, <1>3, <1>6, <2>1, <2>4
       DEF AddInterfacePost, IInv, Guarded, Listed, EndpointOpen
  <2> QED BY <2>2, <2>3, <2>4
<1> QED BY <1>7, <1>8, <1>9, <1>10 DEF IInv

\* The daemon reads an activate, in each of its three cases.
LEMMA ActivateStep ==
    ASSUME IInv, NEW next \in {"down", "running", "up"}, NEW ok \in BOOLEAN,
           DaemonActivate(next, ok)
    PROVE  IInv'
<1>1. fw \in Firewalls
  BY Parts
<1>2. UNCHANGED <<conn, app>> /\ daemon' = next
  BY DEF DaemonActivate
<1>3. CASE daemon = "down" /\ AddsInterface(fw, next, ok)
  <2>1. CASE next # "up" /\ fw' = fw /\ Keep(ok)
    BY <1>2, <1>3, <2>1, DaemonQuietStep
  <2>2. CASE /\ fw' = addInterface(fw, conn.cfg, ok) /\ Renew(ok)
             /\ IF EnsureInstalled(fw, ok).installed THEN next # "down" ELSE next = "down"
    BY <1>1, <1>2, <2>2, AddInterfaceStep
  <2> QED BY <1>3, <2>1, <2>2 DEF AddsInterface
<1>4. CASE daemon = "up" /\ AddsInterface(DeleteInterface(fw, ok), next, ok)
  <2> DEFINE s == disableKillSwitch(fw, ok)
  <2>1. DeleteInterface(fw, ok) = s
    BY <1>4 DEF DeleteInterface
  <2>2. s \in Firewalls
    BY <1>1, DisableFacts
  <2>3. CASE fw' = s /\ Keep(ok)
    <3>1. conn' \in Connections /\ conn'.cfg = conn.cfg /\ conn'.phase = conn.phase
      BY <1>2, Parts
    <3> QED BY <1>2, <2>3, <3>1, DisableStep
  <2>4. CASE /\ fw' = addInterface(s, conn.cfg, ok) /\ Renew(ok)
             /\ IF EnsureInstalled(s, ok).installed THEN next # "down" ELSE next = "down"
    BY <1>2, <2>2, <2>4, AddInterfaceStep
  <2> QED BY <1>4, <2>1, <2>3, <2>4 DEF AddsInterface
<1>5. CASE daemon # "down" /\ next \in {daemon, "up"} /\ fw' = fw /\ Keep(ok)
  BY <1>2, <1>5, DaemonQuietStep
<1> QED BY <1>3, <1>4, <1>5 DEF DaemonActivate

\* The daemon reads a deactivate.
LEMMA DeactivateStep ==
    ASSUME IInv, NEW ok \in BOOLEAN, DaemonDeactivate(ok)
    PROVE  IInv'
<1>1. Keep(ok) /\ UNCHANGED <<conn, app>> /\ daemon' = "down" /\ fw' = DeleteInterface(fw, ok)
  BY DEF DaemonDeactivate
<1>2. CASE daemon = "down"
  <2>1. fw' = fw
    BY <1>1, <1>2 DEF DeleteInterface
  <2> QED BY <1>1, <1>2, <2>1, DaemonQuietStep
<1>3. CASE daemon # "down"
  <2>1. fw' = disableKillSwitch(fw, ok)
    BY <1>1, <1>3 DEF DeleteInterface
  <2>2. conn' \in Connections /\ conn'.cfg = conn.cfg /\ conn'.phase = conn.phase
    BY <1>1, Parts
  <2> QED BY <1>1, <2>1, <2>2, DisableStep
<1> QED BY <1>2, <1>3

\* What init() makes of the rules it finds.
InitPost(s, ok, t) ==
    /\ t \in Firewalls
    /\ t.strict = s.strict /\ t.protection = FALSE
    /\ t.alwaysBlocked = {} /\ t.allowed = {}
    /\ t.allownets \subseteq s.allownets
    /\ s.strict => (t.installed <=> s.installed \/ ok) /\ "100.blockAll" \in t.anchors

\* init() has that effect.
LEMMA InitFacts ==
    ASSUME NEW s \in Firewalls, NEW ok \in BOOLEAN
    PROVE  InitPost(s, ok, init(s, ok))
<1> DEFINE u == [s EXCEPT !.protection = FALSE, !.alwaysBlocked = {}, !.allowed = {}]
<1>1. /\ u \in Firewalls /\ u.strict = s.strict /\ u.protection = FALSE /\ u.alwaysBlocked = {}
      /\ u.allowed = {} /\ u.allownets = s.allownets /\ u.installed = s.installed
      /\ s.strict \in BOOLEAN
  BY DEF Firewalls
<1>2. init(s, ok) = IF u.strict THEN disableAllTraffic(u, ok) ELSE u
  BY DEF init
<1> HIDE DEF u
<1>3. DisableAllPost(u, ok, disableAllTraffic(u, ok))
  BY <1>1, DisableAllFacts
<1>4. CASE s.strict
  <2>1. init(s, ok) = disableAllTraffic(u, ok)
    BY <1>1, <1>2, <1>4
  <2>2. DisableAllPost(u, ok, init(s, ok))
    BY <1>3, <2>1
  <2> QED BY ONLY <1>1, <1>4, <2>2 DEF DisableAllPost, InitPost
<1>5. CASE ~s.strict
  <2>1. init(s, ok) = u
    BY <1>1, <1>2, <1>5
  <2>2. InitPost(s, ok, u)
    BY <1>1, <1>5 DEF InitPost
  <2> QED BY <2>1, <2>2
<1> QED BY <1>1, <1>4, <1>5

\* A restarted service keeps strict mode and nothing else.
LEMMA RestartStep ==
    ASSUME IInv, NEW ok \in BOOLEAN, ServiceRestart(ok)
    PROVE  IInv'
<1>1. fw \in Firewalls
  BY Parts
<1>2. /\ hist' \in Histories
      /\ hist'.disturbed <=> hist.disturbed \/ (~ok /\ ~fw.installed)
      /\ hist'.hole = hist.hole /\ hist'.exempt = hist.exempt
      /\ hist'.armed = hist.armed
  BY KeepFacts DEF ServiceRestart
<1> DEFINE t == init(fw, ok)
<1>3. InitPost(fw, ok, t)
  BY <1>1, InitFacts
<1>4. fw' = t /\ UNCHANGED <<conn, app>> /\ daemon' = "down"
  BY DEF ServiceRestart
<1> HIDE DEF t
<1> QED BY ONLY IInv, <1>2, <1>3, <1>4, ok \in BOOLEAN DEF InitPost, IInv, Types, OpenedOnPurpose, RunningIsArmed,
           SitesNeedKillSwitch, InForce, Guarded, Listed, EndpointOpen, IdleBlock, StrictBlock

\* Other software takes pf away.
LEMMA PfDisabledStep ==
    ASSUME IInv, PfDisabled
    PROVE  IInv'
<1>1. /\ fw' \in Firewalls /\ fw'.allowed = fw.allowed /\ fw'.allownets = fw.allownets
      /\ fw'.alwaysBlocked = fw.alwaysBlocked
  BY Parts DEF PfDisabled, Firewalls
<1>2. /\ hist' \in Histories /\ hist'.disturbed /\ hist'.exempt = hist.exempt
      /\ hist'.armed = hist.armed
  BY Parts DEF PfDisabled, Histories
<1>3. UNCHANGED <<conn, app, daemon>>
  BY DEF PfDisabled
<1> QED BY ONLY IInv, <1>1, <1>2, <1>3 DEF IInv, Types, OpenedOnPurpose, RunningIsArmed,
           SitesNeedKillSwitch, InForce, Guarded, Listed, EndpointOpen, IdleBlock, StrictBlock

\* The service starts on a machine whose pf nobody uses.
LEMMA InitHolds == Init => IInv
<1> SUFFICES ASSUME Init PROVE IInv
  OBVIOUS
<1>1. PICK strict \in BOOLEAN, ok \in BOOLEAN :
        /\ fw = init([strict |-> strict, protection |-> FALSE, alwaysBlocked |-> {},
                      allowed |-> {}, installed |-> FALSE, anchors |-> {},
                      allownets |-> {}, blocknets |-> {}], ok)
        /\ hist = [disturbed |-> ~ok, hole |-> "kept", exempt |-> {}, armed |-> FALSE]
        /\ \E on \in BOOLEAN :
             (strict => on) /\ app = [running |-> TRUE, killSwitch |-> on]
  BY DEF Init
<1> DEFINE s == [strict |-> strict, protection |-> FALSE, alwaysBlocked |-> {},
                 allowed |-> {}, installed |-> FALSE, anchors |-> {},
                 allownets |-> {}, blocknets |-> {}]
<1>2. s \in Firewalls /\ s.strict = strict /\ s.allownets = {}
  BY DEF Firewalls
<1>3. fw = init(s, ok)
  BY <1>1
<1> HIDE DEF s
<1> DEFINE t == init(s, ok)
<1>4. InitPost(s, ok, t)
  BY <1>2, InitFacts
<1> HIDE DEF t
<1>5. fw = t
  BY <1>3 DEF t
<1>6. hist \in Histories /\ (hist.disturbed <=> ~ok) /\ hist.exempt = {}
  BY <1>1 DEF Histories
<1>7. app \in [running : BOOLEAN, killSwitch : BOOLEAN]
  BY <1>1
<1>8. conn \in Connections /\ conn.phase = "off" /\ ~conn.cfg.killSwitch /\ daemon = "down"
  BY DEF Init, Connections, Configs, Modes
<1> QED BY ONLY <1>2, <1>4, <1>5, <1>6, <1>7, <1>8, ok \in BOOLEAN DEF InitPost, IInv, Types, OpenedOnPurpose,
           RunningIsArmed, SitesNeedKillSwitch, InForce, Guarded, Listed, EndpointOpen, IdleBlock, StrictBlock

-----------------------------------------------------------------------------
(* The theorems. *)

\* Every step of the client, the service and the environment preserves the invariant.
LEMMA NextPreserves == IInv /\ [Next]_vars => IInv'
<1> SUFFICES ASSUME IInv, [Next]_vars PROVE IInv'
  OBVIOUS
<1>1. CASE ClientCalls
  <2> USE DEF Installs
  <2>1. CASE \E cfg \in WireguardConfigs, lost \in BOOLEAN, ok \in Installs :
               connectToVpn("WireGuard", cfg, lost, ok)
    BY <2>1, ConnectStep
  <2>13. CASE \E cfg \in XrayConfigs, lost \in BOOLEAN, ok \in Installs :
               connectToVpn("Xray", cfg, lost, ok)
    BY <2>13, ConnectStep
  <2>14. CASE connectRejected
    BY <2>14, RejectedStep
  <2>2. CASE \E ok \in Installs : disconnectFromVpn(ok)
    BY <2>2, DisconnectStep
  <2>3. CASE Connected
    BY <2>3, ConnectedStep
  <2>4. CASE \E phase \in {"off", "error"}, ok \in Installs : ConnectionLost(phase, ok)
    BY <2>4, LostStep
  <2>5. CASE WireguardStart \/ WireguardStop
    <3>1. UNCHANGED <<fw, conn, app, daemon, hist>>
      BY <2>5 DEF WireguardStart, WireguardStop
    <3> QED BY <3>1, QuietStep DEF IInv, Types
  <2>6. CASE \E ok \in Installs : XraySetupRouting(ok)
    BY <2>6, XraySetupRoutingStep
  <2>7. CASE \E ok \in Installs : XrayStop(ok)
    BY <2>7, XrayStopStep
  <2>8. CASE \E h \in Sites : addSplitTunnelRoutes(h)
    BY <2>8, OpenStep DEF addSplitTunnelRoutes
  <2>9. CASE \E h \in Sites : PrepareGatewayRequest(h)
    BY <2>9, OpenStep DEF PrepareGatewayRequest
  <2>10. CASE \E list \in SiteLists \cup {{}}, ok \in Installs : syncAlwaysBlockedSites(list, ok)
    BY <2>10, SyncStep
  <2>11. CASE \E list \in SiteLists \cup {{}}, strict, ok \in BOOLEAN :
                onKillSwitchModeChanged(list, strict, ok)
    BY <2>11, ModeStep
  <2>12. CASE \E ips \in SUBSET Sites : configureDnsSplitTunnel(ips)
    BY <2>12, ConfigureDnsStep
  <2> QED BY <1>1, <2>1, <2>2, <2>3, <2>4, <2>5, <2>6, <2>7, <2>8, <2>9, <2>10, <2>11, <2>12,
             <2>13, <2>14
          DEF ClientCalls
<1>2. CASE ServiceSteps
  <2> USE DEF Installs
  <2>1. CASE \E next \in {"down", "running", "up"}, ok \in BOOLEAN : DaemonActivate(next, ok)
    BY <2>1, ActivateStep
  <2>2. CASE \E ok \in Installs : DaemonDeactivate(ok)
    BY <2>2, DeactivateStep
  <2>3. CASE \E h \in Sites : onSplitTunnelHostResolved(h)
    BY <2>3, OpenStep DEF onSplitTunnelHostResolved
  <2>4. CASE \E h \in Sites : syncDnsSplitTunnelIps(h)
    BY <2>4, SyncDnsStep
  <2>5. CASE \E ok \in Installs : AppGone(ok)
    BY <2>5, AppGoneStep
  <2> QED BY <1>2, <2>1, <2>2, <2>3, <2>4, <2>5 DEF ServiceSteps
<1>3. CASE Environment
  <2> USE DEF Installs
  <2>1. CASE AppStarts
    <3>1. /\ UNCHANGED <<fw, conn, daemon, hist>> /\ app'.killSwitch = app.killSwitch
          /\ app' \in [running : BOOLEAN, killSwitch : BOOLEAN]
      BY <2>1 DEF AppStarts, IInv, Types
    <3> QED BY <3>1, QuietStep
  <2>2. CASE \E ok \in Installs : ServiceRestart(ok)
    BY <2>2, RestartStep
  <2>3. CASE PfDisabled
    BY <2>3, PfDisabledStep
  <2> QED BY <1>3, <2>1, <2>2, <2>3 DEF Environment
<1>4. CASE UNCHANGED vars
  <2>1. UNCHANGED <<fw, conn, app, daemon, hist>>
    BY <1>4 DEF vars
  <2> QED BY <2>1, QuietStep DEF IInv, Types
<1> QED BY <1>1, <1>2, <1>3, <1>4 DEF Next

\* The invariant holds in every state of every execution.
THEOREM Invariance == Spec => []IInv
BY InitHolds, NextPreserves, PTL DEF Spec

\* While m_connectionProtection is set and pf is left alone, no host that the setting and the
\* profile send into the tunnel is reached outside it, but for the connection's exceptions.
THEOREM ProtectionSound == Spec => []ProtectionConfines
<1>1. IInv => ProtectionConfines
  <2> SUFFICES ASSUME IInv, fw.protection, ~hist.disturbed PROVE Confined
    BY DEF ProtectionConfines
  <2>1. /\ fw.installed /\ "250.blockIPv6" \in fw.anchors
        /\ Listed \/ "100.blockAll" \in fw.anchors
        /\ conn.cfg.mode = "VpnOnlyForwardSites" /\ conn.cfg.own # "all" => Listed
        /\ fw.allownets \subseteq hist.exempt
    BY DEF IInv, InForce, Guarded, Listed, OpenedOnPurpose
  <2>2. ~LeavesIPv6(fw)
    BY <2>1 DEF LeavesIPv6
  <2>3. ASSUME NEW h \in Tunnelled(conn.cfg), Leaves(fw, h)
        PROVE  ~Listed
    BY <2>1, <2>3 DEF Leaves, Listed
  <2>4. ASSUME NEW h \in Tunnelled(conn.cfg), Leaves(fw, h), "100.blockAll" \in fw.anchors
        PROVE  h \in hist.exempt
    BY <2>1, <2>4 DEF Leaves
  <2> QED BY <2>1, <2>2, <2>3, <2>4 DEF Confined
<1> QED BY <1>1, Invariance, PTL

\* The hole for the server stays open while the connection is protected, for every profile
\* whose own ranges leave the server out, and refresh(strict) alone does not close it.
THEOREM EndpointSound == Spec => []EndpointReachable
<1>1. IInv => EndpointReachable
  <2> SUFFICES ASSUME IInv, fw.protection, ~hist.disturbed, Server \notin conn.cfg.ranges,
                      \/ hist.hole = "kept"
                      \/ /\ hist.hole = "unlisted"
                         /\ conn.cfg.mode # "VpnOnlyForwardSites" /\ RoutesAll(conn.cfg)
               PROVE  Leaves(fw, Server)
    BY DEF EndpointReachable
  <2>1. /\ "120.blockNets" \in fw.anchors => Server \notin fw.blocknets
        /\ "100.blockAll" \in fw.anchors =>
             Server \in fw.allownets /\ "110.allowNets" \in fw.anchors
    BY DEF IInv, EndpointOpen
  <2> QED BY <2>1 DEF Leaves
<1> QED BY <1>1, Invariance, PTL

\* Without a connection the listed sites are unreachable.
THEOREM IdleBlockSound == Spec => []ListedSitesBlocked
<1>1. IInv => ListedSitesBlocked
  <2> SUFFICES ASSUME IInv, conn.phase \in {"off", "error"}, daemon = "down",
                      ~fw.protection, ~fw.strict, ~hist.disturbed,
                      NEW h \in fw.alwaysBlocked
               PROVE  ~Leaves(fw, h)
    BY DEF ListedSitesBlocked
  <2>1. fw.installed /\ "120.blockNets" \in fw.anchors /\ h \in fw.blocknets
    BY DEF IInv, IdleBlock
  <2> QED BY <2>1 DEF Leaves
<1> QED BY <1>1, Invariance, PTL

\* Strict mode blocks without a connection, except for the hosts opened on purpose.
THEOREM StrictSound == Spec => []StrictBlocks
<1>1. IInv => StrictBlocks
  <2> SUFFICES ASSUME IInv, daemon = "down", fw.strict, ~fw.protection, ~hist.armed,
                      ~hist.disturbed
               PROVE  ~LeavesIPv6(fw) /\ \A h \in Hosts : Leaves(fw, h) => h \in hist.exempt
    BY DEF StrictBlocks
  <2>1. fw.installed /\ "100.blockAll" \in fw.anchors /\ fw.allownets \subseteq hist.exempt
    BY DEF IInv, InForce, StrictBlock, OpenedOnPurpose
  <2>2. ~LeavesIPv6(fw)
    BY <2>1 DEF LeavesIPv6
  <2>3. ASSUME NEW h \in Hosts, Leaves(fw, h) PROVE h \in hist.exempt
    BY <2>1, <2>3 DEF Leaves
  <2> QED BY <2>2, <2>3
<1> QED BY <1>1, Invariance, PTL
=============================================================================

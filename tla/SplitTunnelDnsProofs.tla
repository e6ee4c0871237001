------------------------ MODULE SplitTunnelDnsProofs ------------------------
(***************************************************************************)
(* Proofs of the properties of SplitTunnelDns for any finite set of hosts, *)
(* any addresses and gateways, and any limit on the lookups under way.     *)
(***************************************************************************)
EXTENDS SplitTunnelDns, FiniteSetTheorems, TLAPS

-----------------------------------------------------------------------------
(* The invariant. *)

Current == {l \in lookups : l.current}

\* What may still add a lease, a query, a queued host or a current lookup, is about a host
\* of the rules.
SourcesFollowRules ==
    /\ query \subseteq router.rules
    /\ router.queue \subseteq router.rules
    /\ \A l \in Current : l.host \in router.rules

\* A host waits or is looked up, but not both.
QueuedOnce == \A l \in Current : l.host \notin router.queue

\* The allow-list of al holds what the client gave and what the router r has added; a router
\* that knows of no kill switch has added nothing.
Accounted(r, al) == al \subseteq given \cup (IF r.ks THEN r.ips ELSE {})

\* With the kill switch on, the allow-list is accounted for unless it is about to be set
\* anew, and no call on its way turns the kill switch off in the router.
HolesAccounted ==
    client.ks =>
        /\ Accounted(router, allowed) \/ (ipc /= <<>> /\ Head(ipc).op = "protect")
        /\ \A i \in 1..Len(ipc) : ipc[i].op = "configureDnsSplitTunnel" => ipc[i].ks

IInv ==
    /\ TypeOK
    /\ SourcesFollowRules /\ LeasesFollowRules
    /\ NoOrphanRoute
    /\ QueuedOnce /\ PrewarmNeverStalls
    /\ HolesAccounted

-----------------------------------------------------------------------------
(* Routes and leases. *)

\* Every route of k that the service has added is in a list of r.
Listed(r, k) == \A i \in Ips : k[i] = "added" => i \in r.ips \cup r.added

\* syncDnsSplitTunnelIps() changes only the list of learned addresses, and keeps it in step
\* with the kernel and the allow-list.
LEMMA SyncStep ==
    ASSUME NEW r \in Routers, NEW k \in [Ips -> Routes], NEW al \in SUBSET Ips,
           Sync(r, k, al)
    PROVE  /\ router' \in Routers /\ kernel' \in [Ips -> Routes] /\ allowed' \subseteq Ips
           /\ router'.gw = r.gw /\ router'.ks = r.ks /\ router'.rules = r.rules
           /\ router'.leases = r.leases /\ router'.queue = r.queue
           /\ router'.pending = r.pending /\ router'.added = r.added
           /\ Listed(r, k) => Listed(router', kernel')
           /\ Accounted(r, al) => Accounted(router', allowed')
<1> DEFINE leased == UNION {r.leases[h] : h \in Hosts}
<1>1. leased \subseteq Ips
  BY DEF Routers
<1> HIDE DEF leased
<1>2. PICK new \in SUBSET (leased \ r.ips), gone \in SUBSET (r.ips \ leased) :
        /\ router' = [r EXCEPT !.ips = (@ \cup new) \ gone]
        /\ kernel' = WithoutRoutes(WithRoutes(k, new), gone)
        /\ allowed' = IF r.ks THEN (al \cup new) \ gone ELSE al
  BY DEF Sync, leased
<1>3. new \subseteq Ips /\ gone \subseteq Ips
  BY <1>1 DEF Routers
<1>4. /\ router' \in Routers
      /\ router'.gw = r.gw /\ router'.ks = r.ks /\ router'.rules = r.rules
      /\ router'.leases = r.leases /\ router'.queue = r.queue
      /\ router'.pending = r.pending /\ router'.added = r.added
      /\ router'.ips = (r.ips \cup new) \ gone
  BY <1>2, <1>3 DEF Routers
<1>5. kernel' = [i \in Ips |-> IF i \in gone THEN "none"
                               ELSE IF i \in new /\ k[i] = "none" THEN "added" ELSE k[i]]
  BY <1>2 DEF WithRoutes, WithoutRoutes
<1>6. kernel' \in [Ips -> Routes]
  BY <1>5 DEF Routes
<1>7. Listed(r, k) => Listed(router', kernel')
  BY <1>4, <1>5 DEF Listed
<1>8. allowed' \subseteq Ips
  BY <1>2, <1>3
<1>9. Accounted(r, al) => Accounted(router', allowed')
  BY <1>2, <1>4 DEF Accounted
<1> QED BY <1>4, <1>6, <1>7, <1>8, <1>9

Leased(r) == \A h \in Hosts : r.leases[h] /= {} => h \in r.rules /\ r.gw /= NoGateway

\* updateDnsSplitTunnelHostLeases() for a host of the rules.
LEMMA UpdateStep ==
    ASSUME NEW r \in Routers, kernel \in [Ips -> Routes], allowed \subseteq Ips,
           NEW h \in Hosts, NEW answers \in SUBSET Ips, h \in r.rules,
           UpdateLeases(r, h, answers)
    PROVE  /\ router' \in Routers /\ kernel' \in [Ips -> Routes] /\ allowed' \subseteq Ips
           /\ router'.ks = r.ks /\ router'.rules = r.rules /\ router'.queue = r.queue
           /\ router'.pending = r.pending
           /\ Leased(r) => Leased(router')
           /\ Listed(r, kernel) => Listed(router', kernel')
           /\ Accounted(r, allowed) => Accounted(router', allowed')
<1>1. CASE r.gw = NoGateway \/ answers = {}
  BY <1>1 DEF UpdateLeases, Accounted
<1>2. CASE ~(r.gw = NoGateway \/ answers = {})
  <2> DEFINE s == [r EXCEPT !.leases[h] = @ \cup answers, !.cache[h] = @ \cup answers]
  <2>1. /\ s \in Routers /\ s.ks = r.ks /\ s.rules = r.rules /\ s.queue = r.queue
        /\ s.pending = r.pending /\ s.gw = r.gw /\ s.ips = r.ips /\ s.added = r.added
        /\ \A g \in Hosts : g /= h => s.leases[g] = r.leases[g]
    BY DEF Routers
  <2>2. Sync(s, kernel, allowed)
    BY <1>2 DEF UpdateLeases
  <2> HIDE DEF s
  <2>3. Leased(r) => Leased(s)
    BY <1>2, <2>1 DEF Leased
  <2>4. Listed(r, kernel) => Listed(s, kernel)
    BY <2>1 DEF Listed
  <2>5. Accounted(r, allowed) => Accounted(s, allowed)
    BY <2>1 DEF Accounted
  <2> QED BY <2>1, <2>2, <2>3, <2>4, <2>5, SyncStep DEF Leased
<1> QED BY <1>1, <1>2

-----------------------------------------------------------------------------
(* The pump. *)

LEMMA StartedFields ==
    ASSUME NEW hs \in SUBSET Hosts
    PROVE  /\ \A h \in hs : [host |-> h, current |-> TRUE] \in Started(hs)
           /\ \A l \in Started(hs) : /\ l.host \in hs /\ l.current
                                     /\ l = [host |-> l.host, current |-> TRUE]
           /\ Started(hs) \subseteq Lookups
<1>1. ASSUME NEW h \in hs
      PROVE  [host |-> h, current |-> TRUE] \in Started(hs)
  BY DEF Started
<1>2. ASSUME NEW l \in Started(hs)
      PROVE  /\ l.host \in hs /\ l.current /\ l \in Lookups
             /\ l = [host |-> l.host, current |-> TRUE]
  <2>1. l.host \in hs /\ l.current = TRUE /\ l = [host |-> l.host, current |-> l.current]
    BY DEF Started
  <2>2. l.host \in Hosts /\ l.current \in BOOLEAN
    BY <2>1
  <2>3. l \in Lookups
    BY <2>1, <2>2 DEF Lookups
  <2> QED BY <2>1, <2>3
<1> QED BY <1>1, <1>2

\* One lookup per host.
LEMMA StartedCardinality ==
    ASSUME NEW hs \in SUBSET Hosts
    PROVE  /\ IsFiniteSet(hs) /\ Cardinality(hs) \in Nat
           /\ IsFiniteSet(Started(hs)) /\ Cardinality(Started(hs)) = Cardinality(hs)
<1>1. IsFiniteSet(hs) /\ Cardinality(hs) \in Nat
  BY SitesAssumption, FS_Subset, FS_CardinalityType
<1> DEFINE f == [h \in hs |-> [host |-> h, current |-> TRUE]]
           T == Started(hs)
<1>2. f \in [hs -> T]
  BY StartedFields
<1>3. \A a, b \in hs : f[a] = f[b] => a = b
  OBVIOUS
<1>4. \A t \in T : \E h \in hs : f[h] = t
  BY StartedFields
<1> HIDE DEF f, T
<1>5. f \in Bijection(hs, T)
  BY <1>2, <1>3, <1>4 DEF Bijection, Injection, Surjection, IsInjective
<1>6. ExistsBijection(hs, T)
  BY <1>5 DEF ExistsBijection
<1>7. IsFiniteSet(T) /\ Cardinality(T) = Cardinality(hs)
  BY <1>1, <1>6, FS_Bijection
<1> QED BY <1>1, <1>7 DEF T

\* The current lookups cur are counted, and their hosts do not wait.
Counted(r, cur) ==
    /\ cur \subseteq Started(Hosts)
    /\ r.pending = Cardinality(cur)
    /\ \A l \in cur : l.host \notin r.queue

\* pumpDnsSplitTunnelPrewarm() keeps the count, and leaves hosts waiting only at the limit.
LEMMA PumpStep ==
    ASSUME NEW r \in Routers, NEW cur, Counted(r, cur), NEW hs \in SUBSET Hosts, CanTake(r, hs)
    PROVE  LET t == Taken(r, hs)
           IN /\ t \in Routers
              /\ t = [r EXCEPT !.queue = t.queue, !.pending = t.pending]
              /\ hs \subseteq r.queue /\ t.queue \subseteq r.queue
              /\ Counted(t, cur \cup Started(hs))
              /\ t.queue /= {} => t.pending = Concurrency
<1> DEFINE t == Taken(r, hs)
<1>1. IsFiniteSet(Started(hs)) /\ Cardinality(Started(hs)) = Cardinality(hs)
      /\ Cardinality(hs) \in Nat
  BY StartedCardinality
<1>2. IsFiniteSet(cur) /\ Cardinality(cur) \in Nat
  BY StartedCardinality, FS_Subset, FS_CardinalityType DEF Counted
<1>3. hs \subseteq r.queue
  BY DEF CanTake
<1>4. cur \cap Started(hs) = {}
  BY <1>3, StartedFields DEF Counted
<1>5. Cardinality(cur \cup Started(hs)) = Cardinality(cur) + Cardinality(hs)
  <2>1. Cardinality(cur \cup Started(hs))
          = Cardinality(cur) + Cardinality(Started(hs)) - Cardinality(cur \cap Started(hs))
    BY <1>1, <1>2, FS_Union
  <2>2. Cardinality(cur \cap Started(hs)) = 0
    BY <1>4, FS_EmptySet
  <2> QED BY <1>1, <1>2, <2>1, <2>2
<1>6. r.pending \in Nat /\ r.pending + Cardinality(hs) <= Concurrency
  BY <1>1, SitesAssumption DEF CanTake, Routers
<1>7. /\ t \in Routers /\ t.queue = r.queue \ hs /\ t.pending = r.pending + Cardinality(hs)
      /\ t = [r EXCEPT !.queue = t.queue, !.pending = t.pending]
  <2> DEFINE n == r.pending + Cardinality(hs)
  <2>1. n \in 0..Concurrency
    BY <1>1, <1>6, SitesAssumption
  <2>2. t = [r EXCEPT !.queue = r.queue \ hs, !.pending = n]
    BY DEF Taken, Routers
  <2> HIDE DEF n, t
  <2>3. t \in Routers /\ t.queue = r.queue \ hs /\ t.pending = n
    BY <2>1, <2>2 DEF Routers
  <2> QED BY <2>2, <2>3 DEF n
<1>8. \A l \in cur \cup Started(hs) : l.host \notin t.queue
  BY <1>7, StartedFields DEF Counted
<1>9. cur \cup Started(hs) \subseteq Started(Hosts)
  BY DEF Counted, Started
<1>10. Counted(t, cur \cup Started(hs))
  BY <1>5, <1>7, <1>8, <1>9 DEF Counted
<1>11. t.queue /= {} => t.pending = Concurrency
  <2> SUFFICES ASSUME t.queue /= {}
               PROVE  r.pending + Cardinality(hs) = Concurrency
    BY <1>7
  <2>1. hs /= r.queue
    BY <1>7
  <2> QED BY <2>1 DEF CanTake
<1> QED BY <1>3, <1>7, <1>10, <1>11

\* The current lookups, as records.
LEMMA CurrentType ==
    ASSUME lookups \subseteq Lookups
    PROVE  Current \subseteq Started(Hosts)
BY DEF Current, Lookups, Started

-----------------------------------------------------------------------------
(* Answers and lookups. *)

\* The parts of the invariant, in the form the lemmas above use.
LEMMA Parts ==
    /\ LeasesFollowRules <=> Leased(router)
    /\ NoOrphanRoute <=> Listed(router, kernel)
    /\ lookups \subseteq Lookups =>
         (QueuedOnce /\ PrewarmNeverStalls <=>
            Counted(router, Current) /\ (router.queue /= {} => router.pending = Concurrency))
<1>1. LeasesFollowRules <=> Leased(router)
  BY DEF LeasesFollowRules, Leased
<1>2. NoOrphanRoute <=> Listed(router, kernel)
  BY DEF NoOrphanRoute, Listed
<1>3. lookups \subseteq Lookups =>
         (QueuedOnce /\ PrewarmNeverStalls <=>
            Counted(router, Current) /\ (router.queue /= {} => router.pending = Concurrency))
  BY CurrentType DEF QueuedOnce, PrewarmNeverStalls, Counted, Current
<1> QED BY <1>1, <1>2, <1>3

\* A step of the router under the same rules, after which the current lookups are cur.
LEMMA RouterStep ==
    ASSUME IInv, UNCHANGED <<client, ipc, protection, given>>,
           query' \subseteq query, lookups' \subseteq Lookups,
           router' \in Routers, kernel' \in [Ips -> Routes], allowed' \subseteq Ips,
           router'.rules = router.rules, router'.queue \subseteq router.queue,
           \A l \in Current' : l.host \in router.rules,
           Counted(router', Current'),
           router'.queue /= {} => router'.pending = Concurrency,
           Leased(router'), Listed(router', kernel'),
           Accounted(router, allowed) => Accounted(router', allowed')
    PROVE  IInv'
<1>1. TypeOK'
  BY DEF IInv, TypeOK
<1>2. SourcesFollowRules'
  BY DEF IInv, SourcesFollowRules
<1>3. LeasesFollowRules' /\ NoOrphanRoute'
  BY DEF LeasesFollowRules, Leased, NoOrphanRoute, Listed
<1>4. QueuedOnce' /\ PrewarmNeverStalls'
  BY DEF QueuedOnce, PrewarmNeverStalls, Counted, Current
<1>5. HolesAccounted'
  BY DEF IInv, HolesAccounted, Accounted
<1> QED BY <1>1, <1>2, <1>3, <1>4, <1>5 DEF IInv

LEMMA FinishStep ==
    ASSUME IInv, FinishPrewarm
    PROVE  IInv'
<1>1. /\ router \in Routers /\ kernel \in [Ips -> Routes] /\ allowed \subseteq Ips
      /\ lookups \subseteq Lookups /\ Leased(router) /\ Listed(router, kernel)
      /\ Counted(router, Current) /\ (router.queue /= {} => router.pending = Concurrency)
  BY Parts DEF IInv, TypeOK
<1>2. /\ UNCHANGED <<client, ipc, protection, given>> /\ query' = query
  BY DEF FinishPrewarm
<1>3. PICK l \in lookups, answers \in SUBSET Ips :
        IF l.current
        THEN \E hs \in SUBSET Hosts :
              LET r == [router EXCEPT !.pending = @ - 1]
              IN /\ CanTake(r, hs)
                 /\ lookups' = (lookups \ {l}) \cup Started(hs)
                 /\ UpdateLeases(Taken(r, hs), l.host, answers)
        ELSE /\ lookups' = lookups \ {l}
             /\ UNCHANGED <<router, kernel, allowed>>
  BY DEF FinishPrewarm
<1>4. CASE ~l.current
  <2>1. lookups' = lookups \ {l} /\ UNCHANGED <<router, kernel, allowed>>
    BY <1>3, <1>4
  <2>2. Current' = Current
    BY <1>4, <2>1 DEF Current
  <2>3. \A m \in Current' : m.host \in router.rules
    BY <2>2 DEF IInv, SourcesFollowRules
  <2> QED BY <1>1, <1>2, <2>1, <2>2, <2>3, RouterStep
<1>5. CASE l.current
  <2> DEFINE r == [router EXCEPT !.pending = @ - 1]
             cur == Current \ {l}
  <2>1. PICK hs \in SUBSET Hosts :
          /\ CanTake(r, hs)
          /\ lookups' = (lookups \ {l}) \cup Started(hs)
          /\ UpdateLeases(Taken(r, hs), l.host, answers)
    BY <1>3, <1>5
  <2>2. l \in Current /\ l.host \in Hosts /\ l.host \in router.rules
    BY <1>1, <1>5 DEF Current, Lookups, IInv, SourcesFollowRules
  <2>3. IsFiniteSet(Current) /\ Cardinality(Current) \in Nat
    BY <1>1, StartedCardinality, FS_Subset, FS_CardinalityType DEF Counted
  <2>4. Cardinality(cur) = Cardinality(Current) - 1 /\ Cardinality(cur) \in Nat
    BY <2>2, <2>3, FS_RemoveElement, FS_CardinalityType
  <2>5. router.pending = Cardinality(Current) /\ router.pending \in 0..Concurrency
    BY <1>1 DEF Counted, Routers
  <2>6. router.pending - 1 \in 0..Concurrency
    BY <2>4, <2>5, SitesAssumption
  <2>7. r \in Routers /\ r.pending = router.pending - 1 /\ r.queue = router.queue
        /\ r.rules = router.rules /\ r.gw = router.gw /\ r.leases = router.leases
        /\ r.ks = router.ks /\ r.ips = router.ips /\ r.added = router.added
    BY <1>1, <2>6 DEF Routers
  <2>8. Counted(r, cur)
    BY <1>1, <2>4, <2>5, <2>7 DEF Counted
  <2> DEFINE t == Taken(r, hs)
  <2> HIDE DEF r, cur
  <2>9. /\ t \in Routers
        /\ t = [r EXCEPT !.queue = t.queue, !.pending = t.pending]
        /\ hs \subseteq r.queue /\ t.queue \subseteq r.queue
        /\ Counted(t, cur \cup Started(hs))
        /\ t.queue /= {} => t.pending = Concurrency
    BY <2>1, <2>7, <2>8, PumpStep
  <2> HIDE DEF t
  <2>10. /\ t.rules = r.rules /\ t.gw = r.gw /\ t.leases = r.leases
         /\ t.ks = r.ks /\ t.ips = r.ips /\ t.added = r.added
    BY <2>7, <2>9 DEF Routers
  <2>11. Leased(t) /\ Listed(t, kernel) /\ (Accounted(router, allowed) => Accounted(t, allowed))
    BY <1>1, <2>7, <2>10 DEF Leased, Listed, Accounted
  <2>12. UpdateLeases(t, l.host, answers) /\ l.host \in t.rules
    BY <2>1, <2>2, <2>7, <2>10 DEF t
  <2>13. /\ router' \in Routers /\ kernel' \in [Ips -> Routes] /\ allowed' \subseteq Ips
         /\ router'.ks = t.ks /\ router'.rules = t.rules /\ router'.queue = t.queue
         /\ router'.pending = t.pending
         /\ Leased(router') /\ Listed(router', kernel')
         /\ Accounted(t, allowed) => Accounted(router', allowed')
    BY <1>1, <2>2, <2>9, <2>11, <2>12, UpdateStep
  <2>14. Current' = cur \cup Started(hs)
    BY <2>1, StartedFields DEF Current, cur
  <2>15. lookups' \subseteq Lookups
    BY <1>1, <2>1, StartedFields
  <2>16. \A m \in Current' : m.host \in router.rules
    BY <2>7, <2>9, <2>14, StartedFields DEF cur, IInv, SourcesFollowRules
  <2>17. Counted(router', Current')
    BY <2>9, <2>13, <2>14 DEF Counted
  <2>18. router'.rules = router.rules /\ router'.queue \subseteq router.queue
    BY <2>7, <2>9, <2>10, <2>13
  <2> QED BY <1>2, <2>9, <2>11, <2>13, <2>15, <2>16, <2>17, <2>18, RouterStep
<1> QED BY <1>4, <1>5

LEMMA AnswerStep ==
    ASSUME IInv, Answer
    PROVE  IInv'
<1>1. /\ router \in Routers /\ kernel \in [Ips -> Routes] /\ allowed \subseteq Ips
      /\ lookups \subseteq Lookups /\ Leased(router) /\ Listed(router, kernel)
      /\ Counted(router, Current) /\ (router.queue /= {} => router.pending = Concurrency)
  BY Parts DEF IInv, TypeOK
<1>2. PICK h \in query, answers \in SUBSET Ips :
        query' = query \ {h} /\ UpdateLeases(router, h, answers)
  BY DEF Answer
<1>3. h \in Hosts /\ h \in router.rules
  BY DEF IInv, TypeOK, SourcesFollowRules
<1>4. /\ router' \in Routers /\ kernel' \in [Ips -> Routes] /\ allowed' \subseteq Ips
      /\ router'.ks = router.ks /\ router'.rules = router.rules /\ router'.queue = router.queue
      /\ router'.pending = router.pending
      /\ Leased(router') /\ Listed(router', kernel')
      /\ Accounted(router, allowed) => Accounted(router', allowed')
  BY <1>1, <1>2, <1>3, UpdateStep
<1>5. UNCHANGED <<client, ipc, protection, given>> /\ lookups' = lookups /\ Current' = Current
  BY DEF Answer, Current
<1>6. Counted(router', Current')
  BY <1>1, <1>4, <1>5 DEF Counted
<1>7. \A m \in Current' : m.host \in router.rules
  BY <1>5 DEF IInv, SourcesFollowRules
<1> QED BY <1>1, <1>2, <1>4, <1>5, <1>6, <1>7, RouterStep

LEMMA QueryStep ==
    ASSUME IInv, Query
    PROVE  IInv'
<1>1. query' \subseteq router.rules /\ query' \subseteq Hosts
  BY DEF Query, IInv, TypeOK, SourcesFollowRules, Routers
<1>2. UNCHANGED <<client, ipc, router, lookups, protection, allowed, kernel, given>>
  BY DEF Query
<1>3. TypeOK' /\ SourcesFollowRules'
  BY <1>1, <1>2 DEF IInv, TypeOK, SourcesFollowRules, Current
<1>4. LeasesFollowRules' /\ NoOrphanRoute' /\ QueuedOnce' /\ PrewarmNeverStalls'
  BY <1>2 DEF IInv, LeasesFollowRules, NoOrphanRoute, QueuedOnce, PrewarmNeverStalls, Current
<1>5. HolesAccounted'
  BY <1>2 DEF IInv, HolesAccounted, Accounted
<1> QED BY <1>3, <1>4, <1>5 DEF IInv

-----------------------------------------------------------------------------
(* The service serves a call. *)

\* The calls in the queue after the first one is taken.
LEMMA QueueTail ==
    ASSUME IInv, ipc /= <<>>, ipc' = Tail(ipc)
    PROVE  /\ Head(ipc) \in Calls /\ ipc' \in Seq(Calls)
           /\ client.ks /\ Head(ipc).op = "configureDnsSplitTunnel" => Head(ipc).ks
           /\ client.ks => \A i \in 1..Len(ipc') :
                             ipc'[i].op = "configureDnsSplitTunnel" => ipc'[i].ks
<1>1. ipc \in Seq(Calls) /\ Len(ipc) \in Nat /\ Len(ipc) > 0
  BY DEF IInv, TypeOK
<1>2. /\ ipc' \in Seq(Calls) /\ Len(ipc') = Len(ipc) - 1
      /\ \A i \in 1..Len(ipc') : ipc'[i] = ipc[i + 1]
  BY <1>1
<1>3. Head(ipc) = ipc[1] /\ ipc[1] \in Calls
  BY <1>1
<1> QED BY <1>1, <1>2, <1>3 DEF IInv, HolesAccounted

\* Once a call is served, the allow-list is accounted for if the client has a kill switch.
LEMMA ServedHoles ==
    ASSUME IInv, ipc /= <<>>, ipc' = Tail(ipc), UNCHANGED client,
           client.ks => Accounted(router, allowed)'
    PROVE  HolesAccounted'
BY QueueTail DEF HolesAccounted

\* It was before, unless the call sets it anew.
LEMMA HoldsBefore ==
    ASSUME IInv, ipc /= <<>>, Head(ipc).op /= "protect", client.ks
    PROVE  Accounted(router, allowed)
BY DEF IInv, HolesAccounted

LEMMA ConfigureCall ==
    ASSUME NEW c \in Calls, c.op = "configureDnsSplitTunnel"
    PROVE  c.rules \in SUBSET Hosts /\ c.gw \in Gateways \cup {NoGateway} /\ c.ks \in BOOLEAN
BY DEF Calls

\* seedDnsSplitTunnelLeasesFromCache() leases only to hosts of the rules.
LEMMA SeededStep ==
    ASSUME NEW r \in Routers, Leased(r)
    PROVE  LET s == Seeded(r)
           IN /\ s \in Routers /\ Leased(s) /\ s.gw = r.gw /\ s.ks = r.ks /\ s.rules = r.rules
              /\ s.ips = r.ips /\ s.added = r.added
<1>1. CASE r.gw = NoGateway
  BY <1>1 DEF Seeded
<1>2. CASE r.gw /= NoGateway
  <2> DEFINE f == [h \in Hosts |-> IF h \in r.rules /\ r.cache[h] /= {}
                                   THEN r.cache[h] ELSE r.leases[h]]
             s == [r EXCEPT !.leases = f]
  <2>1. f \in [Hosts -> SUBSET Ips]
    BY DEF Routers
  <2>2. \A h \in Hosts : f[h] /= {} => h \in r.rules \/ r.leases[h] /= {}
    OBVIOUS
  <2>3. Seeded(r) = s
    BY <1>2 DEF Seeded, Routers
  <2> HIDE DEF f
  <2>4. s \in Routers /\ s.leases = f /\ s.gw = r.gw /\ s.ks = r.ks /\ s.rules = r.rules
        /\ s.ips = r.ips /\ s.added = r.added
    BY <2>1 DEF Routers
  <2> HIDE DEF s
  <2>5. Leased(s)
    BY <1>2, <2>2, <2>4 DEF Leased
  <2> QED BY <2>3, <2>4, <2>5
<1> QED BY <1>1, <1>2

\* A new generation: nothing is under way, and the hosts of the rules wait.
LEMMA GenerationStep ==
    ASSUME NEW r \in Routers, Leased(r)
    PROVE  LET s == NewGeneration(r)
           IN /\ s \in Routers /\ Leased(s) /\ s.gw = r.gw /\ s.ks = r.ks /\ s.rules = r.rules
              /\ s.ips = r.ips /\ s.added = r.added
              /\ s.queue \subseteq s.rules /\ Counted(s, {})
<1> DEFINE q == IF r.gw = NoGateway THEN {} ELSE r.rules
           s == [r EXCEPT !.queue = q, !.pending = 0]
<1>1. q \in SUBSET Hosts /\ q \subseteq r.rules /\ 0 \in 0..Concurrency
  BY SitesAssumption DEF Routers
<1>2. NewGeneration(r) = s
  BY DEF NewGeneration
<1> HIDE DEF q
<1>3. /\ s \in Routers /\ s.gw = r.gw /\ s.ks = r.ks /\ s.rules = r.rules /\ s.leases = r.leases
      /\ s.ips = r.ips /\ s.added = r.added /\ s.queue = q /\ s.pending = 0
  BY <1>1 DEF Routers
<1> HIDE DEF s
<1>4. Leased(s)
  BY <1>3 DEF Leased
<1>5. Counted(s, {})
  BY <1>3, FS_EmptySet DEF Counted
<1> QED BY <1>1, <1>2, <1>3, <1>4, <1>5

\* A clear leaves nothing marked as the running service's, whichever deletions are refused.
LEMMA ClearedRoutes ==
    ASSUME kernel \in [Ips -> Routes], NEW ips, NEW refused \in SUBSET ips,
           NEW k, k = Cleared(kernel, ips, refused)
    PROVE  /\ k \in [Ips -> Routes]
           /\ \A i \in Ips : k[i] = "added" => kernel[i] = "added" /\ i \notin ips
<1>1. \A i \in Ips : /\ k[i] \in Routes
                     /\ k[i] = "added" => kernel[i] = "added" /\ i \notin ips
  BY DEF Cleared, WithoutRoutes, Routes
<1> QED BY <1>1 DEF Cleared

\* configureDnsSplitTunnel(): whatever is cleared and seeded, the result is in step.
LEMMA ConfigureStep ==
    ASSUME IInv, ipc /= <<>>, ipc' = Tail(ipc), UNCHANGED client,
           NEW c, c = Head(ipc), c.op = "configureDnsSplitTunnel", ConfigureDnsSplitTunnel(c)
    PROVE  IInv'
<1>1. /\ router \in Routers /\ kernel \in [Ips -> Routes] /\ allowed \subseteq Ips
      /\ lookups \subseteq Lookups /\ Leased(router) /\ Listed(router, kernel)
  BY Parts DEF IInv, TypeOK
<1>2. /\ c \in Calls /\ ipc' \in Seq(Calls) /\ (client.ks => c.ks)
      /\ c.rules \in SUBSET Hosts /\ c.gw \in Gateways \cup {NoGateway} /\ c.ks \in BOOLEAN
  BY QueueTail, ConfigureCall
<1> DEFINE clear == router.gw /= c.gw \/ router.rules /= c.rules \/ c.rules = {}
           old   == IF clear THEN router.ips ELSE {}
           ls    == IF clear THEN NewRouter.leases ELSE router.leases
           r1    == [router EXCEPT !.gw = c.gw, !.ks = c.ks, !.rules = c.rules,
                                   !.ips = @ \ old,
                                   !.leases = IF clear THEN NewRouter.leases ELSE @]
           r2    == NewGeneration(Seeded(r1))
           al    == Withdrawn(old)
<1>3. PICK hs \in SUBSET Hosts, refused \in SUBSET old :
        /\ query' = {}
        /\ CanTake(r2, hs)
        /\ lookups' = Stale(lookups) \cup Started(hs)
        /\ Sync(Taken(r2, hs), Cleared(kernel, old, refused), al)
        /\ UNCHANGED <<protection, given>>
  BY DEF ConfigureDnsSplitTunnel
<1> DEFINE k == Cleared(kernel, old, refused)
<1>4. ls \in [Hosts -> SUBSET Ips] /\ old \subseteq router.ips /\ router.ips \subseteq Ips
  BY <1>1 DEF Routers, NewRouter
<1>5. \A h \in Hosts : ls[h] /= {} => h \in c.rules /\ c.gw /= NoGateway
  BY <1>1 DEF Leased, NewRouter
<1>6. r1 = [router EXCEPT !.gw = c.gw, !.ks = c.ks, !.rules = c.rules,
                          !.ips = router.ips \ old, !.leases = ls]
  BY <1>1 DEF Routers
<1>7. k \in [Ips -> Routes] /\ \A i \in Ips : k[i] = "added" => kernel[i] = "added" /\ i \notin old
  BY <1>1, <1>3, ClearedRoutes
<1>8. al = IF router.ks THEN allowed \ old ELSE allowed
  BY DEF Withdrawn
<1> HIDE DEF ls, old, r1, k, al, clear
<1>9. /\ r1 \in Routers /\ r1.gw = c.gw /\ r1.ks = c.ks /\ r1.rules = c.rules
      /\ r1.ips = router.ips \ old /\ r1.added = router.added /\ r1.leases = ls
  BY <1>1, <1>2, <1>4, <1>6 DEF Routers
<1>10. Leased(r1)
  BY <1>5, <1>9 DEF Leased
<1>11. /\ r2 \in Routers /\ Leased(r2) /\ r2.ks = c.ks /\ r2.rules = c.rules
       /\ r2.ips = router.ips \ old /\ r2.added = router.added
       /\ r2.queue \subseteq r2.rules /\ Counted(r2, {})
  BY <1>9, <1>10, SeededStep, GenerationStep
<1> DEFINE t == Taken(r2, hs)
<1> HIDE DEF r2
<1>12. /\ t \in Routers /\ t = [r2 EXCEPT !.queue = t.queue, !.pending = t.pending]
       /\ hs \subseteq r2.queue /\ t.queue \subseteq r2.queue
       /\ Counted(t, {} \cup Started(hs))
       /\ t.queue /= {} => t.pending = Concurrency
  BY <1>3, <1>11, PumpStep
<1> HIDE DEF t
<1>13. /\ t.rules = c.rules /\ t.ks = c.ks /\ t.gw = r2.gw /\ t.leases = r2.leases
       /\ t.ips = router.ips \ old /\ t.added = router.added
  BY <1>11, <1>12 DEF Routers
<1>14. Leased(t) /\ Listed(t, k)
  BY <1>1, <1>7, <1>11, <1>13 DEF Leased, Listed
<1>15. al \in SUBSET Ips
  BY <1>1, <1>8
<1>16. /\ router' \in Routers /\ kernel' \in [Ips -> Routes] /\ allowed' \subseteq Ips
       /\ router'.gw = t.gw /\ router'.rules = t.rules
       /\ router'.leases = t.leases /\ router'.queue = t.queue /\ router'.pending = t.pending
       /\ Listed(router', kernel')
       /\ Accounted(t, al) => Accounted(router', allowed')
  <2>1. Sync(t, k, al)
    BY <1>3 DEF t, k
  <2> QED BY <1>7, <1>12, <1>14, <1>15, <2>1, SyncStep
<1>17. Stale(lookups) \subseteq Lookups /\ \A l \in Stale(lookups) : ~l.current
  BY <1>1 DEF Stale, Lookups
<1>18. lookups' \subseteq Lookups /\ Current' = Started(hs)
  BY <1>3, <1>17, StartedFields DEF Current
<1>19. TypeOK'
  BY <1>2, <1>3, <1>16, <1>18 DEF IInv, TypeOK
<1>20. SourcesFollowRules'
  BY <1>3, <1>11, <1>12, <1>13, <1>16, <1>18, StartedFields DEF SourcesFollowRules
<1>21. LeasesFollowRules' /\ NoOrphanRoute'
  BY <1>14, <1>16 DEF LeasesFollowRules, Leased, NoOrphanRoute, Listed
<1>22. QueuedOnce' /\ PrewarmNeverStalls'
  BY <1>12, <1>16, <1>18 DEF QueuedOnce, PrewarmNeverStalls, Counted, Current
<1>23. client.ks => Accounted(router, allowed)'
  <2> SUFFICES ASSUME client.ks
               PROVE  Accounted(router', allowed') /\ given' = given
    BY DEF Accounted
  <2>1. Accounted(router, allowed)
    BY HoldsBefore
  <2>2. Accounted(t, al)
    BY <1>2, <1>4, <1>8, <1>13, <2>1 DEF Accounted
  <2> QED BY <1>3, <1>16, <2>2
<1>24. HolesAccounted'
  BY <1>23, ServedHoles
<1> QED BY <1>19, <1>20, <1>21, <1>22, <1>24 DEF IInv

LEMMA RouteCall ==
    ASSUME NEW c \in Calls,
           c.op \in {"protect", "enableKillSwitch", "addKillSwitchAllowedRange", "routeAddList"}
    PROVE  c.ips \subseteq Ips
BY DEF Calls

\* routeAddList() and clearSavedRoutes(), which change only routes and the list of them.
LEMMA SavedRouteStep ==
    ASSUME IInv, ipc /= <<>>, ipc' = Tail(ipc), Head(ipc).op /= "protect",
           UNCHANGED <<client, query, lookups, protection, allowed, given>>,
           NEW as \in SUBSET Ips, router' = [router EXCEPT !.added = as],
           kernel' \in [Ips -> Routes],
           \A i \in Ips : kernel'[i] = "added" => i \in router.ips \cup as
    PROVE  IInv'
<1>1. router \in Routers
  BY DEF IInv, TypeOK
<1>2. /\ router' \in Routers /\ router'.added = as
      /\ router'.gw = router.gw /\ router'.ks = router.ks /\ router'.rules = router.rules
      /\ router'.leases = router.leases /\ router'.ips = router.ips
      /\ router'.queue = router.queue /\ router'.pending = router.pending
  BY <1>1 DEF Routers
<1>3. TypeOK'
  BY <1>2, QueueTail DEF IInv, TypeOK
<1>4. SourcesFollowRules' /\ LeasesFollowRules'
  BY <1>2 DEF IInv, SourcesFollowRules, LeasesFollowRules, Current
<1>5. NoOrphanRoute'
  BY <1>2 DEF NoOrphanRoute
<1>6. QueuedOnce' /\ PrewarmNeverStalls'
  BY <1>2 DEF IInv, QueuedOnce, PrewarmNeverStalls, Current
<1>7. client.ks => Accounted(router, allowed)'
  BY <1>2, HoldsBefore DEF Accounted
<1> QED BY <1>3, <1>4, <1>5, <1>6, <1>7, ServedHoles DEF IInv

\* The calls of the kill switch, which change only the allow-list.
LEMMA AllowStep ==
    ASSUME IInv, ipc /= <<>>, ipc' = Tail(ipc),
           UNCHANGED <<client, router, query, lookups, kernel>>,
           protection' \in BOOLEAN, allowed' \subseteq Ips, given' \subseteq Ips,
           client.ks => Accounted(router, allowed)'
    PROVE  IInv'
<1>1. TypeOK'
  BY QueueTail DEF IInv, TypeOK
<1>2. SourcesFollowRules' /\ LeasesFollowRules' /\ NoOrphanRoute'
      /\ QueuedOnce' /\ PrewarmNeverStalls'
  BY DEF IInv, SourcesFollowRules, LeasesFollowRules, NoOrphanRoute, QueuedOnce,
         PrewarmNeverStalls, Current
<1> QED BY <1>1, <1>2, ServedHoles DEF IInv

LEMMA ServeStep ==
    ASSUME IInv, Serve
    PROVE  IInv'
<1> DEFINE c == Head(ipc)
<1>1. ipc /= <<>> /\ ipc' = Tail(ipc) /\ UNCHANGED client
  BY DEF Serve
<1>2. c \in Calls
  BY <1>1, QueueTail
<1>3. /\ router \in Routers /\ kernel \in [Ips -> Routes] /\ allowed \subseteq Ips
      /\ given \subseteq Ips /\ protection \in BOOLEAN /\ Listed(router, kernel)
  BY Parts DEF IInv, TypeOK
<1>4. CASE c.op = "configureDnsSplitTunnel" /\ ConfigureDnsSplitTunnel(c)
  BY <1>1, <1>4, ConfigureStep
<1>5. CASE c.op = "routeAddList" /\ RouteAddList(c)
  <2>1. PICK ok \in SUBSET c.ips :
          kernel' = WithRoutes(kernel, ok) /\ router' = [router EXCEPT !.added = @ \cup ok]
    BY <1>5 DEF RouteAddList
  <2>2. ok \subseteq Ips
    BY <1>2, <1>5, RouteCall
  <2>3. kernel' \in [Ips -> Routes]
        /\ \A i \in Ips : kernel'[i] = "added" => kernel[i] = "added" \/ i \in ok
    BY <1>3, <2>1 DEF WithRoutes, Routes
  <2> DEFINE as == router.added \cup ok
  <2>4. as \in SUBSET Ips /\ router' = [router EXCEPT !.added = as]
    BY <1>3, <2>1, <2>2 DEF Routers
  <2>5. \A i \in Ips : kernel'[i] = "added" => i \in router.ips \cup as
    BY <1>3, <2>3 DEF Listed
  <2>6. UNCHANGED <<query, lookups, protection, allowed, given>>
    BY <1>5 DEF RouteAddList
  <2> HIDE DEF as
  <2> QED BY <1>1, <1>5, <2>3, <2>4, <2>5, <2>6, SavedRouteStep
<1>6. CASE c.op = "clearSavedRoutes" /\ ClearSavedRoutes
  <2>1. kernel' \in [Ips -> Routes]
        /\ \A i \in Ips : kernel'[i] = "added" => kernel[i] = "added" /\ i \notin router.added
    BY <1>3, <1>6, ClearedRoutes DEF ClearSavedRoutes
  <2> DEFINE as == {}
  <2>2. as \in SUBSET Ips /\ \A i \in Ips : kernel'[i] = "added" => i \in router.ips \cup as
    BY <1>3, <2>1 DEF Listed
  <2>3. UNCHANGED <<query, lookups, protection, allowed, given>>
        /\ router' = [router EXCEPT !.added = as]
    BY <1>6 DEF ClearSavedRoutes
  <2> HIDE DEF as
  <2> QED BY <1>1, <1>6, <2>1, <2>2, <2>3, SavedRouteStep
<1>7. CASE c.op \in {"protect", "enableKillSwitch"} /\ EnableKillSwitch(c)
  <2>1. c.ips \subseteq Ips
    BY <1>2, <1>7, RouteCall
  <2>2. UNCHANGED <<router, query, lookups, kernel>> /\ allowed' = c.ips /\ given' = c.ips
        /\ protection' \in BOOLEAN
    BY <1>3, <1>7 DEF EnableKillSwitch
  <2>3. Accounted(router, allowed)'
    BY <2>2 DEF Accounted
  <2> QED BY <1>1, <2>1, <2>2, <2>3, AllowStep
<1>8. CASE c.op = "addKillSwitchAllowedRange" /\ AddAllowedRange(c)
  <2>1. c.ips \subseteq Ips
    BY <1>2, <1>8, RouteCall
  <2>2. UNCHANGED <<router, query, lookups, protection, kernel>>
        /\ allowed' = allowed \cup c.ips /\ given' = given \cup c.ips
    BY <1>8 DEF AddAllowedRange
  <2>3. client.ks => Accounted(router, allowed)'
    BY <1>1, <1>8, <2>2, HoldsBefore DEF Accounted
  <2> QED BY <1>1, <1>3, <2>1, <2>2, <2>3, AllowStep
<1>9. CASE c.op \in {"release", "disableKillSwitch"} /\ DisableKillSwitch(c)
  <2>1. UNCHANGED <<router, query, lookups, kernel>> /\ protection' \in BOOLEAN
        /\ (UNCHANGED <<allowed, given>> \/ (allowed' = {} /\ given' = {}))
    BY <1>3, <1>9 DEF DisableKillSwitch
  <2>2. client.ks => Accounted(router, allowed)'
    BY <1>1, <1>9, <2>1, HoldsBefore DEF Accounted
  <2> QED BY <1>1, <1>3, <2>1, <2>2, AllowStep
<1> QED BY <1>4, <1>5, <1>6, <1>7, <1>8, <1>9 DEF Serve

-----------------------------------------------------------------------------
(* The client and failures. *)

\* A step of the client: only its own state and its calls change.
LEMMA ClientStep ==
    ASSUME IInv, Unserved, client' \in Clients, ipc' \in Seq(Calls),
           client'.ks =>
             /\ \A i \in 1..Len(ipc') : ipc'[i].op = "configureDnsSplitTunnel" => ipc'[i].ks
             /\ (client.ks /\ ipc = <<>>) \/ (ipc' /= <<>> /\ Head(ipc').op = "protect")
    PROVE  IInv'
<1>1. TypeOK'
  BY DEF IInv, TypeOK, Unserved
<1>2. SourcesFollowRules' /\ LeasesFollowRules' /\ NoOrphanRoute'
      /\ QueuedOnce' /\ PrewarmNeverStalls'
  BY DEF IInv, SourcesFollowRules, LeasesFollowRules, NoOrphanRoute, QueuedOnce,
         PrewarmNeverStalls, Current, Unserved
<1>3. HolesAccounted'
  BY DEF IInv, HolesAccounted, Accounted, Unserved
<1> QED BY <1>1, <1>2, <1>3 DEF IInv

\* Calls that do not turn off the kill switch of the router, if ks.
KeepKs(s, ks) ==
    /\ s \in Seq(Calls)
    /\ ks => \A i \in 1..Len(s) : s[i].op = "configureDnsSplitTunnel" => s[i].ks

LEMMA KeepConcat ==
    ASSUME NEW ks, NEW a, NEW b, KeepKs(a, ks), KeepKs(b, ks)
    PROVE  KeepKs(a \o b, ks)
<1>1. /\ a \o b \in Seq(Calls) /\ Len(a \o b) = Len(a) + Len(b)
      /\ Len(a) \in Nat /\ Len(b) \in Nat
      /\ \A i \in 1..Len(a \o b) : (a \o b)[i] = IF i <= Len(a) THEN a[i] ELSE b[i - Len(a)]
  BY DEF KeepKs
<1> DEFINE s == a \o b
<1> HIDE DEF s
<1>2. ASSUME ks, NEW i \in 1..Len(s), s[i].op = "configureDnsSplitTunnel"
      PROVE  s[i].ks
  <2>1. CASE i <= Len(a)
    BY <1>1, <1>2, <2>1 DEF KeepKs, s
  <2>2. CASE ~(i <= Len(a))
    <3>1. i - Len(a) \in 1..Len(b) /\ s[i] = b[i - Len(a)]
      BY <1>1, <2>2 DEF s
    <3> QED BY <1>2, <3>1 DEF KeepKs
  <2> QED BY <2>1, <2>2
<1> QED BY <1>1, <1>2 DEF KeepKs, s

LEMMA KeepOne ==
    ASSUME NEW ks, NEW c \in Calls, ks /\ c.op = "configureDnsSplitTunnel" => c.ks
    PROVE  KeepKs(<<c>>, ks)
<1>1. <<c>> \in Seq(Calls) /\ Len(<<c>>) = 1 /\ <<c>>[1] = c
  OBVIOUS
<1> QED BY <1>1 DEF KeepKs

LEMMA KeepNone ==
    ASSUME NEW ks
    PROVE  KeepKs(<<>>, ks)
BY DEF KeepKs

LEMMA CallTypes ==
    /\ \A op \in {"release", "disableKillSwitch", "clearSavedRoutes"} :
          Call(op) \in Calls /\ Call(op).op = op
    /\ \A op \in {"protect", "enableKillSwitch", "addKillSwitchAllowedRange", "routeAddList"},
         ips \in SUBSET Ips : CallFor(op, ips) \in Calls /\ CallFor(op, ips).op = op
    /\ \A rules \in SUBSET Hosts, gw \in Gateways \cup {NoGateway}, ks \in BOOLEAN :
          Configure(rules, gw, ks) \in Calls /\ Configure(rules, gw, ks).ks = ks
BY DEF Call, CallFor, Configure, Calls

LEMMA SavedType ==
    ASSUME client' \in Clients
    PROVE  SavedSites \subseteq Ips
<1>1. client'.rules \subseteq Hosts
  BY DEF Clients
<1>2. \A h \in client'.rules : Saved[h] \subseteq Ips
  BY <1>1, SitesAssumption
<1> QED BY <1>2 DEF SavedSites, SavedIps

\* The calls about the sites, with the settings of the client.
LEMMA SitesCalls ==
    ASSUME client' \in Clients
    PROVE  KeepKs(ConfigureSites, client'.ks)
<1> DEFINE ks == client'.ks
           a == <<Configure(client'.rules, client'.gw, client'.ks)>>
           b == <<CallFor("routeAddList", SavedSites)>>
           e == <<CallFor("addKillSwitchAllowedRange", SavedSites)>>
<1>1. KeepKs(a, ks)
  <2>1. /\ Configure(client'.rules, client'.gw, client'.ks) \in Calls
        /\ Configure(client'.rules, client'.gw, client'.ks).ks = ks
    BY CallTypes DEF Clients
  <2> QED BY <2>1, KeepOne
<1>2. KeepKs(b, ks) /\ KeepKs(e, ks)
  BY SavedType, CallTypes, KeepOne
<1>3. KeepKs(IfKillSwitch(e), ks)
  BY <1>2, KeepNone DEF IfKillSwitch
<1>4. ConfigureSites = a \o IF SavedSites = {} THEN <<>> ELSE b \o IfKillSwitch(e)
  BY DEF ConfigureSites
<1> HIDE DEF ks, a, b, e
<1>5. KeepKs(b \o IfKillSwitch(e), ks)
  BY <1>2, <1>3, KeepConcat
<1>6. KeepKs(IF SavedSites = {} THEN <<>> ELSE b \o IfKillSwitch(e), ks)
  BY <1>5, KeepNone
<1>7. KeepKs(ConfigureSites, ks)
  BY <1>1, <1>4, <1>6, KeepConcat
<1> QED BY <1>7 DEF ks

\* A burst of calls when none is on its way.
LEMMA SendFirst ==
    ASSUME ipc = <<>>, NEW calls \in Seq(Calls), Send(calls)
    PROVE  ipc' = calls
BY DEF Send

LEMMA ConnectStep ==
    ASSUME IInv, Connect
    PROVE  IInv'
<1>1. client' \in Clients /\ ipc = <<>> /\ Unserved
  BY SitesAssumption DEF Connect, Clients
<1>2. CASE client'.ks
  <2> DEFINE c == CallFor("protect", SavedSites)
  <2>1. c \in Calls /\ c.op = "protect"
    BY <1>1, SavedType, CallTypes
  <2>2. Send(<<c>>)
    BY <1>2 DEF Connect
  <2> HIDE DEF c
  <2>3. <<c>> \in Seq(Calls) /\ Len(<<c>>) = 1 /\ <<c>>[1] = c /\ Head(<<c>>) = c /\ <<c>> /= <<>>
    BY <2>1
  <2>4. ipc' = <<c>>
    BY <1>1, <2>2, <2>3, SendFirst
  <2> QED BY <1>1, <2>1, <2>3, <2>4, ClientStep
<1>3. CASE ~client'.ks
  <2> DEFINE c == Call("release")
  <2>1. c \in Calls
    BY CallTypes
  <2>2. Send(<<c>>)
    BY <1>3 DEF Connect
  <2> HIDE DEF c
  <2>3. <<c>> \in Seq(Calls)
    BY <2>1
  <2>4. ipc' = <<c>>
    BY <1>1, <2>2, <2>3, SendFirst
  <2> QED BY <1>1, <1>3, <2>3, <2>4, ClientStep
<1> QED BY <1>2, <1>3

\* Bursts of a client that keeps its settings.
LEMMA BurstStep ==
    ASSUME IInv, Unserved, client' \in Clients, client'.ks = client.ks, ipc = <<>>,
           NEW calls, KeepKs(calls, client'.ks), Send(calls)
    PROVE  IInv'
<1>1. calls \in Seq(Calls) /\ ipc' = calls
  BY SendFirst DEF KeepKs
<1> QED BY <1>1, ClientStep DEF KeepKs

LEMMA ConnectedStep ==
    ASSUME IInv, Connected
    PROVE  IInv'
<1>1. client' \in Clients /\ client'.ks = client.ks /\ ipc = <<>> /\ Unserved
  BY DEF Connected, Clients, IInv, TypeOK
<1> DEFINE a == IfKillSwitch(<<CallFor("enableKillSwitch", SavedSites)>>)
<1>2. KeepKs(<<CallFor("enableKillSwitch", SavedSites)>>, client'.ks)
  BY <1>1, SavedType, CallTypes, KeepOne
<1>3. KeepKs(a, client'.ks)
  BY <1>2, KeepNone DEF IfKillSwitch
<1>4. Send(a \o ConfigureSites)
  BY DEF Connected
<1> HIDE DEF a
<1>5. KeepKs(a \o ConfigureSites, client'.ks)
  BY <1>1, <1>3, SitesCalls, KeepConcat
<1> QED BY <1>1, <1>4, <1>5, BurstStep

LEMMA RefreshStep ==
    ASSUME IInv, Refresh
    PROVE  IInv'
<1>1. client' \in Clients /\ client'.ks = client.ks /\ ipc = <<>> /\ Unserved
      /\ Send(ConfigureSites)
  BY SitesAssumption DEF Refresh, Clients, IInv, TypeOK
<1> QED BY <1>1, SitesCalls, BurstStep

LEMMA ReconnectStep ==
    ASSUME IInv, SilentReconnect
    PROVE  IInv'
<1>1. client' \in Clients /\ client'.ks = client.ks /\ ipc = <<>> /\ Unserved
      /\ Send(<<Call("disableKillSwitch")>>)
  BY DEF SilentReconnect, Clients, IInv, TypeOK
<1>2. KeepKs(<<Call("disableKillSwitch")>>, client'.ks)
  BY CallTypes, KeepOne
<1> QED BY <1>1, <1>2, BurstStep

LEMMA EndStep ==
    ASSUME IInv, End \/ ClientCrash
    PROVE  IInv'
<1>1. client' = Off /\ Off \in Clients /\ ~client'.ks /\ Unserved
  BY DEF End, ClientCrash, Off, Clients
<1>2. ipc' \in Seq(Calls)
  <2>1. CASE End
    <3>1. PICK op \in {"release", "disableKillSwitch"} :
            Send(<<Call(op), Configure({}, NoGateway, FALSE), Call("clearSavedRoutes")>>)
      BY <2>1 DEF End
    <3>2. Call(op) \in Calls /\ Call("clearSavedRoutes") \in Calls
          /\ Configure({}, NoGateway, FALSE) \in Calls
      BY CallTypes
    <3> DEFINE a == Call(op)
               b == Configure({}, NoGateway, FALSE)
               e == Call("clearSavedRoutes")
    <3>3. a \in Calls /\ b \in Calls /\ e \in Calls /\ ipc' = ipc \o <<a, b, e>>
      BY <3>1, <3>2 DEF Send
    <3> HIDE DEF a, b, e
    <3>4. <<a, b, e>> \in Seq(Calls)
      BY <3>3
    <3> QED BY <3>3, <3>4 DEF IInv, TypeOK
  <2>2. CASE ClientCrash
    BY <2>2 DEF ClientCrash, IInv, TypeOK
  <2> QED BY <2>1, <2>2
<1> QED BY <1>1, <1>2, ClientStep

LEMMA NewRouterType ==
    /\ NewRouter \in Routers /\ NewRouter.leases = [h \in Hosts |-> {}]
    /\ NewRouter.queue = {} /\ NewRouter.pending = 0 /\ NewRouter.ips = {}
    /\ NewRouter.added = {} /\ ~NewRouter.ks /\ NewRouter.rules = {}
<1>1. 0 \in 0..Concurrency
  BY SitesAssumption
<1>2. [h \in Hosts |-> {}] \in [Hosts -> SUBSET Ips]
  OBVIOUS
<1> QED BY <1>1, <1>2 DEF NewRouter, Routers

\* The router is new, and no route is its own.
LEMMA FreshRouter ==
    ASSUME router = NewRouter, query = {}, lookups = {}, ipc = <<>>, client \in Clients,
           protection = FALSE, allowed = {}, given = {}, kernel \in [Ips -> {"none", "left"}]
    PROVE  IInv
<1>1. TypeOK
  <2>1. kernel \in [Ips -> Routes]
    BY DEF Routes
  <2>2. ipc \in Seq(Calls)
    OBVIOUS
  <2> QED BY <2>1, <2>2, NewRouterType DEF TypeOK
<1>2. Current = {}
  BY DEF Current
<1>3. SourcesFollowRules /\ LeasesFollowRules /\ NoOrphanRoute /\ QueuedOnce
  BY <1>2, NewRouterType DEF SourcesFollowRules, LeasesFollowRules, NoOrphanRoute, QueuedOnce
<1>4. PrewarmNeverStalls
  BY <1>2, NewRouterType, FS_EmptySet DEF PrewarmNeverStalls, Current
<1>5. HolesAccounted
  BY DEF HolesAccounted, Accounted
<1> QED BY <1>1, <1>3, <1>4, <1>5 DEF IInv

LEMMA KillStep ==
    ASSUME IInv, ServiceKill
    PROVE  IInv'
<1>1. kernel' \in [Ips -> {"none", "left"}] /\ client' \in Clients
  BY DEF ServiceKill, IInv, TypeOK
<1>2. /\ router' = NewRouter /\ query' = {} /\ lookups' = {} /\ ipc' = <<>>
      /\ protection' = FALSE /\ allowed' = {} /\ given' = {}
  BY DEF ServiceKill
<1>3. TypeOK'
  <2>1. kernel' \in [Ips -> Routes]
    BY <1>1 DEF Routes
  <2>2. ipc' \in Seq(Calls)
    BY <1>2
  <2> QED BY <1>1, <1>2, <2>1, <2>2, NewRouterType DEF TypeOK
<1>4. Current' = {}
  BY <1>2 DEF Current
<1>5. SourcesFollowRules' /\ LeasesFollowRules' /\ NoOrphanRoute' /\ QueuedOnce'
  BY <1>1, <1>2, <1>4, NewRouterType
  DEF SourcesFollowRules, LeasesFollowRules, NoOrphanRoute, QueuedOnce
<1>6. PrewarmNeverStalls'
  BY <1>2, <1>4, NewRouterType, FS_EmptySet DEF PrewarmNeverStalls, Current
<1>7. HolesAccounted'
  BY <1>2 DEF HolesAccounted, Accounted
<1> QED BY <1>3, <1>5, <1>6, <1>7 DEF IInv

LEMMA NetworkStep ==
    ASSUME IInv, NetworkDown
    PROVE  IInv'
<1>1. /\ kernel \in [Ips -> Routes] /\ kernel' \in [Ips -> Routes]
      /\ \A i \in Ips : kernel'[i] = "added" => kernel[i] = "added"
  BY DEF NetworkDown, IInv, TypeOK, WithoutRoutes, Routes
<1>2. UNCHANGED <<client, ipc, router, query, lookups, protection, allowed, given>>
  BY DEF NetworkDown
<1>3. TypeOK' /\ NoOrphanRoute'
  BY <1>1, <1>2 DEF IInv, TypeOK, NoOrphanRoute
<1>4. SourcesFollowRules' /\ LeasesFollowRules' /\ QueuedOnce' /\ PrewarmNeverStalls'
      /\ HolesAccounted'
  BY <1>2 DEF IInv, SourcesFollowRules, LeasesFollowRules, QueuedOnce, PrewarmNeverStalls,
              HolesAccounted, Accounted, Current
<1> QED BY <1>3, <1>4 DEF IInv

-----------------------------------------------------------------------------
(* The theorems. *)

\* The invariant holds of every behaviour of the service and its client.
THEOREM Invariance == Spec => []IInv
<1>1. Init => IInv
  <2> SUFFICES ASSUME Init
               PROVE  IInv
    OBVIOUS
  <2>1. client \in Clients
    BY DEF Init, Off, Clients
  <2>2. kernel \in [Ips -> {"none", "left"}]
    BY DEF Init
  <2> QED BY <2>1, <2>2, FreshRouter DEF Init
<1>2. IInv /\ [Next]_stVars => IInv'
  <2> SUFFICES ASSUME IInv, [Next]_stVars
               PROVE  IInv'
    OBVIOUS
  <2>1. CASE Next
    BY <2>1, FinishStep, QueryStep, AnswerStep, ServeStep, ConnectStep, ConnectedStep,
       RefreshStep, ReconnectStep, EndStep, KillStep, NetworkStep DEF Next
  <2>2. CASE UNCHANGED stVars
    BY <2>2 DEF stVars, IInv, TypeOK, SourcesFollowRules, LeasesFollowRules, NoOrphanRoute,
                QueuedOnce, PrewarmNeverStalls, HolesAccounted, Accounted, Current
  <2> QED BY <2>1, <2>2
<1> QED BY <1>1, <1>2, PTL DEF Spec

\* Every variable keeps its type; the counter of lookups stays within the limit.
THEOREM TypeCorrect == Spec => []TypeOK
<1>1. IInv => TypeOK
  BY DEF IInv
<1> QED BY <1>1, Invariance, PTL

\* Only hosts of the current rules have leases, whatever lookup or query of older rules
\* (updateDnsSplitTunnelHostLeases()) ends when.
THEOREM LeasesSound == Spec => []LeasesFollowRules
<1>1. IInv => LeasesFollowRules
  BY DEF IInv
<1> QED BY <1>1, Invariance, PTL

\* No route the running service has added is forgotten by both of its lists, unless the
\* system refused to delete it (clearSavedRoutes(), clearDnsSplitTunnelLeases()).
THEOREM RoutesSound == Spec => []NoOrphanRoute
<1>1. IInv => NoOrphanRoute
  BY DEF IInv
<1> QED BY <1>1, Invariance, PTL

\* pumpDnsSplitTunnelPrewarm() counts the current lookups exactly, for any limit, and leaves
\* no host waiting below it.
THEOREM PrewarmSound == Spec => []PrewarmNeverStalls
<1>1. IInv => PrewarmNeverStalls
  BY DEF IInv
<1> QED BY <1>1, Invariance, PTL

\* An address leaves the allow-list of the kill switch with its route, across crashes of the
\* client, reconnects and changes of the kill switch's setting.
THEOREM HolesSound == Spec => []NoStaleHole
<1>1. IInv => NoStaleHole
  BY DEF IInv, TypeOK, HolesAccounted, Accounted, NoStaleHole
<1> QED BY <1>1, Invariance, PTL
=============================================================================

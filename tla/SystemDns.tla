----------------------------- MODULE SystemDns -----------------------------
(***************************************************************************)
(* The system's DNS settings under two DnsUtilsMacos objects               *)
(* (client/platforms/macos/daemon/dnsutilsmacos.cpp): the WireGuard        *)
(* daemon's, built with the service, and the router's, built by the first  *)
(* call that reaches RouterMac (service/server/router_mac.cpp).            *)
(*                                                                         *)
(* Both write the DNS entry of every network service into the one dynamic  *)
(* store of the system, keep what they found there in memory only, and     *)
(* write it back when the VPN ends.  Their callers come over two sockets   *)
(* that are not ordered, so their sessions may overlap; the service may be *)
(* killed between any two writes.                                          *)
(***************************************************************************)
EXTENDS Naturals, Sequences

CONSTANTS
    Services,   \* the network services the machine can have
    Resolvers   \* resolvers of VPN configurations, not 127.0.0.1

VARIABLES
    user,     \* the DNS setting of each service without VPN, constant
    present,  \* the network services that exist
    store,    \* Setup:/Network/Service/<s>/DNS of each service
    util,     \* the two DnsUtilsMacos objects
    conn,     \* the daemon has a connection (m_connections)
    run,      \* the calls of the running handler, the current one first
    up,       \* the service runs
    mixed     \* history: an override was backed up as a setting, or its backup was lost

dnsVars == <<user, present, store, util, conn, run, up, mixed>>

-----------------------------------------------------------------------------
(* Values. *)

\* A DNS entry: absent, the user's, 127.0.0.1 with the local domain, or VPN resolvers.
Settings == {"none", "user"}
Entries == Settings \cup {"local"} \cup Resolvers

NoBackup == "noBackup"
NoResolvers == "noResolvers"

\* Resolvers are addresses, none of them 127.0.0.1.
ASSUME ResolversAssumption ==
    Resolvers \cap {"none", "user", "local", NoBackup, NoResolvers} = {}

Owners == {"daemon", "router"}

\* cur: m_currentResolvers.  rules: the observer has host rules.  observer: it is bound
\* to 127.0.0.1:53.  backup: m_prevServices.
Utils == [built : BOOLEAN, cur : Resolvers \cup {NoResolvers}, rules : BOOLEAN,
          observer : BOOLEAN, backup : [Services -> Entries \cup {NoBackup}]]

NewUtil == [built |-> FALSE, cur |-> NoResolvers, rules |-> FALSE, observer |-> FALSE,
            backup |-> [s \in Services |-> NoBackup]]

\* One loop over the network services, or the assignment that decides about the next
\* one.  begun: the key list of the loop has been read, todo of it is left.
Calls == [op    : {"updateResolvers", "restoreResolvers", "removeStaleLocalResolverOverrides",
                   "setRules", "clearRules"},
          by    : Owners,
          res   : Resolvers \cup {NoResolvers},
          begun : BOOLEAN,
          todo  : SUBSET Services]

Call(op, u, r) == [op |-> op, by |-> u, res |-> r, begun |-> FALSE, todo |-> {}]

(* The calls of a handler, in order. *)

Update(u, r) == <<Call("updateResolvers", u, r)>>

Sweep(u) == <<Call("removeStaleLocalResolverOverrides", u, NoResolvers)>>

\* Mutant: the overrides that a restore may have put back are not removed.
RestoreWithoutSweep(u) == <<Call("restoreResolvers", u, NoResolvers)>>

Restore(u) == <<Call("restoreResolvers", u, NoResolvers)>> \o Sweep(u)

SetRules(u) == <<Call("setRules", u, NoResolvers)>>

ClearRules(u) == <<Call("clearRules", u, NoResolvers)>>

-----------------------------------------------------------------------------
(* The loops.  Each write to the store is a step. *)

Overridden == {s \in Services : store[s] \notin Settings}

Current == run[1]

At(op) == up /\ run /= <<>> /\ Current.op = op

\* Goes on with a loop over the services of ss, or with the next call if there is none.
Continue(ss) ==
    run' = IF ss = {} THEN Tail(run) ELSE [run EXCEPT ![1].begun = TRUE, ![1].todo = ss]

\* updateResolvers(): the observer is restarted; it needs host rules, IPv4 upstreams and
\* the port (whether it gets them is open).
BeginUpdate ==
    /\ At("updateResolvers") /\ ~Current.begun
    /\ \E ok \in BOOLEAN :
        /\ ok => util[Current.by].rules
        /\ util' = [util EXCEPT ![Current.by].cur = Current.res,
                                ![Current.by].observer = ok]
    /\ Continue(present)
    /\ UNCHANGED <<user, present, store, conn, up, mixed>>

\* Mutant: every update backs the entry up, not only the first of a session.
BackUpEveryUpdate ==
    /\ At("updateResolvers") /\ Current.begun
    /\ \E s \in Current.todo :
        /\ util' = [util EXCEPT ![Current.by].backup[s] = store[s]]
        /\ store' = [store EXCEPT ![s] =
                        IF util[Current.by].observer THEN "local" ELSE Current.res]
        /\ mixed' = (mixed \/ (util[Current.by].backup[s] = NoBackup /\ store[s] /= user[s]))
        /\ Continue(Current.todo \ {s})
    /\ UNCHANGED <<user, present, conn, up>>

\* Its loop: backupService(), then the entry of the service is replaced.
UpdateService ==
    /\ At("updateResolvers") /\ Current.begun
    /\ \E s \in Current.todo :
        /\ util' = [util EXCEPT ![Current.by].backup[s] =
                        IF @ = NoBackup THEN store[s] ELSE @]
        /\ store' = [store EXCEPT ![s] =
                        IF util[Current.by].observer THEN "local" ELSE Current.res]
        /\ mixed' = (mixed \/ util'[Current.by].backup[s] /= user[s])
        /\ Continue(Current.todo \ {s})
    /\ UNCHANGED <<user, present, conn, up>>

BackedUp(u) == {s \in Services : util[u].backup[s] /= NoBackup}

BeginRestore ==
    /\ At("restoreResolvers") /\ ~Current.begun
    /\ util' = [util EXCEPT ![Current.by].cur = NoResolvers,
                            ![Current.by].observer = FALSE]
    /\ Continue(BackedUp(Current.by))
    /\ UNCHANGED <<user, present, store, conn, up, mixed>>

\* Its loop; m_prevServices is cleared after the last service.
RestoreService ==
    /\ At("restoreResolvers") /\ Current.begun
    /\ \E s \in Current.todo :
        /\ store' = [store EXCEPT ![s] = util[Current.by].backup[s]]
        /\ util' = IF Current.todo = {s}
                   THEN [util EXCEPT ![Current.by].backup = [t \in Services |-> NoBackup]]
                   ELSE util
        /\ Continue(Current.todo \ {s})
    /\ UNCHANGED <<user, present, conn, up, mixed>>

BeginSweep ==
    /\ At("removeStaleLocalResolverOverrides") /\ ~Current.begun
    /\ Continue({s \in present : store[s] = "local"})
    /\ util' = [util EXCEPT ![Current.by].built = TRUE]
    /\ UNCHANGED <<user, present, store, conn, up, mixed>>

SweepService ==
    /\ At("removeStaleLocalResolverOverrides") /\ Current.begun
    /\ \E s \in Current.todo :
        /\ store' = [store EXCEPT ![s] = "none"]
        /\ Continue(Current.todo \ {s})
    /\ UNCHANGED <<user, present, util, conn, up, mixed>>

\* Mutant: the resolvers are set again although none are set.
ConfigureWithoutResolvers ==
    /\ At("setRules") \/ At("clearRules")
    /\ util' = [util EXCEPT ![Current.by].rules = (Current.op = "setRules")]
    /\ run' = Update(Current.by, util[Current.by].cur) \o Tail(run)
    /\ UNCHANGED <<user, present, store, conn, up, mixed>>

\* configureSplitTunnelRules(): the resolvers are set again if there are any.
ConfigureSplitTunnelRules ==
    /\ At("setRules") \/ At("clearRules")
    /\ util' = [util EXCEPT ![Current.by].rules = (Current.op = "setRules")]
    /\ run' = LET r == util[Current.by].cur
              IN (IF r = NoResolvers THEN <<>> ELSE Update(Current.by, r)) \o Tail(run)
    /\ UNCHANGED <<user, present, store, conn, up, mixed>>

-----------------------------------------------------------------------------
(* The callers. *)

Ready == up /\ run = <<>>

\* Daemon::activate(): a first connection; a switch to another server, which restores in
\* between; or a deactivation followed by a new activation.  The activation may still fail
\* after the resolvers are set (connected = FALSE), which leaves them set.
Activate(r, connected) ==
    /\ Ready
    /\ conn' = connected
    /\ \/ ~conn /\ run' = Update("daemon", r)
       \/ conn /\ connected /\ run' = Restore("daemon") \o Update("daemon", r)
       \/ conn /\ run' = ClearRules("daemon") \o Restore("daemon") \o Update("daemon", r)
    /\ UNCHANGED <<user, present, store, util, up, mixed>>

\* Daemon::checkHandshake() -> configureSplitTunnelDnsRoutes().
Handshake ==
    /\ Ready /\ conn
    /\ run' \in {SetRules("daemon"), ClearRules("daemon")}
    /\ UNCHANGED <<user, present, store, util, conn, up, mixed>>

Deactivate ==
    /\ Ready
    /\ conn' = FALSE
    /\ run' = ClearRules("daemon") \o Restore("daemon")
    /\ UNCHANGED <<user, present, store, util, up, mixed>>

\* A call of the IPC interface that reaches RouterMac: updateResolvers, restoreResolvers,
\* configureDnsSplitTunnel, or one that has nothing to do with resolvers.  The first one
\* builds the object.
RouterCall ==
    /\ Ready
    /\ \E calls \in {Update("router", r) : r \in Resolvers}
                    \cup {Restore("router"), SetRules("router"), ClearRules("router"), <<>>} :
        /\ util["router"].built => calls /= <<>>
        /\ run' = (IF util["router"].built THEN <<>> ELSE Sweep("router")) \o calls
    /\ UNCHANGED <<user, present, store, util, conn, up, mixed>>

\* The service dies; SIGTERM does not run aboutToQuit, so this is also how it is stopped.
Kill ==
    /\ up /\ up' = FALSE
    /\ util' = [u \in Owners |-> NewUtil]
    /\ conn' = FALSE
    /\ run' = <<>>
    /\ mixed' = (mixed \/ store /= user)
    /\ UNCHANGED <<user, present, store>>

\* launchd starts it again: the daemon's object is built and sweeps.
Start ==
    /\ ~up /\ up' = TRUE
    /\ run' = Sweep("daemon")
    /\ UNCHANGED <<user, present, store, util, conn, mixed>>

\* A network service is added, with its own setting.
AddService ==
    /\ \E s \in Services \ present : present' = present \cup {s}
    /\ UNCHANGED <<user, store, util, conn, run, up, mixed>>

Init ==
    /\ user \in [Services -> Settings]
    /\ present \in SUBSET Services
    /\ store = user
    /\ util = [u \in Owners |-> NewUtil]
    /\ conn = FALSE /\ run = <<>> /\ up = FALSE /\ mixed = FALSE

Loops ==
    \/ BeginUpdate \/ UpdateService
    \/ BeginRestore \/ RestoreService
    \/ BeginSweep \/ SweepService
    \/ ConfigureSplitTunnelRules

Next ==
    \/ Loops
    \/ \E r \in Resolvers, connected \in BOOLEAN : Activate(r, connected)
    \/ Handshake \/ Deactivate \/ RouterCall
    \/ Kill \/ Start \/ AddService

Spec == Init /\ [][Next]_dnsVars

-----------------------------------------------------------------------------
(* Properties. *)

TypeOK ==
    /\ user \in [Services -> Settings]
    /\ present \subseteq Services
    /\ store \in [Services -> Entries]
    /\ util \in [Owners -> Utils]
    /\ conn \in BOOLEAN /\ up \in BOOLEAN /\ mixed \in BOOLEAN
    /\ run \in Seq(Calls)

\* While the service runs and no handler is under way, an entry that sends the system to
\* 127.0.0.1 is answered: one of the two observers is bound.  This is what the sweeps at
\* the start of the service and at the end of restoreResolvers() are for, also when the
\* two objects back up and restore each other's overrides.
LocalResolverIsServed ==
    Ready /\ (\E s \in Services : store[s] = "local")
        => \E u \in Owners : util[u].observer

\* When neither object has resolvers set, every network service has the setting it had
\* before the VPN, whatever was called how often and whatever services appeared, unless
\* an object has taken an override for a setting or its backup died with the service.
SettingsComeBack ==
    Ready /\ (\A u \in Owners : util[u].cur = NoResolvers) /\ ~mixed
        => store = user

\* README: a killed service leaves the machine with DNS, since the next one removes what is
\* left.  Once the service runs and no VPN has resolvers set, no override is left.
NoOverrideWithoutVpn ==
    Ready /\ util["daemon"].built /\ (\A u \in Owners : util[u].cur = NoResolvers)
        => Overridden = {}
=============================================================================

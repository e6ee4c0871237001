------------------------------ MODULE WgDaemon ------------------------------
(***************************************************************************)
(* The WireGuard daemon on macOS (client/daemon/daemon.cpp,                *)
(* client/platforms/macos/daemon/wireguardutilsmacos.cpp and               *)
(* macosroutemonitor.cpp): the connection, the reference counts of the     *)
(* addresses excluded from the tunnel, the routes the monitor keeps for    *)
(* them, and the addresses learned from DNS.                               *)
(*                                                                         *)
(* The daemon waits for the backend in nested event loops                  *)
(* (QCoreApplication::processEvents() in uapiCommand() and                 *)
(* waitForTunnelName()), so a handler of another socket, the handshake     *)
(* timer and DNS answers may run in the middle of activate(), deactivate() *)
(* and checkHandshake().                                                   *)
(***************************************************************************)
EXTENDS Naturals, Sequences

CONSTANTS
    Addrs,      \* addresses that may be excluded from the tunnel
    Accepted,   \* the sets of addresses the kernel may take new routes for
    Configs,    \* configurations of the client
    Sockets,    \* sockets of the client's protocol objects
    MaxDepth,   \* bound: handlers nested in each other
    MaxCount    \* bound: no second switch is requested when an address is counted so often

\* A configuration: who we are, the server and its key, the bypassed addresses, and those
\* the bypassed host names may resolve to.
ASSUME ConfigsAssumption ==
    /\ Accepted \subseteq SUBSET Addrs
    /\ \A c \in Configs : c.host \in Addrs /\ c.sites \subseteq Addrs /\ c.names \subseteq Addrs

\* No configuration, the socket of an object that is stopped, and who the timer's handler is.
None == [device |-> "none"]
NoSocket == "none"
Timer == "timer"

ASSUME NamesAssumption == None \notin Configs /\ NoSocket \notin Sockets /\ Timer \notin Sockets

VARIABLES
    d,        \* Daemon, WireguardUtilsMacos and the MacosRouteMonitor
    frames,   \* handlers that wait for the backend, the innermost first
    inbox,    \* requests of each socket the daemon has not read
    client,   \* the client's protocol object
    lookups,  \* QHostInfo lookups under way, with the generation they belong to
    learned,  \* history: the configurations the learned routes come from
    switched, \* history: a connection was switched since the last deactivation
    nested    \* history: since then a handler has run inside that of a request

wgVars == <<d, frames, inbox, client, lookups, learned, switched, nested>>

-----------------------------------------------------------------------------
(* Values. *)

\* m_connections and whether the handshake is done (m_date), m_excludedAddrSet,
\* m_splitTunnelDnsRoutes, the configuration whose DNS rules are set, whether resolvers
\* are set, whether m_handshakeTimer runs, whether the backend runs, whether there is a
\* monitor, and its m_exclusionRoutes.  failed: activationFailure was emitted
\* for conn while the timer did not run, and there was no handshake since.
Daemons == [conn : Configs \cup {None}, shaken : BOOLEAN, counts : [Addrs -> Nat],
            dns : SUBSET Addrs, rules : Configs \cup {None}, resolvers : BOOLEAN,
            timer : BOOLEAN, proc : BOOLEAN, mon : BOOLEAN, list : SUBSET Addrs,
            failed : BOOLEAN]

NewDaemon == [conn |-> None, shaken |-> FALSE, counts |-> [a \in Addrs |-> 0],
              dns |-> {}, rules |-> None, resolvers |-> FALSE,
              timer |-> FALSE, proc |-> FALSE, mon |-> FALSE, list |-> {}, failed |-> FALSE]

Requests == [op : {"activate"}, cfg : Configs] \cup [op : {"deactivate"}, cfg : {None}]

\* at: where the handler waits.  cfg: what it activates.  last: what it switches from.
Frames == [at : {"tunnelName", "interface", "peer", "switchPeer", "switchDelete",
                 "deletePeer", "status"},
           by : Sockets \cup {Timer}, cfg : Configs \cup {None}, last : Configs \cup {None}]

Frame(at, s, c, last) == [at |-> at, by |-> s, cfg |-> c, last |-> last]

\* silent: this object, or an earlier one whose requests were not all handled when it was
\* started, has been stopped without a request.
Clients == [sock : Sockets \cup {NoSocket}, silent : BOOLEAN]

Stopped == client.sock = NoSocket

Lookups == [cfg : Configs, current : BOOLEAN]

Counted(x) == {a \in Addrs : x.counts[a] > 0}

\* The server is always among the excluded addresses (localsocketcontroller.cpp).
Excluded(c) == {c.host} \cup c.sites

Idle == frames = <<>>

\* Nothing is left of what earlier objects have sent.
Handled == Idle /\ \A s \in Sockets : inbox[s] = <<>>

-----------------------------------------------------------------------------
(* Exclusion routes.  x is the daemon so far. *)

\* The addresses of as that addExclusionRoute() succeeds for, if the kernel takes those of ok.
Excludable(x, as, ok) == {a \in as : x.counts[a] > 0 \/ (x.mon /\ (a \in x.list \/ a \in ok))}

\* Daemon::addExclusionRoute() for each of as.
AddExclusion(x, as, ok) ==
    LET done == Excludable(x, as, ok)
    IN [x EXCEPT !.counts = [a \in Addrs |-> IF a \in done THEN @[a] + 1 ELSE @[a]],
                 !.list = @ \cup (done \ Counted(x))]

\* Mutant: the count goes down even if there is none.
DelUncounted(x, as) ==
    [x EXCEPT !.counts = [a \in Addrs |-> IF a \in as THEN @[a] - 1 ELSE @[a]],
              !.list = @ \ {a \in as : x.counts[a] <= 1}]

\* Daemon::delExclusionRoute() for each of as; the assertion that they are counted is not
\* compiled into a release.
DelExclusion(x, as) ==
    [x EXCEPT !.counts = [a \in Addrs |-> IF a \notin as THEN @[a]
                                          ELSE IF @[a] > 1 THEN @[a] - 1 ELSE 0],
              !.list = @ \ {a \in as : x.counts[a] <= 1}]

\* clearSplitTunnelDnsRoutes()
ClearDnsRoutes(x) == [DelExclusion(x, x.dns \cap Counted(x)) EXCEPT !.dns = {}]

\* The configuration if it has names to resolve.
Named(c) == IF c.names = {} THEN None ELSE c

Obsolete(ls) == {[l EXCEPT !.current = FALSE] : l \in ls}

\* onSplitTunnelHostResolved() for a name of c
Resolved(c) ==
    \E ips \in SUBSET c.names, ok \in Accepted :
        LET new == Excludable(d, ips \ d.dns, ok)
        IN /\ d' = [AddExclusion(d, ips \ d.dns, ok) EXCEPT !.dns = @ \cup new]
           /\ learned' = IF new = {} THEN learned ELSE learned \cup {c}
           /\ UNCHANGED <<frames, inbox, client, switched, nested>>

-----------------------------------------------------------------------------
(* activate() of a first connection, from x, in the handler f above rest. *)

\* updatePeer(), up to its wait; the result for the server's route is not looked at.
UpdatePeer(x, f, rest) ==
    /\ \E ok \in Accepted :
        d' = [x EXCEPT !.list = IF x.mon /\ f.cfg.host \in ok THEN @ \cup {f.cfg.host} ELSE @]
    /\ frames' = <<f>> \o rest

Fail(x, rest) == d' = x /\ frames' = rest

\* The interface is created unless the backend runs; it may not start.
StartFresh(x, f, rest) ==
    IF x.proc THEN UpdatePeer(x, [f EXCEPT !.at = "peer"], rest)
    ELSE \/ /\ d' = [x EXCEPT !.proc = TRUE]
            /\ frames' = <<[f EXCEPT !.at = "tunnelName"]>> \o rest
         \/ Fail(x, rest)

At(at) == frames /= <<>> /\ frames[1].at = at

Rest == Tail(frames)

\* A handler starts while that of a request waits.
Inside == nested \/ \E i \in 1..Len(frames) : frames[i].by /= Timer

Quiet == UNCHANGED <<inbox, client, lookups, learned, switched, nested>>

\* waitForTunnelName() returns: a new monitor, or the backend is killed.
TunnelName ==
    /\ At("tunnelName")
    /\ \/ /\ d.proc
          /\ d' = [d EXCEPT !.mon = TRUE, !.list = {}]
          /\ frames' = <<[frames[1] EXCEPT !.at = "interface"]>> \o Rest
       \/ Fail([d EXCEPT !.proc = FALSE], Rest)
    /\ Quiet

\* Mutant: nothing is done if the backend does not run.
DeleteRunningInterface(x) ==
    IF x.proc THEN [x EXCEPT !.mon = FALSE, !.list = {}, !.proc = FALSE] ELSE x

\* deleteInterface()
DeleteInterface(x) == [x EXCEPT !.mon = FALSE, !.list = {}, !.proc = FALSE]

\* The interface is configured: it may fail, which leaves it, as may the firewall, which
\* deletes it.
Interface ==
    /\ At("interface")
    /\ \/ UpdatePeer(d, [frames[1] EXCEPT !.at = "peer"], Rest)
       \/ Fail(d, Rest)
       \/ Fail(DeleteInterface(d), Rest)
    /\ Quiet

\* The peer is configured, then resolvers, then routes through the interface.
Peer ==
    /\ At("peer")
    /\ \/ Fail(d, Rest)
       \/ Fail([d EXCEPT !.resolvers = TRUE], Rest)
       \/ /\ d.mon
          /\ d' = [d EXCEPT !.resolvers = TRUE, !.conn = frames[1].cfg, !.shaken = FALSE,
                            !.timer = TRUE, !.failed = FALSE]
          /\ frames' = Rest
    /\ Quiet

-----------------------------------------------------------------------------
(* switchServer() *)

\* supportServerSwitching()
Switchable(c) == d.conn /= None /\ d.conn.device = c.device /\ d.conn.host = c.host

Switch(s, c) ==
    /\ \E ok \in Accepted :
        UpdatePeer(AddExclusion(d, Excluded(c), ok), Frame("switchPeer", s, c, d.conn), frames)
    /\ switched' = TRUE
    /\ nested' = Inside
    /\ UNCHANGED <<lookups, learned>>

\* Its end, which stores the connection, and that of activate(): the resolvers are restored
\* and set again; if the system refuses (updateResolvers()), the timer is not started.
Switched(x) ==
    LET y == [x EXCEPT !.conn = frames[1].cfg, !.shaken = FALSE, !.resolvers = TRUE]
    IN /\ \/ d' = [y EXCEPT !.timer = TRUE, !.failed = FALSE]
          \/ d' = [y EXCEPT !.failed = ~y.timer]
       /\ frames' = Rest

SwitchPeer ==
    /\ At("switchPeer")
    /\ LET c    == frames[1].cfg
           last == frames[1].last
           x    == DelExclusion(d, Excluded(last))
       IN \/ Fail(d, Rest)
          \/ c.key = last.key /\ Switched(x)
          \/ /\ c.key /= last.key
             /\ d' = [x EXCEPT !.list = @ \ {last.host}]
             /\ frames' = <<[frames[1] EXCEPT !.at = "switchDelete"]>> \o Rest
    /\ Quiet

SwitchDelete ==
    /\ At("switchDelete")
    /\ Switched(d) \/ Fail(d, Rest)
    /\ Quiet

-----------------------------------------------------------------------------
(* deactivate(), alone or before the activation of cfg. *)

\* Mutant: the counts outlive the routes.
CleanUpKeepsCounts(x) == DeleteInterface([x EXCEPT !.conn = None])

\* The end of deactivate().
CleanUp(x) ==
    DeleteInterface([x EXCEPT !.conn = None, !.counts = [a \in Addrs |-> 0], !.failed = FALSE])

\* deleteInterface() reports an error if the backend does not run; a caller that wants to
\* activate then gives up.
Deactivated(x, f, rest) ==
    /\ IF f.cfg = None \/ ~x.proc THEN Fail(CleanUp(x), rest)
       ELSE StartFresh(CleanUp(x), f, rest)
    /\ switched' = FALSE

\* Up to the wait in deletePeer().
Deactivate(s, c) ==
    LET x == [ClearDnsRoutes(d) EXCEPT !.rules = None, !.resolvers = FALSE]
        f == Frame("deletePeer", s, c, None)
    IN /\ lookups' = Obsolete(lookups)
       /\ learned' = {}
       /\ nested' = (~Idle /\ Inside)
       /\ IF d.conn = None THEN Deactivated(x, f, frames)
          ELSE /\ d' = [x EXCEPT !.list = @ \ {d.conn.host}]
               /\ frames' = <<f>> \o frames
               /\ UNCHANGED switched

DeletePeer ==
    /\ At("deletePeer")
    /\ Deactivated(d, frames[1], Rest)
    /\ UNCHANGED <<inbox, client, lookups, learned, nested>>

-----------------------------------------------------------------------------
(* Requests, timer and answers. *)

CanDispatch == Len(frames) < MaxDepth

Activate(s, c) ==
    \/ d.conn = None /\ StartFresh(d, Frame("peer", s, c, None), frames)
       /\ nested' = Inside
       /\ UNCHANGED <<lookups, learned, switched>>
    \/ Switchable(c) /\ Switch(s, c)
    \/ d.conn /= None /\ ~Switchable(c) /\ Deactivate(s, c)

\* readData(): a socket whose handler waits is not read.
ReadData ==
    /\ CanDispatch
    /\ \E s \in Sockets :
        /\ inbox[s] /= <<>> /\ \A i \in 1..Len(frames) : frames[i].by /= s
        /\ inbox' = [inbox EXCEPT ![s] = Tail(@)]
        /\ LET r == Head(inbox[s])
           IN \/ r.op = "activate" /\ Activate(s, r.cfg)
              \/ r.op = "deactivate" /\ Deactivate(s, None)
    /\ UNCHANGED client

\* m_handshakeTimer fires: checkHandshake(), up to the wait in getPeerStatus().
CheckHandshake ==
    /\ CanDispatch /\ d.timer
    /\ d' = [d EXCEPT !.timer = FALSE]
    /\ frames' = <<Frame("status", Timer, None, None)>> \o frames
    /\ nested' = Inside
    /\ UNCHANGED <<inbox, client, lookups, learned, switched>>

\* Mutant: the handshake starts no new generation.
ShakenSameGeneration(ok) ==
    /\ d' = AddExclusion([ClearDnsRoutes(d) EXCEPT !.shaken = TRUE, !.rules = Named(d.conn),
                                                   !.failed = FALSE],
                         Excluded(d.conn), ok)
    /\ lookups' = lookups \cup {[cfg |-> c, current |-> TRUE] : c \in {Named(d.conn)} \ {None}}
    /\ learned' = {}

\* configureSplitTunnelDnsRoutes(), then the static routes and new lookups.
Shaken(ok) ==
    /\ d' = AddExclusion([ClearDnsRoutes(d) EXCEPT !.shaken = TRUE, !.rules = Named(d.conn),
                                                   !.failed = FALSE],
                         Excluded(d.conn), ok)
    /\ lookups' = Obsolete(lookups)
                    \cup {[cfg |-> c, current |-> TRUE] : c \in {Named(d.conn)} \ {None}}
    /\ learned' = {}

\* Mutant: the timer is not started again.
StatusOnce ==
    /\ At("status")
    /\ \/ d.conn /= None /\ ~d.shaken /\ \E ok \in Accepted : Shaken(ok)
       \/ UNCHANGED <<d, lookups, learned>>
    /\ frames' = Rest
    /\ UNCHANGED <<inbox, client, switched, nested>>

\* The rest of checkHandshake(), with the connection of the moment.
Status ==
    /\ At("status")
    /\ \/ d.conn /= None /\ ~d.shaken /\ \E ok \in Accepted : Shaken(ok)
       \/ /\ d' = [d EXCEPT !.timer = @ \/ (d.conn /= None /\ ~d.shaken)]
          /\ UNCHANGED <<lookups, learned>>
    /\ frames' = Rest
    /\ UNCHANGED <<inbox, client, switched, nested>>

\* Mutant: the generation is not compared.
LookupDoneAnyGeneration ==
    \E l \in lookups : lookups' = lookups \ {l} /\ Resolved(l.cfg)

\* refreshSplitTunnelDnsRoutes(): a lookup ends.
LookupDone ==
    \E l \in lookups :
        /\ lookups' = lookups \ {l}
        /\ IF l.current THEN Resolved(l.cfg)
           ELSE UNCHANGED <<d, frames, inbox, client, learned, switched, nested>>

\* The DNS proxy has seen an answer (splitTunnelHostResolved); it runs with the resolvers.
Observed ==
    /\ d.resolvers /\ d.rules /= None
    /\ Resolved(d.rules)
    /\ UNCHANGED lookups

-----------------------------------------------------------------------------
(* The client and failures. *)

\* A new protocol object, with a socket of its own, sends its activation.
StartObject ==
    /\ Stopped
    /\ \E s \in Sockets, c \in Configs :
        /\ Switchable(c) /\ switched => \A a \in Addrs : d.counts[a] < MaxCount
        /\ inbox[s] = <<>> /\ \A i \in 1..Len(frames) : frames[i].by /= s
        /\ client' = [sock |-> s, silent |-> client.silent /\ ~Handled]
        /\ inbox' = [inbox EXCEPT ![s] = <<[op |-> "activate", cfg |-> c]>>]
    /\ UNCHANGED <<d, frames, lookups, learned, switched, nested>>

\* The object is stopped; it sends nothing before the daemon has answered its first
\* status request, nor if the client crashes.
StopObject ==
    /\ ~Stopped
    /\ \E silent \in BOOLEAN :
        /\ client' = [sock |-> NoSocket, silent |-> client.silent \/ silent]
        /\ inbox' = IF silent THEN inbox
                    ELSE [inbox EXCEPT ![client.sock] =
                             Append(@, [op |-> "deactivate", cfg |-> None])]
    /\ UNCHANGED <<d, frames, lookups, learned, switched, nested>>

\* The backend dies; nothing in the daemon reacts to that.
BackendDies ==
    /\ d.proc /\ d' = [d EXCEPT !.proc = FALSE]
    /\ UNCHANGED frames /\ Quiet

Init ==
    /\ d = NewDaemon /\ frames = <<>>
    /\ inbox = [s \in Sockets |-> <<>>]
    /\ client = [sock |-> NoSocket, silent |-> FALSE]
    /\ lookups = {} /\ learned = {} /\ switched = FALSE /\ nested = FALSE

Next ==
    \/ ReadData \/ CheckHandshake \/ LookupDone \/ Observed
    \/ TunnelName \/ Interface \/ Peer \/ SwitchPeer \/ SwitchDelete \/ DeletePeer \/ Status
    \/ StartObject \/ StopObject \/ BackendDies

Spec == Init /\ [][Next]_wgVars

-----------------------------------------------------------------------------
(* Properties. *)

TypeOK ==
    /\ d \in Daemons /\ frames \in Seq(Frames)
    /\ inbox \in [Sockets -> Seq(Requests)] /\ client \in Clients
    /\ lookups \subseteq Lookups /\ learned \subseteq Configs /\ switched \in BOOLEAN
    /\ nested \in BOOLEAN

\* Between handlers, an address the daemon counts as excluded is one the monitor keeps a
\* route for: otherwise the next addExclusionRoute() would only count it, and the address
\* would stay in the tunnel.  (A handler that ran inside another may break this until the
\* next deactivation.  So may a switch for the server's own address, whose route the update
\* and the deletion of a peer handle too, without the counts.)
CountedIsListed ==
    Idle /\ ~nested =>
        Counted(d) \subseteq d.list \cup (IF switched THEN {c.host : c \in Configs} ELSE {})

\* Without a switch, an address is counted once if it was learned and at most once more for
\* the configuration, so that the end of either leaves the other (daemon.h: learned routes
\* are torn down "without touching the rest") and the end of both leaves none.
CountsExact ==
    Idle /\ ~switched /\ ~nested =>
        \A a \in Addrs :
            LET byDns    == IF a \in d.dns THEN 1 ELSE 0
                byConfig == IF d.conn /= None /\ d.shaken /\ a \in Excluded(d.conn) THEN 1 ELSE 0
            IN d.counts[a] \in byDns..(byDns + byConfig)

\* Once the handshake is done, every learned route comes from the rules of this connection:
\* lookups started for an earlier one are obsolete.
LearnedForConnection ==
    Idle /\ d.conn /= None /\ d.shaken => learned \subseteq {d.conn}

\* The client never waits for a handshake that nobody looks for: a connection without one is
\* polled until it has one or ends, or the client has been told that its activation failed
\* (a switch stores the connection before the resolvers may fail).
HandshakePolled == Idle /\ d.conn /= None /\ ~d.shaken => d.timer \/ d.failed

\* When every object has been stopped with a request and the daemon has handled all of them,
\* no connection, resolver or interface is left, in whatever order it read the sockets.
StopTearsDown ==
    Handled /\ Stopped /\ ~client.silent
        => d.conn = None /\ ~d.resolvers /\ ~d.mon
=============================================================================

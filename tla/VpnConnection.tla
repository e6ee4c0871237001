---------------------------- MODULE VpnConnection ----------------------------
(***************************************************************************)
(* The connection lifecycle of the client: client/vpnConnection.cpp with   *)
(* the protocol object it owns (client/core/protocols).                    *)
(*                                                                         *)
(* VpnConnection lives on one thread and its slots are run by that         *)
(* thread's event loop.  A slot is nevertheless not atomic: every          *)
(* reply.waitForFinished() spins a nested event loop, which dispatches     *)
(* further slots on top of the one that waits.  The model keeps the call   *)
(* stack of waiting slots in vc.stack.  An action runs one slot up to its  *)
(* next wait (and pushes a frame) or to its end; a Reply action pops the   *)
(* top frame and runs the slot on from there.  MaxDepth bounds the stack:  *)
(* with MaxDepth = 1 no slot is ever dispatched during a wait.             *)
(*                                                                         *)
(* The whole object is one record, so that a C++ function that calls other *)
(* functions in a row is an operator that applies theirs in the same order.*)
(***************************************************************************)
EXTENDS Naturals, Sequences

CONSTANTS
    Kinds,        \* the kinds of protocol the user connects with
    RouteModes,   \* the site split-tunnel settings of the legacy (Xray) path
    MaxRecovery,  \* kMaxConnectedRecoveryAttempts (3 in the code)
    MaxChecks,    \* health checks without traffic before a probe (5 in the code)
    MaxDepth      \* bound: how many slots may wait on top of each other

\* "Unsupported" stands for a container that VpnProtocol::factory does not know.
ASSUME KindsAssumption == Kinds \subseteq {"WireGuard", "Xray", "Unsupported"}
ASSUME RouteModesAssumption ==
    RouteModes \subseteq {"VpnAllSites", "VpnOnlyForwardSites", "VpnAllExceptSites"}
ASSUME BoundsAssumption ==
    MaxRecovery \in Nat /\ MaxChecks \in Nat /\ MaxDepth \in Nat

VARIABLES
    vc,     \* the VpnConnection object, its protocol object and its waiting slots
    asked   \* history: "on" / "off" after the user's last connect / disconnect,
            \* "timedOut" once the watchdog has failed the attempt

vars == <<vc, asked>>

-----------------------------------------------------------------------------
(* The values of the members. *)

States == {"Unknown", "Disconnected", "Preparing", "Connecting", "Connected",
           "Disconnecting", "Reconnecting", "Error"}

\* connectionHealthProblem(): the health values that name a failure.
Problems == {"BackendFailed", "LocalNetworkUnavailable", "ApiUnavailable", "ApiSslError",
             "ApiDecryptionFailed", "LocalServiceUnavailable", "ProtocolStartFailed",
             "TunnelInterfaceMissing", "HandshakeTimeout", "RouteMismatch",
             "FirewallBlocked", "DnsFailed", "NoTraffic", "UnknownFailure"}

Healths == Problems \cup
           {"Idle", "PreparingConfig", "CheckingLocalNetwork", "CheckingLocalService",
            "StartingProtocol", "WaitingHandshake", "ApplyingRoutes", "CheckingFirewall",
            "CheckingDns", "CheckingTraffic", "Healthy", "Recovering"}

RecoverableErrors == {"AmneziaServiceConnectionFailed", "VpnBackendFailure",
                      "VpnHandshakeTimeout", "VpnNoTrafficError"}

XrayStartErrors == {"InternalError", "XrayExecutableCrashed", "AmneziaServiceConnectionFailed"}

XrayRunErrors == {"InternalError", "Tun2SockExecutableCrashed", "AmneziaServiceConnectionFailed"}

Errors == {"NoError", "UnknownError"} \cup RecoverableErrors \cup XrayStartErrors \cup XrayRunErrors

PendingActions == {"None", "StartConnection", "RequestReconnect", "StartSilentReconnect"}

\* Where a slot waits for a reply of the service (or for XrayProtocol::start()).
Waits == {"protect", "readyStart", "readyReconnect", "readySilent", "resume", "start",
          "restart", "release", "flush", "halves", "remote", "dnsRoutes", "sites", "firewall"}

\* mine: the protocol the slot created is still m_vpnProtocol.
\* emit: the slot is setConnectionState(Connected) and has its signal still to emit.
Frames == [at : Waits, mine : BOOLEAN, emit : BOOLEAN]

\* The protocol object.  stopped: m_stopped / m_stopRequested.  live: its backend
\* may still signal.  wired: which of its signals reach VpnConnection.
Protocols == [kind : {"None", "WireGuard", "Xray"}, st : States, err : Errors,
              stopped : BOOLEAN, live : BOOLEAN, wired : {"none", "state", "all"}]

NullProtocol == [kind |-> "None", st |-> "Unknown", err |-> "NoError",
                 stopped |-> TRUE, live |-> FALSE, wired |-> "none"]

\* A protocol object once start() has been called and its signals are connected.
NewProtocol(k) == [kind |-> k, st |-> "Unknown", err |-> "NoError",
                   stopped |-> FALSE, live |-> k = "WireGuard", wired |-> "all"]

Connections ==
    [state       : States,           \* m_connectionState
     health      : Healths,          \* m_connectionHealth
     lastError   : Errors,           \* m_lastError
     attempts    : 0..MaxRecovery,   \* m_connectedRecoveryAttempts
     silent      : BOOLEAN,          \* m_silentReconnectInProgress
     stopping    : BOOLEAN,          \* m_stoppingAfterFailure
     pending     : PendingActions,   \* m_pendingNetworkAction, and m_pendingNetworkTimer
     deadline    : BOOLEAN,          \* m_pendingNetworkDeadlineTimer is active
     watchdog    : BOOLEAN,          \* m_connectingTimer is active
     healthTimer : BOOLEAN,          \* m_healthTimer is active
     recovery    : BOOLEAN,          \* m_connectedRecoveryTimer is active
     idleChecks  : 0..MaxChecks,     \* m_healthChecksWithoutTraffic
     probe       : BOOLEAN,          \* m_connectivityProbe is set
     kick        : BOOLEAN,          \* the posted first health check
     lookup      : BOOLEAN,          \* a DNS health lookup is outstanding
     dnsReply    : BOOLEAN,          \* a configureDnsSplitTunnel reply is outstanding
     siteTimer   : BOOLEAN,          \* the protocol's one-second site-route timer
     kind        : Kinds \cup {"None"},  \* m_currentContainer, "None" before a connect
     proto       : Protocols,        \* m_vpnProtocol
     stack       : Seq(Frames),      \* the waiting slots, the topmost last
     emitted     : States,           \* the last connectionStateChanged signal
     crashed     : BOOLEAN]          \* a null m_vpnProtocol was dereferenced

InitConnection ==
    [state |-> "Disconnected", health |-> "Idle", lastError |-> "NoError", attempts |-> 0,
     silent |-> FALSE, stopping |-> FALSE, pending |-> "None", deadline |-> FALSE,
     watchdog |-> FALSE, healthTimer |-> FALSE, recovery |-> FALSE, idleChecks |-> 0,
     probe |-> FALSE, kick |-> FALSE, lookup |-> FALSE, dnsReply |-> FALSE,
     siteTimer |-> FALSE, kind |-> "None", proto |-> NullProtocol, stack |-> <<>>,
     emitted |-> "Disconnected", crashed |-> FALSE]

-----------------------------------------------------------------------------
(* The waiting slots. *)

Push(s, at, emit) ==
    [s EXCEPT !.stack = Append(@, [at |-> at, mine |-> TRUE, emit |-> emit])]

Top(s) == s.stack[Len(s.stack)]

Pop(s) == [s EXCEPT !.stack = SubSeq(@, 1, Len(@) - 1)]

\* A new slot may be dispatched: nothing runs but waiting slots.
CanDispatch(s) == ~s.crashed /\ Len(s.stack) < MaxDepth

\* The topmost slot waits at one of the given places and its reply may arrive.
WaitsAt(s, places) == ~s.crashed /\ s.stack # <<>> /\ Top(s).at \in places

-----------------------------------------------------------------------------
(* Diagnostics. *)

\* Mutant: the Error state publishes progress messages too.
PublishProgressInError(s, h) ==
    s.state = "Disconnected" => h = "Idle" \/ (s.lastError # "NoError" /\ h \in Problems)

shouldPublishConnectionHealth(s, h) ==
    CASE s.state = "Disconnected" -> h = "Idle" \/ (s.lastError # "NoError" /\ h \in Problems)
      [] s.state = "Error"        -> h \in Problems
      [] OTHER                    -> TRUE

setConnectionHealth(s, h) ==
    IF shouldPublishConnectionHealth(s, h) THEN [s EXCEPT !.health = h] ELSE s

connectionHealthForError(e) ==
    CASE e \in {"AmneziaServiceConnectionFailed", "VpnBackendFailure"} -> "LocalServiceUnavailable"
      [] e = "VpnHandshakeTimeout" -> "HandshakeTimeout"
      [] e = "VpnNoTrafficError"   -> "NoTraffic"
      [] OTHER                     -> "UnknownFailure"

stopPendingNetworkAction(s) == [s EXCEPT !.pending = "None", !.deadline = FALSE]

\* Mutant: a recovery that is scheduled survives the way out of Connected.
StopAllButRecovery(s) == [s EXCEPT !.probe = FALSE, !.healthTimer = FALSE, !.idleChecks = 0]

\* stopConnectivityProbe(), stopConnectedHealthCheck() and stopConnectedRecovery().
StopConnectedTimers(s) ==
    [s EXCEPT !.probe = FALSE, !.healthTimer = FALSE, !.idleChecks = 0, !.recovery = FALSE]

\* The client drives routes and DNS itself unless the daemon does (WireGuard family).
LegacyRouting(s) == s.kind # "WireGuard"

configureDnsSplitTunnel(s) ==
    IF LegacyRouting(s) THEN [setConnectionHealth(s, "CheckingDns") EXCEPT !.dnsReply = TRUE] ELSE s

startConnectedHealthCheck(s) ==
    LET t == IF s.health \in Problems THEN s ELSE setConnectionHealth(s, "CheckingTraffic")
    IN  [t EXCEPT !.idleChecks = 0, !.healthTimer = TRUE, !.kick = TRUE]

\* Mutant: the Error handler forgets stopConnectedHealthCheck().
ErrorKeepsHealthCheck(s, st) ==
    CASE st \in {"Connecting", "Reconnecting"} ->
           [StopConnectedTimers(setConnectionHealth(s, "StartingProtocol")) EXCEPT !.watchdog = TRUE]
      [] st = "Error" -> [s EXCEPT !.watchdog = FALSE, !.recovery = FALSE, !.health = "UnknownFailure"]
      [] OTHER -> [StopConnectedTimers(s) EXCEPT !.watchdog = FALSE, !.health = "Idle"]

\* onConnectionStateChanged() for every state but Connected, in which no slot waits.
onConnectionStateChanged(s, st) ==
    CASE st \in {"Connecting", "Reconnecting"} ->
           LET h == IF st = "Reconnecting" \/ s.silent THEN "Recovering" ELSE "StartingProtocol"
           IN  [StopConnectedTimers(setConnectionHealth(s, h)) EXCEPT !.watchdog = TRUE]
      [] st = "Disconnected" ->
           LET t == [StopConnectedTimers(s) EXCEPT !.watchdog = FALSE,
                       !.lastError = IF s.health \in Problems THEN @ ELSE "NoError"]
           IN  configureDnsSplitTunnel(setConnectionHealth(t, "Idle"))
      [] st = "Error" ->
           LET t == [StopConnectedTimers(s) EXCEPT !.watchdog = FALSE]
           IN  configureDnsSplitTunnel(
                 IF s.health \in Problems THEN t ELSE setConnectionHealth(t, "UnknownFailure"))
      [] st = "Preparing" -> setConnectionHealth(s, "PreparingConfig")
      [] OTHER -> [StopConnectedTimers(s) EXCEPT !.watchdog = FALSE]

-----------------------------------------------------------------------------
(* State changes, the protocol object's teardown, and recovery.  The C++     *)
(* functions call each other in a cycle that the model cuts where the code   *)
(* does: handleSilentReconnectFailure() disconnects the protocol's signals   *)
(* before it stops it, and Error is never filtered by setConnectionState().  *)

\* setConnectionState() past its early returns, for every state but Connected.
EnterState(s, st) ==
    LET known == s.lastError # "NoError" \/ s.proto.err # "NoError"
        t == IF st = "Error" /\ ~known THEN [s EXCEPT !.lastError = "UnknownError"] ELSE s
        u == onConnectionStateChanged([t EXCEPT !.state = st], st)
    IN  IF st = "Disconnected" /\ s.state = "Reconnecting"
        THEN [u EXCEPT !.state = "Reconnecting"]
        ELSE [u EXCEPT !.emitted = st]

\* Mutant: the attempt limit is off by one.
RecoverOnceTooOften(s, h, e) ==
    LET t == setConnectionHealth([s EXCEPT !.lastError = e], h)
    IN  IF t.state # "Connected" \/ t.silent \/ t.proto.kind = "None" THEN t
        ELSE IF t.recovery \/ t.pending # "None" \/ t.attempts > MaxRecovery THEN t
        ELSE [StopConnectedTimers(t) EXCEPT !.attempts = @ + 1, !.recovery = TRUE]

\* Mutant: a recovery is counted and promised, but its timer is not started.
RecoverWithoutTimer(s, h, e) ==
    LET t == setConnectionHealth([s EXCEPT !.lastError = e], h)
    IN  IF t.state # "Connected" \/ t.silent \/ t.attempts >= MaxRecovery THEN t
        ELSE [StopConnectedTimers(t) EXCEPT !.attempts = @ + 1]

recoverConnectedTunnel(s, h, e) ==
    LET t == setConnectionHealth([s EXCEPT !.lastError = e], h)
    IN  IF t.state # "Connected" \/ t.silent \/ t.proto.kind = "None"
        THEN [t EXCEPT !.healthTimer = FALSE, !.idleChecks = 0]
        ELSE IF t.recovery \/ t.pending # "None"
        THEN t
        ELSE IF t.attempts >= MaxRecovery
        THEN [t EXCEPT !.healthTimer = FALSE, !.idleChecks = 0]
        ELSE [StopConnectedTimers(t) EXCEPT !.attempts = @ + 1, !.recovery = TRUE]

\* What recoverConnectedTunnel() returns.
Recovers(s) ==
    /\ s.state = "Connected" /\ ~s.silent /\ s.proto.kind # "None"
    /\ s.recovery \/ s.pending # "None" \/ s.attempts < MaxRecovery

\* VpnProtocol::stop() as the object sees it: idempotent, silenced at once for
\* Xray; a WireGuard backend may still have messages on its socket.
StopObject(p) ==
    IF p.stopped THEN p
    ELSE [p EXCEPT !.stopped = TRUE, !.st = "Disconnected",
                   !.live = @ /\ p.kind = "WireGuard"]

handleSilentReconnectFailure(s, h, e) ==
    LET t == [s EXCEPT !.watchdog = FALSE, !.silent = FALSE,
                       !.proto = [StopObject(@) EXCEPT !.wired = "none"]]
        u == recoverConnectedTunnel(t, h, e)
    IN  IF Recovers(t) THEN u ELSE EnterState(u, "Error")

\* Mutant: a Disconnected signal is not filtered during a silent reconnect.
SetStateUnfiltered(s, st) ==
    IF st = "Disconnected" /\ (s.stopping \/ (s.state = "Error" /\ s.lastError # "NoError"))
    THEN s ELSE EnterState([s EXCEPT !.silent = @ /\ st # "Disconnected"], st)

\* Mutant: the Disconnected of a teardown overrides the Error that caused it.
SetStateOverError(s, st) ==
    IF st = "Disconnected" /\ s.silent /\ s.state = "Connected"
    THEN handleSilentReconnectFailure(s, "LocalServiceUnavailable", "AmneziaServiceConnectionFailed")
    ELSE IF st = "Disconnected" /\ s.stopping THEN s ELSE EnterState(s, st)

\* setConnectionState() for every state but Connected.
setConnectionState(s, st) ==
    IF st = "Disconnected" /\ s.silent /\ s.state = "Connected"
    THEN handleSilentReconnectFailure(s, "LocalServiceUnavailable", "AmneziaServiceConnectionFailed")
    ELSE IF st = "Disconnected" /\ (s.stopping \/ (s.state = "Error" /\ s.lastError # "NoError"))
    THEN s
    ELSE EnterState(s, st)

\* VpnProtocol::setConnectionState(): a change is signalled once.
SignalState(s, st) ==
    LET t == [s EXCEPT !.proto.st = st]
    IN  IF s.proto.st = st THEN s
        ELSE IF s.proto.wired = "none" THEN t
        ELSE setConnectionState(t, st)

\* m_vpnProtocol->stop() with its synchronous Disconnected signal.
StopProtocol(s) ==
    LET t == [s EXCEPT !.proto = StopObject(@)]
    IN  IF s.proto.stopped \/ s.proto.wired = "none" \/ s.proto.st = "Disconnected" THEN t
        ELSE setConnectionState(t, "Disconnected")

\* m_vpnProtocol is reset or replaced: its timers die with it, and a slot that
\* waits in start() finds that the protocol is not its own any more.
ReplaceProtocol(s, p) ==
    [s EXCEPT !.proto = p, !.siteTimer = FALSE,
              !.stack = [i \in DOMAIN @ |-> [@[i] EXCEPT !.mine = FALSE]]]

\* The first half of setConnectionState(Connected): up to its first wait.
EnterConnected(s) ==
    setConnectionHealth([s EXCEPT !.silent = FALSE, !.state = "Connected", !.watchdog = FALSE],
                        "ApplyingRoutes")

\* Mutant: an early return of the handler skips the signal.
FinishWithoutSignal(s) == startConnectedHealthCheck(s)

\* Its end: the health check is started and the signal emitted, whatever the
\* state has become meanwhile.
FinishConnected(s) == [startConnectedHealthCheck(s) EXCEPT !.emitted = "Connected"]

onProtocolError(s, e) ==
    IF s.silent /\ e \in RecoverableErrors
    THEN handleSilentReconnectFailure(s, connectionHealthForError(e), e)
    ELSE LET t == [s EXCEPT !.lastError = e]
             u == IF e \in {"AmneziaServiceConnectionFailed", "VpnBackendFailure"}
                  THEN setConnectionHealth(t, "LocalServiceUnavailable") ELSE t
         IN  IF s.state \in {"Disconnected", "Disconnecting"} THEN u
             ELSE setConnectionState([u EXCEPT !.silent = FALSE], "Error")

\* A failed start: the error, its diagnostic and the Error state.
FailWith(s, e, h) ==
    setConnectionState(setConnectionHealth([s EXCEPT !.lastError = e], h), "Error")

-----------------------------------------------------------------------------
(* Starting and restarting the protocol. *)

startConfiguredConnection(s) ==
    LET t == [stopPendingNetworkAction(s) EXCEPT !.watchdog = TRUE]
        u == ReplaceProtocol(t, NewProtocol(s.kind))
    IN  CASE s.kind = "Unsupported" ->
               setConnectionState([ReplaceProtocol(t, NullProtocol) EXCEPT
                                     !.lastError = "InternalError"], "Error")
          [] s.kind = "WireGuard" ->
               IF u.silent THEN u ELSE setConnectionHealth(u, "WaitingHandshake")
          [] OTHER -> Push(u, "start", FALSE)

\* Mutant: a deferred start has no deadline.
DeferWithoutDeadline(s, action, h) ==
    setConnectionHealth([s EXCEPT !.pending = action, !.watchdog = FALSE, !.recovery = FALSE,
                                  !.probe = FALSE], h)

deferAction(s, action, h) ==
    setConnectionHealth(
        [s EXCEPT !.pending = action, !.deadline = @ \/ action = "StartConnection",
                  !.watchdog = FALSE, !.recovery = FALSE, !.probe = FALSE], h)

\* startSilentReconnect() up to its readiness query.
startSilentReconnect(s) == IF s.silent THEN s ELSE Push(s, "readySilent", FALSE)

\* Mutant: the restart does not arm the watchdog.
RestartUnwatched(s) ==
    LET t == setConnectionHealth([stopPendingNetworkAction(s) EXCEPT
                 !.recovery = FALSE, !.silent = TRUE, !.watchdog = FALSE], "Recovering")
    IN  ReplaceProtocol(t, [NewProtocol(s.kind) EXCEPT !.live = TRUE])

\* The rest of it, once the physical network is ready.
RestartProtocol(s) ==
    LET t == setConnectionHealth([stopPendingNetworkAction(s) EXCEPT
                 !.recovery = FALSE, !.silent = TRUE, !.watchdog = FALSE], "Recovering")
        u == [ReplaceProtocol(t, NewProtocol(s.kind)) EXCEPT !.watchdog = TRUE]
    IN  IF s.proto.kind = "None" THEN [t EXCEPT !.crashed = TRUE]
        ELSE CASE s.kind = "Unsupported" ->
                    FailWith([ReplaceProtocol(t, NullProtocol) EXCEPT !.silent = FALSE],
                             "InternalError", "ProtocolStartFailed")
               [] s.kind = "WireGuard"  -> setConnectionHealth(u, "Recovering")
               [] OTHER                 -> Push(u, "restart", FALSE)

\* reconnectToVpn() up to its readiness query.
MayReconnect(s) ==
    /\ s.proto.kind # "None" /\ s.state = "Connected"
    /\ ~s.silent /\ ~s.recovery /\ s.pending = "None"

reconnectToVpn(s) == IF MayReconnect(s) THEN Push(s, "readyReconnect", FALSE) ELSE s

\* The rest of it: the attempt counter restarts unless a silent reconnect runs.
CountedReconnect(s) ==
    LET n == IF s.silent THEN s.attempts ELSE 0
    IN  IF n >= MaxRecovery THEN [s EXCEPT !.attempts = n]
        ELSE startSilentReconnect([s EXCEPT !.attempts = n + 1])

-----------------------------------------------------------------------------
(* The user's requests and the service's network signals. *)

\* The signals after which the UI offers to disconnect instead of to connect.
Active == {"Connecting", "Connected", "Disconnecting", "Reconnecting"}

connectToVpn(k) ==
    /\ CanDispatch(vc) /\ vc.emitted \notin Active
    /\ LET t == [stopPendingNetworkAction(vc) EXCEPT !.lastError = "NoError", !.attempts = 0,
                    !.recovery = FALSE, !.stopping = FALSE, !.kind = k]
       IN  vc' = Push(setConnectionState(t, "Connecting"), "protect", FALSE)
    /\ asked' = "on"

disconnectFromVpn ==
    /\ CanDispatch(vc) /\ vc.emitted \in Active
    /\ vc' = Push(vc, "release", FALSE)
    /\ asked' = "off"

\* networkChanged and wakeup of the service.
NetworkChanged ==
    /\ CanDispatch(vc) /\ MayReconnect(vc)
    /\ vc' = reconnectToVpn(vc)
    /\ UNCHANGED asked

\* The one-second pending timer, and physicalNetworkReadyChanged(true).
resumePendingNetworkAction ==
    /\ CanDispatch(vc) /\ vc.pending # "None"
    /\ vc' = Push(vc, "resume", FALSE)
    /\ UNCHANGED asked

\* openConnection() reports its progress and its failures as diagnostics.
setConnectionDiagnostic(h) ==
    /\ CanDispatch(vc) /\ vc.emitted \notin Active
    /\ vc' = setConnectionHealth(vc, h)
    /\ UNCHANGED asked

-----------------------------------------------------------------------------
(* Replies of the service: the topmost slot runs on. *)

\* connectToVpn() after setConnectionProtection(true).
ReplyProtect(ok) ==
    /\ WaitsAt(vc, {"protect"})
    /\ LET s == Pop(vc)
           unwired == [s EXCEPT !.proto.wired = IF @ = "all" THEN "state" ELSE @]
       IN  vc' = IF ok
                 THEN Push(ReplaceProtocol(StopProtocol(unwired), NullProtocol), "readyStart", FALSE)
                 ELSE FailWith(s, "AmneziaServiceConnectionFailed", "LocalServiceUnavailable")
    /\ UNCHANGED asked

\* deferUntilPhysicalNetworkReady() after physicalNetworkReady(), in its three callers.
ReplyReady(ready) ==
    /\ WaitsAt(vc, {"readyStart", "readyReconnect", "readySilent"})
    /\ LET s == Pop(vc)
           at == Top(vc).at
       IN  vc' = CASE at = "readyStart" ->
                        IF ready THEN startConfiguredConnection(s)
                        ELSE deferAction(s, "StartConnection", "CheckingLocalNetwork")
                   [] at = "readyReconnect" ->
                        IF ready THEN CountedReconnect(s)
                        ELSE deferAction(s, "RequestReconnect", "Recovering")
                   [] OTHER ->
                        IF ready THEN RestartProtocol(s)
                        ELSE deferAction(s, "StartSilentReconnect", "Recovering")
    /\ UNCHANGED asked

\* resumePendingNetworkAction() after physicalNetworkReady().
ReplyResume(ready) ==
    /\ WaitsAt(vc, {"resume"})
    /\ LET s == Pop(vc)
           t == stopPendingNetworkAction(s)
       IN  vc' = IF ~ready \/ s.pending = "None" THEN s
                 ELSE CASE s.pending = "StartConnection" /\ s.state = "Connecting" ->
                             startConfiguredConnection(t)
                        [] s.pending = "RequestReconnect" /\ s.state = "Connected" ->
                             reconnectToVpn(t)
                        [] s.pending = "StartSilentReconnect" /\ s.state = "Connected" ->
                             startSilentReconnect(t)
                        [] OTHER -> t
    /\ UNCHANGED asked

\* XrayProtocol::start() returns to startConfiguredConnection() or to
\* startSilentReconnect(); a stopped object returns NoError.
ReplyStart(e) ==
    /\ WaitsAt(vc, {"start", "restart"})
    /\ (~Top(vc).mine \/ vc.proto.stopped) => e = "NoError"
    /\ LET s == Pop(vc)
           started == [s EXCEPT !.proto.live = ~s.proto.stopped]
           restarting == Top(vc).at = "restart"
       IN  vc' = IF ~Top(vc).mine THEN s
                 ELSE CASE e = "NoError" /\ restarting ->
                             IF s.silent THEN setConnectionHealth(started, "Recovering") ELSE started
                        [] e = "NoError" /\ ~restarting ->
                             IF s.silent THEN started
                             ELSE setConnectionHealth(started, "WaitingHandshake")
                        [] e # "NoError" /\ restarting /\ e \in RecoverableErrors ->
                             handleSilentReconnectFailure(s, connectionHealthForError(e), e)
                        [] e # "NoError" /\ restarting /\ e \notin RecoverableErrors ->
                             FailWith([s EXCEPT !.watchdog = FALSE, !.silent = FALSE],
                                      e, "ProtocolStartFailed")
                        [] OTHER -> FailWith(s, e, "ProtocolStartFailed")
    /\ UNCHANGED asked

\* Mutant: disconnectFromVpn() leaves the final state to the daemon's callback.
ReleaseWithoutFinalState ==
    /\ WaitsAt(vc, {"release"})
    /\ LET s == [stopPendingNetworkAction(Pop(vc)) EXCEPT !.silent = FALSE, !.stopping = FALSE,
                    !.attempts = 0, !.recovery = FALSE, !.watchdog = FALSE]
       IN  vc' = IF s.proto.kind = "None" THEN setConnectionState(s, "Disconnected")
                 ELSE ReplaceProtocol(StopProtocol(setConnectionState(s, "Disconnecting")), NullProtocol)
    /\ UNCHANGED asked

\* disconnectFromVpn() after setConnectionProtection(false), whatever it answered.
ReplyRelease ==
    /\ WaitsAt(vc, {"release"})
    /\ LET s == [stopPendingNetworkAction(Pop(vc)) EXCEPT !.silent = FALSE, !.stopping = FALSE,
                    !.attempts = 0, !.recovery = FALSE, !.watchdog = FALSE]
           t == ReplaceProtocol(StopProtocol(setConnectionState(s, "Disconnecting")), NullProtocol)
       IN  vc' = IF s.proto.kind = "None" THEN setConnectionState(s, "Disconnected")
                 ELSE IF t.state = "Disconnecting" THEN setConnectionState(t, "Disconnected")
                 ELSE t
    /\ UNCHANGED asked

-----------------------------------------------------------------------------
(* setConnectionState(Connected) on the legacy path: DNS flush and routes. *)

\* The failure a wait of the Connected handler reports.
FailureAt(at) ==
    CASE at \in {"flush", "dnsRoutes"}          -> "DnsFailed"
      [] at \in {"halves", "remote", "sites"} -> "RouteMismatch"
      [] OTHER                                -> "FirewallBlocked"

\* The topmost slot runs on after a reply at its wait.
AfterReply(s, ok) == IF ok THEN Pop(s) ELSE setConnectionHealth(Pop(s), FailureAt(Top(s).at))

\* The slot is over; if it is setConnectionState(Connected), its end still runs.
EndSlot(s, emit) == IF emit THEN FinishConnected(s) ELSE s

\* addSitesRoutes(): any: the saved sites have addresses.
addSitesRoutes(s, any, emit) ==
    IF any /\ LegacyRouting(s) THEN Push(setConnectionHealth(s, "ApplyingRoutes"), "sites", emit)
    ELSE EndSlot(s, emit)

\* The reply to flushDns: m_vpnProtocol is dereferenced, then the routes follow the mode.
ReplyFlush(ok, mode) ==
    /\ WaitsAt(vc, {"flush"})
    /\ LET s == AfterReply(vc, ok)
       IN  vc' = IF s.proto.kind = "None" THEN [s EXCEPT !.crashed = TRUE]
                 ELSE CASE mode = "VpnAllSites" -> FinishConnected(configureDnsSplitTunnel(s))
                        [] mode = "VpnOnlyForwardSites" ->
                             FinishConnected([s EXCEPT !.siteTimer = TRUE])
                        [] OTHER -> Push(setConnectionHealth(s, "ApplyingRoutes"), "halves", TRUE)
    /\ UNCHANGED asked

\* VpnAllExceptSites: the two half routes, the server's route, the DNS servers' routes.
ReplyExceptRoutes(ok, any) ==
    /\ WaitsAt(vc, {"halves", "remote", "dnsRoutes"})
    /\ LET s == AfterReply(vc, ok)
           at == Top(vc).at
       IN  vc' = IF s.proto.kind = "None" THEN [s EXCEPT !.crashed = TRUE]
                 ELSE CASE at = "halves" -> Push(s, "remote", TRUE)
                        [] at = "remote" ->
                             Push(setConnectionHealth(s, "CheckingDns"), "dnsRoutes", TRUE)
                        [] OTHER -> addSitesRoutes(configureDnsSplitTunnel(s), any, TRUE)
    /\ UNCHANGED asked

\* addSplitTunnelRoutes(): the routes, then the kill switch's allow list (allow).
ReplySites(ok, allow) ==
    /\ WaitsAt(vc, {"sites", "firewall"})
    /\ LET s == AfterReply(vc, ok)
           emit == Top(vc).emit
       IN  vc' = IF Top(vc).at = "sites" /\ allow
                 THEN Push(setConnectionHealth(s, "CheckingFirewall"), "firewall", emit)
                 ELSE EndSlot(s, emit)
    /\ UNCHANGED asked

\* The one-second timer of VpnOnlyForwardSites.
SiteRoutesTimer(any) ==
    /\ CanDispatch(vc) /\ vc.siteTimer
    /\ vc' = addSitesRoutes(configureDnsSplitTunnel([vc EXCEPT !.siteTimer = FALSE]), any, FALSE)
    /\ UNCHANGED asked

\* The site settings change while connected.
refreshSiteSplitTunnelRoutes(any) ==
    /\ CanDispatch(vc) /\ vc.state = "Connected" /\ LegacyRouting(vc)
    /\ vc' = addSitesRoutes(configureDnsSplitTunnel(vc), any, FALSE)
    /\ UNCHANGED asked

\* The asynchronous reply to configureDnsSplitTunnel.
DnsSplitTunnelReply(ok) ==
    /\ CanDispatch(vc) /\ vc.dnsReply
    /\ LET s == [vc EXCEPT !.dnsReply = FALSE]
       IN  vc' = IF ok THEN s ELSE setConnectionHealth(s, "DnsFailed")
    /\ UNCHANGED asked

-----------------------------------------------------------------------------
(* Timers, health checks and probes. *)

onConnectingTimedOut(s) ==
    LET failed == setConnectionHealth([s EXCEPT !.lastError = "VpnHandshakeTimeout"],
                                      "HandshakeTimeout")
        stopped == StopProtocol([failed EXCEPT !.stopping = s.proto.kind # "None"])
    IN  CASE s.silent /\ s.state = "Connected" ->
               handleSilentReconnectFailure(s, "HandshakeTimeout", "VpnHandshakeTimeout")
          [] s.state \in {"Connecting", "Reconnecting"} ->
               [setConnectionState(stopped, "Error") EXCEPT !.stopping = FALSE]
          [] OTHER -> s

TimesOut(s) == s.state \in {"Connecting", "Reconnecting"}

ConnectingTimeout ==
    /\ CanDispatch(vc) /\ vc.watchdog
    /\ vc' = onConnectingTimedOut([vc EXCEPT !.watchdog = FALSE])
    /\ asked' = IF TimesOut(vc) THEN "timedOut" ELSE asked

\* No physical route after 20 s: only a first connect attempt gives up.
PendingDeadline ==
    /\ CanDispatch(vc) /\ vc.deadline
    /\ LET s == [vc EXCEPT !.deadline = FALSE]
           gaveUp == vc.pending = "StartConnection"
       IN  /\ vc' = IF gaveUp THEN onConnectingTimedOut(stopPendingNetworkAction(s)) ELSE s
           /\ asked' = IF gaveUp /\ TimesOut(vc) THEN "timedOut" ELSE asked

RecoveryTimeout ==
    /\ CanDispatch(vc) /\ vc.recovery
    /\ LET s == [vc EXCEPT !.recovery = FALSE]
       IN  vc' = IF s.state = "Connected" /\ ~s.silent /\ s.proto.kind # "None"
                 THEN startSilentReconnect(s) ELSE s
    /\ UNCHANGED asked

\* checkConnectedHealth(): a DNS lookup, and a probe at once for a protocol
\* without status requests, after MaxChecks silent checks for WireGuard.
checkConnectedHealth(s) ==
    LET n == IF s.idleChecks < MaxChecks THEN s.idleChecks + 1 ELSE MaxChecks
        t == [s EXCEPT !.lookup = TRUE]
    IN  CASE s.state # "Connected" -> [s EXCEPT !.healthTimer = FALSE, !.idleChecks = 0]
          [] s.state = "Connected" /\ s.silent -> s
          [] s.state = "Connected" /\ ~s.silent /\ s.health = "DnsFailed" -> t
          [] OTHER -> IF s.health = "Healthy" \/ s.proto.kind # "WireGuard"
                      THEN [t EXCEPT !.probe = TRUE]
                      ELSE [t EXCEPT !.idleChecks = n, !.probe = @ \/ n >= MaxChecks]

\* The three-second timer; the posted first check always comes before it.
HealthTimeout ==
    /\ CanDispatch(vc) /\ vc.healthTimer /\ ~vc.kick
    /\ vc' = checkConnectedHealth(vc)
    /\ UNCHANGED asked

\* The zero-delay first check of startConnectedHealthCheck().
FirstHealthCheck ==
    /\ CanDispatch(vc) /\ vc.kick
    /\ vc' = [checkConnectedHealth([vc EXCEPT !.kick = FALSE]) EXCEPT !.probe = TRUE]
    /\ UNCHANGED asked

onConnectivityProbeSucceeded ==
    /\ CanDispatch(vc) /\ vc.probe
    /\ LET s == [vc EXCEPT !.probe = FALSE]
           t == [s EXCEPT !.lastError = "NoError", !.attempts = 0]
       IN  vc' = IF s.state # "Connected" THEN s
                 ELSE IF s.health = "DnsFailed" THEN t
                 ELSE setConnectionHealth(t, "Healthy")
    /\ UNCHANGED asked

onConnectivityProbeFailed ==
    /\ CanDispatch(vc) /\ vc.probe
    /\ LET s == [vc EXCEPT !.probe = FALSE]
       IN  vc' = IF s.state # "Connected" \/ s.silent THEN s
                 ELSE recoverConnectedTunnel(s, "NoTraffic", "VpnNoTrafficError")
    /\ UNCHANGED asked

\* The answer to the lookup of checkDnsHealth().
DnsLookupFinished(ok) ==
    /\ CanDispatch(vc) /\ vc.lookup
    /\ LET s == [vc EXCEPT !.lookup = FALSE]
       IN  vc' = CASE s.state # "Connected" \/ s.silent -> s
                   [] s.state = "Connected" /\ ~s.silent /\ ~ok ->
                        recoverConnectedTunnel(s, "DnsFailed", "VpnNoTrafficError")
                   [] OTHER -> IF s.health = "DnsFailed"
                               THEN setConnectionHealth([s EXCEPT !.lastError = "NoError"], "Healthy")
                               ELSE s
    /\ UNCHANGED asked

onBytesChanged ==
    /\ CanDispatch(vc) /\ vc.proto.live /\ vc.proto.wired # "none"
    /\ vc.state = "Connected" /\ vc.idleChecks > 0
    /\ vc' = [vc EXCEPT !.idleChecks = 0]
    /\ UNCHANGED asked

-----------------------------------------------------------------------------
(* Signals of the protocol object. *)

Signals == CanDispatch(vc) /\ vc.proto.live /\ vc.proto.wired # "none"

\* The daemon's handshake, or tun2socks' setup.  A service that is gone (~service)
\* skips the legacy path.
ProtocolConnected(service) ==
    /\ Signals /\ vc.proto.st # "Connected"
    /\ LET s == EnterConnected([vc EXCEPT !.proto.st = "Connected"])
       IN  vc' = IF LegacyRouting(s) /\ service
                 THEN Push(setConnectionHealth(s, "CheckingDns"), "flush", TRUE)
                 ELSE FinishConnected(s)
    /\ UNCHANGED asked

\* The daemon's "disconnected" message; the last one of a stopped object.
WireguardDisconnected ==
    /\ Signals /\ vc.proto.kind = "WireGuard"
    /\ vc' = SignalState([vc EXCEPT !.proto.live = ~vc.proto.stopped], "Disconnected")
    /\ UNCHANGED asked

\* The daemon's "backendFailure": the Error state first, then protocolError.
WireguardBackendFailure ==
    /\ Signals /\ vc.proto.kind = "WireGuard"
    /\ LET s == SignalState([vc EXCEPT !.proto.err = "VpnBackendFailure"], "Error")
       IN  vc' = onProtocolError(s, "VpnBackendFailure")
    /\ UNCHANGED asked

\* Xray stops itself, which signals Disconnected, and then reports the error.
XrayFailure(e) ==
    /\ Signals /\ vc.proto.kind = "Xray"
    /\ vc' = SignalState([StopProtocol(vc) EXCEPT !.proto.err = e], "Error")
    /\ UNCHANGED asked

-----------------------------------------------------------------------------
(* The specification. *)

Init == vc = InitConnection /\ asked = "off"

\* What openConnection() publishes on the way to connectToVpn().
OpenDiagnostics == {"CheckingLocalService", "StartingProtocol", "LocalServiceUnavailable",
                    "ApiUnavailable", "UnknownFailure"}

Requests ==
    \/ \E k \in Kinds : connectToVpn(k)
    \/ disconnectFromVpn
    \/ NetworkChanged
    \/ \E h \in OpenDiagnostics : setConnectionDiagnostic(h)
    \/ \E any \in BOOLEAN : refreshSiteSplitTunnelRoutes(any)

Replies ==
    \/ \E ok \in BOOLEAN : ReplyProtect(ok)
    \/ \E ready \in BOOLEAN : ReplyReady(ready) \/ ReplyResume(ready)
    \/ \E e \in {"NoError"} \cup XrayStartErrors : ReplyStart(e)
    \/ ReplyRelease
    \/ \E ok \in BOOLEAN, mode \in RouteModes : ReplyFlush(ok, mode)
    \/ \E ok, any \in BOOLEAN : ReplyExceptRoutes(ok, any)
    \/ \E ok, allow \in BOOLEAN : ReplySites(ok, allow)

Timers ==
    \/ ConnectingTimeout
    \/ PendingDeadline
    \/ RecoveryTimeout
    \/ resumePendingNetworkAction
    \/ HealthTimeout
    \/ FirstHealthCheck
    \/ \E any \in BOOLEAN : SiteRoutesTimer(any)

Answers ==
    \/ onConnectivityProbeSucceeded
    \/ onConnectivityProbeFailed
    \/ \E ok \in BOOLEAN : DnsLookupFinished(ok)
    \/ \E ok \in BOOLEAN : DnsSplitTunnelReply(ok)
    \/ onBytesChanged

ProtocolSignals ==
    \/ \E service \in BOOLEAN : ProtocolConnected(service)
    \/ WireguardDisconnected
    \/ WireguardBackendFailure
    \/ \E e \in XrayRunErrors : XrayFailure(e)

\* The user starts the client again after a crash.
Relaunch == vc.crashed /\ vc' = InitConnection /\ asked' = "off"

Next == Requests \/ Replies \/ Timers \/ Answers \/ ProtocolSignals \/ Relaunch

Spec == Init /\ [][Next]_vars

\* Fairness.  A waiting slot goes on: waitForFinished() gives up after
\* kIpcReplyTimeoutMsecs, XrayProtocol::start() after its own timeouts.  A timer
\* that is due is dispatched whenever the event loop is back in control, also
\* when slots keep interrupting it.
Fairness ==
    /\ WF_vars(Replies)
    /\ SF_vars(ConnectingTimeout)
    /\ SF_vars(PendingDeadline)

FairSpec == Spec /\ Fairness

-----------------------------------------------------------------------------
(* Properties that hold however deep the waiting slots nest. *)

\* Every member keeps its type; in particular m_connectedRecoveryAttempts never
\* exceeds kMaxConnectedRecoveryAttempts, whatever failures and resets interleave.
TypeOK == vc \in Connections /\ asked \in {"on", "off", "timedOut"}

\* The diagnostic matches the lifecycle: Error names a problem, Disconnected is
\* idle or names the problem of the error kept in m_lastError.  Many slots set the
\* health late (replies, lookups, the ends of nested slots), all through
\* shouldPublishConnectionHealth().
DiagnosticMatchesLifecycle ==
    /\ vc.state = "Error" => vc.health \in Problems
    /\ vc.state = "Disconnected" =>
         vc.health = "Idle" \/ (vc.health \in Problems /\ vc.lastError # "NoError")

\* The automatic recovery timer is armed only in the Connected state: every way out
\* of it stops the timer, so a recovery cannot restart a tunnel the user has left.
RecoveryOnlyWhileConnected == vc.recovery => vc.state = "Connected"

\* The object is in Error for a cause it can name.
ErrorKnown(s) == s.state = "Error" /\ s.lastError \notin {"NoError", "UnknownError"}

\* The watchdog and the deadline fail an attempt with a concrete error code, and it
\* stays: what the teardown and the interrupted slots signal afterwards (Disconnected, a
\* backend failure, late replies) neither clears the code nor makes it generic.  Besides
\* the user's next request, or a disconnect already under way, only a handshake that was
\* on its way leaves the Error state.
TimeoutErrorKept ==
    [][asked' = "timedOut" /\ (asked # "timedOut" \/ ErrorKnown(vc))
         /\ (\A i \in DOMAIN vc.stack : vc.stack[i].at # "release")
         => ErrorKnown(vc') \/ (vc.proto.live /\ vc'.state = "Connected")]_vars

-----------------------------------------------------------------------------
(* Properties of slots that are not interrupted (MaxDepth = 1). *)

\* A silent reconnect runs behind a Connected state with the watchdog armed, a
\* protocol object in place and no second recovery scheduled.
SilentReconnectGuarded ==
    vc.silent => /\ vc.state = "Connected" /\ vc.watchdog
                 /\ vc.proto.kind # "None"
                 /\ ~vc.recovery /\ vc.pending = "None"

\* The Connecting state always has something that will end it: the watchdog, the
\* deadline of an attempt that waits for the network, or a reply under way.
ConnectingBounded ==
    vc.state = "Connecting" =>
        vc.watchdog \/ (vc.deadline /\ vc.pending = "StartConnection") \/ vc.stack # <<>>

\* What the UI was last told is the state, whenever no slot is waiting.
UiShowsState == vc.stack = <<>> => vc.emitted = vc.state

\* Health checks run only while connected.
HealthTimerOnlyWhileConnected == vc.healthTimer => vc.state = "Connected"

\* A failed silent reconnect never leaves a dead tunnel behind "Connected": while the
\* protocol object it has stopped and cut off is in place, another attempt is due.
StoppedTunnelIsRestarted ==
    /\ vc.state = "Connected" /\ vc.stack = <<>>
    /\ vc.proto.kind # "None" /\ vc.proto.wired = "none"
    => vc.recovery \/ vc.pending # "None"

\* A silent reconnect stays silent: from Connected it leads to Error at worst, and
\* to Disconnecting or Disconnected only when the user asked for it.
SilentReconnectHidden ==
    [][vc.silent /\ vc.state = "Connected" /\ asked # "off"
         => vc'.state \in {"Connected", "Error"}]_vars

\* A connection attempt ends: connected, failed by the watchdog or the deadline, or
\* given up by the user.
ConnectingEnds == vc.state = "Connecting" ~> vc.state # "Connecting"

\* A silent reconnect ends, by success or by failure.
SilentReconnectEnds == vc.silent ~> ~vc.silent

\* A disconnect is over after a while, even if the daemon never acknowledges it.
DisconnectCompletes == vc.state = "Disconnecting" ~> vc.state = "Disconnected"

-----------------------------------------------------------------------------
(* What the repository's documents say and the code does not do. *)

\* README: IpcClient::async "replaces synchronous waitForFinished() for route, DNS,
\* and connectivity probe paths", whose nested event loops crashed the client: no
\* slot finds m_vpnProtocol gone after a wait.
NoNullProtocol == ~vc.crashed

\* README: "Manual disconnect force-finalizes to Disconnected after the protocol object
\* is dropped": once the slot of the user's disconnect is over, no slot that was waiting
\* underneath it starts a protocol again.
DisconnectWins == asked = "off" /\ vc.stack = <<>> => vc.proto.kind = "None"

=============================================================================

# A verification project for AlzheimerVPN

AlzheimerVPN is a fork of the AmneziaVPN desktop client for macOS: a Qt/C++
application (`client/`), a privileged service started by launchd
(`service/server/`, `ipc/`), and a WireGuard daemon that runs inside that service
(`client/daemon/`, `client/platforms/macos/daemon/`). This directory holds TLA+
modules for the parts of it that are hard to test, the TLC configurations that check
them and the TLAPS proofs of what holds for every size of the system. "README" below
means the repository's own `README.md`; paths are relative to the repository.

## 1. Inventory

### 1.1 Components, their state and their operations

| component | state | operations | module |
|---|---|---|---|
| `VpnConnection` (`client/vpnConnection.cpp`) | lifecycle state, last error, health, protocol object, nine timers, pending network action, recovery counter, silent-reconnect flag | connect, disconnect, reconnect, resume, protocol signals, timers, health checks, probe and DNS answers | `VpnConnection` |
| protocol objects (`client/core/protocols`) | own state, stopped flag, last error, connected signals | `start`, `stop`, state and error signals | `ProtocolObject` (abstract), `VpnConnection` |
| Xray protocol (`client/core/protocols/xrayProtocol.cpp`) | stop and setup flags, retry counter and timer, tun2socks process | start, stop, set up routing, slots of the process | `XrayProtocol` |
| IPC client (`client/core/utils/ipcClient.*`) | the replica | synchronous calls (`waitForFinished`), `async`, privileged processes | `VpnConnection`, `XrayProtocol` |
| connection controllers (`client/core/controllers/connectionController.cpp`, `client/ui/controllers/connectionUiController.cpp`) | what the UI shows | open, close, toggle | `VpnConnection`, as the guards of requests |
| kill switch (`service/server/killswitch.cpp`, `macosfirewall.cpp`) | connection protection, strict mode, allowed ranges, always-blocked sites, pf anchors and tables | arm, release, enable, disable, refresh, add, remove and reset ranges, set sites, init | `KillSwitch` |
| WireGuard daemon (`client/daemon/daemon.cpp`, `wireguardutilsmacos.cpp`, `macosroutemonitor.cpp`) | connection, counts of excluded addresses, learned addresses, backend, route monitor | activate, switch server, deactivate, handshake check, DNS answers | `WgDaemon`; `KillSwitch` for the firewall |
| system DNS (`dnsutilsmacos.cpp`, two objects) | backups, current resolvers, observer | update, restore, sweep, rules | `SystemDns` |
| router (`service/server/router_mac.cpp`) | routes, DNS leases, cache, prewarm queue of the Xray path | configure, learn and drop addresses, add and clear routes | `SplitTunnelDns` |
| DNS proxy (`dnssplitrouteobserver.cpp`) | rules, pending queries | query, answer | `SplitTunnelDns`, `SystemDns` |
| service processes (`ipc/ipcserverprocess.cpp`, `service/server/xray.cpp`) | xray core, tun2socks processes | start, stop, kill | `XrayProtocol` |
| socket server (`service/server/localserver.cpp`) | number of clients | last client gone | `KillSwitch` |
| gateway controller (`client/core/controllers/gatewayController.cpp`) | proxies | API requests | the hole it opens in strict mode only |
| OpenVPN protocol | | | planned |
| settings, servers, installers over SSH, mobile clients, split-tunnel rule parsing | | | not modelled, see 10 |

### 1.2 How they interact

* The UI calls `ConnectionController`, which posts slots to the thread of
  `VpnConnection` (`connectionController.cpp:31-37`) and receives its state signals.
* `VpnConnection` owns one protocol object. Their signals are direct calls: a
  `stop()` may change the state of the connection before it returns.
* Client and service talk over Qt Remote Objects. A synchronous call spins a nested
  event loop (`ipcClient.h:51-55`) until the reply or a timeout, and that loop
  dispatches any other queued slot of the thread, on top of the waiting one.
* The WireGuard protocol talks to the daemon over a second socket. The two sockets
  end in the same event loop of the service but are not ordered with each other. Each
  tun2socks process has a third one of its own.
* The daemon itself waits for its backend process while it dispatches events
  (`wireguardutilsmacos.cpp:518, 554`): its handlers nest like those of the client.
* The daemon and the router each have a `DnsUtilsMacos`; both write the one set of DNS
  settings of the system.
* The kill switch is shared by all of these. It is one object on one thread, so
  every call is atomic; the order of the calls is not fixed.

### 1.3 What is hard, and what makes it correct

* **Re-entrance.** State read before a wait is used after it. Whatever is dispatched
  in between, diagnostics, timers and the view of the UI must still match the state,
  and a disconnect must win.
* **Late and duplicated answers.** Daemon messages, DNS lookups, probes and replies
  arrive after the state they were sent in is over.
* **Timeouts.** A watchdog fires next to a late handshake or in the middle of a
  silent reconnect; a deferred start has no watchdog; a daemon may never answer.
* **Hidden recovery.** A silent reconnect runs behind "Connected". It must be
  bounded and must not leave a dead tunnel.
* **Ownership of the firewall.** Cleanups of one owner run while another one counts
  on the rules; clients and services crash; other software takes pf away.
* **Things with two owners.** DNS settings, exclusion routes and the allow-list are each
  changed from two or more places that keep their own lists of what to undo.
* **Memory that dies.** Backups and lists are in the memory of a service that may be
  killed at any time, while what they describe stays in the system.

`PROJECT.json` lists these as hazards, each with its line and the properties that
would notice.

## 2. Plan

1. `VpnConnection`: lifecycle with waits and re-entrance. *Done, proofs included.*
2. `KillSwitch`: ownership of the firewall over all callers. *Done, proofs included.*
3. `XrayProtocol`: the order of its service calls, tun2socks retries and their timer,
   the stop flag; it implements `ProtocolObject`, the protocol object that
   `VpnConnection` relies on. *Done.*
4. `SystemDns`: the two DNS objects over one system. *Done.*
5. `SplitTunnelDns`: learned bypass routes, leases and the allow-list. *Done.*
6. `WgDaemon`: activation, switch, deactivation, handshake and exclusion routes with
   nested handlers. *Done.*
7. Open: the UI's own state with its preparing watchdog and its lag; OpenVPN; exclusion
   routes that follow the default route; the composition of client and daemon.
8. Proofs of `SystemDns`, `SplitTunnelDns`, `WgDaemon` and `XrayProtocol`, the refinement
   of `ProtocolObject` included. *Done.*
9. Proofs of the properties of `VpnConnection` that need uninterrupted slots. *Done.*
10. `TimeoutErrorKept` for every protocol and depth. *Done.* Open: which properties of
    uninterrupted slots hold for WireGuard alone at any depth.

## 3. `VpnConnection`

The object, the protocol object it owns and the slots that wait are one record `vc`.
A C++ function that calls others in a row is an operator that applies theirs in the
same order, so a slot is read next to its code. `asked` is the only history variable:
what the user asked for last, and whether the watchdog has failed the attempt.

*Waits.* A slot that calls `waitForFinished()` pushes a frame (where it waits, whether
the protocol it created is still current, whether a signal is still to be emitted). A
`Reply...` action takes the top frame and goes on from there; only the innermost wait
can return. `MaxDepth` bounds the nesting; with 1 nothing is dispatched during a wait.

*Actions.* `Requests` are the slots the UI may post, gated by the last signal it got;
`Replies` the ends of waits; `Timers` the watchdog, the 20 s deadline, recovery, health
and route timers; `Answers` lookups, probes, traffic and asynchronous replies;
`ProtocolSignals` what WireGuard's daemon and the Xray processes report. A slot that
dereferences a null `m_vpnProtocol` sets `crashed`, from where only `Relaunch` goes on.

*Abstractions.* `m_noTrafficRecoveryAttempted`, the probe window and all wording are
only logged. `idleChecks` saturates at `MaxChecks`. Outstanding lookups are one
boolean, and so are outstanding probes. The six waits of `XrayProtocol::start` are
one. The first health check is posted, so it precedes the 3 s timer. The default
server stays the connected one. `onKillSwitchModeChanged` and
`syncAlwaysBlockedSites` touch only the service: they are actions of `KillSwitch`.

### Runs

| run | bounds | shows |
|---|---|---|
| `Lifecycle` (pass) | WireGuard and Xray, all route modes, one recovery, depth 1, fair | silent reconnects are watched and hidden, Connecting is bounded, the UI is told every state, the health timer runs only while connected, no dead tunnel stays behind "Connected"; an attempt, a silent reconnect and a disconnect all end |
| `ReentrantWireguard` (pass) | WireGuard and a container no protocol is known for, one recovery, depth 2 | types and the recovery limit, diagnostics, recovery timer and the error of a timed-out attempt survive re-entrance |
| `NestedCrash` (violation) | depth 2 | README:106; a disconnect inside a silent reconnect's wait leaves a null protocol |
| `NestedDisconnect` (violation) | WireGuard, depth 2 | README:102; a disconnect inside the wait of `connectToVpn` is over before the connect starts its protocol |

`TimeoutErrorKept` is a property of steps. After the watchdog or the deadline has failed
an attempt, it stays in Error with a concrete code (never a generic one, or none) through
everything the teardown and the interrupted slots still signal. What ends it is the user:
the next request, or a disconnect that waits for its release already. One other step leaves
Error: a handshake of a backend that still runs, handled after the watchdog, makes the
connection Connected again. The property says so, for the code does; what follows is in
section 9.

`NestedDisconnect` takes five steps: `connectToVpn` waits for the kill switch;
`disconnectFromVpn` runs in that wait, finds no protocol object and is done once its own
release is answered; the connect's replies come, and it starts the protocol. The wait for
the network query, after it, can be interrupted in the same way. `DisconnectWins` is about
the time when no slot waits, so the counterexample is no artefact of a slot under way.

*Bounds.* The code allows three recoveries; with one, "another attempt" and "attempts
exhausted" both occur, and the theorems have any limit. `MaxChecks = 1` stands for 5: only
"enough checks without traffic" is told apart from "not yet". Depth 2 is the
smallest at which a slot runs inside another one; the theorems of `VpnConnectionProofs`
are for any depth, those of `SingleSlotProofs` for depth 1.

*Fairness* (`FairSpec`). Replies are weakly fair, since every wait has a timeout after
which it goes on as failed. The watchdog and the deadline are strongly fair: they are
single-shot timers that fire once the thread is back in its event loop, but a wait
disables them again and again. Nothing is assumed of the user, the network, the daemon
or the protocol processes. DNS answers and probes need no fairness.

Two statements of the README were looked at without a run. README:83 has "connected"
only after verification: the code signals it before, by design of the health
diagnostics. README:61 has transient steps not overwrite a real failure: this holds in
Error and Disconnected, which is what `DiagnosticMatchesLifecycle` states.

## 4. `KillSwitch`

`fw` is the `KillSwitch` object with what pf enforces: the installed flag, the set of
anchors with rules and the tables of 110.allowNets and 120.blockNets, as the stub in
`tests/killswitch/main.cpp` has them. `Leaves` reads the rule files in
`deploy/data/macos/pf`, where the last matching rule wins. Each C++ call is an operator
on `fw`; `install()` may fail (`ok`).

`conn` is the client's connection, `app` whether the application runs and its setting,
`daemon` and `queue` the WireGuard daemon and the messages it has not read, `leases`
whether the router opens addresses that it learns from DNS. A connect finds every
earlier activate read, since it waits for several answers of the same event loop first.

`hist` says what the properties compare with: `exempt`, the hosts opened since
protection was armed; `armed`, armed and not released by the user; `disturbed`, pf was
taken away or could not be installed; `hole`, whether the server is still in the list of
allowed ranges: `refresh(strict)` takes it off the list ("unlisted"), and the next update,
which starts from the list, then closes it in pf ("lost").

*Two sources of rules.* The client's call follows the setting (`mode`, `sites`). The
daemon's rules follow `allowedIPAddressRanges`, where AllowedIPs of the profile go before
the setting unless they are the default (`localsocketcontroller.cpp:189-247`,
`wireguardutilsmacos.cpp:235-252`). `own` says which case a profile is (the default, another
list with 0.0.0.0/0, ranges without it), `ranges` which hosts such ranges cover. The two
need not agree, and the later call replaces the earlier one's anchors. So
`ProtectionConfines` is about `Tunnelled`: the hosts that both setting and profile send
into the tunnel. A host that only one of them names is open before or after the daemon's
activation, which is what the code does: a profile with ranges of its own has the client
block everything and the daemon open what it does not list.

`EndpointReachable` leaves out profiles whose own ranges cover the server, for example
0.0.0.0/1 with 128.0.0.0/1: the daemon's 120.blockNets then blocks the server itself. It
also leaves out the states after a list emptied by `refresh(strict)` has been used, and,
where the rules are a list or the profile has ranges of its own, those from the refresh on,
since its 100.blockAll meets a table without the server. The connection's next rules end
both.

*Environment.* The application may die at any time (`AppGone`), the service may crash
and be restarted by launchd with pf still loaded (`ServiceRestart`; `KeepAlive` in
`deploy/data/macos/AmneziaVPN.plist`), other software may disable pf (`PfDisabled`).

*Abstractions.* Addresses are model values; loopback, DHCP, LAN and DNS have anchors of
their own and are none of the hosts. The daemon uses `conn.cfg`, the configuration of
the activate it reads. A split-tunnel answer in the daemon may belong to an earlier
configuration than `conn`, so it is not constrained by it. A new list of sites and the
refresh after it are one step. That the wireguard-go process dies by itself is not
modelled. Strict mode is hidden in the settings page, but a stored strict mode is
applied again when the kill switch is switched on.

### Runs

| run | bounds | shows |
|---|---|---|
| `KillSwitch` (pass) | one site, in a list or in the profile's ranges or not, two unread messages | `ProtectionConfines`, `EndpointReachable`: what a protected connection lets out and keeps open; `ListedSitesBlocked`, `StrictBlocks`: what blocks when there is none |
| `RestartedService` (violation) | the same with two sites, and ranges that cover the server | README:243; `m_connectionProtection` does not survive a restart of the service, and the next `disableKillSwitch` removes the rules: that of a protocol cleanup, or of `setAlwaysBlockedSites` when the list of blocked sites changes |

`ConfinedUntilDisconnect` asks for the confinement only of a connection that is connected,
so that the counterexample is one the user would notice: connect, Connected, a restart of
the service, and a cleanup or a change of the list.

*Bounds.* One site besides the server is enough to tell a host that was opened from
one that was not: the same site is listed in one configuration and not in another. What a
connection does not read of its configuration has one value (`XrayConfigs`,
`WireguardConfigs`); without the kill switch that is nearly everything. Two
unread messages are a stop and a start the service has not seen. The theorems have
neither bound. Safety only: every call is answered at once, so there is no progress to
ask for beyond that of `VpnConnection`.

README:51 documents that the idle block ends when the application goes away;
`ListedSitesBlocked` is therefore about the list the service holds.

## 5. `XrayProtocol` and `ProtocolObject`

`ProtocolObject` is what `VpnConnection` relies on: an object is created, may connect,
ends by `stop()` or by an error, and is silent from then on. `XrayProtocol` is shown to
implement it with the current object's number and last signalled state
(`ImplementsProtocolObject`).

`o` is the current object (flags, retry counter and timer, its tun2socks process),
`frames` the slots that wait in nested event loops, `ipc` the calls the service has not
served, `svc` the service (core, uplink routes, resolvers to restore), `proc` the
processes with their own sockets. A slot that goes on after its wait tests
`m_stopRequested` and the guarded pointer (`Alive`), as the code does after each call.
`stop()` sends its four calls and a kill, and waits for none of them, so the next
object's calls follow on the same socket while the kill travels on another one.

*Environment.* tun2socks may find its device busy, crash, or be killed by the `pkill`
of another start; service and client may crash; a call may be answered late, or fail.

*Abstractions.* The arguments of calls are left out. Which optional calls `setupRouting`
makes is chosen at the start of the object (`opts`). A failure and the error signal that
follows it at once are one step. A crash of the service clears `svc.dns`: what it leaves
in the system is the subject of `SystemDns`. `xrayStop` always stops the core and removes
its uplink route: `xray.cpp:85-104` goes on if `amnezia_xray_stop()` or the deletion of the
route fails, and forgets both, so `StoppedIsUndone` and `StoppedSound` assume that they
succeed.

| run | bounds | shows |
|---|---|---|
| `XrayProtocol` (pass) | 2 objects, 3 processes, one retry, depth 2 | a stopped object leaves nothing set up once its calls are served; a connected one has its core, resolvers and tun2socks or is about to learn of its end; no process is forgotten; retries are bounded; the object implements `ProtocolObject` |

*Bounds.* Two objects are what it takes for late calls of one to meet the other. Three
processes are one retry of the first object and the second object's. One retry
stands for five: only "at the limit" is told apart.

## 6. `SystemDns`

`store` is the dynamic store of macOS: the DNS entry of each network service, absent,
the user's, loopback, or a VPN's resolvers. `util` are the two `DnsUtilsMacos` objects.
A handler is a sequence of calls (`run`), each a loop over the network services whose
single writes are steps, so that `Kill` comes between any two of them. `mixed` is the
history the second property needs: an object has taken the other's override for a
setting, or a backup has died with the service. The service has no handler for SIGTERM
(`aboutToQuit`, `localserver.cpp:77-80`, is not emitted), so an ordinary stop of the
service is a kill as well.

*Abstractions.* `user` is what the user has set and does not change within a session.
The dynamic store does not fail. Whether the proxy gets its port is open at each update.

| run | bounds | shows |
|---|---|---|
| `SystemDns` (pass) | two network services, two VPNs | an entry for 127.0.0.1 always has an observer behind it; the user's settings come back |
| `HardKillDns` (violation) | one of each | README:92; only loopback overrides are swept, the VPN's own resolvers survive a kill |

## 7. `SplitTunnelDns`

`router` is `RouterMac`: the rules and gateway in force, the leases and the cache of each
host, the addresses with a learned route (`ips`), the saved routes (`added`), the
queue and the counter of the cache's warming. `lookups` and `query` are answers that are
still to come, `allowed` is the kill switch's list, `kernel` the host routes. The client
sends bursts of calls, which are served in order with answers in between.

*Environment.* The system may refuse to add or to delete each route. The two clears
(`router_mac.cpp:127-136`, `410-425`) empty their lists all the same, and a route that could
not be deleted is "left" in the kernel, as are those of a killed service. Client and service
may die; an interface that goes down takes its routes with it.

*Abstractions.* The server is not among the addresses. Cache entries do not expire, and
the answers of a lookup are any set of addresses. Which gateway a route leads to is not
kept. Whether the proxy runs is the subject of `SystemDns`.

| run | bounds | shows |
|---|---|---|
| `SplitTunnelDns` (pass) | two hosts sharing an address, two gateways, one lookup at a time | leases follow the rules, a route loses its owner only when its deletion is refused, warming neither stalls nor exceeds its limit, no hole in the firewall outlives its route |
| `AllowListSync` (violation) | one host | README:82; the next connection's `enableKillSwitch` empties the list, an unchanged configuration does not fill it |

*Bounds.* Two hosts with a common address, saved with one of them, are the smallest case
in which the two lists of routes overlap and a lease is held twice. One lookup at a time
makes the second host wait. Seven unserved calls are the longest burst behind one that
was cut off by a crash.

## 8. `WgDaemon`

`d` is the daemon with its backend and route monitor. A handler that waits for the
backend is a frame; the innermost returns first. Messages come from the sockets of the
client's protocol objects, each of which has its own and may be stopped before it has
sent anything. `lookups` carry the generation they belong to. The history variables say
for which configurations addresses were learned, and whether a switch or a nested
handler has happened since the last deactivation.

*Environment.* The kernel may refuse routes, each request to the backend may fail, the
backend may die at any time. After a switch has stored the new connection
(`daemon.cpp:619`), setting its resolvers may fail; `activate` then reports the failure and
does not start the handshake timer (`88-107`). `failed` records that, and `HandshakePolled`
is about the connections whose activation was not reported as failed.

*Abstractions.* One connection, as on macOS (no multihop entry). The routes of the
allowed ranges go with the interface. The firewall calls are in `KillSwitch`, the
resolvers in `SystemDns`; here they are flags.

| run | bounds | shows |
|---|---|---|
| `WgDaemon` (pass) | a server, the same with a new key and a bypassed site, another identity; two sockets; depth 2 | counts and routes agree between handlers, late lookups add nothing to a later connection, an unfinished handshake is polled unless the activation failed, stopping tears everything down in whatever order the sockets are read |

*Bounds.* The three configurations are the three branches of `activate`: switch with the
same peer, switch to another peer, full reactivation. Two sockets are an object that is
being stopped and its successor. After a first switch no other is requested while an address
is counted, since counts grow with repeated switches (section 9).

## 9. Disagreements and oddities described without a run

These were met while modelling. The first four are contradictions to the repository's
README that the models can exhibit.

* README:84 has Connecting bounded by a watchdog. `connectToVpn` (`vpnConnection.cpp:750`)
  stops an old object with its state signal still connected; the Disconnected it emits
  is the state in which the new object is then started, and there a watchdog that fires
  does nothing.
* README:97 has the concrete error of a timeout kept. Of the teardown's own Disconnected,
  which is what that line is about, it is (`TimeoutErrorKept`). But a late handshake, handled
  after the watchdog (`1336`) has failed the attempt, makes the connection Connected again,
  and the Disconnected of the teardown after that clears the error (`244-246`).
* README:99 has failing tunnels recover by themselves. Once the attempts are exhausted
  the health timer is off for good (`1590`), also when a late answer reports the tunnel
  healthy again (`1433`, `1562`): a later failure is not noticed.
* README:101 has IPv6 blocked without a leak. A change of the kill-switch setting while a
  WireGuard connection comes up uninstalls all anchors (`killswitch.cpp:172`), the one
  that the daemon has set for IPv6 (`wireguardutilsmacos.cpp:220`) included.

The client's Connected handler has up to seven waits before it emits its signal (`1313`)
and starts the health timer. A slot that runs in one of them may leave Connected; the handler
then emits a state the object has left and starts the timer of a connection that is gone.
`UiShowsState` and `HealthTimerOnlyWhileConnected` are checked for uninterrupted slots only.

The kill switch: rules of the setting and of the profile replace each other (section 4), and a
profile whose own ranges cover its server has the server blocked once the daemon is active.

The daemon:

* A switch to a server with another key deletes the route of the server's address that
  is still counted (`wireguardutilsmacos.cpp:349`); one before the handshake deletes the
  exclusion it has just added (`daemon.cpp:592-600`). Counts grow when switches are
  repeated. Hence `switched` in `CountedIsListed` and `CountsExact`.
* `deactivate` does not stop the handshake timer; a tick without connection is harmless.
* A `deactivate` nested in another one frees `m_connections` under the outer loop
  (`daemon.cpp:526`). The model lets the outer one go on, which is one of the outcomes.
* The assertion that a deleted route is counted (`daemon.cpp:230`) may fail in debug
  builds.
* A backend that dies is not noticed (`wireguardutilsmacos.cpp:73-76`), and an activation
  that fails late leaves the resolvers set until the client's `deactivate`.

The router:

* After a network change the learned addresses are still listed but have no route in the
  kernel, and are not added again; a route that exists keeps its old gateway (EEXIST
  counts as success); a change of the kill-switch flag alone leaves the list as it is.
* `nextQueryId` (`dnssplitrouteobserver.cpp:221`) has no end if all 65535 numbers are
  pending.
* A killed service leaves its routes in the kernel, and so does a refused deletion (`"left"`
  in the model): nobody tries to remove them again.

## 10. Not modelled

* Android, iOS and Windows branches, and Linux in the kill switch: other systems' VPN
  services. The fork's work is on macOS.
* OpenVPN: its management socket emits Connecting and Reconnecting by itself and its
  `stop()` waits. Planned.
* Parsing of split-tunnel rules and of configurations: data. A pure function over
  strings, tested in the repository.
* Installers over SSH, stored settings and servers: I/O without a protocol of their
  own that could go wrong in an order of events.
* Translations: the `.ts` files of the repository are message catalogues of Qt
  (`client/translations`), data without code. All the logic is C++.
* A release of protection that never reaches the service (`vpnConnection.cpp:1222` logs
  a warning), and the order of the two halves of a settings change.
* Changes of the user's own DNS settings during a session, and failures of the dynamic
  store (`dnsutilsmacos.cpp:204`) in `SystemDns`; `WgDaemon` has them as failed activations.

## 11. Proofs

All theorems are for every value of the constants under the named assumptions of the
modules, which TLC evaluates on each run.

**`VpnConnectionProofs`.** `Invariance`: `Spec => []IInv`, from which `TypeCorrect`,
`DiagnosticSound` and `RecoverySound` (`TypeOK`, `DiagnosticMatchesLifecycle`,
`RecoveryOnlyWhileConnected`) follow for any nesting depth, any attempt limit and any
protocol kinds. These properties are not inductive on their own: that a late answer
keeps a diagnostic in order depends on the types of everything it reads, and between
`m_connectionState = state` and the end of its handler the record is in a state no
action leaves. So the proof goes along the functions: `Sound(s)` is about a record,
each operator gets a lemma that it takes sound records to sound ones (or repairs the
intermediate one), and an action composes those lemmas.

`TimeoutErrorSound` (`Spec => TimeoutErrorKept`) is for any depth too. It goes along the same
functions with `Known`: a record in Error with a concrete code stays so through every function
but those of a request, a disconnect's end and a live backend's Connected signal, since
`setConnectionState` drops a Disconnected behind an error, and a later failure brings a
concrete code of its own. A slot that was interrupted at any wait is made of these functions,
so no hypothesis about the stack is needed except that no disconnect is under way.

**`SingleSlotProofs`.** `SlotInvariance`: `Spec => []SInv` for `MaxDepth = 1`, and from it
`SilentGuarded`, `ConnectingSound` and `StoppedTunnelSound` for invariants of the `Lifecycle`
run, `SilentHidden` for its action property, and two theorems on the violations:
`NullProtocolNeedsNesting` and `RevivalNeedsNesting` say that the crash of `NestedCrash` and
the revival of `NestedDisconnect` take a slot that runs during another one's wait. All are for any protocol kinds and route
modes, any attempt limit and any number of checks. The hypothesis is the scope of the
claims, not a fact about the code: event loops do nest there, and at depth 2 most of these
properties are false. What the theorems say is that re-entrance is the only
thing that breaks them: no order of requests, replies, timers, answers and signals does.

None of the properties is inductive. `Slotted` has three parts:

* `Steady`: what holds in every wait and between slots. A silent reconnect has an object
  that is not stopped, wired and has not signalled (`Guarded`), without which its failure
  could find a pending action or an object to stop twice. A stopped object is silent unless
  it is a WireGuard socket (`Owned`). After a timeout the object of another protocol is
  silent (`Failed`), so that nothing can replace the error.
* `Resting`: what holds between slots only.
* `Waiting`, per wait: what the slot has left behind and what it counts on when it runs on.
  For example the slot that waits at `start` has the watchdog armed and an object in place,
  but may be in Disconnected, which the teardown of the object before it has signalled;
  and only the handler of Connected has a signal still to emit.

The functions get effect lemmas (`EnterEffect`, `SilentFailureEffect`,
`StopProtocolEffect`...) that say what becomes of the members the invariant mentions; the
actions are proved from those without record updates. `Hidden`, the step condition of
`SilentReconnectHidden`, is proved along with each action.

**`KillSwitchProofs`.** `Invariance`: `Spec => []IInv`, from which `ProtectionSound`,
`EndpointSound`, `IdleBlockSound` and `StrictSound` follow, one for each property of
the run, for any set of sites and ranges and any number of unread messages. The invariant
says what the rules look like by owner:

* `Guarded`: the anchors of a protected connection, the client's or the daemon's, whichever
  came last: everything is blocked, or a list that holds all of `Tunnelled` (`Listed`).
  Which of the two is known only where setting and profile agree.
* `EndpointOpen`: the server is not in the blocked list, and where everything is blocked it
  must be in the list in memory as well as in the table, since every later update starts
  from the list. `hole` tells how far that is so after `refresh(strict)`.
* `IdleBlock`, `StrictBlock`: the rules when nobody else owns them. A running Xray
  connection owns them without protection, which is why `RunningIsArmed` is needed.
* `OpenedOnPurpose`: list and table are within what was opened, in every state, so
  that a rule set which survives a restart exempts nothing new.
* `InForce`: rules somebody counts on are installed. `SitesNeedKillSwitch` is needed
  for it: switching strict mode on goes through a call that would uninstall the rules
  if sites were listed, and they cannot be while the kill switch is off.

Each call has a lemma (`EnableFacts`, `DisableFacts`, ...), each action a step lemma
that cites them. `ServerAssumption` (no site is the server) is used where a lease
ends, `SiteListsAssumption` for types.

**`SystemDnsProofs`.** `Invariance`, from which `TypeCorrect`, `ServedSound` and
`SettingsSound` follow, one for each property of the run, for any network services and
resolvers. Neither property is inductive, since both are about the time between handlers:

* `Handler`: only the first call of a handler may have begun, and a restore has its sweep
  behind it. `SweepAhead`, a sweep still to come, is what makes it harmless that a
  restore may write back the other object's loopback entry.
* `LoopState`: what is left of a loop is what it was started for. A sweep has only
  loopback entries left, an update has set its resolvers, a restore has backups.
* `ServedOrGoing`: a loopback entry is served, or in the rest of a loop that removes it.
* `BackupsExact`: a changed entry has a backup that is still to be written back. The part
  on the running restore is needed because `m_prevServices` is only cleared at its end.

**`XrayProtocolProofs`.** `Invariance`, `TypeCorrect`, `RetriesSound` (`RetriesBounded`)
and `ObjectRefinement` (`Spec => ImplementsProtocolObject`), for any number of objects,
processes, retries and nested slots. `StartsCounted` is the balance behind the second:
starts done, slots on the way to a start and an armed timer together are at most one more
than the retries counted. Slots are counted by cardinality, so that each kind of change of
the stack (`SlotReturns`, `SlotWaits`, `SlotGoesOn`) is one lemma. For the refinement
`NotEnded` suffices: an object that is not stopped has signalled no end, so each
`stop()` maps to `Stop` or `Fail`, the last reply to `Connect` or a stutter, and each
step of a stopped object to a stutter (`SeenStep`).

**`XrayServiceProofs`.** `ServiceInvariance` (`Spec => []JInv`), on top of the invariant
above, from which `StoppedSound` (`StoppedIsUndone`), `ProcessesSound`
(`NoForgottenProcess`) and `BackedSound` (`ConnectedIsBacked`) follow. `XrayBounds` has at
least one process: with none, the value for an outstanding reply would be the one for
success. None of the three is inductive; the invariant has three parts:

* `Slotted`, the slots. `OneStart`: an object that is not stopped is on the way to a start
  by one slot or by its timer. `OneProcess`: it is so beside a process it has only when
  that one found the device busy and its end was dealt with, since the end of a process is
  noticed once (`EndsOnce`). `FirstStart` is why an error that `startTun2Socks()` returns
  to `start()`, which stops nothing, cannot leave a process behind. `Given` and `Untold`:
  the process a slot has got is idle and was told nothing, so that it is started once.
* `Tracked`, the processes. `Commands`: the socket of a process holds a start, a kill, or
  both in this order. `Remembered`: one that runs or is to run is the object's or has its
  kill behind it. `DeviceOpened`: the `[STACK]` line is the evidence that the process
  behind `setupRouting()` did not fail on a busy device, so its end is not retried.
  `Watched`: its end has a signal, a slot or a retry.
* `Served`, the calls. `Undone`: behind each `xrayStart` and `updateResolvers` of a
  stopped object, served or not, is the call that undoes it. `CoreStarted`: no call that
  undoes anything is behind the object's own `xrayStart`, which holds because `stop()` of
  the object before it came first on the same socket.

The steps are proved by kind (`StopKeeps`, `ReturnKeeps`, `WaitsKeeps`, `SignalTaken`,
`ProcessesKeep`), and each action cites its kinds.

**`SplitTunnelDnsProofs`.** `Invariance`, from which `TypeCorrect`, `LeasesSound`,
`RoutesSound`, `PrewarmSound` and `HolesSound` follow, one for each property of the run,
for any finite set of hosts, any addresses and gateways, and any limit on the lookups
under way. `SitesAssumption` has the hosts finite, the site lists and saved addresses of
their types, and the limit a natural number.

* `SourcesFollowRules`: what may still add a lease (a query, a queued host, a lookup of
  the current generation) is about a host of the rules. Without it `LeasesFollowRules`
  does not survive an answer.
* `QueuedOnce`: a host waits or is looked up, never both, so that the counter of the
  warming is the number of its lookups (a cardinality, hence `FiniteSetTheorems`).
* `HolesAccounted`: the allow-list is what the client gave and what the router has added,
  or the call that sets it anew is the next to be served; and no call on its way turns
  the kill switch off in the router while the client has it on.

**`WgDaemonProofs`.** `Invariance`, from which `TypeCorrect`, `CountsListed`,
`CountsSound`, `LearnedSound`, `PollingSound` and `StopSound` follow, one for each
property of the run, for any configurations, addresses and sockets, and any depth of
nested handlers. `ConfigsAssumption` types the configurations; `NamesAssumption` says
that "no configuration", "no socket" and the timer are not among the real ones. The
properties are about the time between handlers, so each part of the invariant says what
the waiting handlers have left to do:

* `Types`: a frame that activates has a configuration, one that switches has two.
* `Polled`: the timer runs, or a `checkHandshake()` waits that will start it again, or the
  activation has failed.
* `Learning`: after the handshake the rules, the learned routes and the lookups of the
  current generation are of this connection.
* `Counting` (`Undisturbed`): while no handler has run inside that of a request, only the
  innermost frame may be of a request. The counts are then right even while it waits,
  except in a deactivation, which resets them; what makes that reset sufficient is that
  nothing is learned any more (`Unlearned`).
* `Owed`: unread requests and activations under way are of sockets that run or whose last
  request is a deactivation. When no such socket is left, what is left is in the hands of
  a deactivation that waits. This is why the order in which the sockets are read does not
  matter for `StopTearsDown`.

**Only model-checked:** liveness under fairness (`ConnectingEnds`, `SilentReconnectEnds`,
`DisconnectCompletes`), which is beyond the prover; `UiShowsState` and
`HealthTimerOnlyWhileConnected`, for uninterrupted slots; every violation.

## 12. Reading a counterexample

The violations are short (4 to 9 steps). Each property is preceded by the sentence of
the documents it states; `PROJECT.json` has the sentence with its line and the lines of
the code that do otherwise.

## 13. Files

| file | content |
|---|---|
| `VpnConnection.tla`, `KillSwitch.tla`, `XrayProtocol.tla`, `SystemDns.tla`, `SplitTunnelDns.tla`, `WgDaemon.tla` | the models and their properties |
| `ProtocolObject.tla` | the abstract protocol object |
| `MC*.tla` | the instances TLC checks |
| `*Proofs.tla` | the proofs |
| `*.cfg` | one for each run |
| `PROJECT.json` | components, runs, mutated definitions, source lines, findings, hazards, theorems |

Operators named `Disable...`, `Release...`, `Recover...` and the like with the comment
"Mutant" are wrong versions of a definition, used to see that a property notices.

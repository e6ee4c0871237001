-------------------------- MODULE SingleSlotProofs --------------------------
(***************************************************************************)
(* Proofs about VpnConnection when no slot is dispatched during a wait     *)
(* (MaxDepth = 1), for every set of protocols and route modes and every    *)
(* attempt limit: the properties of the lifecycle that re-entrance breaks. *)
(*                                                                         *)
(* The invariant says what holds between slots (Resting) and, for every    *)
(* place where a slot waits, what it has left behind there (Waiting).      *)
(* Under it the proof is a step per action.  First comes what each C++     *)
(* function does to the members the invariant is about, one lemma per      *)
(* function, so that the actions need no record updates.                   *)
(***************************************************************************)
EXTENDS VpnConnectionProofs

-----------------------------------------------------------------------------
(* The invariant. *)

\* A silent reconnect runs behind Connected, watched, with a protocol object that has
\* not signalled yet.
Guarded(s) ==
    s.silent => /\ s.state = "Connected" /\ s.watchdog
                /\ ~s.recovery /\ s.pending = "None"
                /\ s.proto.kind # "None" /\ ~s.proto.stopped
                /\ s.proto.wired = "all" /\ s.proto.st = "Unknown"

\* A null or stopped protocol object is silent, a WireGuard socket apart.
Owned(p) == /\ p.kind = "None" => p.stopped /\ ~p.live
            /\ p.stopped /\ p.kind # "WireGuard" => ~p.live

\* What the watchdog leaves behind, once the teardown is over.
Failed(s) == /\ s.state = "Error" /\ s.lastError \notin {"NoError", "UnknownError"}
             /\ ~s.proto.live

\* What holds of the object in every wait and between slots.
Steady(s, a) ==
    /\ s.state \in {"Disconnected", "Connecting", "Connected", "Error"}
    /\ ~s.stopping /\ ~s.crashed
    /\ Guarded(s) /\ Owned(s.proto)
    /\ s.state = "Connected" => s.proto.kind # "None"
    /\ s.healthTimer => s.state = "Connected"
    /\ s.pending = "StartConnection" => s.proto.kind = "None"
    /\ s.siteTimer => s.proto.kind # "None"
    /\ a # "off" => s.kind # "None"
    /\ a = "timedOut" /\ s.kind # "WireGuard" => Failed(s)

\* Connecting ends by the watchdog or by the deadline.
Bounded(s) ==
    s.state = "Connecting" => s.watchdog \/ (s.deadline /\ s.pending = "StartConnection")

\* A tunnel that was stopped and cut off behind Connected is due to be restarted.
Restarted(s) ==
    s.state = "Connected" /\ s.proto.wired = "none"
        => s.recovery \/ s.pending = "StartSilentReconnect"

\* An attempt under way has no protocol object of another kind.
Matched(s) == s.state = "Connecting" => s.proto.kind \in {"None", s.kind}

\* Between slots.
Resting(s, a) ==
    /\ s.emitted = s.state
    /\ Bounded(s) /\ Restarted(s) /\ Matched(s)
    /\ a = "off" => s.state = "Disconnected" /\ s.proto.kind = "None" /\ s.pending = "None"

\* While a slot waits in frame f.
Waiting(s, a, f) ==
    /\ f.at = "release" <=> a = "off"
    /\ ~f.emit => s.emitted = s.state
    /\ f.emit => s.state = "Connected" /\ ~s.silent
    /\ f.emit => f.at \in {"flush", "halves", "remote", "dnsRoutes", "sites", "firewall"}
    /\ f.at \in {"flush", "halves", "remote", "dnsRoutes"} => f.emit
    /\ f.at # "readySilent" => Restarted(s)
    /\ f.at # "protect" => Matched(s)
    /\ f.at = "protect" => s.state = "Connecting" /\ s.pending = "None" /\ a = "on"
    /\ f.at = "readyStart" => /\ s.state \in {"Connecting", "Disconnected"}
                              /\ s.proto.kind = "None" /\ a = "on"
    /\ f.at = "readyReconnect" => /\ s.state = "Connected" /\ ~s.silent
                                  /\ ~s.recovery /\ s.pending = "None"
    /\ f.at = "readySilent" => s.state = "Connected" /\ ~s.silent
    /\ f.at = "start" => /\ s.state \in {"Connecting", "Disconnected"}
                         /\ s.watchdog /\ s.proto.kind # "None"
    /\ f.at = "restart" => s.silent
    /\ f.at = "release" => s.state \in {"Connecting", "Connected"}
    /\ f.at = "resume" => s.pending # "None" /\ Bounded(s)
    /\ f.at \in {"sites", "firewall"} => Bounded(s)

Slotted(s, a) ==
    /\ Steady(s, a)
    /\ \/ s.stack = <<>> /\ Resting(s, a)
       \/ \E f \in Frames : s.stack = <<f>> /\ Waiting(s, a, f)

\* SilentReconnectHidden of two objects that are not necessarily vc and vc'.
Hidden(s, t, a) == s.silent /\ a # "off" => t.state \in {"Connected", "Error"}

-----------------------------------------------------------------------------
(* What the functions do to the members the invariant is about. *)

\* The members that entering a state leaves alone.
Kept(t, s) ==
    /\ t.silent = s.silent /\ t.stopping = s.stopping /\ t.pending = s.pending
    /\ t.deadline = s.deadline /\ t.kind = s.kind /\ t.crashed = s.crashed
    /\ t.siteTimer = s.siteTimer /\ t.proto = s.proto /\ t.stack = s.stack

\* All of them but the protocol object, its timer and the waiting slots.
Beside(t, s) ==
    /\ t.silent = s.silent /\ t.stopping = s.stopping /\ t.pending = s.pending
    /\ t.deadline = s.deadline /\ t.kind = s.kind /\ t.crashed = s.crashed
    /\ t.state = s.state /\ t.lastError = s.lastError
    /\ t.watchdog = s.watchdog /\ t.healthTimer = s.healthTimer
    /\ t.recovery = s.recovery /\ t.emitted = s.emitted

Same(t, s) ==
    Beside(t, s) /\ t.siteTimer = s.siteTimer /\ t.proto = s.proto /\ t.stack = s.stack

\* A diagnostic is published.
LEMMA HealthSame ==
    ASSUME NEW s \in Connections, NEW h \in Healths
    PROVE  setConnectionHealth(s, h) \in Connections /\ Same(setConnectionHealth(s, h), s)
BY DEF setConnectionHealth, Connections, Same, Beside

\* configureDnsSplitTunnel() posts a call and publishes a diagnostic.
LEMMA DnsSame ==
    ASSUME NEW s \in Connections
    PROVE  configureDnsSplitTunnel(s) \in Connections /\ Same(configureDnsSplitTunnel(s), s)
<1> DEFINE t == setConnectionHealth(s, "CheckingDns")
<1>1. t \in Connections /\ Same(t, s)
  BY HealthSame DEF Healths
<1> HIDE DEF t
<1>2. [t EXCEPT !.dnsReply = TRUE] \in Connections /\ Same([t EXCEPT !.dnsReply = TRUE], t)
  BY <1>1 DEF Connections, Same, Beside
<1>3. Same([t EXCEPT !.dnsReply = TRUE], s) /\ Same(s, s)
  BY <1>1, <1>2 DEF Same, Beside
<1> QED BY <1>2, <1>3 DEF configureDnsSplitTunnel, t

\* setConnectionState() past its early returns.
Enters(t, s, st) ==
    /\ Kept(t, s) /\ t.state = st /\ t.emitted = st
    /\ ~t.recovery /\ ~t.healthTimer
    /\ t.watchdog <=> st = "Connecting"
    /\ st = "Error" /\ s.lastError # "NoError" => t.lastError = s.lastError

\* The timers of the Connected state are stopped, and the watchdog is set.
LEMMA TimersEffect ==
    ASSUME NEW s \in Connections, NEW b \in BOOLEAN
    PROVE  LET t == [StopConnectedTimers(s) EXCEPT !.watchdog = b]
           IN  /\ t \in Connections /\ Kept(t, s)
               /\ t.state = s.state /\ t.emitted = s.emitted /\ t.lastError = s.lastError
               /\ t.recovery = FALSE /\ t.healthTimer = FALSE /\ t.watchdog = b
<1>1. 0 \in 0..MaxChecks
  BY BoundsFacts
<1> QED BY <1>1 DEF StopConnectedTimers, Connections, Kept

\* What setConnectionState() does past its early returns, for every state but Connected.
LEMMA EnterEffect ==
    ASSUME NEW s \in Connections, NEW st \in Entered, s.state # "Reconnecting"
    PROVE  EnterState(s, st) \in Connections /\ Enters(EnterState(s, st), s, st)
<1> DEFINE known == s.lastError # "NoError" \/ s.proto.err # "NoError"
           t == IF st = "Error" /\ ~known THEN [s EXCEPT !.lastError = "UnknownError"] ELSE s
           v == [t EXCEPT !.state = st]
           u == onConnectionStateChanged(v, st)
<1>1. "UnknownError" \in Errors /\ st \in States
  BY DEF Errors, Entered, States
<1>2. /\ t \in Connections /\ Kept(t, s)
      /\ s.lastError # "NoError" => t.lastError = s.lastError
  <2> DEFINE z == [s EXCEPT !.lastError = "UnknownError"]
  <2>1. z \in Connections /\ Kept(z, s) /\ Kept(s, s)
    BY <1>1 DEF Connections, Kept
  <2> HIDE DEF z
  <2>2. t = IF st = "Error" /\ ~known THEN z ELSE s
    BY DEF z
  <2> QED BY <2>1, <2>2
<1>3. /\ v \in Connections /\ v.state = st /\ Kept(v, s)
      /\ s.lastError # "NoError" => v.lastError = s.lastError
  <2> HIDE DEF t
  <2> QED BY <1>1, <1>2 DEF Connections, Kept
<1> HIDE DEF v
<1>4. /\ u \in Connections /\ Kept(u, v) /\ u.state = st
      /\ u.recovery = FALSE /\ u.healthTimer = FALSE /\ (u.watchdog <=> st = "Connecting")
      /\ st = "Error" => u.lastError = v.lastError
  <2>1. CASE st = "Connecting"
    <3> DEFINE h == IF st = "Reconnecting" \/ v.silent THEN "Recovering" ELSE "StartingProtocol"
               w == setConnectionHealth(v, h)
    <3>1. w \in Connections /\ Same(w, v)
      BY <1>3, HealthSame DEF Healths
    <3>2. u = [StopConnectedTimers(w) EXCEPT !.watchdog = TRUE]
      BY <2>1 DEF onConnectionStateChanged
    <3> HIDE DEF w, u
    <3>3. u \in Connections /\ Kept(u, w) /\ u.state = w.state /\ u.recovery = FALSE
          /\ u.healthTimer = FALSE /\ u.watchdog = TRUE
      BY <3>1, <3>2, TimersEffect
    <3> QED BY <1>3, <2>1, <3>1, <3>3 DEF Kept, Same, Beside
  <2>2. CASE st = "Disconnecting"
    <3>1. u = [StopConnectedTimers(v) EXCEPT !.watchdog = FALSE]
      BY <2>2 DEF onConnectionStateChanged
    <3> HIDE DEF u
    <3> QED BY <1>3, <2>2, <3>1, TimersEffect
  <2>3. CASE st = "Disconnected"
    <3> DEFINE p == [StopConnectedTimers(v) EXCEPT !.watchdog = FALSE]
               e == IF v.health \in Problems THEN v.lastError ELSE "NoError"
               q == [StopConnectedTimers(v) EXCEPT !.watchdog = FALSE,
                       !.lastError = IF v.health \in Problems THEN @ ELSE "NoError"]
               w == setConnectionHealth(q, "Idle")
    <3>1. p \in Connections /\ Kept(p, v) /\ p.state = st /\ p.recovery = FALSE
          /\ p.healthTimer = FALSE /\ p.watchdog = FALSE /\ p.lastError = v.lastError
      BY <1>3, TimersEffect
    <3>2. e \in Errors
      BY <1>3 DEF Connections, Errors
    <3>3. StopConnectedTimers(v) \in Connections /\ StopConnectedTimers(v).lastError = v.lastError
      BY <1>3, StopTimersType
    <3>4. q = [p EXCEPT !.lastError = e]
      <4> DEFINE z == StopConnectedTimers(v)
      <4>1. z \in Connections /\ z.lastError = v.lastError
        BY <3>3
      <4> HIDE DEF z
      <4>2. [z EXCEPT !.watchdog = FALSE, !.lastError = IF v.health \in Problems THEN @ ELSE "NoError"]
            = [z EXCEPT !.watchdog = FALSE, !.lastError = e]
        BY <4>1
      <4>3. [z EXCEPT !.watchdog = FALSE, !.lastError = e] = [[z EXCEPT !.watchdog = FALSE] EXCEPT !.lastError = e]
        <5> HIDE DEF e
        <5> QED BY <4>1 DEF Connections
      <4> QED BY <4>2, <4>3 DEF z
    <3>5. u = configureDnsSplitTunnel(w)
      BY <2>3 DEF onConnectionStateChanged
    <3> HIDE DEF p, e, q, u
    <3>6. q \in Connections /\ Kept(q, v) /\ q.state = st /\ q.recovery = FALSE
          /\ q.healthTimer = FALSE /\ q.watchdog = FALSE
      BY <3>1, <3>2, <3>4 DEF Connections, Kept
    <3>7. w \in Connections /\ Same(w, q)
      BY <3>6, HealthSame DEF Healths
    <3> HIDE DEF w
    <3>8. u \in Connections /\ Same(u, w)
      BY <3>5, <3>7, DnsSame
    <3> QED BY <2>3, <3>6, <3>7, <3>8 DEF Kept, Same, Beside
  <2>4. CASE st = "Error"
    <3> DEFINE q == [StopConnectedTimers(v) EXCEPT !.watchdog = FALSE]
               w == IF v.health \in Problems THEN q ELSE setConnectionHealth(q, "UnknownFailure")
    <3>1. q \in Connections /\ Kept(q, v) /\ q.state = st /\ q.recovery = FALSE
          /\ q.healthTimer = FALSE /\ q.watchdog = FALSE /\ q.lastError = v.lastError
      BY <1>3, TimersEffect
    <3>2. u = configureDnsSplitTunnel(w)
      BY <2>4 DEF onConnectionStateChanged
    <3> HIDE DEF q, u
    <3>3. setConnectionHealth(q, "UnknownFailure") \in Connections
          /\ Same(setConnectionHealth(q, "UnknownFailure"), q) /\ Same(q, q)
      BY <3>1, HealthSame DEF Healths, Problems, Same, Beside
    <3>4. w \in Connections /\ Same(w, q)
      BY <3>1, <3>3
    <3> HIDE DEF w
    <3>5. u \in Connections /\ Same(u, w)
      BY <3>2, <3>4, DnsSame
    <3> QED BY <2>4, <3>1, <3>4, <3>5 DEF Kept, Same, Beside
  <2> QED BY <2>1, <2>2, <2>3, <2>4 DEF Entered
<1>5. EnterState(s, st) = [u EXCEPT !.emitted = st]
  BY DEF EnterState, v
<1> HIDE DEF u
<1>6. [u EXCEPT !.emitted = st] \in Connections /\ [u EXCEPT !.emitted = st].emitted = st
      /\ Kept([u EXCEPT !.emitted = st], u)
      /\ [u EXCEPT !.emitted = st].state = u.state /\ [u EXCEPT !.emitted = st].recovery = u.recovery
      /\ [u EXCEPT !.emitted = st].healthTimer = u.healthTimer
      /\ [u EXCEPT !.emitted = st].watchdog = u.watchdog
      /\ [u EXCEPT !.emitted = st].lastError = u.lastError
  BY <1>1, <1>4 DEF Connections, Kept
<1> DEFINE r == [u EXCEPT !.emitted = st]
<1> HIDE DEF r
<1>7. /\ r \in Connections /\ r.emitted = st /\ Kept(r, u) /\ r.state = u.state
      /\ r.recovery = u.recovery /\ r.healthTimer = u.healthTimer /\ r.watchdog = u.watchdog
      /\ r.lastError = u.lastError
  BY <1>6 DEF r
<1>8. Enters(r, s, st)
  BY <1>3, <1>4, <1>7 DEF Enters, Kept
<1> QED BY <1>5, <1>7, <1>8 DEF r

\* stop(): the object is stopped, and silent unless it is a WireGuard socket.
LEMMA StopObjectEffect ==
    ASSUME NEW p \in Protocols, Owned(p)
    PROVE  LET q == StopObject(p)
           IN  /\ q \in Protocols /\ Owned(q) /\ q.stopped
               /\ q.kind = p.kind /\ q.wired = p.wired
               /\ ~p.stopped => q.st = "Disconnected"
               /\ p.kind # "WireGuard" => ~q.live
<1>1. StopObject(p) \in Protocols
  BY StopObjectType
<1> QED BY <1>1 DEF StopObject, Protocols, Owned

\* setConnectionState(), silent reconnects and filtered signals apart.
LEMMA SetStateEffect ==
    ASSUME NEW s \in Connections, NEW st \in Entered, s.state # "Reconnecting",
           st = "Disconnected" => ~s.silent
    PROVE  LET t == setConnectionState(s, st)
           IN  /\ t \in Connections
               /\ \/ Enters(t, s, st)
                  \/ t = s /\ st = "Disconnected" /\ (s.stopping \/ s.state = "Error")
<1>1. EnterState(s, st) \in Connections /\ Enters(EnterState(s, st), s, st)
  BY EnterEffect
<1> QED BY <1>1 DEF setConnectionState

\* recoverConnectedTunnel() arms the recovery or leaves things as they are.
LEMMA RecoverEffect ==
    ASSUME NEW s \in Connections, NEW h \in Healths, NEW e \in Errors
    PROVE  LET t == recoverConnectedTunnel(s, h, e)
           IN  /\ t \in Connections /\ Kept(t, s) /\ t.state = s.state
               /\ t.emitted = s.emitted /\ t.lastError = e /\ t.watchdog = s.watchdog
               /\ t.healthTimer => s.healthTimer
               /\ s.recovery => t.recovery
               /\ t.recovery => s.recovery
                                \/ (s.state = "Connected" /\ ~s.silent /\ s.pending = "None")
               /\ Recovers(s) => t.recovery \/ t.pending # "None"
<1> DEFINE r == [s EXCEPT !.lastError = e]
           t == setConnectionHealth(r, h)
           x == [t EXCEPT !.healthTimer = FALSE, !.idleChecks = 0]
           z == StopConnectedTimers(t)
           y == [z EXCEPT !.attempts = @ + 1, !.recovery = TRUE]
<1>1. /\ r \in Connections /\ Kept(r, s) /\ r.state = s.state /\ r.emitted = s.emitted
      /\ r.lastError = e /\ r.watchdog = s.watchdog /\ r.healthTimer = s.healthTimer
      /\ r.recovery = s.recovery /\ r.attempts = s.attempts
  BY DEF Connections, Kept
<1> HIDE DEF r
<1>2. t \in Connections /\ Same(t, r) /\ t.attempts = r.attempts
  BY <1>1, HealthSame DEF setConnectionHealth, Connections
<1> HIDE DEF t
<1>3. /\ t \in Connections /\ Kept(t, s) /\ t.state = s.state /\ t.emitted = s.emitted
      /\ t.lastError = e /\ t.watchdog = s.watchdog /\ t.healthTimer = s.healthTimer
      /\ t.recovery = s.recovery /\ t.attempts = s.attempts
  BY <1>1, <1>2 DEF Same, Beside, Kept
<1>4. 0 \in 0..MaxChecks
  BY BoundsFacts
<1>5. /\ x \in Connections /\ Kept(x, t) /\ x.state = t.state /\ x.emitted = t.emitted
      /\ x.lastError = t.lastError /\ x.watchdog = t.watchdog /\ x.healthTimer = FALSE
      /\ x.recovery = t.recovery
  BY <1>3, <1>4 DEF Connections, Kept
<1>6. /\ z \in Connections /\ Kept(z, t) /\ z.state = t.state /\ z.emitted = t.emitted
      /\ z.lastError = t.lastError /\ z.watchdog = t.watchdog /\ z.healthTimer = FALSE
      /\ z.attempts = t.attempts
  <2>1. z \in Connections
    BY <1>3, StopTimersType
  <2>2. /\ z.state = t.state /\ z.emitted = t.emitted /\ z.lastError = t.lastError
        /\ z.watchdog = t.watchdog /\ z.healthTimer = FALSE /\ z.attempts = t.attempts
    BY <1>3 DEF StopConnectedTimers, Connections
  <2>3. Kept(z, t)
    BY <1>3 DEF StopConnectedTimers, Connections, Kept
  <2> QED BY <2>1, <2>2, <2>3
<1> HIDE DEF z
<1>7. ASSUME ~(t.attempts >= MaxRecovery)
      PROVE  /\ y \in Connections /\ Kept(y, z) /\ y.state = z.state /\ y.emitted = z.emitted
             /\ y.lastError = z.lastError /\ y.watchdog = z.watchdog
             /\ y.healthTimer = z.healthTimer /\ y.recovery = TRUE
  <2>1. t.attempts + 1 \in 0..MaxRecovery
    <3>1. t.attempts \in 0..MaxRecovery
      BY <1>3 DEF Connections
    <3> QED BY <1>7, <3>1, BoundsAssumption
  <2>2. z.attempts + 1 \in 0..MaxRecovery
    BY <1>6, <2>1
  <2> QED BY <1>6, <2>2 DEF Connections, Kept
<1>8. recoverConnectedTunnel(s, h, e) =
        IF t.state # "Connected" \/ t.silent \/ t.proto.kind = "None" THEN x
        ELSE IF t.recovery \/ t.pending # "None" THEN t
        ELSE IF t.attempts >= MaxRecovery THEN x ELSE y
  BY DEF recoverConnectedTunnel, t, r, z
<1>9. Recovers(s) => /\ ~(t.state # "Connected" \/ t.silent \/ t.proto.kind = "None")
                     /\ t.recovery \/ t.pending # "None" \/ ~(t.attempts >= MaxRecovery)
  <2>1. s.attempts \in Nat /\ MaxRecovery \in Nat
    BY BoundsAssumption DEF Connections
  <2>2. s.attempts < MaxRecovery => ~(s.attempts >= MaxRecovery)
    BY <2>1
  <2> QED BY <1>3, <2>2 DEF Recovers, Kept
<1> HIDE DEF x, y
<1>10. CASE t.state # "Connected" \/ t.silent \/ t.proto.kind = "None"
  BY <1>3, <1>5, <1>8, <1>9, <1>10 DEF Kept
<1>11. CASE ~(t.state # "Connected" \/ t.silent \/ t.proto.kind = "None")
            /\ (t.recovery \/ t.pending # "None")
  BY <1>3, <1>8, <1>11 DEF Kept
<1>12. CASE ~(t.state # "Connected" \/ t.silent \/ t.proto.kind = "None")
            /\ ~(t.recovery \/ t.pending # "None") /\ t.attempts >= MaxRecovery
  BY <1>3, <1>5, <1>8, <1>9, <1>12 DEF Kept
<1>13. CASE ~(t.state # "Connected" \/ t.silent \/ t.proto.kind = "None")
            /\ ~(t.recovery \/ t.pending # "None") /\ ~(t.attempts >= MaxRecovery)
  <2>1. recoverConnectedTunnel(s, h, e) = y
    BY <1>8, <1>13
  <2>2. /\ y \in Connections /\ Kept(y, z) /\ y.state = z.state /\ y.emitted = z.emitted
        /\ y.lastError = z.lastError /\ y.watchdog = z.watchdog
        /\ y.healthTimer = z.healthTimer /\ y.recovery = TRUE
    BY <1>7, <1>13
  <2>3. s.state = "Connected" /\ ~s.silent /\ s.pending = "None"
    BY <1>3, <1>13 DEF Kept
  <2> QED BY <1>3, <1>6, <2>1, <2>2, <2>3 DEF Kept
<1> QED BY <1>10, <1>11, <1>12, <1>13

\* What handleSilentReconnectFailure() leaves behind: the object stopped and cut off, and
\* either another attempt behind Connected or the Error state.
GivesUp(t, s) ==
    /\ ~t.silent /\ t.stopping = s.stopping /\ t.pending = s.pending /\ t.deadline = s.deadline
    /\ t.kind = s.kind /\ t.crashed = s.crashed /\ t.siteTimer = s.siteTimer
    /\ t.stack = s.stack
    /\ t.proto \in Protocols /\ Owned(t.proto) /\ t.proto.stopped
    /\ t.proto.kind = s.proto.kind /\ t.proto.wired = "none"
    /\ \/ /\ s.state = "Connected" /\ t.state = "Connected" /\ t.emitted = s.emitted
          /\ t.recovery /\ ~t.watchdog
       \/ /\ t.state = "Error" /\ t.emitted = "Error" /\ ~t.recovery
          /\ ~t.watchdog /\ ~t.healthTimer

\* handleSilentReconnectFailure() gives up, with or without another attempt.
LEMMA SilentFailureEffect ==
    ASSUME NEW s \in Connections, NEW h \in Healths, NEW e \in Errors \ {"NoError"},
           Owned(s.proto), ~s.proto.stopped \/ s.proto.st = "Disconnected",
           s.pending = "None", s.state # "Reconnecting"
    PROVE  LET t == handleSilentReconnectFailure(s, h, e)
           IN  t \in Connections /\ GivesUp(t, s) /\ t.proto.st = "Disconnected"
<1> DEFINE q == StopObject(s.proto)
           p == [q EXCEPT !.wired = "none"]
           t == [s EXCEPT !.watchdog = FALSE, !.silent = FALSE,
                          !.proto = [StopObject(@) EXCEPT !.wired = "none"]]
           u == recoverConnectedTunnel(t, h, e)
           x == EnterState(u, "Error")
<1>1. s.proto \in Protocols
  BY DEF Connections
<1>2. q \in Protocols /\ Owned(q) /\ q.stopped /\ q.kind = s.proto.kind /\ q.st = "Disconnected"
  <2>1. s.proto.stopped => q = s.proto
    BY DEF StopObject
  <2> HIDE DEF q
  <2> QED BY <1>1, <2>1, StopObjectEffect DEF q
<1>3. t = [s EXCEPT !.watchdog = FALSE, !.silent = FALSE, !.proto = p]
  BY DEF Connections
<1> HIDE DEF q, t
<1>4. p \in Protocols /\ Owned(p) /\ p.stopped /\ p.kind = s.proto.kind
      /\ p.st = "Disconnected" /\ p.wired = "none"
  BY <1>2 DEF Protocols, Owned
<1> HIDE DEF p
<1>5. /\ t \in Connections /\ t.silent = FALSE /\ t.watchdog = FALSE /\ t.proto = p
      /\ t.stopping = s.stopping /\ t.pending = s.pending /\ t.deadline = s.deadline
      /\ t.kind = s.kind /\ t.crashed = s.crashed /\ t.siteTimer = s.siteTimer
      /\ t.stack = s.stack /\ t.state = s.state /\ t.emitted = s.emitted
  BY <1>3, <1>4 DEF Connections
<1>6. /\ u \in Connections /\ Kept(u, t) /\ u.state = t.state /\ u.emitted = t.emitted
      /\ u.watchdog = t.watchdog
      /\ Recovers(t) => u.recovery \/ u.pending # "None"
  BY <1>5, RecoverEffect
<1> HIDE DEF u
<1>7. x \in Connections /\ Enters(x, u, "Error")
  BY <1>5, <1>6, EnterEffect DEF Entered
<1>8. handleSilentReconnectFailure(s, h, e) = IF Recovers(t) THEN u ELSE x
  BY DEF handleSilentReconnectFailure, t, u
<1> HIDE DEF x
<1>9. CASE Recovers(t)
  <2>1. t.state = "Connected"
    BY <1>9 DEF Recovers
  <2> QED BY <1>4, <1>5, <1>6, <1>8, <1>9, <2>1 DEF GivesUp, Kept
<1>10. CASE ~Recovers(t)
  BY <1>4, <1>5, <1>6, <1>7, <1>8, <1>10 DEF GivesUp, Kept, Enters
<1> QED BY <1>9, <1>10

\* m_vpnProtocol->stop() outside a silent reconnect: the object is stopped, and its
\* Disconnected signal is applied or filtered.
LEMMA StopProtocolEffect ==
    ASSUME NEW s \in Connections, Owned(s.proto), ~s.silent, s.state # "Reconnecting"
    PROVE  LET t == StopProtocol(s)
           IN  /\ t \in Connections /\ t.proto = StopObject(s.proto) /\ t.stack = s.stack
               /\ t.siteTimer = s.siteTimer /\ t.silent = s.silent /\ t.stopping = s.stopping
               /\ t.pending = s.pending /\ t.deadline = s.deadline /\ t.kind = s.kind
               /\ t.crashed = s.crashed
               /\ \/ Beside(t, s)
                  \/ /\ ~s.stopping /\ ~s.proto.stopped
                     /\ t.state = "Disconnected" /\ t.emitted = "Disconnected"
                     /\ ~t.recovery /\ ~t.healthTimer /\ ~t.watchdog
<1> DEFINE q == StopObject(s.proto)
           w == [s EXCEPT !.proto = StopObject(@)]
           t == setConnectionState(w, "Disconnected")
<1>1. q \in Protocols
  BY StopObjectType DEF Connections
<1>2. w = [s EXCEPT !.proto = q]
  BY DEF Connections
<1> HIDE DEF q, w
<1>3. w \in Connections /\ Beside(w, s) /\ w.siteTimer = s.siteTimer /\ w.proto = q
      /\ w.stack = s.stack
  BY <1>1, <1>2 DEF Connections, Beside
<1>4. /\ t \in Connections
      /\ Enters(t, w, "Disconnected") \/ t = w
      /\ w.stopping => t = w
  <2>1. w.state # "Reconnecting" /\ ~w.silent
    BY <1>3 DEF Beside
  <2>2. EnterState(w, "Disconnected") \in Connections
        /\ Enters(EnterState(w, "Disconnected"), w, "Disconnected")
    BY <1>3, <2>1, EnterEffect DEF Entered
  <2> QED BY <1>3, <2>1, <2>2 DEF setConnectionState
<1> HIDE DEF t
<1>5. StopProtocol(s) = w \/ (StopProtocol(s) = t /\ ~s.proto.stopped)
  BY DEF StopProtocol, w, t
<1>6. CASE StopProtocol(s) = w
  BY <1>3, <1>6 DEF Beside, q
<1>7. CASE StopProtocol(s) = t /\ t # w /\ ~s.proto.stopped
  BY <1>3, <1>4, <1>7 DEF Enters, Kept, Beside, q
<1> QED BY <1>5, <1>6, <1>7

\* m_vpnProtocol is replaced while no slot waits below.
LEMMA ReplaceEffect ==
    ASSUME NEW s \in Connections, s.stack = <<>>, NEW p \in Protocols
    PROVE  LET t == ReplaceProtocol(s, p)
           IN  /\ t \in Connections /\ Beside(t, s) /\ ~t.siteTimer
               /\ t.proto = p /\ t.stack = <<>>
<1> DEFINE q == [i \in DOMAIN s.stack |-> [s.stack[i] EXCEPT !.mine = FALSE]]
           t == [s EXCEPT !.proto = p, !.siteTimer = FALSE, !.stack = q]
<1>1. t = ReplaceProtocol(s, p)
  BY DEF ReplaceProtocol, Connections
<1>2. q = <<>>
  <2>1. DOMAIN s.stack = 1..0
    OBVIOUS
  <2>2. q = [i \in 1..0 |-> [s.stack[i] EXCEPT !.mine = FALSE]]
    BY <2>1
  <2>3. \A i \in 1..0 : [s.stack[i] EXCEPT !.mine = FALSE] \in Frames
    OBVIOUS
  <2>4. q \in Seq(Frames)
    BY <2>2, <2>3, IsASeq
  <2>5. DOMAIN q = 1..0
    BY <2>1
  <2> HIDE DEF q
  <2>6. Len(q) = 0
    BY <2>4, <2>5, LenProperties
  <2> QED BY <2>4, <2>6, EmptySeq
<1>3. q \in Seq(Frames)
  BY <1>2
<1> HIDE DEF q
<1>4. t \in Connections /\ Beside(t, s) /\ t.siteTimer = FALSE /\ t.proto = p /\ t.stack = q
  BY <1>3 DEF Connections, Beside
<1> QED BY <1>1, <1>2, <1>4

\* A slot starts to wait, or runs on from its wait.
LEMMA PushEffect ==
    ASSUME NEW s \in Connections, s.stack = <<>>, NEW at \in Waits, NEW emit \in BOOLEAN
    PROVE  LET t == Push(s, at, emit)
           IN  /\ t \in Connections /\ Beside(t, s) /\ t.siteTimer = s.siteTimer
               /\ t.proto = s.proto
               /\ \E f \in Frames : t.stack = <<f>> /\ f.at = at /\ f.emit = emit
<1> DEFINE f == [at |-> at, mine |-> TRUE, emit |-> emit]
           q == Append(s.stack, f)
<1>1. f \in Frames /\ f.at = at /\ f.emit = emit
  BY DEF Frames
<1> HIDE DEF f
<1>2. q = <<f>>
  BY <1>1
<1>3. q \in Seq(Frames)
  BY <1>1, <1>2
<1>4. Push(s, at, emit) = [s EXCEPT !.stack = q]
  BY DEF Push, Connections, f
<1> HIDE DEF q
<1>5. /\ [s EXCEPT !.stack = q] \in Connections /\ Beside([s EXCEPT !.stack = q], s)
      /\ [s EXCEPT !.stack = q].siteTimer = s.siteTimer
      /\ [s EXCEPT !.stack = q].proto = s.proto /\ [s EXCEPT !.stack = q].stack = q
  BY <1>3 DEF Connections, Beside
<1> QED BY <1>1, <1>2, <1>4, <1>5

\* The waiting slot runs on: its frame goes and nothing else changes.
LEMMA PopEffect ==
    ASSUME NEW s \in Connections, NEW f \in Frames, s.stack = <<f>>
    PROVE  /\ Pop(s) \in Connections /\ Beside(Pop(s), s) /\ Pop(s).siteTimer = s.siteTimer
           /\ Pop(s).proto = s.proto /\ Pop(s).stack = <<>>
           /\ Top(s) = f
<1> DEFINE q == SubSeq(s.stack, 1, Len(s.stack) - 1)
<1>1. Len(s.stack) = 1 /\ Top(s) = f
  BY DEF Top
<1>2. q = <<>>
  BY <1>1
<1>3. q \in Seq(Frames)
  BY <1>2
<1>4. Pop(s) = [s EXCEPT !.stack = q]
  BY DEF Pop, Connections
<1> HIDE DEF q
<1>5. /\ [s EXCEPT !.stack = q] \in Connections /\ Beside([s EXCEPT !.stack = q], s)
      /\ [s EXCEPT !.stack = q].siteTimer = s.siteTimer
      /\ [s EXCEPT !.stack = q].proto = s.proto /\ [s EXCEPT !.stack = q].stack = q
  BY <1>3 DEF Connections, Beside
<1> QED BY <1>1, <1>2, <1>4, <1>5

\* The end of setConnectionState(Connected).
LEMMA FinishEffect ==
    ASSUME NEW s \in Connections
    PROVE  LET t == FinishConnected(s)
           IN  /\ t \in Connections /\ Kept(t, s) /\ t.state = s.state
               /\ t.lastError = s.lastError /\ t.watchdog = s.watchdog
               /\ t.recovery = s.recovery /\ t.emitted = "Connected"
<1> DEFINE t == IF s.health \in Problems THEN s ELSE setConnectionHealth(s, "CheckingTraffic")
           u == [[t EXCEPT !.idleChecks = 0, !.healthTimer = TRUE, !.kick = TRUE]
                    EXCEPT !.emitted = "Connected"]
<1>1. t \in Connections /\ Same(t, s)
  <2>1. Same(s, s) /\ "CheckingTraffic" \in Healths
    BY DEF Same, Beside, Healths
  <2> QED BY <2>1, HealthSame
<1>2. u = FinishConnected(s)
  BY DEF FinishConnected, startConnectedHealthCheck
<1>3. 0 \in 0..MaxChecks /\ "Connected" \in States
  BY BoundsFacts DEF States
<1> HIDE DEF t
<1>4. /\ u \in Connections /\ Kept(u, t) /\ u.state = t.state
      /\ u.lastError = t.lastError /\ u.watchdog = t.watchdog
      /\ u.recovery = t.recovery /\ u.emitted = "Connected"
  BY <1>1, <1>3 DEF Connections, Kept
<1> HIDE DEF u
<1> QED BY <1>1, <1>2, <1>4 DEF Kept, Same, Beside

\* A failed start ends in Error with its cause.
LEMMA FailEffect ==
    ASSUME NEW s \in Connections, NEW e \in Errors \ {"NoError"}, NEW h \in Healths,
           s.state # "Reconnecting"
    PROVE  LET t == FailWith(s, e, h)
           IN  /\ t \in Connections /\ Kept(t, s) /\ t.state = "Error" /\ t.emitted = "Error"
               /\ ~t.recovery /\ ~t.healthTimer /\ ~t.watchdog /\ t.lastError = e
<1> DEFINE r == [s EXCEPT !.lastError = e]
           v == setConnectionHealth(r, h)
           t == setConnectionState(v, "Error")
<1>1. r \in Connections /\ Kept(r, s) /\ r.state = s.state /\ r.lastError = e
  BY DEF Connections, Kept
<1> HIDE DEF r
<1>2. v \in Connections /\ Same(v, r)
  BY <1>1, HealthSame
<1> HIDE DEF v
<1>3. v.state # "Reconnecting" /\ v.lastError = e
  BY <1>1, <1>2 DEF Same, Beside
<1>4. t \in Connections /\ Enters(t, v, "Error")
  BY <1>2, <1>3, SetStateEffect DEF Entered
<1>5. t = FailWith(s, e, h)
  BY DEF FailWith, t, v, r
<1> HIDE DEF t
<1> QED BY <1>1, <1>2, <1>3, <1>4, <1>5 DEF Enters, Kept, Same, Beside

\* stopPendingNetworkAction().
LEMMA StopPendingEffect ==
    ASSUME NEW s \in Connections
    PROVE  LET t == stopPendingNetworkAction(s)
           IN  /\ t \in Connections /\ t.pending = "None" /\ t.deadline = FALSE
               /\ t.silent = s.silent /\ t.stopping = s.stopping /\ t.kind = s.kind
               /\ t.crashed = s.crashed /\ t.siteTimer = s.siteTimer /\ t.proto = s.proto
               /\ t.stack = s.stack /\ t.state = s.state /\ t.lastError = s.lastError
               /\ t.watchdog = s.watchdog /\ t.healthTimer = s.healthTimer
               /\ t.recovery = s.recovery /\ t.emitted = s.emitted
<1>1. "None" \in PendingActions
  BY DEF PendingActions
<1> QED BY <1>1 DEF stopPendingNetworkAction, Connections

-----------------------------------------------------------------------------
(* Between slots and in a wait. *)

\* The invariant is about the tracked members only.
LEMMA Transfer ==
    ASSUME NEW s, NEW t, NEW a, Beside(t, s), t.siteTimer = s.siteTimer, t.proto = s.proto
    PROVE  /\ Steady(s, a) => Steady(t, a)
           /\ Resting(s, a) => Resting(t, a)
           /\ \A f : Waiting(s, a, f) => Waiting(t, a, f)
BY DEF Beside, Steady, Guarded, Failed, Resting, Bounded, Restarted, Matched, Waiting

\* A slot that ends leaves the object at rest, one that starts to wait leaves its frame.
LEMMA PushSlotted ==
    ASSUME NEW s \in Connections, s.stack = <<>>, NEW a, NEW at \in Waits, NEW emit \in BOOLEAN,
           Steady(s, a),
           \A f \in Frames : f.at = at /\ f.emit = emit => Waiting(s, a, f)
    PROVE  Slotted(Push(s, at, emit), a) /\ Push(s, at, emit).state = s.state
<1> DEFINE t == Push(s, at, emit)
<1>1. Beside(t, s) /\ t.siteTimer = s.siteTimer /\ t.proto = s.proto
  BY PushEffect
<1>2. PICK f \in Frames : t.stack = <<f>> /\ f.at = at /\ f.emit = emit
  BY PushEffect
<1> HIDE DEF t
<1>3. Steady(t, a) /\ Waiting(t, a, f)
  BY <1>1, <1>2, Transfer
<1>4. Slotted(t, a) /\ t.state = s.state
  BY <1>1, <1>2, <1>3 DEF Slotted, Beside
<1> QED BY <1>4 DEF t

\* A slot is dispatched only when no other one waits.
LEMMA AtRest ==
    ASSUME MaxDepth = 1, Sound(vc), Slotted(vc, asked), CanDispatch(vc)
    PROVE  vc \in Connections /\ vc.stack = <<>> /\ Steady(vc, asked) /\ Resting(vc, asked)
<1>1. ASSUME NEW f, vc.stack = <<f>>
      PROVE  FALSE
  <2>1. Len(vc.stack) = 1
    BY <1>1
  <2> QED BY <2>1 DEF CanDispatch
<1> QED BY <1>1 DEF Slotted, Sound

\* The slot that runs on is the only one.
LEMMA InWait ==
    ASSUME Sound(vc), Slotted(vc, asked), NEW places, WaitsAt(vc, places)
    PROVE  /\ vc \in Connections /\ Steady(vc, asked) /\ Steady(Pop(vc), asked)
           /\ Pop(vc) \in Connections /\ Beside(Pop(vc), vc) /\ Pop(vc).siteTimer = vc.siteTimer
           /\ Pop(vc).proto = vc.proto /\ Pop(vc).stack = <<>>
           /\ Top(vc) \in Frames /\ Top(vc).at \in places
           /\ Waiting(vc, asked, Top(vc)) /\ Waiting(Pop(vc), asked, Top(vc))
<1>1. PICK f \in Frames : vc.stack = <<f>> /\ Waiting(vc, asked, f)
  BY DEF Slotted, WaitsAt
<1>2. vc \in Connections /\ Steady(vc, asked) /\ Top(vc).at \in places
  BY DEF Sound, Slotted, WaitsAt
<1>3. /\ Pop(vc) \in Connections /\ Beside(Pop(vc), vc) /\ Pop(vc).siteTimer = vc.siteTimer
      /\ Pop(vc).proto = vc.proto /\ Pop(vc).stack = <<>> /\ Top(vc) = f
  BY <1>1, <1>2, PopEffect
<1>4. Steady(Pop(vc), asked) /\ Waiting(Pop(vc), asked, f)
  BY <1>1, <1>2, <1>3, Transfer
<1> QED BY <1>1, <1>2, <1>3, <1>4

\* Only the diagnostic or a posted check changes between slots.
LEMMA SameSlotted ==
    ASSUME NEW s, NEW t, NEW a, s.stack = <<>>, Steady(s, a), Resting(s, a), Same(t, s)
    PROVE  Slotted(t, a) /\ Hidden(s, t, a)
<1>1. Steady(t, a) /\ Resting(t, a) /\ t.stack = <<>> /\ t.state = s.state
  BY Transfer DEF Same, Beside
<1> QED BY <1>1 DEF Slotted, Hidden, Steady, Guarded

\* addSitesRoutes() of a slot of its own.
LEMMA SitesSlotted ==
    ASSUME NEW s \in Connections, NEW any, NEW a, s.stack = <<>>, Steady(s, a), Resting(s, a),
           a # "off"
    PROVE  Slotted(addSitesRoutes(s, any, FALSE), a) /\ addSitesRoutes(s, any, FALSE).state = s.state
<1> DEFINE t == setConnectionHealth(s, "ApplyingRoutes")
<1>1. t \in Connections /\ Same(t, s)
  BY HealthSame DEF Healths
<1> HIDE DEF t
<1>2. Steady(t, a) /\ Resting(t, a) /\ t.stack = <<>> /\ t.state = s.state
  BY <1>1, Transfer DEF Same, Beside
<1>3. \A f \in Frames : f.at = "sites" /\ f.emit = FALSE => Waiting(t, a, f)
  BY <1>2 DEF Waiting, Resting
<1>4. Slotted(Push(t, "sites", FALSE), a) /\ Push(t, "sites", FALSE).state = t.state
  BY <1>1, <1>2, <1>3, PushSlotted DEF Waits
<1>5. Slotted(s, a)
  BY DEF Slotted
<1> QED BY <1>2, <1>4, <1>5 DEF addSitesRoutes, EndSlot, t

-----------------------------------------------------------------------------
(* The user's requests and the service's network signals. *)

\* connectToVpn() up to its first wait, for the protection of the service.
LEMMA ConnectSlotted ==
    ASSUME MaxDepth = 1, Sound(vc), Slotted(vc, asked), NEW k \in Kinds, connectToVpn(k)
    PROVE  Slotted(vc', asked') /\ Hidden(vc, vc', asked)
<1> DEFINE p == stopPendingNetworkAction(vc)
           t == [p EXCEPT !.lastError = "NoError", !.attempts = 0,
                          !.recovery = FALSE, !.stopping = FALSE, !.kind = k]
           x == setConnectionState(t, "Connecting")
<1>1. vc \in Connections /\ vc.stack = <<>> /\ Steady(vc, asked) /\ Resting(vc, asked)
  BY AtRest DEF connectToVpn
<1>2. vc.state \in {"Disconnected", "Error"} /\ ~vc.silent
  BY <1>1 DEF connectToVpn, Active, Resting, Steady, Guarded
<1>3. /\ p \in Connections /\ p.pending = "None" /\ p.silent = vc.silent
      /\ p.stopping = vc.stopping /\ p.crashed = vc.crashed /\ p.siteTimer = vc.siteTimer
      /\ p.proto = vc.proto /\ p.stack = vc.stack /\ p.state = vc.state
  BY <1>1, StopPendingEffect
<1>4. 0 \in 0..MaxRecovery /\ "NoError" \in Errors /\ k # "None"
  BY BoundsFacts, KindsAssumption DEF Errors
<1> HIDE DEF p
<1>5. /\ t \in Connections /\ t.pending = "None" /\ t.silent = p.silent
      /\ t.stopping = FALSE /\ t.crashed = p.crashed /\ t.siteTimer = p.siteTimer
      /\ t.proto = p.proto /\ t.stack = p.stack /\ t.state = p.state /\ t.kind = k
  BY <1>3, <1>4 DEF Connections
<1> HIDE DEF t
<1>6. x \in Connections /\ Enters(x, t, "Connecting")
  BY <1>2, <1>3, <1>5, SetStateEffect DEF Entered
<1> HIDE DEF x
<1>7. x.stack = <<>> /\ Steady(x, "on") /\ x.pending = "None"
  BY <1>1, <1>2, <1>3, <1>4, <1>5, <1>6 DEF Enters, Kept, Steady, Guarded, Owned
<1>8. \A f \in Frames : f.at = "protect" /\ f.emit = FALSE => Waiting(x, "on", f)
  BY <1>6, <1>7 DEF Waiting, Enters, Restarted
<1>9. Slotted(Push(x, "protect", FALSE), "on")
  BY <1>6, <1>7, <1>8, PushSlotted DEF Waits
<1>10. vc' = Push(x, "protect", FALSE) /\ asked' = "on"
  BY DEF connectToVpn, x, t, p
<1> QED BY <1>2, <1>9, <1>10 DEF Hidden

\* The user's requests and the service's network signals.
LEMMA RequestsSlotted ==
    ASSUME MaxDepth = 1, Sound(vc), Slotted(vc, asked), Requests
    PROVE  Slotted(vc', asked') /\ Hidden(vc, vc', asked)
<1>1. ASSUME NEW k \in Kinds, connectToVpn(k)
      PROVE  Slotted(vc', asked') /\ Hidden(vc, vc', asked)
  BY <1>1, ConnectSlotted
<1>2. CASE disconnectFromVpn
  <2>1. vc \in Connections /\ vc.stack = <<>> /\ Steady(vc, asked) /\ Resting(vc, asked)
    BY <1>2, AtRest DEF disconnectFromVpn
  <2>2. vc.state \in {"Connecting", "Connected"} /\ asked # "off"
    BY <1>2, <2>1 DEF disconnectFromVpn, Active, Resting, Steady
  <2>3. Steady(vc, "off")
    BY <2>1 DEF Steady
  <2>4. \A f \in Frames : f.at = "release" /\ f.emit = FALSE => Waiting(vc, "off", f)
    BY <2>1, <2>2 DEF Waiting, Resting
  <2>5. Slotted(Push(vc, "release", FALSE), "off") /\ Push(vc, "release", FALSE).state = vc.state
    BY <2>1, <2>3, <2>4, PushSlotted DEF Waits
  <2> QED BY <1>2, <2>1, <2>5 DEF disconnectFromVpn, Hidden, Steady, Guarded
<1>3. CASE NetworkChanged
  <2>1. vc \in Connections /\ vc.stack = <<>> /\ Steady(vc, asked) /\ Resting(vc, asked)
    BY <1>3, AtRest DEF NetworkChanged
  <2>2. MayReconnect(vc) /\ asked # "off"
    BY <1>3, <2>1 DEF NetworkChanged, MayReconnect, Resting
  <2>3. \A f \in Frames : f.at = "readyReconnect" /\ f.emit = FALSE => Waiting(vc, asked, f)
    BY <2>1, <2>2 DEF Waiting, Resting, MayReconnect
  <2>4. Slotted(Push(vc, "readyReconnect", FALSE), asked)
    BY <2>1, <2>3, PushSlotted DEF Waits
  <2> QED BY <1>3, <2>2, <2>4 DEF NetworkChanged, reconnectToVpn, Hidden, MayReconnect
<1>4. ASSUME NEW h \in OpenDiagnostics, setConnectionDiagnostic(h)
      PROVE  Slotted(vc', asked') /\ Hidden(vc, vc', asked)
  <2>1. vc \in Connections /\ vc.stack = <<>> /\ Steady(vc, asked) /\ Resting(vc, asked)
    BY <1>4, AtRest DEF setConnectionDiagnostic
  <2>2. vc' \in Connections /\ Same(vc', vc) /\ asked' = asked
    BY <1>4, <2>1, HealthSame DEF setConnectionDiagnostic, OpenDiagnostics, Healths, Problems
  <2> QED BY <2>1, <2>2, SameSlotted
<1>5. ASSUME NEW any \in BOOLEAN, refreshSiteSplitTunnelRoutes(any)
      PROVE  Slotted(vc', asked') /\ Hidden(vc, vc', asked)
  <2>1. vc \in Connections /\ vc.stack = <<>> /\ Steady(vc, asked) /\ Resting(vc, asked)
    BY <1>5, AtRest DEF refreshSiteSplitTunnelRoutes
  <2>2. vc.state = "Connected" /\ asked # "off"
    BY <1>5, <2>1 DEF refreshSiteSplitTunnelRoutes, Resting
  <2> DEFINE t == configureDnsSplitTunnel(vc)
  <2>3. t \in Connections /\ Same(t, vc)
    BY <2>1, DnsSame
  <2>4. vc' = addSitesRoutes(t, any, FALSE) /\ asked' = asked
    BY <1>5 DEF refreshSiteSplitTunnelRoutes
  <2> HIDE DEF t
  <2>5. Steady(t, asked) /\ Resting(t, asked) /\ t.stack = <<>> /\ t.state = vc.state
    BY <2>1, <2>3, Transfer DEF Same, Beside
  <2> QED BY <2>2, <2>3, <2>4, <2>5, SitesSlotted DEF Hidden
<1> QED BY <1>1, <1>2, <1>3, <1>4, <1>5 DEF Requests

-----------------------------------------------------------------------------
(* Replies: starting and restarting the protocol. *)

\* The protocol objects the factory makes.
LEMMA NewProtocolEffect ==
    /\ NullProtocol \in Protocols /\ Owned(NullProtocol) /\ NullProtocol.kind = "None"
    /\ NullProtocol.wired = "none" /\ ~NullProtocol.live
    /\ \A k \in {"WireGuard", "Xray"} :
         LET p == NewProtocol(k)
         IN  /\ p \in Protocols /\ Owned(p) /\ p.kind = k /\ ~p.stopped
             /\ p.wired = "all" /\ p.st = "Unknown"
<1>1. NullProtocol \in Protocols /\ \A k \in {"WireGuard", "Xray"} : NewProtocol(k) \in Protocols
  BY ProtocolTypes
<1> QED BY <1>1 DEF NullProtocol, NewProtocol, Owned

\* startConfiguredConnection() fails or waits for the handshake under the watchdog.
LEMMA StartSlotted ==
    ASSUME NEW s \in Connections, s.stack = <<>>, NEW a, Steady(s, a), a # "off",
           s.state \in {"Connecting", "Disconnected"}, s.emitted = s.state, ~s.silent
    PROVE  Slotted(startConfiguredConnection(s), a)
<1> DEFINE p == stopPendingNetworkAction(s)
           t == [p EXCEPT !.watchdog = TRUE]
           u == ReplaceProtocol(t, NewProtocol(s.kind))
           w == setConnectionHealth(u, "WaitingHandshake")
           y == ReplaceProtocol(t, NullProtocol)
           x == [y EXCEPT !.lastError = "InternalError"]
           z == setConnectionState(x, "Error")
<1>1. s.kind \in {"WireGuard", "Xray", "Unsupported"} /\ ~(a = "timedOut" /\ s.kind # "WireGuard")
  BY KindsAssumption DEF Connections, Steady, Failed
<1>2. /\ p \in Connections /\ p.pending = "None" /\ p.silent = s.silent
      /\ p.stopping = s.stopping /\ p.kind = s.kind /\ p.crashed = s.crashed
      /\ p.stack = s.stack /\ p.state = s.state /\ p.healthTimer = s.healthTimer
      /\ p.emitted = s.emitted
  BY StopPendingEffect
<1> HIDE DEF p
<1>3. /\ t \in Connections /\ t.pending = "None" /\ t.silent = p.silent
      /\ t.stopping = p.stopping /\ t.kind = p.kind /\ t.crashed = p.crashed
      /\ t.stack = p.stack /\ t.state = p.state /\ t.healthTimer = p.healthTimer
      /\ t.emitted = p.emitted /\ t.watchdog = TRUE
  BY <1>2 DEF Connections
<1> HIDE DEF t
<1>4. CASE s.kind = "Unsupported"
  <2>1. y \in Connections /\ Beside(y, t) /\ ~y.siteTimer /\ y.proto = NullProtocol /\ y.stack = <<>>
    BY <1>2, <1>3, ReplaceEffect, NewProtocolEffect
  <2> HIDE DEF y
  <2>2. "InternalError" \in Errors
    BY DEF Errors, XrayStartErrors
  <2>3. x \in Connections /\ Kept(x, y) /\ x.state = y.state
    BY <2>1, <2>2 DEF Connections, Kept
  <2> HIDE DEF x
  <2>4. x.state # "Reconnecting"
    BY <1>2, <1>3, <2>1, <2>3 DEF Beside
  <2>5. z \in Connections /\ Enters(z, x, "Error")
    BY <2>3, <2>4, SetStateEffect DEF Entered
  <2> HIDE DEF z
  <2>6. z.stack = <<>> /\ z.proto = NullProtocol /\ z.kind = s.kind /\ z.pending = "None"
        /\ ~z.silent /\ ~z.stopping /\ ~z.crashed /\ ~z.siteTimer
    BY <1>2, <1>3, <2>1, <2>3, <2>5 DEF Enters, Kept, Beside, Steady
  <2>7. Steady(z, a) /\ Resting(z, a)
    BY <1>1, <2>5, <2>6, NewProtocolEffect
    DEF Enters, Steady, Guarded, Resting, Bounded, Restarted, Matched
  <2>8. startConfiguredConnection(s) = z
    BY <1>4 DEF startConfiguredConnection, z, x, y, t, p
  <2> QED BY <2>6, <2>7, <2>8 DEF Slotted
<1>5. ASSUME s.kind \in {"WireGuard", "Xray"}
      PROVE  /\ u \in Connections /\ u.stack = <<>> /\ Steady(u, a) /\ Resting(u, a)
             /\ u.watchdog /\ u.proto.kind # "None" /\ u.state \in {"Connecting", "Disconnected"}
             /\ ~u.silent
  <2> DEFINE n == NewProtocol(s.kind)
  <2>1. n \in Protocols /\ Owned(n) /\ n.kind = s.kind /\ ~n.stopped
    BY <1>5, NewProtocolEffect
  <2> HIDE DEF n
  <2>2. u \in Connections /\ Beside(u, t) /\ ~u.siteTimer /\ u.proto = n /\ u.stack = <<>>
    BY <1>2, <1>3, <2>1, ReplaceEffect DEF n
  <2> HIDE DEF u
  <2>3. /\ u.silent = FALSE /\ u.pending = "None" /\ ~u.stopping /\ ~u.crashed /\ u.kind = s.kind
        /\ u.state = s.state /\ u.emitted = s.state /\ u.watchdog /\ ~u.healthTimer
    BY <1>2, <1>3, <2>2 DEF Beside, Steady, Connections
  <2> QED BY <1>1, <1>5, <2>1, <2>2, <2>3
          DEF Steady, Guarded, Resting, Bounded, Restarted, Matched
<1>6. CASE s.kind = "WireGuard"
  <2> HIDE DEF u
  <2>1. w \in Connections /\ Same(w, u)
    BY <1>5, <1>6, HealthSame DEF Healths
  <2>2. Slotted(w, a)
    BY <1>5, <1>6, <2>1, SameSlotted
  <2>3. startConfiguredConnection(s) = w
    BY <1>5, <1>6 DEF startConfiguredConnection, w, u, t, p
  <2> QED BY <2>2, <2>3
<1>7. CASE s.kind = "Xray"
  <2> HIDE DEF u
  <2>1. \A f \in Frames : f.at = "start" /\ f.emit = FALSE => Waiting(u, a, f)
    BY <1>5, <1>7 DEF Waiting, Resting
  <2>2. Slotted(Push(u, "start", FALSE), a)
    BY <1>5, <1>7, <2>1, PushSlotted DEF Waits
  <2>3. startConfiguredConnection(s) = Push(u, "start", FALSE)
    BY <1>7 DEF startConfiguredConnection, u, t, p
  <2> QED BY <2>2, <2>3
<1> QED BY <1>1, <1>4, <1>6, <1>7

\* deferUntilPhysicalNetworkReady() when the network is not ready.
LEMMA DeferEffect ==
    ASSUME NEW s \in Connections, NEW act \in PendingActions, NEW h \in Healths
    PROVE  LET t == deferAction(s, act, h)
           IN  /\ t \in Connections /\ t.pending = act
               /\ act = "StartConnection" => t.deadline
               /\ ~t.watchdog /\ ~t.recovery /\ t.silent = s.silent /\ t.stopping = s.stopping
               /\ t.kind = s.kind /\ t.crashed = s.crashed /\ t.siteTimer = s.siteTimer
               /\ t.proto = s.proto /\ t.stack = s.stack /\ t.state = s.state
               /\ t.lastError = s.lastError /\ t.healthTimer = s.healthTimer
               /\ t.emitted = s.emitted
<1> DEFINE b == s.deadline \/ act = "StartConnection"
           r == [s EXCEPT !.pending = act, !.deadline = @ \/ act = "StartConnection",
                          !.watchdog = FALSE, !.recovery = FALSE, !.probe = FALSE]
           t == setConnectionHealth(r, h)
<1>1. b \in BOOLEAN
  OBVIOUS
<1>2. r = [s EXCEPT !.pending = act, !.deadline = b,
                    !.watchdog = FALSE, !.recovery = FALSE, !.probe = FALSE]
  BY DEF Connections
<1>3. act = "StartConnection" => b
  OBVIOUS
<1> HIDE DEF b, r
<1>4. /\ r \in Connections /\ r.pending = act /\ r.deadline = b
      /\ r.watchdog = FALSE /\ r.recovery = FALSE /\ r.silent = s.silent /\ r.stopping = s.stopping
      /\ r.kind = s.kind /\ r.crashed = s.crashed /\ r.siteTimer = s.siteTimer
      /\ r.proto = s.proto /\ r.stack = s.stack /\ r.state = s.state
      /\ r.lastError = s.lastError /\ r.healthTimer = s.healthTimer
      /\ r.emitted = s.emitted
  <2> DEFINE q == [s EXCEPT !.pending = act, !.deadline = b]
  <2>1. q \in Connections /\ q.pending = act /\ q.deadline = b
    BY <1>1 DEF Connections
  <2>2. r = [q EXCEPT !.watchdog = FALSE, !.recovery = FALSE, !.probe = FALSE]
    BY <1>2 DEF Connections
  <2>3. /\ q.silent = s.silent /\ q.stopping = s.stopping
        /\ q.kind = s.kind /\ q.crashed = s.crashed /\ q.siteTimer = s.siteTimer
        /\ q.proto = s.proto /\ q.stack = s.stack /\ q.state = s.state
        /\ q.lastError = s.lastError /\ q.healthTimer = s.healthTimer
        /\ q.emitted = s.emitted
    BY DEF Connections
  <2> HIDE DEF q
  <2>4. r \in Connections
    <3>1. [q EXCEPT !.watchdog = FALSE, !.recovery = FALSE, !.probe = FALSE] \in Connections
      BY <2>1 DEF Connections
    <3> QED BY <2>2, <3>1
  <2>5. /\ r.pending = q.pending /\ r.deadline = q.deadline /\ r.watchdog = FALSE
        /\ r.recovery = FALSE /\ r.silent = q.silent /\ r.stopping = q.stopping
        /\ r.kind = q.kind /\ r.crashed = q.crashed /\ r.siteTimer = q.siteTimer
        /\ r.proto = q.proto /\ r.stack = q.stack /\ r.state = q.state
        /\ r.lastError = q.lastError /\ r.healthTimer = q.healthTimer
        /\ r.emitted = q.emitted
    BY <2>1, <2>2 DEF Connections
  <2> QED BY <2>1, <2>3, <2>4, <2>5
<1>5. t \in Connections /\ Same(t, r)
  BY <1>4, HealthSame
<1>6. t = deferAction(s, act, h)
  BY DEF deferAction, t, r
<1> HIDE DEF t
<1> QED BY <1>3, <1>4, <1>5, <1>6 DEF Same, Beside

\* startSilentReconnect() past its query fails or runs on under the watchdog.
LEMMA RestartSlotted ==
    ASSUME NEW s \in Connections, s.stack = <<>>, NEW a, Steady(s, a), a # "off",
           s.state = "Connected", s.emitted = s.state, ~s.silent
    PROVE  Slotted(RestartProtocol(s), a)
<1> DEFINE p == stopPendingNetworkAction(s)
           r == [p EXCEPT !.recovery = FALSE, !.silent = TRUE, !.watchdog = FALSE]
           t == setConnectionHealth(r, "Recovering")
           v == ReplaceProtocol(t, NewProtocol(s.kind))
           u == [v EXCEPT !.watchdog = TRUE]
           w == setConnectionHealth(u, "Recovering")
           y == ReplaceProtocol(t, NullProtocol)
           x == [y EXCEPT !.silent = FALSE]
           z == FailWith(x, "InternalError", "ProtocolStartFailed")
<1>1. s.kind \in {"WireGuard", "Xray", "Unsupported"} /\ ~(a = "timedOut" /\ s.kind # "WireGuard")
  BY KindsAssumption DEF Connections, Steady, Failed
<1>2. /\ p \in Connections /\ p.pending = "None"
      /\ p.stopping = s.stopping /\ p.kind = s.kind /\ p.crashed = s.crashed
      /\ p.stack = s.stack /\ p.state = s.state /\ p.emitted = s.emitted
  BY StopPendingEffect
<1> HIDE DEF p
<1>3. /\ r \in Connections /\ r.pending = p.pending /\ r.silent = TRUE
      /\ r.stopping = p.stopping /\ r.kind = p.kind /\ r.crashed = p.crashed
      /\ r.stack = p.stack /\ r.state = p.state /\ r.emitted = p.emitted /\ r.recovery = FALSE
  BY <1>2 DEF Connections
<1> HIDE DEF r
<1>4. t \in Connections /\ Same(t, r)
  BY <1>3, HealthSame DEF Healths
<1> HIDE DEF t
<1>5. /\ t \in Connections /\ t.pending = "None" /\ t.silent = TRUE /\ ~t.stopping /\ t.kind = s.kind
      /\ ~t.crashed /\ t.stack = <<>> /\ t.state = "Connected" /\ t.emitted = "Connected"
      /\ ~t.recovery
  BY <1>2, <1>3, <1>4 DEF Same, Beside, Steady
<1>6. s.proto.kind # "None"
  BY DEF Steady
<1>7. CASE s.kind = "Unsupported"
  <2>1. y \in Connections /\ Beside(y, t) /\ ~y.siteTimer /\ y.proto = NullProtocol /\ y.stack = <<>>
    BY <1>5, ReplaceEffect, NewProtocolEffect
  <2> HIDE DEF y
  <2>2. /\ x \in Connections /\ x.silent = FALSE /\ x.pending = y.pending /\ x.stopping = y.stopping
        /\ x.kind = y.kind /\ x.crashed = y.crashed /\ x.siteTimer = y.siteTimer
        /\ x.proto = y.proto /\ x.stack = y.stack /\ x.state = y.state
    BY <2>1 DEF Connections
  <2> HIDE DEF x
  <2>3. x.state # "Reconnecting"
    BY <1>5, <2>1, <2>2 DEF Beside
  <2>4. "InternalError" \in Errors \ {"NoError"} /\ "ProtocolStartFailed" \in Healths
    BY DEF Errors, XrayStartErrors, Healths, Problems
  <2>5. /\ z \in Connections /\ Kept(z, x) /\ z.state = "Error" /\ z.emitted = "Error"
        /\ ~z.recovery /\ ~z.healthTimer /\ ~z.watchdog
    BY <2>2, <2>3, <2>4, FailEffect
  <2> HIDE DEF z
  <2>6. z.stack = <<>> /\ z.proto = NullProtocol /\ z.kind = s.kind /\ z.pending = "None"
        /\ ~z.silent /\ ~z.stopping /\ ~z.crashed /\ ~z.siteTimer
    BY <1>5, <2>1, <2>2, <2>5 DEF Kept, Beside
  <2>7. Steady(z, a) /\ Resting(z, a)
    BY <1>1, <2>5, <2>6, NewProtocolEffect
    DEF Steady, Guarded, Resting, Bounded, Restarted, Matched
  <2>8. RestartProtocol(s) = z
    BY <1>6, <1>7 DEF RestartProtocol, z, x, y, t, r, p
  <2> QED BY <2>6, <2>7, <2>8 DEF Slotted
<1>8. ASSUME s.kind \in {"WireGuard", "Xray"}
      PROVE  u \in Connections /\ u.stack = <<>> /\ Steady(u, a) /\ Resting(u, a) /\ u.silent
  <2> DEFINE n == NewProtocol(s.kind)
  <2>1. /\ n \in Protocols /\ Owned(n) /\ n.kind = s.kind /\ ~n.stopped /\ n.wired = "all"
        /\ n.st = "Unknown"
    BY <1>8, NewProtocolEffect
  <2> HIDE DEF n
  <2>2. v \in Connections /\ Beside(v, t) /\ ~v.siteTimer /\ v.proto = n /\ v.stack = <<>>
    BY <1>5, <2>1, ReplaceEffect DEF n
  <2> HIDE DEF v
  <2>3. /\ u \in Connections /\ u.silent = v.silent /\ u.pending = v.pending
        /\ u.stopping = v.stopping /\ u.kind = v.kind /\ u.crashed = v.crashed
        /\ u.siteTimer = v.siteTimer /\ u.proto = n /\ u.stack = <<>> /\ u.state = v.state
        /\ u.emitted = v.emitted /\ u.recovery = v.recovery /\ u.watchdog = TRUE
    BY <2>2 DEF Connections
  <2> HIDE DEF u
  <2>4. /\ u.silent = TRUE /\ u.pending = "None" /\ ~u.stopping /\ ~u.crashed /\ u.kind = s.kind
        /\ u.state = "Connected" /\ u.emitted = "Connected" /\ ~u.recovery /\ ~u.siteTimer
        /\ u.watchdog
    BY <1>5, <2>2, <2>3 DEF Beside
  <2> QED BY <1>1, <1>8, <2>1, <2>3, <2>4
          DEF Steady, Guarded, Resting, Bounded, Restarted, Matched
<1>9. CASE s.kind = "WireGuard"
  <2> HIDE DEF u
  <2>1. w \in Connections /\ Same(w, u)
    BY <1>8, <1>9, HealthSame DEF Healths
  <2>2. Slotted(w, a)
    BY <1>8, <1>9, <2>1, SameSlotted
  <2>3. RestartProtocol(s) = w
    BY <1>6, <1>9 DEF RestartProtocol, w, u, v, t, r, p
  <2> QED BY <2>2, <2>3
<1>10. CASE s.kind = "Xray"
  <2> HIDE DEF u
  <2>1. \A f \in Frames : f.at = "restart" /\ f.emit = FALSE => Waiting(u, a, f)
    BY <1>8, <1>10 DEF Waiting, Resting
  <2>2. Slotted(Push(u, "restart", FALSE), a)
    BY <1>8, <1>10, <2>1, PushSlotted DEF Waits
  <2>3. RestartProtocol(s) = Push(u, "restart", FALSE)
    BY <1>6, <1>10 DEF RestartProtocol, u, v, t, r, p
  <2> QED BY <2>2, <2>3
<1> QED BY <1>1, <1>7, <1>9, <1>10

\* startSilentReconnect() up to its query.
LEMMA SilentSlotted ==
    ASSUME NEW s \in Connections, s.stack = <<>>, NEW a, Steady(s, a), a # "off",
           s.state = "Connected", s.emitted = s.state, ~s.silent
    PROVE  Slotted(startSilentReconnect(s), a)
<1>1. \A f \in Frames : f.at = "readySilent" /\ f.emit = FALSE => Waiting(s, a, f)
  BY DEF Waiting, Matched
<1> QED BY <1>1, PushSlotted DEF startSilentReconnect, Waits

\* connectToVpn() runs on: the old tunnel is stopped and dropped, or the attempt fails.
LEMMA ReplyProtectSlotted ==
    ASSUME Sound(vc), Slotted(vc, asked), NEW ok \in BOOLEAN, ReplyProtect(ok)
    PROVE  Slotted(vc', asked') /\ Hidden(vc, vc', asked)
<1> DEFINE s == Pop(vc)
           p == [s.proto EXCEPT !.wired = IF @ = "all" THEN "state" ELSE @]
           unwired == [s EXCEPT !.proto.wired = IF @ = "all" THEN "state" ELSE @]
           t == StopProtocol(unwired)
           u == ReplaceProtocol(t, NullProtocol)
           x == FailWith(s, "AmneziaServiceConnectionFailed", "LocalServiceUnavailable")
<1>1. /\ s \in Connections /\ Steady(s, asked) /\ s.stack = <<>> /\ s.silent = vc.silent
      /\ Top(vc).at = "protect" /\ Waiting(s, asked, Top(vc))
  BY InWait DEF ReplyProtect, Beside
<1> HIDE DEF s
<1>2. s.state = "Connecting" /\ s.pending = "None" /\ asked = "on" /\ ~s.silent /\ s.kind # "None"
  BY <1>1 DEF Waiting, Steady, Guarded
<1>3. CASE ok
  <2>1. s.proto \in Protocols /\ Owned(s.proto)
    BY <1>1 DEF Connections, Steady
  <2>2. p \in Protocols /\ Owned(p)
    BY <2>1 DEF Protocols, Owned
  <2>3. unwired = [s EXCEPT !.proto = p]
    BY <1>1 DEF Connections
  <2> HIDE DEF p, unwired
  <2>4. unwired \in Connections /\ Beside(unwired, s) /\ unwired.proto = p /\ unwired.stack = <<>>
    BY <1>1, <2>2, <2>3 DEF Connections, Beside
  <2>5. /\ t \in Connections /\ t.stack = unwired.stack /\ t.silent = unwired.silent
        /\ t.stopping = unwired.stopping /\ t.pending = unwired.pending /\ t.kind = unwired.kind
        /\ t.crashed = unwired.crashed
        /\ \/ Beside(t, unwired)
           \/ /\ t.state = "Disconnected" /\ t.emitted = "Disconnected"
              /\ ~t.recovery /\ ~t.healthTimer /\ ~t.watchdog
    BY <1>2, <2>2, <2>4, StopProtocolEffect DEF Beside
  <2> HIDE DEF t
  <2>6. u \in Connections /\ Beside(u, t) /\ ~u.siteTimer /\ u.proto = NullProtocol /\ u.stack = <<>>
    BY <2>4, <2>5, ReplaceEffect, NewProtocolEffect
  <2> HIDE DEF u
  <2>7. /\ u.silent = s.silent /\ u.stopping = s.stopping /\ u.pending = s.pending
        /\ u.kind = s.kind /\ u.crashed = s.crashed
        /\ \/ u.state = s.state /\ u.emitted = s.emitted /\ u.healthTimer = s.healthTimer
           \/ u.state = "Disconnected" /\ u.emitted = "Disconnected" /\ ~u.healthTimer
    BY <2>4, <2>5, <2>6 DEF Beside
  <2>8. s.emitted = s.state /\ ~s.healthTimer /\ ~s.stopping /\ ~s.crashed
    BY <1>1, <1>2 DEF Waiting, Steady
  <2>9. Steady(u, "on")
    BY <1>2, <2>6, <2>7, <2>8, NewProtocolEffect DEF Steady, Guarded
  <2>10. \A f \in Frames : f.at = "readyStart" /\ f.emit = FALSE => Waiting(u, "on", f)
    BY <1>2, <2>6, <2>7, <2>8, NewProtocolEffect DEF Waiting, Restarted, Matched
  <2>11. Slotted(Push(u, "readyStart", FALSE), "on")
    BY <2>6, <2>9, <2>10, PushSlotted DEF Waits
  <2>12. vc' = Push(u, "readyStart", FALSE) /\ asked' = asked
    BY <1>3 DEF ReplyProtect, u, t, unwired, s
  <2> QED BY <1>1, <1>2, <2>11, <2>12 DEF Hidden
<1>4. CASE ~ok
  <2>1. "AmneziaServiceConnectionFailed" \in Errors \ {"NoError"} /\ "LocalServiceUnavailable" \in Healths
    BY DEF Errors, RecoverableErrors, Healths, Problems
  <2>2. /\ x \in Connections /\ Kept(x, s) /\ x.state = "Error" /\ x.emitted = "Error"
        /\ ~x.recovery /\ ~x.healthTimer /\ ~x.watchdog
    BY <1>1, <1>2, <2>1, FailEffect
  <2>3. vc' = x /\ asked' = asked
    BY <1>4 DEF ReplyProtect, s
  <2> HIDE DEF x
  <2>4. Steady(x, asked) /\ Resting(x, asked) /\ x.stack = <<>>
    BY <1>1, <1>2, <2>2 DEF Kept, Steady, Guarded, Resting, Bounded, Restarted, Matched
  <2> QED BY <1>1, <1>2, <2>3, <2>4 DEF Slotted, Hidden
<1> QED BY <1>3, <1>4

\* The three callers of deferUntilPhysicalNetworkReady() run on.
LEMMA ReplyReadySlotted ==
    ASSUME Sound(vc), Slotted(vc, asked), NEW ready \in BOOLEAN, ReplyReady(ready)
    PROVE  Slotted(vc', asked') /\ Hidden(vc, vc', asked)
<1> DEFINE s == Pop(vc)
           at == Top(vc).at
<1>1. /\ s \in Connections /\ Steady(s, asked) /\ s.stack = <<>> /\ s.silent = vc.silent
      /\ at \in {"readyStart", "readyReconnect", "readySilent"} /\ Waiting(s, asked, Top(vc))
  BY InWait DEF ReplyReady, Beside
<1>2. asked' = asked /\ asked # "off" /\ s.emitted = s.state
  BY <1>1 DEF ReplyReady, Waiting
<1>3. CASE at = "readyStart"
  <2> HIDE DEF s
  <2>1. s.state \in {"Connecting", "Disconnected"} /\ ~s.silent /\ s.proto.kind = "None"
        /\ Matched(s) /\ asked = "on"
    BY <1>1, <1>3 DEF Waiting, Steady, Guarded
  <2>2. CASE ready
    <3>1. vc' = startConfiguredConnection(s)
      BY <1>3, <2>2 DEF ReplyReady, s
    <3> QED BY <1>1, <1>2, <2>1, <3>1, StartSlotted DEF Hidden
  <2>3. CASE ~ready
    <3> DEFINE t == deferAction(s, "StartConnection", "CheckingLocalNetwork")
    <3>1. vc' = t
      BY <1>3, <2>3 DEF ReplyReady, s
    <3>2. /\ t \in Connections /\ t.pending = "StartConnection" /\ t.deadline
          /\ ~t.watchdog /\ ~t.recovery /\ t.silent = s.silent /\ t.stopping = s.stopping
          /\ t.kind = s.kind /\ t.crashed = s.crashed /\ t.siteTimer = s.siteTimer
          /\ t.proto = s.proto /\ t.stack = s.stack /\ t.state = s.state
          /\ t.lastError = s.lastError /\ t.healthTimer = s.healthTimer /\ t.emitted = s.emitted
      BY <1>1, DeferEffect DEF PendingActions, Healths
    <3> HIDE DEF t
    <3>3. Steady(t, asked) /\ Resting(t, asked) /\ t.stack = <<>>
      BY <1>1, <1>2, <2>1, <3>2 DEF Steady, Guarded, Failed, Resting, Bounded, Restarted, Matched
    <3> QED BY <1>1, <1>2, <2>1, <3>1, <3>3 DEF Slotted, Hidden
  <2> QED BY <2>2, <2>3
<1>4. CASE at = "readyReconnect"
  <2> HIDE DEF s
  <2>1. s.state = "Connected" /\ ~s.silent /\ ~s.recovery /\ s.pending = "None" /\ Restarted(s)
    BY <1>1, <1>4 DEF Waiting
  <2>2. CASE ready
    <3>1. vc' = CountedReconnect(s)
      BY <1>4, <2>2 DEF ReplyReady, s
    <3>2. ASSUME NEW n \in 0..MaxRecovery
          PROVE  [s EXCEPT !.attempts = n] \in Connections /\ Same([s EXCEPT !.attempts = n], s)
      BY <1>1 DEF Connections, Same, Beside
    <3>3. CASE 0 >= MaxRecovery
      <4> DEFINE t == [s EXCEPT !.attempts = 0]
      <4>1. t \in Connections /\ Same(t, s)
        BY <3>2, BoundsFacts
      <4>2. vc' = t
        BY <2>1, <3>1, <3>3 DEF CountedReconnect
      <4>3. Resting(s, asked)
        BY <1>2, <2>1 DEF Resting, Bounded, Matched
      <4> HIDE DEF t
      <4> QED BY <1>1, <1>2, <2>1, <4>1, <4>2, <4>3, SameSlotted DEF Hidden
    <3>4. CASE ~(0 >= MaxRecovery)
      <4> DEFINE t == [s EXCEPT !.attempts = 0 + 1]
      <4>1. 0 + 1 \in 0..MaxRecovery
        BY <3>4, BoundsAssumption
      <4>2. t \in Connections /\ Same(t, s)
        BY <3>2, <4>1
      <4>3. vc' = startSilentReconnect(t)
        BY <2>1, <3>1, <3>4 DEF CountedReconnect
      <4> HIDE DEF t
      <4>4. Steady(t, asked) /\ t.stack = <<>> /\ t.state = "Connected" /\ t.emitted = t.state
            /\ ~t.silent
        BY <1>1, <1>2, <2>1, <4>2, Transfer DEF Same, Beside
      <4> QED BY <1>1, <1>2, <2>1, <4>2, <4>3, <4>4, SilentSlotted DEF Hidden
    <3> QED BY <3>3, <3>4
  <2>3. CASE ~ready
    <3> DEFINE t == deferAction(s, "RequestReconnect", "Recovering")
    <3>1. vc' = t
      BY <1>4, <2>3 DEF ReplyReady, s
    <3>2. /\ t \in Connections /\ t.pending = "RequestReconnect"
          /\ ~t.watchdog /\ ~t.recovery /\ t.silent = s.silent /\ t.stopping = s.stopping
          /\ t.kind = s.kind /\ t.crashed = s.crashed /\ t.siteTimer = s.siteTimer
          /\ t.proto = s.proto /\ t.stack = s.stack /\ t.state = s.state
          /\ t.lastError = s.lastError /\ t.healthTimer = s.healthTimer /\ t.emitted = s.emitted
      BY <1>1, DeferEffect DEF PendingActions, Healths
    <3> HIDE DEF t
    <3>3. Steady(t, asked) /\ Resting(t, asked) /\ t.stack = <<>>
      BY <1>1, <1>2, <2>1, <3>2 DEF Steady, Guarded, Failed, Resting, Bounded, Restarted, Matched
    <3> QED BY <1>1, <1>2, <2>1, <3>1, <3>3 DEF Slotted, Hidden
  <2> QED BY <2>2, <2>3
<1>5. CASE at = "readySilent"
  <2> HIDE DEF s
  <2>1. s.state = "Connected" /\ ~s.silent
    BY <1>1, <1>5 DEF Waiting
  <2>2. CASE ready
    <3>1. vc' = RestartProtocol(s)
      BY <1>5, <2>2 DEF ReplyReady, s
    <3> QED BY <1>1, <1>2, <2>1, <3>1, RestartSlotted DEF Hidden
  <2>3. CASE ~ready
    <3> DEFINE t == deferAction(s, "StartSilentReconnect", "Recovering")
    <3>1. vc' = t
      BY <1>5, <2>3 DEF ReplyReady, s
    <3>2. /\ t \in Connections /\ t.pending = "StartSilentReconnect"
          /\ ~t.watchdog /\ ~t.recovery /\ t.silent = s.silent /\ t.stopping = s.stopping
          /\ t.kind = s.kind /\ t.crashed = s.crashed /\ t.siteTimer = s.siteTimer
          /\ t.proto = s.proto /\ t.stack = s.stack /\ t.state = s.state
          /\ t.lastError = s.lastError /\ t.healthTimer = s.healthTimer /\ t.emitted = s.emitted
      BY <1>1, DeferEffect DEF PendingActions, Healths
    <3> HIDE DEF t
    <3>3. Steady(t, asked) /\ Resting(t, asked) /\ t.stack = <<>>
      BY <1>1, <1>2, <2>1, <3>2 DEF Steady, Guarded, Failed, Resting, Bounded, Restarted, Matched
    <3> QED BY <1>1, <1>2, <2>1, <3>1, <3>3 DEF Slotted, Hidden
  <2> QED BY <2>2, <2>3
<1> QED BY <1>1, <1>3, <1>4, <1>5

\* resumePendingNetworkAction() runs on.
LEMMA ReplyResumeSlotted ==
    ASSUME Sound(vc), Slotted(vc, asked), NEW ready \in BOOLEAN, ReplyResume(ready)
    PROVE  Slotted(vc', asked') /\ Hidden(vc, vc', asked)
<1> DEFINE s == Pop(vc)
           t == stopPendingNetworkAction(s)
<1>1. /\ s \in Connections /\ Steady(s, asked) /\ s.stack = <<>> /\ s.silent = vc.silent
      /\ Top(vc).at = "resume" /\ Waiting(s, asked, Top(vc)) /\ Top(vc).emit \in BOOLEAN
  BY InWait DEF ReplyResume, Beside, Frames
<1>2. /\ asked' = asked /\ asked # "off" /\ s.emitted = s.state /\ s.pending # "None"
      /\ Bounded(s) /\ Restarted(s) /\ Matched(s)
  BY <1>1 DEF ReplyResume, Waiting
<1> HIDE DEF s
<1>3. ~s.silent
  BY <1>1, <1>2 DEF Steady, Guarded
<1>4. Hidden(vc, vc', asked)
  BY <1>1, <1>3 DEF Hidden
<1>5. /\ t \in Connections /\ t.pending = "None" /\ t.silent = s.silent
      /\ t.stopping = s.stopping /\ t.kind = s.kind
      /\ t.crashed = s.crashed /\ t.siteTimer = s.siteTimer /\ t.proto = s.proto
      /\ t.stack = s.stack /\ t.state = s.state /\ t.lastError = s.lastError
      /\ t.watchdog = s.watchdog /\ t.healthTimer = s.healthTimer
      /\ t.recovery = s.recovery /\ t.emitted = s.emitted
  BY <1>1, StopPendingEffect
<1> HIDE DEF t
<1>6. Steady(t, asked) /\ t.stack = <<>> /\ t.emitted = t.state /\ ~t.silent
  BY <1>1, <1>2, <1>3, <1>5 DEF Steady, Guarded, Failed
<1>7. CASE ~ready
  <2>1. vc' = s
    BY <1>7 DEF ReplyResume, s
  <2>2. Resting(s, asked)
    BY <1>2 DEF Resting
  <2> QED BY <1>1, <1>2, <1>4, <2>1, <2>2 DEF Slotted
<1>8. CASE ready /\ s.pending = "StartConnection" /\ s.state = "Connecting"
  <2>1. vc' = startConfiguredConnection(t)
    BY <1>8 DEF ReplyResume, s, t
  <2> QED BY <1>2, <1>4, <1>5, <1>6, <1>8, <2>1, StartSlotted
<1>9. CASE ready /\ s.pending = "RequestReconnect" /\ s.state = "Connected"
  <2>1. vc' = reconnectToVpn(t)
    BY <1>9 DEF ReplyResume, s, t
  <2>2. CASE MayReconnect(t)
    <3>1. \A f \in Frames : f.at = "readyReconnect" /\ f.emit = FALSE => Waiting(t, asked, f)
      BY <1>2, <1>5, <1>6, <1>9, <2>2 DEF Waiting, MayReconnect, Restarted, Matched
    <3>2. Slotted(Push(t, "readyReconnect", FALSE), asked)
      BY <1>5, <1>6, <3>1, PushSlotted DEF Waits
    <3> QED BY <1>2, <1>4, <2>1, <2>2, <3>2 DEF reconnectToVpn
  <2>3. CASE ~MayReconnect(t)
    <3>1. t.recovery
      BY <1>5, <1>6, <1>9, <2>3 DEF MayReconnect, Steady
    <3>2. Resting(t, asked)
      BY <1>2, <1>5, <1>6, <1>9, <3>1 DEF Resting, Bounded, Restarted, Matched
    <3> QED BY <1>2, <1>4, <1>6, <2>1, <2>3, <3>2 DEF reconnectToVpn, Slotted
  <2> QED BY <2>2, <2>3
<1>10. CASE ready /\ s.pending = "StartSilentReconnect" /\ s.state = "Connected"
  <2>1. vc' = startSilentReconnect(t)
    BY <1>10 DEF ReplyResume, s, t
  <2> QED BY <1>2, <1>4, <1>5, <1>6, <1>10, <2>1, SilentSlotted
<1>11. CASE ready /\ ~(s.pending = "StartConnection" /\ s.state = "Connecting")
                 /\ ~(s.pending = "RequestReconnect" /\ s.state = "Connected")
                 /\ ~(s.pending = "StartSilentReconnect" /\ s.state = "Connected")
  <2>1. vc' = t
    BY <1>2, <1>11 DEF ReplyResume, s, t
  <2>2. s.pending \in PendingActions
    BY <1>1 DEF Connections
  <2>3. s.state # "Connected"
    BY <1>1, <1>2, <1>11, <2>2 DEF PendingActions, Steady
  <2>4. Resting(t, asked)
    BY <1>2, <1>5, <1>6, <1>11, <2>3 DEF Resting, Bounded, Restarted, Matched
  <2> QED BY <1>2, <1>4, <1>6, <2>1, <2>4 DEF Slotted
<1> QED BY <1>7, <1>8, <1>9, <1>10, <1>11

\* A failed silent reconnect leaves the object at rest, behind Connected or in Error.
LEMMA GivesUpRests ==
    ASSUME NEW s, NEW t \in Connections, NEW a, GivesUp(t, s), a # "off", s.stack = <<>>,
           s.state \in {"Connected", "Error"}, s.emitted = s.state,
           ~s.stopping, ~s.crashed, s.pending = "None", s.proto.kind # "None", s.kind # "None",
           ~(a = "timedOut" /\ s.kind # "WireGuard")
    PROVE  Slotted(t, a) /\ t.state \in {"Connected", "Error"}
BY DEF GivesUp, Slotted, Steady, Guarded, Resting, Bounded, Restarted, Matched

\* XrayProtocol::start() returns.
LEMMA ReplyStartSlotted ==
    ASSUME Sound(vc), Slotted(vc, asked), NEW e \in {"NoError"} \cup XrayStartErrors, ReplyStart(e)
    PROVE  Slotted(vc', asked') /\ Hidden(vc, vc', asked)
<1> DEFINE s == Pop(vc)
           p == [s.proto EXCEPT !.live = ~s.proto.stopped]
           started == [s EXCEPT !.proto.live = ~s.proto.stopped]
           y == [s EXCEPT !.watchdog = FALSE, !.silent = FALSE]
<1>1. /\ s \in Connections /\ Steady(s, asked) /\ s.stack = <<>> /\ s.silent = vc.silent
      /\ Top(vc).at \in {"start", "restart"} /\ Waiting(s, asked, Top(vc))
  BY InWait DEF ReplyStart, Beside
<1> HIDE DEF s
<1>2. /\ asked' = asked /\ asked # "off" /\ s.emitted = s.state /\ Restarted(s) /\ Matched(s)
      /\ s.proto.kind # "None" /\ s.watchdog /\ s.state \in {"Connecting", "Disconnected", "Connected"}
      /\ s.silent => s.state = "Connected"
      /\ Top(vc).at = "restart" => s.silent
      /\ Top(vc).at = "start" => ~s.silent
      /\ ~(asked = "timedOut" /\ s.kind # "WireGuard") /\ s.kind # "None"
      /\ s.proto \in Protocols
  BY <1>1 DEF ReplyStart, Waiting, Steady, Guarded, Failed, Connections
<1>3. Resting(s, asked)
  BY <1>2 DEF Resting, Bounded
<1>4. started \in Connections /\ Steady(started, asked) /\ Resting(started, asked)
      /\ started.stack = <<>> /\ started.state = s.state
  <2>1. started = [s EXCEPT !.proto = p]
    BY <1>1 DEF Connections
  <2>2. p \in Protocols /\ p.kind = s.proto.kind /\ p.stopped = s.proto.stopped
        /\ p.wired = s.proto.wired /\ p.st = s.proto.st /\ (p.stopped => ~p.live)
    BY <1>2 DEF Protocols
  <2> HIDE DEF p, started
  <2>3. started \in Connections /\ Beside(started, s) /\ started.siteTimer = s.siteTimer
        /\ started.proto = p /\ started.stack = s.stack
    BY <1>1, <2>1, <2>2 DEF Connections, Beside
  <2>4. Owned(p)
    BY <1>2, <2>2 DEF Owned
  <2>5. Guarded(started)
    BY <1>1, <2>2, <2>3 DEF Beside, Steady, Guarded
  <2>6. Steady(started, asked)
    BY <1>1, <1>2, <2>2, <2>3, <2>4, <2>5 DEF Beside, Steady
  <2>7. Resting(started, asked)
    BY <1>2, <1>3, <2>2, <2>3 DEF Beside, Resting, Bounded, Restarted, Matched
  <2> QED BY <1>1, <2>3, <2>6, <2>7 DEF Beside
<1>5. CASE ~Top(vc).mine
  <2>1. vc' = s
    BY <1>5 DEF ReplyStart, s
  <2> QED BY <1>1, <1>2, <1>3, <2>1 DEF Slotted, Hidden
<1>6. CASE Top(vc).mine /\ e = "NoError"
  <2> HIDE DEF started
  <2>1. /\ Same(setConnectionHealth(started, "Recovering"), started)
        /\ Same(setConnectionHealth(started, "WaitingHandshake"), started)
        /\ Same(started, started)
    BY <1>4, HealthSame DEF Healths, Same, Beside
  <2>2. vc' \in {started, setConnectionHealth(started, "Recovering"),
                 setConnectionHealth(started, "WaitingHandshake")}
    BY <1>1, <1>6 DEF ReplyStart, started, s
  <2>3. Same(vc', started)
    BY <2>1, <2>2
  <2>4. vc'.state = s.state
    BY <1>4, <2>3 DEF Same, Beside
  <2> QED BY <1>1, <1>2, <1>4, <2>3, <2>4, SameSlotted DEF Hidden
<1>7. CASE Top(vc).mine /\ e # "NoError" /\ Top(vc).at = "restart" /\ e \in RecoverableErrors
  <2> DEFINE t == handleSilentReconnectFailure(s, connectionHealthForError(e), e)
  <2>1. vc' = t
    BY <1>7 DEF ReplyStart, s
  <2>2. e \in Errors \ {"NoError"} /\ connectionHealthForError(e) \in Healths
    BY <1>7, HealthForError DEF Errors
  <2>3. Owned(s.proto) /\ ~s.proto.stopped /\ s.pending = "None" /\ s.state = "Connected"
        /\ ~s.stopping /\ ~s.crashed
    BY <1>1, <1>2, <1>7 DEF Steady, Guarded
  <2>4. t \in Connections /\ GivesUp(t, s)
    BY <1>1, <2>2, <2>3, SilentFailureEffect
  <2> HIDE DEF t
  <2>5. Slotted(t, asked) /\ t.state \in {"Connected", "Error"}
    BY <1>1, <1>2, <2>3, <2>4, GivesUpRests
  <2> QED BY <1>2, <2>1, <2>5 DEF Hidden
<1>8. CASE Top(vc).mine /\ e # "NoError" /\ Top(vc).at = "restart" /\ e \notin RecoverableErrors
  <2> DEFINE t == FailWith(y, e, "ProtocolStartFailed")
  <2>1. vc' = t
    BY <1>8 DEF ReplyStart, s
  <2>2. e \in Errors \ {"NoError"} /\ "ProtocolStartFailed" \in Healths
    BY <1>8 DEF Errors, Healths, Problems
  <2>3. /\ y \in Connections /\ y.silent = FALSE /\ y.pending = s.pending /\ y.stopping = s.stopping
        /\ y.kind = s.kind /\ y.crashed = s.crashed /\ y.siteTimer = s.siteTimer
        /\ y.proto = s.proto /\ y.stack = s.stack /\ y.state = s.state
    BY <1>1 DEF Connections
  <2> HIDE DEF y
  <2>4. /\ t \in Connections /\ Kept(t, y) /\ t.state = "Error" /\ t.emitted = "Error"
        /\ ~t.recovery /\ ~t.healthTimer /\ ~t.watchdog
    BY <1>2, <2>2, <2>3, FailEffect
  <2> HIDE DEF t
  <2>5. Steady(t, asked) /\ Resting(t, asked) /\ t.stack = <<>>
    BY <1>1, <1>2, <2>3, <2>4 DEF Kept, Steady, Guarded, Resting, Bounded, Restarted, Matched
  <2> QED BY <1>2, <2>1, <2>4, <2>5 DEF Slotted, Hidden
<1>9. CASE Top(vc).mine /\ e # "NoError" /\ Top(vc).at = "start"
  <2> DEFINE t == FailWith(s, e, "ProtocolStartFailed")
  <2>1. vc' = t
    BY <1>9 DEF ReplyStart, s
  <2>2. e \in Errors \ {"NoError"} /\ "ProtocolStartFailed" \in Healths
    BY <1>9 DEF Errors, Healths, Problems
  <2>3. /\ t \in Connections /\ Kept(t, s) /\ t.state = "Error" /\ t.emitted = "Error"
        /\ ~t.recovery /\ ~t.healthTimer /\ ~t.watchdog
    BY <1>1, <1>2, <2>2, FailEffect
  <2> HIDE DEF t
  <2>4. Steady(t, asked) /\ Resting(t, asked) /\ t.stack = <<>>
    BY <1>1, <1>2, <1>9, <2>3 DEF Kept, Steady, Guarded, Resting, Bounded, Restarted, Matched
  <2> QED BY <1>2, <2>1, <2>3, <2>4 DEF Slotted, Hidden
<1> QED BY <1>1, <1>5, <1>6, <1>7, <1>8, <1>9

\* disconnectFromVpn() runs on: it ends in Disconnected without a protocol object.
LEMMA ReplyReleaseSlotted ==
    ASSUME Sound(vc), Slotted(vc, asked), ReplyRelease
    PROVE  Slotted(vc', asked') /\ Hidden(vc, vc', asked)
<1> DEFINE r == Pop(vc)
           q == stopPendingNetworkAction(r)
           s == [q EXCEPT !.silent = FALSE, !.stopping = FALSE,
                          !.attempts = 0, !.recovery = FALSE, !.watchdog = FALSE]
           d == setConnectionState(s, "Disconnecting")
           h == StopProtocol(d)
           t == ReplaceProtocol(h, NullProtocol)
<1>1. /\ r \in Connections /\ Steady(r, asked) /\ r.stack = <<>>
      /\ Top(vc).at = "release" /\ Waiting(r, asked, Top(vc))
  BY InWait DEF ReplyRelease
<1> HIDE DEF r
<1>2. asked' = asked /\ asked = "off" /\ r.state \in {"Connecting", "Connected"} /\ ~r.crashed
  BY <1>1 DEF ReplyRelease, Waiting, Steady
<1>3. Hidden(vc, vc', asked)
  BY <1>2 DEF Hidden
<1>4. /\ q \in Connections /\ q.pending = "None" /\ q.stack = <<>> /\ q.state = r.state
      /\ q.crashed = r.crashed /\ q.proto = r.proto /\ q.siteTimer = r.siteTimer
  BY <1>1, StopPendingEffect
<1> HIDE DEF q
<1>5. /\ s \in Connections /\ s.pending = q.pending /\ s.stack = <<>> /\ s.state = q.state
      /\ s.crashed = q.crashed /\ s.proto = q.proto /\ s.siteTimer = q.siteTimer
      /\ s.silent = FALSE /\ s.stopping = FALSE /\ s.recovery = FALSE /\ s.watchdog = FALSE
  <2>1. 0 \in 0..MaxRecovery
    BY BoundsFacts
  <2> QED BY <1>4, <2>1 DEF Connections
<1> HIDE DEF s
<1>6. /\ s.state \in {"Connecting", "Connected"} /\ ~s.crashed /\ Owned(s.proto)
      /\ s.pending = "None"
      /\ s.siteTimer => s.proto.kind # "None"
  BY <1>1, <1>2, <1>4, <1>5 DEF Steady
\* Whatever the way there, this is what is left.
<1>7. ASSUME NEW z \in Connections, z.state = "Disconnected", z.emitted = "Disconnected",
             z.proto.kind = "None", Owned(z.proto), z.stack = <<>>, z.pending = "None",
             ~z.silent, ~z.stopping, ~z.crashed, ~z.siteTimer, ~z.healthTimer
      PROVE  Slotted(z, "off")
  BY <1>7 DEF Slotted, Steady, Guarded, Resting, Bounded, Restarted, Matched
<1>8. CASE s.proto.kind = "None"
  <2> DEFINE z == setConnectionState(s, "Disconnected")
  <2>1. vc' = z
    BY <1>8 DEF ReplyRelease, s, q, r
  <2>2. z \in Connections /\ Enters(z, s, "Disconnected")
    BY <1>5, <1>6, SetStateEffect DEF Entered
  <2> HIDE DEF z
  <2>3. Slotted(z, "off")
    BY <1>5, <1>6, <1>7, <1>8, <2>2 DEF Enters, Kept
  <2> QED BY <1>2, <1>3, <2>1, <2>3
<1>9. CASE s.proto.kind # "None"
  <2>1. d \in Connections /\ Enters(d, s, "Disconnecting")
    BY <1>5, <1>6, SetStateEffect DEF Entered
  <2> HIDE DEF d
  <2>2. /\ d.state = "Disconnecting" /\ d.silent = FALSE /\ Owned(d.proto) /\ d.stack = <<>>
        /\ d.pending = "None" /\ ~d.stopping /\ ~d.crashed /\ ~d.healthTimer
    BY <1>5, <1>6, <2>1 DEF Enters, Kept
  <2>3. /\ h \in Connections /\ h.stack = d.stack /\ h.silent = d.silent
        /\ h.stopping = d.stopping /\ h.pending = d.pending /\ h.crashed = d.crashed
        /\ \/ Beside(h, d)
           \/ h.state = "Disconnected" /\ h.emitted = "Disconnected" /\ ~h.healthTimer
    BY <2>1, <2>2, StopProtocolEffect
  <2> HIDE DEF h
  <2>4. t \in Connections /\ Beside(t, h) /\ ~t.siteTimer /\ t.proto = NullProtocol /\ t.stack = <<>>
    BY <2>2, <2>3, ReplaceEffect, NewProtocolEffect
  <2> HIDE DEF t
  <2>5. /\ ~t.silent /\ ~t.stopping /\ t.pending = "None" /\ ~t.crashed /\ ~t.healthTimer
        /\ \/ t.state = "Disconnecting"
           \/ t.state = "Disconnected" /\ t.emitted = "Disconnected"
    BY <2>2, <2>3, <2>4 DEF Beside
  <2>6. CASE t.state = "Disconnecting"
    <3> DEFINE z == setConnectionState(t, "Disconnected")
    <3>1. vc' = z
      BY <1>9, <2>6 DEF ReplyRelease, t, h, d, s, q, r
    <3>2. z \in Connections /\ Enters(z, t, "Disconnected")
      BY <2>4, <2>5, <2>6, SetStateEffect DEF Entered
    <3> HIDE DEF z
    <3>3. Slotted(z, "off")
      BY <1>7, <2>4, <2>5, <3>2, NewProtocolEffect DEF Enters, Kept
    <3> QED BY <1>2, <1>3, <3>1, <3>3
  <2>7. CASE t.state # "Disconnecting"
    <3>1. vc' = t
      BY <1>9, <2>7 DEF ReplyRelease, t, h, d, s, q, r
    <3>2. Slotted(t, "off")
      BY <1>7, <2>4, <2>5, <2>7, NewProtocolEffect
    <3> QED BY <1>2, <1>3, <3>1, <3>2
  <2> QED BY <2>6, <2>7
<1> QED BY <1>8, <1>9

-----------------------------------------------------------------------------
(* Replies: the legacy route path of setConnectionState(Connected). *)

\* The Connected handler ends, or waits on.
LEMMA FinishSlotted ==
    ASSUME NEW s \in Connections, s.stack = <<>>, NEW a, Steady(s, a), a # "off",
           s.state = "Connected", Restarted(s)
    PROVE  Slotted(FinishConnected(s), a) /\ FinishConnected(s).state = "Connected"
<1> DEFINE t == FinishConnected(s)
<1>1. /\ t \in Connections /\ Kept(t, s) /\ t.state = s.state
      /\ t.lastError = s.lastError /\ t.watchdog = s.watchdog
      /\ t.recovery = s.recovery /\ t.emitted = "Connected"
  BY FinishEffect
<1> HIDE DEF t
<1>2. t.stack = <<>> /\ Steady(t, a) /\ Resting(t, a)
  BY <1>1 DEF Kept, Steady, Guarded, Failed, Resting, Bounded, Restarted, Matched
<1>3. Slotted(t, a) /\ t.state = "Connected"
  BY <1>1, <1>2 DEF Slotted
<1> QED BY <1>3 DEF t

\* setConnectionState(Connected) goes on to its next wait.
LEMMA WaitsOn ==
    ASSUME NEW s \in Connections, s.stack = <<>>, NEW a, Steady(s, a), a # "off",
           s.state = "Connected", ~s.silent, Restarted(s),
           NEW at \in {"flush", "halves", "remote", "dnsRoutes", "sites", "firewall"}
    PROVE  Slotted(Push(s, at, TRUE), a) /\ Push(s, at, TRUE).state = "Connected"
<1>1. \A f \in Frames : f.at = at /\ f.emit = TRUE => Waiting(s, a, f)
  BY DEF Waiting, Matched, Bounded
<1>2. at \in Waits /\ TRUE \in BOOLEAN
  BY DEF Waits
<1> QED BY <1>1, <1>2, PushSlotted

\* A reply to the handler, with the failure it may report.
LEMMA AfterReplySlotted ==
    ASSUME Sound(vc), Slotted(vc, asked), NEW places, WaitsAt(vc, places), NEW ok
    PROVE  LET s == AfterReply(vc, ok)
           IN  /\ s \in Connections /\ s.stack = <<>> /\ Steady(s, asked)
               /\ Waiting(s, asked, Top(vc)) /\ s.state = vc.state
               /\ Top(vc) \in Frames /\ Top(vc).at \in places /\ s.silent = vc.silent
<1> DEFINE p == Pop(vc)
           h == FailureAt(Top(vc).at)
           q == setConnectionHealth(p, h)
<1>1. /\ p \in Connections /\ Steady(p, asked) /\ Beside(p, vc) /\ p.stack = <<>>
      /\ Waiting(p, asked, Top(vc)) /\ Top(vc) \in Frames /\ Top(vc).at \in places
  BY InWait
<1>2. h \in Healths
  BY DEF FailureAt, Healths, Problems
<1> HIDE DEF p, h
<1>3. q \in Connections /\ Same(q, p)
  BY <1>1, <1>2, HealthSame
<1> HIDE DEF q
<1>4. Steady(q, asked) /\ Waiting(q, asked, Top(vc)) /\ q.stack = <<>> /\ Beside(q, vc)
  BY <1>1, <1>3, Transfer DEF Same, Beside
<1>5. AfterReply(vc, ok) = p \/ AfterReply(vc, ok) = q
  BY DEF AfterReply, p, q, h
<1> QED BY <1>1, <1>3, <1>4, <1>5 DEF Beside

\* A diagnostic or an asynchronous DNS call in between changes nothing the handler needs.
LEMMA SameConnected ==
    ASSUME NEW s, NEW t, NEW a, Same(t, s), Steady(s, a), s.stack = <<>>, s.state = "Connected",
           ~s.silent, Restarted(s)
    PROVE  Steady(t, a) /\ t.stack = <<>> /\ t.state = "Connected" /\ ~t.silent /\ Restarted(t)
<1>1. Steady(t, a)
  BY Transfer DEF Same
<1> QED BY <1>1 DEF Same, Beside, Restarted

\* The replies to the DNS flush and to the route and firewall calls of the legacy path.
LEMMA RouteRepliesSlotted ==
    ASSUME Sound(vc), Slotted(vc, asked), NEW ok \in BOOLEAN, NEW b \in BOOLEAN, NEW mode,
           ReplyFlush(ok, mode) \/ ReplyExceptRoutes(ok, b) \/ ReplySites(ok, b)
    PROVE  Slotted(vc', asked') /\ Hidden(vc, vc', asked)
<1> DEFINE s == AfterReply(vc, ok)
           c == configureDnsSplitTunnel(s)
           H(z, h) == setConnectionHealth(z, h)
<1>1. /\ s \in Connections /\ s.stack = <<>> /\ Steady(s, asked)
      /\ Waiting(s, asked, Top(vc)) /\ s.state = vc.state
      /\ Top(vc).at \in {"flush", "halves", "remote", "dnsRoutes", "sites", "firewall"}
      /\ Top(vc) \in Frames /\ s.silent = vc.silent
  <2>1. PICK places : WaitsAt(vc, places)
                      /\ places \subseteq {"flush", "halves", "remote", "dnsRoutes", "sites", "firewall"}
    BY DEF ReplyFlush, ReplyExceptRoutes, ReplySites
  <2>2. WaitsAt(vc, places)
    BY <2>1
  <2>3. /\ s \in Connections /\ s.stack = <<>> /\ Steady(s, asked)
        /\ Waiting(s, asked, Top(vc)) /\ s.state = vc.state
        /\ Top(vc).at \in places /\ Top(vc) \in Frames /\ s.silent = vc.silent
    BY <2>2, AfterReplySlotted
  <2> HIDE DEF s
  <2> QED BY <2>1, <2>3
<1> HIDE DEF s
<1>2. asked' = asked /\ asked # "off" /\ Restarted(s) /\ Matched(s)
  BY <1>1 DEF ReplyFlush, ReplyExceptRoutes, ReplySites, Waiting
<1>3. c \in Connections /\ Same(c, s)
  BY <1>1, DnsSame
<1>4. \A h \in Healths : H(s, h) \in Connections /\ Same(H(s, h), s)
  BY <1>1, HealthSame
<1>5. \A h \in Healths : H(c, h) \in Connections /\ Same(H(c, h), c)
  BY <1>3, HealthSame
<1>6. {"ApplyingRoutes", "CheckingDns", "CheckingFirewall"} \subseteq Healths
  BY DEF Healths
<1> HIDE DEF c, H
<1>7. ASSUME s.state = "Connected", ~s.silent
      PROVE  /\ s.proto.kind # "None"
             /\ \A t : Same(t, s) => /\ Steady(t, asked) /\ t.stack = <<>> /\ t.state = "Connected"
                                     /\ ~t.silent /\ Restarted(t)
  <2>1. s.proto.kind # "None"
    BY <1>1, <1>7 DEF Steady
  <2>2. ASSUME NEW t, Same(t, s)
        PROVE  /\ Steady(t, asked) /\ t.stack = <<>> /\ t.state = "Connected"
               /\ ~t.silent /\ Restarted(t)
    BY <1>1, <1>2, <1>7, <2>2, SameConnected
  <2> QED BY <2>1, <2>2
<1>8. ASSUME vc.state = "Connected", ~vc.silent
      PROVE  Hidden(vc, vc', asked)
  BY <1>8 DEF Hidden
<1>9. CASE ReplyFlush(ok, mode)
  <2>1. s.state = "Connected" /\ ~s.silent
    BY <1>1, <1>9, InWait DEF ReplyFlush, Waiting
  <2> DEFINE t == [s EXCEPT !.siteTimer = TRUE]
  <2>2. t \in Connections /\ Beside(t, s) /\ t.proto = s.proto /\ t.stack = s.stack /\ t.siteTimer = TRUE
    BY <1>1 DEF Connections, Beside
  <2>3. vc' \in {FinishConnected(c), FinishConnected(t), Push(H(s, "ApplyingRoutes"), "halves", TRUE)}
    BY <1>7, <1>9, <2>1 DEF ReplyFlush, s, c, H
  <2> HIDE DEF t
  <2>4. Slotted(FinishConnected(t), asked)
    <3>1. Steady(t, asked) /\ Restarted(t) /\ t.stack = <<>> /\ t.state = "Connected"
      BY <1>1, <1>2, <1>7, <2>1, <2>2 DEF Beside, Steady, Guarded, Failed, Restarted
    <3> QED BY <1>2, <2>2, <3>1, FinishSlotted
  <2>5. Slotted(FinishConnected(c), asked)
    BY <1>2, <1>3, <1>7, <2>1, FinishSlotted
  <2>6. Slotted(Push(H(s, "ApplyingRoutes"), "halves", TRUE), asked)
    BY <1>2, <1>4, <1>6, <1>7, <2>1, WaitsOn
  <2> QED BY <1>1, <1>2, <1>8, <2>1, <2>3, <2>4, <2>5, <2>6
<1>10. CASE ReplyExceptRoutes(ok, b)
  <2>1. s.state = "Connected" /\ ~s.silent
    BY <1>1, <1>10, InWait DEF ReplyExceptRoutes, Waiting
  <2>2. vc' \in {Push(s, "remote", TRUE), Push(H(s, "CheckingDns"), "dnsRoutes", TRUE),
                 Push(H(c, "ApplyingRoutes"), "sites", TRUE), FinishConnected(c)}
    BY <1>7, <1>10, <2>1 DEF ReplyExceptRoutes, addSitesRoutes, EndSlot, s, c, H
  <2>3. Same(s, s) /\ Same(H(c, "ApplyingRoutes"), s)
    BY <1>3, <1>5, <1>6 DEF Same, Beside
  <2>4. /\ Slotted(Push(s, "remote", TRUE), asked)
        /\ Slotted(Push(H(s, "CheckingDns"), "dnsRoutes", TRUE), asked)
    BY <1>1, <1>2, <1>4, <1>6, <1>7, <2>1, <2>3, WaitsOn
  <2>5. /\ Slotted(Push(H(c, "ApplyingRoutes"), "sites", TRUE), asked)
        /\ Slotted(FinishConnected(c), asked)
    BY <1>2, <1>3, <1>5, <1>6, <1>7, <2>1, <2>3, WaitsOn, FinishSlotted
  <2> QED BY <1>1, <1>2, <1>8, <2>1, <2>2, <2>4, <2>5
<1>11. CASE ReplySites(ok, b)
  <2>1. Top(vc).at \in {"sites", "firewall"} /\ Top(vc).emit \in BOOLEAN
    BY <1>1, <1>11 DEF ReplySites, WaitsAt, Frames
  <2> DEFINE emit == Top(vc).emit
  <2>2. vc' = Push(H(s, "CheckingFirewall"), "firewall", emit) \/ vc' = EndSlot(s, emit)
    BY <1>11 DEF ReplySites, s, H
  <2>3. Same(s, s)
    BY DEF Same, Beside
  <2>4. CASE emit
    <3>1. s.state = "Connected" /\ ~s.silent
      BY <1>1, <2>4 DEF Waiting
    <3>2. Slotted(Push(H(s, "CheckingFirewall"), "firewall", TRUE), asked)
      BY <1>2, <1>4, <1>6, <1>7, <3>1, WaitsOn
    <3>3. Slotted(FinishConnected(s), asked)
      BY <1>1, <1>2, <3>1, FinishSlotted
    <3>4. emit = TRUE
      BY <2>1, <2>4
    <3> QED BY <1>1, <1>2, <1>8, <2>2, <3>1, <3>2, <3>3, <3>4 DEF EndSlot
  <2>5. CASE ~emit
    <3> DEFINE t == H(s, "CheckingFirewall")
    <3>1. emit = FALSE
      BY <2>1, <2>5
    <3>2. Resting(s, asked)
      BY <1>1, <1>2, <2>1, <2>5 DEF Waiting, Resting
    <3>3. t \in Connections /\ Same(t, s)
      BY <1>4, <1>6
    <3> HIDE DEF t
    <3>4. Steady(t, asked) /\ Resting(t, asked) /\ t.stack = <<>> /\ t.state = s.state
      BY <1>1, <3>2, <3>3, Transfer DEF Same, Beside
    <3>5. \A f \in Frames : f.at = "firewall" /\ f.emit = FALSE => Waiting(t, asked, f)
      BY <1>2, <3>4 DEF Waiting, Resting
    <3>6. Slotted(Push(t, "firewall", FALSE), asked) /\ Push(t, "firewall", FALSE).state = t.state
      BY <3>3, <3>4, <3>5, PushSlotted DEF Waits
    <3>7. Slotted(s, asked)
      BY <1>1, <3>2 DEF Slotted
    <3>8. vc' = Push(t, "firewall", FALSE) \/ vc' = s
      BY <2>2, <3>1 DEF EndSlot, t
    <3>9. Slotted(vc', asked) /\ vc'.state = vc.state
      BY <1>1, <3>4, <3>6, <3>7, <3>8
    <3>10. vc.silent => vc.state = "Connected"
      BY <1>1 DEF Steady, Guarded
    <3> QED BY <1>2, <3>9, <3>10 DEF Hidden
  <2> QED BY <2>4, <2>5
<1> QED BY <1>9, <1>10, <1>11

\* Every reply.
LEMMA RepliesSlotted ==
    ASSUME Sound(vc), Slotted(vc, asked), Replies
    PROVE  Slotted(vc', asked') /\ Hidden(vc, vc', asked)
BY ReplyProtectSlotted, ReplyReadySlotted, ReplyResumeSlotted, ReplyStartSlotted,
   ReplyReleaseSlotted, RouteRepliesSlotted DEF Replies

-----------------------------------------------------------------------------
(* Timers and answers. *)

\* A step between slots that only counts, looks up, or clears an error.
Quiet(t, s) ==
    /\ Kept(t, s) /\ t.state = s.state /\ t.emitted = s.emitted /\ t.watchdog = s.watchdog
    /\ t.recovery = s.recovery
    /\ t.healthTimer => s.healthTimer

\* Such a step keeps the object at rest.
LEMMA QuietSlotted ==
    ASSUME NEW s, NEW t, NEW a, s.stack = <<>>, Steady(s, a), Resting(s, a), Quiet(t, s),
           t.lastError = s.lastError \/ ~(a = "timedOut" /\ s.kind # "WireGuard")
    PROVE  Slotted(t, a) /\ Hidden(s, t, a)
<1>1. t.stack = <<>> /\ Steady(t, a)
  BY DEF Quiet, Kept, Steady, Guarded, Failed
<1>2. Resting(t, a)
  BY DEF Quiet, Kept, Resting, Bounded, Restarted, Matched
<1> QED BY <1>1, <1>2 DEF Slotted, Hidden, Steady, Guarded, Quiet

\* recoverConnectedTunnel() outside a silent reconnect.
LEMMA RecoverSlotted ==
    ASSUME NEW s \in Connections, s.stack = <<>>, NEW a, Steady(s, a), Resting(s, a),
           s.state = "Connected", ~s.silent, NEW h \in Healths, NEW e \in Errors
    PROVE  Slotted(recoverConnectedTunnel(s, h, e), a)
<1> DEFINE t == recoverConnectedTunnel(s, h, e)
<1>1. /\ t \in Connections /\ Kept(t, s) /\ t.state = s.state
      /\ t.emitted = s.emitted /\ t.watchdog = s.watchdog
      /\ t.healthTimer => s.healthTimer
      /\ s.recovery => t.recovery
  BY RecoverEffect
<1> HIDE DEF t
<1>2. t.stack = <<>> /\ Steady(t, a)
  BY <1>1 DEF Kept, Steady, Guarded, Failed
<1>3. Resting(t, a)
  BY <1>1 DEF Kept, Resting, Bounded, Restarted, Matched
<1>4. Slotted(t, a)
  BY <1>2, <1>3 DEF Slotted
<1> QED BY <1>4 DEF t

\* The watchdog fails an attempt: its error code survives the teardown.
LEMMA TimedOutSlotted ==
    ASSUME NEW s \in Connections, s.stack = <<>>, NEW a, Steady(s, a), a # "off",
           s.state = "Connecting", Matched(s)
    PROVE  Slotted(onConnectingTimedOut(s), "timedOut")
<1> DEFINE e == [s EXCEPT !.lastError = "VpnHandshakeTimeout"]
           failed == setConnectionHealth(e, "HandshakeTimeout")
           b == s.proto.kind # "None"
           g == [failed EXCEPT !.stopping = b]
           h == StopProtocol(g)
           x == setConnectionState(h, "Error")
           y == [x EXCEPT !.stopping = FALSE]
<1>1. "VpnHandshakeTimeout" \in Errors /\ "HandshakeTimeout" \in Healths /\ b \in BOOLEAN
  BY DEF Errors, RecoverableErrors, Healths, Problems
<1>2. ~s.silent /\ Owned(s.proto) /\ s.proto \in Protocols /\ s.kind # "None" /\ ~s.crashed
  BY DEF Steady, Guarded, Connections
<1>3. e \in Connections /\ Kept(e, s) /\ e.state = s.state /\ e.lastError = "VpnHandshakeTimeout"
  BY <1>1 DEF Connections, Kept
<1> HIDE DEF e
<1>4. failed \in Connections /\ Same(failed, e)
  BY <1>1, <1>3, HealthSame
<1> HIDE DEF failed
<1>5. /\ g \in Connections /\ g.stopping = b /\ g.silent = failed.silent /\ g.pending = failed.pending
      /\ g.kind = failed.kind /\ g.crashed = failed.crashed /\ g.siteTimer = failed.siteTimer
      /\ g.proto = failed.proto /\ g.stack = failed.stack /\ g.state = failed.state
      /\ g.lastError = failed.lastError
  <2> HIDE DEF b
  <2> QED BY <1>1, <1>4 DEF Connections
<1> HIDE DEF g
<1>6. /\ g.silent = s.silent /\ g.pending = s.pending /\ g.kind = s.kind /\ g.crashed = s.crashed
      /\ g.siteTimer = s.siteTimer /\ g.proto = s.proto /\ g.stack = <<>> /\ g.state = s.state
      /\ g.lastError = "VpnHandshakeTimeout" /\ (g.stopping <=> s.proto.kind # "None")
  BY <1>3, <1>4, <1>5 DEF Same, Beside, Kept
<1>7. /\ h \in Connections /\ h.proto = StopObject(g.proto) /\ h.stack = g.stack
      /\ h.siteTimer = g.siteTimer /\ h.silent = g.silent /\ h.pending = g.pending
      /\ h.kind = g.kind /\ h.crashed = g.crashed
      /\ Beside(h, g) \/ (~g.stopping /\ ~g.proto.stopped)
  BY <1>2, <1>5, <1>6, StopProtocolEffect
<1> HIDE DEF h
<1>8. /\ Beside(h, g) /\ h.proto \in Protocols /\ Owned(h.proto) /\ h.proto.kind = s.proto.kind
      /\ s.proto.kind # "WireGuard" => ~h.proto.live
  BY <1>2, <1>6, <1>7, StopObjectEffect DEF Owned
<1>9. h.state = "Connecting" /\ h.lastError = "VpnHandshakeTimeout"
  BY <1>6, <1>8 DEF Beside
<1>10. x \in Connections /\ Enters(x, h, "Error")
  BY <1>7, <1>9, SetStateEffect DEF Entered
<1> HIDE DEF x
<1>11. /\ y \in Connections /\ y.stopping = FALSE /\ y.silent = x.silent /\ y.pending = x.pending
       /\ y.kind = x.kind /\ y.crashed = x.crashed /\ y.siteTimer = x.siteTimer
       /\ y.proto = x.proto /\ y.stack = x.stack /\ y.state = x.state /\ y.emitted = x.emitted
       /\ y.lastError = x.lastError /\ y.healthTimer = x.healthTimer
  BY <1>10 DEF Connections
<1>12. y = onConnectingTimedOut(s)
  BY <1>2 DEF onConnectingTimedOut, y, x, h, g, failed, e
<1> HIDE DEF y
<1>13. /\ y.silent = s.silent /\ y.pending = s.pending /\ y.kind = s.kind /\ y.crashed = s.crashed
       /\ y.siteTimer = s.siteTimer /\ y.proto = h.proto /\ y.stack = <<>> /\ y.state = "Error"
       /\ y.emitted = "Error" /\ y.lastError = "VpnHandshakeTimeout" /\ ~y.healthTimer
       /\ ~y.stopping
  BY <1>6, <1>7, <1>9, <1>10, <1>11 DEF Enters, Kept
<1>14. s.kind # "WireGuard" => ~h.proto.live
  BY <1>8 DEF Matched
<1>15. Steady(y, "timedOut")
  BY <1>2, <1>8, <1>13, <1>14 DEF Steady, Guarded, Failed
<1>16. Resting(y, "timedOut")
  BY <1>13 DEF Resting, Bounded, Restarted, Matched
<1> QED BY <1>12, <1>13, <1>15, <1>16 DEF Slotted

\* checkConnectedHealth().
LEMMA CheckEffect ==
    ASSUME NEW s, Sound(s)
    PROVE  LET t == checkConnectedHealth(s)
           IN  t \in Connections /\ Quiet(t, s) /\ t.lastError = s.lastError
<1> DEFINE n == IF s.idleChecks < MaxChecks THEN s.idleChecks + 1 ELSE MaxChecks
           t == [s EXCEPT !.lookup = TRUE]
           b == t.probe \/ n >= MaxChecks
           x == [s EXCEPT !.healthTimer = FALSE, !.idleChecks = 0]
           y == [t EXCEPT !.probe = TRUE]
           z == [t EXCEPT !.idleChecks = n, !.probe = @ \/ n >= MaxChecks]
<1>1. s \in Connections
  BY DEF Sound
<1>2. checkConnectedHealth(s) \in Connections
  BY CheckSound DEF Sound
<1>3. /\ t \in Connections /\ Kept(t, s) /\ t.state = s.state /\ t.emitted = s.emitted
      /\ t.watchdog = s.watchdog /\ t.recovery = s.recovery /\ t.healthTimer = s.healthTimer
      /\ t.lastError = s.lastError
  BY <1>1 DEF Connections, Kept
<1>4. Quiet(t, s) /\ t.lastError = s.lastError /\ Quiet(s, s)
  BY <1>3 DEF Quiet, Kept
<1>5. Quiet(x, s) /\ x.lastError = s.lastError
  BY <1>1 DEF Connections, Quiet, Kept
<1>6. checkConnectedHealth(s) \in {s, t, x, y, z}
  BY DEF checkConnectedHealth
<1> HIDE DEF t, n
<1>7. Quiet(y, t) /\ y.lastError = t.lastError
  BY <1>3 DEF Connections, Quiet, Kept
<1>8. Quiet(z, t) /\ z.lastError = t.lastError
  BY <1>3 DEF Connections, Quiet, Kept
<1> HIDE DEF x, y, z
<1>9. Quiet(y, s) /\ y.lastError = s.lastError /\ Quiet(z, s) /\ z.lastError = s.lastError
  BY <1>4, <1>7, <1>8 DEF Quiet, Kept
<1> QED BY <1>2, <1>4, <1>5, <1>6, <1>9

\* Every timer.
LEMMA TimersSlotted ==
    ASSUME MaxDepth = 1, Sound(vc), Slotted(vc, asked), Timers
    PROVE  Slotted(vc', asked') /\ Hidden(vc, vc', asked)
<1>1. vc \in Connections /\ vc.stack = <<>> /\ Steady(vc, asked) /\ Resting(vc, asked)
  BY AtRest DEF Timers, ConnectingTimeout, PendingDeadline, RecoveryTimeout,
                resumePendingNetworkAction, HealthTimeout, FirstHealthCheck, SiteRoutesTimer
<1>2. CASE ConnectingTimeout
  <2> DEFINE s == [vc EXCEPT !.watchdog = FALSE]
  <2>1. /\ s \in Connections /\ Kept(s, vc) /\ s.state = vc.state /\ s.emitted = vc.emitted
        /\ s.recovery = vc.recovery /\ s.healthTimer = vc.healthTimer /\ s.watchdog = FALSE
        /\ s.lastError = vc.lastError
    BY <1>1 DEF Connections, Kept
  <2>2. vc' = onConnectingTimedOut(s) /\ asked' = IF TimesOut(vc) THEN "timedOut" ELSE asked
    BY <1>2 DEF ConnectingTimeout
  <2> HIDE DEF s
  <2>3. CASE vc.silent
    <3> DEFINE t == handleSilentReconnectFailure(s, "HandshakeTimeout", "VpnHandshakeTimeout")
    <3>1. vc.state = "Connected" /\ asked' = asked /\ asked # "off"
      BY <1>1, <2>2, <2>3 DEF Steady, Guarded, TimesOut, Resting
    <3>2. vc' = t
      BY <2>1, <2>2, <2>3, <3>1 DEF onConnectingTimedOut, Kept
    <3>3. "VpnHandshakeTimeout" \in Errors \ {"NoError"} /\ "HandshakeTimeout" \in Healths
      BY DEF Errors, RecoverableErrors, Healths, Problems
    <3>4. /\ Owned(s.proto) /\ ~s.proto.stopped /\ s.pending = "None" /\ s.state = "Connected"
          /\ s.emitted = s.state /\ ~s.stopping /\ ~s.crashed /\ s.proto.kind # "None"
          /\ s.kind # "None" /\ s.stack = <<>> /\ ~(asked = "timedOut" /\ s.kind # "WireGuard")
      BY <1>1, <2>1, <2>3, <3>1 DEF Kept, Steady, Guarded, Resting, Failed
    <3>5. t \in Connections /\ GivesUp(t, s)
      BY <2>1, <3>3, <3>4, SilentFailureEffect
    <3> HIDE DEF t
    <3>6. Slotted(t, asked) /\ t.state \in {"Connected", "Error"}
      BY <3>1, <3>4, <3>5, GivesUpRests
    <3> QED BY <3>1, <3>2, <3>6 DEF Hidden
  <2>4. CASE ~vc.silent /\ vc.state = "Connecting"
    <3>1. asked' = "timedOut" /\ asked # "off"
      BY <1>1, <2>2, <2>4 DEF TimesOut, Resting
    <3>2. Steady(s, asked) /\ s.stack = <<>> /\ Matched(s) /\ s.state = "Connecting"
      BY <1>1, <2>1, <2>4 DEF Kept, Steady, Guarded, Failed, Resting, Matched
    <3> QED BY <2>1, <2>2, <2>4, <3>1, <3>2, TimedOutSlotted DEF Hidden
  <2>5. CASE ~vc.silent /\ vc.state # "Connecting"
    <3>1. vc.state # "Reconnecting"
      BY <1>1 DEF Steady
    <3>2. vc' = s /\ asked' = asked
      BY <2>1, <2>2, <2>5, <3>1 DEF onConnectingTimedOut, TimesOut, Kept
    <3>3. Steady(s, asked) /\ s.stack = <<>> /\ Resting(s, asked)
      BY <1>1, <2>1, <2>5 DEF Kept, Steady, Guarded, Failed, Resting, Bounded, Restarted, Matched
    <3> QED BY <2>5, <3>2, <3>3 DEF Slotted, Hidden
  <2> QED BY <2>3, <2>4, <2>5
<1>3. CASE PendingDeadline
  <2> DEFINE s == [vc EXCEPT !.deadline = FALSE]
             t == stopPendingNetworkAction(s)
             gaveUp == vc.pending = "StartConnection"
  <2>1. /\ s \in Connections /\ s.silent = vc.silent /\ s.stopping = vc.stopping
        /\ s.pending = vc.pending /\ s.kind = vc.kind /\ s.crashed = vc.crashed
        /\ s.siteTimer = vc.siteTimer /\ s.proto = vc.proto /\ s.stack = vc.stack
        /\ s.state = vc.state /\ s.lastError = vc.lastError /\ s.watchdog = vc.watchdog
        /\ s.healthTimer = vc.healthTimer /\ s.recovery = vc.recovery /\ s.emitted = vc.emitted
    BY <1>1 DEF Connections
  <2>2. /\ vc' = IF gaveUp THEN onConnectingTimedOut(t) ELSE s
        /\ asked' = IF gaveUp /\ TimesOut(vc) THEN "timedOut" ELSE asked
    BY <1>3 DEF PendingDeadline
  <2> HIDE DEF s
  <2>3. /\ t \in Connections /\ t.pending = "None" /\ t.silent = s.silent
        /\ t.stopping = s.stopping /\ t.kind = s.kind
        /\ t.crashed = s.crashed /\ t.siteTimer = s.siteTimer /\ t.proto = s.proto
        /\ t.stack = s.stack /\ t.state = s.state /\ t.lastError = s.lastError
        /\ t.watchdog = s.watchdog /\ t.healthTimer = s.healthTimer
        /\ t.recovery = s.recovery /\ t.emitted = s.emitted
    BY <2>1, StopPendingEffect
  <2> HIDE DEF t
  <2>4. CASE ~gaveUp
    <3>1. Steady(s, asked) /\ s.stack = <<>> /\ Resting(s, asked)
      BY <1>1, <2>1, <2>4 DEF Steady, Guarded, Failed, Resting, Bounded, Restarted, Matched
    <3> QED BY <1>1, <2>1, <2>2, <2>4, <3>1 DEF Slotted, Hidden, Steady, Guarded
  <2>5. CASE gaveUp
    <3>1. ~vc.silent /\ vc.proto.kind = "None" /\ vc.state \notin {"Connected", "Reconnecting"}
      BY <1>1, <2>5 DEF Steady, Guarded
    <3>2. Steady(t, asked) /\ t.stack = <<>> /\ Matched(t) /\ t.state = vc.state /\ ~t.silent
      BY <1>1, <2>1, <2>3, <3>1 DEF Steady, Guarded, Failed, Matched, Resting
    <3>3. CASE vc.state = "Connecting"
      <4>1. asked' = "timedOut" /\ asked # "off"
        BY <1>1, <2>2, <2>5, <3>3 DEF TimesOut, Resting
      <4> QED BY <2>2, <2>3, <2>5, <3>1, <3>2, <3>3, <4>1, TimedOutSlotted DEF Hidden
    <3>4. CASE vc.state # "Connecting"
      <4>1. vc' = t /\ asked' = asked
        BY <2>2, <2>5, <3>1, <3>2, <3>4 DEF onConnectingTimedOut, TimesOut
      <4>2. Resting(t, asked)
        BY <1>1, <2>1, <2>3, <3>1, <3>2, <3>4 DEF Resting, Bounded, Restarted, Matched
      <4> QED BY <3>1, <3>2, <4>1, <4>2 DEF Slotted, Hidden
    <3> QED BY <3>3, <3>4
  <2> QED BY <2>4, <2>5
<1>4. CASE RecoveryTimeout
  <2> DEFINE s == [vc EXCEPT !.recovery = FALSE]
  <2>1. /\ s \in Connections /\ Kept(s, vc) /\ s.state = vc.state /\ s.emitted = vc.emitted
        /\ s.watchdog = vc.watchdog /\ s.healthTimer = vc.healthTimer
        /\ s.lastError = vc.lastError /\ s.recovery = FALSE
    BY <1>1 DEF Connections, Kept
  <2>2. vc.recovery /\ vc.state = "Connected"
    BY <1>4 DEF RecoveryTimeout, Sound
  <2>3. ~vc.silent /\ vc.proto.kind # "None" /\ asked # "off"
    BY <1>1, <2>2 DEF Steady, Guarded, Resting
  <2>4. vc' = IF s.state = "Connected" /\ ~s.silent /\ s.proto.kind # "None"
              THEN startSilentReconnect(s) ELSE s
    BY <1>4 DEF RecoveryTimeout
  <2>5. asked' = asked
    BY <1>4 DEF RecoveryTimeout
  <2> HIDE DEF s
  <2>6. vc' = startSilentReconnect(s)
    BY <2>1, <2>2, <2>3, <2>4 DEF Kept
  <2>7. Steady(s, asked) /\ s.stack = <<>> /\ s.emitted = s.state /\ s.state = "Connected" /\ ~s.silent
    BY <1>1, <2>1, <2>2, <2>3 DEF Kept, Steady, Guarded, Failed, Resting
  <2> QED BY <2>1, <2>3, <2>5, <2>6, <2>7, SilentSlotted DEF Hidden
<1>5. CASE resumePendingNetworkAction
  <2>1. vc.pending # "None" /\ vc' = Push(vc, "resume", FALSE) /\ asked' = asked
    BY <1>5 DEF resumePendingNetworkAction
  <2>2. asked # "off" /\ ~vc.silent
    BY <1>1, <2>1 DEF Resting, Steady, Guarded
  <2>3. \A f \in Frames : f.at = "resume" /\ f.emit = FALSE => Waiting(vc, asked, f)
    BY <1>1, <2>1, <2>2 DEF Waiting, Resting
  <2>4. Slotted(Push(vc, "resume", FALSE), asked)
    BY <1>1, <2>3, PushSlotted DEF Waits
  <2> QED BY <2>1, <2>2, <2>4 DEF Hidden
<1>6. CASE HealthTimeout
  <2>1. Quiet(vc', vc) /\ vc'.lastError = vc.lastError /\ asked' = asked
    BY <1>6, CheckEffect DEF HealthTimeout
  <2> QED BY <1>1, <2>1, QuietSlotted
<1>7. CASE FirstHealthCheck
  <2> DEFINE s == [vc EXCEPT !.kick = FALSE]
             t == checkConnectedHealth(s)
  <2>1. Sound(s)
    BY FlagsSound
  <2>2. Quiet(s, vc) /\ s.lastError = vc.lastError
    BY <1>1 DEF Connections, Quiet, Kept
  <2>3. vc' = [t EXCEPT !.probe = TRUE] /\ asked' = asked
    BY <1>7 DEF FirstHealthCheck
  <2> HIDE DEF s
  <2>4. t \in Connections /\ Quiet(t, s) /\ t.lastError = s.lastError
    BY <2>1, CheckEffect
  <2> HIDE DEF t
  <2>5. Quiet(vc', t) /\ vc'.lastError = t.lastError
    BY <2>3, <2>4 DEF Connections, Quiet, Kept
  <2>6. Quiet(vc', vc) /\ vc'.lastError = vc.lastError
    BY <2>2, <2>4, <2>5 DEF Quiet, Kept
  <2> QED BY <1>1, <2>3, <2>6, QuietSlotted
<1>8. ASSUME NEW any \in BOOLEAN, SiteRoutesTimer(any)
      PROVE  Slotted(vc', asked') /\ Hidden(vc, vc', asked)
  <2> DEFINE s == [vc EXCEPT !.siteTimer = FALSE]
             t == configureDnsSplitTunnel(s)
  <2>1. s \in Connections /\ Beside(s, vc) /\ s.proto = vc.proto /\ s.stack = vc.stack
        /\ s.siteTimer = FALSE
    BY <1>1 DEF Connections, Beside
  <2>2. asked # "off"
    BY <1>1, <1>8 DEF SiteRoutesTimer, Steady, Resting
  <2>3. vc' = addSitesRoutes(t, any, FALSE) /\ asked' = asked
    BY <1>8 DEF SiteRoutesTimer
  <2> HIDE DEF s
  <2>4. Steady(s, asked) /\ s.stack = <<>> /\ Resting(s, asked) /\ s.state = vc.state
    BY <1>1, <2>1 DEF Beside, Steady, Guarded, Failed, Resting, Bounded, Restarted, Matched
  <2>5. t \in Connections /\ Same(t, s)
    BY <2>1, DnsSame
  <2> HIDE DEF t
  <2>6. Steady(t, asked) /\ Resting(t, asked) /\ t.stack = <<>> /\ t.state = vc.state
    BY <2>4, <2>5, Transfer DEF Same, Beside
  <2>7. Slotted(vc', asked) /\ vc'.state = vc.state
    BY <2>2, <2>3, <2>5, <2>6, SitesSlotted
  <2> QED BY <1>1, <2>3, <2>7 DEF Hidden, Steady, Guarded
<1> QED BY <1>2, <1>3, <1>4, <1>5, <1>6, <1>7, <1>8 DEF Timers

\* Every answer to a probe, a lookup or an asynchronous call.
LEMMA AnswersSlotted ==
    ASSUME MaxDepth = 1, Sound(vc), Slotted(vc, asked), Answers
    PROVE  Slotted(vc', asked') /\ Hidden(vc, vc', asked)
<1>1. vc \in Connections /\ vc.stack = <<>> /\ Steady(vc, asked) /\ Resting(vc, asked)
  BY AtRest DEF Answers, onConnectivityProbeSucceeded, onConnectivityProbeFailed,
                DnsLookupFinished, DnsSplitTunnelReply, onBytesChanged
<1>2. /\ "VpnNoTrafficError" \in Errors /\ "NoError" \in Errors
      /\ {"NoTraffic", "DnsFailed", "Healthy"} \subseteq Healths
      /\ 0 \in 0..MaxRecovery /\ 0 \in 0..MaxChecks
  BY BoundsFacts DEF Errors, RecoverableErrors, Healths, Problems
<1>3. vc.state = "Connected" => ~(asked = "timedOut" /\ vc.kind # "WireGuard")
  BY <1>1 DEF Steady, Failed
<1>4. ASSUME NEW s, Same(s, vc)
      PROVE  /\ Steady(s, asked) /\ Resting(s, asked) /\ s.stack = <<>> /\ s.state = vc.state
             /\ s.silent = vc.silent /\ Slotted(s, asked) /\ Hidden(vc, s, asked)
  <2>1. Steady(s, asked) /\ Resting(s, asked)
    BY <1>1, <1>4, Transfer DEF Same
  <2> QED BY <1>1, <1>4, <2>1, SameSlotted DEF Same, Beside
<1>5. CASE onConnectivityProbeSucceeded
  <2> DEFINE s == [vc EXCEPT !.probe = FALSE]
             t == [s EXCEPT !.lastError = "NoError", !.attempts = 0]
             u == setConnectionHealth(t, "Healthy")
  <2>1. s \in Connections /\ Same(s, vc)
    BY <1>1 DEF Connections, Same, Beside
  <2>2. vc' \in {s, t, u} /\ (vc' # s => s.state = "Connected") /\ asked' = asked
    BY <1>5 DEF onConnectivityProbeSucceeded
  <2> HIDE DEF s
  <2>3. t \in Connections /\ Quiet(t, s)
    BY <1>2, <2>1 DEF Connections, Quiet, Kept
  <2> HIDE DEF t
  <2>4. Same(u, t)
    BY <1>2, <2>3, HealthSame
  <2> HIDE DEF u
  <2>5. Quiet(t, vc) /\ Quiet(u, vc)
    BY <2>1, <2>3, <2>4 DEF Quiet, Kept, Same, Beside
  <2>6. CASE vc' = s
    BY <1>4, <2>1, <2>2, <2>6
  <2>7. CASE vc' # s
    <3>1. vc.state = "Connected" /\ Quiet(vc', vc)
      BY <2>1, <2>2, <2>5, <2>7 DEF Same, Beside
    <3> QED BY <1>1, <1>3, <2>2, <3>1, QuietSlotted
  <2> QED BY <2>6, <2>7
<1>6. CASE onConnectivityProbeFailed
  <2> DEFINE s == [vc EXCEPT !.probe = FALSE]
             t == recoverConnectedTunnel(s, "NoTraffic", "VpnNoTrafficError")
  <2>1. s \in Connections /\ Same(s, vc)
    BY <1>1 DEF Connections, Same, Beside
  <2>2. vc' = (IF s.state # "Connected" \/ s.silent THEN s ELSE t) /\ asked' = asked
    BY <1>6 DEF onConnectivityProbeFailed
  <2> HIDE DEF s
  <2>3. /\ Steady(s, asked) /\ Resting(s, asked) /\ s.stack = <<>> /\ s.silent = vc.silent
        /\ Slotted(s, asked) /\ Hidden(vc, s, asked)
    BY <1>4, <2>1
  <2>4. ASSUME s.state = "Connected", ~s.silent
        PROVE  Slotted(t, asked)
    BY <1>2, <2>1, <2>3, <2>4, RecoverSlotted
  <2> HIDE DEF t
  <2> QED BY <2>2, <2>3, <2>4 DEF Hidden
<1>7. ASSUME NEW ok \in BOOLEAN, DnsLookupFinished(ok)
      PROVE  Slotted(vc', asked') /\ Hidden(vc, vc', asked)
  <2> DEFINE s == [vc EXCEPT !.lookup = FALSE]
             t == recoverConnectedTunnel(s, "DnsFailed", "VpnNoTrafficError")
             q == [s EXCEPT !.lastError = "NoError"]
             u == setConnectionHealth(q, "Healthy")
  <2>1. s \in Connections /\ Same(s, vc)
    BY <1>1 DEF Connections, Same, Beside
  <2>2. /\ vc' \in {s, t, u} /\ asked' = asked
        /\ vc' # s => s.state = "Connected" /\ ~s.silent
    BY <1>7 DEF DnsLookupFinished
  <2> HIDE DEF s
  <2>3. /\ Steady(s, asked) /\ Resting(s, asked) /\ s.stack = <<>> /\ s.silent = vc.silent
        /\ s.state = vc.state /\ Slotted(s, asked) /\ Hidden(vc, s, asked)
    BY <1>4, <2>1
  <2>4. ASSUME s.state = "Connected", ~s.silent
        PROVE  Slotted(t, asked)
    BY <1>2, <2>1, <2>3, <2>4, RecoverSlotted
  <2>5. q \in Connections /\ Quiet(q, s)
    BY <1>2, <2>1 DEF Connections, Quiet, Kept
  <2> HIDE DEF q
  <2>6. Same(u, q)
    BY <1>2, <2>5, HealthSame
  <2> HIDE DEF u
  <2>7. Quiet(u, vc)
    BY <2>1, <2>5, <2>6 DEF Quiet, Kept, Same, Beside
  <2>8. ASSUME s.state = "Connected", ~s.silent
        PROVE  Slotted(u, asked)
    BY <1>1, <1>3, <2>3, <2>7, <2>8, QuietSlotted
  <2> HIDE DEF t
  <2> QED BY <2>2, <2>3, <2>4, <2>8 DEF Hidden
<1>8. ASSUME NEW ok \in BOOLEAN, DnsSplitTunnelReply(ok)
      PROVE  Slotted(vc', asked') /\ Hidden(vc, vc', asked)
  <2> DEFINE s == [vc EXCEPT !.dnsReply = FALSE]
             u == setConnectionHealth(s, "DnsFailed")
  <2>1. s \in Connections /\ Same(s, vc)
    BY <1>1 DEF Connections, Same, Beside
  <2>2. vc' \in {s, u} /\ asked' = asked
    BY <1>8 DEF DnsSplitTunnelReply
  <2> HIDE DEF s
  <2>3. Same(u, s)
    BY <1>2, <2>1, HealthSame
  <2> HIDE DEF u
  <2>4. Same(vc', vc)
    BY <2>1, <2>2, <2>3 DEF Same, Beside
  <2> QED BY <1>4, <2>2, <2>4
<1>9. CASE onBytesChanged
  <2>1. vc' = [vc EXCEPT !.idleChecks = 0] /\ asked' = asked
    BY <1>9 DEF onBytesChanged
  <2>2. Same(vc', vc)
    BY <1>1, <2>1 DEF Connections, Same, Beside
  <2> QED BY <1>4, <2>1, <2>2
<1> QED BY <1>5, <1>6, <1>7, <1>8, <1>9 DEF Answers

-----------------------------------------------------------------------------
(* Signals of the protocol object. *)

\* A signal comes between slots and from an object that is in place: the user has not
\* disconnected, and the attempt has not timed out.
LEMMA SignalsFacts ==
    ASSUME MaxDepth = 1, Sound(vc), Slotted(vc, asked), Signals
    PROVE  /\ vc \in Connections /\ vc.stack = <<>> /\ Steady(vc, asked) /\ Resting(vc, asked)
           /\ vc.proto \in Protocols /\ Owned(vc.proto) /\ vc.proto.kind # "None"
           /\ vc.proto.live /\ vc.proto.wired # "none"
           /\ asked # "off" /\ vc.kind # "None" /\ vc.pending # "StartConnection"
           /\ ~vc.stopping /\ ~vc.crashed /\ vc.state # "Reconnecting"
           /\ ~(asked = "timedOut" /\ vc.kind # "WireGuard")
<1>1. /\ vc \in Connections /\ vc.stack = <<>> /\ Steady(vc, asked) /\ Resting(vc, asked)
      /\ vc.proto.live /\ vc.proto.wired # "none"
  BY AtRest DEF Signals
<1>2. vc.proto \in Protocols /\ Owned(vc.proto) /\ ~vc.stopping /\ ~vc.crashed
      /\ vc.state # "Reconnecting"
  BY <1>1 DEF Connections, Steady
<1>3. vc.proto.kind # "None" /\ ~(asked = "timedOut" /\ vc.kind # "WireGuard")
  BY <1>1, <1>2 DEF Owned, Steady, Failed
<1>4. asked # "off" /\ vc.pending # "StartConnection"
  BY <1>1, <1>3 DEF Resting, Steady
<1>5. vc.kind # "None"
  BY <1>1, <1>4 DEF Steady
<1> QED BY <1>1, <1>2, <1>3, <1>4, <1>5

\* The protocol object changes.
LEMMA ProtoEffect ==
    ASSUME NEW s \in Connections, NEW p \in Protocols
    PROVE  LET t == [s EXCEPT !.proto = p]
           IN  /\ t \in Connections /\ Beside(t, s) /\ t.siteTimer = s.siteTimer
               /\ t.stack = s.stack /\ t.proto = p
BY DEF Connections, Beside

\* An object whose state or error changes is still the one in place.
LEMMA ProtoRests ==
    ASSUME NEW s, NEW t, NEW a, s.stack = <<>>, Steady(s, a), Resting(s, a), ~s.silent,
           ~(a = "timedOut" /\ s.kind # "WireGuard"),
           Beside(t, s), t.siteTimer = s.siteTimer, t.stack = s.stack, Owned(t.proto),
           t.proto.kind = s.proto.kind, t.proto.wired = s.proto.wired
    PROVE  Steady(t, a) /\ Resting(t, a) /\ Slotted(t, a)
<1>1. Steady(t, a)
  BY DEF Beside, Steady, Guarded
<1>2. Resting(t, a)
  BY DEF Beside, Resting, Bounded, Restarted, Matched
<1> QED BY <1>1, <1>2 DEF Slotted

\* What a signal that ends the tunnel finds, outside a silent reconnect.
Ending(s, a) ==
    /\ s.stack = <<>> /\ ~s.silent /\ ~s.stopping /\ ~s.crashed /\ s.state # "Reconnecting"
    /\ Owned(s.proto) /\ s.proto.kind # "None" /\ s.pending # "StartConnection"
    /\ s.kind # "None" /\ a # "off" /\ ~(a = "timedOut" /\ s.kind # "WireGuard")

\* Disconnected or Error is entered by a signal.
LEMMA EnteredRests ==
    ASSUME NEW s, NEW t, NEW a, NEW st \in {"Disconnected", "Error"}, Enters(t, s, st), Ending(s, a)
    PROVE  Slotted(t, a)
BY DEF Enters, Kept, Ending, Slotted, Steady, Guarded, Resting, Bounded, Restarted, Matched

\* The first half of setConnectionState(Connected).
LEMMA EnterConnectedEffect ==
    ASSUME NEW s \in Connections
    PROVE  LET t == EnterConnected(s)
           IN  /\ t \in Connections /\ t.silent = FALSE /\ t.state = "Connected"
               /\ t.stopping = s.stopping /\ t.pending = s.pending /\ t.kind = s.kind
               /\ t.crashed = s.crashed /\ t.siteTimer = s.siteTimer /\ t.proto = s.proto
               /\ t.stack = s.stack
<1> DEFINE u == [s EXCEPT !.silent = FALSE, !.state = "Connected", !.watchdog = FALSE]
           t == setConnectionHealth(u, "ApplyingRoutes")
<1>1. /\ u \in Connections /\ u.silent = FALSE /\ u.state = "Connected"
      /\ u.stopping = s.stopping /\ u.pending = s.pending /\ u.kind = s.kind
      /\ u.crashed = s.crashed /\ u.siteTimer = s.siteTimer /\ u.proto = s.proto
      /\ u.stack = s.stack
  BY DEF Connections, States
<1>2. t = EnterConnected(s)
  BY DEF EnterConnected
<1> HIDE DEF u
<1>3. t \in Connections /\ Same(t, u)
  BY <1>1, HealthSame DEF Healths
<1> HIDE DEF t
<1> QED BY <1>1, <1>2, <1>3 DEF Same, Beside

\* The daemon's handshake, or tun2socks' setup.
LEMMA ConnectedSlotted ==
    ASSUME MaxDepth = 1, Sound(vc), Slotted(vc, asked), NEW service \in BOOLEAN,
           ProtocolConnected(service)
    PROVE  Slotted(vc', asked') /\ Hidden(vc, vc', asked)
<1> DEFINE p == [vc.proto EXCEPT !.st = "Connected"]
           q == [vc EXCEPT !.proto = p]
           s == EnterConnected(q)
           t == setConnectionHealth(s, "CheckingDns")
<1>1. /\ vc \in Connections /\ vc.stack = <<>>
      /\ vc.proto \in Protocols /\ Owned(vc.proto) /\ vc.proto.kind # "None"
      /\ vc.proto.wired # "none"
      /\ asked # "off" /\ vc.kind # "None" /\ vc.pending # "StartConnection"
      /\ ~vc.stopping /\ ~vc.crashed
      /\ ~(asked = "timedOut" /\ vc.kind # "WireGuard")
  BY SignalsFacts DEF ProtocolConnected
<1>2. asked' = asked
  BY DEF ProtocolConnected
<1>3. p \in Protocols /\ Owned(p) /\ p.kind = vc.proto.kind /\ p.wired = vc.proto.wired
  BY <1>1 DEF Protocols, Owned, States
<1>4. [vc EXCEPT !.proto.st = "Connected"] = q
  BY <1>1 DEF Connections
<1>5. vc' = IF LegacyRouting(s) /\ service THEN Push(t, "flush", TRUE) ELSE FinishConnected(s)
  BY <1>4 DEF ProtocolConnected
<1> HIDE DEF p
<1>6. q \in Connections /\ Beside(q, vc) /\ q.siteTimer = vc.siteTimer /\ q.stack = vc.stack
      /\ q.proto = p
  BY <1>1, <1>3, ProtoEffect
<1> HIDE DEF q
<1>7. /\ s \in Connections /\ s.silent = FALSE /\ s.state = "Connected"
      /\ s.stopping = q.stopping /\ s.pending = q.pending /\ s.kind = q.kind
      /\ s.crashed = q.crashed /\ s.siteTimer = q.siteTimer /\ s.proto = q.proto
      /\ s.stack = q.stack
  BY <1>6, EnterConnectedEffect
<1> HIDE DEF s
<1>8. s.stack = <<>> /\ Steady(s, asked) /\ ~s.silent /\ Restarted(s)
  BY <1>1, <1>3, <1>6, <1>7 DEF Beside, Steady, Guarded, Restarted
<1>9. t \in Connections /\ Same(t, s)
  BY <1>7, HealthSame DEF Healths
<1> HIDE DEF t
<1>10. t.stack = <<>> /\ Steady(t, asked) /\ ~t.silent /\ Restarted(t) /\ t.state = "Connected"
  BY <1>7, <1>8, <1>9, SameConnected
<1>11. Slotted(Push(t, "flush", TRUE), asked) /\ Push(t, "flush", TRUE).state = "Connected"
  BY <1>1, <1>9, <1>10, WaitsOn
<1>12. Slotted(FinishConnected(s), asked) /\ FinishConnected(s).state = "Connected"
  BY <1>1, <1>7, <1>8, FinishSlotted
<1> QED BY <1>2, <1>5, <1>11, <1>12 DEF Hidden

\* The daemon's "disconnected" message.
LEMMA DisconnectedSlotted ==
    ASSUME MaxDepth = 1, Sound(vc), Slotted(vc, asked), WireguardDisconnected
    PROVE  Slotted(vc', asked') /\ Hidden(vc, vc', asked)
<1> DEFINE p == [vc.proto EXCEPT !.live = ~vc.proto.stopped]
           q == [vc EXCEPT !.proto = p]
           r == [p EXCEPT !.st = "Disconnected"]
           t == [q EXCEPT !.proto = r]
           x == setConnectionState(t, "Disconnected")
<1>1. /\ vc \in Connections /\ vc.stack = <<>> /\ Steady(vc, asked) /\ Resting(vc, asked)
      /\ vc.proto \in Protocols /\ Owned(vc.proto) /\ vc.proto.kind # "None"
      /\ vc.proto.wired # "none"
      /\ asked # "off" /\ vc.kind # "None" /\ vc.pending # "StartConnection"
      /\ ~vc.stopping /\ ~vc.crashed /\ vc.state # "Reconnecting"
      /\ ~(asked = "timedOut" /\ vc.kind # "WireGuard")
  BY SignalsFacts DEF WireguardDisconnected
<1>2. asked' = asked /\ vc.proto.kind = "WireGuard"
  BY DEF WireguardDisconnected
<1>3. /\ p \in Protocols /\ Owned(p) /\ p.kind = vc.proto.kind /\ p.wired = vc.proto.wired
      /\ p.st = vc.proto.st /\ p.stopped = vc.proto.stopped
  BY <1>1, <1>2 DEF Protocols, Owned
<1>4. [vc EXCEPT !.proto.live = ~vc.proto.stopped] = q
  BY <1>1 DEF Connections
<1>5. vc' = SignalState(q, "Disconnected")
  BY <1>4 DEF WireguardDisconnected
<1> HIDE DEF p
<1>6. q \in Connections /\ Beside(q, vc) /\ q.siteTimer = vc.siteTimer /\ q.stack = vc.stack
      /\ q.proto = p
  BY <1>1, <1>3, ProtoEffect
<1>7. r \in Protocols /\ Owned(r) /\ r.kind = p.kind /\ r.wired = p.wired /\ r.stopped = p.stopped
  BY <1>3 DEF Protocols, Owned, States
<1> HIDE DEF q
<1>8. [q EXCEPT !.proto.st = "Disconnected"] = t
  BY <1>6 DEF Connections
<1>9. vc' = IF p.st = "Disconnected" THEN q ELSE x
  BY <1>1, <1>3, <1>5, <1>6, <1>8 DEF SignalState
<1> HIDE DEF r
<1>10. t \in Connections /\ Beside(t, q) /\ t.siteTimer = q.siteTimer /\ t.stack = q.stack
       /\ t.proto = r
  BY <1>6, <1>7, ProtoEffect
<1> HIDE DEF t
<1>11. Beside(t, vc) /\ t.siteTimer = vc.siteTimer /\ t.stack = vc.stack
  BY <1>6, <1>10 DEF Beside
<1>12. CASE vc.silent
  <2> DEFINE y == handleSilentReconnectFailure(t, "LocalServiceUnavailable",
                                                "AmneziaServiceConnectionFailed")
  <2>1. vc.state = "Connected" /\ ~vc.proto.stopped /\ vc.proto.st = "Unknown"
        /\ vc.pending = "None" /\ vc.emitted = vc.state
    BY <1>1, <1>12 DEF Steady, Guarded, Resting
  <2>2. vc' = y
    BY <1>3, <1>9, <1>11, <1>12, <2>1 DEF setConnectionState, Beside, x
  <2>3. "LocalServiceUnavailable" \in Healths
        /\ "AmneziaServiceConnectionFailed" \in Errors \ {"NoError"}
    BY DEF Errors, RecoverableErrors, Healths, Problems
  <2>4. /\ Owned(t.proto) /\ ~t.proto.stopped /\ t.pending = "None" /\ t.state = "Connected"
        /\ t.emitted = t.state /\ ~t.stopping /\ ~t.crashed /\ t.proto.kind # "None"
        /\ t.kind # "None" /\ t.stack = <<>> /\ ~(asked = "timedOut" /\ t.kind # "WireGuard")
    BY <1>1, <1>3, <1>7, <1>10, <1>11, <2>1 DEF Beside
  <2>5. y \in Connections /\ GivesUp(y, t)
    BY <1>10, <2>3, <2>4, SilentFailureEffect
  <2> HIDE DEF y
  <2>6. Slotted(y, asked) /\ y.state \in {"Connected", "Error"}
    BY <1>1, <2>4, <2>5, GivesUpRests
  <2> QED BY <1>2, <2>2, <2>6 DEF Hidden
<1>13. CASE ~vc.silent
  <2>1. Slotted(q, asked)
    BY <1>1, <1>3, <1>6, <1>13, ProtoRests
  <2>2. Slotted(t, asked)
    BY <1>1, <1>3, <1>7, <1>10, <1>11, <1>13, ProtoRests
  <2>3. Ending(t, asked)
    BY <1>1, <1>3, <1>7, <1>10, <1>11, <1>13 DEF Ending, Beside
  <2>4. Enters(x, t, "Disconnected") \/ x = t
    BY <1>10, <2>3, SetStateEffect DEF Entered, Ending
  <2> HIDE DEF x
  <2>5. Slotted(x, asked)
    BY <2>2, <2>3, <2>4, EnteredRests
  <2> QED BY <1>2, <1>9, <1>13, <2>1, <2>5 DEF Hidden
<1> QED BY <1>12, <1>13

\* The daemon's "backendFailure": Error, then the protocol error.
LEMMA BackendFailureSlotted ==
    ASSUME MaxDepth = 1, Sound(vc), Slotted(vc, asked), WireguardBackendFailure
    PROVE  Slotted(vc', asked') /\ Hidden(vc, vc', asked)
<1> DEFINE p == [vc.proto EXCEPT !.err = "VpnBackendFailure"]
           q == [vc EXCEPT !.proto = p]
           r == [p EXCEPT !.st = "Error"]
           t == [q EXCEPT !.proto = r]
           x == setConnectionState(t, "Error")
           s == SignalState(q, "Error")
<1>1. /\ vc \in Connections /\ vc.stack = <<>> /\ Steady(vc, asked) /\ Resting(vc, asked)
      /\ vc.proto \in Protocols /\ Owned(vc.proto) /\ vc.proto.kind # "None"
      /\ vc.proto.wired # "none"
      /\ asked # "off" /\ vc.kind # "None" /\ vc.pending # "StartConnection"
      /\ ~vc.stopping /\ ~vc.crashed /\ vc.state # "Reconnecting"
      /\ ~(asked = "timedOut" /\ vc.kind # "WireGuard")
  BY SignalsFacts DEF WireguardBackendFailure
<1>2. /\ "VpnBackendFailure" \in Errors \ {"NoError"} /\ "VpnBackendFailure" \in RecoverableErrors
      /\ connectionHealthForError("VpnBackendFailure") = "LocalServiceUnavailable"
      /\ "LocalServiceUnavailable" \in Healths
  BY DEF Errors, RecoverableErrors, Healths, Problems, connectionHealthForError
<1>3. /\ p \in Protocols /\ Owned(p) /\ p.kind = vc.proto.kind /\ p.wired = vc.proto.wired
      /\ p.st = vc.proto.st /\ p.stopped = vc.proto.stopped
  BY <1>1, <1>2 DEF Protocols, Owned
<1>4. [vc EXCEPT !.proto.err = "VpnBackendFailure"] = q
  BY <1>1 DEF Connections
<1>5. vc' = onProtocolError(s, "VpnBackendFailure") /\ asked' = asked
  BY <1>4 DEF WireguardBackendFailure
<1> HIDE DEF p
<1>6. q \in Connections /\ Beside(q, vc) /\ q.siteTimer = vc.siteTimer /\ q.stack = vc.stack
      /\ q.proto = p
  BY <1>1, <1>3, ProtoEffect
<1>7. r \in Protocols /\ Owned(r) /\ r.kind = p.kind /\ r.wired = p.wired /\ r.stopped = p.stopped
  BY <1>3 DEF Protocols, Owned, States
<1> HIDE DEF q
<1>8. [q EXCEPT !.proto.st = "Error"] = t
  BY <1>6 DEF Connections
<1>9. s = IF p.st = "Error" THEN q ELSE x
  BY <1>1, <1>3, <1>6, <1>8 DEF SignalState
<1> HIDE DEF r, s
<1>10. t \in Connections /\ Beside(t, q) /\ t.siteTimer = q.siteTimer /\ t.stack = q.stack
       /\ t.proto = r
  BY <1>6, <1>7, ProtoEffect
<1> HIDE DEF t
<1>11. Beside(t, vc) /\ t.siteTimer = vc.siteTimer /\ t.stack = vc.stack
  BY <1>6, <1>10 DEF Beside
<1>12. x \in Connections /\ Enters(x, t, "Error")
  <2>1. t.state # "Reconnecting"
    BY <1>1, <1>11 DEF Beside
  <2> QED BY <1>10, <2>1, SetStateEffect DEF Entered
<1> HIDE DEF x
<1>13. CASE vc.silent
  <2> DEFINE y == handleSilentReconnectFailure(s, "LocalServiceUnavailable", "VpnBackendFailure")
  <2>1. ~vc.proto.stopped /\ vc.proto.st = "Unknown" /\ vc.pending = "None"
    BY <1>1, <1>13 DEF Steady, Guarded
  <2>2. s = x
    BY <1>3, <1>9, <2>1
  <2>3. /\ s \in Connections /\ s.silent /\ Owned(s.proto) /\ ~s.proto.stopped /\ s.pending = "None"
        /\ s.state = "Error" /\ s.emitted = s.state /\ ~s.stopping /\ ~s.crashed
        /\ s.proto.kind # "None" /\ s.kind # "None" /\ s.stack = <<>>
        /\ ~(asked = "timedOut" /\ s.kind # "WireGuard")
    <3>1. /\ t.silent = vc.silent /\ t.pending = "None" /\ ~t.stopping /\ ~t.crashed
          /\ t.kind = vc.kind /\ t.stack = <<>>
      BY <1>1, <1>11, <2>1 DEF Beside
    <3>2. Owned(t.proto) /\ ~t.proto.stopped /\ t.proto.kind # "None"
      BY <1>1, <1>3, <1>7, <1>10, <2>1
    <3>3. /\ x.silent = vc.silent /\ x.pending = "None" /\ ~x.stopping /\ ~x.crashed
          /\ x.kind = vc.kind /\ x.stack = <<>> /\ x.proto = t.proto
          /\ x.state = "Error" /\ x.emitted = "Error"
      BY <1>12, <3>1 DEF Enters, Kept
    <3> QED BY <1>1, <1>12, <1>13, <2>2, <3>2, <3>3
  <2>4. vc' = y
    <3>1. onProtocolError(s, "VpnBackendFailure")
          = handleSilentReconnectFailure(s, connectionHealthForError("VpnBackendFailure"),
                                         "VpnBackendFailure")
      <4>1. s.silent /\ "VpnBackendFailure" \in RecoverableErrors
        BY <1>2, <2>3
      <4> QED BY <4>1, Zenon DEF onProtocolError
    <3> QED BY <1>2, <1>5, <3>1, Zenon
  <2>5. y \in Connections /\ GivesUp(y, s)
    BY <1>2, <2>3, SilentFailureEffect
  <2> HIDE DEF y
  <2>6. Slotted(y, asked) /\ y.state \in {"Connected", "Error"}
    BY <1>1, <2>3, <2>5, GivesUpRests
  <2> QED BY <1>5, <2>4, <2>6 DEF Hidden
<1>14. CASE ~vc.silent
  <2> DEFINE z == [s EXCEPT !.lastError = "VpnBackendFailure"]
             u == setConnectionHealth(z, "LocalServiceUnavailable")
             w == [u EXCEPT !.silent = FALSE]
             y == setConnectionState(w, "Error")
  <2>1. Steady(q, asked) /\ Resting(q, asked) /\ Ending(q, asked)
    <3>1. Steady(q, asked) /\ Resting(q, asked)
      BY <1>1, <1>3, <1>6, <1>14, ProtoRests
    <3> QED BY <1>1, <1>3, <1>6, <1>14, <3>1 DEF Ending, Beside
  <2>2. Ending(t, asked)
    BY <1>1, <1>3, <1>7, <1>10, <1>11, <1>14 DEF Ending, Beside
  <2>3. s \in Connections /\ Ending(s, asked)
    <3>1. Ending(x, asked)
      BY <1>12, <2>2 DEF Ending, Enters, Kept
    <3> QED BY <1>6, <1>9, <1>12, <2>1, <3>1
  <2>4. s.state = "Disconnected" => s = q
    BY <1>9, <1>12 DEF Enters
  <2>5. z \in Connections /\ Quiet(z, s)
    BY <1>2, <2>3 DEF Connections, Quiet, Kept
  <2> HIDE DEF z
  <2>6. u \in Connections /\ Same(u, z)
    BY <1>2, <2>5, HealthSame
  <2> HIDE DEF u
  <2>7. Quiet(u, s)
    BY <2>5, <2>6 DEF Quiet, Kept, Same, Beside
  <2>8. w \in Connections /\ Ending(w, asked)
    <3>1. /\ w \in Connections /\ w.silent = FALSE /\ w.stack = u.stack /\ w.stopping = u.stopping
          /\ w.crashed = u.crashed /\ w.state = u.state /\ w.proto = u.proto
          /\ w.pending = u.pending /\ w.kind = u.kind
      BY <2>6 DEF Connections
    <3> HIDE DEF w
    <3> QED BY <2>3, <2>7, <3>1 DEF Ending, Quiet, Kept
  <2>9. s.state # "Disconnecting"
    BY <1>9, <1>12, <2>1 DEF Enters, Steady
  <2>10. vc' = IF s.state = "Disconnected" THEN u ELSE y
    BY <1>5, <2>3, <2>9 DEF onProtocolError, Ending, u, z
  <2> HIDE DEF w
  <2>11. Enters(y, w, "Error")
    BY <2>8, SetStateEffect DEF Entered, Ending
  <2> HIDE DEF y
  <2>12. Slotted(y, asked)
    BY <2>8, <2>11, EnteredRests
  <2>13. s.state = "Disconnected" => Slotted(u, asked)
    <3> SUFFICES ASSUME s.state = "Disconnected" PROVE Slotted(u, asked)
      OBVIOUS
    <3>1. Quiet(u, q) /\ q.stack = <<>> /\ ~(asked = "timedOut" /\ q.kind # "WireGuard")
      BY <2>1, <2>4, <2>7 DEF Ending
    <3> QED BY <2>1, <3>1, QuietSlotted
  <2> QED BY <1>5, <1>14, <2>10, <2>12, <2>13 DEF Hidden
<1> QED BY <1>13, <1>14

\* Xray stops itself and reports its error.
LEMMA XrayFailureSlotted ==
    ASSUME MaxDepth = 1, Sound(vc), Slotted(vc, asked), NEW e \in XrayRunErrors, XrayFailure(e)
    PROVE  Slotted(vc', asked') /\ Hidden(vc, vc', asked)
<1> DEFINE o == StopObject(vc.proto)
           n == [vc EXCEPT !.proto = o]
           w == StopProtocol(vc)
           p == [w.proto EXCEPT !.err = e]
           q == [w EXCEPT !.proto = p]
           r == [p EXCEPT !.st = "Error"]
           t == [q EXCEPT !.proto = r]
           x == setConnectionState(t, "Error")
<1>1. /\ vc \in Connections /\ vc.stack = <<>> /\ Steady(vc, asked) /\ Resting(vc, asked)
      /\ vc.proto \in Protocols /\ Owned(vc.proto) /\ vc.proto.kind # "None"
      /\ vc.proto.live /\ vc.proto.wired # "none"
      /\ asked # "off" /\ vc.kind # "None" /\ vc.pending # "StartConnection"
      /\ ~vc.stopping /\ ~vc.crashed /\ vc.state # "Reconnecting"
      /\ ~(asked = "timedOut" /\ vc.kind # "WireGuard")
  BY SignalsFacts DEF XrayFailure
<1>2. /\ vc.proto.kind = "Xray" /\ asked' = asked /\ e \in Errors /\ ~vc.proto.stopped
      /\ vc' = SignalState([w EXCEPT !.proto.err = e], "Error")
  BY <1>1 DEF XrayFailure, Errors, Owned
<1>3. o \in Protocols /\ Owned(o) /\ o.stopped /\ o.kind = "Xray" /\ o.wired = vc.proto.wired
      /\ o.st = "Disconnected"
  BY <1>1, <1>2, StopObjectEffect
<1>4. [vc EXCEPT !.proto = StopObject(@)] = n
  BY <1>1 DEF Connections
<1>5. w = IF vc.proto.st = "Disconnected" THEN n ELSE setConnectionState(n, "Disconnected")
  BY <1>1, <1>2, <1>4 DEF StopProtocol
<1> HIDE DEF o
<1>6. n \in Connections /\ Beside(n, vc) /\ n.siteTimer = vc.siteTimer /\ n.stack = vc.stack
      /\ n.proto = o
  BY <1>1, <1>3, ProtoEffect
<1> HIDE DEF n
<1>7. ASSUME w \in Connections, Owned(w.proto), w.proto.st = "Disconnected"
      PROVE  /\ t \in Connections /\ Beside(t, w) /\ t.siteTimer = w.siteTimer /\ t.stack = w.stack
             /\ t.proto \in Protocols /\ Owned(t.proto) /\ t.proto.kind = w.proto.kind
             /\ t.proto.wired = w.proto.wired /\ t.proto.stopped = w.proto.stopped
             /\ vc' = IF w.proto.wired = "none" THEN t ELSE x
  <2> HIDE DEF w
  <2>1. w.proto \in Protocols
    BY <1>7 DEF Connections
  <2>2. /\ p \in Protocols /\ Owned(p) /\ p.kind = w.proto.kind /\ p.wired = w.proto.wired
        /\ p.st = "Disconnected" /\ p.stopped = w.proto.stopped
    BY <1>2, <1>7, <2>1 DEF Protocols, Owned
  <2>3. [w EXCEPT !.proto.err = e] = q
    BY <1>7 DEF Connections
  <2> HIDE DEF p
  <2>4. q \in Connections /\ Beside(q, w) /\ q.siteTimer = w.siteTimer /\ q.stack = w.stack
        /\ q.proto = p
    BY <1>7, <2>2, ProtoEffect
  <2>5. r \in Protocols /\ Owned(r) /\ r.kind = p.kind /\ r.wired = p.wired /\ r.stopped = p.stopped
    BY <2>2 DEF Protocols, Owned, States
  <2> HIDE DEF q
  <2>6. [q EXCEPT !.proto.st = "Error"] = t
    BY <2>4 DEF Connections
  <2>7. vc' = IF w.proto.wired = "none" THEN t ELSE x
    <3>1. vc' = SignalState(q, "Error")
      BY <1>2, <2>3
    <3> QED BY <2>2, <2>4, <2>6, <3>1 DEF SignalState
  <2> HIDE DEF r
  <2>8. t \in Connections /\ Beside(t, q) /\ t.siteTimer = q.siteTimer /\ t.stack = q.stack
        /\ t.proto = r
    BY <2>4, <2>5, ProtoEffect
  <2> HIDE DEF t, x
  <2> QED BY <2>2, <2>4, <2>5, <2>7, <2>8 DEF Beside
<1> HIDE DEF t
<1>8. CASE vc.silent
  <2> DEFINE y == handleSilentReconnectFailure(n, "LocalServiceUnavailable",
                                                "AmneziaServiceConnectionFailed")
  <2>1. vc.state = "Connected" /\ vc.proto.st = "Unknown" /\ vc.pending = "None"
        /\ vc.emitted = vc.state
    BY <1>1, <1>8 DEF Steady, Guarded, Resting
  <2>2. w = y
    <3>1. n.silent /\ n.state = "Connected"
      BY <1>6, <1>8, <2>1 DEF Beside
    <3>2. setConnectionState(n, "Disconnected") = y
      BY <3>1, Zenon DEF setConnectionState
    <3> QED BY <1>5, <2>1, <3>2
  <2>3. "LocalServiceUnavailable" \in Healths
        /\ "AmneziaServiceConnectionFailed" \in Errors \ {"NoError"}
    BY DEF Errors, RecoverableErrors, Healths, Problems
  <2>4. /\ Owned(n.proto) /\ n.proto.st = "Disconnected" /\ n.pending = "None"
        /\ n.state = "Connected" /\ n.emitted = n.state /\ ~n.stopping /\ ~n.crashed
        /\ n.proto.kind # "None" /\ n.kind # "None" /\ n.stack = <<>>
        /\ ~(asked = "timedOut" /\ n.kind # "WireGuard")
    BY <1>1, <1>3, <1>6, <2>1 DEF Beside
  <2>5. w \in Connections /\ GivesUp(w, n) /\ w.proto.st = "Disconnected"
    BY <1>6, <2>2, <2>3, <2>4, SilentFailureEffect
  <2> HIDE DEF w
  <2>6. vc' = t /\ t \in Connections
    BY <1>7, <2>5 DEF GivesUp
  <2>7. GivesUp(t, n)
    BY <1>7, <2>5 DEF GivesUp, Beside
  <2>8. Slotted(t, asked) /\ t.state \in {"Connected", "Error"}
    BY <1>1, <2>4, <2>6, <2>7, GivesUpRests
  <2> QED BY <1>2, <2>6, <2>8 DEF Hidden
<1>9. CASE ~vc.silent
  <2>1. /\ w \in Connections /\ w.proto = o /\ w.stack = vc.stack
        /\ w.silent = vc.silent /\ w.stopping = vc.stopping
        /\ w.pending = vc.pending /\ w.kind = vc.kind /\ w.crashed = vc.crashed
        /\ Beside(w, vc) \/ w.state = "Disconnected"
    BY <1>1, <1>9, StopProtocolEffect DEF o
  <2> HIDE DEF w
  <2>2. t \in Connections /\ vc' = x /\ Ending(t, asked)
    <3>1. t \in Connections /\ vc' = x
      BY <1>1, <1>3, <1>7, <2>1
    <3>2. Ending(t, asked)
      BY <1>1, <1>3, <1>7, <1>9, <2>1 DEF Ending, Beside
    <3> QED BY <3>1, <3>2
  <2>3. Enters(x, t, "Error")
    BY <2>2, SetStateEffect DEF Entered, Ending
  <2> HIDE DEF x
  <2>4. Slotted(x, asked)
    BY <2>2, <2>3, EnteredRests
  <2> QED BY <1>2, <1>9, <2>2, <2>4 DEF Hidden
<1> QED BY <1>8, <1>9

\* Every signal of the protocol object.
LEMMA ProtocolSignalsSlotted ==
    ASSUME MaxDepth = 1, Sound(vc), Slotted(vc, asked), ProtocolSignals
    PROVE  Slotted(vc', asked') /\ Hidden(vc, vc', asked)
BY ConnectedSlotted, DisconnectedSlotted, BackendFailureSlotted, XrayFailureSlotted
   DEF ProtocolSignals

-----------------------------------------------------------------------------
(* The theorems. *)

\* The inductive invariant when no slot is dispatched during a wait.
SInv == IInv /\ Slotted(vc, asked)

\* A step keeps the invariant and shows nothing of a silent reconnect.
LEMMA StepSlotted ==
    ASSUME MaxDepth = 1, SInv, [Next]_vars
    PROVE  Slotted(vc', asked') /\ Hidden(vc, vc', asked)
<1>1. Sound(vc) /\ Slotted(vc, asked)
  BY DEF SInv, IInv
<1>2. CASE Next
  <2>1. ~Relaunch
    BY <1>1 DEF Relaunch, Slotted, Steady
  <2> QED BY <1>1, <1>2, <2>1, RequestsSlotted, RepliesSlotted, TimersSlotted, AnswersSlotted,
             ProtocolSignalsSlotted DEF Next
<1>3. CASE UNCHANGED vars
  <2>1. vc' = vc /\ asked' = asked
    BY <1>3 DEF vars
  <2> QED BY <1>1, <2>1 DEF Slotted, Hidden, Steady, Guarded
<1> QED BY <1>2, <1>3

\* Slots that are not interrupted leave the object at rest, for every set of protocols and
\* route modes and every attempt limit.
THEOREM SlotInvariance ==
    ASSUME MaxDepth = 1
    PROVE  Spec => []SInv
<1>1. Init => Slotted(vc, asked)
  BY DEF Init, InitConnection, NullProtocol, Slotted, Steady, Guarded, Owned, Resting, Bounded,
         Restarted, Matched
<1>2. SInv /\ [Next]_vars => Slotted(vc, asked)'
  BY StepSlotted
<1> QED BY <1>1, <1>2, Invariance, PTL DEF Spec, SInv

\* m_silentReconnectInProgress is set only behind Connected, with m_connectingTimer armed
\* and a protocol object in place, whatever made the reconnect start or fail.
THEOREM SilentGuarded ==
    ASSUME MaxDepth = 1
    PROVE  Spec => []SilentReconnectGuarded
<1>1. SInv => SilentReconnectGuarded
  BY DEF SInv, Slotted, Steady, Guarded, SilentReconnectGuarded
<1> QED BY <1>1, SlotInvariance, PTL

\* Connecting never lacks the watchdog of connectToVpn() or the deadline of
\* deferUntilPhysicalNetworkReady() that will end it.
THEOREM ConnectingSound ==
    ASSUME MaxDepth = 1
    PROVE  Spec => []ConnectingBounded
<1>1. SInv => ConnectingBounded
  BY DEF SInv, Slotted, Resting, Bounded, ConnectingBounded
<1> QED BY <1>1, SlotInvariance, PTL

\* A tunnel that handleSilentReconnectFailure() has stopped behind Connected is due to be
\* restarted by m_connectedRecoveryTimer or by the pending network action.
THEOREM StoppedTunnelSound ==
    ASSUME MaxDepth = 1
    PROVE  Spec => []StoppedTunnelIsRestarted
<1>1. SInv => StoppedTunnelIsRestarted
  <2> SUFFICES ASSUME SInv, vc.state = "Connected", vc.stack = <<>>, vc.proto.wired = "none"
               PROVE  vc.recovery \/ vc.pending # "None"
    BY DEF StoppedTunnelIsRestarted
  <2>1. \A f : vc.stack # <<f>>
    OBVIOUS
  <2> QED BY <2>1 DEF SInv, Slotted, Resting, Restarted
<1> QED BY <1>1, SlotInvariance, PTL

\* No slot dereferences a null m_vpnProtocol: the crash of NoNullProtocol takes a slot
\* that runs during another one's wait.
THEOREM NullProtocolNeedsNesting ==
    ASSUME MaxDepth = 1
    PROVE  Spec => []NoNullProtocol
<1>1. SInv => NoNullProtocol
  BY DEF SInv, Slotted, Steady, NoNullProtocol
<1> QED BY <1>1, SlotInvariance, PTL

\* Nothing that was under way starts a protocol object after disconnectFromVpn() is over:
\* what the run that violates DisconnectWins shows takes a disconnect that is dispatched
\* while another slot waits.
THEOREM RevivalNeedsNesting ==
    ASSUME MaxDepth = 1
    PROVE  Spec => []DisconnectWins
<1>1. SInv => DisconnectWins
  <2> SUFFICES ASSUME SInv, asked = "off", vc.stack = <<>>
               PROVE  vc.proto.kind = "None"
    BY DEF DisconnectWins
  <2>1. \A f : vc.stack # <<f>>
    OBVIOUS
  <2> QED BY <2>1 DEF SInv, Slotted, Resting
<1> QED BY <1>1, SlotInvariance, PTL

\* Every step of a silent reconnect keeps Connected or fails into Error, unless the user
\* has asked to disconnect.
THEOREM SilentHidden ==
    ASSUME MaxDepth = 1
    PROVE  Spec => SilentReconnectHidden
<1>1. SInv /\ [Next]_vars
      => [vc.silent /\ vc.state = "Connected" /\ asked # "off"
            => vc'.state \in {"Connected", "Error"}]_vars
  BY StepSlotted DEF Hidden
<1> QED BY <1>1, SlotInvariance, PTL DEF Spec, SilentReconnectHidden
=============================================================================

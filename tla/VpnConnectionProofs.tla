------------------------- MODULE VpnConnectionProofs -------------------------
(***************************************************************************)
(* Proofs about VpnConnection for every set of protocols and route modes,  *)
(* every attempt limit and every nesting depth of waiting slots.           *)
(*                                                                         *)
(* The inductive invariant is a predicate of the object's record, Sound.   *)
(* There is one lemma per C++ function, in the order of the calls: the     *)
(* function takes a sound object to a sound one.  The functions that enter *)
(* a state need less: whatever the object looked like in the middle of a   *)
(* slot, entering Connecting, Disconnecting, Disconnected or Error makes   *)
(* it sound (EnterStateSound).  That is why connectToVpn() may clear the   *)
(* error of a failed attempt before it has left the Disconnected state.    *)
(***************************************************************************)
EXTENDS VpnConnection, TLAPS, SequenceTheorems

\* DiagnosticMatchesLifecycle of an object that is not necessarily vc.
Diagnosed(s) ==
    /\ s.state = "Error" => s.health \in Problems
    /\ s.state = "Disconnected" =>
         s.health = "Idle" \/ (s.health \in Problems /\ s.lastError # "NoError")

\* What holds of the object before and after every piece of a slot.
Sound(s) == /\ s \in Connections
            /\ Diagnosed(s)
            /\ s.recovery => s.state = "Connected"

\* An assignment that leaves the state, the diagnostic and the error alone and arms no
\* recovery keeps the object sound.
LEMMA Unaffected ==
    ASSUME NEW s, Sound(s), NEW t \in Connections,
           t.state = s.state, t.health = s.health, t.lastError = s.lastError,
           t.recovery => s.recovery
    PROVE  Sound(t)
BY DEF Sound, Diagnosed

\* The counters' ranges.
LEMMA BoundsFacts == /\ 0 \in 0..MaxRecovery
                     /\ 0 \in 0..MaxChecks
                     /\ MaxChecks \in 0..MaxChecks
                     /\ \A n \in 0..MaxRecovery : n < MaxRecovery => n + 1 \in 0..MaxRecovery
                     /\ \A n \in 0..MaxChecks : n < MaxChecks => n + 1 \in 0..MaxChecks
BY BoundsAssumption

\* A slot that starts to wait leaves the object sound.
LEMMA PushSound ==
    ASSUME NEW s, Sound(s), NEW at \in Waits, NEW emit \in BOOLEAN
    PROVE  Sound(Push(s, at, emit))
<1>1. [at |-> at, mine |-> TRUE, emit |-> emit] \in Frames
  BY DEF Frames
<1>2. s \in Connections
  BY DEF Sound
<1>3. Append(s.stack, [at |-> at, mine |-> TRUE, emit |-> emit]) \in Seq(Frames)
  BY <1>1, <1>2, AppendProperties DEF Connections
<1>4. Push(s, at, emit) \in Connections
  BY <1>2, <1>3 DEF Push, Connections
<1>5. /\ Push(s, at, emit).state = s.state /\ Push(s, at, emit).health = s.health
      /\ Push(s, at, emit).lastError = s.lastError /\ Push(s, at, emit).recovery = s.recovery
  BY <1>2 DEF Push, Connections
<1> QED BY <1>4, <1>5, Unaffected

\* The topmost slot runs on from a sound object, at a place where slots wait.
LEMMA PopSound ==
    ASSUME NEW s, Sound(s), s.stack # <<>>
    PROVE  Sound(Pop(s)) /\ Top(s) \in Frames
<1>1. s \in Connections /\ s.stack \in Seq(Frames)
  BY DEF Sound, Connections
<1>2. Len(s.stack) \in 1..Len(s.stack)
  BY <1>1, EmptySeq
<1>3. SubSeq(s.stack, 1, Len(s.stack) - 1) \in Seq(Frames)
  BY <1>1, <1>2, SubSeqProperties
<1>4. Pop(s) \in Connections
  BY <1>1, <1>3 DEF Pop, Connections
<1>5. /\ Pop(s).state = s.state /\ Pop(s).health = s.health
      /\ Pop(s).lastError = s.lastError /\ Pop(s).recovery = s.recovery
  BY <1>1 DEF Pop, Connections
<1>6. Top(s) \in Frames
  BY <1>1, <1>2, ElementOfSeq DEF Top
<1> QED BY <1>4, <1>5, <1>6, Unaffected

\* setConnectionHealth() publishes only what matches the state.
LEMMA HealthSound ==
    ASSUME NEW s, Sound(s), NEW h \in Healths
    PROVE  /\ Sound(setConnectionHealth(s, h))
           /\ setConnectionHealth(s, h).state = s.state
           /\ setConnectionHealth(s, h).lastError = s.lastError
           /\ setConnectionHealth(s, h).recovery = s.recovery
BY DEF Sound, Diagnosed, setConnectionHealth, shouldPublishConnectionHealth, Connections

\* configureDnsSplitTunnel() publishes its progress the same way.
LEMMA DnsSound ==
    ASSUME NEW s, Sound(s)
    PROVE  /\ Sound(configureDnsSplitTunnel(s))
           /\ configureDnsSplitTunnel(s).recovery = s.recovery
<1>1. "CheckingDns" \in Healths
  BY DEF Healths
<1>2. Sound(setConnectionHealth(s, "CheckingDns"))
  BY <1>1, HealthSound
<1> DEFINE t == setConnectionHealth(s, "CheckingDns")
<1>3. Sound([t EXCEPT !.dnsReply = TRUE])
  <2>1. t \in Connections
    BY <1>2 DEF Sound
  <2>2. [t EXCEPT !.dnsReply = TRUE] \in Connections
    BY <2>1 DEF Connections
  <2> QED BY <1>2, <2>1, <2>2, Unaffected DEF Connections
<1>4. [t EXCEPT !.dnsReply = TRUE].recovery = s.recovery
  BY <1>1, <1>2, HealthSound DEF Sound, Connections
<1> QED BY <1>3, <1>4 DEF configureDnsSplitTunnel

\* setConnectionHealth() on an object whose diagnostic may not match its state yet.
LEMMA HealthType ==
    ASSUME NEW s \in Connections, NEW h \in Healths
    PROVE  /\ setConnectionHealth(s, h) \in Connections
           /\ setConnectionHealth(s, h).state = s.state
           /\ setConnectionHealth(s, h).lastError = s.lastError
           /\ setConnectionHealth(s, h).recovery = s.recovery
BY DEF setConnectionHealth, Connections

\* Stopping the connected timers disarms the recovery and nothing the diagnostic is about.
LEMMA StopTimersType ==
    ASSUME NEW s \in Connections
    PROVE  /\ StopConnectedTimers(s) \in Connections
           /\ StopConnectedTimers(s).state = s.state
           /\ StopConnectedTimers(s).health = s.health
           /\ StopConnectedTimers(s).lastError = s.lastError
           /\ StopConnectedTimers(s).recovery = FALSE
<1>1. 0 \in 0..MaxChecks
  BY BoundsFacts
<1> QED BY <1>1 DEF StopConnectedTimers, Connections

\* The watchdog is no part of what the handlers look at.
LEMMA WatchdogType ==
    ASSUME NEW s \in Connections, NEW b \in BOOLEAN
    PROVE  LET t == [s EXCEPT !.watchdog = b]
           IN  /\ t \in Connections /\ t.state = s.state /\ t.health = s.health
               /\ t.recovery = s.recovery
BY DEF Connections

\* The states setConnectionState() is called with, Connected apart.
Entered == {"Connecting", "Disconnecting", "Disconnected", "Error"}

\* The handler of an entered state repairs the diagnostic and disarms the recovery.
LEMMA HandlerSound ==
    ASSUME NEW s \in Connections, NEW st \in Entered, s.state = st
    PROVE  /\ Sound(onConnectionStateChanged(s, st))
           /\ onConnectionStateChanged(s, st).recovery = FALSE
<1> DEFINE S(t) == [StopConnectedTimers(t) EXCEPT !.watchdog = FALSE]
<1>1. CASE st = "Connecting"
  <2> DEFINE h == IF st = "Reconnecting" \/ s.silent THEN "Recovering" ELSE "StartingProtocol"
             t == setConnectionHealth(s, h)
             u == [StopConnectedTimers(t) EXCEPT !.watchdog = TRUE]
  <2>1. h \in Healths
    BY DEF Healths
  <2>2. t \in Connections /\ t.state = "Connecting"
    BY <1>1, <2>1, HealthType
  <2>3. u \in Connections /\ u.state = "Connecting" /\ u.recovery = FALSE
    <3> DEFINE p == StopConnectedTimers(t)
    <3> HIDE DEF t
    <3>1. p \in Connections /\ p.state = "Connecting" /\ p.recovery = FALSE
      BY <2>2, StopTimersType
    <3> HIDE DEF p
    <3>2. u = [p EXCEPT !.watchdog = TRUE]
      BY DEF p
    <3> QED BY <3>1, <3>2, WatchdogType
  <2>4. u = onConnectionStateChanged(s, st)
    BY <1>1 DEF onConnectionStateChanged
  <2> QED BY <2>3, <2>4 DEF Sound, Diagnosed
<1>2. CASE st = "Disconnecting"
  <2>1. S(s) \in Connections /\ S(s).state = "Disconnecting" /\ S(s).recovery = FALSE
    <3> DEFINE p == StopConnectedTimers(s)
    <3>1. p \in Connections /\ p.state = "Disconnecting" /\ p.recovery = FALSE
      BY <1>2, StopTimersType
    <3> HIDE DEF p
    <3>2. S(s) = [p EXCEPT !.watchdog = FALSE]
      BY DEF p
    <3> QED BY <3>1, <3>2, WatchdogType
  <2>2. S(s) = onConnectionStateChanged(s, st)
    BY <1>2 DEF onConnectionStateChanged
  <2> QED BY <2>1, <2>2 DEF Sound, Diagnosed
<1>3. CASE st = "Disconnected"
  <2> DEFINE t == [StopConnectedTimers(s) EXCEPT !.watchdog = FALSE,
                     !.lastError = IF s.health \in Problems THEN @ ELSE "NoError"]
             u == setConnectionHealth(t, "Idle")
  <2>1. t \in Connections /\ t.state = "Disconnected" /\ t.recovery = FALSE
    <3>1. "NoError" \in Errors /\ s.lastError \in Errors
      BY DEF Errors, Connections
    <3> DEFINE e == IF s.health \in Problems THEN s.lastError ELSE "NoError"
               p == StopConnectedTimers(s)
    <3>2. e \in Errors
      BY <3>1
    <3>3. p \in Connections /\ p.state = "Disconnected" /\ p.recovery = FALSE
          /\ p.lastError = s.lastError
      BY <1>3, StopTimersType
    <3>4. t = [p EXCEPT !.watchdog = FALSE, !.lastError = e]
      BY <3>3
    <3> HIDE DEF e, p, t
    <3>5. [p EXCEPT !.watchdog = FALSE, !.lastError = e] \in Connections
      BY <3>2, <3>3 DEF Connections
    <3>6. t.state = p.state /\ t.recovery = p.recovery
      BY <3>3, <3>4 DEF Connections
    <3> QED BY <3>3, <3>4, <3>5, <3>6
  <2>2. u \in Connections /\ u.state = "Disconnected" /\ u.recovery = FALSE /\ u.health = "Idle"
    <3>1. "Idle" \in Healths
      BY DEF Healths
    <3> HIDE DEF t
    <3>2. setConnectionHealth(t, "Idle") = [t EXCEPT !.health = "Idle"]
      BY <2>1 DEF setConnectionHealth, shouldPublishConnectionHealth
    <3> QED BY <2>1, <3>1, <3>2 DEF Connections
  <2>3. Sound(u)
    BY <2>2 DEF Sound, Diagnosed
  <2>4. configureDnsSplitTunnel(u) = onConnectionStateChanged(s, st)
    BY <1>3 DEF onConnectionStateChanged
  <2> QED BY <2>2, <2>3, <2>4, DnsSound
<1>4. CASE st = "Error"
  <2> DEFINE t == [StopConnectedTimers(s) EXCEPT !.watchdog = FALSE]
             u == IF s.health \in Problems THEN t ELSE setConnectionHealth(t, "UnknownFailure")
  <2>1. t \in Connections /\ t.state = "Error" /\ t.recovery = FALSE /\ t.health = s.health
    <3> DEFINE p == StopConnectedTimers(s)
    <3>1. p \in Connections /\ p.state = "Error" /\ p.recovery = FALSE /\ p.health = s.health
      BY <1>4, StopTimersType
    <3> HIDE DEF p
    <3>2. t = [p EXCEPT !.watchdog = FALSE]
      BY DEF p
    <3> QED BY <3>1, <3>2, WatchdogType
  <2>2. u \in Connections /\ u.state = "Error" /\ u.recovery = FALSE /\ u.health \in Problems
    <3>1. "UnknownFailure" \in Healths /\ "UnknownFailure" \in Problems
      BY DEF Healths, Problems
    <3> HIDE DEF t
    <3>2. setConnectionHealth(t, "UnknownFailure") = [t EXCEPT !.health = "UnknownFailure"]
      BY <2>1, <3>1 DEF setConnectionHealth, shouldPublishConnectionHealth
    <3> DEFINE v == [t EXCEPT !.health = "UnknownFailure"]
    <3>3. v \in Connections /\ v.state = "Error" /\ v.recovery = FALSE
          /\ v.health = "UnknownFailure"
      BY <2>1, <3>1 DEF Connections
    <3> HIDE DEF v
    <3>4. u = IF s.health \in Problems THEN t ELSE v
      BY <3>2 DEF v
    <3> QED BY <2>1, <3>1, <3>3, <3>4
  <2>3. Sound(u)
    BY <2>2 DEF Sound, Diagnosed
  <2>4. configureDnsSplitTunnel(u) = onConnectionStateChanged(s, st)
    BY <1>4 DEF onConnectionStateChanged
  <2> QED BY <2>2, <2>3, <2>4, DnsSound
<1> QED BY <1>1, <1>2, <1>3, <1>4 DEF Entered

\* setConnectionState() past its early returns makes any object sound.
LEMMA EnterStateSound ==
    ASSUME NEW s \in Connections, NEW st \in Entered
    PROVE  Sound(EnterState(s, st))
<1> DEFINE known == s.lastError # "NoError" \/ s.proto.err # "NoError"
           t == IF st = "Error" /\ ~known THEN [s EXCEPT !.lastError = "UnknownError"] ELSE s
           v == [t EXCEPT !.state = st]
           u == onConnectionStateChanged(v, st)
<1>1. "UnknownError" \in Errors /\ st \in States
  BY DEF Errors, Entered, States
<1>2. t \in Connections
  BY <1>1 DEF Connections
<1>3. v \in Connections /\ v.state = st
  <2> HIDE DEF t
  <2> QED BY <1>1, <1>2 DEF Connections
<1>4. Sound(u) /\ u.recovery = FALSE
  BY <1>3, HandlerSound
<1>5. Sound([u EXCEPT !.state = "Reconnecting"])
  <2> HIDE DEF u
  <2>1. u \in Connections /\ "Reconnecting" \in States
    BY <1>4 DEF Sound, States
  <2> QED BY <1>4, <2>1 DEF Sound, Diagnosed, Connections
<1>6. Sound([u EXCEPT !.emitted = st])
  <2> HIDE DEF u
  <2>1. u \in Connections
    BY <1>4 DEF Sound
  <2> QED BY <1>1, <1>4, <2>1 DEF Sound, Diagnosed, Connections
<1>7. EnterState(s, st) = IF st = "Disconnected" /\ s.state = "Reconnecting"
                          THEN [u EXCEPT !.state = "Reconnecting"]
                          ELSE [u EXCEPT !.emitted = st]
  BY DEF EnterState
<1> QED BY <1>5, <1>6, <1>7

\* markLastError() with a real error.
LEMMA ErrorSound ==
    ASSUME NEW s, Sound(s), NEW e \in Errors \ {"NoError"}
    PROVE  /\ Sound([s EXCEPT !.lastError = e])
           /\ [s EXCEPT !.lastError = e] \in Connections
           /\ [s EXCEPT !.lastError = e].state = s.state
BY DEF Sound, Diagnosed, Connections

\* recoverConnectedTunnel() arms the recovery only while connected and counts within the limit.
LEMMA RecoverSound ==
    ASSUME NEW s, Sound(s), NEW h \in Healths, NEW e \in Errors \ {"NoError"}
    PROVE  Sound(recoverConnectedTunnel(s, h, e))
<1> DEFINE t == setConnectionHealth([s EXCEPT !.lastError = e], h)
<1>1. Sound(t)
  BY ErrorSound, HealthSound
<1>2. t \in Connections
  BY <1>1 DEF Sound
<1> HIDE DEF t
<1>3. Sound([t EXCEPT !.healthTimer = FALSE, !.idleChecks = 0])
  <2> DEFINE q == [t EXCEPT !.healthTimer = FALSE, !.idleChecks = 0]
  <2>1. 0 \in 0..MaxChecks
    BY BoundsFacts
  <2>2. q \in Connections
    BY <1>2, <2>1 DEF Connections
  <2>3. q.state = t.state /\ q.health = t.health /\ q.lastError = t.lastError /\ q.recovery = t.recovery
    BY <1>2 DEF Connections
  <2> QED BY <1>1, <2>2, <2>3, Unaffected
<1>4. ASSUME t.state = "Connected", ~(t.attempts >= MaxRecovery)
      PROVE  Sound([StopConnectedTimers(t) EXCEPT !.attempts = @ + 1, !.recovery = TRUE])
  <2> DEFINE p == StopConnectedTimers(t)
  <2>1. p \in Connections /\ p.state = "Connected" /\ p.attempts = t.attempts
    BY <1>2, <1>4, StopTimersType DEF StopConnectedTimers, Connections
  <2>2. t.attempts + 1 \in 0..MaxRecovery
    <3>1. t.attempts \in 0..MaxRecovery
      BY <1>2 DEF Connections
    <3> QED BY <1>4, <3>1, BoundsAssumption
  <2> HIDE DEF p
  <2>3. [p EXCEPT !.attempts = @ + 1, !.recovery = TRUE] \in Connections
    BY <2>1, <2>2 DEF Connections
  <2>4. [p EXCEPT !.attempts = @ + 1, !.recovery = TRUE].state = "Connected"
    BY <2>1 DEF Connections
  <2>5. Sound([p EXCEPT !.attempts = @ + 1, !.recovery = TRUE])
    BY <2>3, <2>4 DEF Sound, Diagnosed
  <2> QED BY <2>5 DEF p
<1> QED BY <1>1, <1>3, <1>4 DEF recoverConnectedTunnel, t

\* VpnProtocol::stop() as the object sees it.
LEMMA StopObjectType ==
    ASSUME NEW p \in Protocols
    PROVE  StopObject(p) \in Protocols
<1>1. "Disconnected" \in States
  BY DEF States
<1> QED BY <1>1 DEF StopObject, Protocols

\* handleSilentReconnectFailure() recovers or enters Error.
LEMMA SilentFailureSound ==
    ASSUME NEW s, Sound(s), NEW h \in Healths, NEW e \in Errors \ {"NoError"}
    PROVE  Sound(handleSilentReconnectFailure(s, h, e))
<1> DEFINE p == [StopObject(s.proto) EXCEPT !.wired = "none"]
           t == [s EXCEPT !.watchdog = FALSE, !.silent = FALSE,
                          !.proto = [StopObject(@) EXCEPT !.wired = "none"]]
           u == recoverConnectedTunnel(t, h, e)
<1>1. s \in Connections /\ s.proto \in Protocols
  BY DEF Sound, Connections
<1>2. p \in Protocols
  BY <1>1, StopObjectType DEF Protocols
<1>3. Sound(t)
  <2>1. t = [s EXCEPT !.watchdog = FALSE, !.silent = FALSE, !.proto = p]
    BY <1>1 DEF Connections
  <2> HIDE DEF p, t
  <2>2. t \in Connections
    BY <1>1, <1>2, <2>1 DEF Connections
  <2>3. t.state = s.state /\ t.health = s.health /\ t.lastError = s.lastError /\ t.recovery = s.recovery
    BY <1>1, <2>1 DEF Connections
  <2> QED BY <2>2, <2>3, Unaffected
<1>4. Sound(u)
  BY <1>3, RecoverSound
<1>5. Sound(EnterState(u, "Error"))
  BY <1>4, EnterStateSound DEF Sound, Entered
<1> QED BY <1>4, <1>5 DEF handleSilentReconnectFailure

\* setConnectionState() with its early returns.
LEMMA SetStateSound ==
    ASSUME NEW s, Sound(s), NEW st \in Entered
    PROVE  Sound(setConnectionState(s, st))
<1>1. Sound(EnterState(s, st))
  BY EnterStateSound DEF Sound
<1>2. /\ "LocalServiceUnavailable" \in Healths
      /\ "AmneziaServiceConnectionFailed" \in Errors \ {"NoError"}
  BY DEF Healths, Problems, Errors, RecoverableErrors
<1>3. Sound(handleSilentReconnectFailure(s, "LocalServiceUnavailable", "AmneziaServiceConnectionFailed"))
  BY <1>2, SilentFailureSound
<1> QED BY <1>1, <1>3 DEF setConnectionState

\* Only Disconnected is ever filtered: every other state makes any object sound.
LEMMA SetStateRepairs ==
    ASSUME NEW s \in Connections, NEW st \in Entered, st # "Disconnected"
    PROVE  Sound(setConnectionState(s, st))
BY EnterStateSound DEF setConnectionState

\* A change of the protocol object alone.
LEMMA ProtoSound ==
    ASSUME NEW s, Sound(s), NEW p \in Protocols
    PROVE  /\ Sound([s EXCEPT !.proto = p])
           /\ [s EXCEPT !.proto = p].proto = p
<1>1. s \in Connections
  BY DEF Sound
<1>2. [s EXCEPT !.proto = p] \in Connections
  BY <1>1 DEF Connections
<1>3. /\ [s EXCEPT !.proto = p].state = s.state /\ [s EXCEPT !.proto = p].health = s.health
      /\ [s EXCEPT !.proto = p].lastError = s.lastError
      /\ [s EXCEPT !.proto = p].recovery = s.recovery /\ [s EXCEPT !.proto = p].proto = p
  BY <1>1 DEF Connections
<1> QED BY <1>2, <1>3, Unaffected

\* The protocol objects the factory makes.
LEMMA ProtocolTypes ==
    /\ NullProtocol \in Protocols
    /\ \A k \in {"None", "WireGuard", "Xray"} : NewProtocol(k) \in Protocols
<1>1. "Unknown" \in States /\ "NoError" \in Errors
  BY DEF States, Errors
<1> QED BY <1>1 DEF NullProtocol, NewProtocol, Protocols

\* A state signal of the protocol object.
LEMMA SignalSound ==
    ASSUME NEW s, Sound(s), NEW st \in Entered
    PROVE  Sound(SignalState(s, st))
<1> DEFINE p == [s.proto EXCEPT !.st = st]
           t == [s EXCEPT !.proto.st = st]
<1>1. s \in Connections /\ s.proto \in Protocols /\ st \in States
  BY DEF Sound, Connections, Entered, States
<1>2. p \in Protocols
  BY <1>1 DEF Protocols
<1>3. t = [s EXCEPT !.proto = p]
  BY <1>1 DEF Connections
<1>4. Sound(t)
  BY <1>2, <1>3, ProtoSound
<1>5. Sound(setConnectionState(t, st))
  BY <1>4, SetStateSound
<1> QED BY <1>4, <1>5 DEF SignalState

\* m_vpnProtocol->stop() with its synchronous signal.
LEMMA StopProtocolSound ==
    ASSUME NEW s, Sound(s)
    PROVE  Sound(StopProtocol(s))
<1> DEFINE t == [s EXCEPT !.proto = StopObject(@)]
<1>1. s \in Connections /\ s.proto \in Protocols
  BY DEF Sound, Connections
<1>2. t = [s EXCEPT !.proto = StopObject(s.proto)]
  BY <1>1 DEF Connections
<1>3. Sound(t)
  BY <1>1, <1>2, StopObjectType, ProtoSound
<1>4. Sound(setConnectionState(t, "Disconnected"))
  BY <1>3, SetStateSound DEF Entered
<1> QED BY <1>3, <1>4 DEF StopProtocol

\* m_vpnProtocol is reset or replaced.
LEMMA ReplaceSound ==
    ASSUME NEW s, Sound(s), NEW p \in Protocols
    PROVE  Sound(ReplaceProtocol(s, p))
<1> DEFINE q == [i \in DOMAIN s.stack |-> [s.stack[i] EXCEPT !.mine = FALSE]]
           t == [s EXCEPT !.proto = p, !.siteTimer = FALSE, !.stack = q]
<1>1. s \in Connections /\ s.stack \in Seq(Frames)
  BY DEF Sound, Connections
<1>2. q \in Seq(Frames)
  <2>1. DOMAIN s.stack = 1..Len(s.stack) /\ Len(s.stack) \in Nat
    BY <1>1, LenProperties
  <2>2. \A i \in 1..Len(s.stack) : s.stack[i] \in Frames
    BY <1>1, ElementOfSeq
  <2>3. \A i \in 1..Len(s.stack) : [s.stack[i] EXCEPT !.mine = FALSE] \in Frames
    BY <2>2 DEF Frames
  <2>4. q = [i \in 1..Len(s.stack) |-> [s.stack[i] EXCEPT !.mine = FALSE]]
    BY <2>1
  <2> QED BY <2>1, <2>3, <2>4, IsASeq
<1>3. t = ReplaceProtocol(s, p)
  BY <1>1 DEF ReplaceProtocol, Connections
<1> HIDE DEF q
<1>4. t \in Connections
  BY <1>1, <1>2 DEF Connections
<1>5. t.state = s.state /\ t.health = s.health /\ t.lastError = s.lastError /\ t.recovery = s.recovery
  BY <1>1 DEF Connections
<1> QED BY <1>3, <1>4, <1>5, Unaffected

\* The first half of setConnectionState(Connected).
LEMMA EnterConnectedSound ==
    ASSUME NEW s, Sound(s)
    PROVE  Sound(EnterConnected(s))
<1> DEFINE t == [s EXCEPT !.silent = FALSE, !.state = "Connected", !.watchdog = FALSE]
<1>1. s \in Connections /\ "Connected" \in States /\ "ApplyingRoutes" \in Healths
  BY DEF Sound, States, Healths
<1>2. t \in Connections /\ t.state = "Connected"
  BY <1>1 DEF Connections
<1>3. Sound(t)
  BY <1>2 DEF Sound, Diagnosed
<1> QED BY <1>1, <1>3, HealthSound DEF EnterConnected

\* Its end, in whatever state the object is by then.
LEMMA FinishConnectedSound ==
    ASSUME NEW s, Sound(s)
    PROVE  Sound(FinishConnected(s))
<1> DEFINE t == IF s.health \in Problems THEN s ELSE setConnectionHealth(s, "CheckingTraffic")
           u == [[t EXCEPT !.idleChecks = 0, !.healthTimer = TRUE, !.kick = TRUE]
                    EXCEPT !.emitted = "Connected"]
<1>1. Sound(t)
  BY HealthSound DEF Healths
<1>2. t \in Connections /\ 0 \in 0..MaxChecks /\ "Connected" \in States
  BY <1>1, BoundsFacts DEF Sound, States
<1>3. u = FinishConnected(s)
  BY DEF FinishConnected, startConnectedHealthCheck
<1> HIDE DEF t
<1>4. u \in Connections
  BY <1>2 DEF Connections
<1>5. u.state = t.state /\ u.health = t.health /\ u.lastError = t.lastError /\ u.recovery = t.recovery
  BY <1>2 DEF Connections
<1> QED BY <1>1, <1>3, <1>4, <1>5, Unaffected

\* Every error has a diagnostic.
LEMMA HealthForError ==
    ASSUME NEW e
    PROVE  connectionHealthForError(e) \in Healths
BY DEF connectionHealthForError, Healths, Problems

\* onProtocolError().
LEMMA ProtocolErrorSound ==
    ASSUME NEW s, Sound(s), NEW e \in Errors \ {"NoError"}
    PROVE  Sound(onProtocolError(s, e))
<1> DEFINE t == [s EXCEPT !.lastError = e]
           u == IF e \in {"AmneziaServiceConnectionFailed", "VpnBackendFailure"}
                THEN setConnectionHealth(t, "LocalServiceUnavailable") ELSE t
           v == [u EXCEPT !.silent = FALSE]
<1>1. Sound(t)
  BY ErrorSound
<1>2. Sound(u)
  BY <1>1, HealthSound DEF Healths, Problems
<1>3. v \in Connections
  <2>1. u \in Connections
    BY <1>2 DEF Sound
  <2> HIDE DEF u
  <2> QED BY <2>1 DEF Connections
<1>4. Sound(setConnectionState(v, "Error"))
  BY <1>3, SetStateRepairs DEF Entered
<1>5. Sound(handleSilentReconnectFailure(s, connectionHealthForError(e), e))
  BY HealthForError, SilentFailureSound
<1> QED BY <1>2, <1>4, <1>5 DEF onProtocolError

\* A failed start.
LEMMA FailSound ==
    ASSUME NEW s \in Connections, NEW e \in Errors, NEW h \in Healths
    PROVE  Sound(FailWith(s, e, h))
<1> DEFINE t == [s EXCEPT !.lastError = e]
<1>1. t \in Connections
  BY DEF Connections
<1>2. setConnectionHealth(t, h) \in Connections
  BY <1>1, HealthType
<1> QED BY <1>2, SetStateRepairs DEF FailWith, Entered

\* stopPendingNetworkAction().
LEMMA StopPendingSound ==
    ASSUME NEW s, Sound(s)
    PROVE  Sound(stopPendingNetworkAction(s))
<1> DEFINE t == stopPendingNetworkAction(s)
<1>1. s \in Connections /\ "None" \in PendingActions
  BY DEF Sound, PendingActions
<1>2. t \in Connections
  BY <1>1 DEF stopPendingNetworkAction, Connections
<1>3. t.state = s.state /\ t.health = s.health /\ t.lastError = s.lastError /\ t.recovery = s.recovery
  BY <1>1 DEF stopPendingNetworkAction, Connections
<1> QED BY <1>2, <1>3, Unaffected

\* The C++ timers and flags that neither the diagnostic nor the recovery depends on.
LEMMA FlagsSound ==
    ASSUME NEW s, Sound(s), NEW b \in BOOLEAN
    PROVE  /\ Sound([s EXCEPT !.watchdog = b])
           /\ Sound([s EXCEPT !.silent = b])
           /\ Sound([s EXCEPT !.watchdog = FALSE, !.silent = FALSE])
           /\ Sound([s EXCEPT !.stopping = b])
           /\ Sound([s EXCEPT !.probe = b])
           /\ Sound([s EXCEPT !.lookup = b])
           /\ Sound([s EXCEPT !.dnsReply = b])
           /\ Sound([s EXCEPT !.siteTimer = b])
           /\ Sound([s EXCEPT !.deadline = b])
           /\ Sound([s EXCEPT !.kick = b])
           /\ Sound([s EXCEPT !.crashed = b])
           /\ Sound([s EXCEPT !.recovery = FALSE])
<1>1. s \in Connections
  BY DEF Sound
<1>2. ASSUME NEW t \in Connections, t.state = s.state, t.health = s.health,
             t.lastError = s.lastError, t.recovery => s.recovery
      PROVE  Sound(t)
  BY <1>2, Unaffected
<1>3. Sound([s EXCEPT !.watchdog = b])
  BY <1>1, <1>2 DEF Connections
<1>4. Sound([s EXCEPT !.silent = b])
  BY <1>1, <1>2 DEF Connections
<1>5. Sound([s EXCEPT !.watchdog = FALSE, !.silent = FALSE])
  BY <1>1, <1>2 DEF Connections
<1>6. Sound([s EXCEPT !.stopping = b])
  BY <1>1, <1>2 DEF Connections
<1>7. Sound([s EXCEPT !.probe = b])
  BY <1>1, <1>2 DEF Connections
<1>8. Sound([s EXCEPT !.lookup = b])
  BY <1>1, <1>2 DEF Connections
<1>9. Sound([s EXCEPT !.dnsReply = b])
  BY <1>1, <1>2 DEF Connections
<1>10. Sound([s EXCEPT !.siteTimer = b])
  BY <1>1, <1>2 DEF Connections
<1>11. Sound([s EXCEPT !.deadline = b])
  BY <1>1, <1>2 DEF Connections
<1>12. Sound([s EXCEPT !.kick = b])
  BY <1>1, <1>2 DEF Connections
<1>13. Sound([s EXCEPT !.crashed = b])
  BY <1>1, <1>2 DEF Connections
<1>14. Sound([s EXCEPT !.recovery = FALSE])
  BY <1>1, <1>2 DEF Connections
<1> QED BY <1>3, <1>4, <1>5, <1>6, <1>7, <1>8, <1>9, <1>10, <1>11, <1>12, <1>13, <1>14

\* startConfiguredConnection() up to the wait in start().
LEMMA StartSound ==
    ASSUME NEW s, Sound(s)
    PROVE  Sound(startConfiguredConnection(s))
<1> DEFINE t == [stopPendingNetworkAction(s) EXCEPT !.watchdog = TRUE]
           u == ReplaceProtocol(t, NewProtocol(s.kind))
           x == [ReplaceProtocol(t, NullProtocol) EXCEPT !.lastError = "InternalError"]
<1>1. s.kind \in {"WireGuard", "Xray", "Unsupported", "None"}
  BY KindsAssumption DEF Sound, Connections
<1>2. Sound(t)
  BY StopPendingSound, FlagsSound
<1>3. Sound(ReplaceProtocol(t, NullProtocol))
  BY <1>2, ReplaceSound, ProtocolTypes
<1>4. x \in Connections
  BY <1>3, ErrorSound DEF Errors, XrayStartErrors
<1>5. Sound(setConnectionState(x, "Error"))
  BY <1>4, SetStateRepairs DEF Entered
<1>6. ASSUME s.kind # "Unsupported"
      PROVE  Sound(u)
  BY <1>1, <1>2, <1>6, ReplaceSound, ProtocolTypes
<1>7. ASSUME s.kind # "Unsupported"
      PROVE  Sound(setConnectionHealth(u, "WaitingHandshake")) /\ Sound(Push(u, "start", FALSE))
  BY <1>6, <1>7, HealthSound, PushSound DEF Healths, Waits
<1> HIDE DEF t, u, x
<1> QED BY <1>5, <1>6, <1>7 DEF startConfiguredConnection, t, u, x

\* deferUntilPhysicalNetworkReady() when the network is not ready.
LEMMA DeferSound ==
    ASSUME NEW s, Sound(s), NEW a \in PendingActions, NEW h \in Healths
    PROVE  Sound(deferAction(s, a, h))
<1> DEFINE t == [s EXCEPT !.pending = a, !.deadline = @ \/ a = "StartConnection",
                          !.watchdog = FALSE, !.recovery = FALSE, !.probe = FALSE]
<1>1. s \in Connections
  BY DEF Sound
<1>2. t \in Connections
  BY <1>1 DEF Connections
<1>3. t.state = s.state /\ t.health = s.health /\ t.lastError = s.lastError /\ t.recovery = FALSE
  BY <1>1 DEF Connections
<1>4. Sound(t)
  BY <1>2, <1>3, Unaffected
<1> QED BY <1>4, HealthSound DEF deferAction

\* startSilentReconnect() after its readiness query.
LEMMA RestartSound ==
    ASSUME NEW s, Sound(s)
    PROVE  Sound(RestartProtocol(s))
<1> DEFINE r == [stopPendingNetworkAction(s) EXCEPT
                   !.recovery = FALSE, !.silent = TRUE, !.watchdog = FALSE]
           t == setConnectionHealth(r, "Recovering")
           v == ReplaceProtocol(t, NewProtocol(s.kind))
           u == [v EXCEPT !.watchdog = TRUE]
           x == [ReplaceProtocol(t, NullProtocol) EXCEPT !.silent = FALSE]
<1>1. s.kind \in {"WireGuard", "Xray", "Unsupported", "None"}
  BY KindsAssumption DEF Sound, Connections
<1>2. Sound(r)
  <2> DEFINE p == stopPendingNetworkAction(s)
  <2>1. Sound(p) /\ p \in Connections
    BY StopPendingSound DEF Sound
  <2> HIDE DEF p
  <2>2. r \in Connections /\ r.state = p.state /\ r.health = p.health
        /\ r.lastError = p.lastError /\ r.recovery = FALSE
    BY <2>1 DEF Connections, p
  <2> QED BY <2>1, <2>2, Unaffected
<1>3. Sound(t) /\ Sound([t EXCEPT !.crashed = TRUE])
  BY <1>2, HealthSound, FlagsSound DEF Healths
<1>4. Sound(x)
  BY <1>3, ReplaceSound, ProtocolTypes, FlagsSound
<1>5. Sound(FailWith(x, "InternalError", "ProtocolStartFailed"))
  BY <1>4, FailSound DEF Sound, Errors, XrayStartErrors, Healths, Problems
<1>6. ASSUME s.kind # "Unsupported"
      PROVE  Sound(u)
  BY <1>1, <1>3, <1>6, ReplaceSound, ProtocolTypes, FlagsSound
<1>7. ASSUME s.kind # "Unsupported"
      PROVE  Sound(setConnectionHealth(u, "Recovering")) /\ Sound(Push(u, "restart", FALSE))
  BY <1>6, <1>7, HealthSound, PushSound DEF Healths, Waits
<1> HIDE DEF r, t, v, u, x
<1> QED BY <1>3, <1>5, <1>6, <1>7 DEF RestartProtocol, r, t, v, u, x

\* startSilentReconnect() and reconnectToVpn() up to their queries.
LEMMA SilentReconnectSound ==
    ASSUME NEW s, Sound(s)
    PROVE  Sound(startSilentReconnect(s)) /\ Sound(reconnectToVpn(s))
BY PushSound DEF startSilentReconnect, reconnectToVpn, Waits

\* reconnectToVpn() after its query counts within the limit.
LEMMA CountedSound ==
    ASSUME NEW s, Sound(s)
    PROVE  Sound(CountedReconnect(s))
<1> DEFINE n == IF s.silent THEN s.attempts ELSE 0
<1>1. s \in Connections /\ n \in 0..MaxRecovery
  BY BoundsFacts DEF Sound, Connections
<1>2. ASSUME NEW m \in 0..MaxRecovery
      PROVE  Sound([s EXCEPT !.attempts = m])
  <2>1. [s EXCEPT !.attempts = m] \in Connections
    BY <1>1 DEF Connections
  <2> QED BY <1>1, <2>1, Unaffected DEF Connections
<1>3. n < MaxRecovery => n + 1 \in 0..MaxRecovery
  BY <1>1, BoundsFacts
<1>4. ~(n >= MaxRecovery) => n < MaxRecovery
  BY <1>1, BoundsAssumption
<1> HIDE DEF n
<1> QED BY <1>1, <1>2, <1>3, <1>4, SilentReconnectSound DEF CountedReconnect, n

\* connectToVpn(): the error is cleared while still Disconnected, entering Connecting repairs it.
LEMMA ConnectSound ==
    ASSUME Sound(vc), NEW k \in Kinds, connectToVpn(k)
    PROVE  Sound(vc')
<1> DEFINE p == stopPendingNetworkAction(vc)
           t == [p EXCEPT !.lastError = "NoError", !.attempts = 0,
                          !.recovery = FALSE, !.stopping = FALSE, !.kind = k]
<1>1. p \in Connections
  BY StopPendingSound DEF Sound
<1>2. 0 \in 0..MaxRecovery /\ "NoError" \in Errors
  BY BoundsFacts DEF Errors
<1>3. t \in Connections
  <2> HIDE DEF p
  <2> QED BY <1>1, <1>2 DEF Connections
<1>4. Sound(setConnectionState(t, "Connecting"))
  BY <1>3, SetStateRepairs DEF Entered
<1>5. Sound(Push(setConnectionState(t, "Connecting"), "protect", FALSE))
  BY <1>4, PushSound DEF Waits
<1> QED BY <1>5 DEF connectToVpn

\* addSitesRoutes() and the end of a slot.
LEMMA SitesSound ==
    ASSUME NEW s, Sound(s), NEW any, NEW emit \in BOOLEAN
    PROVE  Sound(addSitesRoutes(s, any, emit)) /\ Sound(EndSlot(s, emit))
<1>1. Sound(EndSlot(s, emit))
  BY FinishConnectedSound DEF EndSlot
<1>2. Sound(Push(setConnectionHealth(s, "ApplyingRoutes"), "sites", emit))
  BY HealthSound, PushSound DEF Healths, Waits
<1> QED BY <1>1, <1>2 DEF addSitesRoutes

\* The user's and the service's requests.
LEMMA RequestsSound ==
    ASSUME Sound(vc), Requests
    PROVE  Sound(vc')
<1>1. ASSUME NEW k \in Kinds, connectToVpn(k)
      PROVE  Sound(vc')
  BY <1>1, ConnectSound
<1>2. CASE disconnectFromVpn
  BY <1>2, PushSound DEF disconnectFromVpn, Waits
<1>3. CASE NetworkChanged
  BY <1>3, SilentReconnectSound DEF NetworkChanged
<1>4. ASSUME NEW h \in OpenDiagnostics, setConnectionDiagnostic(h)
      PROVE  Sound(vc')
  BY <1>4, HealthSound DEF setConnectionDiagnostic, OpenDiagnostics, Healths, Problems
<1>5. ASSUME NEW any \in BOOLEAN, refreshSiteSplitTunnelRoutes(any)
      PROVE  Sound(vc')
  BY <1>5, DnsSound, SitesSound DEF refreshSiteSplitTunnelRoutes
<1> QED BY <1>1, <1>2, <1>3, <1>4, <1>5 DEF Requests

\* connectToVpn() runs on after setConnectionProtection(true).
LEMMA ReplyProtectSound ==
    ASSUME Sound(vc), NEW ok \in BOOLEAN, ReplyProtect(ok)
    PROVE  Sound(vc')
<1> DEFINE s == Pop(vc)
           p == [s.proto EXCEPT !.wired = IF @ = "all" THEN "state" ELSE @]
           unwired == [s EXCEPT !.proto.wired = IF @ = "all" THEN "state" ELSE @]
<1>1. Sound(s) /\ s \in Connections /\ s.proto \in Protocols
  BY PopSound DEF ReplyProtect, WaitsAt, Sound, Connections
<1>2. p \in Protocols
  <2> HIDE DEF s
  <2> QED BY <1>1 DEF Protocols
<1>3. unwired = [s EXCEPT !.proto = p]
  <2> HIDE DEF s
  <2> QED BY <1>1 DEF Connections
<1>4. Sound(unwired)
  BY <1>1, <1>2, <1>3, ProtoSound
<1>5. Sound(Push(ReplaceProtocol(StopProtocol(unwired), NullProtocol), "readyStart", FALSE))
  BY <1>4, StopProtocolSound, ReplaceSound, ProtocolTypes, PushSound DEF Waits
<1>6. Sound(FailWith(s, "AmneziaServiceConnectionFailed", "LocalServiceUnavailable"))
  BY <1>1, FailSound DEF Errors, RecoverableErrors, Healths, Problems
<1> HIDE DEF p, s
<1> QED BY <1>5, <1>6 DEF ReplyProtect, s

\* The three callers of deferUntilPhysicalNetworkReady() run on.
LEMMA ReplyReadySound ==
    ASSUME Sound(vc), NEW ready \in BOOLEAN, ReplyReady(ready)
    PROVE  Sound(vc')
<1> DEFINE s == Pop(vc)
<1>1. Sound(s)
  BY PopSound DEF ReplyReady, WaitsAt
<1>2. /\ Sound(deferAction(s, "StartConnection", "CheckingLocalNetwork"))
      /\ Sound(deferAction(s, "RequestReconnect", "Recovering"))
      /\ Sound(deferAction(s, "StartSilentReconnect", "Recovering"))
  BY <1>1, DeferSound DEF PendingActions, Healths
<1>3. Sound(startConfiguredConnection(s)) /\ Sound(CountedReconnect(s)) /\ Sound(RestartProtocol(s))
  BY <1>1, StartSound, CountedSound, RestartSound
<1> HIDE DEF s
<1> QED BY <1>2, <1>3 DEF ReplyReady, s

\* resumePendingNetworkAction() runs on.
LEMMA ReplyResumeSound ==
    ASSUME Sound(vc), NEW ready \in BOOLEAN, ReplyResume(ready)
    PROVE  Sound(vc')
<1> DEFINE s == Pop(vc)
           t == stopPendingNetworkAction(s)
<1>1. Sound(s) /\ Sound(t)
  BY PopSound, StopPendingSound DEF ReplyResume, WaitsAt
<1>2. Sound(startConfiguredConnection(t)) /\ Sound(reconnectToVpn(t)) /\ Sound(startSilentReconnect(t))
  BY <1>1, StartSound, SilentReconnectSound
<1> HIDE DEF s, t
<1> QED BY <1>1, <1>2 DEF ReplyResume, s, t

\* XrayProtocol::start() returns.
LEMMA ReplyStartSound ==
    ASSUME Sound(vc), NEW e \in {"NoError"} \cup XrayStartErrors, ReplyStart(e)
    PROVE  Sound(vc')
<1> DEFINE s == Pop(vc)
           p == [s.proto EXCEPT !.live = ~s.proto.stopped]
           started == [s EXCEPT !.proto.live = ~s.proto.stopped]
           x == [s EXCEPT !.watchdog = FALSE, !.silent = FALSE]
<1>1. Sound(s) /\ s \in Connections /\ s.proto \in Protocols
  BY PopSound DEF ReplyStart, WaitsAt, Sound, Connections
<1>2. started = [s EXCEPT !.proto = p] /\ p \in Protocols
  <2> HIDE DEF s
  <2> QED BY <1>1 DEF Connections, Protocols
<1>3. Sound(started)
  BY <1>1, <1>2, ProtoSound
<1>4. Sound(setConnectionHealth(started, "Recovering")) /\ Sound(setConnectionHealth(started, "WaitingHandshake"))
  BY <1>3, HealthSound DEF Healths
<1>5. e \in Errors /\ "ProtocolStartFailed" \in Healths
  BY DEF Errors, Healths, Problems
<1>6. Sound(FailWith(s, e, "ProtocolStartFailed"))
  BY <1>1, <1>5, FailSound
<1>7. Sound(FailWith(x, e, "ProtocolStartFailed"))
  BY <1>1, <1>5, FlagsSound, FailSound DEF Sound
<1>8. e # "NoError" => Sound(handleSilentReconnectFailure(s, connectionHealthForError(e), e))
  BY <1>1, <1>5, HealthForError, SilentFailureSound
<1> HIDE DEF s, started, x
<1> QED BY <1>1, <1>3, <1>4, <1>6, <1>7, <1>8 DEF ReplyStart, s, started, x

\* disconnectFromVpn() runs on after setConnectionProtection(false).
LEMMA ReplyReleaseSound ==
    ASSUME Sound(vc), ReplyRelease
    PROVE  Sound(vc')
<1> DEFINE q == stopPendingNetworkAction(Pop(vc))
           s == [q EXCEPT !.silent = FALSE, !.stopping = FALSE,
                          !.attempts = 0, !.recovery = FALSE, !.watchdog = FALSE]
           t == ReplaceProtocol(StopProtocol(setConnectionState(s, "Disconnecting")), NullProtocol)
<1>1. Sound(q) /\ q \in Connections
  BY PopSound, StopPendingSound DEF ReplyRelease, WaitsAt, Sound
<1>2. Sound(s)
  <2>1. 0 \in 0..MaxRecovery
    BY BoundsFacts
  <2> HIDE DEF q
  <2>2. s \in Connections
    BY <1>1, <2>1 DEF Connections
  <2>3. s.state = q.state /\ s.health = q.health /\ s.lastError = q.lastError /\ s.recovery = FALSE
    BY <1>1 DEF Connections
  <2> QED BY <1>1, <2>2, <2>3, Unaffected
<1>3. Sound(t)
  BY <1>2, SetStateSound, StopProtocolSound, ReplaceSound, ProtocolTypes DEF Entered
<1>4. Sound(setConnectionState(s, "Disconnected")) /\ Sound(setConnectionState(t, "Disconnected"))
  BY <1>2, <1>3, SetStateSound DEF Entered
<1> HIDE DEF q, s, t
<1> QED BY <1>3, <1>4 DEF ReplyRelease, q, s, t

\* A reply to the Connected handler, with the failure it may report.
LEMMA AfterReplySound ==
    ASSUME NEW s, Sound(s), s.stack # <<>>, NEW ok
    PROVE  Sound(AfterReply(s, ok))
<1>1. \A at : FailureAt(at) \in Healths
  BY DEF FailureAt, Healths, Problems
<1> QED BY <1>1, PopSound, HealthSound DEF AfterReply

\* The Connected handler runs on through the legacy route path.
LEMMA RouteRepliesSound ==
    ASSUME Sound(vc), NEW ok \in BOOLEAN, NEW b \in BOOLEAN, NEW mode,
           ReplyFlush(ok, mode) \/ ReplyExceptRoutes(ok, b) \/ ReplySites(ok, b)
    PROVE  Sound(vc')
<1> DEFINE s == AfterReply(vc, ok)
           emit == Top(vc).emit
<1>1. Sound(s) /\ emit \in BOOLEAN
  BY AfterReplySound, PopSound DEF ReplyFlush, ReplyExceptRoutes, ReplySites, WaitsAt, Frames
<1>2. Sound([s EXCEPT !.crashed = TRUE]) /\ Sound([s EXCEPT !.siteTimer = TRUE])
  BY <1>1, FlagsSound
<1>3. Sound(configureDnsSplitTunnel(s))
  BY <1>1, DnsSound
<1>4. CASE ReplyFlush(ok, mode)
  <2>1. /\ Sound(FinishConnected(configureDnsSplitTunnel(s)))
        /\ Sound(FinishConnected([s EXCEPT !.siteTimer = TRUE]))
        /\ Sound(Push(setConnectionHealth(s, "ApplyingRoutes"), "halves", TRUE))
    BY <1>1, <1>2, <1>3, FinishConnectedSound, HealthSound, PushSound DEF Healths, Waits
  <2> HIDE DEF s
  <2> QED BY <1>2, <1>4, <2>1 DEF ReplyFlush, s
<1>5. CASE ReplyExceptRoutes(ok, b)
  <2>1. /\ Sound(Push(s, "remote", TRUE))
        /\ Sound(Push(setConnectionHealth(s, "CheckingDns"), "dnsRoutes", TRUE))
        /\ Sound(addSitesRoutes(configureDnsSplitTunnel(s), b, TRUE))
    BY <1>1, <1>3, SitesSound, HealthSound, PushSound DEF Healths, Waits
  <2> HIDE DEF s
  <2> QED BY <1>2, <1>5, <2>1 DEF ReplyExceptRoutes, s
<1>6. CASE ReplySites(ok, b)
  <2>1. /\ Sound(Push(setConnectionHealth(s, "CheckingFirewall"), "firewall", emit))
        /\ Sound(EndSlot(s, emit))
    BY <1>1, SitesSound, HealthSound, PushSound DEF Healths, Waits
  <2> HIDE DEF s
  <2> QED BY <1>6, <2>1 DEF ReplySites, s
<1> QED BY <1>4, <1>5, <1>6

\* Every reply.
LEMMA RepliesSound ==
    ASSUME Sound(vc), Replies
    PROVE  Sound(vc')
BY ReplyProtectSound, ReplyReadySound, ReplyResumeSound, ReplyStartSound, ReplyReleaseSound,
   RouteRepliesSound DEF Replies

\* onConnectingTimedOut().
LEMMA TimedOutSound ==
    ASSUME NEW s, Sound(s)
    PROVE  Sound(onConnectingTimedOut(s))
<1> DEFINE failed == setConnectionHealth([s EXCEPT !.lastError = "VpnHandshakeTimeout"],
                                         "HandshakeTimeout")
           b == s.proto.kind # "None"
           stopped == StopProtocol([failed EXCEPT !.stopping = b])
           x == [setConnectionState(stopped, "Error") EXCEPT !.stopping = FALSE]
<1>1. /\ "VpnHandshakeTimeout" \in Errors \ {"NoError"}
      /\ "HandshakeTimeout" \in Healths
  BY DEF Errors, RecoverableErrors, Healths, Problems
<1>2. Sound(failed)
  BY <1>1, ErrorSound, HealthSound
<1>3. Sound(stopped)
  <2>1. b \in BOOLEAN
    OBVIOUS
  <2> HIDE DEF failed, b
  <2> QED BY <1>2, <2>1, FlagsSound, StopProtocolSound
<1>4. Sound(x)
  BY <1>3, SetStateSound, FlagsSound DEF Entered
<1>5. Sound(handleSilentReconnectFailure(s, "HandshakeTimeout", "VpnHandshakeTimeout"))
  BY <1>1, SilentFailureSound
<1> HIDE DEF failed, b, stopped, x
<1> QED BY <1>4, <1>5 DEF onConnectingTimedOut, failed, b, stopped, x

\* checkConnectedHealth().
LEMMA CheckSound ==
    ASSUME NEW s, Sound(s)
    PROVE  Sound(checkConnectedHealth(s))
<1> DEFINE n == IF s.idleChecks < MaxChecks THEN s.idleChecks + 1 ELSE MaxChecks
           t == [s EXCEPT !.lookup = TRUE]
           b == t.probe \/ n >= MaxChecks
<1>1. s \in Connections /\ n \in 0..MaxChecks
  BY BoundsFacts DEF Sound, Connections
<1>2. Sound(t) /\ t \in Connections
  BY FlagsSound DEF Sound
<1>3. Sound([s EXCEPT !.healthTimer = FALSE, !.idleChecks = 0])
  <2> DEFINE q == [s EXCEPT !.healthTimer = FALSE, !.idleChecks = 0]
  <2>1. 0 \in 0..MaxChecks
    BY BoundsFacts
  <2>2. q \in Connections
    BY <1>1, <2>1 DEF Connections
  <2>3. q.state = s.state /\ q.health = s.health /\ q.lastError = s.lastError /\ q.recovery = s.recovery
    BY <1>1 DEF Connections
  <2> QED BY <2>2, <2>3, Unaffected
<1>4. Sound([t EXCEPT !.probe = TRUE])
  BY <1>2, FlagsSound
<1>5. Sound([t EXCEPT !.idleChecks = n, !.probe = b])
  <2>1. b \in BOOLEAN
    BY <1>2 DEF Connections
  <2> HIDE DEF n, t, b
  <2> DEFINE q == [t EXCEPT !.idleChecks = n, !.probe = b]
  <2>2. q \in Connections
    BY <1>1, <1>2, <2>1 DEF Connections
  <2>3. q.state = t.state /\ q.health = t.health /\ q.lastError = t.lastError /\ q.recovery = t.recovery
    BY <1>2 DEF Connections
  <2> QED BY <1>2, <2>2, <2>3, Unaffected
<1>6. [t EXCEPT !.idleChecks = n, !.probe = @ \/ n >= MaxChecks] = [t EXCEPT !.idleChecks = n, !.probe = b]
  <2> HIDE DEF n, t
  <2> QED BY <1>2 DEF Connections
<1> HIDE DEF n, t, b
<1> QED BY <1>2, <1>3, <1>4, <1>5, <1>6 DEF checkConnectedHealth, n, t

\* Every timer.
LEMMA TimersSound ==
    ASSUME Sound(vc), Timers
    PROVE  Sound(vc')
<1>1. CASE ConnectingTimeout
  BY <1>1, FlagsSound, TimedOutSound DEF ConnectingTimeout
<1>2. CASE PendingDeadline
  BY <1>2, FlagsSound, StopPendingSound, TimedOutSound DEF PendingDeadline
<1>3. CASE RecoveryTimeout
  BY <1>3, FlagsSound, SilentReconnectSound DEF RecoveryTimeout
<1>4. CASE resumePendingNetworkAction
  BY <1>4, PushSound DEF resumePendingNetworkAction, Waits
<1>5. CASE HealthTimeout
  BY <1>5, CheckSound DEF HealthTimeout
<1>6. CASE FirstHealthCheck
  BY <1>6, FlagsSound, CheckSound DEF FirstHealthCheck
<1>7. ASSUME NEW any \in BOOLEAN, SiteRoutesTimer(any)
      PROVE  Sound(vc')
  BY <1>7, FlagsSound, DnsSound, SitesSound DEF SiteRoutesTimer
<1> QED BY <1>1, <1>2, <1>3, <1>4, <1>5, <1>6, <1>7 DEF Timers

\* Every answer to a probe, a lookup or an asynchronous call.
LEMMA AnswersSound ==
    ASSUME Sound(vc), Answers
    PROVE  Sound(vc')
<1>1. vc \in Connections
  BY DEF Sound
<1>2. /\ "VpnNoTrafficError" \in Errors \ {"NoError"} /\ "NoError" \in Errors
      /\ {"NoTraffic", "DnsFailed", "Healthy"} \subseteq Healths
      /\ 0 \in 0..MaxRecovery /\ 0 \in 0..MaxChecks
  BY BoundsFacts DEF Errors, RecoverableErrors, Healths, Problems
<1>3. CASE onConnectivityProbeSucceeded
  <2> DEFINE s == [vc EXCEPT !.probe = FALSE]
             t == [s EXCEPT !.lastError = "NoError", !.attempts = 0]
  <2>1. Sound(s) /\ s \in Connections
    BY FlagsSound DEF Sound
  <2> HIDE DEF s
  <2>2. ASSUME s.state = "Connected"
        PROVE  Sound(t)
    BY <1>2, <2>1, <2>2 DEF Sound, Diagnosed, Connections
  <2>3. ASSUME s.state = "Connected"
        PROVE  Sound(setConnectionHealth(t, "Healthy"))
    BY <1>2, <2>2, <2>3, HealthSound
  <2> HIDE DEF t
  <2> QED BY <1>3, <2>1, <2>2, <2>3 DEF onConnectivityProbeSucceeded, s, t
<1>4. CASE onConnectivityProbeFailed
  BY <1>2, <1>4, FlagsSound, RecoverSound DEF onConnectivityProbeFailed
<1>5. ASSUME NEW ok \in BOOLEAN, DnsLookupFinished(ok)
      PROVE  Sound(vc')
  <2> DEFINE s == [vc EXCEPT !.lookup = FALSE]
             t == [s EXCEPT !.lastError = "NoError"]
  <2>1. Sound(s) /\ s \in Connections
    BY FlagsSound DEF Sound
  <2> HIDE DEF s
  <2>2. ASSUME s.state = "Connected"
        PROVE  Sound(setConnectionHealth(t, "Healthy"))
    <3>1. Sound(t)
      BY <1>2, <2>1, <2>2 DEF Sound, Diagnosed, Connections
    <3> QED BY <1>2, <3>1, HealthSound
  <2>3. Sound(recoverConnectedTunnel(s, "DnsFailed", "VpnNoTrafficError"))
    BY <1>2, <2>1, RecoverSound
  <2> HIDE DEF t
  <2> QED BY <1>5, <2>1, <2>2, <2>3 DEF DnsLookupFinished, s, t
<1>6. ASSUME NEW ok \in BOOLEAN, DnsSplitTunnelReply(ok)
      PROVE  Sound(vc')
  BY <1>2, <1>6, FlagsSound, HealthSound DEF DnsSplitTunnelReply
<1>7. CASE onBytesChanged
  <2>1. vc' = [vc EXCEPT !.idleChecks = 0]
    BY <1>7 DEF onBytesChanged
  <2>2. vc' \in Connections
    BY <1>1, <1>2, <2>1 DEF Connections
  <2>3. vc'.state = vc.state /\ vc'.health = vc.health /\ vc'.lastError = vc.lastError
        /\ vc'.recovery = vc.recovery
    BY <1>1, <2>1 DEF Connections
  <2> QED BY <2>2, <2>3, Unaffected
<1> QED BY <1>3, <1>4, <1>5, <1>6, <1>7 DEF Answers

\* Every signal of the protocol object.
LEMMA ProtocolSignalsSound ==
    ASSUME Sound(vc), ProtocolSignals
    PROVE  Sound(vc')
<1>1. vc \in Connections /\ vc.proto \in Protocols
  BY DEF Sound, Connections
<1>2. ASSUME NEW service \in BOOLEAN, ProtocolConnected(service)
      PROVE  Sound(vc')
  <2> DEFINE p == [vc.proto EXCEPT !.st = "Connected"]
             s == EnterConnected([vc EXCEPT !.proto.st = "Connected"])
  <2>1. p \in Protocols /\ [vc EXCEPT !.proto.st = "Connected"] = [vc EXCEPT !.proto = p]
    BY <1>1 DEF Protocols, States, Connections
  <2>2. Sound(s)
    BY <2>1, ProtoSound, EnterConnectedSound
  <2>3. Sound(Push(setConnectionHealth(s, "CheckingDns"), "flush", TRUE)) /\ Sound(FinishConnected(s))
    BY <2>2, HealthSound, PushSound, FinishConnectedSound DEF Healths, Waits
  <2> HIDE DEF s
  <2> QED BY <1>2, <2>3 DEF ProtocolConnected, s
<1>3. CASE WireguardDisconnected
  <2> DEFINE p == [vc.proto EXCEPT !.live = ~vc.proto.stopped]
  <2>1. p \in Protocols /\ [vc EXCEPT !.proto.live = ~vc.proto.stopped] = [vc EXCEPT !.proto = p]
    BY <1>1 DEF Protocols, Connections
  <2>2. Sound([vc EXCEPT !.proto.live = ~vc.proto.stopped])
    BY <2>1, ProtoSound
  <2> QED BY <1>3, <2>2, SignalSound DEF WireguardDisconnected, Entered
<1>4. CASE WireguardBackendFailure
  <2> DEFINE p == [vc.proto EXCEPT !.err = "VpnBackendFailure"]
  <2>1. "VpnBackendFailure" \in Errors \ {"NoError"}
    BY DEF Errors, RecoverableErrors
  <2>2. p \in Protocols /\ [vc EXCEPT !.proto.err = "VpnBackendFailure"] = [vc EXCEPT !.proto = p]
    BY <1>1, <2>1 DEF Protocols, Connections
  <2>3. Sound([vc EXCEPT !.proto.err = "VpnBackendFailure"])
    BY <2>2, ProtoSound
  <2>4. Sound(SignalState([vc EXCEPT !.proto.err = "VpnBackendFailure"], "Error"))
    BY <2>3, SignalSound DEF Entered
  <2> QED BY <1>4, <2>1, <2>4, ProtocolErrorSound DEF WireguardBackendFailure
<1>5. ASSUME NEW e \in XrayRunErrors, XrayFailure(e)
      PROVE  Sound(vc')
  <2> DEFINE s == StopProtocol(vc)
             p == [s.proto EXCEPT !.err = e]
  <2>1. Sound(s) /\ s \in Connections /\ s.proto \in Protocols
    BY StopProtocolSound DEF Sound, Connections
  <2>2. e \in Errors
    BY DEF Errors
  <2>3. p \in Protocols /\ [s EXCEPT !.proto.err = e] = [s EXCEPT !.proto = p]
    <3> HIDE DEF s
    <3> QED BY <2>1, <2>2 DEF Protocols, Connections
  <2>4. Sound([s EXCEPT !.proto.err = e])
    BY <2>1, <2>3, ProtoSound
  <2> QED BY <1>5, <2>4, SignalSound DEF XrayFailure, Entered
<1> QED BY <1>2, <1>3, <1>4, <1>5 DEF ProtocolSignals

\* The object as it is constructed.
LEMMA InitSound == Sound(InitConnection)
<1>1. /\ "Disconnected" \in States /\ "Idle" \in Healths /\ "NoError" \in Errors
      /\ "None" \in PendingActions /\ 0 \in 0..MaxRecovery /\ 0 \in 0..MaxChecks
      /\ NullProtocol \in Protocols
  BY BoundsFacts, ProtocolTypes DEF States, Healths, Errors, PendingActions
<1>2. <<>> \in Seq(Frames)
  OBVIOUS
<1>3. InitConnection \in Connections
  BY <1>1, <1>2 DEF InitConnection, Connections
<1> QED BY <1>3 DEF Sound, Diagnosed, InitConnection

\* The inductive invariant.
IInv == Sound(vc) /\ asked \in {"on", "off", "timedOut"}

\* The history variable keeps its type.
LEMMA AskedType ==
    ASSUME asked \in {"on", "off", "timedOut"}, Next
    PROVE  asked' \in {"on", "off", "timedOut"}
BY DEF Next, Requests, Replies, Timers, Answers, ProtocolSignals, Relaunch, connectToVpn,
       disconnectFromVpn, NetworkChanged, setConnectionDiagnostic, refreshSiteSplitTunnelRoutes,
       ReplyProtect, ReplyReady, ReplyResume, ReplyStart, ReplyRelease, ReplyFlush,
       ReplyExceptRoutes, ReplySites, ConnectingTimeout, PendingDeadline, RecoveryTimeout,
       resumePendingNetworkAction, HealthTimeout, FirstHealthCheck, SiteRoutesTimer,
       onConnectivityProbeSucceeded, onConnectivityProbeFailed, DnsLookupFinished,
       DnsSplitTunnelReply, onBytesChanged, ProtocolConnected, WireguardDisconnected,
       WireguardBackendFailure, XrayFailure

\* The inductive invariant holds: every slot, run up to its next wait, keeps it, so
\* what other slots do during the wait cannot break it either.
THEOREM Invariance == Spec => []IInv
<1>1. Init => IInv
  BY InitSound DEF Init, IInv
<1>2. IInv /\ [Next]_vars => IInv'
  <2> SUFFICES ASSUME IInv, [Next]_vars PROVE IInv'
    OBVIOUS
  <2> USE DEF IInv
  <2>1. CASE Next
    <3>1. Sound(vc')
      <4>1. CASE Relaunch
        BY <4>1, InitSound DEF Relaunch
      <4> QED BY <2>1, <4>1, RequestsSound, RepliesSound, TimersSound, AnswersSound,
                 ProtocolSignalsSound DEF Next
    <3>2. asked' \in {"on", "off", "timedOut"}
      BY <2>1, AskedType
    <3> QED BY <3>1, <3>2 
  <2>2. CASE UNCHANGED vars
    BY <2>2 DEF vars
  <2> QED BY <2>1, <2>2
<1> QED BY <1>1, <1>2, PTL DEF Spec

\* Every member keeps its type; the attempt counter stays within
\* kMaxConnectedRecoveryAttempts for every limit and every interleaving.
THEOREM TypeCorrect == Spec => []TypeOK
BY Invariance, PTL DEF IInv, Sound, TypeOK

\* The diagnostic published by setConnectionHealth() matches the lifecycle state of
\* setConnectionState(), however deep the event loops nest.
THEOREM DiagnosticSound == Spec => []DiagnosticMatchesLifecycle
BY Invariance, PTL DEF IInv, Sound, Diagnosed, DiagnosticMatchesLifecycle

\* m_connectedRecoveryTimer is armed only in the Connected state, however deep the
\* event loops nest.
THEOREM RecoverySound == Spec => []RecoveryOnlyWhileConnected
BY Invariance, PTL DEF IInv, Sound, RecoveryOnlyWhileConnected
-----------------------------------------------------------------------------
(* TimeoutErrorKept.  Again one lemma per C++ function: none of them takes a  *)
(* sound object out of an Error with a known cause, but the slots of a new   *)
(* connect and of a disconnect, and the Connected signal.                    *)

Concrete == Errors \ {"NoError", "UnknownError"}

Known(s) == Sound(s) /\ ErrorKnown(s)

\* Only the state and the error matter.
LEMMA KnownKept ==
    ASSUME NEW s, Known(s), NEW t, Sound(t), t.state = s.state, t.lastError = s.lastError
    PROVE  Known(t)
BY DEF Known, ErrorKnown

\* The codes the slots report are concrete.
LEMMA ConcreteErrors ==
    /\ XrayStartErrors \cup XrayRunErrors \cup RecoverableErrors \subseteq Concrete
    /\ Concrete \subseteq Errors \ {"NoError"}
    /\ "InternalError" \in Concrete /\ "VpnHandshakeTimeout" \in Concrete
    /\ "VpnBackendFailure" \in Concrete /\ "AmneziaServiceConnectionFailed" \in Concrete
BY DEF Concrete, Errors, XrayStartErrors, XrayRunErrors, RecoverableErrors

\* Slots that wait and slots that run on.
LEMMA StackKnown ==
    ASSUME NEW s, Known(s)
    PROVE  /\ \A at \in Waits, emit \in BOOLEAN : Known(Push(s, at, emit))
           /\ s.stack # <<>> => Known(Pop(s))
<1>1. Sound(s) /\ s \in Connections
  BY DEF Known, Sound
<1>2. ASSUME NEW at \in Waits, NEW emit \in BOOLEAN
      PROVE  Known(Push(s, at, emit))
  <2>1. Push(s, at, emit).state = s.state /\ Push(s, at, emit).lastError = s.lastError
    BY <1>1 DEF Push, Connections
  <2> QED BY <1>1, <2>1, PushSound, KnownKept
<1>3. ASSUME s.stack # <<>> PROVE Known(Pop(s))
  <2>1. Pop(s).state = s.state /\ Pop(s).lastError = s.lastError
    BY <1>1 DEF Pop, Connections
  <2> QED BY <1>1, <1>3, <2>1, PopSound, KnownKept
<1> QED BY <1>2, <1>3

\* Diagnostics.
LEMMA HealthKnown ==
    ASSUME NEW s, Known(s), NEW h \in Healths
    PROVE  Known(setConnectionHealth(s, h))
BY HealthSound, KnownKept DEF Known

\* configureDnsSplitTunnel().
LEMMA DnsKnown ==
    ASSUME NEW s, Known(s)
    PROVE  Known(configureDnsSplitTunnel(s))
<1> DEFINE t == setConnectionHealth(s, "CheckingDns")
<1>1. Known(t) /\ t \in Connections
  BY HealthKnown DEF Healths, Known, Sound
<1> HIDE DEF t
<1>2. [t EXCEPT !.dnsReply = TRUE].state = t.state /\ [t EXCEPT !.dnsReply = TRUE].lastError = t.lastError
  BY <1>1 DEF Connections
<1>3. Known([t EXCEPT !.dnsReply = TRUE])
  BY <1>1, <1>2, FlagsSound, KnownKept DEF Known
<1> QED BY <1>3 DEF configureDnsSplitTunnel, t

\* Timers and flags.
LEMMA FlagsKnown ==
    ASSUME NEW s, Known(s), NEW b \in BOOLEAN
    PROVE  /\ Known([s EXCEPT !.watchdog = b])
           /\ Known([s EXCEPT !.silent = b])
           /\ Known([s EXCEPT !.watchdog = FALSE, !.silent = FALSE])
           /\ Known([s EXCEPT !.stopping = b])
           /\ Known([s EXCEPT !.probe = b])
           /\ Known([s EXCEPT !.lookup = b])
           /\ Known([s EXCEPT !.dnsReply = b])
           /\ Known([s EXCEPT !.siteTimer = b])
           /\ Known([s EXCEPT !.deadline = b])
           /\ Known([s EXCEPT !.kick = b])
           /\ Known([s EXCEPT !.crashed = b])
           /\ Known([s EXCEPT !.recovery = FALSE])
           /\ Known(stopPendingNetworkAction(s))
<1>1. Sound(s) /\ s \in Connections
  BY DEF Known, Sound
<1>2. /\ Sound([s EXCEPT !.watchdog = b])
      /\ Sound([s EXCEPT !.silent = b])
      /\ Sound([s EXCEPT !.watchdog = FALSE, !.silent = FALSE])
      /\ Sound([s EXCEPT !.stopping = b])
      /\ Sound([s EXCEPT !.probe = b])
      /\ Sound([s EXCEPT !.lookup = b])
      /\ Sound([s EXCEPT !.dnsReply = b])
      /\ Sound([s EXCEPT !.siteTimer = b])
      /\ Sound([s EXCEPT !.deadline = b])
      /\ Sound([s EXCEPT !.kick = b])
      /\ Sound([s EXCEPT !.crashed = b])
      /\ Sound([s EXCEPT !.recovery = FALSE])
  BY <1>1, FlagsSound
<1>3. Sound(stopPendingNetworkAction(s))
  BY <1>1, StopPendingSound
<1>4. /\ stopPendingNetworkAction(s).state = s.state
      /\ stopPendingNetworkAction(s).lastError = s.lastError
  BY <1>1 DEF stopPendingNetworkAction, Connections
<1>5. Known(stopPendingNetworkAction(s))
  BY <1>3, <1>4, KnownKept
<1> QED BY <1>1, <1>2, <1>5 DEF Known, ErrorKnown, Connections

\* Entering Error with a concrete code keeps the code.
LEMMA EnterErrorKnown ==
    ASSUME NEW s \in Connections, s.lastError \in Concrete
    PROVE  Known(EnterState(s, "Error"))
<1> DEFINE v == [s EXCEPT !.state = "Error"]
           w == [StopConnectedTimers(v) EXCEPT !.watchdog = FALSE]
           x == IF v.health \in Problems THEN w ELSE setConnectionHealth(w, "UnknownFailure")
           u == onConnectionStateChanged(v, "Error")
<1>1. v \in Connections /\ v.state = "Error" /\ v.lastError = s.lastError
  BY DEF Connections, States
<1>2. u = configureDnsSplitTunnel(x)
  BY DEF onConnectionStateChanged
<1>3. w \in Connections /\ w.lastError = s.lastError /\ w.state = "Error"
  <2> DEFINE y == StopConnectedTimers(v)
  <2>1. y \in Connections /\ y.lastError = s.lastError /\ y.state = "Error"
    BY <1>1, StopTimersType
  <2> HIDE DEF y
  <2>2. [y EXCEPT !.watchdog = FALSE] \in Connections
        /\ [y EXCEPT !.watchdog = FALSE].lastError = s.lastError
        /\ [y EXCEPT !.watchdog = FALSE].state = "Error"
    BY <2>1 DEF Connections
  <2> QED BY <2>2 DEF y
<1> HIDE DEF v, w
<1>4. x \in Connections /\ x.lastError = s.lastError
  BY <1>3, HealthType DEF Healths, Problems
<1> HIDE DEF x
<1>5. configureDnsSplitTunnel(x).lastError = s.lastError
  <2> DEFINE z == setConnectionHealth(x, "CheckingDns")
  <2>1. z \in Connections /\ z.lastError = s.lastError
    BY <1>4, HealthType DEF Healths
  <2> HIDE DEF z
  <2>2. [z EXCEPT !.dnsReply = TRUE].lastError = s.lastError
    BY <2>1 DEF Connections
  <2> QED BY <1>4, <2>2 DEF configureDnsSplitTunnel, z
<1>6. EnterState(s, "Error") = [u EXCEPT !.emitted = "Error"]
  BY DEF EnterState, Concrete, v
<1>7. u \in Connections /\ u.state = "Error" /\ u.lastError = s.lastError
  <2>1. u \in Connections
    BY <1>1, HandlerSound DEF Entered, Sound
  <2>2. u.lastError = s.lastError
    BY <1>2, <1>5
  <2>3. u.state = "Error"
    BY <1>2, <1>3, <1>4 DEF x, configureDnsSplitTunnel, setConnectionHealth, Connections
  <2> QED BY <2>1, <2>2, <2>3
<1> HIDE DEF u
<1>8. EnterState(s, "Error").state = "Error" /\ EnterState(s, "Error").lastError = s.lastError
  BY <1>6, <1>7 DEF Connections
<1>9. Sound(EnterState(s, "Error"))
  BY EnterStateSound DEF Entered
<1> QED BY <1>8, <1>9 DEF Known, ErrorKnown, Concrete

\* setConnectionState(): the Disconnected of a teardown is ignored, another Error keeps
\* the code.
LEMMA SetStateKnown ==
    ASSUME NEW s, Known(s)
    PROVE  setConnectionState(s, "Disconnected") = s /\ Known(setConnectionState(s, "Error"))
<1>1. s \in Connections /\ s.state = "Error" /\ s.lastError \in Concrete
  BY DEF Known, Sound, ErrorKnown, Concrete, Connections
<1>2. Known(EnterState(s, "Error"))
  BY <1>1, EnterErrorKnown
<1> QED BY <1>1, <1>2 DEF setConnectionState, Concrete

\* A failed start.
LEMMA FailKnown ==
    ASSUME NEW s \in Connections, NEW e \in Concrete, NEW h \in Healths
    PROVE  Known(FailWith(s, e, h))
<1> DEFINE t == [s EXCEPT !.lastError = e]
           u == setConnectionHealth(t, h)
<1>1. t \in Connections /\ t.lastError = e
  BY DEF Concrete, Connections
<1>2. u \in Connections /\ u.lastError = e
  BY <1>1, HealthType
<1> HIDE DEF u
<1>3. Known(setConnectionState(u, "Error"))
  BY <1>2, EnterErrorKnown DEF setConnectionState
<1> QED BY <1>3 DEF FailWith, u

\* A change of the protocol object alone.
LEMMA ProtoKnown ==
    ASSUME NEW s, Known(s), NEW p \in Protocols
    PROVE  Known([s EXCEPT !.proto = p]) /\ Known(ReplaceProtocol(s, p))
<1>1. Sound(s) /\ s \in Connections
  BY DEF Known, Sound
<1>2. /\ [s EXCEPT !.proto = p].state = s.state /\ [s EXCEPT !.proto = p].lastError = s.lastError
      /\ ReplaceProtocol(s, p).state = s.state /\ ReplaceProtocol(s, p).lastError = s.lastError
  BY <1>1 DEF ReplaceProtocol, Connections
<1> QED BY <1>1, <1>2, ProtoSound, ReplaceSound, KnownKept

\* m_vpnProtocol->stop() and the state signals that end an attempt.
LEMMA StopKnown ==
    ASSUME NEW s, Known(s)
    PROVE  /\ Known(StopProtocol(s))
           /\ \A st \in {"Disconnected", "Error"} : Known(SignalState(s, st))
<1> DEFINE t == [s EXCEPT !.proto = StopObject(@)]
<1>1. s \in Connections /\ s.proto \in Protocols
  BY DEF Known, Sound, Connections
<1>2. t = [s EXCEPT !.proto = StopObject(s.proto)]
  BY <1>1 DEF Connections
<1>3. Known(t)
  BY <1>1, <1>2, StopObjectType, ProtoKnown
<1>4. Known(StopProtocol(s))
  BY <1>3, SetStateKnown DEF StopProtocol
<1>5. ASSUME NEW st \in {"Disconnected", "Error"}
      PROVE  Known(SignalState(s, st))
  <2> DEFINE p == [s.proto EXCEPT !.st = st]
             q == [s EXCEPT !.proto.st = st]
  <2>1. p \in Protocols /\ q = [s EXCEPT !.proto = p]
    BY <1>1 DEF Protocols, States, Connections
  <2>2. Known(q)
    BY <2>1, ProtoKnown
  <2> HIDE DEF p, q
  <2>3. Known(setConnectionState(q, st))
    BY <2>2, SetStateKnown
  <2> QED BY <2>2, <2>3 DEF SignalState, q
<1> QED BY <1>4, <1>5

\* recoverConnectedTunnel() does nothing to an object that is not connected but name
\* its error, and handleSilentReconnectFailure() then enters Error with it.
LEMMA SilentFailureKnown ==
    ASSUME NEW s, Known(s), NEW h \in Healths, NEW e \in Concrete
    PROVE  Known(handleSilentReconnectFailure(s, h, e))
<1> DEFINE p == [StopObject(s.proto) EXCEPT !.wired = "none"]
           t == [s EXCEPT !.watchdog = FALSE, !.silent = FALSE,
                          !.proto = [StopObject(@) EXCEPT !.wired = "none"]]
           q == [t EXCEPT !.lastError = e]
           r == setConnectionHealth(q, h)
           u == recoverConnectedTunnel(t, h, e)
<1>1. s \in Connections /\ s.proto \in Protocols /\ s.state = "Error"
  BY DEF Known, Sound, ErrorKnown, Connections
<1>2. p \in Protocols
  BY <1>1, StopObjectType DEF Protocols
<1>3. t \in Connections /\ t.state = "Error"
  <2>1. t = [s EXCEPT !.watchdog = FALSE, !.silent = FALSE, !.proto = p]
    BY <1>1 DEF Connections
  <2> HIDE DEF p, t
  <2> QED BY <1>1, <1>2, <2>1 DEF Connections
<1> HIDE DEF t
<1>4. q \in Connections /\ q.state = "Error" /\ q.lastError = e
  BY <1>3 DEF Concrete, Connections
<1> HIDE DEF q
<1>5. r \in Connections /\ r.state = "Error" /\ r.lastError = e
  BY <1>4, HealthType
<1> HIDE DEF r
<1>6. u = [r EXCEPT !.healthTimer = FALSE, !.idleChecks = 0]
  BY <1>5 DEF recoverConnectedTunnel, r, q
<1> HIDE DEF u
<1>7. u \in Connections /\ u.lastError = e
  <2>1. 0 \in 0..MaxChecks
    BY BoundsFacts
  <2>2. u \in Connections
    BY <1>5, <1>6, <2>1 DEF Connections
  <2>3. u.lastError = e
    BY <1>5, <1>6 DEF Connections
  <2> QED BY <2>2, <2>3
<1>8. ~Recovers(t)
  BY <1>3 DEF Recovers
<1> QED BY <1>7, <1>8, EnterErrorKnown DEF handleSilentReconnectFailure, t, u

\* onProtocolError().
LEMMA ProtocolErrorKnown ==
    ASSUME NEW s, Known(s), NEW e \in Concrete
    PROVE  Known(onProtocolError(s, e))
<1> DEFINE t == [s EXCEPT !.lastError = e]
           u == IF e \in {"AmneziaServiceConnectionFailed", "VpnBackendFailure"}
                THEN setConnectionHealth(t, "LocalServiceUnavailable") ELSE t
           v == [u EXCEPT !.silent = FALSE]
<1>1. s \in Connections /\ s.state = "Error"
  BY DEF Known, Sound, ErrorKnown
<1>2. t \in Connections /\ t.lastError = e
  BY <1>1 DEF Concrete, Connections
<1> HIDE DEF t
<1>3. u \in Connections /\ u.lastError = e
  BY <1>2, HealthType DEF Healths, Problems
<1> HIDE DEF u
<1>4. v \in Connections /\ v.lastError = e
  BY <1>3 DEF Connections
<1>5. Known(setConnectionState(v, "Error"))
  BY <1>4, EnterErrorKnown DEF setConnectionState
<1>6. Known(handleSilentReconnectFailure(s, connectionHealthForError(e), e))
  BY HealthForError, SilentFailureKnown
<1> QED BY <1>1, <1>5, <1>6 DEF onProtocolError, t, u

\* startConfiguredConnection().
LEMMA StartKnown ==
    ASSUME NEW s, Known(s)
    PROVE  Known(startConfiguredConnection(s))
<1> DEFINE p == stopPendingNetworkAction(s)
           t == [p EXCEPT !.watchdog = TRUE]
           u == ReplaceProtocol(t, NewProtocol(s.kind))
           y == ReplaceProtocol(t, NullProtocol)
           x == [y EXCEPT !.lastError = "InternalError"]
<1>1. s.kind \in {"WireGuard", "Xray", "Unsupported", "None"}
  BY KindsAssumption DEF Known, Sound, Connections
<1>2. Known(t)
  BY FlagsKnown
<1>3. y \in Connections
  BY <1>2, ReplaceSound, ProtocolTypes DEF Known, Sound
<1>4. x \in Connections /\ x.lastError \in Concrete
  <2> HIDE DEF y
  <2> QED BY <1>3, ConcreteErrors DEF Connections
<1> HIDE DEF y
<1>5. Known(setConnectionState(x, "Error"))
  BY <1>4, EnterErrorKnown DEF setConnectionState
<1>6. ASSUME s.kind # "Unsupported"
      PROVE  Known(u) /\ Known(setConnectionHealth(u, "WaitingHandshake")) /\ Known(Push(u, "start", FALSE))
  <2>1. Known(u)
    BY <1>1, <1>2, <1>6, ProtoKnown, ProtocolTypes
  <2> HIDE DEF u
  <2> QED BY <2>1, HealthKnown, StackKnown DEF Healths, Waits
<1> HIDE DEF p, t, u, x
<1> QED BY <1>5, <1>6 DEF startConfiguredConnection, p, t, u, x, y

\* deferUntilPhysicalNetworkReady() when the network is not ready.
LEMMA DeferKnown ==
    ASSUME NEW s, Known(s), NEW a \in PendingActions, NEW h \in Healths
    PROVE  Known(deferAction(s, a, h))
<1> DEFINE t == [s EXCEPT !.pending = a, !.deadline = @ \/ a = "StartConnection",
                          !.watchdog = FALSE, !.recovery = FALSE, !.probe = FALSE]
<1>1. Sound(s) /\ s \in Connections
  BY DEF Known, Sound
<1>2. t \in Connections /\ t.state = s.state /\ t.health = s.health /\ t.lastError = s.lastError
      /\ t.recovery = FALSE
  BY <1>1 DEF Connections
<1> HIDE DEF t
<1>3. Known(t)
  BY <1>1, <1>2, Unaffected, KnownKept
<1> QED BY <1>3, HealthKnown DEF deferAction, t

\* startSilentReconnect() after its readiness query.
LEMMA RestartKnown ==
    ASSUME NEW s, Known(s)
    PROVE  Known(RestartProtocol(s))
<1> DEFINE p == stopPendingNetworkAction(s)
           r == [p EXCEPT !.recovery = FALSE, !.silent = TRUE, !.watchdog = FALSE]
           t == setConnectionHealth(r, "Recovering")
           v == ReplaceProtocol(t, NewProtocol(s.kind))
           u == [v EXCEPT !.watchdog = TRUE]
           y == ReplaceProtocol(t, NullProtocol)
           x == [y EXCEPT !.silent = FALSE]
<1>1. s.kind \in {"WireGuard", "Xray", "Unsupported", "None"}
  BY KindsAssumption DEF Known, Sound, Connections
<1>2. Known(p) /\ p \in Connections
  BY FlagsKnown DEF Known, Sound
<1> HIDE DEF p
<1>3. r \in Connections /\ r.state = p.state /\ r.health = p.health
      /\ r.lastError = p.lastError /\ r.recovery = FALSE
  BY <1>2 DEF Connections
<1> HIDE DEF r
<1>4. Known(r)
  BY <1>2, <1>3, Unaffected, KnownKept DEF Known
<1>5. Known(t)
  BY <1>4, HealthKnown DEF Healths
<1> HIDE DEF t
<1>6. Known([t EXCEPT !.crashed = TRUE])
  BY <1>5, FlagsKnown
<1>7. x \in Connections
  <2>1. Known(y)
    BY <1>5, ProtoKnown, ProtocolTypes
  <2> HIDE DEF y
  <2> QED BY <2>1, FlagsKnown DEF Known, Sound
<1>8. Known(FailWith(x, "InternalError", "ProtocolStartFailed"))
  BY <1>7, FailKnown, ConcreteErrors DEF Healths, Problems
<1>9. ASSUME s.kind # "Unsupported"
      PROVE  Known(setConnectionHealth(u, "Recovering")) /\ Known(Push(u, "restart", FALSE))
  <2>1. Known(v)
    BY <1>1, <1>5, <1>9, ProtoKnown, ProtocolTypes
  <2> HIDE DEF v
  <2>2. Known(u)
    BY <2>1, FlagsKnown
  <2> HIDE DEF u
  <2> QED BY <2>2, HealthKnown, StackKnown DEF Healths, Waits
<1> HIDE DEF u, x
<1> QED BY <1>6, <1>8, <1>9 DEF RestartProtocol, p, r, t, u, v, x, y

\* startSilentReconnect() and reconnectToVpn(), up to their queries and after them.
LEMMA ReconnectKnown ==
    ASSUME NEW s, Known(s)
    PROVE  Known(startSilentReconnect(s)) /\ Known(reconnectToVpn(s)) /\ Known(CountedReconnect(s))
<1>1. \A t : Known(t) => Known(startSilentReconnect(t)) /\ Known(reconnectToVpn(t))
  BY StackKnown DEF startSilentReconnect, reconnectToVpn, Waits
<1> DEFINE n == IF s.silent THEN s.attempts ELSE 0
<1>2. s \in Connections /\ n \in 0..MaxRecovery
  BY BoundsFacts DEF Known, Sound, Connections
<1>3. ASSUME NEW m \in 0..MaxRecovery
      PROVE  Known([s EXCEPT !.attempts = m])
  <2>1. /\ [s EXCEPT !.attempts = m] \in Connections
        /\ [s EXCEPT !.attempts = m].state = s.state /\ [s EXCEPT !.attempts = m].health = s.health
        /\ [s EXCEPT !.attempts = m].lastError = s.lastError
        /\ [s EXCEPT !.attempts = m].recovery = s.recovery
    BY <1>2 DEF Connections
  <2> QED BY <2>1, Unaffected, KnownKept DEF Known
<1>4. ~(n >= MaxRecovery) => n + 1 \in 0..MaxRecovery
  BY <1>2, BoundsAssumption
<1> HIDE DEF n
<1>5. Known(CountedReconnect(s))
  BY <1>1, <1>2, <1>3, <1>4 DEF CountedReconnect, n
<1> QED BY <1>1, <1>5

\* The end of the Connected handler, which slots may have interrupted, and addSitesRoutes().
LEMMA SitesKnown ==
    ASSUME NEW s, Known(s), NEW any, NEW emit \in BOOLEAN
    PROVE  /\ Known(FinishConnected(s))
           /\ Known(EndSlot(s, emit))
           /\ Known(addSitesRoutes(s, any, emit))
<1> DEFINE t == IF s.health \in Problems THEN s ELSE setConnectionHealth(s, "CheckingTraffic")
           u == [[t EXCEPT !.idleChecks = 0, !.healthTimer = TRUE, !.kick = TRUE]
                    EXCEPT !.emitted = "Connected"]
<1>1. Known(t) /\ t \in Connections
  BY HealthKnown DEF Healths, Known, Sound
<1>2. u = FinishConnected(s)
  BY DEF FinishConnected, startConnectedHealthCheck
<1> HIDE DEF t
<1>3. u.state = t.state /\ u.lastError = t.lastError
  BY <1>1 DEF Connections
<1>4. Known(FinishConnected(s))
  BY <1>1, <1>2, <1>3, FinishConnectedSound, KnownKept DEF Known
<1>5. Known(EndSlot(s, emit))
  BY <1>4 DEF EndSlot
<1>6. Known(Push(setConnectionHealth(s, "ApplyingRoutes"), "sites", emit))
  BY HealthKnown, StackKnown DEF Healths, Waits
<1> QED BY <1>4, <1>5, <1>6 DEF addSitesRoutes

\* Entering Disconnected keeps the error of a diagnosed problem.
LEMMA EnterDisconnectedKeeps ==
    ASSUME NEW s \in Connections, s.health \in Problems
    PROVE  /\ EnterState(s, "Disconnected") \in Connections
           /\ EnterState(s, "Disconnected").lastError = s.lastError
<1> DEFINE v == [s EXCEPT !.state = "Disconnected"]
           y == StopConnectedTimers(v)
           t == [y EXCEPT !.watchdog = FALSE, !.lastError = IF v.health \in Problems THEN @ ELSE "NoError"]
           w == setConnectionHealth(t, "Idle")
           z == setConnectionHealth(w, "CheckingDns")
           u == onConnectionStateChanged(v, "Disconnected")
<1>1. v \in Connections /\ v.health = s.health /\ v.lastError = s.lastError
  BY DEF Connections, States
<1> HIDE DEF v
<1>2. y \in Connections /\ y.lastError = s.lastError
  BY <1>1, StopTimersType
<1> HIDE DEF y
<1>3. t \in Connections /\ t.lastError = s.lastError
  <2>1. y.lastError \in Errors
    BY <1>2 DEF Connections
  <2>2. t = [y EXCEPT !.watchdog = FALSE, !.lastError = y.lastError]
    BY <1>1, <1>2 DEF Connections
  <2> HIDE DEF t
  <2>3. t \in Connections
    BY <1>2, <2>1, <2>2 DEF Connections
  <2>4. t.lastError = s.lastError
    BY <1>2, <2>2 DEF Connections
  <2> QED BY <2>3, <2>4
<1> HIDE DEF t
<1>4. w \in Connections /\ w.lastError = s.lastError
  BY <1>3, HealthType DEF Healths
<1> HIDE DEF w
<1>5. z \in Connections /\ z.lastError = s.lastError
  BY <1>4, HealthType DEF Healths
<1> HIDE DEF z
<1>6. [z EXCEPT !.dnsReply = TRUE] \in Connections /\ [z EXCEPT !.dnsReply = TRUE].lastError = s.lastError
  BY <1>5 DEF Connections
<1>7. u = configureDnsSplitTunnel(w)
  BY DEF onConnectionStateChanged, t, w, y
<1>8. u \in Connections /\ u.lastError = s.lastError
  BY <1>4, <1>6, <1>7 DEF configureDnsSplitTunnel, z
<1> HIDE DEF u
<1>9. EnterState(s, "Disconnected") = IF s.state = "Reconnecting" THEN [u EXCEPT !.state = "Reconnecting"]
                                      ELSE [u EXCEPT !.emitted = "Disconnected"]
  BY DEF EnterState, u, v
<1>10. /\ [u EXCEPT !.state = "Reconnecting"].lastError = s.lastError
       /\ [u EXCEPT !.emitted = "Disconnected"].lastError = s.lastError
       /\ [u EXCEPT !.state = "Reconnecting"] \in Connections
       /\ [u EXCEPT !.emitted = "Disconnected"] \in Connections
  BY <1>8 DEF Connections, States
<1> QED BY <1>9, <1>10

\* onConnectingTimedOut() fails an attempt with its code, whatever stop() signals meanwhile.
LEMMA TimedOutKnown ==
    ASSUME NEW s \in Connections, TimesOut(s)
    PROVE  Known(onConnectingTimedOut(s))
<1> DEFINE q == [s EXCEPT !.lastError = "VpnHandshakeTimeout"]
           failed == setConnectionHealth(q, "HandshakeTimeout")
           b == s.proto.kind # "None"
           g == [failed EXCEPT !.stopping = b]
           t == [g EXCEPT !.proto = StopObject(@)]
           stopped == StopProtocol(g)
<1>1. q \in Connections /\ q.lastError \in Concrete /\ q.state \in {"Connecting", "Reconnecting"}
  BY ConcreteErrors DEF TimesOut, Concrete, Connections
<1> HIDE DEF q
<1>2. /\ failed \in Connections /\ failed.lastError \in Concrete
      /\ failed.state \in {"Connecting", "Reconnecting"} /\ failed.health \in Problems
  <2>1. failed = [q EXCEPT !.health = "HandshakeTimeout"]
    BY <1>1 DEF setConnectionHealth, shouldPublishConnectionHealth
  <2> HIDE DEF failed
  <2> QED BY <1>1, <2>1 DEF Connections, Healths, Problems
<1>3. b \in BOOLEAN
  OBVIOUS
<1> HIDE DEF failed, b
<1>4. /\ g \in Connections /\ g.lastError \in Concrete
      /\ g.state \in {"Connecting", "Reconnecting"} /\ g.health \in Problems
  BY <1>2, <1>3 DEF Connections
<1> HIDE DEF g
<1>5. /\ t \in Connections /\ t.lastError \in Concrete
      /\ t.state \in {"Connecting", "Reconnecting"} /\ t.health \in Problems
  <2>1. g.proto \in Protocols
    BY <1>4 DEF Connections
  <2>2. t = [g EXCEPT !.proto = StopObject(g.proto)]
    BY <1>4 DEF Connections
  <2>3. StopObject(g.proto) \in Protocols
    BY <2>1, StopObjectType
  <2> HIDE DEF t
  <2> QED BY <1>4, <2>2, <2>3 DEF Connections
<1> HIDE DEF t
<1>6. stopped \in Connections /\ stopped.lastError \in Concrete
  <2>1. EnterState(t, "Disconnected") \in Connections /\ EnterState(t, "Disconnected").lastError \in Concrete
    BY <1>5, EnterDisconnectedKeeps
  <2>2. setConnectionState(t, "Disconnected") \in {t, EnterState(t, "Disconnected")}
    BY <1>5 DEF setConnectionState
  <2>3. stopped \in {t, setConnectionState(t, "Disconnected")}
    BY DEF StopProtocol, t
  <2> QED BY <1>5, <2>1, <2>2, <2>3
<1> HIDE DEF stopped
<1>7. Known(setConnectionState(stopped, "Error"))
  BY <1>6, EnterErrorKnown DEF setConnectionState
<1>8. Known([setConnectionState(stopped, "Error") EXCEPT !.stopping = FALSE])
  BY <1>7, FlagsKnown
<1> QED BY <1>8 DEF onConnectingTimedOut, TimesOut, q, failed, b, g, stopped

\* checkConnectedHealth() only stops its timer.
LEMMA CheckKnown ==
    ASSUME NEW s, Known(s)
    PROVE  Known(checkConnectedHealth(s))
<1>1. Sound(s) /\ s \in Connections /\ s.state = "Error"
  BY DEF Known, Sound, ErrorKnown
<1>2. checkConnectedHealth(s) = [s EXCEPT !.healthTimer = FALSE, !.idleChecks = 0]
  BY <1>1 DEF checkConnectedHealth
<1>3. checkConnectedHealth(s).state = s.state /\ checkConnectedHealth(s).lastError = s.lastError
  BY <1>1, <1>2 DEF Connections
<1> QED BY <1>1, <1>3, CheckSound, KnownKept

\* A reply that lets the slot of a connect or a reconnect run on.
LEMMA SlotRepliesKnown ==
    ASSUME Known(vc), NEW ok \in BOOLEAN, NEW e \in {"NoError"} \cup XrayStartErrors,
           ReplyProtect(ok) \/ ReplyReady(ok) \/ ReplyResume(ok) \/ ReplyStart(e)
    PROVE  Known(vc')
<1> DEFINE s == Pop(vc)
           t == stopPendingNetworkAction(s)
<1>1. Known(s) /\ s \in Connections /\ s.proto \in Protocols
  BY StackKnown DEF ReplyProtect, ReplyReady, ReplyResume, ReplyStart, WaitsAt, Known, Sound, Connections
<1>2. Known(t)
  BY <1>1, FlagsKnown
<1> HIDE DEF s, t
<1>3. CASE ReplyProtect(ok)
  <2> DEFINE p == [s.proto EXCEPT !.wired = IF @ = "all" THEN "state" ELSE @]
             unwired == [s EXCEPT !.proto.wired = IF @ = "all" THEN "state" ELSE @]
  <2>1. p \in Protocols /\ unwired = [s EXCEPT !.proto = p]
    BY <1>1 DEF Protocols, Connections
  <2>2. Known(unwired)
    BY <1>1, <2>1, ProtoKnown
  <2> HIDE DEF unwired
  <2>3. Known(Push(ReplaceProtocol(StopProtocol(unwired), NullProtocol), "readyStart", FALSE))
    BY <2>2, StopKnown, ProtoKnown, ProtocolTypes, StackKnown DEF Waits
  <2>4. Known(FailWith(s, "AmneziaServiceConnectionFailed", "LocalServiceUnavailable"))
    BY <1>1, FailKnown, ConcreteErrors DEF Healths, Problems
  <2> QED BY <1>3, <2>3, <2>4 DEF ReplyProtect, s, unwired
<1>4. CASE ReplyReady(ok)
  <2>1. /\ Known(deferAction(s, "StartConnection", "CheckingLocalNetwork"))
        /\ Known(deferAction(s, "RequestReconnect", "Recovering"))
        /\ Known(deferAction(s, "StartSilentReconnect", "Recovering"))
    BY <1>1, DeferKnown DEF PendingActions, Healths
  <2>2. Known(startConfiguredConnection(s)) /\ Known(CountedReconnect(s)) /\ Known(RestartProtocol(s))
    BY <1>1, StartKnown, ReconnectKnown, RestartKnown
  <2> QED BY <1>4, <2>1, <2>2 DEF ReplyReady, s
<1>5. CASE ReplyResume(ok)
  <2>1. Known(startConfiguredConnection(t)) /\ Known(reconnectToVpn(t)) /\ Known(startSilentReconnect(t))
    BY <1>2, StartKnown, ReconnectKnown
  <2> QED BY <1>1, <1>2, <1>5, <2>1 DEF ReplyResume, s, t
<1>6. CASE ReplyStart(e)
  <2> DEFINE p == [s.proto EXCEPT !.live = ~s.proto.stopped]
             started == [s EXCEPT !.proto.live = ~s.proto.stopped]
             x == [s EXCEPT !.watchdog = FALSE, !.silent = FALSE]
  <2>1. started = [s EXCEPT !.proto = p] /\ p \in Protocols
    BY <1>1 DEF Connections, Protocols
  <2>2. Known(started)
    BY <1>1, <2>1, ProtoKnown
  <2> HIDE DEF started
  <2>3. Known(setConnectionHealth(started, "Recovering")) /\ Known(setConnectionHealth(started, "WaitingHandshake"))
    BY <2>2, HealthKnown DEF Healths
  <2>4. e # "NoError" => e \in Concrete
    BY ConcreteErrors
  <2>5. x \in Connections
    BY <1>1, FlagsKnown DEF Known, Sound
  <2> HIDE DEF x
  <2>6. e # "NoError" => /\ Known(FailWith(s, e, "ProtocolStartFailed"))
                         /\ Known(FailWith(x, e, "ProtocolStartFailed"))
                         /\ Known(handleSilentReconnectFailure(s, connectionHealthForError(e), e))
    BY <1>1, <2>4, <2>5, FailKnown, HealthForError, SilentFailureKnown DEF Healths, Problems
  <2> QED BY <1>1, <1>6, <2>2, <2>3, <2>6 DEF ReplyStart, s, started, x
<1> QED BY <1>3, <1>4, <1>5, <1>6

\* A reply that lets the Connected handler run on.
LEMMA RouteRepliesKnown ==
    ASSUME Known(vc), NEW ok \in BOOLEAN, NEW b \in BOOLEAN, NEW mode,
           ReplyFlush(ok, mode) \/ ReplyExceptRoutes(ok, b) \/ ReplySites(ok, b)
    PROVE  Known(vc')
<1> DEFINE s == AfterReply(vc, ok)
           emit == Top(vc).emit
<1>1. Known(s) /\ emit \in BOOLEAN
  <2>1. \A at : FailureAt(at) \in Healths
    BY DEF FailureAt, Healths, Problems
  <2>2. Known(Pop(vc)) /\ emit \in BOOLEAN
    BY StackKnown, PopSound DEF ReplyFlush, ReplyExceptRoutes, ReplySites, WaitsAt, Frames, Known
  <2> QED BY <2>1, <2>2, HealthKnown DEF AfterReply
<1> HIDE DEF s
<1>2. /\ Known([s EXCEPT !.crashed = TRUE]) /\ Known([s EXCEPT !.siteTimer = TRUE])
      /\ Known(configureDnsSplitTunnel(s))
  BY <1>1, FlagsKnown, DnsKnown
<1>3. CASE ReplyFlush(ok, mode)
  <2>1. /\ Known(FinishConnected(configureDnsSplitTunnel(s)))
        /\ Known(FinishConnected([s EXCEPT !.siteTimer = TRUE]))
        /\ Known(Push(setConnectionHealth(s, "ApplyingRoutes"), "halves", TRUE))
    BY <1>1, <1>2, SitesKnown, HealthKnown, StackKnown DEF Healths, Waits
  <2> QED BY <1>2, <1>3, <2>1 DEF ReplyFlush, s
<1>4. CASE ReplyExceptRoutes(ok, b)
  <2>1. /\ Known(Push(s, "remote", TRUE))
        /\ Known(Push(setConnectionHealth(s, "CheckingDns"), "dnsRoutes", TRUE))
        /\ Known(addSitesRoutes(configureDnsSplitTunnel(s), b, TRUE))
    BY <1>1, <1>2, SitesKnown, HealthKnown, StackKnown DEF Healths, Waits
  <2> QED BY <1>2, <1>4, <2>1 DEF ReplyExceptRoutes, s
<1>5. CASE ReplySites(ok, b)
  <2>1. /\ Known(Push(setConnectionHealth(s, "CheckingFirewall"), "firewall", emit))
        /\ Known(EndSlot(s, emit))
    BY <1>1, SitesKnown, HealthKnown, StackKnown DEF Healths, Waits
  <2> QED BY <1>5, <2>1 DEF ReplySites, s
<1> QED BY <1>3, <1>4, <1>5

\* Every timer: onConnectingTimedOut() leaves an attempt that has failed alone.
LEMMA TimersKnown ==
    ASSUME Known(vc), Timers
    PROVE  Known(vc')
<1>1. vc.state = "Error"
  BY DEF Known, ErrorKnown
<1>2. \A s : Known(s) => onConnectingTimedOut(s) = s
  BY DEF onConnectingTimedOut, Known, ErrorKnown
<1>3. CASE ConnectingTimeout
  <2> DEFINE w == [vc EXCEPT !.watchdog = FALSE]
  <2>1. Known(w)
    BY FlagsKnown
  <2> HIDE DEF w
  <2>2. onConnectingTimedOut(w) = w
    BY <1>2, <2>1
  <2> QED BY <1>3, <2>1, <2>2 DEF ConnectingTimeout, w
<1>4. CASE PendingDeadline
  <2> DEFINE d == [vc EXCEPT !.deadline = FALSE]
             t == stopPendingNetworkAction(d)
  <2>1. Known(d)
    BY FlagsKnown
  <2> HIDE DEF d
  <2>2. Known(t)
    BY <2>1, FlagsKnown
  <2> HIDE DEF t
  <2>3. onConnectingTimedOut(t) = t
    BY <1>2, <2>2
  <2> QED BY <1>4, <2>1, <2>2, <2>3 DEF PendingDeadline, d, t
<1>5. CASE RecoveryTimeout
  BY <1>5, FlagsKnown, ReconnectKnown DEF RecoveryTimeout
<1>6. CASE resumePendingNetworkAction
  BY <1>6, StackKnown DEF resumePendingNetworkAction, Waits
<1>7. CASE HealthTimeout
  BY <1>7, CheckKnown DEF HealthTimeout
<1>8. CASE FirstHealthCheck
  BY <1>8, FlagsKnown, CheckKnown DEF FirstHealthCheck
<1>9. ASSUME NEW any \in BOOLEAN, SiteRoutesTimer(any)
      PROVE  Known(vc')
  BY <1>9, FlagsKnown, DnsKnown, SitesKnown DEF SiteRoutesTimer
<1> QED BY <1>3, <1>4, <1>5, <1>6, <1>7, <1>8, <1>9 DEF Timers

\* Every answer to a probe, a lookup or an asynchronous call.
LEMMA AnswersKnown ==
    ASSUME Known(vc), Answers
    PROVE  Known(vc')
<1>1. vc \in Connections /\ vc.state = "Error"
  BY DEF Known, Sound, ErrorKnown
<1>2. Known([vc EXCEPT !.probe = FALSE]) /\ Known([vc EXCEPT !.lookup = FALSE])
      /\ Known([vc EXCEPT !.dnsReply = FALSE])
  BY FlagsKnown
<1>3. [vc EXCEPT !.probe = FALSE].state = "Error" /\ [vc EXCEPT !.lookup = FALSE].state = "Error"
  BY <1>1 DEF Connections
<1>4. CASE onConnectivityProbeSucceeded \/ onConnectivityProbeFailed
  BY <1>2, <1>3, <1>4 DEF onConnectivityProbeSucceeded, onConnectivityProbeFailed
<1>5. ASSUME NEW ok \in BOOLEAN, DnsLookupFinished(ok)
      PROVE  Known(vc')
  BY <1>2, <1>3, <1>5 DEF DnsLookupFinished
<1>6. ASSUME NEW ok \in BOOLEAN, DnsSplitTunnelReply(ok)
      PROVE  Known(vc')
  BY <1>2, <1>6, HealthKnown DEF DnsSplitTunnelReply, Healths, Problems
<1>7. ~onBytesChanged
  BY <1>1 DEF onBytesChanged
<1> QED BY <1>4, <1>5, <1>6, <1>7 DEF Answers

\* Every signal of the protocol object but Connected.
LEMMA SignalsKnown ==
    ASSUME Known(vc), ProtocolSignals
    PROVE  Known(vc') \/ (vc.proto.live /\ vc'.state = "Connected")
<1>1. vc \in Connections /\ vc.proto \in Protocols
  BY DEF Known, Sound, Connections
<1>2. ASSUME NEW service \in BOOLEAN, ProtocolConnected(service)
      PROVE  vc.proto.live /\ vc'.state = "Connected"
  <2> DEFINE p == [vc.proto EXCEPT !.st = "Connected"]
             r == [vc EXCEPT !.proto.st = "Connected"]
             q == [r EXCEPT !.silent = FALSE, !.state = "Connected", !.watchdog = FALSE]
             s == EnterConnected(r)
             u == setConnectionHealth(s, "CheckingDns")
             x == IF s.health \in Problems THEN s ELSE setConnectionHealth(s, "CheckingTraffic")
  <2>1. p \in Protocols /\ r = [vc EXCEPT !.proto = p]
    BY <1>1 DEF Protocols, States, Connections
  <2>2. r \in Connections
    BY <2>1, ProtoSound DEF Known, Sound
  <2> HIDE DEF r
  <2>3. q \in Connections /\ q.state = "Connected"
    BY <2>2 DEF Connections, States
  <2> HIDE DEF q
  <2>4. s \in Connections /\ s.state = "Connected"
    BY <2>3, HealthType DEF EnterConnected, Healths, q
  <2> HIDE DEF s
  <2>5. u \in Connections /\ u.state = "Connected" /\ x \in Connections /\ x.state = "Connected"
    BY <2>4, HealthType DEF Healths
  <2> HIDE DEF u, x
  <2>6. Push(u, "flush", TRUE).state = "Connected"
    BY <2>5 DEF Push, Connections
  <2>7. FinishConnected(s).state = "Connected"
    BY <2>5 DEF FinishConnected, startConnectedHealthCheck, Connections, x
  <2> QED BY <1>2, <2>6, <2>7 DEF ProtocolConnected, Signals, r, s, u
<1>3. CASE WireguardDisconnected
  <2> DEFINE p == [vc.proto EXCEPT !.live = ~vc.proto.stopped]
  <2>1. p \in Protocols /\ [vc EXCEPT !.proto.live = ~vc.proto.stopped] = [vc EXCEPT !.proto = p]
    BY <1>1 DEF Protocols, Connections
  <2>2. Known([vc EXCEPT !.proto.live = ~vc.proto.stopped])
    BY <2>1, ProtoKnown
  <2> QED BY <1>3, <2>2, StopKnown DEF WireguardDisconnected
<1>4. CASE WireguardBackendFailure
  <2> DEFINE p == [vc.proto EXCEPT !.err = "VpnBackendFailure"]
  <2>1. p \in Protocols /\ [vc EXCEPT !.proto.err = "VpnBackendFailure"] = [vc EXCEPT !.proto = p]
    BY <1>1, ConcreteErrors DEF Protocols, Connections
  <2>2. Known([vc EXCEPT !.proto.err = "VpnBackendFailure"])
    BY <2>1, ProtoKnown
  <2>3. Known(SignalState([vc EXCEPT !.proto.err = "VpnBackendFailure"], "Error"))
    BY <2>2, StopKnown
  <2> QED BY <1>4, <2>3, ProtocolErrorKnown, ConcreteErrors DEF WireguardBackendFailure
<1>5. ASSUME NEW e \in XrayRunErrors, XrayFailure(e)
      PROVE  Known(vc')
  <2> DEFINE s == StopProtocol(vc)
             p == [s.proto EXCEPT !.err = e]
  <2>1. Known(s) /\ s \in Connections /\ s.proto \in Protocols
    BY StopKnown DEF Known, Sound, Connections
  <2> HIDE DEF s
  <2>2. p \in Protocols /\ [s EXCEPT !.proto.err = e] = [s EXCEPT !.proto = p]
    BY <2>1, ConcreteErrors DEF Protocols, Connections
  <2>3. Known([s EXCEPT !.proto.err = e])
    BY <2>1, <2>2, ProtoKnown
  <2> QED BY <1>5, <2>3, StopKnown DEF XrayFailure, s
<1> QED BY <1>2, <1>3, <1>4, <1>5 DEF ProtocolSignals

\* The request steps that are neither a connect nor a disconnect.
LEMMA RequestsKnown ==
    ASSUME Known(vc), Requests, asked' = "timedOut"
    PROVE  Known(vc')
<1>1. vc.state = "Error"
  BY DEF Known, ErrorKnown
<1>2. ASSUME NEW h \in OpenDiagnostics, setConnectionDiagnostic(h)
      PROVE  Known(vc')
  BY <1>2, HealthKnown DEF setConnectionDiagnostic, OpenDiagnostics, Healths, Problems
<1> QED BY <1>1, <1>2 DEF Requests, connectToVpn, disconnectFromVpn, NetworkChanged, MayReconnect,
                          refreshSiteSplitTunnelRoutes

\* A failed attempt keeps its concrete error code through the teardown, late replies,
\* lookups, probes and daemon messages, for every protocol and however deep the slots
\* nest: until the next request only a Connected signal of a backend that is still alive
\* leaves the Error of onConnectingTimedOut().
THEOREM TimeoutErrorSound == Spec => TimeoutErrorKept
<1> DEFINE Kept == asked' = "timedOut" /\ (asked # "timedOut" \/ ErrorKnown(vc))
                     /\ (\A i \in DOMAIN vc.stack : vc.stack[i].at # "release")
                     => ErrorKnown(vc') \/ (vc.proto.live /\ vc'.state = "Connected")
<1>1. IInv /\ [Next]_vars => [Kept]_vars
  <2> SUFFICES ASSUME IInv, Next, asked' = "timedOut", asked # "timedOut" \/ ErrorKnown(vc),
                      \A i \in DOMAIN vc.stack : vc.stack[i].at # "release"
               PROVE  Known(vc') \/ (vc.proto.live /\ vc'.state = "Connected")
    BY DEF Known
  <2>1. Sound(vc) /\ vc \in Connections
    BY DEF IInv, Sound
  <2>2. CASE asked # "timedOut"
    <3>1. \/ ConnectingTimeout /\ TimesOut(vc)
          \/ PendingDeadline /\ TimesOut(vc) /\ vc.pending = "StartConnection"
      BY <2>2 DEF Next, Requests, Replies, Timers, Answers, ProtocolSignals, Relaunch, connectToVpn,
           disconnectFromVpn, NetworkChanged, setConnectionDiagnostic, refreshSiteSplitTunnelRoutes,
           ReplyProtect, ReplyReady, ReplyResume, ReplyStart, ReplyRelease, ReplyFlush,
           ReplyExceptRoutes, ReplySites, ConnectingTimeout, PendingDeadline, RecoveryTimeout,
           resumePendingNetworkAction, HealthTimeout, FirstHealthCheck, SiteRoutesTimer,
           onConnectivityProbeSucceeded, onConnectivityProbeFailed, DnsLookupFinished,
           DnsSplitTunnelReply, onBytesChanged, ProtocolConnected, WireguardDisconnected,
           WireguardBackendFailure, XrayFailure
    <3> DEFINE w == [vc EXCEPT !.watchdog = FALSE]
               d == stopPendingNetworkAction([vc EXCEPT !.deadline = FALSE])
    <3>2. w \in Connections /\ d \in Connections
      BY <2>1, FlagsSound, StopPendingSound DEF Sound
    <3>3. w.state = vc.state /\ d.state = vc.state
      BY <2>1 DEF stopPendingNetworkAction, Connections
    <3> HIDE DEF w, d
    <3>4. Known(onConnectingTimedOut(w)) \/ ~TimesOut(vc)
      BY <3>2, <3>3, TimedOutKnown DEF TimesOut
    <3>5. Known(onConnectingTimedOut(d)) \/ ~TimesOut(vc)
      BY <3>2, <3>3, TimedOutKnown DEF TimesOut
    <3>6. CASE ConnectingTimeout /\ TimesOut(vc)
      BY <3>4, <3>6 DEF ConnectingTimeout, w
    <3>7. CASE PendingDeadline /\ TimesOut(vc) /\ vc.pending = "StartConnection"
      BY <3>5, <3>7 DEF PendingDeadline, d
    <3> QED BY <3>1, <3>6, <3>7
  <2>3. CASE ErrorKnown(vc)
    <3>1. Known(vc)
      BY <2>1, <2>3 DEF Known
    <3>2. ~ReplyRelease
      <4>1. vc.stack \in Seq(Frames)
        BY <2>1 DEF Connections
      <4>2. vc.stack # <<>> => Len(vc.stack) \in DOMAIN vc.stack
        BY <4>1, EmptySeq
      <4> QED BY <4>2 DEF ReplyRelease, WaitsAt, Top
    <3>3. ~Relaunch
      BY DEF Relaunch
    <3>4. ASSUME Replies PROVE Known(vc')
      BY <3>1, <3>2, <3>4, SlotRepliesKnown, RouteRepliesKnown DEF Replies
    <3> QED BY <3>1, <3>3, <3>4, RequestsKnown, TimersKnown, AnswersKnown, SignalsKnown DEF Next
  <2> QED BY <2>2, <2>3
<1>2. Spec => [][Kept]_vars
  BY <1>1, Invariance, PTL DEF Spec
<1> QED BY <1>2 DEF TimeoutErrorKept
=============================================================================

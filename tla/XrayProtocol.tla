---------------------------- MODULE XrayProtocol ----------------------------
(***************************************************************************)
(* The Xray protocol object (client/core/protocols/xrayProtocol.cpp) with  *)
(* the part of the service it drives: the xray core, the resolvers of the  *)
(* router and the tun2socks processes.                                     *)
(*                                                                         *)
(* The object calls the service over one IPC socket, served in order, and  *)
(* each tun2socks process over a socket of its own, not ordered with the   *)
(* first.  start() and the slots wait for replies in nested event loops,   *)
(* in which stop(), other slots and the start of a later object may run.   *)
(* stop() does not wait: it sends its calls and is done.                   *)
(***************************************************************************)
EXTENDS Naturals, Sequences

CONSTANTS
    MaxObjects,  \* bound: protocol objects VpnConnection creates
    MaxProcs,    \* bound: processes the service creates
    MaxRetries,  \* maxTun2SocksRetries (5 in the code)
    MaxDepth     \* bound: how many slots may wait on top of each other

ASSUME XrayBounds == /\ MaxObjects \in Nat /\ MaxProcs \in Nat \ {0}
                     /\ MaxRetries \in Nat /\ MaxDepth \in Nat

VARIABLES
    o,       \* the current protocol object
    frames,  \* the waiting slots, the topmost last
    ipc,     \* calls on the IPC socket that the service has not served yet
    svc,     \* the service
    proc,    \* the processes created by createPrivilegedProcess()
    dirty    \* history: the last object ended without sending its cleanup

xrayVars == <<o, frames, ipc, svc, proc, dirty>>

-----------------------------------------------------------------------------
(* Values. *)

\* The configurable calls of setupRouting(): killSwitchOption and VpnAllSites.
Optional == {"enableKillSwitch", "routeAddList"}

SetupCalls == <<"createTun", "updateResolvers", "enableKillSwitch", "routeAddList",
                "StopRoutingIpv6">>

StopCalls == <<"disableKillSwitch", "StartRoutingIpv6", "restoreResolvers", "xrayStop">>

Calls == {"xrayStart", "deleteTun", "createPrivilegedProcess"}
         \cup {SetupCalls[i] : i \in 1..5} \cup {StopCalls[i] : i \in 1..4}

Pids == 1..MaxProcs

Objects ==
    [id      : 0..MaxObjects,
     st      : {"Unknown", "Connected", "Disconnected", "Error"},
     stop    : BOOLEAN,               \* m_stopRequested
     setup   : BOOLEAN,               \* m_routingSetupStarted
     retries : 0..MaxRetries,         \* m_tun2socksRetryCount
     timer   : BOOLEAN,               \* the single-shot retry timer is armed
     proc    : 0..MaxProcs,           \* m_tun2socksProcess, 0 when null
     opts    : SUBSET Optional,
     starts  : Nat,                   \* history: processes this object has started
     cut     : BOOLEAN]               \* history: the service crashed since start()

\* ret: the reply, Outstanding until it is there, 0 for false, 1 or a process id for
\* success.  by: who called startTun2Socks(), or a slot of the process's signals.
Outstanding == MaxProcs + 1

Frames ==
    [at  : Calls \cup {"acquire", "readErr", "readOut"},
     by  : {"start", "timer", "slot"},
     obj : 0..MaxObjects,
     pid : 0..MaxProcs,
     ret : 0..Outstanding]

\* core: the xray core runs.  uplink: its routes on the uplink are installed.  dns: the
\* router's DnsUtilsMacos has resolvers to restore.  npid: m_localpid.
Services == [up : BOOLEAN, core : BOOLEAN, uplink : BOOLEAN, dns : BOOLEAN,
             npid : 0..MaxProcs]

\* tun: the process has opened utun22.  line: its "[STACK]" line is not read yet.
\* ready, fin: the client has a queued readyReadStandardError / finished signal.
\* lost: no client or service can command this process any more.
Processes ==
    [st : {"none", "idle", "running", "exited"}, cmds : Seq({"start", "kill"}),
     tun : BOOLEAN, line : BOOLEAN, busy : BOOLEAN, ready : BOOLEAN, fin : BOOLEAN,
     lost : BOOLEAN]

NewObject(n, opts) ==
    [id |-> n, st |-> "Unknown", stop |-> FALSE, setup |-> FALSE, retries |-> 0,
     timer |-> FALSE, proc |-> 0, opts |-> opts, starts |-> 0, cut |-> FALSE]

NewProcess(status) ==
    [st |-> status, cmds |-> <<>>, tun |-> FALSE, line |-> FALSE, busy |-> FALSE,
     ready |-> FALSE, fin |-> FALSE, lost |-> FALSE]

Init ==
    /\ o = [NewObject(0, {}) EXCEPT !.st = "Disconnected", !.stop = TRUE]
    /\ frames = <<>>
    /\ ipc = <<>>
    /\ svc = [up |-> TRUE, core |-> FALSE, uplink |-> FALSE, dns |-> FALSE, npid |-> 0]
    /\ proc = [p \in Pids |-> NewProcess("none")]
    /\ dirty = FALSE

-----------------------------------------------------------------------------
(* Waiting slots and calls. *)

CanDispatch == Len(frames) < MaxDepth

Frame(at, by, pid, ret) == [at |-> at, by |-> by, obj |-> o.id, pid |-> pid, ret |-> ret]

Top == frames[Len(frames)]

Rest == SubSeq(frames, 1, Len(frames) - 1)

WaitsAt(places) == frames # <<>> /\ Top.at \in places

\* if (!self || m_stopRequested): a replaced object has always been stopped.
Alive(f) == f.obj = o.id /\ ~o.stop

\* A call over an invalid replica is not sent, and its wait fails.
Sent(call) == IF svc.up THEN Append(ipc, [call |-> call, obj |-> o.id]) ELSE ipc

\* The calls of setupRouting() this configuration makes from the i-th on.
SetupFrom(i) == {j \in i..5 : SetupCalls[j] \in Optional => SetupCalls[j] \in o.opts}

FirstSetup(i) == SetupCalls[CHOOSE j \in SetupFrom(i) : \A k \in SetupFrom(i) : j <= k]

SetupIndex(call) == CHOOSE i \in 1..5 : SetupCalls[i] = call

\* The running slot stops here and leaves everything as it is.
Return == frames' = Rest /\ UNCHANGED <<o, ipc, svc, proc, dirty>>

\* The running slot waits for the reply to its next call.
WaitFor(below, call, by, obj) ==
    /\ frames' = Append(below, Frame(call, by, 0, Outstanding))
    /\ ipc' = Sent(call)
    /\ o' = obj
    /\ UNCHANGED <<svc, proc, dirty>>

-----------------------------------------------------------------------------
(* stop(). *)

\* Mutant: the cleanup leaves out restoreResolvers().
StopWithoutResolvers(final) ==
    /\ o' = [o EXCEPT !.stop = TRUE, !.st = final, !.proc = 0]
    /\ ipc' = IF svc.up THEN Append(ipc, [call |-> "xrayStop", obj |-> o.id]) ELSE ipc
    /\ proc' = [p \in Pids |-> IF p # o.proc THEN proc[p]
                               ELSE [proc[p] EXCEPT !.cmds = Append(@, "kill")]]
    /\ dirty' = ~svc.up

\* stop(), with the state that is signalled last: Disconnected, or the Error of a
\* setLastError() that follows at once.
Stop(final) ==
    /\ o' = [o EXCEPT !.stop = TRUE, !.st = final, !.proc = 0]
    /\ ipc' = IF svc.up
              THEN ipc \o [i \in 1..4 |-> [call |-> StopCalls[i], obj |-> o.id]]
              ELSE ipc
    /\ proc' = [p \in Pids |->
                  IF p # o.proc THEN proc[p]
                  ELSE IF svc.up THEN [proc[p] EXCEPT !.cmds = Append(@, "kill")]
                                 ELSE [proc[p] EXCEPT !.lost = TRUE]]
    /\ dirty' = ~svc.up

\* VpnConnection calls stop(): a disconnect, a watchdog, a reconnect.
StopRequest == ~o.stop /\ Stop("Disconnected") /\ UNCHANGED <<frames, svc>>

\* The running slot fails: stop() and setLastError().
FailSlot(below) == Stop("Error") /\ frames' = below /\ UNCHANGED svc

-----------------------------------------------------------------------------
(* start() and startTun2Socks(). *)

\* VpnConnection has stopped its last object and starts a new one.  start() may fail
\* at once, by its configuration or without a service.
Start(opts) ==
    /\ o.stop /\ o.id < MaxObjects /\ CanDispatch
    /\ o' = NewObject(o.id + 1, opts)
    /\ \/ UNCHANGED <<frames, ipc>>
       \/ /\ svc.up
          /\ frames' = Append(frames, [at |-> "xrayStart", by |-> "start", obj |-> o.id + 1,
                                       pid |-> 0, ret |-> Outstanding])
          /\ ipc' = Append(ipc, [call |-> "xrayStart", obj |-> o.id + 1])
    /\ UNCHANGED <<svc, proc, dirty>>

\* startTun2Socks() fails: start() returns the error, the retry timer's slot stops.
TunFails(f) == IF f.by = "start" THEN Return ELSE FailSlot(Rest)

\* xrayStart has returned to start(); without an interface deleteTun fails.
ReplyXrayStart ==
    /\ WaitsAt({"xrayStart"})
    /\ IF Alive(Top) /\ Top.ret = 1 /\ svc.up
       THEN WaitFor(Rest, "deleteTun", "start", [o EXCEPT !.setup = FALSE])
       ELSE Return

ReplyDeleteTun ==
    /\ WaitsAt({"deleteTun"})
    /\ CASE ~Alive(Top) -> Return
         [] Alive(Top) /\ (Top.ret # 1 \/ ~svc.up) -> TunFails(Top)
         [] OTHER -> WaitFor(Rest, "createPrivilegedProcess", Top.by, o)

\* CreatePrivilegedProcess() has the process id and waits for the replica.
ReplyCreateProcess ==
    /\ WaitsAt({"createPrivilegedProcess"})
    /\ IF Top.ret \in Pids
       THEN /\ frames' = Append(Rest, [Top EXCEPT !.at = "acquire", !.pid = Top.ret])
            /\ UNCHANGED <<o, ipc, svc, proc, dirty>>
       ELSE IF Alive(Top) THEN TunFails(Top) ELSE Return

\* Mutant: stop() during the creation of the process goes unnoticed.
StartStoppedProcess(ok) ==
    /\ WaitsAt({"acquire"})
    /\ ok /\ svc.up
    /\ LET p == Top.pid
       IN  /\ o' = [o EXCEPT !.proc = p, !.starts = @ + 1]
           /\ proc' = [proc EXCEPT ![p].cmds = Append(@, "start")]
           /\ frames' = Rest
           /\ UNCHANGED <<ipc, svc, dirty>>

\* The replica is there: the object takes the process, connects its signals and
\* starts it.
ReplyAcquire(ok) ==
    /\ WaitsAt({"acquire"})
    /\ LET p == Top.pid
       IN  CASE ~Alive(Top) -> Return
             [] Alive(Top) /\ ~(ok /\ svc.up /\ ~proc[p].lost) -> TunFails(Top)
             [] OTHER -> /\ o' = [o EXCEPT !.proc = p, !.starts = @ + 1]
                         /\ proc' = [proc EXCEPT ![p].cmds = Append(@, "start")]
                         /\ frames' = Rest
                         /\ UNCHANGED <<ipc, svc, dirty>>

\* The 400 ms retry timer.
RetryTimer ==
    /\ o.timer /\ CanDispatch
    /\ CASE o.stop -> /\ o' = [o EXCEPT !.timer = FALSE]
                      /\ UNCHANGED <<frames, ipc, svc, proc, dirty>>
         [] ~o.stop /\ svc.up ->
              WaitFor(frames, "deleteTun", "timer", [o EXCEPT !.timer = FALSE, !.setup = FALSE])
         [] OTHER -> FailSlot(frames)

-----------------------------------------------------------------------------
(* The slots of the process's signals. *)

\* readyReadStandardError: the slot asks for the output, which drains it.
ReadyReadStandardError(p) ==
    /\ proc[p].ready /\ CanDispatch
    /\ IF o.stop \/ o.setup \/ o.proc # p
       THEN /\ proc' = [proc EXCEPT ![p].ready = FALSE]
            /\ UNCHANGED frames
       ELSE /\ proc' = [proc EXCEPT ![p].ready = FALSE, ![p].line = FALSE]
            /\ frames' = Append(frames, Frame("readErr", "slot", p, IF proc[p].line THEN 1 ELSE 0))
    /\ UNCHANGED <<o, ipc, svc, dirty>>

\* The output has arrived (or not, ~ok).  With the "[STACK]" line setupRouting() begins.
ReplyReadErr(ok) ==
    /\ WaitsAt({"readErr"})
    /\ LET f == Top
           go == Alive(f) /\ ~o.setup /\ o.proc = f.pid /\ ok /\ f.ret = 1
       IN  CASE ~go -> Return
             [] go /\ svc.up -> WaitFor(Rest, "createTun", "slot", [o EXCEPT !.setup = TRUE])
             [] OTHER -> FailSlot(Rest)

\* Mutant: the last reply connects an object that was stopped meanwhile.
SetupIgnoresStop ==
    /\ WaitsAt({SetupCalls[i] : i \in 1..5})
    /\ LET next == SetupIndex(Top.at) + 1
       IN  CASE Top.ret # 1 -> IF Alive(Top) THEN FailSlot(Rest) ELSE Return
             [] Top.ret = 1 /\ SetupFrom(next) # {} -> WaitFor(Rest, FirstSetup(next), "slot", o)
             [] OTHER -> /\ o' = [o EXCEPT !.st = "Connected"]
                         /\ frames' = Rest
                         /\ UNCHANGED <<ipc, svc, proc, dirty>>

\* A call of setupRouting() has returned; after the last one the object is connected.
ReplySetup ==
    /\ WaitsAt({SetupCalls[i] : i \in 1..5})
    /\ LET next == SetupIndex(Top.at) + 1
       IN  CASE ~Alive(Top) -> Return
             [] Alive(Top) /\ Top.ret # 1 -> FailSlot(Rest)
             [] Alive(Top) /\ Top.ret = 1 /\ SetupFrom(next) # {} ->
                  WaitFor(Rest, FirstSetup(next), "slot", o)
             [] OTHER -> /\ o' = [o EXCEPT !.st = "Connected"]
                         /\ frames' = Rest
                         /\ UNCHANGED <<ipc, svc, proc, dirty>>

\* Mutant: only the start of tun2socks is watched.
FinishedBeforeSetup(p) ==
    /\ proc[p].fin /\ ~proc[p].ready /\ CanDispatch
    /\ proc' = [proc EXCEPT ![p].fin = FALSE]
    /\ frames' = IF o.stop \/ o.proc # p \/ o.setup THEN frames
                 ELSE Append(frames, Frame("readOut", "slot", p, 1))
    /\ UNCHANGED <<o, ipc, svc, dirty>>

\* finished: the slot asks for the standard output.
Finished(p) ==
    /\ proc[p].fin /\ ~proc[p].ready /\ CanDispatch
    /\ proc' = [proc EXCEPT ![p].fin = FALSE]
    /\ frames' = IF o.stop \/ o.proc # p THEN frames
                 ELSE Append(frames, Frame("readOut", "slot", p, 1))
    /\ UNCHANGED <<o, ipc, svc, dirty>>

\* Mutant: the retries are not counted.
RetryUncounted(ok) ==
    /\ WaitsAt({"readOut"})
    /\ LET f == Top
       IN  CASE ~(Alive(f) /\ o.proc = f.pid) -> Return
             [] Alive(f) /\ o.proc = f.pid /\ ok /\ proc[f.pid].busy ->
                  /\ o' = [o EXCEPT !.timer = TRUE]
                  /\ frames' = Rest
                  /\ UNCHANGED <<ipc, svc, proc, dirty>>
             [] OTHER -> FailSlot(Rest)

\* Mutant: the limit is not tested.
RetryUnlimited(ok) ==
    /\ WaitsAt({"readOut"})
    /\ LET f == Top
       IN  CASE ~(Alive(f) /\ o.proc = f.pid) -> Return
             [] Alive(f) /\ o.proc = f.pid /\ ok /\ proc[f.pid].busy ->
                  /\ o' = [o EXCEPT !.retries = @ + 1, !.timer = TRUE]
                  /\ frames' = Rest
                  /\ UNCHANGED <<ipc, svc, proc, dirty>>
             [] OTHER -> FailSlot(Rest)

\* "resource busy" is retried; any other end of tun2socks fails the object (which also
\* resets the counter of an object that is not started again).
ReplyReadOut(ok) ==
    /\ WaitsAt({"readOut"})
    /\ LET f == Top
           mine == Alive(f) /\ o.proc = f.pid
       IN  CASE ~mine -> Return
             [] mine /\ ok /\ proc[f.pid].busy /\ o.retries < MaxRetries ->
                  /\ o' = [o EXCEPT !.retries = @ + 1, !.timer = TRUE]
                  /\ frames' = Rest
                  /\ UNCHANGED <<ipc, svc, proc, dirty>>
             [] OTHER -> FailSlot(Rest)

-----------------------------------------------------------------------------
(* The service. *)

\* The reply reaches the frame that waits for it, unless that has given up.
Answer(call, ret) ==
    frames' = [i \in DOMAIN frames |->
                 IF frames[i].at = call.call /\ frames[i].obj = call.obj /\ frames[i].ret = Outstanding
                 THEN [frames[i] EXCEPT !.ret = ret] ELSE frames[i]]

\* A tun2socks process ends; the service reports it to the client that owns it.
Ended(q, busy) ==
    [q EXCEPT !.st = "exited", !.tun = FALSE, !.busy = busy, !.fin = ~q.lost]

\* The next call on the IPC socket.  deleteTun succeeds only when pkill has ended
\* whatever held the device.
Serve(ok) ==
    /\ svc.up /\ ipc # <<>>
    /\ ipc' = Tail(ipc)
    /\ LET c == Head(ipc)
       IN  /\ svc' = CASE c.call = "xrayStart" -> [svc EXCEPT !.core = @ \/ ok, !.uplink = TRUE]
                       [] c.call = "xrayStop" -> [svc EXCEPT !.core = FALSE, !.uplink = FALSE]
                       [] c.call = "updateResolvers" -> [svc EXCEPT !.dns = @ \/ ok]
                       [] c.call = "restoreResolvers" -> [svc EXCEPT !.dns = FALSE]
                       [] c.call = "createPrivilegedProcess" /\ ok /\ svc.npid < MaxProcs ->
                            [svc EXCEPT !.npid = @ + 1]
                       [] OTHER -> svc
           /\ proc' = CASE c.call = "deleteTun" /\ ok ->
                             [p \in Pids |-> IF proc[p].st = "running" THEN Ended(proc[p], FALSE)
                                                                       ELSE proc[p]]
                        [] c.call = "createPrivilegedProcess" /\ svc'.npid # svc.npid ->
                             [proc EXCEPT ![svc'.npid] = NewProcess("idle")]
                        [] OTHER -> proc
           /\ Answer(c, CASE ~ok -> 0
                          [] c.call = "createPrivilegedProcess" ->
                               IF svc'.npid # svc.npid THEN svc'.npid ELSE 0
                          [] OTHER -> 1)
    /\ UNCHANGED <<o, dirty>>

\* The next command on a process's own socket.  start() runs pkill on the program's
\* name first; whether that finds another process is up to the system (others).
ServeProcess(p, others) ==
    /\ svc.up /\ proc[p].cmds # <<>>
    /\ LET cmd == Head(proc[p].cmds)
           popped == [proc[p] EXCEPT !.cmds = Tail(@)]
       IN  proc' = [q \in Pids |->
             CASE q = p /\ cmd = "start" /\ popped.st = "idle" -> [popped EXCEPT !.st = "running"]
               [] q = p /\ cmd = "kill" /\ popped.st = "running" -> Ended(popped, FALSE)
               [] q = p /\ cmd = "kill" /\ popped.st = "idle" -> [popped EXCEPT !.st = "exited"]
               [] q # p /\ cmd = "start" /\ others /\ proc[q].st = "running" -> Ended(proc[q], FALSE)
               [] OTHER -> IF q = p THEN popped ELSE proc[q]]
    /\ UNCHANGED <<o, frames, ipc, svc, dirty>>

\* tun2socks opens the device and prints its "[STACK]" line.
TunOpens(p) ==
    /\ proc[p].st = "running" /\ ~proc[p].tun
    /\ \A q \in Pids : ~proc[q].tun
    /\ proc' = [proc EXCEPT ![p].tun = TRUE, ![p].line = TRUE, ![p].ready = ~proc[p].lost]
    /\ UNCHANGED <<o, frames, ipc, svc, dirty>>

\* tun2socks ends by itself: the device was busy, or it crashed.
TunExits(p, busy) ==
    /\ proc[p].st = "running" /\ (busy => ~proc[p].tun)
    /\ proc' = [proc EXCEPT ![p] = Ended(@, busy)]
    /\ UNCHANGED <<o, frames, ipc, svc, dirty>>

-----------------------------------------------------------------------------
(* Crashes. *)

\* The service dies with its core and its memory; tun2socks processes live on.
ServiceCrash ==
    /\ svc.up
    /\ svc' = [svc EXCEPT !.up = FALSE, !.core = FALSE, !.uplink = FALSE, !.dns = FALSE]
    /\ ipc' = <<>>
    /\ proc' = [p \in Pids |-> [proc[p] EXCEPT !.lost = @ \/ proc[p].st # "none", !.cmds = <<>>]]
    /\ o' = [o EXCEPT !.cut = TRUE]
    /\ UNCHANGED <<frames, dirty>>

\* launchd starts it again.
ServiceRestart ==
    /\ ~svc.up
    /\ svc' = [svc EXCEPT !.up = TRUE]
    /\ UNCHANGED <<o, frames, ipc, proc, dirty>>

\* The client dies; what it has sent is still served.
ClientCrash ==
    /\ ~o.stop
    /\ o' = [o EXCEPT !.stop = TRUE, !.st = "Disconnected", !.proc = 0, !.timer = FALSE]
    /\ frames' = <<>>
    /\ proc' = [p \in Pids |->
                  IF proc[p].st = "none" THEN proc[p]
                  ELSE [proc[p] EXCEPT !.lost = TRUE, !.ready = FALSE, !.fin = FALSE]]
    /\ dirty' = TRUE
    /\ UNCHANGED <<ipc, svc>>

-----------------------------------------------------------------------------
(* The specification. *)

Requests == (\E opts \in SUBSET Optional : Start(opts)) \/ StopRequest

Replies ==
    \/ ReplyXrayStart
    \/ ReplyDeleteTun
    \/ ReplyCreateProcess
    \/ ReplySetup
    \/ \E ok \in BOOLEAN : ReplyAcquire(ok) \/ ReplyReadErr(ok) \/ ReplyReadOut(ok)

Slots ==
    \/ \E p \in Pids : ReadyReadStandardError(p) \/ Finished(p)
    \/ RetryTimer

ServiceSteps ==
    \/ \E ok \in BOOLEAN : Serve(ok)
    \/ \E p \in Pids, b \in BOOLEAN : ServeProcess(p, b) \/ TunExits(p, b)
    \/ \E p \in Pids : TunOpens(p)

Crashes == ServiceCrash \/ ServiceRestart \/ ClientCrash

Next == Requests \/ Replies \/ Slots \/ ServiceSteps \/ Crashes

Spec == Init /\ [][Next]_xrayVars

-----------------------------------------------------------------------------
(* Properties. *)

TypeOK ==
    /\ o \in Objects
    /\ frames \in Seq(Frames)
    /\ ipc \in Seq([call : Calls, obj : 0..MaxObjects])
    /\ svc \in Services
    /\ proc \in [Pids -> Processes]
    /\ dirty \in BOOLEAN

\* Once a stopped object's calls are served the service is as before: no core, no
\* uplink routes, no resolvers to restore.  No slot that was waiting when stop() ran,
\* no retry timer and no reply that came after its timeout sets anything up again.
StoppedIsUndone ==
    o.stop /\ ipc = <<>> /\ ~dirty => ~svc.core /\ ~svc.uplink /\ ~svc.dns

\* A connected object is backed by its own core, resolvers and tun2socks, or the end
\* of its tun2socks is about to be noticed: nothing an earlier object sends late, on
\* either socket, takes the tunnel down silently.
ConnectedIsBacked ==
    o.st = "Connected" /\ ~o.cut =>
        /\ svc.core /\ svc.dns /\ o.proc # 0
        /\ \/ proc[o.proc].st = "running"
           \/ proc[o.proc].fin
           \/ \E i \in DOMAIN frames : frames[i].at = "readOut" /\ frames[i].obj = o.id

\* No tun2socks is forgotten: whatever runs belongs to the current object, has its
\* kill under way, or was cut off by a crash (the next deleteTun ends those).
NoForgottenProcess ==
    \A p \in Pids : proc[p].st = "running" /\ ~proc[p].lost =>
        o.proc = p \/ \E i \in DOMAIN proc[p].cmds : proc[p].cmds[i] = "kill"

\* One object never starts tun2socks more often than once and maxTun2SocksRetries
\* times again, however its slots nest.
RetriesBounded == o.starts <= MaxRetries + 1

\* The object keeps what VpnConnection relies on: ProtocolObject.
Object == INSTANCE ProtocolObject WITH id <- o.id, st <- o.st

\* Signals after stop() or after an error never reach VpnConnection.
ImplementsProtocolObject == Object!Spec
=============================================================================

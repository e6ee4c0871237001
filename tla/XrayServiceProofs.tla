------------------------- MODULE XrayServiceProofs -------------------------
(***************************************************************************)
(* Proofs of what an Xray object leaves in the service and of its          *)
(* processes, for any bounds and any nesting: StoppedIsUndone,             *)
(* NoForgottenProcess and ConnectedIsBacked.  The types and that no slot   *)
(* is of an object still to come are from XrayProtocolProofs.              *)
(***************************************************************************)
EXTENDS XrayProtocolProofs

-----------------------------------------------------------------------------
(* The invariant: the slots and the processes. *)

Idx == 1..Len(frames)

\* The slot i is to start a process of the current object.
Starts(i) == frames[i].obj = o.id /\ frames[i].at \in StartPlaces

\* The object is on the way to a start, in one slot or by its timer.
OnItsWay == o.timer \/ \E i \in Idx : Starts(i)

OneStart ==
    ~o.stop => /\ \A i, j \in Idx : Starts(i) /\ Starts(j) => i = j
               /\ o.timer => \A i \in Idx : ~Starts(i)

\* start() itself is before the first process.
FirstStart ==
    /\ \A i \in Idx : frames[i].at = "xrayStart" => frames[i].by = "start"
    /\ \A i \in Idx : ~o.stop /\ Starts(i) /\ frames[i].by = "start" => o.proc = 0

\* The slot i waits for the output of the process p, which has ended.
Reads(i, p) == frames[i].at = "readOut" /\ frames[i].pid = p

\* The end of a process is noticed once.
EndsOnce ==
    /\ \A p \in Pids : proc[p].fin \/ proc[p].busy => proc[p].st = "exited"
    /\ \A p \in Pids, i \in Idx : Reads(i, p) => proc[p].st = "exited" /\ ~proc[p].fin
    /\ \A p \in Pids, i, j \in Idx : Reads(i, p) /\ Reads(j, p) => i = j

\* An object that has a process is not on the way to another, unless that one found the
\* device busy and its end was dealt with.
OneProcess ==
    ~o.stop /\ o.proc # 0 /\ OnItsWay =>
        /\ proc[o.proc].st = "exited" /\ proc[o.proc].busy /\ ~proc[o.proc].fin
        /\ \A i \in Idx : ~Reads(i, o.proc)

\* The slot i has got the process p, which it has not started.
Got(i, p) ==
    \/ frames[i].at = "createPrivilegedProcess" /\ frames[i].ret = p
    \/ frames[i].at = "acquire" /\ frames[i].pid = p

\* Only processes that were created are known.
Given ==
    /\ o.proc <= svc.npid
    /\ \A i \in Idx : /\ frames[i].pid <= svc.npid
                      /\ frames[i].at \in {"acquire", "readErr", "readOut"} => frames[i].pid # 0
    /\ \A p \in Pids, i \in Idx : Got(i, p) => p <= svc.npid

\* A process that the object has got was not told anything yet.
Untold ==
    \A p \in Pids, i \in Idx : ~o.stop /\ frames[i].obj = o.id /\ Got(i, p) /\ ~proc[p].lost
        => proc[p].st = "idle" /\ proc[p].cmds = <<>>

Tell == <<"start">>
End == <<"kill">>
TellAndEnd == <<"start", "kill">>

\* A process is told to start and then to end, each once at most.
Commands ==
    \A p \in Pids :
        /\ proc[p].cmds \in {<<>>, Tell, End, TellAndEnd}
        /\ o.proc = p => proc[p].cmds \in {<<>>, Tell}
        /\ proc[p].cmds \in {Tell, TellAndEnd} => proc[p].st = "idle"

\* What runs or is to run is the object's or is to be ended.
Remembered ==
    \A p \in Pids :
        ~proc[p].lost /\ (proc[p].st = "running" \/ proc[p].cmds = Tell)
            => o.proc = p \/ proc[p].cmds \in {End, TellAndEnd}

\* The process p has opened the device.
Opened(p) == ~proc[p].busy /\ ((proc[p].st = "running" /\ proc[p].tun) \/ proc[p].st = "exited")

SetupPlaces == {"createTun", "updateResolvers", "enableKillSwitch", "routeAddList",
                "StopRoutingIpv6"}

\* The object is in setupRouting() or past it.
SetsUp == o.st = "Connected" \/ \E i \in Idx : frames[i].obj = o.id /\ frames[i].at \in SetupPlaces

\* The slot i waits for the "[STACK]" line of p.
HasLine(i, p) == frames[i].at = "readErr" /\ frames[i].ret = 1 /\ frames[i].pid = p

DeviceOpened ==
    /\ \A p \in Pids : proc[p].line => Opened(p)
    /\ \A i \in Idx, p \in Pids : HasLine(i, p) => Opened(p)
    /\ ~o.stop /\ SetsUp => o.proc # 0 /\ Opened(o.proc)

\* The end of the object's process is being dealt with.
Noticed == OnItsWay \/ \E i \in Idx : frames[i].obj = o.id /\ Reads(i, o.proc)

\* The end of the object's process is or will be noticed.
Watched ==
    ~o.stop /\ ~o.cut /\ o.proc # 0 =>
        /\ ~proc[o.proc].lost
        /\ Noticed \/ proc[o.proc].st \in {"idle", "running"} \/ proc[o.proc].fin

Slotted == OneStart /\ FirstStart /\ EndsOnce /\ OneProcess /\ Given /\ Untold

Tracked == Commands /\ Remembered /\ DeviceOpened /\ Watched

-----------------------------------------------------------------------------
(* The invariant: the calls and the service. *)

\* In the calls q each call of do is followed by one of undo, and so is what is done already.
Undoing(q, done, do, undo) ==
    /\ \A i \in 1..Len(q) : q[i].call = do => \E j \in 1..Len(q) : i < j /\ q[j].call = undo
    /\ done => \E j \in 1..Len(q) : q[j].call = undo

Undone ==
    o.stop /\ ~dirty => /\ Undoing(ipc, svc.core \/ svc.uplink, "xrayStart", "xrayStop")
                        /\ Undoing(ipc, svc.dns, "updateResolvers", "restoreResolvers")

Undoings == {"xrayStop", "restoreResolvers"}

\* None of the calls q undoes anything.
Harmless(q) == \A i \in 1..Len(q) : q[i].call \notin Undoings

\* Nothing that follows the object's xrayStart undoes anything.
StartLast(q, n) ==
    \A i, j \in 1..Len(q) : i < j /\ q[i].call = "xrayStart" /\ q[i].obj = n
                                => q[j].call \notin Undoings

\* The object's core was started.
Past ==
    \/ o.proc # 0 \/ o.timer
    \/ \E i \in Idx : frames[i].obj = o.id /\ (frames[i].at = "xrayStart" => frames[i].ret = 1)

CoreStarted ==
    /\ \A i \in 1..Len(ipc) : ipc[i].obj <= o.id
    /\ ~o.stop /\ ~o.cut => StartLast(ipc, o.id) /\ (Past => svc.core /\ Harmless(ipc))

\* setupRouting() is past updateResolvers().
PastResolvers ==
    \/ o.st = "Connected"
    \/ \E i \in Idx : /\ frames[i].obj = o.id
                      /\ \/ frames[i].at \in SetupPlaces \ {"createTun", "updateResolvers"}
                         \/ frames[i].at = "updateResolvers" /\ frames[i].ret = 1

ResolversSet == ~o.stop /\ ~o.cut /\ PastResolvers => svc.dns

StoppedHasEnded == o.stop => o.st # "Connected" /\ o.proc = 0

Served == Undone /\ CoreStarted /\ ResolversSet /\ StoppedHasEnded

JInv == Slotted /\ Tracked /\ Served

-----------------------------------------------------------------------------
(* The waiting slots by their places in the stack. *)

\* Every slot was there before.
FewerSlots == \A i \in Idx' : i \in Idx /\ frames'[i] = frames[i]

LEMMA TopSlot ==
    ASSUME IInv, frames # <<>>
    PROVE  /\ Len(frames) \in Idx /\ frames[Len(frames)] = Top /\ Top \in Frames
           /\ \A i \in Idx : frames[i] \in Frames
<1>1. frames \in Seq(Frames) /\ Len(frames) \in Nat
  BY CountTypes
<1>2. Len(frames) \in Idx /\ \A i \in Idx : frames[i] \in Frames
  BY <1>1 DEF Idx
<1> QED BY <1>2 DEF Top

LEMMA RestSlots ==
    ASSUME IInv, frames # <<>>, frames' = Rest
    PROVE  /\ FewerSlots
           /\ \A i \in Idx : i # Len(frames) => i \in Idx' /\ frames'[i] = frames[i]
           /\ \A i \in Idx' : i # Len(frames)
<1>1. frames \in Seq(Frames) /\ Len(frames) \in Nat
  BY CountTypes
<1> DEFINE n == Len(frames)
           m == Len(frames')
<1>2. /\ m = n - 1
      /\ \A i \in 1..m : frames'[i] = frames[i]
  BY <1>1, CountRest DEF Rest
<1>3. n \in Nat /\ n >= 1
  BY <1>1
<1>4. Idx' = 1..m /\ Idx = 1..n
  BY DEF Idx
<1> HIDE DEF n, m
<1>5. \A i \in Idx' : i \in Idx /\ frames'[i] = frames[i] /\ i # n
  BY <1>2, <1>3, <1>4
<1>6. \A i \in Idx : i # n => i \in Idx' /\ frames'[i] = frames[i]
  BY <1>2, <1>3, <1>4
<1> QED BY <1>5, <1>6 DEF FewerSlots, n

\* The slot f begins to wait.
Pushed(f) ==
    /\ \A i \in Idx : i \in Idx' /\ frames'[i] = frames[i]
    /\ \E n \in Idx' : /\ n \notin Idx /\ frames'[n] = f
                       /\ \A i \in Idx' : i \in Idx \/ i = n

LEMMA PushSlots ==
    ASSUME IInv, NEW f \in Frames, frames' = Append(frames, f)
    PROVE  Pushed(f)
<1>1. frames \in Seq(Frames) /\ Len(frames) \in Nat
  BY CountTypes
<1> DEFINE n == Len(frames) + 1
<1>2. /\ Len(frames') = n /\ frames'[n] = f
      /\ \A i \in 1..Len(frames) : frames'[i] = frames[i]
  BY <1>1
<1>3. n \in Idx' /\ n \notin Idx /\ \A i \in Idx' : i \in Idx \/ i = n
  BY <1>1, <1>2 DEF Idx
<1>4. \A i \in Idx : i \in Idx' /\ frames'[i] = frames[i]
  BY <1>1, <1>2 DEF Idx
<1> QED BY <1>2, <1>3, <1>4 DEF Pushed

\* The running slot goes on and waits as f.
GoesOn(f) ==
    LET n == Len(frames)
    IN /\ Idx' = Idx /\ n \in Idx /\ frames[n] = Top /\ frames'[n] = f
       /\ \A i \in Idx : i # n => frames'[i] = frames[i]

LEMMA GoOnSlots ==
    ASSUME IInv, frames # <<>>, NEW f \in Frames, frames' = Append(Rest, f)
    PROVE  GoesOn(f)
<1>1. frames \in Seq(Frames) /\ Len(frames) \in Nat
  BY CountTypes
<1> DEFINE n == Len(frames)
           g == Rest
<1>2. g \in Seq(Frames) /\ Len(g) = n - 1 /\ \A i \in 1..Len(g) : g[i] = frames[i]
  BY <1>1, CountRest DEF Rest
<1>3. frames' = Append(g, f)
  OBVIOUS
<1> HIDE DEF g
<1>4. /\ Len(frames') = Len(g) + 1 /\ frames'[Len(g) + 1] = f
      /\ \A i \in 1..Len(g) : frames'[i] = g[i]
  BY <1>2, <1>3
<1>5. n \in Nat /\ n >= 1
  BY <1>1
<1> HIDE DEF n
<1>6. Len(frames') = n /\ frames'[n] = f /\ \A i \in 1..n : i # n => frames'[i] = frames[i]
  BY <1>2, <1>4, <1>5
<1> QED BY <1>5, <1>6 DEF GoesOn, Idx, Top, n

-----------------------------------------------------------------------------
(* Slots and processes: steps by which no slot comes. *)

\* A process that has ended stays so, and its end is not noticed again.
Ends(p) ==
    /\ proc'[p].fin \/ proc'[p].busy => proc'[p].st = "exited"
    /\ proc[p].st = "exited" => /\ proc'[p].st = "exited" /\ proc'[p].busy = proc[p].busy
                                /\ proc'[p].fin => proc[p].fin

\* A process that was not told anything does not change.
Ignored(p) ==
    /\ ~proc'[p].lost => ~proc[p].lost
    /\ proc[p].st = "idle" /\ proc[p].cmds = <<>>
         => proc'[p].st = "idle" /\ proc'[p].cmds = <<>>

\* The object stops, or stays as it is for its slots.
ObjectKept ==
    \/ o'.stop /\ o'.proc \in {0, o.proc}
    \/ o'.id = o.id /\ o'.stop = o.stop /\ o'.proc = o.proc /\ (o'.timer => o.timer)

LEMMA ProcTypes ==
    ASSUME IInv
    PROVE  /\ o.proc \in 0..MaxProcs /\ svc.npid \in 0..MaxProcs
           /\ o.proc # 0 => o.proc \in Pids
           /\ \A p \in Pids : p \in Nat /\ p # 0 /\ p # Outstanding /\ proc[p] \in Processes
           /\ proc \in [Pids -> Processes] /\ 0 \notin Pids /\ Outstanding \notin Pids
           /\ Outstanding # 1 /\ Outstanding # 0
BY XrayBounds DEF IInv, TypeOK, Objects, Services, Pids, Outstanding

LEMMA SlottedKept ==
    ASSUME IInv, Slotted, ObjectKept, FewerSlots, svc'.npid = svc.npid,
           \A p \in Pids : Ends(p), ~o'.stop => \A p \in Pids : Ignored(p)
    PROVE  Slotted'
<1>1. OneStart' /\ FirstStart'
  BY DEF Slotted, OneStart, FirstStart, Starts, ObjectKept, FewerSlots
<1>2. EndsOnce'
  BY DEF Slotted, EndsOnce, Reads, Ends, FewerSlots
<1>3. OneProcess'
  <2> SUFFICES ASSUME ~o'.stop, o'.proc # 0, OnItsWay'
               PROVE  /\ proc'[o.proc].st = "exited" /\ proc'[o.proc].busy /\ ~proc'[o.proc].fin
                      /\ \A i \in Idx' : ~(Reads(i, o.proc)')
    BY DEF OneProcess, ObjectKept, Reads
  <2>1. ~o.stop /\ o.proc # 0 /\ OnItsWay /\ o.proc \in Pids
    BY ProcTypes DEF ObjectKept, OnItsWay, Starts, FewerSlots
  <2>2. /\ proc[o.proc].st = "exited" /\ proc[o.proc].busy /\ ~proc[o.proc].fin
        /\ \A i \in Idx : ~Reads(i, o.proc)
    BY <2>1 DEF Slotted, OneProcess
  <2> QED BY <2>1, <2>2 DEF Ends, Reads, FewerSlots, ObjectKept
<1>4. Given'
  <2>1. 0 <= svc.npid
    BY ProcTypes
  <2> QED BY <2>1 DEF Slotted, Given, Got, FewerSlots, ObjectKept
<1>5. Untold'
  BY DEF Slotted, Untold, Got, FewerSlots, ObjectKept, Ignored
<1> QED BY <1>1, <1>2, <1>3, <1>4, <1>5 DEF Slotted

-----------------------------------------------------------------------------
(* Slots and processes: the other steps. *)

\* The running slot goes on, to a start only if it was on the way to one.
LEMMA SlottedGoesOn ==
    ASSUME IInv, Slotted, NEW f, GoesOn(f), UNCHANGED <<svc, proc>>,
           o'.id = o.id, o'.stop = o.stop, o'.proc = o.proc, o'.timer = o.timer,
           f.obj = Top.obj, f.at \notin {"xrayStart", "readErr", "readOut"},
           f.at \in StartPlaces => Top.at \in StartPlaces /\ f.by = Top.by,
           f.at = "acquire" => f.pid \in Pids /\ Top.at = "createPrivilegedProcess"
                                              /\ Top.ret = f.pid,
           f.at # "acquire" => f.pid = 0 /\ f.ret = Outstanding
    PROVE  Slotted'
<1> DEFINE n == Len(frames)
<1>1. /\ Idx' = Idx /\ n \in Idx /\ frames[n] = Top /\ frames'[n] = f
      /\ \A i \in Idx : i # n => frames'[i] = frames[i]
  BY DEF GoesOn
<1> HIDE DEF n
<1>2. \A i \in Idx : Starts(i)' => Starts(i) /\ frames'[i].by = frames[i].by
  BY <1>1 DEF Starts
<1>3. \A i \in Idx, p \in Pids : Reads(i, p)' => Reads(i, p)
  BY <1>1 DEF Reads
<1>4. \A i \in Idx, p \in Pids : Got(i, p)' => Got(i, p)
  BY <1>1, ProcTypes DEF Got
<1>5. OneStart'
  BY <1>1, <1>2 DEF Slotted, OneStart
<1>6. FirstStart'
  BY <1>1, <1>2 DEF Slotted, FirstStart
<1>7. EndsOnce'
  BY <1>1, <1>3 DEF Slotted, EndsOnce
<1>8. OneProcess'
  <2> SUFFICES ASSUME ~o.stop, o.proc # 0, OnItsWay'
               PROVE  /\ proc[o.proc].st = "exited" /\ proc[o.proc].busy /\ ~proc[o.proc].fin
                      /\ \A i \in Idx' : ~(Reads(i, o.proc)')
    BY DEF OneProcess, Reads
  <2>1. OnItsWay /\ o.proc \in Pids
    BY <1>1, <1>2, ProcTypes DEF OnItsWay
  <2> QED BY <1>1, <1>3, <2>1 DEF Slotted, OneProcess
<1>9. Given'
  <2>1. 0 <= svc.npid
    BY ProcTypes
  <2>2. /\ o.proc <= svc.npid
        /\ \A i \in Idx : /\ frames[i].pid <= svc.npid
                          /\ frames[i].at \in {"acquire", "readErr", "readOut"} => frames[i].pid # 0
        /\ \A p \in Pids, i \in Idx : Got(i, p) => p <= svc.npid
    BY DEF Slotted, Given
  <2>3. f.pid <= svc.npid /\ (f.at = "acquire" => f.pid # 0)
    BY <1>1, <2>1, <2>2, ProcTypes DEF Got
  <2>4. \A i \in Idx : /\ frames'[i].pid <= svc.npid
                       /\ frames'[i].at \in {"acquire", "readErr", "readOut"} => frames'[i].pid # 0
    BY <1>1, <2>2, <2>3
  <2> QED BY <1>1, <1>4, <2>2, <2>4 DEF Given
<1>10. Untold'
  <2>1. \A i \in Idx : frames'[i].obj = frames[i].obj
    BY <1>1
  <2> QED BY <1>1, <1>4, <2>1 DEF Slotted, Untold
<1> QED BY <1>5, <1>6, <1>7, <1>8, <1>9, <1>10 DEF Slotted

\* A slot of a process's signal begins to wait for its output.
LEMMA SlottedOutput ==
    ASSUME IInv, Slotted, NEW f, Pushed(f), UNCHANGED <<o, svc>>, NEW p \in Pids,
           f.pid = p, f.at \in {"readErr", "readOut"}, o.proc = p,
           f.at = "readOut" => proc[p].fin /\ ~proc'[p].fin,
           \A q \in Pids : Ends(q) /\ Ignored(q)
    PROVE  Slotted'
<1>1. PICK n \in Idx' : n \notin Idx /\ frames'[n] = f /\ \A i \in Idx' : i \in Idx \/ i = n
  BY DEF Pushed
<1>2. \A i \in Idx : i \in Idx' /\ frames'[i] = frames[i]
  BY DEF Pushed
<1>3. \A i \in Idx' : Starts(i)' => i \in Idx /\ Starts(i)
  BY <1>1, <1>2 DEF Starts, StartPlaces
<1>4. \A i \in Idx', q \in Pids : Got(i, q)' => i \in Idx /\ Got(i, q)
  BY <1>1, <1>2 DEF Got
<1>5. OneStart' /\ FirstStart'
  BY <1>1, <1>2, <1>3 DEF Slotted, OneStart, FirstStart
<1>6. EndsOnce'
  <2>1. \A i \in Idx', q \in Pids : Reads(i, q)' => \/ i \in Idx /\ Reads(i, q)
                                                    \/ i = n /\ q = p /\ f.at = "readOut"
    BY <1>1, <1>2 DEF Reads
  <2>2. \A i \in Idx : f.at = "readOut" => ~Reads(i, p)
    BY DEF Slotted, EndsOnce
  <2>3. f.at = "readOut" => proc'[p].st = "exited" /\ ~proc'[p].fin
    BY DEF Slotted, EndsOnce, Ends
  <2> QED BY <2>1, <2>2, <2>3 DEF Slotted, EndsOnce, Ends
<1>7. OneProcess'
  <2> SUFFICES ASSUME ~o.stop, o.proc # 0, OnItsWay'
               PROVE  /\ proc'[o.proc].st = "exited" /\ proc'[o.proc].busy /\ ~proc'[o.proc].fin
                      /\ \A i \in Idx' : ~(Reads(i, o.proc)')
    BY DEF OneProcess, Reads
  <2>1. OnItsWay
    BY <1>3 DEF OnItsWay
  <2>2. /\ proc[p].st = "exited" /\ proc[p].busy /\ ~proc[p].fin
        /\ \A i \in Idx : ~Reads(i, p)
    BY <2>1 DEF Slotted, OneProcess
  <2> QED BY <1>1, <1>2, <2>2 DEF Ends, Reads
<1>8. Given'
  <2>1. p <= svc.npid /\ p # 0
    BY ProcTypes DEF Slotted, Given
  <2> QED BY <1>1, <1>2, <1>4, <2>1 DEF Slotted, Given
<1>9. Untold'
  <2>1. \A i \in Idx', q \in Pids : Got(i, q)' => frames'[i].obj = frames[i].obj
    BY <1>2, <1>4
  <2> QED BY <1>4, <2>1 DEF Slotted, Untold, Ignored
<1> QED BY <1>5, <1>6, <1>7, <1>8, <1>9 DEF Slotted

\* The retry timer's slot begins: the timer was the one way to a start.
LEMMA SlottedRetry ==
    ASSUME IInv, Slotted, NEW f, Pushed(f), UNCHANGED <<svc, proc>>,
           ~o.stop, o.timer, ~o'.timer, o'.id = o.id, o'.stop = o.stop, o'.proc = o.proc,
           f.obj = o.id, f.at = "deleteTun", f.by = "timer", f.pid = 0, f.ret = Outstanding
    PROVE  Slotted'
<1>1. PICK n \in Idx' : n \notin Idx /\ frames'[n] = f /\ \A i \in Idx' : i \in Idx \/ i = n
  BY DEF Pushed
<1>2. \A i \in Idx : i \in Idx' /\ frames'[i] = frames[i]
  BY DEF Pushed
<1>3. \A i \in Idx' : Starts(i)' => i = n
  BY <1>1, <1>2 DEF Slotted, OneStart, Starts
<1>4. \A i \in Idx', q \in Pids : Got(i, q)' => i \in Idx /\ Got(i, q)
  BY <1>1, <1>2 DEF Got
<1>5. \A i \in Idx', q \in Pids : Reads(i, q)' => i \in Idx /\ Reads(i, q)
  BY <1>1, <1>2 DEF Reads
<1>6. OneStart'
  BY <1>3 DEF OneStart
<1>7. FirstStart'
  BY <1>1, <1>2, <1>3 DEF Slotted, FirstStart
<1>8. EndsOnce'
  BY <1>5 DEF Slotted, EndsOnce
<1>9. OneProcess'
  <2>1. OnItsWay /\ (o.proc # 0 => o.proc \in Pids)
    BY ProcTypes DEF OnItsWay
  <2>2. \A i \in Idx' : o.proc # 0 => ~(Reads(i, o.proc)')
    BY <1>5, <2>1 DEF Slotted, OneProcess
  <2> QED BY <2>1, <2>2 DEF Slotted, OneProcess, Reads
<1>10. Given'
  <2>1. 0 <= svc.npid
    BY ProcTypes
  <2> QED BY <1>1, <1>2, <1>4, <2>1 DEF Slotted, Given
<1>11. Untold'
  <2>1. \A i \in Idx', q \in Pids : Got(i, q)' => frames'[i].obj = frames[i].obj
    BY <1>2, <1>4
  <2> QED BY <1>4, <2>1 DEF Slotted, Untold
<1> QED BY <1>6, <1>7, <1>8, <1>9, <1>10, <1>11 DEF Slotted

\* A busy device: the slot of the ended process arms the timer.
LEMMA SlottedArmed ==
    ASSUME IInv, Slotted, frames # <<>>, frames' = Rest, UNCHANGED <<svc, proc>>,
           ~o.stop, o'.id = o.id, o'.stop = o.stop, o'.proc = o.proc, o'.timer,
           Top.at = "readOut", o.proc = Top.pid, proc[o.proc].busy
    PROVE  Slotted'
<1> DEFINE n == Len(frames)
<1>1. n \in Idx /\ frames[n] = Top /\ \A i \in Idx' : i \in Idx /\ frames'[i] = frames[i] /\ i # n
  BY TopSlot, RestSlots DEF FewerSlots
<1> HIDE DEF n
<1>2. o.proc # 0 /\ o.proc \in Pids
  BY <1>1, ProcTypes DEF Slotted, Given
<1>3. Reads(n, o.proc)
  BY <1>1 DEF Reads
<1>4. ~OnItsWay
  BY <1>1, <1>2, <1>3 DEF Slotted, OneProcess
<1>5. OneStart' /\ FirstStart'
  BY <1>1, <1>4 DEF Slotted, OneStart, FirstStart, OnItsWay, Starts
<1>6. EndsOnce'
  BY <1>1 DEF Slotted, EndsOnce, Reads
<1>7. OneProcess'
  <2>1. proc[o.proc].st = "exited" /\ ~proc[o.proc].fin
    BY <1>1, <1>2, <1>3 DEF Slotted, EndsOnce
  <2>2. \A i \in Idx' : ~(Reads(i, o.proc)')
    BY <1>1, <1>2, <1>3 DEF Slotted, EndsOnce, Reads
  <2> QED BY <2>1, <2>2 DEF OneProcess, Reads
<1>8. Given' /\ Untold'
  BY <1>1 DEF Slotted, Given, Untold, Got
<1> QED BY <1>5, <1>6, <1>7, <1>8 DEF Slotted

\* The object takes the process that its slot has got.
LEMMA SlottedTaken ==
    ASSUME IInv, Slotted, frames # <<>>, frames' = Rest, UNCHANGED svc,
           ~o.stop, o'.id = o.id, o'.stop = o.stop, o'.timer = o.timer, NEW p \in Pids,
           o'.proc = p, Top.at = "acquire", Top.pid = p, Top.obj = o.id,
           \A q \in Pids : Ends(q)
    PROVE  Slotted' /\ ~OnItsWay'
<1> DEFINE n == Len(frames)
<1>1. n \in Idx /\ frames[n] = Top /\ \A i \in Idx' : i \in Idx /\ frames'[i] = frames[i] /\ i # n
  BY TopSlot, RestSlots DEF FewerSlots
<1> HIDE DEF n
<1>2. Starts(n)
  BY <1>1 DEF Starts, StartPlaces
<1>3. ~o.timer /\ \A i \in Idx' : ~(Starts(i)')
  BY <1>1, <1>2 DEF Slotted, OneStart, Starts
<1>4. ~OnItsWay'
  BY <1>3 DEF OnItsWay
<1>5. OneStart' /\ OneProcess'
  BY <1>3, <1>4 DEF OneStart, OneProcess
<1>6. FirstStart'
  BY <1>1, <1>3 DEF Slotted, FirstStart
<1>7. EndsOnce'
  BY <1>1 DEF Slotted, EndsOnce, Reads, Ends
<1>8. Given'
  <2>1. p <= svc.npid
    BY <1>1 DEF Slotted, Given
  <2> QED BY <1>1, <2>1 DEF Slotted, Given, Got
<1>9. Untold'
  <2>1. \A i \in Idx', q \in Pids : Got(i, q)' => frames'[i].obj # o.id
    BY <1>3 DEF Starts, Got, StartPlaces
  <2> QED BY <2>1 DEF Untold
<1> QED BY <1>4, <1>5, <1>6, <1>7, <1>8, <1>9 DEF Slotted

LEMMA SlotsOfOld == ASSUME IInv PROVE \A i \in Idx : frames[i].obj # o.id + 1
<1>1. o.id \in Nat /\ frames \in Seq(Frames)
  BY CountTypes
<1>2. \A i \in Idx : frames[i] \in Frames /\ frames[i].obj <= o.id
  BY <1>1 DEF IInv, SlotsKnown, Idx
<1>3. \A f \in Frames : f.obj \in Nat
  BY XrayBounds DEF Frames
<1> QED BY <1>1, <1>2, <1>3

\* A new object: no slot is its own but that of start().
LEMMA SlottedNew ==
    ASSUME IInv, Slotted, UNCHANGED <<svc, proc>>, o'.id = o.id + 1, ~o'.timer, o'.proc = 0,
           \/ frames' = frames
           \/ \E f : /\ Pushed(f) /\ f.at = "xrayStart" /\ f.by = "start" /\ f.obj = o.id + 1
                     /\ f.pid = 0
    PROVE  Slotted'
<1>1. \A i \in Idx : frames[i].obj # o.id + 1
  BY SlotsOfOld
<1>2. \A i \in Idx' : \/ i \in Idx /\ frames'[i] = frames[i]
                      \/ /\ i \notin Idx /\ frames'[i].at = "xrayStart" /\ frames'[i].by = "start"
                         /\ frames'[i].pid = 0
  BY DEF Pushed, Idx
<1>3. \A i, j \in Idx' : i \notin Idx /\ j \notin Idx => i = j
  BY DEF Pushed, Idx
<1>4. \A i \in Idx' : Starts(i)' => i \notin Idx
  BY <1>1, <1>2 DEF Starts
<1>5. OneStart' /\ FirstStart' /\ OneProcess'
  BY <1>2, <1>3, <1>4 DEF Slotted, OneStart, FirstStart, OneProcess
<1>6. EndsOnce'
  BY <1>2 DEF Slotted, EndsOnce, Reads
<1>7. Given'
  <2>1. 0 <= svc.npid
    BY ProcTypes
  <2> QED BY <1>2, <2>1 DEF Slotted, Given, Got
<1>8. Untold'
  BY <1>1, <1>2 DEF Untold, Got
<1> QED BY <1>5, <1>6, <1>7, <1>8 DEF Slotted

\* The reply ret to the call c has reached the slots that wait for it.
Answered(c, ret) ==
    /\ Idx' = Idx
    /\ \A i \in Idx :
         /\ frames'[i].at = frames[i].at /\ frames'[i].by = frames[i].by
         /\ frames'[i].obj = frames[i].obj /\ frames'[i].pid = frames[i].pid
         /\ \/ frames'[i].ret = frames[i].ret
            \/ /\ frames[i].at = c.call /\ frames[i].obj = c.obj
               /\ frames[i].ret = Outstanding /\ frames'[i].ret = ret

LEMMA AnswerSlots ==
    ASSUME IInv, IInv', NEW c, NEW ret, Answer(c, ret)
    PROVE  Answered(c, ret)
<1>1. frames \in Seq(Frames) /\ Len(frames) \in Nat /\ DOMAIN frames = 1..Len(frames)
      /\ \A i \in 1..Len(frames) : frames[i] \in Frames
  BY CountTypes
<1>2. frames' \in Seq(Frames)
  BY DEF IInv, TypeOK
<1>3. frames' = [i \in 1..Len(frames) |->
                   IF frames[i].at = c.call /\ frames[i].obj = c.obj /\ frames[i].ret = Outstanding
                   THEN [frames[i] EXCEPT !.ret = ret] ELSE frames[i]]
  BY <1>1 DEF Answer
<1>4. Len(frames') = Len(frames)
  BY <1>1, <1>2, <1>3
<1>5. \A i \in 1..Len(frames) :
         /\ frames'[i].at = frames[i].at /\ frames'[i].by = frames[i].by
         /\ frames'[i].obj = frames[i].obj /\ frames'[i].pid = frames[i].pid
         /\ \/ frames'[i].ret = frames[i].ret
            \/ /\ frames[i].at = c.call /\ frames[i].obj = c.obj
               /\ frames[i].ret = Outstanding /\ frames'[i].ret = ret
  BY <1>1, <1>3 DEF Frames
<1> QED BY <1>4, <1>5 DEF Answered, Idx

\* The service serves a call: it may create a process, and end some.
LEMMA SlottedServe ==
    ASSUME IInv, Slotted, UNCHANGED o, NEW c, NEW ret, Answered(c, ret),
           \/ svc'.npid = svc.npid
           \/ /\ svc'.npid = svc.npid + 1 /\ svc'.npid \in Pids
              /\ proc'[svc'.npid] = NewProcess("idle"),
           c.call = "createPrivilegedProcess"
               => ret = 0 \/ (ret = svc'.npid /\ svc'.npid # svc.npid),
           \A p \in Pids : proc'[p].fin \/ proc'[p].busy => proc'[p].st = "exited",
           \A p \in Pids : p <= svc.npid => Ends(p) /\ Ignored(p)
    PROVE  Slotted'
<1>1. /\ Idx' = Idx
      /\ \A i \in Idx : /\ frames'[i].at = frames[i].at /\ frames'[i].by = frames[i].by
                        /\ frames'[i].obj = frames[i].obj /\ frames'[i].pid = frames[i].pid
  BY DEF Answered
<1>2. svc.npid \in Nat /\ svc.npid <= svc'.npid
  BY ProcTypes
<1>3. /\ o.proc <= svc.npid
      /\ \A i \in Idx : /\ frames[i].pid <= svc.npid
                        /\ frames[i].at \in {"acquire", "readErr", "readOut"} => frames[i].pid # 0
      /\ \A p \in Pids, i \in Idx : Got(i, p) => p <= svc.npid
  BY DEF Slotted, Given
<1>4. \A i \in Idx, p \in Pids : Reads(i, p) => p <= svc.npid
  BY <1>3 DEF Reads
<1>5. \A i \in Idx, p \in Pids : Reads(i, p)' <=> Reads(i, p)
  BY <1>1 DEF Reads
<1>6. \A i \in Idx : Starts(i)' <=> Starts(i)
  BY <1>1 DEF Starts
<1>7. \A i \in Idx, p \in Pids : Got(i, p)' => \/ Got(i, p) /\ p <= svc.npid
                                               \/ p = svc'.npid /\ p # svc.npid
  <2> SUFFICES ASSUME NEW i \in Idx, NEW p \in Pids, Got(i, p)', ~Got(i, p)
               PROVE  p = svc'.npid /\ p # svc.npid
    BY <1>3
  <2>1. frames[i].at = "createPrivilegedProcess" /\ frames'[i].ret = p /\ frames[i].ret # p
    BY <1>1 DEF Got
  <2>2. c.call = "createPrivilegedProcess" /\ ret = p /\ p # 0
    BY <2>1, ProcTypes DEF Answered
  <2> QED BY <2>2
<1>8. OneStart' /\ FirstStart'
  BY <1>1, <1>6 DEF Slotted, OneStart, FirstStart
<1>9. EndsOnce'
  <2>1. \A p \in Pids, i \in Idx : Reads(i, p) => proc'[p].st = "exited" /\ ~proc'[p].fin
    BY <1>4 DEF Slotted, EndsOnce, Ends
  <2> QED BY <1>1, <1>5, <2>1 DEF Slotted, EndsOnce
<1>10. OneProcess'
  <2> SUFFICES ASSUME ~o.stop, o.proc # 0, OnItsWay'
               PROVE  /\ proc'[o.proc].st = "exited" /\ proc'[o.proc].busy /\ ~proc'[o.proc].fin
                      /\ \A i \in Idx' : ~(Reads(i, o.proc)')
    BY DEF OneProcess, Reads
  <2>1. OnItsWay /\ o.proc \in Pids
    BY <1>1, <1>6, ProcTypes DEF OnItsWay
  <2> QED BY <1>1, <1>3, <1>5, <2>1 DEF Slotted, OneProcess, Ends
<1>11. Given'
  <2>1. o.proc <= svc'.npid /\ \A i \in Idx : frames[i].pid <= svc'.npid
    <3>1. o.proc \in Nat /\ svc'.npid \in Nat /\ \A i \in Idx : frames[i].pid \in Nat
      <4>1. frames \in Seq(Frames)
        BY CountTypes
      <4>2. \A i \in Idx : frames[i] \in Frames
        BY <4>1 DEF Idx
      <4>3. \A f \in Frames : f.pid \in Nat
        BY XrayBounds DEF Frames
      <4> QED BY <1>2, <4>2, <4>3, ProcTypes
    <3> QED BY <1>2, <1>3, <3>1
  <2>2. \A i \in Idx, p \in Pids : Got(i, p)' => p <= svc'.npid
    <3>1. svc'.npid \in Nat /\ \A p \in Pids : p \in Nat
      BY <1>2, ProcTypes
    <3> QED BY <1>2, <1>7, <3>1
  <2> QED BY <1>1, <1>3, <2>1, <2>2 DEF Given
<1>12. Untold'
  <2> SUFFICES ASSUME NEW p \in Pids, NEW i \in Idx, ~o.stop, frames[i].obj = o.id,
                      Got(i, p)', ~proc'[p].lost
               PROVE  proc'[p].st = "idle" /\ proc'[p].cmds = <<>>
    BY <1>1 DEF Untold
  <2>1. CASE Got(i, p) /\ p <= svc.npid
    BY <2>1 DEF Slotted, Untold, Ignored
  <2>2. CASE p = svc'.npid /\ p # svc.npid
    BY <2>2 DEF NewProcess
  <2> QED BY <1>7, <2>1, <2>2
<1> QED BY <1>8, <1>9, <1>10, <1>11, <1>12 DEF Slotted

-----------------------------------------------------------------------------
(* The object's processes. *)

\* The slots change, the processes do not.
LEMMA TrackedSlots ==
    ASSUME IInv, Tracked, UNCHANGED proc, o'.proc = o.proc, o'.stop = o.stop, o'.cut = o.cut,
           \A i \in Idx', p \in Pids : HasLine(i, p)' => Opened(p),
           ~o.stop /\ SetsUp' => o.proc # 0 /\ Opened(o.proc),
           ~o.stop /\ o.proc # 0 /\ Noticed => Noticed'
    PROVE  Tracked'
<1>1. Commands' /\ Remembered'
  BY DEF Tracked, Commands, Remembered
<1>2. DeviceOpened'
  BY DEF Tracked, DeviceOpened, Opened
<1>3. Watched'
  BY DEF Tracked, Watched
<1> QED BY <1>1, <1>2, <1>3 DEF Tracked

\* The commands of a process are in order, and it is remembered if it is to run.
InOrder(p) ==
    /\ proc'[p].cmds \in {<<>>, Tell, End, TellAndEnd}
    /\ o.proc = p => proc'[p].cmds \in {<<>>, Tell}
    /\ proc'[p].cmds \in {Tell, TellAndEnd} => proc'[p].st = "idle"
    /\ ~proc'[p].lost /\ (proc'[p].st = "running" \/ proc'[p].cmds = Tell)
            => o.proc = p \/ proc'[p].cmds \in {End, TellAndEnd}

\* What a process p that the client knows has done, stays known.
StaysKnown(p) ==
    /\ Opened(p) => Opened(p)'
    /\ o.proc = p /\ ~proc[p].lost /\ (proc[p].st \in {"idle", "running"} \/ proc[p].fin)
         => proc'[p].st \in {"idle", "running"} \/ proc'[p].fin
    /\ proc'[p].lost = proc[p].lost

\* The processes change, and of the slots only their replies.
LEMMA TrackedProcs ==
    ASSUME IInv, Slotted, Tracked, UNCHANGED o, NEW c, NEW ret, Answered(c, ret),
           c.call # "readErr",
           \A p \in Pids : InOrder(p) /\ (proc'[p].line => Opened(p)'),
           \A p \in Pids : p <= svc.npid => StaysKnown(p)
    PROVE  Tracked'
<1>1. /\ Idx' = Idx
      /\ \A i \in Idx : /\ frames'[i].at = frames[i].at /\ frames'[i].by = frames[i].by
                        /\ frames'[i].obj = frames[i].obj /\ frames'[i].pid = frames[i].pid
                        /\ frames[i].at = "readErr" => frames'[i].ret = frames[i].ret
  BY DEF Answered
<1>2. Commands' /\ Remembered'
  BY DEF Commands, Remembered, InOrder
<1>3. o.proc # 0 => o.proc \in Pids /\ o.proc <= svc.npid
  BY ProcTypes DEF Slotted, Given
<1>4. DeviceOpened'
  <2>1. \A i \in Idx, p \in Pids : HasLine(i, p)' => HasLine(i, p) /\ p <= svc.npid
    BY <1>1 DEF Slotted, Given, HasLine
  <2>2. \A i \in Idx', p \in Pids : HasLine(i, p)' => Opened(p)'
    BY <1>1, <2>1 DEF Tracked, DeviceOpened, StaysKnown
  <2>3. SetsUp' => SetsUp
    BY <1>1 DEF SetsUp
  <2>4. ~o.stop /\ SetsUp' => o.proc # 0 /\ Opened(o.proc)'
    BY <1>3, <2>3 DEF Tracked, DeviceOpened, StaysKnown
  <2> QED BY <2>2, <2>4 DEF DeviceOpened
<1>5. Watched'
  <2>1. Noticed => Noticed'
    BY <1>1 DEF Noticed, OnItsWay, Starts, Reads
  <2> QED BY <1>3, <2>1 DEF Tracked, Watched, StaysKnown
<1> QED BY <1>2, <1>4, <1>5 DEF Tracked

LEMMA UnansweredSlots == ASSUME UNCHANGED frames, NEW c, NEW ret PROVE Answered(c, ret)
BY DEF Answered, Idx

\* Commands are appended and taken.
LEMMA CommandsAppend ==
    /\ Append(<<>>, "kill") = End /\ Append(Tell, "kill") = TellAndEnd
    /\ Append(<<>>, "start") = Tell
<1> DEFINE S == {"start", "kill"}
<1>1. \A s \in Seq(S), e \in S : /\ Append(s, e) \in Seq(S) /\ Len(Append(s, e)) = Len(s) + 1
                                 /\ \A i \in 1..Len(s) : Append(s, e)[i] = s[i]
                                 /\ Append(s, e)[Len(s) + 1] = e
  BY AppendProperties
<1>2. <<>> \in Seq(S) /\ Tell \in Seq(S) /\ End \in Seq(S) /\ TellAndEnd \in Seq(S)
      /\ "kill" \in S /\ "start" \in S
  BY DEF Tell, End, TellAndEnd
<1>3. /\ Len(<<>>) = 0 /\ Len(Tell) = 1 /\ Len(End) = 1 /\ Len(TellAndEnd) = 2
      /\ Tell[1] = "start" /\ End[1] = "kill" /\ TellAndEnd[1] = "start" /\ TellAndEnd[2] = "kill"
  BY DEF Tell, End, TellAndEnd
<1> HIDE DEF S
<1>4. \A s, t \in Seq(S) : Len(s) = Len(t) /\ (\A i \in 1..Len(s) : s[i] = t[i]) => s = t
  BY SeqEqual
<1>5. Append(<<>>, "kill") = End
  <2> DEFINE x == Append(<<>>, "kill")
  <2>1. x \in Seq(S) /\ Len(x) = 1 /\ x[1] = "kill"
    BY <1>1, <1>2, <1>3
  <2> HIDE DEF x
  <2> QED BY <1>2, <1>3, <1>4, <2>1 DEF x
<1>6. Append(<<>>, "start") = Tell
  <2> DEFINE x == Append(<<>>, "start")
  <2>1. x \in Seq(S) /\ Len(x) = 1 /\ x[1] = "start"
    BY <1>1, <1>2, <1>3
  <2> HIDE DEF x
  <2> QED BY <1>2, <1>3, <1>4, <2>1 DEF x
<1>7. Append(Tell, "kill") = TellAndEnd
  <2> DEFINE x == Append(Tell, "kill")
  <2>0. x \in Seq(S) /\ Len(x) = Len(Tell) + 1 /\ x[Len(Tell) + 1] = "kill"
        /\ \A i \in 1..Len(Tell) : x[i] = Tell[i]
    BY <1>1, <1>2
  <2> HIDE DEF x
  <2>1. x \in Seq(S) /\ Len(x) = 2 /\ x[1] = "start" /\ x[2] = "kill"
    BY <1>3, <2>0
  <2>2. \A i \in 1..2 : x[i] = TellAndEnd[i]
    <3>1. \A i \in 1..2 : i = 1 \/ i = 2
      OBVIOUS
    <3> QED BY <1>3, <2>1, <3>1
  <2> QED BY <1>2, <1>3, <1>4, <2>1, <2>2 DEF x
<1> QED BY <1>5, <1>6, <1>7

\* stop(): the process of the object is told to end, or cannot be told any more.
LEMMA TrackedStop ==
    ASSUME IInv, Slotted, Tracked, NEW final, Stop(final), ~o.stop, FewerSlots
    PROVE  Tracked' /\ (\A p \in Pids : Ends(p))
<1>1. /\ o'.stop /\ o'.proc = 0 /\ o'.id = o.id
      /\ \A p \in Pids : proc'[p] = IF p # o.proc THEN proc[p]
                                    ELSE IF svc.up THEN [proc[p] EXCEPT !.cmds = Append(@, "kill")]
                                                   ELSE [proc[p] EXCEPT !.lost = TRUE]
  BY CountTypes DEF Stop, Objects
<1>2. \A p \in Pids : proc[p] \in Processes
  BY ProcTypes
<1>3. \A p \in Pids : /\ proc'[p].st = proc[p].st /\ proc'[p].tun = proc[p].tun
                      /\ proc'[p].busy = proc[p].busy /\ proc'[p].line = proc[p].line
                      /\ proc'[p].fin = proc[p].fin
                      /\ p # o.proc => proc'[p] = proc[p]
                      /\ p = o.proc /\ svc.up => proc'[p].cmds = Append(proc[p].cmds, "kill")
                      /\ p = o.proc /\ ~svc.up => proc'[p].cmds = proc[p].cmds /\ proc'[p].lost
  <2> TAKE p \in Pids
  <2>1. CASE p # o.proc
    BY <1>1, <2>1
  <2>2. CASE p = o.proc /\ svc.up
    <3> DEFINE q == Append(proc[p].cmds, "kill")
    <3>1. proc'[p] = [proc[p] EXCEPT !.cmds = q]
      BY <1>1, <2>2
    <3> HIDE DEF q
    <3>2. proc'[p].cmds = q /\ proc'[p].st = proc[p].st /\ proc'[p].tun = proc[p].tun
          /\ proc'[p].busy = proc[p].busy /\ proc'[p].line = proc[p].line
          /\ proc'[p].fin = proc[p].fin
      BY <1>2, <3>1 DEF Processes
    <3> QED BY <2>2, <3>2 DEF q
  <2>3. CASE p = o.proc /\ ~svc.up
    <3>1. proc'[p] = [proc[p] EXCEPT !.lost = TRUE]
      BY <1>1, <2>3
    <3>2. proc'[p].lost = TRUE /\ proc'[p].cmds = proc[p].cmds
          /\ proc'[p].st = proc[p].st /\ proc'[p].tun = proc[p].tun
          /\ proc'[p].busy = proc[p].busy /\ proc'[p].line = proc[p].line
          /\ proc'[p].fin = proc[p].fin
      BY <1>2, <3>1 DEF Processes
    <3> QED BY <2>3, <3>2
  <2> QED BY <2>1, <2>2, <2>3
<1>4. Append(<<>>, "kill") = End /\ Append(Tell, "kill") = TellAndEnd
  BY CommandsAppend
<1>5. \A p \in Pids : p = o.proc /\ svc.up =>
         \/ proc[p].cmds = <<>> /\ proc'[p].cmds = End
         \/ proc[p].cmds = Tell /\ proc'[p].cmds = TellAndEnd
  BY <1>3, <1>4 DEF Tracked, Commands
<1>6. End # Tell /\ End # TellAndEnd /\ Tell # TellAndEnd /\ End # <<>> /\ Tell # <<>>
  BY DEF Tell, End, TellAndEnd
<1>7. Commands'
  <2> SUFFICES ASSUME NEW p \in Pids
               PROVE  /\ proc'[p].cmds \in {<<>>, Tell, End, TellAndEnd}
                      /\ proc'[p].cmds \in {Tell, TellAndEnd} => proc'[p].st = "idle"
    BY <1>1, ProcTypes DEF Commands
  <2>1. CASE p = o.proc /\ svc.up
    BY <1>3, <1>5, <1>6, <2>1 DEF Tracked, Commands
  <2>2. CASE ~(p = o.proc /\ svc.up)
    BY <1>3, <2>2 DEF Tracked, Commands
  <2> QED BY <2>1, <2>2
<1>8. Remembered'
  <2> SUFFICES ASSUME NEW p \in Pids, ~proc'[p].lost, proc'[p].st = "running" \/ proc'[p].cmds = Tell
               PROVE  proc'[p].cmds \in {End, TellAndEnd}
    BY DEF Remembered
  <2>1. CASE p = o.proc /\ svc.up
    BY <1>5, <2>1
  <2>2. CASE p # o.proc
    BY <1>3, <2>2 DEF Tracked, Remembered
  <2> QED BY <1>3, <2>1, <2>2
<1>9. DeviceOpened'
  <2>1. \A p \in Pids : Opened(p)' <=> Opened(p)
    BY <1>3 DEF Opened
  <2>2. \A i \in Idx', p \in Pids : HasLine(i, p)' => Opened(p)
    BY DEF FewerSlots, HasLine, Tracked, DeviceOpened
  <2> QED BY <1>1, <1>3, <2>1, <2>2 DEF Tracked, DeviceOpened
<1>10. Watched'
  BY <1>1 DEF Watched
<1>11. \A p \in Pids : Ends(p)
  BY <1>3 DEF Ends, Slotted, EndsOnce
<1> QED BY <1>7, <1>8, <1>9, <1>10, <1>11 DEF Tracked

-----------------------------------------------------------------------------
(* The calls and the service. *)

\* The calls that are sent while an object sets up: they undo and start nothing.
SetupSent(c) ==
    \/ ipc' = ipc
    \/ ~o.stop /\ c \notin Undoings \cup {"xrayStart"} /\ ipc' = Append(ipc, [call |-> c, obj |-> o.id])

LEMMA IpcTypes ==
    ASSUME IInv
    PROVE  /\ ipc \in Seq(CallRecords) /\ Len(ipc) \in Nat /\ o.id \in Nat
           /\ \A i \in 1..Len(ipc) : ipc[i].obj \in Nat
<1>1. ipc \in Seq(CallRecords)
  BY DEF IInv, TypeOK, CallRecords
<1>2. \A i \in 1..Len(ipc) : ipc[i] \in CallRecords
  BY <1>1
<1>3. \A c \in CallRecords : c.obj \in Nat
  BY XrayBounds DEF CallRecords
<1> QED BY <1>1, <1>2, <1>3, CountTypes

LEMMA AppendedCall ==
    ASSUME IInv, NEW c, c.obj \in 0..MaxObjects, c \in CallRecords, ipc' = Append(ipc, c)
    PROVE  /\ Len(ipc') = Len(ipc) + 1 /\ ipc'[Len(ipc) + 1] = c
           /\ \A i \in 1..Len(ipc) : ipc'[i] = ipc[i]
           /\ \A i \in 1..Len(ipc') : i \in 1..Len(ipc) \/ i = Len(ipc) + 1
<1>1. ipc \in Seq(CallRecords) /\ Len(ipc) \in Nat
  BY IpcTypes
<1>2. /\ Len(ipc') = Len(ipc) + 1 /\ ipc'[Len(ipc) + 1] = c
      /\ \A i \in 1..Len(ipc) : ipc'[i] = ipc[i]
  BY <1>1, AppendProperties
<1> QED BY <1>1, <1>2

\* A step of the client that neither stops nor starts the object.
LEMMA ServedClient ==
    ASSUME IInv, Served, NEW c \in Calls, SetupSent(c),
           o'.id = o.id, o'.stop = o.stop, o'.cut = o.cut, dirty' = dirty,
           svc'.core = svc.core, svc'.dns = svc.dns, svc'.uplink = svc.uplink,
           o.stop => o'.st = o.st /\ o'.proc = o.proc,
           ~o.stop => (Past' => Past) /\ (PastResolvers' => PastResolvers)
    PROVE  Served'
<1>1. Undone'
  <2> SUFFICES ASSUME o.stop PROVE Undone'
    BY DEF Undone
  <2>1. ipc' = ipc
    BY DEF SetupSent
  <2> QED BY <2>1 DEF Served, Undone, Undoing
<1>2. CoreStarted'
  <2>1. CASE ipc' = ipc
    BY <2>1 DEF Served, CoreStarted, StartLast, Harmless
  <2>2. CASE ipc' # ipc
    <3> DEFINE d == [call |-> c, obj |-> o.id]
    <3>1. ~o.stop /\ c \notin Undoings \cup {"xrayStart"} /\ ipc' = Append(ipc, d)
      BY <2>2 DEF SetupSent
    <3>2. o.id \in 0..MaxObjects
      BY CountTypes DEF Objects
    <3>3. d \in CallRecords /\ d.obj = o.id /\ d.call = c
      BY <3>2 DEF CallRecords
    <3> HIDE DEF d
    <3> DEFINE n == Len(ipc) + 1
    <3>4. /\ Len(ipc') = n /\ ipc'[n] = d
          /\ \A i \in 1..Len(ipc) : ipc'[i] = ipc[i]
          /\ \A i \in 1..Len(ipc') : i \in 1..Len(ipc) \/ i = n
      BY <3>1, <3>2, <3>3, AppendedCall
    <3>5. Len(ipc) \in Nat /\ o.id <= o.id
      BY IpcTypes
    <3>6. \A i, j \in 1..Len(ipc') : i < j => i \in 1..Len(ipc)
      BY <3>4, <3>5
    <3> HIDE DEF n
    <3>7. \A i \in 1..Len(ipc') : ipc'[i].obj <= o.id
      BY <3>3, <3>4, <3>5 DEF Served, CoreStarted
    <3>8. StartLast(ipc, o.id) => StartLast(ipc', o.id)
      BY <3>1, <3>3, <3>4, <3>6 DEF StartLast
    <3>9. Harmless(ipc) => Harmless(ipc')
      BY <3>1, <3>3, <3>4 DEF Harmless
    <3> QED BY <3>7, <3>8, <3>9 DEF Served, CoreStarted
  <2> QED BY <2>1, <2>2
<1>3. ResolversSet'
  BY DEF Served, ResolversSet
<1>4. StoppedHasEnded'
  BY DEF Served, StoppedHasEnded
<1> QED BY <1>1, <1>2, <1>3, <1>4 DEF Served

\* stop() sends what undoes every call before it.
LEMMA ServedStop ==
    ASSUME IInv, Served, NEW final \in {"Disconnected", "Error"}, Stop(final), UNCHANGED svc
    PROVE  Served'
<1>1. /\ o'.stop /\ o'.st = final /\ o'.proc = 0 /\ o'.id = o.id /\ dirty' = ~svc.up
  BY CountTypes DEF Stop, Objects
<1> DEFINE k == [i \in 1..4 |-> [call |-> StopCalls[i], obj |-> o.id]]
           m == Len(ipc)
<1>2. ipc \in Seq(CallRecords) /\ m \in Nat /\ o.id <= o.id
  BY IpcTypes
<1>3. k \in Seq(CallRecords) /\ Len(k) = 4 /\ k[3].call = "restoreResolvers" /\ k[4].call = "xrayStop"
      /\ \A i \in 1..4 : k[i].obj = o.id /\ k[i].call \notin {"xrayStart", "updateResolvers"}
  <2>1. o.id \in 0..MaxObjects
    BY CountTypes DEF Objects
  <2>2. \A i \in 1..4 : StopCalls[i] \in Calls /\ StopCalls[i] \notin {"xrayStart", "updateResolvers"}
    <3>1. \A i \in 1..4 : i = 1 \/ i = 2 \/ i = 3 \/ i = 4
      OBVIOUS
    <3> QED BY <3>1 DEF StopCalls, Calls
  <2>3. \A i \in 1..4 : /\ k[i] = [call |-> StopCalls[i], obj |-> o.id] /\ k[i] \in CallRecords
                        /\ k[i].call = StopCalls[i] /\ k[i].obj = o.id
    BY <2>1, <2>2 DEF CallRecords
  <2>4. k \in [1..4 -> CallRecords]
    BY <2>3
  <2>5. k \in Seq(CallRecords)
    BY <2>4, SeqDef
  <2>6. Len(k) = 4
    BY <2>4, <2>5
  <2> QED BY <2>2, <2>3, <2>5, <2>6 DEF StopCalls
<1>4. ipc' = IF svc.up THEN ipc \o k ELSE ipc
  BY DEF Stop
<1> HIDE DEF k
<1>5. svc.up => /\ Len(ipc') = m + 4
                /\ \A i \in 1..m : ipc'[i] = ipc[i]
                /\ \A i \in 1..4 : ipc'[m + i] = k[i]
  <2> DEFINE z == ipc \o k
  <2>1. /\ Len(z) = m + Len(k)
        /\ \A i \in 1..m + Len(k) : z[i] = IF i <= m THEN ipc[i] ELSE k[i - m]
    BY <1>2, <1>3, ConcatProperties
  <2> HIDE DEF z
  <2>2. \A i \in 1..m : i \in 1..m + Len(k) /\ i <= m
    BY <1>2, <1>3
  <2>3. \A i \in 1..4 : m + i \in 1..m + Len(k) /\ ~(m + i <= m) /\ (m + i) - m = i
    BY <1>2, <1>3
  <2>4. (\A i \in 1..m : z[i] = ipc[i]) /\ (\A i \in 1..4 : z[m + i] = k[i])
    BY <2>1, <2>2, <2>3
  <2> QED BY <1>3, <1>4, <2>1, <2>4 DEF z
<1>6. svc.up => \A i \in 1..Len(ipc') : \/ i \in 1..m /\ ipc'[i] = ipc[i]
                                        \/ /\ ipc'[i].obj = o.id
                                           /\ ipc'[i].call \notin {"xrayStart", "updateResolvers"}
  <2> SUFFICES ASSUME svc.up, NEW i \in 1..Len(ipc'), i \notin 1..m
               PROVE  /\ ipc'[i].obj = o.id
                      /\ ipc'[i].call \notin {"xrayStart", "updateResolvers"}
    BY <1>5
  <2>1. i - m \in 1..4 /\ i = m + (i - m)
    BY <1>2, <1>5
  <2>2. ipc'[i] = k[i - m]
    BY <1>5, <2>1
  <2> QED BY <1>3, <2>1, <2>2
<1>7. svc.up => /\ m + 3 \in 1..Len(ipc') /\ m + 4 \in 1..Len(ipc')
                /\ ipc'[m + 3].call = "restoreResolvers" /\ ipc'[m + 4].call = "xrayStop"
                /\ \A i \in 1..m : i < m + 3 /\ i < m + 4
  BY <1>2, <1>3, <1>5
<1> HIDE DEF m
<1>8. Undone'
  <2>1. svc.up => /\ Undoing(ipc', svc'.core \/ svc'.uplink, "xrayStart", "xrayStop")
                  /\ Undoing(ipc', svc'.dns, "updateResolvers", "restoreResolvers")
    BY <1>6, <1>7 DEF Undoing
  <2>2. CASE svc.up
    BY <2>1, <2>2 DEF Undone
  <2>3. CASE ~svc.up
    BY <1>1, <2>3 DEF Undone
  <2> QED BY <2>2, <2>3
<1>9. \A i \in 1..Len(ipc') : ipc'[i].obj <= o.id
  <2>1. CASE svc.up
    BY <1>2, <1>6, <2>1 DEF Served, CoreStarted, m
  <2>2. CASE ~svc.up
    BY <1>4, <2>2 DEF Served, CoreStarted
  <2> QED BY <2>1, <2>2
<1> QED BY <1>1, <1>8, <1>9 DEF Served, CoreStarted, ResolversSet, StoppedHasEnded

-----------------------------------------------------------------------------
(* Slots that return, fail or go on. *)

LEMMA StopKeeps ==
    ASSUME IInv, JInv, ~o.stop, NEW final \in {"Disconnected", "Error"}, Stop(final),
           UNCHANGED svc, frames' = frames \/ (frames # <<>> /\ frames' = Rest)
    PROVE  JInv'
<1>1. FewerSlots
  BY RestSlots DEF FewerSlots, Idx
<1>2. ObjectKept /\ o'.stop
  BY CountTypes DEF ObjectKept, Stop, Objects
<1>3. Tracked' /\ \A p \in Pids : Ends(p)
  BY <1>1, TrackedStop DEF JInv
<1>4. Slotted'
  BY <1>1, <1>2, <1>3, SlottedKept DEF JInv
<1>5. Served'
  BY ServedStop DEF JInv
<1> QED BY <1>3, <1>4, <1>5 DEF JInv

LEMMA FailKeeps ==
    ASSUME IInv, JInv, ~o.stop, NEW below, FailSlot(below),
           below = frames \/ (frames # <<>> /\ below = Rest)
    PROVE  JInv'
BY StopKeeps DEF FailSlot

\* A slot that returns is not the object's last word on its process.
LEMMA ReturnKeeps ==
    ASSUME IInv, JInv, frames # <<>>, Return,
           Alive(Top) => /\ ~(Top.at = "readOut" /\ Top.pid = o.proc)
                         /\ Top.at \in StartPlaces => o.proc = 0
    PROVE  JInv'
<1> DEFINE n == Len(frames)
<1>1. /\ n \in Idx /\ frames[n] = Top
      /\ \A i \in Idx' : i \in Idx /\ frames'[i] = frames[i] /\ i # n
      /\ \A i \in Idx : i # n => i \in Idx' /\ frames'[i] = frames[i]
  BY TopSlot, RestSlots DEF FewerSlots, Return
<1> HIDE DEF n
<1>2. UNCHANGED <<o, ipc, svc, proc, dirty>>
  BY DEF Return
<1>3. Slotted'
  <2>1. FewerSlots /\ ObjectKept
    BY <1>1, <1>2 DEF FewerSlots, ObjectKept
  <2>2. \A p \in Pids : Ends(p) /\ Ignored(p)
    BY <1>2 DEF JInv, Slotted, EndsOnce, Ends, Ignored
  <2> QED BY <1>2, <2>1, <2>2, SlottedKept DEF JInv
<1>4. Tracked'
  <2>1. \A i \in Idx', p \in Pids : HasLine(i, p)' => Opened(p)
    BY <1>1 DEF JInv, Tracked, DeviceOpened, HasLine
  <2>2. ~o.stop /\ SetsUp' => o.proc # 0 /\ Opened(o.proc)
    BY <1>1, <1>2 DEF JInv, Tracked, DeviceOpened, SetsUp
  <2>3. ~o.stop /\ o.proc # 0 /\ Noticed => Noticed'
    BY <1>1, <1>2 DEF Noticed, OnItsWay, Starts, Reads, Alive
  <2> QED BY <1>2, <2>1, <2>2, <2>3, TrackedSlots DEF JInv
<1>5. Served'
  <2>1. (Past' => Past) /\ (PastResolvers' => PastResolvers)
    BY <1>1, <1>2 DEF Past, PastResolvers
  <2>2. "deleteTun" \in Calls /\ SetupSent("deleteTun")
    BY <1>2 DEF Calls, SetupSent
  <2> QED BY <1>2, <2>1, <2>2, ServedClient DEF JInv
<1> QED BY <1>3, <1>4, <1>5 DEF JInv

\* startTun2Socks() fails: for start() before the first process.
LEMMA TunFailsKeeps ==
    ASSUME IInv, JInv, frames # <<>>, Alive(Top), Top.at \in StartPlaces, TunFails(Top)
    PROVE  JInv'
<1>1. CASE Top.by = "start"
  <2>1. Len(frames) \in Idx /\ Starts(Len(frames)) /\ frames[Len(frames)].by = "start"
    BY <1>1, TopSlot DEF Starts, Alive
  <2>2. o.proc = 0
    BY <2>1 DEF JInv, Slotted, FirstStart, Alive
  <2>3. Top.at # "readOut"
    BY DEF StartPlaces
  <2> QED BY <1>1, <2>2, <2>3, ReturnKeeps DEF TunFails
<1>2. CASE Top.by # "start"
  BY <1>2, FailKeeps DEF TunFails, Alive
<1> QED BY <1>1, <1>2

\* A slot that is on the way to a start stays on it, one of setupRouting() too.
LEMMA WaitsKeeps ==
    ASSUME IInv, JInv, frames # <<>>, Alive(Top), NEW call \in Calls, NEW by, NEW obj,
           obj \in {o, [o EXCEPT !.setup = TRUE], [o EXCEPT !.setup = FALSE]},
           by \in {"start", "timer", "slot"}, WaitFor(Rest, call, by, obj),
           call \notin Undoings \cup {"xrayStart"},
           call \in StartPlaces => Top.at \in StartPlaces /\ by = Top.by,
           Top.at \in StartPlaces => call \in StartPlaces,
           Top.at # "readOut", Top.at = "xrayStart" => Top.ret = 1,
           call \in SetupPlaces => o.proc # 0 /\ Opened(o.proc),
           call \in SetupPlaces \ {"createTun", "updateResolvers"} =>
               \/ Top.at \in SetupPlaces \ {"createTun", "updateResolvers"}
               \/ Top.at = "updateResolvers" /\ Top.ret = 1
    PROVE  JInv'
<1> DEFINE f == Frame(call, by, 0, Outstanding)
           n == Len(frames)
<1>1. /\ f \in Frames /\ f.obj = o.id /\ f.at = call /\ f.by = by /\ f.pid = 0
      /\ f.ret = Outstanding /\ Top.obj = o.id /\ ~o.stop
  BY WaitFacts DEF Frame, Alive
<1>2. frames' = Append(Rest, f) /\ UNCHANGED <<svc, proc, dirty>> /\ o' = obj
  BY DEF WaitFor
<1> HIDE DEF f
<1>3. /\ o'.id = o.id /\ o'.stop = o.stop /\ o'.proc = o.proc /\ o'.timer = o.timer
      /\ o'.cut = o.cut /\ o'.st = o.st
  BY <1>2, CountTypes DEF Objects
<1>4. GoesOn(f)
  BY <1>1, <1>2, GoOnSlots
<1>5. /\ Idx' = Idx /\ n \in Idx /\ frames[n] = Top /\ frames'[n] = f
      /\ \A i \in Idx : i # n => frames'[i] = frames[i]
  BY <1>4 DEF GoesOn
<1> HIDE DEF n
<1>6. call \notin {"acquire", "readErr", "readOut"}
  <2>1. {SetupCalls[i] : i \in 1..5} \subseteq SetupPlaces
    <3>1. \A i \in 1..5 : i = 1 \/ i = 2 \/ i = 3 \/ i = 4 \/ i = 5
      OBVIOUS
    <3> QED BY <3>1 DEF SetupCalls, SetupPlaces
  <2>2. {StopCalls[i] : i \in 1..4}
            \subseteq {"disableKillSwitch", "StartRoutingIpv6", "restoreResolvers", "xrayStop"}
    <3>1. \A i \in 1..4 : i = 1 \/ i = 2 \/ i = 3 \/ i = 4
      OBVIOUS
    <3> QED BY <3>1 DEF StopCalls
  <2> QED BY <2>1, <2>2 DEF Calls, SetupPlaces
<1>7. Slotted'
  BY <1>1, <1>2, <1>3, <1>4, <1>6, SlottedGoesOn DEF JInv
<1>8. Tracked'
  <2>1. \A i \in Idx', p \in Pids : HasLine(i, p)' => Opened(p)
    BY <1>1, <1>5, <1>6 DEF JInv, Tracked, DeviceOpened, HasLine
  <2>2. ~o.stop /\ SetsUp' => o.proc # 0 /\ Opened(o.proc)
    BY <1>1, <1>3, <1>5 DEF JInv, Tracked, DeviceOpened, SetsUp
  <2>3. ~o.stop /\ o.proc # 0 /\ Noticed => Noticed'
    BY <1>1, <1>3, <1>5 DEF Noticed, OnItsWay, Starts, Reads
  <2> QED BY <1>2, <1>3, <2>1, <2>2, <2>3, TrackedSlots DEF JInv
<1>9. Served'
  <2>1. Past' => Past
    BY <1>1, <1>3, <1>5 DEF Past
  <2>2. PastResolvers' => PastResolvers
    BY <1>1, <1>3, <1>5, ProcTypes DEF PastResolvers
  <2>3. SetupSent(call)
    BY <1>1 DEF SetupSent, WaitFor, Sent
  <2> QED BY <1>1, <1>2, <1>3, <2>1, <2>2, <2>3, ServedClient DEF JInv
<1> QED BY <1>7, <1>8, <1>9 DEF JInv

-----------------------------------------------------------------------------
(* The replies of start() and startTun2Socks(). *)

LEMMA ReplyXrayStartKeeps ==
    ASSUME IInv, JInv, ReplyXrayStart
    PROVE  JInv'
<1>1. frames # <<>> /\ Top.at = "xrayStart"
  BY DEF ReplyXrayStart, WaitsAt
<1>2. Len(frames) \in Idx /\ frames[Len(frames)] = Top
  BY <1>1, TopSlot
<1>3. Top.by = "start" /\ (Alive(Top) => o.proc = 0)
  <2>1. Alive(Top) => Starts(Len(frames))
    BY <1>1, <1>2 DEF Starts, StartPlaces, Alive
  <2> QED BY <1>1, <1>2, <2>1 DEF JInv, Slotted, FirstStart, Alive
<1>4. CASE Alive(Top) /\ Top.ret = 1 /\ svc.up
  <2>1. WaitFor(Rest, "deleteTun", "start", [o EXCEPT !.setup = FALSE])
    BY <1>4 DEF ReplyXrayStart
  <2>2. "deleteTun" \in Calls /\ "deleteTun" \notin SetupPlaces /\ "deleteTun" \in StartPlaces
        /\ Top.at \in StartPlaces /\ "deleteTun" \notin Undoings
    BY <1>1 DEF Calls, SetupPlaces, StartPlaces, Undoings
  <2> QED BY <1>1, <1>3, <1>4, <2>1, <2>2, WaitsKeeps
<1>5. CASE ~(Alive(Top) /\ Top.ret = 1 /\ svc.up)
  BY <1>1, <1>3, <1>5, ReturnKeeps DEF ReplyXrayStart
<1> QED BY <1>4, <1>5

LEMMA ReplyDeleteTunKeeps ==
    ASSUME IInv, JInv, ReplyDeleteTun
    PROVE  JInv'
<1>1. frames # <<>> /\ Top.at = "deleteTun" /\ Top.by \in {"start", "timer", "slot"}
      /\ Top.at \in StartPlaces
  BY TopFacts DEF ReplyDeleteTun, WaitsAt, Frames, StartPlaces
<1>2. CASE ~Alive(Top)
  BY <1>1, <1>2, ReturnKeeps DEF ReplyDeleteTun
<1>3. CASE Alive(Top) /\ (Top.ret # 1 \/ ~svc.up)
  BY <1>1, <1>3, TunFailsKeeps DEF ReplyDeleteTun
<1>4. CASE Alive(Top) /\ ~(Top.ret # 1 \/ ~svc.up)
  <2> DEFINE call == "createPrivilegedProcess"
  <2>1. WaitFor(Rest, call, Top.by, o)
    BY <1>4 DEF ReplyDeleteTun
  <2>2. call \in Calls /\ call \notin SetupPlaces /\ call \in StartPlaces /\ call # "xrayStart"
        /\ call \notin Undoings
    BY DEF Calls, SetupPlaces, StartPlaces, Undoings
  <2> QED BY <1>1, <1>4, <2>1, <2>2, WaitsKeeps
<1> QED BY <1>2, <1>3, <1>4

LEMMA ReplyCreateProcessKeeps ==
    ASSUME IInv, JInv, ReplyCreateProcess
    PROVE  JInv'
<1>1. frames # <<>> /\ Top.at = "createPrivilegedProcess" /\ Top.at \in StartPlaces
  BY DEF ReplyCreateProcess, WaitsAt, StartPlaces
<1>2. CASE Top.ret \in Pids
  <2> DEFINE f == [Top EXCEPT !.at = "acquire", !.pid = Top.ret]
             n == Len(frames)
  <2>1. frames' = Append(Rest, f) /\ UNCHANGED <<o, ipc, svc, proc, dirty>>
    BY <1>2 DEF ReplyCreateProcess
  <2>2. f \in Frames /\ f.obj = Top.obj /\ f.at = "acquire" /\ f.pid = Top.ret /\ f.by = Top.by
    <3>1. Top.ret \in 0..MaxProcs
      BY <1>2, XrayBounds DEF Pids
    <3> QED BY <1>1, <3>1, TopFacts DEF Frames
  <2> HIDE DEF f
  <2>3. GoesOn(f)
    BY <1>1, <2>1, <2>2, GoOnSlots
  <2>4. /\ Idx' = Idx /\ n \in Idx /\ frames[n] = Top /\ frames'[n] = f
        /\ \A i \in Idx : i # n => frames'[i] = frames[i]
    BY <2>3 DEF GoesOn
  <2> HIDE DEF n
  <2>5. Slotted'
    BY <1>1, <1>2, <2>1, <2>2, <2>3, SlottedGoesOn DEF JInv, StartPlaces
  <2>6. Tracked'
    <3>1. \A i \in Idx', p \in Pids : HasLine(i, p)' => Opened(p)
      BY <2>2, <2>4 DEF JInv, Tracked, DeviceOpened, HasLine
    <3>2. ~o.stop /\ SetsUp' => o.proc # 0 /\ Opened(o.proc)
      BY <2>1, <2>2, <2>4 DEF JInv, Tracked, DeviceOpened, SetsUp, SetupPlaces
    <3>3. \A i \in Idx : /\ Starts(i) => Starts(i)'
                         /\ Reads(i, o.proc) => Reads(i, o.proc)' /\ frames'[i].obj = frames[i].obj
      BY <1>1, <2>1, <2>2, <2>4 DEF Starts, StartPlaces, Reads
    <3>4. Noticed => Noticed'
      BY <2>1, <2>4, <3>3 DEF Noticed, OnItsWay
    <3> QED BY <2>1, <3>1, <3>2, <3>4, TrackedSlots DEF JInv
  <2>7. Served'
    <3>1. (Past' => Past) /\ (PastResolvers' => PastResolvers)
      <4>1. \A i \in Idx : \/ frames'[i] = frames[i]
                           \/ frames'[i].obj = frames[i].obj /\ frames[i].at # "xrayStart"
        BY <1>1, <2>2, <2>4
      <4>2. \A i \in Idx : frames'[i].at \in SetupPlaces => frames'[i] = frames[i]
        BY <2>2, <2>4 DEF SetupPlaces
      <4>3. Past' => Past
        BY <2>1, <2>4, <4>1 DEF Past
      <4>4. PastResolvers' => PastResolvers
        BY <2>1, <2>4, <4>2 DEF PastResolvers, SetupPlaces
      <4> QED BY <4>3, <4>4
    <3>2. "deleteTun" \in Calls /\ SetupSent("deleteTun")
      BY <2>1 DEF Calls, SetupSent
    <3> QED BY <2>1, <3>1, <3>2, ServedClient DEF JInv
  <2> QED BY <2>5, <2>6, <2>7 DEF JInv
<1>3. CASE Top.ret \notin Pids /\ Alive(Top)
  BY <1>1, <1>3, TunFailsKeeps DEF ReplyCreateProcess
<1>4. CASE Top.ret \notin Pids /\ ~Alive(Top)
  BY <1>1, <1>4, ReturnKeeps DEF ReplyCreateProcess
<1> QED BY <1>2, <1>3, <1>4

\* The object takes the process it has got; that is idle and was not told anything.
LEMMA TakenKeeps ==
    ASSUME IInv, JInv, frames # <<>>, Alive(Top), Top.at = "acquire", NEW p, p = Top.pid,
           ~proc[p].lost, o' = [o EXCEPT !.proc = p, !.starts = @ + 1],
           proc' = [proc EXCEPT ![p].cmds = Append(@, "start")],
           frames' = Rest, UNCHANGED <<ipc, svc, dirty>>
    PROVE  JInv'
<1> DEFINE n == Len(frames)
<1>1. /\ n \in Idx /\ frames[n] = Top
      /\ \A i \in Idx' : i \in Idx /\ frames'[i] = frames[i] /\ i # n
  BY TopSlot, RestSlots DEF FewerSlots
<1> HIDE DEF n
<1>2. /\ o'.id = o.id /\ o'.stop = o.stop /\ o'.timer = o.timer /\ o'.proc = p /\ o'.cut = o.cut
      /\ o'.st = o.st /\ ~o.stop /\ Top.obj = o.id
  BY CountTypes DEF Objects, Alive
<1>3. p \in Pids
  <2>1. p \in 0..MaxProcs /\ p # 0
    BY <1>1, TopFacts DEF JInv, Slotted, Given
  <2> QED BY <2>1, XrayBounds DEF Pids
<1>4. proc[p].st = "idle" /\ proc[p].cmds = <<>>
  BY <1>1, <1>2, <1>3 DEF JInv, Slotted, Untold, Got
<1>5. /\ \A q \in Pids : q # p => proc'[q] = proc[q]
      /\ proc'[p].cmds = Tell /\ proc'[p].st = "idle" /\ proc'[p].busy = proc[p].busy
      /\ proc'[p].fin = proc[p].fin /\ proc'[p].line = proc[p].line /\ ~proc'[p].lost
  <2>1. proc \in [Pids -> Processes] /\ proc[p] \in Processes
    BY <1>3, ProcTypes
  <2>2. Append(proc[p].cmds, "start") = Tell
    BY <1>4, CommandsAppend
  <2>3. proc'[p] = [proc[p] EXCEPT !.cmds = Tell] /\ \A q \in Pids : q # p => proc'[q] = proc[q]
    BY <1>3, <2>1, <2>2
  <2> QED BY <1>4, <2>1, <2>3 DEF Processes
<1>6. \A q \in Pids : Ends(q)
  BY <1>3, <1>4, <1>5 DEF JInv, Slotted, EndsOnce, Ends
<1>7. Slotted' /\ ~OnItsWay'
  BY <1>2, <1>3, <1>6, SlottedTaken DEF JInv
<1>8. Tracked'
  <2>1. OnItsWay
    BY <1>1, <1>2 DEF OnItsWay, Starts, StartPlaces
  <2>2. o.proc # 0 => o.proc \in Pids /\ proc[o.proc].st = "exited" /\ proc[o.proc].busy
    BY <1>2, <2>1, ProcTypes DEF JInv, Slotted, OneProcess
  <2>3. Commands'
    BY <1>2, <1>3, <1>5 DEF JInv, Tracked, Commands
  <2>4. Remembered'
    <3>1. \A q \in Pids : q = o.proc => proc[q].st # "running" /\ proc[q].cmds # Tell
      BY <2>2, ProcTypes DEF JInv, Tracked, Commands
    <3> QED BY <1>2, <1>5, <3>1 DEF JInv, Tracked, Remembered
  <2>5. ~SetsUp
    BY <1>2, <2>2 DEF JInv, Tracked, DeviceOpened, Opened
  <2>6. ~SetsUp'
    BY <1>1, <1>2, <2>5 DEF SetsUp
  <2>7. \A q \in Pids : (q # p => (Opened(q)' <=> Opened(q))) /\ ~Opened(p)
    BY <1>4, <1>5 DEF Opened
  <2>8. \A i \in Idx', q \in Pids : HasLine(i, q)' => Opened(q) /\ q # p
    BY <1>1, <2>7 DEF JInv, Tracked, DeviceOpened, HasLine
  <2>9. DeviceOpened'
    BY <1>3, <1>5, <2>6, <2>7, <2>8 DEF JInv, Tracked, DeviceOpened
  <2>10. Watched'
    BY <1>2, <1>5 DEF Watched
  <2> QED BY <2>3, <2>4, <2>9, <2>10 DEF Tracked
<1>9. Served'
  <2>1. Past /\ (PastResolvers' => PastResolvers)
    BY <1>1, <1>2 DEF Past, PastResolvers
  <2>2. "deleteTun" \in Calls /\ SetupSent("deleteTun")
    BY DEF Calls, SetupSent
  <2> QED BY <1>2, <2>1, <2>2, ServedClient DEF JInv
<1> QED BY <1>7, <1>8, <1>9 DEF JInv

LEMMA ReplyAcquireKeeps ==
    ASSUME IInv, JInv, NEW ok \in BOOLEAN, ReplyAcquire(ok)
    PROVE  JInv'
<1> DEFINE p == Top.pid
           fine == ok /\ svc.up /\ ~proc[p].lost
<1>1. frames # <<>> /\ Top.at = "acquire" /\ Top.at \in StartPlaces
  BY DEF ReplyAcquire, WaitsAt, StartPlaces
<1>2. CASE ~Alive(Top)
  BY <1>1, <1>2, ReturnKeeps DEF ReplyAcquire
<1>3. CASE Alive(Top) /\ ~fine
  BY <1>1, <1>3, TunFailsKeeps DEF ReplyAcquire
<1>4. CASE Alive(Top) /\ fine
  <2>1. /\ o' = [o EXCEPT !.proc = p, !.starts = @ + 1]
        /\ proc' = [proc EXCEPT ![p].cmds = Append(@, "start")]
        /\ frames' = Rest /\ UNCHANGED <<ipc, svc, dirty>> /\ ~proc[p].lost
    BY <1>4 DEF ReplyAcquire
  <2>2. p = Top.pid
    OBVIOUS
  <2> HIDE DEF p, fine
  <2> QED BY <1>1, <1>4, <2>1, <2>2, TakenKeeps
<1> QED BY <1>2, <1>3, <1>4

-----------------------------------------------------------------------------
(* The retry timer and the slots of the process's signals. *)

LEMMA RetryTimerKeeps ==
    ASSUME IInv, JInv, RetryTimer
    PROVE  JInv'
<1>1. o \in Objects /\ o.timer
  BY CountTypes DEF RetryTimer
<1>2. CASE o.stop
  <2>1. o' = [o EXCEPT !.timer = FALSE] /\ UNCHANGED <<frames, ipc, svc, proc, dirty>>
    BY <1>2 DEF RetryTimer
  <2>2. /\ o'.id = o.id /\ o'.stop = o.stop /\ o'.proc = o.proc /\ ~o'.timer /\ o'.cut = o.cut
        /\ o'.st = o.st
    BY <1>1, <2>1 DEF Objects
  <2>3. FewerSlots /\ ObjectKept /\ \A p \in Pids : Ends(p) /\ Ignored(p)
    BY <2>1, <2>2 DEF FewerSlots, Idx, ObjectKept, Ends, Ignored, JInv, Slotted, EndsOnce
  <2>4. Slotted'
    BY <2>1, <2>3, SlottedKept DEF JInv
  <2>5. \A i \in Idx', p \in Pids : HasLine(i, p)' => Opened(p)
    BY <2>1 DEF Idx, HasLine, JInv, Tracked, DeviceOpened
  <2>6. Tracked'
    BY <1>2, <2>1, <2>2, <2>5, TrackedSlots DEF JInv
  <2>7. "deleteTun" \in Calls /\ SetupSent("deleteTun")
    BY <2>1 DEF Calls, SetupSent
  <2>8. Served'
    BY <1>2, <2>1, <2>2, <2>7, ServedClient DEF JInv
  <2> QED BY <2>4, <2>6, <2>8 DEF JInv
<1>3. CASE ~o.stop /\ svc.up
  <2> DEFINE f == Frame("deleteTun", "timer", 0, Outstanding)
  <2>1. /\ frames' = Append(frames, f) /\ ipc' = Sent("deleteTun")
        /\ o' = [o EXCEPT !.timer = FALSE, !.setup = FALSE] /\ UNCHANGED <<svc, proc, dirty>>
    BY <1>3 DEF RetryTimer, WaitFor
  <2>2. /\ f \in Frames /\ f.obj = o.id /\ f.at = "deleteTun" /\ f.by = "timer" /\ f.pid = 0
        /\ f.ret = Outstanding
    <3>1. "deleteTun" \in Calls
      BY DEF Calls
    <3> QED BY <3>1, WaitFacts DEF Frame
  <2>3. /\ o'.id = o.id /\ o'.stop = o.stop /\ o'.proc = o.proc /\ ~o'.timer /\ o'.cut = o.cut
        /\ o'.st = o.st
    BY <1>1, <2>1 DEF Objects
  <2> HIDE DEF f
  <2>4. Pushed(f)
    BY <2>1, <2>2, PushSlots
  <2>5. Slotted'
    BY <1>1, <1>3, <2>1, <2>2, <2>3, <2>4, SlottedRetry DEF JInv
  <2>6. PICK n \in Idx' : n \notin Idx /\ frames'[n] = f /\ \A i \in Idx' : i \in Idx \/ i = n
    BY <2>4 DEF Pushed
  <2>7. \A i \in Idx : i \in Idx' /\ frames'[i] = frames[i]
    BY <2>4 DEF Pushed
  <2>8. Tracked'
    <3>1. \A i \in Idx', p \in Pids : HasLine(i, p)' => Opened(p)
      BY <2>2, <2>6, <2>7 DEF HasLine, JInv, Tracked, DeviceOpened
    <3>2. SetsUp' => SetsUp
      BY <2>2, <2>3, <2>6, <2>7 DEF SetsUp, SetupPlaces
    <3>3. Noticed'
      BY <2>2, <2>3, <2>6 DEF Noticed, OnItsWay, Starts, StartPlaces
    <3>4. ~o.stop /\ SetsUp' => o.proc # 0 /\ Opened(o.proc)
      BY <3>2 DEF JInv, Tracked, DeviceOpened
    <3> QED BY <2>1, <2>3, <3>1, <3>3, <3>4, TrackedSlots DEF JInv
  <2>9. Served'
    <3>1. Past
      BY <1>1 DEF Past
    <3>2. PastResolvers' => PastResolvers
      BY <2>2, <2>3, <2>6, <2>7 DEF PastResolvers, SetupPlaces
    <3>3. "deleteTun" \in Calls /\ SetupSent("deleteTun")
      BY <1>3, <2>1 DEF Calls, SetupSent, Sent, Undoings
    <3> QED BY <1>3, <2>1, <2>3, <3>1, <3>2, <3>3, ServedClient DEF JInv
  <2> QED BY <2>5, <2>8, <2>9 DEF JInv
<1>4. CASE ~o.stop /\ ~svc.up
  BY <1>4, FailKeeps DEF RetryTimer
<1> QED BY <1>2, <1>3, <1>4

\* Only a signal of the process q is taken.
Signalled(q) ==
    /\ proc'[q].st = proc[q].st /\ proc'[q].cmds = proc[q].cmds /\ proc'[q].tun = proc[q].tun
    /\ proc'[q].busy = proc[q].busy /\ proc'[q].lost = proc[q].lost
    /\ proc'[q].line => proc[q].line
    /\ proc'[q].fin => proc[q].fin

LEMMA TrackedSignal ==
    ASSUME IInv, Tracked, UNCHANGED o, \A q \in Pids : Signalled(q),
           \A i \in Idx', p \in Pids : HasLine(i, p)' => Opened(p),
           SetsUp' => SetsUp, Noticed => Noticed',
           ~o.stop /\ o.proc # 0 /\ proc[o.proc].fin => proc'[o.proc].fin \/ Noticed'
    PROVE  Tracked'
<1>1. Commands'
  BY DEF Tracked, Commands, Signalled
<1>2. Remembered'
  BY DEF Tracked, Remembered, Signalled
<1>3. o.proc # 0 => o.proc \in Pids
  BY ProcTypes
<1>4. DeviceOpened'
  <2>1. \A q \in Pids : Opened(q)' <=> Opened(q)
    BY DEF Opened, Signalled
  <2> QED BY <1>3, <2>1 DEF Tracked, DeviceOpened, Signalled
<1>5. Watched'
  BY <1>3 DEF Tracked, Watched, Signalled
<1> QED BY <1>1, <1>2, <1>4, <1>5 DEF Tracked

\* The slot of a signal that is not the object's any more returns at once.
LEMMA SignalIgnored ==
    ASSUME IInv, JInv, UNCHANGED <<o, frames, ipc, svc, dirty>>, \A q \in Pids : Signalled(q),
           ~o.stop /\ o.proc # 0 => proc'[o.proc].fin = proc[o.proc].fin
    PROVE  JInv'
<1>1. \A q \in Pids : Ends(q) /\ Ignored(q)
  BY DEF JInv, Slotted, EndsOnce, Ends, Ignored, Signalled
<1>2. FewerSlots /\ ObjectKept
  BY DEF FewerSlots, Idx, ObjectKept
<1>3. Slotted'
  BY <1>1, <1>2, SlottedKept DEF JInv
<1>4. Tracked'
  <2>1. \A i \in Idx', p \in Pids : HasLine(i, p)' => Opened(p)
    BY DEF JInv, Tracked, DeviceOpened, HasLine, Idx
  <2>2. (SetsUp' => SetsUp) /\ (Noticed => Noticed')
    BY DEF SetsUp, Noticed, OnItsWay, Starts, Reads, Idx
  <2> QED BY <2>1, <2>2, TrackedSignal DEF JInv
<1>5. Served'
  <2>1. (Past' => Past) /\ (PastResolvers' => PastResolvers)
    BY DEF Past, PastResolvers, Idx
  <2>2. "deleteTun" \in Calls /\ SetupSent("deleteTun")
    BY DEF Calls, SetupSent
  <2> QED BY <2>1, <2>2, ServedClient DEF JInv
<1> QED BY <1>3, <1>4, <1>5 DEF JInv

\* The slot of a signal of the object's process waits for the output.
LEMMA SignalTaken ==
    ASSUME IInv, JInv, UNCHANGED <<o, ipc, svc, dirty>>, \A q \in Pids : Signalled(q),
           NEW p \in Pids, o.proc = p, NEW f \in Frames, frames' = Append(frames, f),
           f.obj = o.id, f.pid = p, f.at \in {"readErr", "readOut"},
           f.at = "readErr" => proc'[p].fin = proc[p].fin /\ (f.ret = 1 => proc[p].line),
           f.at = "readOut" => proc[p].fin /\ ~proc'[p].fin
    PROVE  JInv'
<1>1. \A q \in Pids : Ends(q) /\ Ignored(q)
  BY DEF JInv, Slotted, EndsOnce, Ends, Ignored, Signalled
<1>2. Pushed(f)
  BY PushSlots
<1>3. Slotted'
  BY <1>1, <1>2, SlottedOutput DEF JInv
<1>4. PICK n \in Idx' : n \notin Idx /\ frames'[n] = f /\ \A i \in Idx' : i \in Idx \/ i = n
  BY <1>2 DEF Pushed
<1>5. \A i \in Idx : i \in Idx' /\ frames'[i] = frames[i]
  BY <1>2 DEF Pushed
<1>6. Tracked'
  <2>1. \A i \in Idx', q \in Pids : HasLine(i, q)' => Opened(q)
    BY DEF JInv, Tracked, DeviceOpened, HasLine, Idx, Opened
  <2>2. SetsUp' => SetsUp
    BY <1>4, <1>5 DEF SetsUp, SetupPlaces
  <2>3. Noticed => Noticed'
    BY <1>5 DEF Noticed, OnItsWay, Starts, Reads
  <2>4. f.at = "readOut" => Noticed'
    BY <1>4 DEF Noticed, Reads
  <2> QED BY <2>1, <2>2, <2>3, <2>4, TrackedSignal DEF JInv
<1>7. Served'
  <2>1. Past
    BY ProcTypes DEF Past
  <2>2. PastResolvers' => PastResolvers
    BY <1>4, <1>5 DEF PastResolvers, SetupPlaces
  <2>3. "deleteTun" \in Calls /\ SetupSent("deleteTun")
    BY DEF Calls, SetupSent
  <2> QED BY <2>1, <2>2, <2>3, ServedClient DEF JInv
<1> QED BY <1>3, <1>6, <1>7 DEF JInv

LEMMA ReadyReadKeeps ==
    ASSUME IInv, JInv, NEW p \in Pids, ReadyReadStandardError(p)
    PROVE  JInv'
<1>1. proc \in [Pids -> Processes]
  BY ProcTypes
<1>2. /\ \A q \in Pids : Signalled(q) /\ proc'[q].fin = proc[q].fin
      /\ UNCHANGED <<o, ipc, svc, dirty>>
  <2>1. \/ proc' = [proc EXCEPT ![p].ready = FALSE]
        \/ proc' = [proc EXCEPT ![p].ready = FALSE, ![p].line = FALSE]
    BY DEF ReadyReadStandardError
  <2>2. CASE proc' = [proc EXCEPT ![p].ready = FALSE]
    BY <1>1, <2>2 DEF Signalled, Processes, ReadyReadStandardError
  <2>3. CASE proc' = [proc EXCEPT ![p].ready = FALSE, ![p].line = FALSE]
    BY <1>1, <2>3 DEF Signalled, Processes, ReadyReadStandardError
  <2> QED BY <2>1, <2>2, <2>3
<1>3. CASE o.stop \/ o.setup \/ o.proc # p
  <2>1. UNCHANGED frames /\ (o.proc # 0 => o.proc \in Pids)
    BY <1>3, ProcTypes DEF ReadyReadStandardError
  <2> QED BY <1>2, <2>1, SignalIgnored
<1>4. CASE ~(o.stop \/ o.setup \/ o.proc # p)
  <2> DEFINE r == IF proc[p].line THEN 1 ELSE 0
             f == Frame("readErr", "slot", p, r)
  <2>1. frames' = Append(frames, f)
    BY <1>4 DEF ReadyReadStandardError
  <2>2. r \in 0..Outstanding /\ (r = 1 => proc[p].line)
    BY XrayBounds DEF Outstanding
  <2> HIDE DEF r
  <2>3. f \in Frames /\ f.obj = o.id /\ f.pid = p /\ f.at = "readErr" /\ f.ret = r
    <3>1. o.id \in 0..MaxObjects /\ p \in 0..MaxProcs
      BY CountTypes, XrayBounds DEF Objects, Pids
    <3> QED BY <2>2, <3>1 DEF Frame, Frames
  <2> HIDE DEF f
  <2> QED BY <1>2, <1>4, <2>1, <2>2, <2>3, SignalTaken
<1> QED BY <1>3, <1>4

LEMMA FinishedKeeps ==
    ASSUME IInv, JInv, NEW p \in Pids, Finished(p)
    PROVE  JInv'
<1>1. proc \in [Pids -> Processes] /\ proc[p].fin
  BY ProcTypes DEF Finished
<1>2. /\ \A q \in Pids : Signalled(q) /\ (q # p => proc'[q].fin = proc[q].fin)
      /\ ~proc'[p].fin /\ UNCHANGED <<o, ipc, svc, dirty>>
  <2>1. proc' = [proc EXCEPT ![p].fin = FALSE]
    BY DEF Finished
  <2>2. proc'[p] = [proc[p] EXCEPT !.fin = FALSE] /\ \A q \in Pids : q # p => proc'[q] = proc[q]
    BY <1>1, <2>1
  <2>3. Signalled(p) /\ proc'[p].fin = FALSE
    BY <1>1, <2>2 DEF Signalled, Processes
  <2>4. \A q \in Pids : q # p => Signalled(q)
    BY <2>2 DEF Signalled
  <2> QED BY <2>2, <2>3, <2>4 DEF Finished
<1>3. CASE o.stop \/ o.proc # p
  <2>1. UNCHANGED frames /\ (o.proc # 0 => o.proc \in Pids)
    BY <1>3, ProcTypes DEF Finished
  <2> QED BY <1>2, <1>3, <2>1, SignalIgnored
<1>4. CASE ~(o.stop \/ o.proc # p)
  <2> DEFINE f == Frame("readOut", "slot", p, 1)
  <2>1. frames' = Append(frames, f)
    BY <1>4 DEF Finished
  <2>2. f \in Frames /\ f.obj = o.id /\ f.pid = p /\ f.at = "readOut"
    <3>1. o.id \in 0..MaxObjects /\ p \in 0..MaxProcs /\ 1 \in 0..Outstanding
      BY CountTypes, XrayBounds DEF Objects, Pids, Outstanding
    <3> QED BY <3>1 DEF Frame, Frames
  <2> HIDE DEF f
  <2> QED BY <1>1, <1>2, <1>4, <2>1, <2>2, SignalTaken
<1> QED BY <1>3, <1>4

-----------------------------------------------------------------------------
(* setupRouting() and the end of a process. *)

LEMMA ReplyReadErrKeeps ==
    ASSUME IInv, JInv, NEW ok \in BOOLEAN, ReplyReadErr(ok)
    PROVE  JInv'
<1> DEFINE go == Alive(Top) /\ ~o.setup /\ o.proc = Top.pid /\ ok /\ Top.ret = 1
<1>1. frames # <<>> /\ Top.at = "readErr"
  BY DEF ReplyReadErr, WaitsAt
<1>2. Len(frames) \in Idx /\ frames[Len(frames)] = Top
  BY <1>1, TopSlot
<1>3. CASE ~go
  <2>1. Top.at \notin StartPlaces
    BY <1>1 DEF StartPlaces
  <2> QED BY <1>1, <1>3, <2>1, ReturnKeeps DEF ReplyReadErr
<1>4. CASE go /\ svc.up
  <2>1. WaitFor(Rest, "createTun", "slot", [o EXCEPT !.setup = TRUE])
    BY <1>4 DEF ReplyReadErr
  <2>2. "createTun" \in Calls /\ "createTun" \notin StartPlaces /\ Top.at \notin StartPlaces
        /\ "createTun" \notin Undoings
    <3>1. SetupCalls[1] = "createTun"
      BY DEF SetupCalls
    <3> QED BY <1>1, <3>1 DEF Calls, StartPlaces, Undoings
  <2>3. o.proc # 0 /\ o.proc \in Pids
    BY <1>1, <1>2, <1>4, ProcTypes DEF JInv, Slotted, Given
  <2>4. HasLine(Len(frames), o.proc)
    BY <1>1, <1>2, <1>4 DEF HasLine
  <2>5. Opened(o.proc)
    BY <1>2, <2>3, <2>4 DEF JInv, Tracked, DeviceOpened
  <2> QED BY <1>1, <1>4, <2>1, <2>2, <2>3, <2>5, WaitsKeeps
<1>5. CASE go /\ ~svc.up
  BY <1>1, <1>5, FailKeeps DEF ReplyReadErr, Alive
<1> QED BY <1>3, <1>4, <1>5

\* The order of the calls of setupRouting(): updateResolvers() is the second and the last
\* is StopRoutingIpv6().
LEMMA SetupOrder ==
    ASSUME NEW k \in 1..5
    PROVE  /\ SetupIndex(SetupCalls[k]) = k
           /\ SetupFrom(k + 1) # {} => FirstSetup(k + 1) \in SetupPlaces
           /\ k = 1 => FirstSetup(k + 1) = "updateResolvers"
           /\ SetupFrom(k + 1) = {} => k = 5
<1>1. \A i, j \in 1..5 : SetupCalls[i] = SetupCalls[j] => i = j
  <2>1. \A i \in 1..5 : i = 1 \/ i = 2 \/ i = 3 \/ i = 4 \/ i = 5
    OBVIOUS
  <2> QED BY <2>1 DEF SetupCalls
<1>2. SetupIndex(SetupCalls[k]) = k
  BY <1>1 DEF SetupIndex
<1>3. k + 1 \in Nat /\ k + 1 >= 1
  OBVIOUS
<1>4. SetupFrom(k + 1) # {} => FirstSetup(k + 1) \in SetupPlaces
  <2> SUFFICES ASSUME SetupFrom(k + 1) # {} PROVE FirstSetup(k + 1) \in SetupPlaces
    OBVIOUS
  <2> DEFINE S == SetupFrom(k + 1)
             m == CHOOSE j \in S : \A l \in S : j <= l
  <2>1. S \subseteq 1..5 /\ S # {}
    BY DEF SetupFrom
  <2>2. \E j \in S : \A l \in S : j <= l
    BY <2>1, LeastSetup
  <2>3. m \in 1..5 /\ FirstSetup(k + 1) = SetupCalls[m]
    BY <2>1, <2>2 DEF FirstSetup
  <2> HIDE DEF m, S
  <2> QED BY <2>3 DEF SetupCalls, SetupPlaces
<1>5. k = 1 => FirstSetup(k + 1) = "updateResolvers"
  <2> SUFFICES ASSUME k = 1 PROVE FirstSetup(2) = "updateResolvers"
    BY DEF FirstSetup, SetupFrom
  <2>1. 2 \in SetupFrom(2) /\ \A j \in SetupFrom(2) : j \in Nat /\ 2 <= j
    BY DEF SetupFrom, SetupCalls, Optional
  <2>2. (CHOOSE j \in SetupFrom(2) : \A l \in SetupFrom(2) : j <= l) = 2
    BY <2>1
  <2>3. FirstSetup(2) = SetupCalls[2] /\ SetupCalls[2] = "updateResolvers"
    BY <2>2 DEF FirstSetup, SetupCalls
  <2> QED BY <2>3
<1>6. k # 5 => 5 \in SetupFrom(k + 1)
  BY DEF SetupFrom, SetupCalls, Optional
<1> QED BY <1>2, <1>4, <1>5, <1>6

LEMMA ReplySetupKeeps ==
    ASSUME IInv, JInv, ReplySetup
    PROVE  JInv'
<1>1. frames # <<>> /\ Top.at \in {SetupCalls[i] : i \in 1..5}
  BY DEF ReplySetup, WaitsAt
<1>2. PICK k \in 1..5 : Top.at = SetupCalls[k]
  BY <1>1
<1>3. Top.at \in SetupPlaces /\ (k = 1 <=> Top.at = "createTun") /\ (k = 2 <=> Top.at = "updateResolvers")
      /\ Top.at # "readOut" /\ Top.at \notin StartPlaces
  BY <1>2 DEF SetupCalls, SetupPlaces, StartPlaces
<1>4. SetupIndex(Top.at) + 1 = k + 1
  BY <1>2, SetupOrder
<1>5. Len(frames) \in Idx /\ frames[Len(frames)] = Top
  BY <1>1, TopSlot
<1>6. CASE ~Alive(Top)
  BY <1>1, <1>6, ReturnKeeps DEF ReplySetup
<1>7. CASE Alive(Top) /\ Top.ret # 1
  BY <1>1, <1>7, FailKeeps DEF ReplySetup, Alive
<1>8. Alive(Top) => ~o.stop /\ SetsUp /\ o.proc # 0 /\ Opened(o.proc)
  <2>1. Alive(Top) => ~o.stop /\ SetsUp
    BY <1>3, <1>5 DEF SetsUp, Alive
  <2> QED BY <2>1 DEF JInv, Tracked, DeviceOpened
<1>9. CASE Alive(Top) /\ Top.ret = 1 /\ SetupFrom(k + 1) # {}
  <2> DEFINE call == FirstSetup(k + 1)
  <2>1. WaitFor(Rest, call, "slot", o)
    BY <1>4, <1>9 DEF ReplySetup
  <2>2. call \in SetupPlaces /\ (k = 1 => call = "updateResolvers")
    BY <1>9, SetupOrder
  <2>3. k + 1 \in Nat /\ k + 1 >= 1
    OBVIOUS
  <2>4. call \in Calls
    BY <1>9, <2>3, SetupNext
  <2> HIDE DEF call
  <2>5. call \notin StartPlaces /\ call \notin Undoings /\ call # "xrayStart"
    BY <2>2 DEF SetupPlaces, StartPlaces, Undoings
  <2> QED BY <1>1, <1>3, <1>8, <1>9, <2>1, <2>2, <2>4, <2>5, WaitsKeeps
<1>10. CASE Alive(Top) /\ Top.ret = 1 /\ SetupFrom(k + 1) = {}
  <2> DEFINE n == Len(frames)
  <2>1. o' = [o EXCEPT !.st = "Connected"] /\ frames' = Rest /\ UNCHANGED <<ipc, svc, proc, dirty>>
    BY <1>4, <1>10 DEF ReplySetup
  <2>2. /\ o'.id = o.id /\ o'.stop = o.stop /\ o'.proc = o.proc /\ o'.timer = o.timer
        /\ o'.cut = o.cut /\ ~o.stop
    BY <1>8, <1>10, <2>1, CountTypes DEF Objects
  <2>3. /\ n \in Idx /\ frames[n] = Top
        /\ \A i \in Idx' : i \in Idx /\ frames'[i] = frames[i] /\ i # n
        /\ \A i \in Idx : i # n => i \in Idx' /\ frames'[i] = frames[i]
    BY <1>1, <2>1, TopSlot, RestSlots DEF FewerSlots
  <2> HIDE DEF n
  <2>4. Slotted'
    <3>1. FewerSlots /\ ObjectKept
      BY <2>2, <2>3 DEF FewerSlots, ObjectKept
    <3>2. \A p \in Pids : Ends(p) /\ Ignored(p)
      BY <2>1 DEF JInv, Slotted, EndsOnce, Ends, Ignored
    <3> QED BY <2>1, <3>1, <3>2, SlottedKept DEF JInv
  <2>5. Tracked'
    <3>1. \A i \in Idx', p \in Pids : HasLine(i, p)' => Opened(p)
      BY <2>3 DEF JInv, Tracked, DeviceOpened, HasLine
    <3>2. Noticed => Noticed'
      BY <1>3, <2>2, <2>3 DEF Noticed, OnItsWay, Starts, Reads
    <3> QED BY <1>8, <1>10, <2>1, <2>2, <3>1, <3>2, TrackedSlots DEF JInv
  <2>6. Served'
    <3>1. PastResolvers
      <4>1. k # 1 /\ k # 2
        BY <1>10, SetupOrder
      <4> QED BY <1>3, <1>10, <2>3, <4>1 DEF PastResolvers, Alive
    <3>2. Past' => Past
      BY <2>2, <2>3 DEF Past
    <3>3. "deleteTun" \in Calls /\ SetupSent("deleteTun")
      BY <2>1 DEF Calls, SetupSent
    <3> QED BY <2>1, <2>2, <3>1, <3>2, <3>3, ServedClient DEF JInv
  <2> QED BY <2>4, <2>5, <2>6 DEF JInv
<1> QED BY <1>6, <1>7, <1>9, <1>10

LEMMA ReplyReadOutKeeps ==
    ASSUME IInv, JInv, NEW ok \in BOOLEAN, ReplyReadOut(ok)
    PROVE  JInv'
<1> DEFINE mine == Alive(Top) /\ o.proc = Top.pid
           again == ok /\ proc[Top.pid].busy /\ o.retries < MaxRetries
<1>1. frames # <<>> /\ Top.at = "readOut" /\ Top.at \notin StartPlaces
  BY DEF ReplyReadOut, WaitsAt, StartPlaces
<1>2. CASE ~mine
  BY <1>1, <1>2, ReturnKeeps DEF ReplyReadOut
<1>3. CASE mine /\ again
  <2> DEFINE n == Len(frames)
  <2>1. /\ o' = [o EXCEPT !.retries = @ + 1, !.timer = TRUE] /\ frames' = Rest
        /\ UNCHANGED <<ipc, svc, proc, dirty>>
    BY <1>3 DEF ReplyReadOut
  <2>2. /\ o'.id = o.id /\ o'.stop = o.stop /\ o'.proc = o.proc /\ o'.timer = TRUE
        /\ o'.cut = o.cut /\ o'.st = o.st /\ ~o.stop
    BY <1>3, <2>1, CountTypes DEF Objects, Alive
  <2>3. /\ n \in Idx /\ frames[n] = Top
        /\ \A i \in Idx' : i \in Idx /\ frames'[i] = frames[i] /\ i # n
    BY <1>1, <2>1, TopSlot, RestSlots DEF FewerSlots
  <2> HIDE DEF n
  <2>4. Slotted'
    BY <1>1, <1>3, <2>1, <2>2, SlottedArmed DEF JInv
  <2>5. Tracked'
    <3>1. \A i \in Idx', p \in Pids : HasLine(i, p)' => Opened(p)
      BY <2>3 DEF JInv, Tracked, DeviceOpened, HasLine
    <3>2. Noticed'
      BY <2>2 DEF Noticed, OnItsWay
    <3>3. SetsUp' => SetsUp
      BY <2>2, <2>3 DEF SetsUp
    <3>4. ~o.stop /\ SetsUp' => o.proc # 0 /\ Opened(o.proc)
      BY <3>3 DEF JInv, Tracked, DeviceOpened
    <3> QED BY <2>1, <2>2, <3>1, <3>2, <3>4, TrackedSlots DEF JInv
  <2>6. Served'
    <3>1. Past
      BY <1>1, <1>3, <2>3 DEF Past, Alive
    <3>2. PastResolvers' => PastResolvers
      BY <2>2, <2>3 DEF PastResolvers
    <3>3. "deleteTun" \in Calls /\ SetupSent("deleteTun")
      BY <2>1 DEF Calls, SetupSent
    <3> QED BY <2>1, <2>2, <3>1, <3>2, <3>3, ServedClient DEF JInv
  <2> QED BY <2>4, <2>5, <2>6 DEF JInv
<1>4. CASE mine /\ ~again
  BY <1>1, <1>4, FailKeeps DEF ReplyReadOut, Alive
<1> QED BY <1>2, <1>3, <1>4

-----------------------------------------------------------------------------
(* The processes by themselves. *)

\* A running process ends.
EndedAs(p, busy) ==
    /\ proc'[p].st = "exited" /\ proc'[p].busy = busy /\ proc'[p].fin = ~proc[p].lost
    /\ proc'[p].lost = proc[p].lost /\ proc'[p].line = proc[p].line

\* What a step of the process p, or the service's on it, keeps of the invariant.
Follows(p) == Ends(p) /\ Ignored(p) /\ InOrder(p) /\ StaysKnown(p) /\ (proc'[p].line => Opened(p)')

LEMMA SameFollows ==
    ASSUME JInv, NEW p \in Pids, proc'[p] = proc[p]
    PROVE  Follows(p)
<1>1. Ends(p) /\ Ignored(p)
  BY DEF JInv, Slotted, EndsOnce, Ends, Ignored
<1>2. InOrder(p)
  BY DEF JInv, Tracked, Commands, Remembered, InOrder
<1>3. StaysKnown(p) /\ (proc'[p].line => Opened(p)')
  BY DEF JInv, Tracked, DeviceOpened, StaysKnown, Opened
<1> QED BY <1>1, <1>2, <1>3 DEF Follows

LEMMA EndFollows ==
    ASSUME IInv, JInv, NEW p \in Pids, proc[p].st = "running", NEW busy \in BOOLEAN,
           busy => ~proc[p].tun, EndedAs(p, busy),
           \/ proc'[p].cmds = proc[p].cmds
           \/ proc'[p].cmds = <<>>
    PROVE  Follows(p)
<1>1. Ends(p) /\ Ignored(p)
  BY DEF EndedAs, Ends, Ignored
<1>2. InOrder(p)
  <2>1. proc[p].cmds \in {<<>>, End} /\ (o.proc = p => proc[p].cmds = <<>>)
    BY DEF JInv, Tracked, Commands
  <2>2. <<>> \notin {Tell, TellAndEnd} /\ End \notin {Tell, TellAndEnd}
    BY DEF Tell, End, TellAndEnd
  <2> QED BY <2>1, <2>2 DEF InOrder, EndedAs
<1>3. StaysKnown(p)
  BY DEF StaysKnown, EndedAs, Opened
<1>4. proc'[p].line => Opened(p)'
  BY <1>3 DEF JInv, Tracked, DeviceOpened, StaysKnown, EndedAs
<1> QED BY <1>1, <1>2, <1>3, <1>4 DEF Follows

LEMMA EndedFields ==
    ASSUME NEW q \in Processes, NEW busy \in BOOLEAN
    PROVE  /\ Ended(q, busy).st = "exited" /\ Ended(q, busy).tun = FALSE
           /\ Ended(q, busy).busy = busy /\ Ended(q, busy).fin = ~q.lost
           /\ Ended(q, busy).lost = q.lost /\ Ended(q, busy).line = q.line
           /\ Ended(q, busy).cmds = q.cmds
BY DEF Ended, Processes

LEMMA ProcessesKeep ==
    ASSUME IInv, JInv, UNCHANGED <<o, frames, ipc, dirty>>,
           svc'.npid = svc.npid, svc'.core = svc.core, svc'.uplink = svc.uplink,
           svc'.dns = svc.dns, \A p \in Pids : Follows(p)
    PROVE  JInv'
<1>1. Slotted'
  <2>1. FewerSlots /\ ObjectKept /\ \A p \in Pids : Ends(p) /\ Ignored(p)
    BY DEF FewerSlots, Idx, ObjectKept, Follows
  <2> QED BY <2>1, SlottedKept DEF JInv
<1>2. Tracked'
  <2> DEFINE c == [call |-> "deleteTun"]
  <2>1. Answered(c, 0) /\ c.call # "readErr"
    BY UnansweredSlots
  <2> HIDE DEF c
  <2>2. \A p \in Pids : InOrder(p) /\ (proc'[p].line => Opened(p)') /\ StaysKnown(p)
    BY DEF Follows
  <2> QED BY <2>1, <2>2, TrackedProcs DEF JInv
<1>3. Served'
  <2>1. (Past' => Past) /\ (PastResolvers' => PastResolvers)
    BY DEF Past, PastResolvers, Idx
  <2>2. "deleteTun" \in Calls /\ SetupSent("deleteTun")
    BY DEF Calls, SetupSent
  <2> QED BY <2>1, <2>2, ServedClient DEF JInv
<1> QED BY <1>1, <1>2, <1>3 DEF JInv

LEMMA TunOpensKeeps ==
    ASSUME IInv, JInv, NEW p \in Pids, TunOpens(p)
    PROVE  JInv'
<1>1. proc \in [Pids -> Processes] /\ proc[p].st = "running" /\ UNCHANGED <<o, frames, ipc, svc, dirty>>
  BY ProcTypes DEF TunOpens
<1>2. /\ \A q \in Pids : q # p => proc'[q] = proc[q]
      /\ proc'[p] = [proc[p] EXCEPT !.tun = TRUE, !.line = TRUE, !.ready = ~proc[p].lost]
  BY <1>1 DEF TunOpens
<1>3. /\ proc'[p].st = "running" /\ proc'[p].tun = TRUE /\ proc'[p].busy = proc[p].busy
      /\ proc'[p].fin = proc[p].fin /\ proc'[p].lost = proc[p].lost /\ proc'[p].cmds = proc[p].cmds
  BY <1>1, <1>2 DEF Processes
<1>4. ~proc[p].busy /\ ~proc[p].fin
  BY <1>1 DEF JInv, Slotted, EndsOnce
<1>5. Ends(p) /\ Ignored(p) /\ StaysKnown(p) /\ Opened(p)'
  BY <1>1, <1>3, <1>4 DEF Ends, Ignored, StaysKnown, Opened
<1>6. InOrder(p)
  BY <1>1, <1>3 DEF JInv, Tracked, Commands, Remembered, InOrder
<1>7. \A q \in Pids : Follows(q)
  BY <1>2, <1>5, <1>6, SameFollows DEF Follows
<1> QED BY <1>1, <1>7, ProcessesKeep

LEMMA TunExitsKeeps ==
    ASSUME IInv, JInv, NEW p \in Pids, NEW busy \in BOOLEAN, TunExits(p, busy)
    PROVE  JInv'
<1>1. /\ proc \in [Pids -> Processes] /\ proc[p].st = "running" /\ (busy => ~proc[p].tun)
      /\ UNCHANGED <<o, frames, ipc, svc, dirty>>
  BY ProcTypes DEF TunExits
<1>2. proc'[p] = Ended(proc[p], busy) /\ \A q \in Pids : q # p => proc'[q] = proc[q]
  BY <1>1 DEF TunExits
<1>3. EndedAs(p, busy) /\ proc'[p].cmds = proc[p].cmds
  <2> DEFINE e == Ended(proc[p], busy)
  <2>1. proc[p] \in Processes
    BY <1>1
  <2>2. /\ e.st = "exited" /\ e.busy = busy /\ e.fin = ~proc[p].lost
        /\ e.lost = proc[p].lost /\ e.line = proc[p].line /\ e.cmds = proc[p].cmds
    BY <2>1, EndedFields
  <2>3. proc'[p] = e
    BY <1>2
  <2> HIDE DEF e
  <2> QED BY <2>2, <2>3, Zenon DEF EndedAs
<1>4. \A q \in Pids : Follows(q)
  BY <1>1, <1>2, <1>3, EndFollows, SameFollows
<1> QED BY <1>1, <1>4, ProcessesKeep

LEMMA CommandsTaken ==
    /\ Head(Tell) = "start" /\ Tail(Tell) = <<>>
    /\ Head(End) = "kill" /\ Tail(End) = <<>>
    /\ Head(TellAndEnd) = "start" /\ Tail(TellAndEnd) = End
    /\ <<>> # Tell /\ <<>> # TellAndEnd /\ End # Tell /\ End # TellAndEnd /\ Tell # TellAndEnd
    /\ <<>> # End
BY DEF Tell, End, TellAndEnd

\* The command that a process takes is what the object meant for it.
LEMMA ServeProcessKeeps ==
    ASSUME IInv, JInv, NEW p \in Pids, NEW others \in BOOLEAN, ServeProcess(p, others)
    PROVE  JInv'
<1> DEFINE cmd == Head(proc[p].cmds)
           rest == Tail(proc[p].cmds)
           popped == [proc[p] EXCEPT !.cmds = rest]
<1>1. /\ proc \in [Pids -> Processes] /\ proc[p].cmds # <<>>
      /\ UNCHANGED <<o, frames, ipc, svc, dirty>>
  BY ProcTypes DEF ServeProcess
<1>2. proc[p].cmds \in {Tell, End, TellAndEnd}
  BY <1>1 DEF JInv, Tracked, Commands
<1>3. \/ proc[p].cmds = Tell /\ cmd = "start" /\ rest = <<>>
      \/ proc[p].cmds = End /\ cmd = "kill" /\ rest = <<>>
      \/ proc[p].cmds = TellAndEnd /\ cmd = "start" /\ rest = End
  BY <1>2, CommandsTaken
<1>4. \A q \in Pids : proc'[q] =
          CASE q = p /\ cmd = "start" /\ popped.st = "idle" -> [popped EXCEPT !.st = "running"]
            [] q = p /\ cmd = "kill" /\ popped.st = "running" -> Ended(popped, FALSE)
            [] q = p /\ cmd = "kill" /\ popped.st = "idle" -> [popped EXCEPT !.st = "exited"]
            [] q # p /\ cmd = "start" /\ others /\ proc[q].st = "running" -> Ended(proc[q], FALSE)
            [] OTHER -> IF q = p THEN popped ELSE proc[q]
  BY DEF ServeProcess
<1> HIDE DEF rest
<1>5. popped \in Processes /\ popped.cmds = rest /\ popped.st = proc[p].st
      /\ popped.tun = proc[p].tun /\ popped.line = proc[p].line /\ popped.busy = proc[p].busy
      /\ popped.fin = proc[p].fin /\ popped.lost = proc[p].lost
  <2>1. rest \in Seq({"start", "kill"}) /\ proc[p] \in Processes
    <3>1. <<>> \in Seq({"start", "kill"}) /\ End \in Seq({"start", "kill"})
      BY DEF End
    <3> QED BY <1>1, <1>3, <3>1
  <2> QED BY <2>1 DEF Processes
<1> HIDE DEF popped, cmd
<1>6. \A q \in Pids : q # p => Follows(q)
  <2> SUFFICES ASSUME NEW q \in Pids, q # p PROVE Follows(q)
    OBVIOUS
  <2>1. CASE proc'[q] = proc[q]
    BY <2>1, SameFollows
  <2>2. CASE proc'[q] # proc[q]
    <3> DEFINE e == Ended(proc[q], FALSE)
    <3>1. proc'[q] = e /\ proc[q].st = "running" /\ proc[q] \in Processes
      BY <1>1, <1>4, <2>2
    <3>2. /\ e.st = "exited" /\ e.busy = FALSE /\ e.fin = ~proc[q].lost
          /\ e.lost = proc[q].lost /\ e.line = proc[q].line /\ e.cmds = proc[q].cmds
      BY <3>1, EndedFields
    <3> HIDE DEF e
    <3>3. EndedAs(q, FALSE) /\ proc'[q].cmds = proc[q].cmds
      BY <3>1, <3>2, Zenon DEF EndedAs
    <3> QED BY <3>1, <3>3, EndFollows
  <2> QED BY <2>1, <2>2
<1>7. Follows(p)
  <2>1. CASE cmd = "start"
    <3>1. proc[p].cmds \in {Tell, TellAndEnd} /\ proc[p].st = "idle"
      BY <1>3, <2>1 DEF JInv, Tracked, Commands
    <3>2. proc'[p] = [popped EXCEPT !.st = "running"]
      BY <1>4, <1>5, <2>1, <3>1
    <3>3. /\ proc'[p].st = "running" /\ proc'[p].cmds = rest /\ proc'[p].lost = proc[p].lost
          /\ proc'[p].busy = proc[p].busy /\ proc'[p].fin = proc[p].fin /\ proc'[p].line = proc[p].line
      BY <1>5, <3>2 DEF Processes
    <3>4. ~proc[p].busy /\ ~proc[p].fin
      BY <3>1 DEF JInv, Slotted, EndsOnce
    <3>5. ~Opened(p)
      BY <3>1 DEF Opened
    <3>6. ~proc[p].line
      BY <3>5 DEF JInv, Tracked, DeviceOpened
    <3>7. InOrder(p)
      <4>1. proc[p].cmds = Tell /\ ~proc[p].lost => o.proc = p
        BY CommandsTaken DEF JInv, Tracked, Remembered
      <4>2. o.proc = p => proc[p].cmds = Tell
        BY <3>1, CommandsTaken DEF JInv, Tracked, Commands
      <4>3. (proc[p].cmds = Tell /\ rest = <<>>) \/ (proc[p].cmds = TellAndEnd /\ rest = End)
        BY <1>3, <3>1, CommandsTaken
      <4> QED BY <3>3, <4>1, <4>2, <4>3, CommandsTaken DEF InOrder
    <3> QED BY <1>1, <3>1, <3>3, <3>4, <3>5, <3>6, <3>7 DEF Follows, Ends, Ignored, StaysKnown
  <2>2. CASE cmd = "kill"
    <3>1. proc[p].cmds = End /\ rest = <<>> /\ o.proc # p
      BY <1>3, <2>2, CommandsTaken DEF JInv, Tracked, Commands
    <3>2. CASE proc[p].st = "running"
      <4> DEFINE e == Ended(popped, FALSE)
      <4>1. proc'[p] = e
        BY <1>4, <1>5, <2>2, <3>2
      <4>2. /\ e.st = "exited" /\ e.busy = FALSE /\ e.fin = ~popped.lost
            /\ e.lost = popped.lost /\ e.line = popped.line /\ e.cmds = popped.cmds
        BY <1>5, EndedFields
      <4> HIDE DEF e
      <4>3. EndedAs(p, FALSE) /\ proc'[p].cmds = <<>>
        <5>1. popped.lost = proc[p].lost /\ popped.line = proc[p].line /\ popped.cmds = <<>>
          BY <1>5, <3>1
        <5> QED BY <4>1, <4>2, <5>1, Zenon DEF EndedAs
      <4> QED BY <3>2, <4>3, EndFollows
    <3>3. CASE proc[p].st # "running"
      <4>1. proc'[p] = IF proc[p].st = "idle" THEN [popped EXCEPT !.st = "exited"] ELSE popped
        BY <1>4, <1>5, <2>2, <3>3
      <4>2. /\ proc'[p].st = (IF proc[p].st = "idle" THEN "exited" ELSE proc[p].st)
            /\ proc'[p].cmds = <<>> /\ proc'[p].lost = proc[p].lost /\ proc'[p].busy = proc[p].busy
            /\ proc'[p].fin = proc[p].fin /\ proc'[p].line = proc[p].line
        BY <1>5, <3>1, <4>1 DEF Processes
      <4>3. Ends(p)
        BY <4>2 DEF JInv, Slotted, EndsOnce, Ends
      <4>4. Ignored(p) /\ InOrder(p)
        BY <1>1, <3>1, <3>3, <4>2, CommandsTaken DEF Ignored, InOrder
      <4>5. Opened(p) => Opened(p)'
        BY <3>3, <4>2 DEF Opened
      <4>6. StaysKnown(p) /\ (proc'[p].line => Opened(p)')
        BY <3>1, <4>2, <4>5 DEF StaysKnown, JInv, Tracked, DeviceOpened
      <4> QED BY <4>3, <4>4, <4>6 DEF Follows
    <3> QED BY <3>2, <3>3
  <2> QED BY <1>3, <2>1, <2>2
<1> QED BY <1>1, <1>6, <1>7, ProcessesKeep

-----------------------------------------------------------------------------
(* The service serves a call. *)

\* What serving the call c does; ret is its reply.
ServedAs(c, ok, ret) ==
    /\ c \in CallRecords /\ Answered(c, ret)
    /\ ret = 1 => ok
    /\ c.call = "createPrivilegedProcess" => ret = 0 \/ (ret = svc'.npid /\ svc'.npid # svc.npid)
    /\ \/ svc'.npid = svc.npid
       \/ /\ svc'.npid = svc.npid + 1 /\ svc'.npid \in Pids
          /\ proc'[svc'.npid] = NewProcess("idle")
    /\ c.call = "xrayStart" /\ (svc.core \/ ok) => svc'.core
    /\ c.call = "xrayStop" => ~svc'.core /\ ~svc'.uplink
    /\ c.call \notin {"xrayStart", "xrayStop"} => svc'.core = svc.core /\ svc'.uplink = svc.uplink
    /\ c.call = "updateResolvers" /\ (svc.dns \/ ok) => svc'.dns
    /\ c.call = "restoreResolvers" => ~svc'.dns
    /\ c.call \notin {"updateResolvers", "restoreResolvers"} => svc'.dns = svc.dns
    /\ \A p \in Pids : \/ proc'[p] = proc[p]
                       \/ proc[p].st = "running" /\ proc'[p] = Ended(proc[p], FALSE)
                       \/ /\ p = svc'.npid /\ svc'.npid # svc.npid
                          /\ proc'[p] = NewProcess("idle")

LEMMA ServeFacts ==
    ASSUME IInv, IInv', NEW ok \in BOOLEAN, Serve(ok)
    PROVE  /\ UNCHANGED <<o, dirty>> /\ ipc # <<>> /\ ipc' = Tail(ipc)
           /\ \E ret : ServedAs(Head(ipc), ok, ret)
<1> DEFINE c == Head(ipc)
           new == c.call = "createPrivilegedProcess" /\ ok /\ svc.npid < MaxProcs
           ret == CASE ~ok -> 0
                    [] c.call = "createPrivilegedProcess" ->
                         IF svc'.npid # svc.npid THEN svc'.npid ELSE 0
                    [] OTHER -> 1
<1>1. /\ UNCHANGED <<o, dirty>> /\ ipc # <<>> /\ ipc' = Tail(ipc)
      /\ Answer(c, ret) /\ svc \in Services /\ proc \in [Pids -> Processes]
  BY DEF Serve, IInv, TypeOK
<1>2. c \in CallRecords
  BY <1>1, IpcTypes
<1>3. Answered(c, ret)
  BY <1>1, AnswerSlots
<1>4. svc.npid \in Nat /\ (svc.npid < MaxProcs => svc.npid + 1 \in Pids)
  BY ProcTypes, XrayBounds DEF Pids
<1>5. svc' = CASE c.call = "xrayStart" -> [svc EXCEPT !.core = @ \/ ok, !.uplink = TRUE]
               [] c.call = "xrayStop" -> [svc EXCEPT !.core = FALSE, !.uplink = FALSE]
               [] c.call = "updateResolvers" -> [svc EXCEPT !.dns = @ \/ ok]
               [] c.call = "restoreResolvers" -> [svc EXCEPT !.dns = FALSE]
               [] new -> [svc EXCEPT !.npid = @ + 1]
               [] OTHER -> svc
  BY DEF Serve
<1>6. proc' = CASE c.call = "deleteTun" /\ ok ->
                     [p \in Pids |-> IF proc[p].st = "running" THEN Ended(proc[p], FALSE) ELSE proc[p]]
                [] c.call = "createPrivilegedProcess" /\ svc'.npid # svc.npid ->
                     [proc EXCEPT ![svc'.npid] = NewProcess("idle")]
                [] OTHER -> proc
  BY DEF Serve
<1> HIDE DEF c
<1>7. /\ svc'.npid = IF new THEN svc.npid + 1 ELSE svc.npid
      /\ c.call = "xrayStart" /\ (svc.core \/ ok) => svc'.core
      /\ c.call = "xrayStop" => ~svc'.core /\ ~svc'.uplink
      /\ c.call \notin {"xrayStart", "xrayStop"} => svc'.core = svc.core /\ svc'.uplink = svc.uplink
      /\ c.call = "updateResolvers" /\ (svc.dns \/ ok) => svc'.dns
      /\ c.call = "restoreResolvers" => ~svc'.dns
      /\ c.call \notin {"updateResolvers", "restoreResolvers"} => svc'.dns = svc.dns
  <2>1. CASE c.call = "xrayStart"
    <3> DEFINE b == svc.core \/ ok
    <3>1. svc' = [svc EXCEPT !.core = b, !.uplink = TRUE]
      BY <1>5, <2>1
    <3> HIDE DEF b
    <3>2. svc'.core = b /\ svc'.npid = svc.npid /\ svc'.dns = svc.dns
      BY <1>1, <3>1 DEF Services
    <3>3. (svc.core \/ ok) => svc'.core
      BY <3>2, Zenon DEF b
    <3> QED BY <2>1, <3>2, <3>3
  <2>2. CASE c.call = "updateResolvers"
    <3> DEFINE b == svc.dns \/ ok
    <3>1. svc' = [svc EXCEPT !.dns = b]
      BY <1>5, <2>2
    <3> HIDE DEF b
    <3>2. svc'.dns = b /\ svc'.npid = svc.npid /\ svc'.core = svc.core /\ svc'.uplink = svc.uplink
      BY <1>1, <3>1 DEF Services
    <3>3. (svc.dns \/ ok) => svc'.dns
      BY <3>2, Zenon DEF b
    <3> QED BY <2>2, <3>2, <3>3
  <2>3. CASE c.call = "xrayStop"
    <3>1. svc' = [svc EXCEPT !.core = FALSE, !.uplink = FALSE]
      BY <1>5, <2>3
    <3> QED BY <1>1, <2>3, <3>1 DEF Services
  <2>4. CASE c.call = "restoreResolvers"
    <3>1. svc' = [svc EXCEPT !.dns = FALSE]
      BY <1>5, <2>4
    <3> QED BY <1>1, <2>4, <3>1 DEF Services
  <2>5. CASE c.call \notin {"xrayStart", "xrayStop", "updateResolvers", "restoreResolvers"}
    <3>1. svc' = IF new THEN [svc EXCEPT !.npid = @ + 1] ELSE svc
      BY <1>5, <2>5
    <3> HIDE DEF new
    <3> QED BY <1>1, <2>5, <3>1 DEF Services
  <2> QED BY <2>1, <2>2, <2>3, <2>4, <2>5
<1>8. (ret = 1 => ok)
      /\ (c.call = "createPrivilegedProcess" => ret = 0 \/ (ret = svc'.npid /\ svc'.npid # svc.npid))
  <2>1. CASE ~ok
    <3>1. svc'.npid = svc.npid
      BY <1>7, <2>1
    <3>2. ret = 0
      BY <2>1, <3>1
    <3> QED BY <3>2
  <2>2. CASE ok
    BY <2>2
  <2> QED BY <2>1, <2>2
<1> HIDE DEF ret
<1>9. \/ svc'.npid = svc.npid
      \/ /\ svc'.npid = svc.npid + 1 /\ svc'.npid \in Pids
         /\ proc'[svc'.npid] = NewProcess("idle")
  <2>1. CASE ~new
    BY <1>7, <2>1
  <2>2. CASE new
    <3>1. svc'.npid = svc.npid + 1 /\ svc'.npid # svc.npid /\ svc'.npid \in Pids
      BY <1>4, <1>7, <2>2
    <3>2. proc' = [proc EXCEPT ![svc'.npid] = NewProcess("idle")]
      BY <1>6, <2>2, <3>1
    <3> QED BY <1>1, <3>1, <3>2
  <2> QED BY <2>1, <2>2
<1>10. \A p \in Pids : \/ proc'[p] = proc[p]
                       \/ proc[p].st = "running" /\ proc'[p] = Ended(proc[p], FALSE)
                       \/ /\ p = svc'.npid /\ svc'.npid # svc.npid
                          /\ proc'[p] = NewProcess("idle")
  BY <1>1, <1>6
<1>11. ServedAs(c, ok, ret)
  BY <1>2, <1>3, <1>7, <1>8, <1>9, <1>10 DEF ServedAs
<1> QED BY <1>1, <1>11 DEF c

LEMMA RestCalls ==
    ASSUME IInv, ipc # <<>>, ipc' = Tail(ipc)
    PROVE  /\ 1 \in 1..Len(ipc) /\ ipc[1] = Head(ipc)
           /\ \A i \in 1..Len(ipc') : i + 1 \in 1..Len(ipc) /\ ipc'[i] = ipc[i + 1] /\ 1 < i + 1
           /\ \A j \in 1..Len(ipc) : j # 1 => /\ j - 1 \in 1..Len(ipc') /\ ipc'[j - 1] = ipc[j]
                                              /\ \A i \in 1..Len(ipc') : i + 1 < j => i < j - 1
<1>1. ipc \in Seq(CallRecords) /\ Len(ipc) \in Nat
  BY IpcTypes
<1>2. Len(ipc) >= 1 /\ ipc[1] = Head(ipc)
  BY <1>1
<1>3. /\ Len(ipc') = Len(ipc) - 1
      /\ \A i \in 1..Len(ipc') : ipc'[i] = ipc[i + 1]
  BY <1>1, HeadTailProperties
<1>4. \A j \in 1..Len(ipc) : j # 1 => /\ j - 1 \in 1..Len(ipc') /\ (j - 1) + 1 = j
  BY <1>1, <1>2, <1>3
<1>5. \A j \in 1..Len(ipc) : j # 1 => ipc'[j - 1] = ipc[j]
  BY <1>3, <1>4
<1> QED BY <1>1, <1>2, <1>3, <1>4, <1>5

\* A call less: what the rest undoes.
LEMMA UndoingServed ==
    ASSUME IInv, ipc # <<>>, ipc' = Tail(ipc), NEW done, NEW now, NEW do, NEW undo, do # undo,
           Undoing(ipc, done, do, undo), now => Head(ipc).call # undo,
           now => done \/ Head(ipc).call = do
    PROVE  Undoing(ipc', now, do, undo)
<1>1. ASSUME NEW i \in 1..Len(ipc'), ipc'[i].call = do
      PROVE  \E j \in 1..Len(ipc') : i < j /\ ipc'[j].call = undo
  <2>1. i + 1 \in 1..Len(ipc) /\ ipc[i + 1].call = do /\ 1 < i + 1
    BY <1>1, RestCalls
  <2>2. PICK j \in 1..Len(ipc) : i + 1 < j /\ ipc[j].call = undo
    BY <2>1 DEF Undoing
  <2>3. j # 1
    BY <2>1, <2>2
  <2>4. j - 1 \in 1..Len(ipc') /\ ipc'[j - 1] = ipc[j] /\ i < j - 1
    BY <2>2, <2>3, RestCalls
  <2> QED BY <2>2, <2>4
<1>2. ASSUME now
      PROVE  \E j \in 1..Len(ipc') : ipc'[j].call = undo
  <2>1. \E j \in 1..Len(ipc) : j # 1 /\ ipc[j].call = undo
    <3>1. CASE done
      BY <1>2, <3>1, RestCalls DEF Undoing
    <3>2. CASE Head(ipc).call = do
      <4>1. PICK j \in 1..Len(ipc) : 1 < j /\ ipc[j].call = undo
        BY <3>2, RestCalls DEF Undoing
      <4> QED BY <4>1
    <3> QED BY <1>2, <3>1, <3>2
  <2> QED BY <2>1, RestCalls
<1> QED BY <1>1, <1>2 DEF Undoing

\* What the service has is the object's: the calls of an earlier one are before its own.
LEMMA ServedServe ==
    ASSUME IInv, Slotted, Tracked, Served, NEW ok \in BOOLEAN, NEW ret, UNCHANGED <<o, dirty>>,
           ipc # <<>>, ipc' = Tail(ipc), ServedAs(Head(ipc), ok, ret)
    PROVE  Served'
<1> DEFINE c == Head(ipc)
<1>1. ServedAs(c, ok, ret)
  OBVIOUS
<1>2. /\ Idx' = Idx
      /\ \A i \in Idx : /\ frames'[i].at = frames[i].at /\ frames'[i].obj = frames[i].obj
                        /\ \/ frames'[i].ret = frames[i].ret
                           \/ /\ frames[i].at = c.call /\ frames[i].obj = c.obj
                              /\ frames'[i].ret = ret
  BY <1>1 DEF ServedAs, Answered
<1>3. 1 \in 1..Len(ipc) /\ ipc[1] = c
  BY RestCalls
<1> HIDE DEF c
<1>4. Undone'
  <2> SUFFICES ASSUME o.stop, ~dirty PROVE Undone'
    BY DEF Undone
  <2>1. Undoing(ipc', svc'.core \/ svc'.uplink, "xrayStart", "xrayStop")
    <3> DEFINE done == svc.core \/ svc.uplink
               now == svc'.core \/ svc'.uplink
    <3>1. Undoing(ipc, done, "xrayStart", "xrayStop")
      BY DEF Served, Undone
    <3>2. (now => c.call # "xrayStop") /\ (now => done \/ c.call = "xrayStart")
      BY <1>1 DEF ServedAs
    <3> HIDE DEF done, now
    <3>3. Undoing(ipc', now, "xrayStart", "xrayStop")
      BY <3>1, <3>2, UndoingServed DEF c
    <3> QED BY <3>3 DEF now
  <2>2. Undoing(ipc', svc'.dns, "updateResolvers", "restoreResolvers")
    <3> DEFINE done == svc.dns
               now == svc'.dns
    <3>1. Undoing(ipc, done, "updateResolvers", "restoreResolvers")
      BY DEF Served, Undone
    <3>2. (now => c.call # "restoreResolvers") /\ (now => done \/ c.call = "updateResolvers")
      BY <1>1 DEF ServedAs
    <3> HIDE DEF done, now
    <3>3. Undoing(ipc', now, "updateResolvers", "restoreResolvers")
      BY <3>1, <3>2, UndoingServed DEF c
    <3> QED BY <3>3 DEF now
  <2> QED BY <2>1, <2>2 DEF Undone
<1>5. \A i \in 1..Len(ipc') : ipc'[i].obj <= o.id
  BY RestCalls DEF Served, CoreStarted
<1>6. ASSUME ~o.stop, ~o.cut
      PROVE  /\ StartLast(ipc', o.id)
             /\ Past => svc'.core /\ Harmless(ipc')
             /\ Past' => svc'.core /\ Harmless(ipc')
             /\ PastResolvers' => svc'.dns
  <2>1. StartLast(ipc, o.id) /\ (Past => svc.core /\ Harmless(ipc))
    BY <1>6 DEF Served, CoreStarted
  <2>2. StartLast(ipc', o.id)
    <3> SUFFICES ASSUME NEW i \in 1..Len(ipc'), NEW j \in 1..Len(ipc'), i < j,
                        ipc'[i].call = "xrayStart", ipc'[i].obj = o.id
                 PROVE  ipc'[j].call \notin Undoings
      BY DEF StartLast
    <3>1. i + 1 \in 1..Len(ipc) /\ j + 1 \in 1..Len(ipc) /\ i + 1 < j + 1
          /\ ipc'[i] = ipc[i + 1] /\ ipc'[j] = ipc[j + 1]
      BY RestCalls
    <3> QED BY <2>1, <3>1 DEF StartLast
  <2>3. Past => svc'.core /\ Harmless(ipc') /\ c.call \notin Undoings
    <3> SUFFICES ASSUME Past PROVE svc'.core /\ Harmless(ipc') /\ c.call \notin Undoings
      OBVIOUS
    <3>1. svc.core /\ Harmless(ipc)
      BY <2>1
    <3>2. c.call \notin Undoings
      BY <1>3, <3>1 DEF Harmless
    <3>3. svc'.core
      BY <1>1, <3>1, <3>2 DEF ServedAs, Undoings
    <3>4. Harmless(ipc')
      BY <3>1, RestCalls DEF Harmless
    <3> QED BY <3>2, <3>3, <3>4
  <2>4. ASSUME Past', ~Past
        PROVE  svc'.core /\ Harmless(ipc')
    <3>1. PICK i \in Idx : /\ frames[i].obj = o.id /\ frames[i].at = "xrayStart"
                           /\ frames[i].ret # 1 /\ frames'[i].ret = 1
      BY <1>2, <2>4 DEF Past
    <3>2. c.call = "xrayStart" /\ c.obj = o.id /\ ret = 1
      BY <1>2, <3>1
    <3>3. svc'.core
      BY <1>1, <3>2 DEF ServedAs
    <3>4. Harmless(ipc')
      <4> SUFFICES ASSUME NEW j \in 1..Len(ipc') PROVE ipc'[j].call \notin Undoings
        BY DEF Harmless
      <4>1. j + 1 \in 1..Len(ipc) /\ 1 < j + 1 /\ ipc'[j] = ipc[j + 1]
        BY RestCalls
      <4> QED BY <1>3, <2>1, <3>2, <4>1 DEF StartLast
    <3> QED BY <3>3, <3>4
  <2>5. PastResolvers' => svc'.dns
    <3>1. ASSUME PastResolvers PROVE svc'.dns
      <4>1. Past
        <5>1. CASE o.st = "Connected"
          BY <1>6, <5>1 DEF Tracked, DeviceOpened, SetsUp, Past
        <5>2. CASE o.st # "Connected"
          BY <3>1, <5>2 DEF PastResolvers, Past, SetupPlaces
        <5> QED BY <5>1, <5>2
      <4>2. svc.dns
        BY <1>6, <3>1 DEF Served, ResolversSet
      <4> QED BY <1>1, <2>3, <4>1, <4>2 DEF ServedAs, Undoings
    <3>2. ASSUME PastResolvers', ~PastResolvers PROVE svc'.dns
      <4>1. PICK i \in Idx : /\ frames[i].obj = o.id /\ frames[i].at = "updateResolvers"
                             /\ frames[i].ret # 1 /\ frames'[i].ret = 1
        BY <1>2, <3>2 DEF PastResolvers
      <4>2. c.call = "updateResolvers" /\ ret = 1
        BY <1>2, <4>1
      <4> QED BY <1>1, <4>2 DEF ServedAs
    <3> QED BY <3>1, <3>2
  <2> QED BY <2>2, <2>3, <2>4, <2>5
<1>7. CoreStarted' /\ ResolversSet'
  BY <1>5, <1>6 DEF CoreStarted, ResolversSet
<1>8. StoppedHasEnded'
  BY DEF Served, StoppedHasEnded
<1> QED BY <1>4, <1>7, <1>8 DEF Served

LEMMA ServeKeeps ==
    ASSUME IInv, IInv', JInv, NEW ok \in BOOLEAN, Serve(ok)
    PROVE  JInv'
<1> DEFINE c == Head(ipc)
<1>1. UNCHANGED <<o, dirty>> /\ ipc # <<>> /\ ipc' = Tail(ipc)
  BY ServeFacts
<1>2. PICK ret : ServedAs(c, ok, ret)
  BY ServeFacts
<1>3. Served'
  BY <1>1, <1>2, ServedServe DEF JInv
<1> HIDE DEF c
<1>4. /\ Answered(c, ret) /\ c.call # "readErr"
      /\ \/ svc'.npid = svc.npid
         \/ /\ svc'.npid = svc.npid + 1 /\ svc'.npid \in Pids
            /\ proc'[svc'.npid] = NewProcess("idle")
      /\ c.call = "createPrivilegedProcess"
             => ret = 0 \/ (ret = svc'.npid /\ svc'.npid # svc.npid)
  <2>1. c \in CallRecords
    BY <1>2 DEF ServedAs
  <2>2. c.call # "readErr"
    BY <2>1 DEF CallRecords, Calls, SetupCalls, StopCalls
  <2> QED BY <1>2, <2>2 DEF ServedAs
<1>5. \A p \in Pids : \/ Follows(p)
                      \/ p = svc'.npid /\ svc'.npid # svc.npid /\ proc'[p] = NewProcess("idle")
  <2> SUFFICES ASSUME NEW p \in Pids,
                      ~(p = svc'.npid /\ svc'.npid # svc.npid /\ proc'[p] = NewProcess("idle"))
               PROVE  Follows(p)
    OBVIOUS
  <2>1. CASE proc'[p] = proc[p]
    BY <2>1, SameFollows
  <2>2. CASE proc'[p] # proc[p]
    <3> DEFINE e == Ended(proc[p], FALSE)
    <3>1. proc'[p] = e /\ proc[p].st = "running" /\ proc[p] \in Processes
      BY <1>2, <2>2, ProcTypes DEF ServedAs
    <3>2. /\ e.st = "exited" /\ e.busy = FALSE /\ e.fin = ~proc[p].lost
          /\ e.lost = proc[p].lost /\ e.line = proc[p].line /\ e.cmds = proc[p].cmds
      BY <3>1, EndedFields
    <3> HIDE DEF e
    <3>3. EndedAs(p, FALSE) /\ proc'[p].cmds = proc[p].cmds
      BY <3>1, <3>2, Zenon DEF EndedAs
    <3> QED BY <3>1, <3>3, EndFollows
  <2> QED BY <2>1, <2>2
<1>6. \A p \in Pids : p <= svc.npid => Follows(p)
  <2>1. svc.npid \in Nat
    BY ProcTypes
  <2> QED BY <1>4, <1>5, <2>1
<1>7. \A p \in Pids : proc'[p].fin \/ proc'[p].busy => proc'[p].st = "exited"
  BY <1>5 DEF Follows, Ends, NewProcess
<1>8. \A p \in Pids : InOrder(p) /\ (proc'[p].line => Opened(p)')
  <2> SUFFICES ASSUME NEW p \in Pids, proc'[p] = NewProcess("idle")
               PROVE  InOrder(p) /\ ~proc'[p].line
    BY <1>5 DEF Follows
  <2>1. proc'[p].st = "idle" /\ proc'[p].cmds = <<>> /\ proc'[p].line = FALSE
    BY DEF NewProcess
  <2> QED BY <2>1, CommandsTaken DEF InOrder
<1>9. Slotted'
  BY <1>1, <1>4, <1>6, <1>7, SlottedServe DEF JInv, Follows
<1>10. Tracked'
  BY <1>1, <1>4, <1>6, <1>8, TrackedProcs DEF JInv, Follows
<1> QED BY <1>3, <1>9, <1>10 DEF JInv

-----------------------------------------------------------------------------
(* Crashes. *)

\* The service is gone with what it has and with what was sent to it.
LEMMA ServiceCrashKeeps ==
    ASSUME IInv, JInv, ServiceCrash
    PROVE  JInv'
<1>1. UNCHANGED <<frames, dirty>> /\ ipc' = <<>>
  BY DEF ServiceCrash
<1>2. /\ svc'.npid = svc.npid /\ svc'.core = FALSE /\ svc'.uplink = FALSE /\ svc'.dns = FALSE
  BY DEF ServiceCrash, IInv, TypeOK, Services
<1>3. /\ o'.id = o.id /\ o'.stop = o.stop /\ o'.proc = o.proc /\ o'.timer = o.timer
      /\ o'.st = o.st /\ o'.cut = TRUE
  BY CountTypes DEF ServiceCrash, Objects
<1>4. \A p \in Pids : /\ proc'[p].st = proc[p].st /\ proc'[p].tun = proc[p].tun
                      /\ proc'[p].busy = proc[p].busy /\ proc'[p].line = proc[p].line
                      /\ proc'[p].fin = proc[p].fin /\ proc'[p].cmds = <<>>
                      /\ ~proc'[p].lost => ~proc[p].lost /\ proc[p].st = "none"
  <2> TAKE p \in Pids
  <2> DEFINE b == proc[p].lost \/ proc[p].st # "none"
  <2>1. proc'[p] = [proc[p] EXCEPT !.lost = b, !.cmds = <<>>] /\ proc[p] \in Processes
    BY ProcTypes DEF ServiceCrash
  <2> HIDE DEF b
  <2>2. /\ proc'[p].st = proc[p].st /\ proc'[p].tun = proc[p].tun
        /\ proc'[p].busy = proc[p].busy /\ proc'[p].line = proc[p].line
        /\ proc'[p].fin = proc[p].fin /\ proc'[p].cmds = <<>> /\ proc'[p].lost = b
    BY <2>1 DEF Processes
  <2>3. ~b => ~proc[p].lost /\ proc[p].st = "none"
    BY DEF b
  <2> QED BY <2>2, <2>3
<1>5. Slotted'
  <2>1. FewerSlots /\ ObjectKept
    BY <1>1, <1>3 DEF FewerSlots, Idx, ObjectKept
  <2>2. \A p \in Pids : Ends(p) /\ Ignored(p)
    BY <1>4 DEF JInv, Slotted, EndsOnce, Ends, Ignored
  <2> QED BY <1>2, <2>1, <2>2, SlottedKept DEF JInv
<1>6. Tracked'
  <2>1. Commands' /\ Remembered'
    BY <1>3, <1>4, CommandsTaken DEF Commands, Remembered
  <2>2. \A p \in Pids : Opened(p)' <=> Opened(p)
    BY <1>4 DEF Opened
  <2>3. SetsUp' => SetsUp
    BY <1>1, <1>3 DEF SetsUp, Idx
  <2>4. \A i \in Idx', p \in Pids : HasLine(i, p)' => Opened(p)
    BY <1>1 DEF HasLine, Idx, JInv, Tracked, DeviceOpened
  <2>5. DeviceOpened'
    BY <1>3, <1>4, <2>2, <2>3, <2>4, ProcTypes DEF JInv, Tracked, DeviceOpened
  <2>6. Watched'
    BY <1>3 DEF Watched
  <2> QED BY <2>1, <2>5, <2>6 DEF Tracked
<1>7. Served'
  <2>1. Len(ipc') = 0 /\ 1..Len(ipc') = {}
    BY <1>1
  <2>2. Undone' /\ CoreStarted'
    BY <1>2, <1>3, <2>1 DEF Undone, Undoing, CoreStarted
  <2> QED BY <1>3, <2>2 DEF JInv, Served, ResolversSet, StoppedHasEnded
<1> QED BY <1>5, <1>6, <1>7 DEF JInv

LEMMA ServiceRestartKeeps ==
    ASSUME IInv, JInv, ServiceRestart
    PROVE  JInv'
<1>1. /\ svc'.npid = svc.npid /\ svc'.core = svc.core /\ svc'.uplink = svc.uplink
      /\ svc'.dns = svc.dns /\ UNCHANGED <<o, frames, ipc, proc, dirty>>
  BY DEF ServiceRestart, IInv, TypeOK, Services
<1>2. \A p \in Pids : Follows(p)
  BY <1>1, SameFollows
<1> QED BY <1>1, <1>2, ProcessesKeep

\* The client is gone; its processes cannot be told anything any more.
LEMMA ClientCrashKeeps ==
    ASSUME IInv, JInv, ClientCrash
    PROVE  JInv'
<1>1. UNCHANGED <<ipc, svc>> /\ frames' = <<>> /\ dirty' = TRUE
  BY DEF ClientCrash
<1>2. o'.id = o.id /\ o'.stop = TRUE /\ o'.proc = 0 /\ o'.st = "Disconnected"
  BY CountTypes DEF ClientCrash, Objects
<1>3. \A p \in Pids : /\ proc'[p].st = proc[p].st /\ proc'[p].tun = proc[p].tun
                      /\ proc'[p].busy = proc[p].busy /\ proc'[p].line = proc[p].line
                      /\ proc'[p].fin => proc[p].fin
                      /\ proc'[p].cmds = proc[p].cmds
                      /\ ~proc'[p].lost => proc[p].st = "none"
  <2> TAKE p \in Pids
  <2>1. proc[p] \in Processes
    BY ProcTypes
  <2>2. CASE proc[p].st = "none"
    BY <2>2 DEF ClientCrash
  <2>3. CASE proc[p].st # "none"
    <3>1. proc'[p] = [proc[p] EXCEPT !.lost = TRUE, !.ready = FALSE, !.fin = FALSE]
      BY <2>3 DEF ClientCrash
    <3> QED BY <2>1, <3>1 DEF Processes
  <2> QED BY <2>2, <2>3
<1>4. Idx' = {}
  BY <1>1 DEF Idx
<1>5. Slotted'
  <2>1. FewerSlots /\ ObjectKept
    BY <1>2, <1>4 DEF FewerSlots, ObjectKept
  <2>2. \A p \in Pids : Ends(p)
    BY <1>3 DEF JInv, Slotted, EndsOnce, Ends
  <2> QED BY <1>1, <1>2, <2>1, <2>2, SlottedKept DEF JInv
<1>6. Tracked'
  <2>1. Commands'
    BY <1>2, <1>3, ProcTypes DEF JInv, Tracked, Commands
  <2>2. Remembered'
    BY <1>3 DEF JInv, Tracked, Commands, Remembered
  <2>3. \A p \in Pids : Opened(p)' <=> Opened(p)
    BY <1>3 DEF Opened
  <2>4. DeviceOpened' /\ Watched'
    BY <1>2, <1>3, <1>4, <2>3 DEF JInv, Tracked, DeviceOpened, Watched
  <2> QED BY <2>1, <2>2, <2>4 DEF Tracked
<1>7. Served'
  BY <1>1, <1>2 DEF JInv, Served, Undone, CoreStarted, ResolversSet, StoppedHasEnded
<1> QED BY <1>5, <1>6, <1>7 DEF JInv

-----------------------------------------------------------------------------
(* A new object. *)

LEMMA StartKeeps ==
    ASSUME IInv, JInv, NEW opts \in SUBSET Optional, Start(opts)
    PROVE  JInv'
<1> DEFINE f == [at |-> "xrayStart", by |-> "start", obj |-> o.id + 1, pid |-> 0,
                 ret |-> Outstanding]
           c == [call |-> "xrayStart", obj |-> o.id + 1]
<1>1. /\ UNCHANGED <<svc, proc, dirty>> /\ o.stop /\ o.proc = 0
      /\ \/ UNCHANGED <<frames, ipc>>
         \/ frames' = Append(frames, f) /\ ipc' = Append(ipc, c)
  BY DEF Start, JInv, Served, StoppedHasEnded
<1>2. /\ o'.id = o.id + 1 /\ ~o'.timer /\ o'.proc = 0 /\ ~o'.stop /\ ~o'.cut /\ o'.st = "Unknown"
  BY DEF Start, NewObject
<1>3. o.id \in Nat /\ o.id + 1 \in 0..MaxObjects
  BY CountTypes, XrayBounds DEF Start, Objects
<1>4. f \in Frames /\ f.at = "xrayStart" /\ f.by = "start" /\ f.obj = o.id + 1 /\ f.pid = 0
      /\ f.ret = Outstanding
  <2>1. Outstanding \in 0..Outstanding /\ 0 \in 0..MaxProcs /\ "xrayStart" \in Calls
    BY XrayBounds DEF Outstanding, Calls
  <2> QED BY <1>3, <2>1 DEF Frames
<1>5. c \in CallRecords /\ c.obj = o.id + 1 /\ c.call = "xrayStart"
  BY <1>3 DEF CallRecords, Calls
<1> HIDE DEF f, c
<1>6. frames' = frames \/ Pushed(f)
  BY <1>1, <1>4, PushSlots
<1>7. Slotted'
  BY <1>1, <1>2, <1>4, <1>6, SlottedNew DEF JInv
<1>8. \A i \in Idx' : \/ i \in Idx /\ frames'[i] = frames[i] /\ frames'[i].obj # o.id + 1
                      \/ frames'[i] = f
  <2>1. CASE frames' = frames
    BY <2>1, SlotsOfOld DEF Idx
  <2>2. CASE Pushed(f)
    BY <2>2, SlotsOfOld DEF Pushed
  <2> QED BY <1>6, <2>1, <2>2
<1>9. Tracked'
  <2>1. Commands' /\ Remembered'
    BY <1>1, <1>2 DEF JInv, Tracked, Commands, Remembered
  <2>2. \A i \in Idx', p \in Pids : HasLine(i, p)' => Opened(p)
    BY <1>4, <1>8 DEF HasLine, JInv, Tracked, DeviceOpened
  <2>3. ~SetsUp'
    BY <1>2, <1>4, <1>8 DEF SetsUp, SetupPlaces
  <2>4. DeviceOpened' /\ Watched'
    BY <1>1, <1>2, <2>2, <2>3 DEF JInv, Tracked, DeviceOpened, Opened, Watched
  <2> QED BY <2>1, <2>4 DEF Tracked
<1>10. Served'
  <2>1. ~Past' /\ ~PastResolvers'
    BY <1>2, <1>4, <1>8, ProcTypes DEF Past, PastResolvers, SetupPlaces
  <2>2. \A i \in 1..Len(ipc) : ipc[i].obj <= o.id + 1 /\ ipc[i].obj # o.id + 1
    <3>1. \A i \in 1..Len(ipc) : ipc[i].obj <= o.id /\ ipc[i].obj \in Nat
      BY IpcTypes DEF JInv, Served, CoreStarted
    <3> QED BY <1>3, <3>1
  <2>3. (\A i \in 1..Len(ipc') : ipc'[i].obj <= o.id + 1) /\ StartLast(ipc', o.id + 1)
    <3>1. CASE ipc' = ipc
      BY <2>2, <3>1 DEF StartLast
    <3>2. CASE ipc' = Append(ipc, c)
      <4>1. /\ Len(ipc') = Len(ipc) + 1 /\ ipc'[Len(ipc) + 1] = c
            /\ \A i \in 1..Len(ipc) : ipc'[i] = ipc[i]
            /\ \A i \in 1..Len(ipc') : i \in 1..Len(ipc) \/ i = Len(ipc) + 1
        BY <1>3, <1>5, <3>2, AppendedCall
      <4>2. Len(ipc) \in Nat /\ o.id + 1 <= o.id + 1
        BY <1>3, IpcTypes
      <4>3. \A i, j \in 1..Len(ipc') : i < j => i \in 1..Len(ipc)
        BY <4>1, <4>2
      <4>4. \A i \in 1..Len(ipc') : ipc'[i].obj <= o.id + 1
        BY <1>5, <2>2, <4>1, <4>2
      <4>5. StartLast(ipc', o.id + 1)
        BY <2>2, <4>1, <4>3 DEF StartLast
      <4> QED BY <4>4, <4>5
    <3> QED BY <1>1, <3>1, <3>2
  <2>4. CoreStarted'
    BY <1>2, <2>1, <2>3 DEF CoreStarted
  <2> QED BY <1>2, <2>1, <2>4 DEF Served, Undone, ResolversSet, StoppedHasEnded
<1> QED BY <1>7, <1>9, <1>10 DEF JInv

-----------------------------------------------------------------------------
(* The theorems. *)

LEMMA InitService == Init => JInv
<1> SUFFICES ASSUME Init PROVE JInv
  OBVIOUS
<1>1. o.stop /\ o.proc = 0 /\ o.st = "Disconnected"
  BY DEF Init, NewObject
<1>2. Idx = {} /\ 1..Len(ipc) = {} /\ svc.npid = 0 /\ ~svc.core /\ ~svc.uplink /\ ~svc.dns
  BY DEF Init, Idx
<1>3. \A p \in Pids : /\ proc[p].st = "none" /\ proc[p].cmds = <<>> /\ ~proc[p].fin
                      /\ ~proc[p].busy /\ ~proc[p].line
  BY DEF Init, NewProcess
<1>4. Slotted
  BY <1>1, <1>2, <1>3 DEF Slotted, OneStart, FirstStart, EndsOnce, OneProcess, Given, Untold
<1>5. Tracked
  BY <1>1, <1>2, <1>3, CommandsTaken DEF Tracked, Commands, Remembered, DeviceOpened, Watched
<1>6. Served
  BY <1>1, <1>2 DEF Served, Undone, Undoing, CoreStarted, ResolversSet, StoppedHasEnded
<1> QED BY <1>4, <1>5, <1>6 DEF JInv

LEMMA ServiceStepKeeps ==
    ASSUME IInv, JInv, [Next]_xrayVars
    PROVE  JInv'
<1>1. CASE Requests
  BY <1>1, StartKeeps, StopKeeps DEF Requests, StopRequest
<1>2. CASE Replies
  BY <1>2, ReplyXrayStartKeeps, ReplyDeleteTunKeeps, ReplyCreateProcessKeeps, ReplySetupKeeps,
     ReplyAcquireKeeps, ReplyReadErrKeeps, ReplyReadOutKeeps DEF Replies
<1>3. CASE Slots
  BY <1>3, ReadyReadKeeps, FinishedKeeps, RetryTimerKeeps DEF Slots
<1>4. CASE ServiceSteps
  BY <1>4, StepKeeps, ServeKeeps, ServeProcessKeeps, TunExitsKeeps, TunOpensKeeps DEF ServiceSteps
<1>5. CASE Crashes
  BY <1>5, ServiceCrashKeeps, ServiceRestartKeeps, ClientCrashKeeps DEF Crashes
<1>6. CASE UNCHANGED xrayVars
  <2>1. \A p \in Pids : Follows(p)
    BY <1>6, SameFollows DEF xrayVars
  <2> QED BY <1>6, <2>1, ProcessesKeep DEF xrayVars
<1> QED BY <1>1, <1>2, <1>3, <1>4, <1>5, <1>6 DEF Next

\* The invariant of the slots, the processes and the calls, for any nesting and any crash.
THEOREM ServiceInvariance == Spec => []JInv
<1>1. IInv /\ JInv /\ [Next]_xrayVars => JInv'
  BY ServiceStepKeeps
<1> QED BY InitService, <1>1, Invariance, PTL DEF Spec

\* StoppedIsUndone: once the calls of a stopped object are served, no core, no uplink routes
\* and no resolvers are left, whatever slot, timer or late reply was under way at stop().
THEOREM StoppedSound == Spec => []StoppedIsUndone
<1>1. JInv => StoppedIsUndone
  <2> SUFFICES ASSUME JInv, o.stop, ipc = <<>>, ~dirty
               PROVE  ~svc.core /\ ~svc.uplink /\ ~svc.dns
    BY DEF StoppedIsUndone
  <2>1. 1..Len(ipc) = {}
    OBVIOUS
  <2> QED BY <2>1 DEF JInv, Served, Undone, Undoing
<1> QED BY <1>1, ServiceInvariance, PTL

\* NoForgottenProcess: a tun2socks that runs is the current object's, is about to be killed, or
\* was cut off by a crash.
THEOREM ProcessesSound == Spec => []NoForgottenProcess
<1>1. JInv => NoForgottenProcess
  <2> SUFFICES ASSUME JInv, NEW p \in Pids, proc[p].st = "running", ~proc[p].lost, o.proc # p
               PROVE  \E i \in DOMAIN proc[p].cmds : proc[p].cmds[i] = "kill"
    BY DEF NoForgottenProcess
  <2>1. proc[p].cmds \in {End, TellAndEnd}
    BY DEF JInv, Tracked, Remembered
  <2>2. 1 \in DOMAIN End /\ End[1] = "kill" /\ 2 \in DOMAIN TellAndEnd /\ TellAndEnd[2] = "kill"
    BY DEF End, TellAndEnd
  <2> QED BY <2>1, <2>2
<1> QED BY <1>1, ServiceInvariance, PTL

\* ConnectedIsBacked: a connected object has its core, its resolvers and its tun2socks, or the
\* end of that is about to be noticed; nothing that an earlier object has sent takes them away.
THEOREM BackedSound == Spec => []ConnectedIsBacked
<1>1. IInv /\ JInv => ConnectedIsBacked
  <2> SUFFICES ASSUME IInv, JInv, o.st = "Connected", ~o.cut
               PROVE  /\ svc.core /\ svc.dns /\ o.proc # 0
                      /\ \/ proc[o.proc].st = "running"
                         \/ proc[o.proc].fin
                         \/ \E i \in DOMAIN frames : frames[i].at = "readOut" /\ frames[i].obj = o.id
    BY DEF ConnectedIsBacked
  <2>1. ~o.stop /\ SetsUp /\ PastResolvers
    BY DEF JInv, Served, StoppedHasEnded, SetsUp, PastResolvers
  <2>2. o.proc # 0 /\ Opened(o.proc) /\ o.proc \in Pids
    BY <2>1, ProcTypes DEF JInv, Tracked, DeviceOpened
  <2>3. svc.core /\ svc.dns
    BY <2>1, <2>2 DEF JInv, Served, CoreStarted, ResolversSet, Past
  <2>4. ~OnItsWay
    BY <2>1, <2>2 DEF JInv, Slotted, OneProcess, Opened
  <2>5. DOMAIN frames = Idx
    BY CountTypes DEF Idx
  <2>6. proc[o.proc].st # "idle"
    BY <2>2 DEF Opened
  <2> QED BY <2>1, <2>2, <2>3, <2>4, <2>5, <2>6 DEF JInv, Tracked, Watched, Noticed, Reads
<1> QED BY <1>1, Invariance, ServiceInvariance, PTL
=============================================================================

------------------------ MODULE XrayProtocolProofs ------------------------
(***************************************************************************)
(* Proofs about XrayProtocol for any number of objects and processes, any  *)
(* limit of retries and any nesting of its slots: its types, the bound on  *)
(* the starts of tun2socks, and that it implements ProtocolObject.         *)
(***************************************************************************)
EXTENDS XrayProtocol, FiniteSetTheorems, SequenceTheorems, TLAPS

-----------------------------------------------------------------------------
(* The invariant. *)

\* Slots that will start a process when their waits are over.
StartPlaces == {"xrayStart", "deleteTun", "createPrivilegedProcess", "acquire"}

Starting(fr, n) == {i \in 1..Len(fr) : fr[i].obj = n /\ fr[i].at \in StartPlaces}

Count(fr, n) == Cardinality(Starting(fr, n))

\* An object that is not stopped has not ended.
NotEnded == ~o.stop => o.st \in {"Unknown", "Connected"}

\* No slot belongs to an object that is still to come.
SlotsKnown == \A i \in 1..Len(frames) : frames[i].obj <= o.id

Armed(x) == IF x.timer THEN 1 ELSE 0

\* Every start, done, under way or waiting for the timer, is the first or was counted.
StartsCounted ==
    o.starts + Count(frames, o.id) + Armed(o) <= o.retries + 1

IInv == TypeOK /\ NotEnded /\ SlotsKnown /\ StartsCounted

\* A step of the object as VpnConnection sees it.
SeenStep ==
    \/ o'.id = o.id + 1 /\ o'.st = "Unknown"
    \/ /\ o'.id = o.id
       /\ \/ o'.st = o.st
          \/ o.st = "Unknown" /\ o'.st = "Connected"
          \/ o.st \in {"Unknown", "Connected"} /\ o'.st \in {"Disconnected", "Error"}

-----------------------------------------------------------------------------
(* Counting slots. *)

Pending(f, n) == IF f.obj = n /\ f.at \in StartPlaces THEN 1 ELSE 0

LEMMA CountType ==
    ASSUME NEW fr \in Seq(Frames), NEW n
    PROVE  IsFiniteSet(Starting(fr, n)) /\ Count(fr, n) \in Nat
<1>1. Len(fr) \in Nat /\ IsFiniteSet(1..Len(fr))
  BY FS_Interval
<1>2. Starting(fr, n) \subseteq 1..Len(fr)
  BY DEF Starting
<1>3. IsFiniteSet(Starting(fr, n))
  BY <1>1, <1>2, FS_Subset
<1> QED BY <1>3, FS_CardinalityType DEF Count

LEMMA CountAppend ==
    ASSUME NEW fr \in Seq(Frames), NEW f \in Frames, NEW n
    PROVE  Append(fr, f) \in Seq(Frames) /\ Count(Append(fr, f), n) = Count(fr, n) + Pending(f, n)
<1> DEFINE g == Append(fr, f)
           k == Len(fr) + 1
<1>1. /\ g \in Seq(Frames) /\ Len(g) = k /\ Len(fr) \in Nat
      /\ g[k] = f /\ \A i \in 1..Len(fr) : g[i] = fr[i]
  OBVIOUS
<1> HIDE DEF g
<1>2. k \notin Starting(fr, n)
  BY <1>1 DEF Starting
<1>3. CASE f.obj = n /\ f.at \in StartPlaces
  <2>1. Starting(g, n) = Starting(fr, n) \cup {k}
    BY <1>1, <1>3 DEF Starting
  <2>2. Cardinality(Starting(g, n)) = Cardinality(Starting(fr, n)) + 1
    BY <1>2, <2>1, CountType, FS_AddElement
  <2> QED BY <1>1, <1>3, <2>2 DEF Count, Pending, g
<1>4. CASE ~(f.obj = n /\ f.at \in StartPlaces)
  <2>1. Starting(g, n) = Starting(fr, n)
    BY <1>1, <1>4 DEF Starting
  <2> QED BY <1>1, <1>4, <2>1, CountType DEF Count, Pending, g
<1> QED BY <1>3, <1>4

LEMMA CountRest ==
    ASSUME NEW fr \in Seq(Frames), fr /= <<>>, NEW n
    PROVE  LET rest == SubSeq(fr, 1, Len(fr) - 1)
           IN  /\ rest \in Seq(Frames) /\ Len(rest) = Len(fr) - 1
               /\ fr[Len(fr)] \in Frames
               /\ \A i \in 1..Len(rest) : rest[i] = fr[i]
               /\ Count(fr, n) = Count(rest, n) + Pending(fr[Len(fr)], n)
<1> DEFINE rest == SubSeq(fr, 1, Len(fr) - 1)
           k == Len(fr)
<1>1. k \in Nat /\ k > 0
  OBVIOUS
<1>2. /\ rest \in Seq(Frames) /\ Len(rest) = k - 1 /\ fr[k] \in Frames
      /\ \A i \in 1..Len(rest) : rest[i] = fr[i]
  <2>1. k - 1 \in Int /\ 1 \in Int /\ \A i \in 1..k : fr[i] \in Frames
    BY <1>1
  <2>2. \A i \in 1..(k - 1) : fr[i] \in Frames
    BY <1>1, <2>1
  <2> DEFINE l == Len(rest)
  <2>3. /\ rest \in Seq(Frames) /\ l = IF 1 <= k - 1 THEN (k - 1) - 1 + 1 ELSE 0
        /\ \A i \in 1..((k - 1) - 1 + 1) : rest[i] = fr[1 + i - 1]
    BY <2>1, <2>2, SubSeqProperties
  <2> HIDE DEF rest, k, l
  <2>4. l = k - 1
    BY <1>1, <2>3
  <2>5. ASSUME NEW i \in 1..(k - 1) PROVE rest[i] = fr[i]
    <3>1. i \in 1..((k - 1) - 1 + 1) /\ 1 + i - 1 = i
      BY <1>1
    <3> QED BY <2>3, <3>1
  <2> QED BY <1>1, <2>1, <2>3, <2>4, <2>5 DEF l
<1> HIDE DEF rest
<1>3. k \notin Starting(rest, n)
  BY <1>1, <1>2 DEF Starting
<1>4. CASE fr[k].obj = n /\ fr[k].at \in StartPlaces
  <2>1. Starting(fr, n) = Starting(rest, n) \cup {k}
    BY <1>1, <1>2, <1>4 DEF Starting
  <2>2. Cardinality(Starting(fr, n)) = Cardinality(Starting(rest, n)) + 1
    BY <1>2, <1>3, <2>1, CountType, FS_AddElement
  <2> QED BY <1>2, <1>4, <2>2 DEF Count, Pending, rest
<1>5. CASE ~(fr[k].obj = n /\ fr[k].at \in StartPlaces)
  <2>1. Starting(fr, n) = Starting(rest, n)
    BY <1>1, <1>2, <1>5 DEF Starting
  <2> QED BY <1>2, <1>5, <2>1, CountType DEF Count, Pending, rest
<1> QED BY <1>4, <1>5

-----------------------------------------------------------------------------
(* What the steps do to the waiting slots. *)

LEMMA CountTypes ==
    ASSUME IInv
    PROVE  /\ o \in Objects /\ o.starts \in Nat /\ o.retries \in Nat /\ o.id \in Nat
           /\ Armed(o) \in Nat /\ Count(frames, o.id) \in Nat /\ frames \in Seq(Frames)
           /\ Len(frames) \in Nat
<1>1. o \in Objects /\ frames \in Seq(Frames)
  BY DEF IInv, TypeOK
<1>2. Count(frames, o.id) \in Nat
  BY <1>1, CountType
<1> QED BY <1>1, <1>2, XrayBounds DEF Objects, Armed

\* No slot comes or goes.
LEMMA SlotsKept ==
    ASSUME IInv, o' \in Objects, o'.id = o.id,
           frames' \in Seq(Frames), Len(frames') = Len(frames),
           \A i \in 1..Len(frames) : frames'[i].obj = frames[i].obj /\ frames'[i].at = frames[i].at,
           o'.starts + Armed(o') + o.retries <= o.starts + Armed(o) + o'.retries
    PROVE  SlotsKnown' /\ StartsCounted'
<1>1. Starting(frames', o.id) = Starting(frames, o.id)
  BY DEF Starting
<1>2. SlotsKnown'
  BY DEF IInv, SlotsKnown
<1> DEFINE s == o.starts
           c == Count(frames, o.id)
           a == Armed(o)
           r == o.retries
           s1 == o'.starts
           c1 == Count(frames', o'.id)
           a1 == Armed(o')
           r1 == o'.retries
<1>3. s \in Nat /\ c \in Nat /\ a \in Nat /\ r \in Nat /\ s + c + a <= r + 1
  BY CountTypes DEF IInv, StartsCounted
<1>4. s1 \in Nat /\ r1 \in Nat /\ a1 \in Nat /\ s1 + a1 + r <= s + a + r1
  BY XrayBounds DEF Objects, Armed
<1>5. c1 = c
  BY <1>1 DEF Count
<1> HIDE DEF s, c, a, r, s1, c1, a1, r1
<1>6. s1 + c1 + a1 <= r1 + 1
  BY <1>3, <1>4, <1>5
<1>7. StartsCounted'
  BY <1>6 DEF StartsCounted, s1, c1, a1, r1
<1> QED BY <1>2, <1>7

\* The running slot returns.
LEMMA SlotReturns ==
    ASSUME IInv, frames /= <<>>, frames' = Rest, o' \in Objects, o'.id = o.id,
           o'.starts + Armed(o') + o.retries
               <= o.starts + Armed(o) + o'.retries + Pending(Top, o.id)
    PROVE  frames' \in Seq(Frames) /\ SlotsKnown' /\ StartsCounted'
<1>1. /\ Rest \in Seq(Frames) /\ Len(Rest) = Len(frames) - 1
      /\ \A i \in 1..Len(Rest) : Rest[i] = frames[i]
      /\ Count(frames, o.id) = Count(Rest, o.id) + Pending(Top, o.id)
  BY CountTypes, CountRest DEF Rest, Top
<1>2. SlotsKnown'
  BY <1>1, CountTypes DEF IInv, SlotsKnown
<1> DEFINE s == o.starts
           c == Count(frames, o.id)
           a == Armed(o)
           r == o.retries
           s1 == o'.starts
           c1 == Count(frames', o'.id)
           a1 == Armed(o')
           r1 == o'.retries
           gone == Pending(Top, o.id)
<1>3. s \in Nat /\ c \in Nat /\ a \in Nat /\ r \in Nat /\ s + c + a <= r + 1
  BY CountTypes DEF IInv, StartsCounted
<1>4. s1 \in Nat /\ r1 \in Nat /\ a1 \in Nat /\ s1 + a1 + r <= s + a + r1 + gone
  BY XrayBounds DEF Objects, Armed
<1>5. c1 \in Nat /\ gone \in Nat /\ c = c1 + gone
  BY <1>1, CountType DEF Pending
<1> HIDE DEF s, c, a, r, s1, c1, a1, r1, gone
<1>6. s1 + c1 + a1 <= r1 + 1
  BY <1>3, <1>4, <1>5
<1>7. StartsCounted'
  BY <1>6 DEF StartsCounted, s1, c1, a1, r1
<1> QED BY <1>1, <1>2, <1>7

\* A slot begins to wait, on top of the others.
LEMMA SlotWaits ==
    ASSUME IInv, NEW f \in Frames, f.obj <= o.id, frames' = Append(frames, f),
           o' \in Objects, o'.id = o.id,
           o'.starts + Armed(o') + Pending(f, o.id) + o.retries
               <= o.starts + Armed(o) + o'.retries
    PROVE  frames' \in Seq(Frames) /\ SlotsKnown' /\ StartsCounted'
<1>1. frames' \in Seq(Frames) /\ Count(frames', o.id) = Count(frames, o.id) + Pending(f, o.id)
  BY CountTypes, CountAppend
<1>2. SlotsKnown'
  BY CountTypes DEF IInv, SlotsKnown
<1> DEFINE s == o.starts
           c == Count(frames, o.id)
           a == Armed(o)
           r == o.retries
           s1 == o'.starts
           c1 == Count(frames', o'.id)
           a1 == Armed(o')
           r1 == o'.retries
           new == Pending(f, o.id)
<1>3. s \in Nat /\ c \in Nat /\ a \in Nat /\ r \in Nat /\ s + c + a <= r + 1
  BY CountTypes DEF IInv, StartsCounted
<1>4. s1 \in Nat /\ r1 \in Nat /\ a1 \in Nat /\ s1 + a1 + new + r <= s + a + r1
  BY XrayBounds DEF Objects, Armed
<1>5. new \in Nat /\ c1 = c + new
  BY <1>1 DEF Pending
<1> HIDE DEF s, c, a, r, s1, c1, a1, r1, new
<1>6. s1 + c1 + a1 <= r1 + 1
  BY <1>3, <1>4, <1>5
<1>7. StartsCounted'
  BY <1>6 DEF StartsCounted, s1, c1, a1, r1
<1> QED BY <1>1, <1>2, <1>7

\* The running slot goes on and waits again.
LEMMA SlotGoesOn ==
    ASSUME IInv, frames /= <<>>, NEW f \in Frames, f.obj <= o.id, frames' = Append(Rest, f),
           o' \in Objects, o'.id = o.id,
           o'.starts + Armed(o') + Pending(f, o.id) + o.retries
               <= o.starts + Armed(o) + o'.retries + Pending(Top, o.id)
    PROVE  frames' \in Seq(Frames) /\ SlotsKnown' /\ StartsCounted'
<1> DEFINE g == Rest
<1>1. /\ g \in Seq(Frames) /\ Len(g) = Len(frames) - 1
      /\ \A i \in 1..Len(g) : g[i] = frames[i]
      /\ Count(frames, o.id) = Count(g, o.id) + Pending(Top, o.id)
  BY CountTypes, CountRest DEF Rest, Top
<1>2. frames' = Append(g, f)
  OBVIOUS
<1> HIDE DEF g
<1>3. frames' \in Seq(Frames) /\ Count(frames', o.id) = Count(g, o.id) + Pending(f, o.id)
  BY <1>1, <1>2, CountAppend
<1>4. SlotsKnown'
  <2>1. \A i \in 1..Len(g) : g[i].obj <= o.id
    BY <1>1, CountTypes DEF IInv, SlotsKnown
  <2>2. Len(g) \in Nat /\ Len(frames') = Len(g) + 1 /\ frames'[Len(g) + 1] = f
        /\ \A i \in 1..Len(g) : frames'[i] = g[i]
    BY <1>1, <1>2
  <2>3. \A i \in 1..Len(frames') : i \in 1..Len(g) \/ i = Len(g) + 1
    BY <2>2
  <2>4. \A i \in 1..Len(frames') : frames'[i].obj <= o.id
    BY <2>1, <2>2, <2>3
  <2> QED BY <2>4 DEF SlotsKnown
<1> DEFINE s == o.starts
           c == Count(frames, o.id)
           a == Armed(o)
           r == o.retries
           s1 == o'.starts
           c1 == Count(frames', o'.id)
           a1 == Armed(o')
           r1 == o'.retries
           new == Pending(f, o.id)
           gone == Pending(Top, o.id)
           c2 == Count(g, o.id)
<1>5. s \in Nat /\ c \in Nat /\ a \in Nat /\ r \in Nat /\ s + c + a <= r + 1
  BY CountTypes DEF IInv, StartsCounted
<1>6. s1 \in Nat /\ r1 \in Nat /\ a1 \in Nat /\ s1 + a1 + new + r <= s + a + r1 + gone
  BY XrayBounds DEF Objects, Armed
<1>7. new \in Nat /\ gone \in Nat /\ c2 \in Nat /\ c1 = c2 + new /\ c = c2 + gone
  BY <1>1, <1>3, CountType DEF Pending
<1> HIDE DEF s, c, a, r, s1, c1, a1, r1, new, gone, c2
<1>8. s1 + c1 + a1 <= r1 + 1
  BY <1>5, <1>6, <1>7
<1>9. StartsCounted'
  BY <1>8 DEF StartsCounted, s1, c1, a1, r1
<1> QED BY <1>3, <1>4, <1>9

\* A step that leaves the counters alone keeps the balance.
SameCounters == o'.id = o.id /\ o'.starts = o.starts /\ o'.retries = o.retries /\ o'.timer = o.timer

LEMMA SameBalance ==
    ASSUME IInv, o' \in Objects, SameCounters, NEW p \in Nat, NEW q \in Nat, q <= p
    PROVE  /\ o'.starts + Armed(o') + o.retries <= o.starts + Armed(o) + o'.retries
           /\ o'.starts + Armed(o') + o.retries <= o.starts + Armed(o) + o'.retries + p
           /\ o'.starts + Armed(o') + 0 + o.retries <= o.starts + Armed(o) + o'.retries
           /\ o'.starts + Armed(o') + q + o.retries <= o.starts + Armed(o) + o'.retries + p
<1> DEFINE s == o.starts
           a == Armed(o)
           r == o.retries
<1>1. s \in Nat /\ a \in Nat /\ r \in Nat
  BY CountTypes
<1>2. o'.starts = s /\ Armed(o') = a /\ o'.retries = r
  BY DEF SameCounters, Armed
<1> HIDE DEF s, a, r
<1>3. /\ s + a + r <= s + a + r /\ s + a + r <= s + a + r + p
      /\ s + a + 0 + r <= s + a + r /\ s + a + q + r <= s + a + r + p
  BY <1>1
<1> QED BY <1>2, <1>3 DEF s, a, r

LEMMA PendingType == ASSUME NEW f, NEW n PROVE Pending(f, n) \in Nat
BY DEF Pending

\* The waiting slots stay, or the running one returns.
LEMMA SameKept ==
    ASSUME IInv, o' \in Objects, SameCounters,
           frames' = frames \/ (frames /= <<>> /\ frames' = Rest)
    PROVE  frames' \in Seq(Frames) /\ SlotsKnown' /\ StartsCounted'
<1>1. CASE frames' = frames
  <2>1. 0 \in Nat /\ 0 <= 0
    OBVIOUS
  <2>2. o'.starts + Armed(o') + o.retries <= o.starts + Armed(o) + o'.retries
    BY <2>1, SameBalance
  <2>3. frames' \in Seq(Frames) /\ Len(frames') = Len(frames)
        /\ \A i \in 1..Len(frames) : frames'[i].obj = frames[i].obj /\ frames'[i].at = frames[i].at
    BY <1>1, CountTypes
  <2> QED BY <2>2, <2>3, SlotsKept DEF SameCounters
<1>2. CASE frames /= <<>> /\ frames' = Rest
  <2>1. o'.starts + Armed(o') + o.retries
            <= o.starts + Armed(o) + o'.retries + Pending(Top, o.id)
    BY SameBalance, PendingType
  <2> QED BY <1>2, <2>1, SlotReturns DEF SameCounters
<1> QED BY <1>1, <1>2

-----------------------------------------------------------------------------
(* stop(). *)

CallRecords == [call : Calls, obj : 0..MaxObjects]

LEMMA StopFacts ==
    ASSUME IInv, ~o.stop, NEW final \in {"Disconnected", "Error"}, Stop(final)
    PROVE  /\ o' \in Objects /\ SameCounters /\ NotEnded' /\ SeenStep
           /\ ipc' \in Seq(CallRecords) /\ proc' \in [Pids -> Processes] /\ dirty' \in BOOLEAN
<1>1. /\ o \in Objects /\ ipc \in Seq(CallRecords) /\ proc \in [Pids -> Processes]
      /\ svc \in Services
  BY DEF IInv, TypeOK, CallRecords
<1>2. /\ o' \in Objects /\ SameCounters /\ o'.stop /\ o'.st = final
  <2>1. o' = [o EXCEPT !.stop = TRUE, !.st = final, !.proc = 0]
    BY DEF Stop
  <2>2. 0 \in 0..MaxProcs
    BY XrayBounds
  <2>3. o' \in Objects /\ o'.stop /\ o'.st = final
    BY <1>1, <2>1, <2>2 DEF Objects
  <2>4. SameCounters
    BY <1>1, <2>1 DEF Objects, SameCounters
  <2> QED BY <2>3, <2>4
<1>3. NotEnded' /\ SeenStep
  BY <1>2 DEF IInv, NotEnded, SeenStep, SameCounters
<1>4. ipc' \in Seq(CallRecords)
  <2> DEFINE calls == [i \in 1..4 |-> [call |-> StopCalls[i], obj |-> o.id]]
  <2>1. o.id \in 0..MaxObjects /\ \A i \in 1..4 : StopCalls[i] \in Calls
    BY <1>1 DEF Objects, Calls
  <2>2. calls \in [1..4 -> CallRecords]
    BY <2>1 DEF CallRecords
  <2>3. calls \in Seq(CallRecords)
    BY <2>2, SeqDef
  <2> HIDE DEF calls
  <2>4. ipc \o calls \in Seq(CallRecords)
    BY <1>1, <2>3
  <2> QED BY <1>1, <2>4 DEF Stop, calls
<1>5. proc' \in [Pids -> Processes]
  <2>1. ASSUME NEW p \in Pids
        PROVE  /\ [proc[p] EXCEPT !.cmds = Append(@, "kill")] \in Processes
               /\ [proc[p] EXCEPT !.lost = TRUE] \in Processes
    <3>1. proc[p] \in Processes /\ proc[p].cmds \in Seq({"start", "kill"})
      BY <1>1 DEF Processes
    <3>2. Append(proc[p].cmds, "kill") \in Seq({"start", "kill"})
      BY <3>1
    <3> QED BY <3>1, <3>2 DEF Processes
  <2> QED BY <1>1, <2>1 DEF Stop
<1>6. dirty' \in BOOLEAN
  <2>1. dirty' = ~svc.up
    BY DEF Stop
  <2> QED BY <2>1, Zenon
<1> QED BY <1>2, <1>3, <1>4, <1>5, <1>6

\* stop() keeps the invariant, whether VpnConnection or the running slot calls it.
LEMMA StopStep ==
    ASSUME IInv, ~o.stop, NEW final \in {"Disconnected", "Error"}, Stop(final), UNCHANGED svc,
           frames' = frames \/ (frames /= <<>> /\ frames' = Rest)
    PROVE  IInv' /\ SeenStep
<1>1. frames' \in Seq(Frames) /\ SlotsKnown' /\ StartsCounted'
  BY StopFacts, SameKept
<1>2. TypeOK'
  BY <1>1, StopFacts DEF IInv, TypeOK, CallRecords
<1> QED BY <1>1, <1>2, StopFacts DEF IInv

LEMMA FailStep ==
    ASSUME IInv, ~o.stop, NEW below, FailSlot(below),
           below = frames \/ (frames /= <<>> /\ below = Rest)
    PROVE  IInv' /\ SeenStep
BY StopStep DEF FailSlot

LEMMA ReturnStep ==
    ASSUME IInv, frames /= <<>>, Return
    PROVE  IInv' /\ SeenStep
<1>1. o' \in Objects /\ SameCounters /\ NotEnded' /\ SeenStep
  BY DEF Return, IInv, TypeOK, NotEnded, SameCounters, SeenStep
<1>2. frames' \in Seq(Frames) /\ SlotsKnown' /\ StartsCounted'
  BY <1>1, SameKept DEF Return
<1>3. TypeOK'
  BY <1>2 DEF Return, IInv, TypeOK
<1> QED BY <1>1, <1>2, <1>3 DEF IInv

LEMMA TunFailsStep ==
    ASSUME IInv, frames /= <<>>, ~o.stop, NEW f, TunFails(f)
    PROVE  IInv' /\ SeenStep
BY ReturnStep, FailStep DEF TunFails

-----------------------------------------------------------------------------
(* Waiting. *)

LEMMA WaitFacts ==
    ASSUME IInv, NEW call \in Calls, NEW by \in {"start", "timer", "slot"}
    PROVE  LET f == Frame(call, by, 0, Outstanding)
           IN  /\ f \in Frames /\ f.obj = o.id /\ f.obj <= o.id /\ f.at = call
               /\ Sent(call) \in Seq(CallRecords)
<1>1. o.id \in 0..MaxObjects /\ ipc \in Seq(CallRecords) /\ o.id \in Nat
  BY CountTypes DEF IInv, TypeOK, CallRecords, Objects
<1>2. [call |-> call, obj |-> o.id] \in CallRecords
  BY <1>1 DEF CallRecords
<1>3. Sent(call) \in Seq(CallRecords)
  BY <1>1, <1>2 DEF Sent
<1>4. 0 \in 0..MaxProcs /\ Outstanding \in 0..Outstanding
  BY XrayBounds DEF Outstanding
<1>5. o.id <= o.id
  BY <1>1
<1> QED BY <1>1, <1>3, <1>4, <1>5 DEF Frame, Frames

\* The running slot waits for its next call; a slot that is to start a process was one.
LEMMA WaitForStep ==
    ASSUME IInv, frames /= <<>>, NEW call \in Calls, NEW by \in {"start", "timer", "slot"},
           NEW obj, obj \in {o, [o EXCEPT !.setup = TRUE], [o EXCEPT !.setup = FALSE]},
           WaitFor(Rest, call, by, obj),
           call \in StartPlaces => Top.obj = o.id /\ Top.at \in StartPlaces
    PROVE  IInv' /\ SeenStep
<1>1. o \in Objects
  BY CountTypes
<1>2. o' \in Objects /\ SameCounters /\ o'.st = o.st /\ o'.stop = o.stop
  BY <1>1 DEF WaitFor, Objects, SameCounters
<1>3. NotEnded' /\ SeenStep
  BY <1>2 DEF IInv, NotEnded, SeenStep, SameCounters
<1> DEFINE f == Frame(call, by, 0, Outstanding)
<1>4. /\ f \in Frames /\ f.obj = o.id /\ f.obj <= o.id /\ f.at = call
      /\ Sent(call) \in Seq(CallRecords)
  BY WaitFacts
<1>5. frames' = Append(Rest, f) /\ ipc' = Sent(call) /\ UNCHANGED <<svc, proc, dirty>>
  BY DEF WaitFor
<1> HIDE DEF f
<1>6. Pending(f, o.id) \in Nat /\ Pending(Top, o.id) \in Nat
      /\ Pending(f, o.id) <= Pending(Top, o.id)
  BY <1>4 DEF Pending
<1>7. o'.starts + Armed(o') + Pending(f, o.id) + o.retries
          <= o.starts + Armed(o) + o'.retries + Pending(Top, o.id)
  BY <1>2, <1>6, SameBalance
<1>8. frames' \in Seq(Frames) /\ SlotsKnown' /\ StartsCounted'
  BY <1>2, <1>4, <1>5, <1>7, SlotGoesOn DEF SameCounters
<1>9. TypeOK'
  BY <1>2, <1>4, <1>5, <1>8 DEF IInv, TypeOK, CallRecords
<1> QED BY <1>3, <1>8, <1>9 DEF IInv

\* A slot of a process's signal begins to wait for its output.
LEMMA OutputStep ==
    ASSUME IInv, NEW at \in {"readErr", "readOut"}, NEW p \in Pids, NEW ret \in {0, 1},
           frames' = Append(frames, Frame(at, "slot", p, ret)),
           proc' \in [Pids -> Processes], UNCHANGED <<o, ipc, svc, dirty>>
    PROVE  IInv' /\ SeenStep
<1> DEFINE f == Frame(at, "slot", p, ret)
<1>1. f \in Frames /\ f.obj = o.id /\ f.obj <= o.id /\ f.at = at
  <2>1. o.id \in 0..MaxObjects /\ o.id <= o.id
    BY CountTypes DEF Objects
  <2>2. p \in 0..MaxProcs /\ ret \in 0..Outstanding
    BY XrayBounds DEF Pids, Outstanding
  <2> QED BY <2>1, <2>2 DEF Frame, Frames
<1>2. o' \in Objects /\ SameCounters /\ NotEnded' /\ SeenStep
  BY CountTypes DEF IInv, NotEnded, SameCounters, SeenStep
<1> HIDE DEF f
<1>3. Pending(f, o.id) = 0
  BY <1>1 DEF Pending, StartPlaces
<1>4. 0 \in Nat /\ 0 <= 0
  OBVIOUS
<1>5. o'.starts + Armed(o') + 0 + o.retries <= o.starts + Armed(o) + o'.retries
  BY <1>2, <1>4, SameBalance
<1>6. frames' \in Seq(Frames) /\ SlotsKnown' /\ StartsCounted'
  BY <1>1, <1>2, <1>3, <1>5, SlotWaits DEF SameCounters, f
<1>7. TypeOK'
  BY <1>2, <1>6 DEF IInv, TypeOK
<1> QED BY <1>2, <1>6, <1>7 DEF IInv

\* Steps of the processes, which no slot notices.
LEMMA ProcessStep ==
    ASSUME IInv, proc' \in [Pids -> Processes], UNCHANGED <<o, frames, ipc, svc, dirty>>
    PROVE  IInv' /\ SeenStep
<1>1. o' \in Objects /\ SameCounters /\ NotEnded' /\ SeenStep
  BY CountTypes DEF IInv, NotEnded, SameCounters, SeenStep
<1>2. frames' \in Seq(Frames) /\ SlotsKnown' /\ StartsCounted'
  BY <1>1, SameKept
<1>3. TypeOK'
  BY <1>1, <1>2 DEF IInv, TypeOK
<1> QED BY <1>1, <1>2, <1>3 DEF IInv

-----------------------------------------------------------------------------
(* The actions of the object. *)

LEMMA TopFacts ==
    ASSUME IInv, frames /= <<>>
    PROVE  Top \in Frames /\ Top.obj <= o.id /\ Top.pid \in 0..MaxProcs
<1>1. frames \in Seq(Frames) /\ Len(frames) \in Nat
  BY CountTypes
<1>2. Len(frames) \in 1..Len(frames)
  BY <1>1
<1>3. Top \in Frames
  BY <1>1, <1>2 DEF Top
<1> QED BY <1>2, <1>3 DEF IInv, SlotsKnown, Top, Frames

\* A new object: no slot of its own waits yet.
LEMMA StartStep ==
    ASSUME IInv, NEW opts \in SUBSET Optional, Start(opts)
    PROVE  IInv' /\ SeenStep
<1> DEFINE n == o.id + 1
<1>1. o \in Objects /\ o.id \in Nat /\ o.id < MaxObjects /\ n \in 0..MaxObjects
      /\ frames \in Seq(Frames) /\ Len(frames) \in Nat
  BY CountTypes, XrayBounds DEF Start
<1>2. o' = NewObject(n, opts)
  BY DEF Start
<1>3. /\ o' \in Objects /\ o'.id = n /\ o'.st = "Unknown"
      /\ o'.starts = 0 /\ o'.retries = 0 /\ ~o'.timer
  BY <1>1, <1>2, XrayBounds DEF NewObject, Objects
<1>4. NotEnded' /\ SeenStep
  BY <1>3 DEF NotEnded, SeenStep
<1>5. Count(frames, n) = 0
  <2>1. Starting(frames, n) = {}
    <3>1. ASSUME NEW i \in 1..Len(frames) PROVE frames[i].obj /= n
      <4>1. frames[i] \in Frames /\ frames[i].obj <= o.id
        BY <1>1 DEF IInv, SlotsKnown
      <4>2. frames[i].obj \in 0..MaxObjects
        BY <4>1 DEF Frames
      <4> QED BY <1>1, <4>1, <4>2
    <3> QED BY <3>1 DEF Starting
  <2> QED BY <2>1, FS_EmptySet DEF Count
<1>6. \A i \in 1..Len(frames) : frames[i].obj <= n
  <2>1. \A i \in 1..Len(frames) : frames[i] \in Frames /\ frames[i].obj <= o.id
    BY <1>1 DEF IInv, SlotsKnown
  <2> QED BY <1>1, <2>1 DEF Frames
<1> HIDE DEF n
<1>7. CASE UNCHANGED <<frames, ipc>>
  <2>1. SlotsKnown' /\ frames' \in Seq(Frames)
    BY <1>1, <1>3, <1>6, <1>7 DEF SlotsKnown
  <2>2. StartsCounted'
    BY <1>3, <1>5, <1>7 DEF StartsCounted, Armed
  <2>3. TypeOK'
    BY <1>3, <1>7, <2>1 DEF Start, IInv, TypeOK
  <2> QED BY <1>4, <2>1, <2>2, <2>3 DEF IInv
<1>8. CASE ~UNCHANGED <<frames, ipc>>
  <2> DEFINE f == [at |-> "xrayStart", by |-> "start", obj |-> n, pid |-> 0, ret |-> Outstanding]
             e == [call |-> "xrayStart", obj |-> n]
  <2>1. frames' = Append(frames, f) /\ ipc' = Append(ipc, e) /\ UNCHANGED <<svc, proc, dirty>>
    BY <1>8 DEF Start, n
  <2>2. f \in Frames /\ f.obj = n
    <3>1. 0 \in 0..MaxProcs /\ Outstanding \in 0..Outstanding
      BY XrayBounds DEF Outstanding
    <3> QED BY <1>1, <3>1 DEF Frames, Calls
  <2>3. e \in CallRecords
    BY <1>1 DEF CallRecords, Calls
  <2> HIDE DEF f, e
  <2>4. ipc' \in Seq(CallRecords)
    BY <2>1, <2>3 DEF IInv, TypeOK, CallRecords
  <2>5. frames' \in Seq(Frames) /\ Count(frames', n) = Count(frames, n) + Pending(f, n)
    BY <1>1, <2>1, <2>2, CountAppend
  <2>6. Pending(f, n) \in 0..1
    BY DEF Pending
  <2>7. StartsCounted'
    <3>1. Count(frames', n) <= 1 /\ Count(frames', n) \in Nat
      BY <1>5, <2>5, <2>6
    <3>2. o'.starts = 0 /\ o'.retries = 0 /\ Armed(o') = 0 /\ o'.id = n
      BY <1>3 DEF Armed
    <3> DEFINE c == Count(frames', n)
    <3>3. c \in Nat /\ c <= 1
      BY <3>1
    <3> HIDE DEF c
    <3>4. 0 + c + 0 <= 0 + 1
      BY <3>3
    <3> QED BY <3>2, <3>4 DEF StartsCounted, c
  <2>8. SlotsKnown'
    <3>1. \A i \in 1..Len(frames') : i \in 1..Len(frames) \/ i = Len(frames) + 1
      BY <1>1, <2>1
    <3>2. n <= n
      BY <1>1
    <3>3. \A i \in 1..Len(frames') : frames'[i].obj <= n
      BY <1>1, <1>6, <2>1, <2>2, <3>1, <3>2
    <3> QED BY <1>3, <3>3 DEF SlotsKnown
  <2>9. TypeOK'
    BY <1>3, <2>1, <2>4, <2>5 DEF IInv, TypeOK, CallRecords
  <2> QED BY <1>4, <2>7, <2>8, <2>9 DEF IInv
<1> QED BY <1>7, <1>8

LEMMA ReplyXrayStartStep ==
    ASSUME IInv, ReplyXrayStart
    PROVE  IInv' /\ SeenStep
<1>1. frames /= <<>> /\ Top.at = "xrayStart"
  BY DEF ReplyXrayStart, WaitsAt
<1>2. CASE Alive(Top) /\ Top.ret = 1 /\ svc.up
  <2>1. WaitFor(Rest, "deleteTun", "start", [o EXCEPT !.setup = FALSE])
    BY <1>2 DEF ReplyXrayStart
  <2>2. "deleteTun" \in Calls /\ Top.obj = o.id /\ Top.at \in StartPlaces
    BY <1>1, <1>2 DEF Calls, Alive, StartPlaces
  <2> QED BY <1>1, <2>1, <2>2, WaitForStep
<1>3. CASE ~(Alive(Top) /\ Top.ret = 1 /\ svc.up)
  BY <1>1, <1>3, ReturnStep DEF ReplyXrayStart
<1> QED BY <1>2, <1>3

LEMMA ReplyDeleteTunStep ==
    ASSUME IInv, ReplyDeleteTun
    PROVE  IInv' /\ SeenStep
<1>1. frames /= <<>> /\ Top.at = "deleteTun" /\ Top.by \in {"start", "timer", "slot"}
  BY TopFacts DEF ReplyDeleteTun, WaitsAt, Frames
<1>2. CASE ~Alive(Top)
  BY <1>1, <1>2, ReturnStep DEF ReplyDeleteTun
<1>3. CASE Alive(Top) /\ (Top.ret # 1 \/ ~svc.up)
  BY <1>1, <1>3, TunFailsStep DEF ReplyDeleteTun, Alive
<1>4. CASE Alive(Top) /\ ~(Top.ret # 1 \/ ~svc.up)
  <2>1. WaitFor(Rest, "createPrivilegedProcess", Top.by, o)
    BY <1>4 DEF ReplyDeleteTun
  <2>2. "createPrivilegedProcess" \in Calls /\ Top.obj = o.id /\ Top.at \in StartPlaces
    BY <1>1, <1>4 DEF Calls, Alive, StartPlaces
  <2> QED BY <1>1, <2>1, <2>2, WaitForStep
<1> QED BY <1>2, <1>3, <1>4

LEMMA ReplyCreateProcessStep ==
    ASSUME IInv, ReplyCreateProcess
    PROVE  IInv' /\ SeenStep
<1>1. frames /= <<>> /\ Top.at = "createPrivilegedProcess"
  BY DEF ReplyCreateProcess, WaitsAt
<1>2. CASE Top.ret \in Pids
  <2> DEFINE f == [Top EXCEPT !.at = "acquire", !.pid = Top.ret]
  <2>1. frames' = Append(Rest, f) /\ UNCHANGED <<o, ipc, svc, proc, dirty>>
    BY <1>2 DEF ReplyCreateProcess
  <2>2. f \in Frames /\ f.obj = Top.obj /\ f.obj <= o.id /\ f.at = "acquire"
    <3>1. Top.ret \in 0..MaxProcs
      BY <1>2, XrayBounds DEF Pids
    <3> QED BY <1>1, <3>1, TopFacts DEF Frames
  <2> HIDE DEF f
  <2>3. Pending(f, o.id) = Pending(Top, o.id)
    BY <1>1, <2>2 DEF Pending, StartPlaces
  <2>4. o' \in Objects /\ SameCounters /\ NotEnded' /\ SeenStep
    BY <2>1, CountTypes DEF IInv, NotEnded, SameCounters, SeenStep
  <2>5. Pending(Top, o.id) \in Nat /\ Pending(Top, o.id) <= Pending(Top, o.id)
    BY DEF Pending
  <2>6. o'.starts + Armed(o') + Pending(f, o.id) + o.retries
            <= o.starts + Armed(o) + o'.retries + Pending(Top, o.id)
    BY <2>3, <2>4, <2>5, SameBalance
  <2>7. frames' \in Seq(Frames) /\ SlotsKnown' /\ StartsCounted'
    BY <1>1, <2>1, <2>2, <2>4, <2>6, SlotGoesOn DEF SameCounters
  <2>8. TypeOK'
    BY <2>1, <2>4, <2>7 DEF IInv, TypeOK
  <2> QED BY <2>4, <2>7, <2>8 DEF IInv
<1>3. CASE Top.ret \notin Pids
  BY <1>1, <1>3, ReturnStep, TunFailsStep DEF ReplyCreateProcess, Alive
<1> QED BY <1>2, <1>3

LEMMA ReplyAcquireStep ==
    ASSUME IInv, NEW ok \in BOOLEAN, ReplyAcquire(ok)
    PROVE  IInv' /\ SeenStep
<1> DEFINE p == Top.pid
           fine == ok /\ svc.up /\ ~proc[p].lost
<1>1. frames /= <<>> /\ Top.at = "acquire" /\ p \in 0..MaxProcs
  BY TopFacts DEF ReplyAcquire, WaitsAt
<1>2. CASE ~Alive(Top)
  BY <1>1, <1>2, ReturnStep DEF ReplyAcquire
<1>3. CASE Alive(Top) /\ ~fine
  BY <1>1, <1>3, TunFailsStep DEF ReplyAcquire, Alive
<1>4. CASE Alive(Top) /\ fine
  <2>1. /\ o' = [o EXCEPT !.proc = p, !.starts = @ + 1]
        /\ proc' = [proc EXCEPT ![p].cmds = Append(@, "start")]
        /\ frames' = Rest /\ UNCHANGED <<ipc, svc, dirty>>
    BY <1>4 DEF ReplyAcquire
  <2> HIDE DEF p, fine
  <2>2. o \in Objects /\ o.starts \in Nat /\ o.starts + 1 \in Nat
    BY CountTypes
  <2>3. /\ o' \in Objects /\ o'.id = o.id /\ o'.starts = o.starts + 1 /\ o'.retries = o.retries
        /\ o'.timer = o.timer /\ o'.st = o.st /\ o'.stop = o.stop
    BY <1>1, <2>1, <2>2 DEF Objects
  <2>4. NotEnded' /\ SeenStep
    BY <2>3 DEF IInv, NotEnded, SeenStep
  <2>5. Pending(Top, o.id) = 1
    BY <1>1, <1>4 DEF Pending, StartPlaces, Alive
  <2>6. o'.starts + Armed(o') + o.retries
            <= o.starts + Armed(o) + o'.retries + Pending(Top, o.id)
    <3> DEFINE s == o.starts
               a == Armed(o)
               r == o.retries
    <3>1. s \in Nat /\ a \in Nat /\ r \in Nat
      BY CountTypes
    <3>2. o'.starts = s + 1 /\ Armed(o') = a /\ o'.retries = r
      BY <2>3 DEF Armed
    <3> HIDE DEF s, a, r
    <3>3. s + 1 + a + r <= s + a + r + 1
      BY <3>1
    <3> QED BY <2>5, <3>2, <3>3 DEF s, a, r
  <2>7. frames' \in Seq(Frames) /\ SlotsKnown' /\ StartsCounted'
    BY <1>1, <2>1, <2>3, <2>6, SlotReturns
  <2>8. proc' \in [Pids -> Processes]
    <3>1. proc \in [Pids -> Processes]
      BY DEF IInv, TypeOK
    <3>2. ASSUME NEW q \in Pids
          PROVE  [proc[q] EXCEPT !.cmds = Append(@, "start")] \in Processes
      <4>1. proc[q] \in Processes /\ proc[q].cmds \in Seq({"start", "kill"})
        BY <3>1 DEF Processes
      <4>2. Append(proc[q].cmds, "start") \in Seq({"start", "kill"})
        BY <4>1
      <4> QED BY <4>1, <4>2 DEF Processes
    <3> QED BY <2>1, <3>1, <3>2
  <2>9. TypeOK'
    BY <2>1, <2>3, <2>7, <2>8 DEF IInv, TypeOK
  <2> QED BY <2>4, <2>7, <2>9 DEF IInv
<1> QED BY <1>2, <1>3, <1>4

LEMMA RetryTimerStep ==
    ASSUME IInv, RetryTimer
    PROVE  IInv' /\ SeenStep
<1>1. o \in Objects /\ o.timer
  BY CountTypes DEF RetryTimer
<1>2. CASE o.stop
  <2>1. o' = [o EXCEPT !.timer = FALSE] /\ UNCHANGED <<frames, ipc, svc, proc, dirty>>
    BY <1>2 DEF RetryTimer
  <2>2. /\ o' \in Objects /\ o'.id = o.id /\ o'.starts = o.starts /\ o'.retries = o.retries
        /\ ~o'.timer /\ o'.st = o.st /\ o'.stop = o.stop
    BY <1>1, <2>1 DEF Objects
  <2>3. NotEnded' /\ SeenStep
    BY <2>2 DEF IInv, NotEnded, SeenStep
  <2>4. o'.starts + Armed(o') + o.retries <= o.starts + Armed(o) + o'.retries
    <3> DEFINE s == o.starts
               r == o.retries
    <3>1. s \in Nat /\ r \in Nat
      BY CountTypes
    <3>2. o'.starts = s /\ Armed(o') = 0 /\ Armed(o) = 1 /\ o'.retries = r
      BY <1>1, <2>2 DEF Armed
    <3> HIDE DEF s, r
    <3>3. s + 0 + r <= s + 1 + r
      BY <3>1
    <3> QED BY <3>2, <3>3 DEF s, r
  <2>5. SlotsKnown' /\ StartsCounted'
    BY <2>1, <2>2, <2>4, SlotsKept, CountTypes
  <2>6. TypeOK'
    BY <2>1, <2>2 DEF IInv, TypeOK
  <2> QED BY <2>3, <2>5, <2>6 DEF IInv
<1>3. CASE ~o.stop /\ svc.up
  <2> DEFINE f == Frame("deleteTun", "timer", 0, Outstanding)
  <2>1. /\ frames' = Append(frames, f) /\ ipc' = Sent("deleteTun")
        /\ o' = [o EXCEPT !.timer = FALSE, !.setup = FALSE] /\ UNCHANGED <<svc, proc, dirty>>
    BY <1>3 DEF RetryTimer, WaitFor
  <2>2. f \in Frames /\ f.obj = o.id /\ f.obj <= o.id /\ Sent("deleteTun") \in Seq(CallRecords)
    BY WaitFacts DEF Calls
  <2> HIDE DEF f
  <2>3. /\ o' \in Objects /\ o'.id = o.id /\ o'.starts = o.starts /\ o'.retries = o.retries
        /\ ~o'.timer /\ o'.st = o.st /\ o'.stop = o.stop
    BY <1>1, <2>1 DEF Objects
  <2>4. NotEnded' /\ SeenStep
    BY <2>3 DEF IInv, NotEnded, SeenStep
  <2>5. o'.starts + Armed(o') + Pending(f, o.id) + o.retries
            <= o.starts + Armed(o) + o'.retries
    <3> DEFINE s == o.starts
               r == o.retries
               q == Pending(f, o.id)
    <3>1. s \in Nat /\ r \in Nat /\ q \in 0..1
      BY CountTypes DEF Pending
    <3>2. o'.starts = s /\ Armed(o') = 0 /\ Armed(o) = 1 /\ o'.retries = r
      BY <1>1, <2>3 DEF Armed
    <3> HIDE DEF s, r, q
    <3>3. s + 0 + q + r <= s + 1 + r
      BY <3>1
    <3> QED BY <3>2, <3>3 DEF s, r, q
  <2>6. frames' \in Seq(Frames) /\ SlotsKnown' /\ StartsCounted'
    BY <2>1, <2>2, <2>3, <2>5, SlotWaits
  <2>7. TypeOK'
    BY <2>1, <2>2, <2>3, <2>6 DEF IInv, TypeOK, CallRecords
  <2> QED BY <2>4, <2>6, <2>7 DEF IInv
<1>4. CASE ~o.stop /\ ~svc.up
  BY <1>4, FailStep DEF RetryTimer
<1> QED BY <1>2, <1>3, <1>4

LEMMA ReadyReadStep ==
    ASSUME IInv, NEW p \in Pids, ReadyReadStandardError(p)
    PROVE  IInv' /\ SeenStep
<1>1. proc \in [Pids -> Processes]
  BY DEF IInv, TypeOK
<1>2. proc' \in [Pids -> Processes]
  <2>1. \/ proc' = [proc EXCEPT ![p].ready = FALSE]
        \/ proc' = [proc EXCEPT ![p].ready = FALSE, ![p].line = FALSE]
    BY DEF ReadyReadStandardError
  <2>2. [proc EXCEPT ![p].ready = FALSE] \in [Pids -> Processes]
    BY <1>1 DEF Processes
  <2>3. [proc EXCEPT ![p].ready = FALSE, ![p].line = FALSE] \in [Pids -> Processes]
    BY <1>1 DEF Processes
  <2> QED BY <2>1, <2>2, <2>3
<1>3. CASE UNCHANGED frames
  BY <1>2, <1>3, ProcessStep DEF ReadyReadStandardError
<1>4. CASE frames' = Append(frames, Frame("readErr", "slot", p, IF proc[p].line THEN 1 ELSE 0))
  <2>1. (IF proc[p].line THEN 1 ELSE 0) \in {0, 1}
    OBVIOUS
  <2> QED BY <1>2, <1>4, <2>1, OutputStep DEF ReadyReadStandardError
<1> QED BY <1>3, <1>4 DEF ReadyReadStandardError

LEMMA ReplyReadErrStep ==
    ASSUME IInv, NEW ok \in BOOLEAN, ReplyReadErr(ok)
    PROVE  IInv' /\ SeenStep
<1> DEFINE go == Alive(Top) /\ ~o.setup /\ o.proc = Top.pid /\ ok /\ Top.ret = 1
<1>1. frames /= <<>>
  BY DEF ReplyReadErr, WaitsAt
<1>2. CASE ~go
  BY <1>1, <1>2, ReturnStep DEF ReplyReadErr
<1>3. CASE go /\ svc.up
  <2>1. WaitFor(Rest, "createTun", "slot", [o EXCEPT !.setup = TRUE])
    BY <1>3 DEF ReplyReadErr
  <2>2. "createTun" \in Calls /\ "createTun" \notin StartPlaces
    <3>1. SetupCalls[1] = "createTun"
      BY DEF SetupCalls
    <3> QED BY <3>1 DEF Calls, StartPlaces
  <2> QED BY <1>1, <2>1, <2>2, WaitForStep
<1>4. CASE go /\ ~svc.up
  BY <1>1, <1>4, FailStep DEF ReplyReadErr, Alive
<1> QED BY <1>2, <1>3, <1>4

\* The next call of setupRouting() is one of its calls.
LEMMA LeastSetup ==
    ASSUME NEW S, S \subseteq 1..5, S # {}
    PROVE  \E j \in S : \A k \in S : j <= k
<1>1. \A j \in S : j \in {1, 2, 3, 4, 5}
  OBVIOUS
<1>2. CASE 1 \in S
  BY <1>1, <1>2
<1>3. CASE 1 \notin S /\ 2 \in S
  BY <1>1, <1>3
<1>4. CASE 1 \notin S /\ 2 \notin S /\ 3 \in S
  BY <1>1, <1>4
<1>5. CASE 1 \notin S /\ 2 \notin S /\ 3 \notin S /\ 4 \in S
  BY <1>1, <1>5
<1>6. CASE 1 \notin S /\ 2 \notin S /\ 3 \notin S /\ 4 \notin S
  <2>1. 5 \in S
    BY <1>1, <1>6
  <2> QED BY <1>1, <1>6, <2>1
<1> QED BY <1>2, <1>3, <1>4, <1>5, <1>6

LEMMA SetupNext ==
    ASSUME NEW i \in Nat, i >= 1, SetupFrom(i) # {}
    PROVE  FirstSetup(i) \in Calls /\ FirstSetup(i) \notin StartPlaces
<1> DEFINE S == SetupFrom(i)
<1>1. S \subseteq 1..5 /\ S # {}
  BY DEF SetupFrom
<1> HIDE DEF S
<1>2. \E j \in S : \A k \in S : j <= k
  BY <1>1, LeastSetup
<1> DEFINE m == CHOOSE j \in S : \A k \in S : j <= k
<1>3. m \in S
  BY <1>2
<1>4. m \in 1..5 /\ FirstSetup(i) = SetupCalls[m]
  BY <1>1, <1>3 DEF FirstSetup, S
<1> HIDE DEF m
<1>5. SetupCalls[m] \in {"createTun", "updateResolvers", "enableKillSwitch", "routeAddList",
                         "StopRoutingIpv6"}
  BY <1>4 DEF SetupCalls
<1> QED BY <1>4, <1>5 DEF Calls, StartPlaces

LEMMA ReplySetupStep ==
    ASSUME IInv, ReplySetup
    PROVE  IInv' /\ SeenStep
<1> DEFINE next == SetupIndex(Top.at) + 1
<1>1. frames /= <<>> /\ Top.at \in {SetupCalls[i] : i \in 1..5}
  BY DEF ReplySetup, WaitsAt
<1>2. next \in Nat /\ next >= 1
  <2>1. \E i \in 1..5 : SetupCalls[i] = Top.at
    BY <1>1
  <2>2. SetupIndex(Top.at) \in 1..5
    BY <2>1 DEF SetupIndex
  <2> QED BY <2>2
<1>3. CASE ~Alive(Top)
  BY <1>1, <1>3, ReturnStep DEF ReplySetup
<1>4. CASE Alive(Top) /\ Top.ret # 1
  BY <1>1, <1>4, FailStep DEF ReplySetup, Alive
<1>5. CASE Alive(Top) /\ Top.ret = 1 /\ SetupFrom(next) # {}
  <2>1. WaitFor(Rest, FirstSetup(next), "slot", o)
    BY <1>5 DEF ReplySetup
  <2> HIDE DEF next
  <2>2. FirstSetup(next) \in Calls /\ FirstSetup(next) \notin StartPlaces
    BY <1>2, <1>5, SetupNext
  <2> QED BY <1>1, <2>1, <2>2, WaitForStep
<1>6. CASE Alive(Top) /\ Top.ret = 1 /\ SetupFrom(next) = {}
  <2>1. o' = [o EXCEPT !.st = "Connected"] /\ frames' = Rest /\ UNCHANGED <<ipc, svc, proc, dirty>>
    BY <1>6 DEF ReplySetup
  <2>2. o' \in Objects /\ SameCounters /\ o'.st = "Connected" /\ o'.stop = o.stop
    BY <2>1, CountTypes DEF Objects, SameCounters
  <2>3. NotEnded' /\ SeenStep
    BY <1>6, <2>2 DEF IInv, NotEnded, SeenStep, SameCounters, Alive
  <2>4. frames' \in Seq(Frames) /\ SlotsKnown' /\ StartsCounted'
    BY <1>1, <2>1, <2>2, SameKept
  <2>5. TypeOK'
    BY <2>1, <2>2, <2>4 DEF IInv, TypeOK
  <2> QED BY <2>3, <2>4, <2>5 DEF IInv
<1> QED BY <1>3, <1>4, <1>5, <1>6

LEMMA FinishedStep ==
    ASSUME IInv, NEW p \in Pids, Finished(p)
    PROVE  IInv' /\ SeenStep
<1>1. proc' \in [Pids -> Processes]
  <2>1. proc \in [Pids -> Processes]
    BY DEF IInv, TypeOK
  <2> QED BY <2>1 DEF Finished, Processes
<1>2. CASE frames' = frames
  BY <1>1, <1>2, ProcessStep DEF Finished
<1>3. CASE frames' = Append(frames, Frame("readOut", "slot", p, 1))
  BY <1>1, <1>3, OutputStep DEF Finished
<1> QED BY <1>2, <1>3 DEF Finished

LEMMA ReplyReadOutStep ==
    ASSUME IInv, NEW ok \in BOOLEAN, ReplyReadOut(ok)
    PROVE  IInv' /\ SeenStep
<1> DEFINE mine == Alive(Top) /\ o.proc = Top.pid
           again == ok /\ proc[Top.pid].busy /\ o.retries < MaxRetries
<1>1. frames /= <<>>
  BY DEF ReplyReadOut, WaitsAt
<1>2. CASE ~mine
  BY <1>1, <1>2, ReturnStep DEF ReplyReadOut
<1>3. CASE mine /\ again
  <2>1. /\ o' = [o EXCEPT !.retries = @ + 1, !.timer = TRUE]
        /\ frames' = Rest /\ UNCHANGED <<ipc, svc, proc, dirty>>
    BY <1>3 DEF ReplyReadOut
  <2>2. o \in Objects /\ o.retries + 1 \in 0..MaxRetries
    BY <1>3, CountTypes, XrayBounds
  <2> HIDE DEF mine, again
  <2>3. /\ o' \in Objects /\ o'.id = o.id /\ o'.starts = o.starts /\ o'.retries = o.retries + 1
        /\ o'.timer /\ o'.st = o.st /\ o'.stop = o.stop
    BY <2>1, <2>2 DEF Objects
  <2>4. NotEnded' /\ SeenStep
    BY <2>3 DEF IInv, NotEnded, SeenStep
  <2>5. o'.starts + Armed(o') + o.retries
            <= o.starts + Armed(o) + o'.retries + Pending(Top, o.id)
    <3> DEFINE s == o.starts
               a == Armed(o)
               r == o.retries
               q == Pending(Top, o.id)
    <3>1. s \in Nat /\ a \in Nat /\ r \in Nat /\ q \in Nat
      BY CountTypes, PendingType
    <3>2. o'.starts = s /\ Armed(o') = 1 /\ o'.retries = r + 1
      BY <2>3 DEF Armed
    <3> HIDE DEF s, a, r, q
    <3>3. s + 1 + r <= s + a + (r + 1) + q
      BY <3>1
    <3> QED BY <3>2, <3>3 DEF s, a, r, q
  <2>6. frames' \in Seq(Frames) /\ SlotsKnown' /\ StartsCounted'
    BY <1>1, <2>1, <2>3, <2>5, SlotReturns
  <2>7. TypeOK'
    BY <2>1, <2>3, <2>6 DEF IInv, TypeOK
  <2> QED BY <2>4, <2>6, <2>7 DEF IInv
<1>4. CASE mine /\ ~again
  BY <1>1, <1>4, FailStep DEF ReplyReadOut, Alive
<1> QED BY <1>2, <1>3, <1>4

-----------------------------------------------------------------------------
(* The service and the crashes. *)

LEMMA EndedType ==
    ASSUME NEW q \in Processes, NEW busy \in BOOLEAN
    PROVE  Ended(q, busy) \in Processes
<1>1. (~q.lost) \in BOOLEAN
  BY Zenon
<1> QED BY <1>1 DEF Ended, Processes

LEMMA ServeStep ==
    ASSUME IInv, NEW ok \in BOOLEAN, Serve(ok)
    PROVE  IInv' /\ SeenStep
<1> DEFINE c == Head(ipc)
           ret == CASE ~ok -> 0
                    [] c.call = "createPrivilegedProcess" ->
                         IF svc'.npid # svc.npid THEN svc'.npid ELSE 0
                    [] OTHER -> 1
<1>1. /\ ipc \in Seq(CallRecords) /\ ipc # <<>> /\ svc \in Services
      /\ proc \in [Pids -> Processes] /\ UNCHANGED <<o, dirty>>
  BY DEF Serve, IInv, TypeOK, CallRecords
<1>2. ipc' \in Seq(CallRecords)
  BY <1>1 DEF Serve
<1>3. svc' \in Services /\ (svc'.npid # svc.npid => svc'.npid \in Pids)
  <2>1. svc.npid \in 0..MaxProcs /\ (svc.npid < MaxProcs => svc.npid + 1 \in Pids)
    BY <1>1, XrayBounds DEF Services, Pids
  <2>2. \/ svc' = [svc EXCEPT !.core = @ \/ ok, !.uplink = TRUE]
        \/ svc' = [svc EXCEPT !.core = FALSE, !.uplink = FALSE]
        \/ svc' = [svc EXCEPT !.dns = @ \/ ok]
        \/ svc' = [svc EXCEPT !.dns = FALSE]
        \/ svc.npid < MaxProcs /\ svc' = [svc EXCEPT !.npid = @ + 1]
        \/ svc' = svc
    BY DEF Serve
  <2>3. (svc.core \/ ok) \in BOOLEAN /\ (svc.dns \/ ok) \in BOOLEAN
    BY Zenon
  <2>4. svc.npid < MaxProcs => svc.npid + 1 \in 0..MaxProcs
    BY <2>1, XrayBounds DEF Pids
  <2>5. CASE svc' = [svc EXCEPT !.core = @ \/ ok, !.uplink = TRUE]
    <3> DEFINE b == svc.core \/ ok
    <3>1. b \in BOOLEAN /\ svc' = [svc EXCEPT !.core = b, !.uplink = TRUE]
      BY <2>3, <2>5
    <3> HIDE DEF b
    <3> QED BY <1>1, <3>1 DEF Services
  <2>6. CASE svc' = [svc EXCEPT !.dns = @ \/ ok]
    <3> DEFINE b == svc.dns \/ ok
    <3>1. b \in BOOLEAN /\ svc' = [svc EXCEPT !.dns = b]
      BY <2>3, <2>6
    <3> HIDE DEF b
    <3> QED BY <1>1, <3>1 DEF Services
  <2>7. CASE svc' = [svc EXCEPT !.core = FALSE, !.uplink = FALSE] \/ svc' = [svc EXCEPT !.dns = FALSE]
             \/ svc' = svc
    BY <1>1, <2>7 DEF Services
  <2>8. CASE svc.npid < MaxProcs /\ svc' = [svc EXCEPT !.npid = @ + 1]
    BY <1>1, <2>1, <2>4, <2>8 DEF Services
  <2> QED BY <2>2, <2>5, <2>6, <2>7, <2>8
<1>4. proc' \in [Pids -> Processes]
  <2>1. \/ proc' = [p \in Pids |-> IF proc[p].st = "running" THEN Ended(proc[p], FALSE) ELSE proc[p]]
        \/ proc' = [proc EXCEPT ![svc'.npid] = NewProcess("idle")]
        \/ proc' = proc
    BY DEF Serve
  <2>2. NewProcess("idle") \in Processes
    BY DEF NewProcess, Processes
  <2>3. \A p \in Pids : Ended(proc[p], FALSE) \in Processes /\ proc[p] \in Processes
    BY <1>1, EndedType
  <2> QED BY <1>1, <2>1, <2>2, <2>3
<1>5. ret \in 0..Outstanding
  BY <1>3, XrayBounds DEF Pids, Outstanding
<1>6. Answer(c, ret)
  BY DEF Serve
<1> HIDE DEF c, ret
<1>7. /\ frames' \in Seq(Frames) /\ Len(frames') = Len(frames)
      /\ \A i \in 1..Len(frames) : frames'[i].obj = frames[i].obj /\ frames'[i].at = frames[i].at
  <2>1. frames \in Seq(Frames) /\ Len(frames) \in Nat /\ DOMAIN frames = 1..Len(frames)
        /\ \A i \in 1..Len(frames) : frames[i] \in Frames
    BY CountTypes
  <2>2. frames' = [i \in 1..Len(frames) |->
                     IF frames[i].at = c.call /\ frames[i].obj = c.obj /\ frames[i].ret = Outstanding
                     THEN [frames[i] EXCEPT !.ret = ret] ELSE frames[i]]
    BY <1>6, <2>1 DEF Answer
  <2>3. \A i \in 1..Len(frames) : /\ frames'[i] \in Frames /\ frames'[i].obj = frames[i].obj
                                  /\ frames'[i].at = frames[i].at
    BY <1>5, <2>1, <2>2 DEF Frames
  <2>4. frames' \in [1..Len(frames) -> Frames]
    BY <2>2, <2>3
  <2>5. frames' \in Seq(Frames)
    BY <2>1, <2>4, SeqDef
  <2>6. Len(frames') = Len(frames)
    BY <2>1, <2>4, <2>5
  <2> QED BY <2>3, <2>5, <2>6
<1>8. o' \in Objects /\ SameCounters /\ NotEnded' /\ SeenStep
  BY <1>1, CountTypes DEF IInv, NotEnded, SameCounters, SeenStep
<1>9. o'.starts + Armed(o') + o.retries <= o.starts + Armed(o) + o'.retries
  <2>1. 0 \in Nat /\ 0 <= 0
    OBVIOUS
  <2> QED BY <1>8, <2>1, SameBalance
<1>10. SlotsKnown' /\ StartsCounted'
  BY <1>7, <1>8, <1>9, SlotsKept DEF SameCounters
<1>11. TypeOK'
  BY <1>1, <1>2, <1>3, <1>4, <1>7, <1>8 DEF IInv, TypeOK, CallRecords
<1> QED BY <1>8, <1>10, <1>11 DEF IInv

LEMMA ServeProcessStep ==
    ASSUME IInv, NEW p \in Pids, NEW others \in BOOLEAN, ServeProcess(p, others)
    PROVE  IInv' /\ SeenStep
<1> DEFINE popped == [proc[p] EXCEPT !.cmds = Tail(@)]
<1>1. proc \in [Pids -> Processes] /\ proc[p] \in Processes /\ proc[p].cmds # <<>>
  BY DEF IInv, TypeOK, ServeProcess
<1>2. proc[p].cmds \in Seq({"start", "kill"})
  BY <1>1 DEF Processes
<1>3. Tail(proc[p].cmds) \in Seq({"start", "kill"})
  BY <1>1, <1>2
<1>4. popped \in Processes
  BY <1>1, <1>3 DEF Processes
<1>5. proc' = [q \in Pids |->
        CASE q = p /\ Head(proc[p].cmds) = "start" /\ popped.st = "idle" -> [popped EXCEPT !.st = "running"]
          [] q = p /\ Head(proc[p].cmds) = "kill" /\ popped.st = "running" -> Ended(popped, FALSE)
          [] q = p /\ Head(proc[p].cmds) = "kill" /\ popped.st = "idle" -> [popped EXCEPT !.st = "exited"]
          [] q # p /\ Head(proc[p].cmds) = "start" /\ others /\ proc[q].st = "running" -> Ended(proc[q], FALSE)
          [] OTHER -> IF q = p THEN popped ELSE proc[q]]
  BY DEF ServeProcess
<1> HIDE DEF popped
<1>6. /\ [popped EXCEPT !.st = "running"] \in Processes /\ [popped EXCEPT !.st = "exited"] \in Processes
      /\ Ended(popped, FALSE) \in Processes
  BY <1>4, EndedType DEF Processes
<1>7. \A q \in Pids : proc[q] \in Processes /\ Ended(proc[q], FALSE) \in Processes
  BY <1>1, EndedType
<1>8. proc' \in [Pids -> Processes]
  BY <1>4, <1>5, <1>6, <1>7
<1> QED BY <1>8, ProcessStep DEF ServeProcess

LEMMA TunSteps ==
    ASSUME IInv, NEW p \in Pids, NEW busy \in BOOLEAN, TunOpens(p) \/ TunExits(p, busy)
    PROVE  IInv' /\ SeenStep
<1>1. proc \in [Pids -> Processes] /\ proc[p] \in Processes
  BY DEF IInv, TypeOK
<1>2. CASE TunOpens(p)
  <2>1. (~proc[p].lost) \in BOOLEAN
    BY Zenon
  <2> DEFINE b == ~proc[p].lost
  <2>2. proc' = [proc EXCEPT ![p].tun = TRUE, ![p].line = TRUE, ![p].ready = b]
    BY <1>2 DEF TunOpens
  <2>3. b \in BOOLEAN
    BY <2>1
  <2> HIDE DEF b
  <2>4. proc' \in [Pids -> Processes]
    BY <1>1, <2>2, <2>3 DEF Processes
  <2> QED BY <1>2, <2>4, ProcessStep DEF TunOpens
<1>3. CASE TunExits(p, busy)
  <2>1. proc' \in [Pids -> Processes]
    BY <1>1, <1>3, EndedType DEF TunExits
  <2> QED BY <1>3, <2>1, ProcessStep DEF TunExits
<1> QED BY <1>2, <1>3

LEMMA ServiceCrashStep ==
    ASSUME IInv, ServiceCrash
    PROVE  IInv' /\ SeenStep
<1>1. o \in Objects /\ svc \in Services /\ proc \in [Pids -> Processes]
  BY DEF IInv, TypeOK
<1>2. o' \in Objects /\ SameCounters /\ o'.st = o.st /\ o'.stop = o.stop
  BY <1>1 DEF ServiceCrash, Objects, SameCounters
<1>3. NotEnded' /\ SeenStep
  BY <1>2 DEF IInv, NotEnded, SeenStep, SameCounters
<1>4. frames' \in Seq(Frames) /\ SlotsKnown' /\ StartsCounted'
  BY <1>2, SameKept DEF ServiceCrash
<1>5. svc' \in Services
  BY <1>1 DEF ServiceCrash, Services
<1>6. proc' \in [Pids -> Processes]
  <2>1. ASSUME NEW p \in Pids
        PROVE  [proc[p] EXCEPT !.lost = @ \/ proc[p].st # "none", !.cmds = <<>>] \in Processes
    <3> DEFINE b == proc[p].lost \/ proc[p].st # "none"
    <3>1. b \in BOOLEAN
      BY Zenon
    <3>2. <<>> \in Seq({"start", "kill"}) /\ proc[p] \in Processes
      BY <1>1
    <3> HIDE DEF b
    <3>3. [proc[p] EXCEPT !.lost = b, !.cmds = <<>>] \in Processes
      BY <3>1, <3>2 DEF Processes
    <3> QED BY <3>3 DEF b
  <2> QED BY <2>1 DEF ServiceCrash
<1>7. ipc' \in Seq(CallRecords) /\ dirty' = dirty
  <2>1. ipc' = <<>> /\ dirty' = dirty
    BY DEF ServiceCrash
  <2> QED BY <2>1
<1>8. TypeOK'
  BY <1>2, <1>4, <1>5, <1>6, <1>7 DEF IInv, TypeOK, CallRecords
<1> QED BY <1>3, <1>4, <1>8 DEF IInv

LEMMA ServiceRestartStep ==
    ASSUME IInv, ServiceRestart
    PROVE  IInv' /\ SeenStep
<1>1. o' \in Objects /\ SameCounters /\ NotEnded' /\ SeenStep
  BY CountTypes DEF ServiceRestart, IInv, NotEnded, SameCounters, SeenStep
<1>2. frames' \in Seq(Frames) /\ SlotsKnown' /\ StartsCounted'
  BY <1>1, SameKept DEF ServiceRestart
<1>3. svc' \in Services
  BY DEF ServiceRestart, IInv, TypeOK, Services
<1>4. TypeOK'
  BY <1>1, <1>2, <1>3 DEF ServiceRestart, IInv, TypeOK
<1> QED BY <1>1, <1>2, <1>4 DEF IInv

LEMMA ClientCrashStep ==
    ASSUME IInv, ClientCrash
    PROVE  IInv' /\ SeenStep
<1>1. o \in Objects /\ proc \in [Pids -> Processes] /\ ~o.stop
  BY DEF IInv, TypeOK, ClientCrash
<1>2. /\ o' \in Objects /\ o'.id = o.id /\ o'.starts = o.starts /\ o'.retries = o.retries
      /\ ~o'.timer /\ o'.st = "Disconnected" /\ o'.stop
  <2>1. o' = [o EXCEPT !.stop = TRUE, !.st = "Disconnected", !.proc = 0, !.timer = FALSE]
    BY DEF ClientCrash
  <2>2. 0 \in 0..MaxProcs
    BY XrayBounds
  <2> QED BY <1>1, <2>1, <2>2 DEF Objects
<1>3. NotEnded' /\ SeenStep
  BY <1>1, <1>2 DEF IInv, NotEnded, SeenStep
<1>4. frames' = <<>> /\ UNCHANGED <<ipc, svc>> /\ dirty' = TRUE
  BY DEF ClientCrash
<1>5. frames' \in Seq(Frames) /\ SlotsKnown'
  BY <1>4 DEF SlotsKnown
<1>6. Count(frames', o'.id) = 0
  <2>1. Starting(frames', o'.id) = {}
    BY <1>4 DEF Starting
  <2> QED BY <2>1, FS_EmptySet DEF Count
<1>7. StartsCounted'
  <2> DEFINE s == o.starts
             c == Count(frames, o.id)
             a == Armed(o)
             r == o.retries
  <2>1. s \in Nat /\ c \in Nat /\ a \in Nat /\ r \in Nat /\ s + c + a <= r + 1
    BY CountTypes DEF IInv, StartsCounted
  <2>2. o'.starts = s /\ Armed(o') = 0 /\ o'.retries = r
    BY <1>2 DEF Armed
  <2> HIDE DEF s, c, a, r
  <2>3. s + 0 + 0 <= r + 1
    BY <2>1
  <2> QED BY <1>6, <2>2, <2>3 DEF StartsCounted
<1>8. proc' \in [Pids -> Processes]
  <2>1. \A p \in Pids : proc[p] \in Processes
      /\ [proc[p] EXCEPT !.lost = TRUE, !.ready = FALSE, !.fin = FALSE] \in Processes
    BY <1>1 DEF Processes
  <2> QED BY <2>1 DEF ClientCrash
<1>9. TypeOK'
  BY <1>2, <1>4, <1>5, <1>8 DEF IInv, TypeOK
<1> QED BY <1>3, <1>5, <1>7, <1>9 DEF IInv

-----------------------------------------------------------------------------
(* The theorems. *)

LEMMA InitInvariant == Init => IInv
<1> SUFFICES ASSUME Init PROVE IInv
  OBVIOUS
<1>1. /\ o \in Objects /\ o.stop /\ o.starts = 0 /\ o.retries = 0 /\ ~o.timer /\ o.id = 0
  <2>1. 0 \in 0..MaxObjects /\ 0 \in 0..MaxRetries /\ 0 \in 0..MaxProcs
    BY XrayBounds
  <2>2. {} \in SUBSET Optional
    OBVIOUS
  <2>3. NewObject(0, {}) \in Objects
    BY <2>1, <2>2 DEF NewObject, Objects
  <2> QED BY <2>3 DEF Init, NewObject, Objects
<1>2. frames \in Seq(Frames) /\ ipc \in Seq(CallRecords) /\ frames = <<>>
  BY DEF Init
<1>3. svc \in Services /\ proc \in [Pids -> Processes] /\ dirty \in BOOLEAN
  <2>1. NewProcess("none") \in Processes
    BY DEF NewProcess, Processes
  <2>2. 0 \in 0..MaxProcs
    BY XrayBounds
  <2> QED BY <2>1, <2>2 DEF Init, Services
<1>4. TypeOK
  BY <1>1, <1>2, <1>3 DEF TypeOK, CallRecords
<1>5. Count(frames, o.id) = 0
  <2>1. Starting(frames, o.id) = {}
    BY <1>2 DEF Starting
  <2> QED BY <2>1, FS_EmptySet DEF Count
<1>6. NotEnded /\ SlotsKnown /\ StartsCounted
  <2>1. NotEnded /\ SlotsKnown
    BY <1>1, <1>2 DEF NotEnded, SlotsKnown
  <2>2. StartsCounted
    BY <1>1, <1>5 DEF StartsCounted, Armed
  <2> QED BY <2>1, <2>2
<1> QED BY <1>4, <1>6 DEF IInv

\* Every step keeps the invariant and is one that VpnConnection may see.
LEMMA StepKeeps ==
    ASSUME IInv, [Next]_xrayVars
    PROVE  IInv' /\ SeenStep
<1>1. CASE Requests
  BY <1>1, StartStep, StopStep DEF Requests, StopRequest
<1>2. CASE Replies
  BY <1>2, ReplyXrayStartStep, ReplyDeleteTunStep, ReplyCreateProcessStep, ReplySetupStep,
     ReplyAcquireStep, ReplyReadErrStep, ReplyReadOutStep DEF Replies
<1>3. CASE Slots
  BY <1>3, ReadyReadStep, FinishedStep, RetryTimerStep DEF Slots
<1>4. CASE ServiceSteps
  <2>1. FALSE \in BOOLEAN
    OBVIOUS
  <2> QED BY <1>4, <2>1, ServeStep, ServeProcessStep, TunSteps DEF ServiceSteps
<1>5. CASE Crashes
  BY <1>5, ServiceCrashStep, ServiceRestartStep, ClientCrashStep DEF Crashes
<1>6. CASE UNCHANGED xrayVars
  <2>1. proc' \in [Pids -> Processes]
    BY <1>6 DEF xrayVars, IInv, TypeOK
  <2> QED BY <1>6, <2>1, ProcessStep DEF xrayVars
<1> QED BY <1>1, <1>2, <1>3, <1>4, <1>5, <1>6 DEF Next

\* The invariant holds however slots nest and whichever process or service dies.
THEOREM Invariance == Spec => []IInv
<1>1. IInv /\ [Next]_xrayVars => IInv'
  BY StepKeeps
<1> QED BY InitInvariant, <1>1, PTL DEF Spec

\* Type correctness of the object, its slots, the calls and the processes.
THEOREM TypeCorrect == Spec => []TypeOK
<1>1. IInv => TypeOK
  BY DEF IInv
<1> QED BY <1>1, Invariance, PTL

\* RetriesBounded: one object starts tun2socks at most once and maxTun2SocksRetries times
\* again, for any nesting of start(), the slots and the retry timer.
THEOREM RetriesSound == Spec => []RetriesBounded
<1>1. IInv => RetriesBounded
  <2> SUFFICES ASSUME IInv PROVE o.starts <= MaxRetries + 1
    BY DEF RetriesBounded
  <2> DEFINE s == o.starts
             c == Count(frames, o.id)
             a == Armed(o)
             r == o.retries
  <2>1. s \in Nat /\ c \in Nat /\ a \in Nat /\ r \in 0..MaxRetries /\ s + c + a <= r + 1
    BY CountTypes DEF IInv, StartsCounted, Objects
  <2> HIDE DEF s, c, a, r
  <2>2. s <= MaxRetries + 1
    BY <2>1, XrayBounds
  <2> QED BY <2>2 DEF s
<1> QED BY <1>1, Invariance, PTL

\* The Xray object implements ProtocolObject: after stop() or an error no signal of a waiting
\* slot, of a process or of the retry timer reaches VpnConnection.
THEOREM ObjectRefinement == Spec => ImplementsProtocolObject
<1>1. Init => Object!Init
  BY DEF Init, NewObject, Object!Init
<1>2. IInv /\ [Next]_xrayVars => [Object!Next]_(Object!absVars)
  <2> SUFFICES ASSUME IInv, [Next]_xrayVars PROVE [Object!Next]_(Object!absVars)
    OBVIOUS
  <2>1. SeenStep
    BY StepKeeps
  <2> QED BY <2>1 DEF SeenStep, Object!Next, Object!Create, Object!Connect, Object!Stop,
                      Object!Fail, Object!absVars
<1>3. Spec => Object!Spec
  BY <1>1, <1>2, Invariance, PTL DEF Spec, Object!Spec
<1> QED BY <1>3 DEF ImplementsProtocolObject
=============================================================================

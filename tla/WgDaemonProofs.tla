--------------------------- MODULE WgDaemonProofs ---------------------------
(***************************************************************************)
(* Proofs of the properties of WgDaemon for any configurations, addresses  *)
(* and sockets, and any depth of nested handlers.                          *)
(***************************************************************************)
EXTENDS WgDaemon, TLAPS

-----------------------------------------------------------------------------
(* The invariant. *)

Activating == {"tunnelName", "interface", "peer"}
Switching == {"switchPeer", "switchDelete"}

\* A handler that waits: checkHandshake() is the timer's, the others are of a socket, and
\* those that activate or switch know what and from what.
FrameOK(f) ==
    /\ f \in Frames
    /\ f.at = "status" <=> f.by = Timer
    /\ f.at \in Activating \cup Switching => f.cfg \in Configs
    /\ f.at \in Switching => f.last \in Configs

FramesOK(fr) == fr \in Seq(Frames) /\ \A i \in 1..Len(fr) : FrameOK(fr[i])

Types == TypeOK /\ FramesOK(frames)

HasStatus(fr) == \E i \in 1..Len(fr) : fr[i].at = "status"

\* The handshake is polled, by the timer or by a handler that will start it again, unless
\* the activation was reported as failed.
Polled == d.conn /= None /\ ~d.shaken => d.timer \/ d.failed \/ HasStatus(frames)

NoneCurrent(ls) == \A l \in ls : ~l.current

\* After the handshake, everything that was or can be learned is of this connection.
Learning ==
    d.conn /= None /\ d.shaken =>
        /\ learned \subseteq {d.conn}
        /\ d.rules \in {None, d.conn}
        /\ \A l \in lookups : l.current => l.cfg = d.conn

\* Nothing is learned and nothing can be.
Unlearned(x, ls) == x.dns = {} /\ x.rules = None /\ NoneCurrent(ls)

Zero == [a \in Addrs |-> 0]

Servers(sw) == IF sw THEN {c.host : c \in Configs} ELSE {}

Listed(x, sw) == Counted(x) \subseteq x.list \cup Servers(sw)

ByDns(x, a) == IF a \in x.dns THEN 1 ELSE 0

ByConfig(x, a) == IF x.conn /= None /\ x.shaken /\ a \in Excluded(x.conn) THEN 1 ELSE 0

Exact(x) == \A a \in Addrs : x.counts[a] \in ByDns(x, a)..(ByDns(x, a) + ByConfig(x, a))

\* Without a connection there is nothing to count, and the counts are right.
Right(x, ls, sw) ==
    /\ x.conn = None => x.counts = Zero /\ Unlearned(x, ls)
    /\ Listed(x, sw)
    /\ ~sw => Exact(x)

\* The innermost handler waits at one of ats.
TopIn(fr, ats) == fr /= <<>> /\ fr[1].at \in ats

AllStatus(fr) == \A i \in 1..Len(fr) : fr[i].at = "status"

\* While no handler has run inside that of a request: only the innermost one may be of a
\* request, and the counts are right except while a deactivation waits, which will reset them.
Undisturbed(x, fr, ls, sw) ==
    /\ fr /= <<>> => AllStatus(Tail(fr))
    /\ TopIn(fr, Activating) => x.conn = None
    /\ TopIn(fr, Switching) => sw /\ x.conn /= None
    /\ TopIn(fr, {"deletePeer"}) => Unlearned(x, ls)
    /\ ~TopIn(fr, {"deletePeer"}) => Right(x, ls, sw)

Counting == ~nested => Undisturbed(d, frames, lookups, switched)

\* The object of the socket s is running or its last request is to deactivate.
Owes(s) ==
    \/ client.sock = s
    \/ inbox[s] /= <<>> /\ inbox[s][Len(inbox[s])].op = "deactivate"

Owers == {s \in Sockets : Owes(s)}

\* A handler that activates is of one of the sockets ss.
FrameOf(f, ss) == f.at /= "status" /\ f.cfg /= None => f.by \in ss

FramesOf(fr, ss) == \A i \in 1..Len(fr) : FrameOf(fr[i], ss)

IsTeardown(f) == f.at = "deletePeer" /\ f.cfg = None

HasTeardown(fr) == \E i \in 1..Len(fr) : IsTeardown(fr[i])

\* Unless an object was stopped without a request: requests and activations are of sockets
\* that still owe one, and without such a socket what is left is about to be torn down.
Owed ==
    ~client.silent =>
        /\ \A s \in Sockets : inbox[s] /= <<>> => s \in Owers
        /\ FramesOf(frames, Owers)
        /\ Owers = {} => /\ ~d.resolvers
                         /\ d.conn /= None \/ d.mon => HasTeardown(frames)

IInv == Types /\ Polled /\ Learning /\ Counting /\ Owed

-----------------------------------------------------------------------------
(* Handlers on top of each other. *)

LEMMA PushOK ==
    ASSUME NEW f, NEW rest, FrameOK(f), FramesOK(rest)
    PROVE  /\ FramesOK(<<f>> \o rest) /\ <<f>> \o rest /= <<>>
           /\ Len(<<f>> \o rest) = Len(rest) + 1 /\ Len(rest) \in Nat
           /\ (<<f>> \o rest)[1] = f
           /\ \A i \in 1..Len(rest) : (<<f>> \o rest)[i + 1] = rest[i]
           /\ \A i \in 2..(Len(rest) + 1) : (<<f>> \o rest)[i] = rest[i - 1]
<1> DEFINE fr == <<f>> \o rest
<1>1. f \in Frames /\ rest \in Seq(Frames) /\ Len(rest) \in Nat
  BY DEF FrameOK, FramesOK
<1>2. /\ fr \in Seq(Frames) /\ Len(fr) = Len(rest) + 1 /\ fr[1] = f
      /\ \A i \in 1..Len(rest) : fr[i + 1] = rest[i]
      /\ \A i \in 2..(Len(rest) + 1) : fr[i] = rest[i - 1]
  BY <1>1
<1> HIDE DEF fr
<1>3. fr /= <<>>
  BY <1>1, <1>2
<1>4. ASSUME NEW i \in 1..Len(fr)
      PROVE  FrameOK(fr[i])
  <2>1. CASE i = 1
    BY <1>2, <2>1
  <2>2. CASE i /= 1
    <3>1. i \in 2..(Len(rest) + 1) /\ i - 1 \in 1..Len(rest)
      BY <1>1, <1>2, <2>2
    <3> QED BY <1>2, <3>1 DEF FramesOK
  <2> QED BY <2>1, <2>2
<1>5. FramesOK(fr)
  BY <1>2, <1>4 DEF FramesOK
<1> QED BY <1>1, <1>2, <1>3, <1>5 DEF fr

LEMMA TailOK ==
    ASSUME NEW fr, FramesOK(fr), fr /= <<>>
    PROVE  /\ FramesOK(Tail(fr)) /\ FrameOK(fr[1]) /\ Len(fr) \in Nat /\ Len(fr) >= 1
           /\ Len(Tail(fr)) = Len(fr) - 1
           /\ \A i \in 1..(Len(fr) - 1) : Tail(fr)[i] = fr[i + 1]
           /\ \A i \in 2..Len(fr) : Tail(fr)[i - 1] = fr[i]
<1> DEFINE t == Tail(fr)
<1>1. fr \in Seq(Frames) /\ Len(fr) \in Nat /\ Len(fr) >= 1
  BY DEF FramesOK
<1>2. /\ t \in Seq(Frames) /\ Len(t) = Len(fr) - 1
      /\ \A i \in 1..(Len(fr) - 1) : t[i] = fr[i + 1]
      /\ \A i \in 2..Len(fr) : t[i - 1] = fr[i]
  BY <1>1
<1> HIDE DEF t
<1>3. FramesOK(t) /\ FrameOK(fr[1])
  BY <1>1, <1>2 DEF FramesOK
<1> QED BY <1>1, <1>2, <1>3 DEF t

LEMMA NewFrame ==
    ASSUME NEW at \in {"tunnelName", "interface", "peer", "switchPeer", "switchDelete",
                       "deletePeer", "status"},
           NEW s \in Sockets \cup {Timer}, NEW c \in Configs \cup {None},
           NEW last \in Configs \cup {None},
           at = "status" <=> s = Timer,
           at \in Activating \cup Switching => c \in Configs,
           at \in Switching => last \in Configs
    PROVE  LET f == Frame(at, s, c, last)
           IN FrameOK(f) /\ f.at = at /\ f.by = s /\ f.cfg = c /\ f.last = last
BY DEF Frame, FrameOK, Frames

\* The handler waits somewhere else.
LEMMA MovedFrame ==
    ASSUME NEW f \in Frames, f.by /= Timer, f.cfg \in Configs,
           NEW at \in {"tunnelName", "interface", "peer", "switchDelete"},
           at = "switchDelete" => f.last \in Configs
    PROVE  LET g == [f EXCEPT !.at = at]
           IN FrameOK(g) /\ g.at = at /\ g.by = f.by /\ g.cfg = f.cfg /\ g.last = f.last
BY DEF FrameOK, Frames, Activating, Switching

-----------------------------------------------------------------------------
(* What the operators do to the daemon. *)

\* y differs from x in the counts, the list and the learned addresses at most.
SameElse(y, x) ==
    /\ y.conn = x.conn /\ y.shaken = x.shaken /\ y.rules = x.rules
    /\ y.resolvers = x.resolvers /\ y.timer = x.timer /\ y.failed = x.failed /\ y.proc = x.proc /\ y.mon = x.mon

LEMMA AddStep ==
    ASSUME NEW x \in Daemons, NEW as \in SUBSET Addrs, NEW ok \in SUBSET Addrs
    PROVE  LET y    == AddExclusion(x, as, ok)
               done == Excludable(x, as, ok)
           IN /\ y \in Daemons /\ SameElse(y, x) /\ y.dns = x.dns
              /\ y.list = x.list \cup (done \ Counted(x)) /\ done \subseteq as
              /\ \A a \in Addrs : y.counts[a] = IF a \in done THEN x.counts[a] + 1
                                                ELSE x.counts[a]
<1> DEFINE done == Excludable(x, as, ok)
           cs == [a \in Addrs |-> IF a \in done THEN x.counts[a] + 1 ELSE x.counts[a]]
           ls == x.list \cup (done \ Counted(x))
           y == [x EXCEPT !.counts = cs, !.list = ls]
<1>1. done \subseteq as
  BY DEF Excludable
<1>2. AddExclusion(x, as, ok) = y
  BY DEF AddExclusion, Daemons
<1> HIDE DEF done
<1>3. cs \in [Addrs -> Nat] /\ ls \in SUBSET Addrs
  <2>1. x.counts \in [Addrs -> Nat] /\ x.list \subseteq Addrs
    BY DEF Daemons
  <2>2. \A a \in Addrs : x.counts[a] \in Nat /\ x.counts[a] + 1 \in Nat
    BY <2>1
  <2> QED BY <1>1, <2>1, <2>2
<1>4. \A a \in Addrs : cs[a] = IF a \in done THEN x.counts[a] + 1 ELSE x.counts[a]
  OBVIOUS
<1> HIDE DEF cs, ls
<1>5. y \in Daemons /\ SameElse(y, x) /\ y.dns = x.dns /\ y.list = ls /\ y.counts = cs
  BY <1>3 DEF Daemons, SameElse
<1> QED BY <1>1, <1>2, <1>4, <1>5 DEF ls, done

LEMMA DelStep ==
    ASSUME NEW x \in Daemons, NEW as \in SUBSET Addrs
    PROVE  LET y == DelExclusion(x, as)
           IN /\ y \in Daemons /\ SameElse(y, x) /\ y.dns = x.dns
              /\ y.list = x.list \ {a \in as : x.counts[a] <= 1}
              /\ \A a \in Addrs : y.counts[a] = IF a \notin as THEN x.counts[a]
                                                ELSE IF x.counts[a] > 1 THEN x.counts[a] - 1
                                                ELSE 0
<1> DEFINE cs == [a \in Addrs |-> IF a \notin as THEN x.counts[a]
                                  ELSE IF x.counts[a] > 1 THEN x.counts[a] - 1 ELSE 0]
           ls == x.list \ {a \in as : x.counts[a] <= 1}
           y == [x EXCEPT !.counts = cs, !.list = ls]
<1>1. DelExclusion(x, as) = y
  BY DEF DelExclusion, Daemons
<1>2. cs \in [Addrs -> Nat] /\ ls \in SUBSET Addrs
  <2>1. x.counts \in [Addrs -> Nat] /\ x.list \subseteq Addrs
    BY DEF Daemons
  <2>2. \A a \in Addrs : /\ x.counts[a] \in Nat
                         /\ x.counts[a] > 1 => x.counts[a] - 1 \in Nat
    BY <2>1
  <2> QED BY <2>1, <2>2
<1>3. \A a \in Addrs : cs[a] = IF a \notin as THEN x.counts[a]
                               ELSE IF x.counts[a] > 1 THEN x.counts[a] - 1 ELSE 0
  OBVIOUS
<1> HIDE DEF cs, ls
<1>4. y \in Daemons /\ SameElse(y, x) /\ y.dns = x.dns /\ y.list = ls /\ y.counts = cs
  BY <1>2 DEF Daemons, SameElse
<1> QED BY <1>1, <1>3, <1>4 DEF ls

LEMMA ClearStep ==
    ASSUME NEW x \in Daemons
    PROVE  LET y == ClearDnsRoutes(x)
           IN /\ y \in Daemons /\ SameElse(y, x) /\ y.dns = {}
              /\ y.list = x.list \ {a \in x.dns \cap Counted(x) : x.counts[a] <= 1}
              /\ \A a \in Addrs : y.counts[a] = IF a \in x.dns /\ x.counts[a] > 0
                                                THEN x.counts[a] - 1 ELSE x.counts[a]
<1> DEFINE as == x.dns \cap Counted(x)
           z == DelExclusion(x, as)
           y == [z EXCEPT !.dns = {}]
<1>1. as \in SUBSET Addrs
  BY DEF Daemons
<1>2. /\ z \in Daemons /\ SameElse(z, x)
      /\ z.list = x.list \ {a \in as : x.counts[a] <= 1}
      /\ \A a \in Addrs : z.counts[a] = IF a \notin as THEN x.counts[a]
                                        ELSE IF x.counts[a] > 1 THEN x.counts[a] - 1 ELSE 0
  <2> HIDE DEF as
  <2> QED BY <1>1, DelStep
<1> HIDE DEF z
<1>3. y \in Daemons /\ SameElse(y, z) /\ y.dns = {} /\ y.list = z.list /\ y.counts = z.counts
  BY <1>2 DEF Daemons, SameElse
<1>4. ClearDnsRoutes(x) = y
  BY DEF ClearDnsRoutes, z
<1> HIDE DEF y
<1>5. \A a \in Addrs : x.counts[a] \in Nat /\ (a \in as <=> a \in x.dns /\ x.counts[a] > 0)
  BY DEF Daemons, Counted
<1>6. \A a \in Addrs : y.counts[a] = IF a \in x.dns /\ x.counts[a] > 0
                                     THEN x.counts[a] - 1 ELSE x.counts[a]
  <2> HIDE DEF as
  <2> TAKE a \in Addrs
  <2> DEFINE n == x.counts[a]
  <2>1. n \in Nat /\ (a \in as <=> a \in x.dns /\ n > 0)
    BY <1>5
  <2>2. y.counts[a] = IF a \notin as THEN n ELSE IF n > 1 THEN n - 1 ELSE 0
    BY <1>2, <1>3
  <2> HIDE DEF n
  <2>3. y.counts[a] = IF a \in x.dns /\ n > 0 THEN n - 1 ELSE n
    <3>1. CASE a \notin as
      BY <2>1, <2>2, <3>1
    <3>2. CASE a \in as /\ n > 1
      BY <2>1, <2>2, <3>2
    <3>3. CASE a \in as /\ ~(n > 1)
      <4>1. n \in Nat /\ n > 0 /\ a \in x.dns
        BY <2>1, <3>3
      <4>2. n = 1
        BY <3>3, <4>1
      <4>3. y.counts[a] = 0
        BY <2>2, <3>3
      <4> QED BY <4>1, <4>2, <4>3
    <3> QED BY <3>1, <3>2, <3>3
  <2> QED BY <2>3 DEF n
<1> QED BY <1>2, <1>3, <1>4, <1>6 DEF SameElse

\* y is x with more in its list.
MoreListed(y, x) ==
    SameElse(y, x) /\ y.dns = x.dns /\ y.counts = x.counts /\ x.list \subseteq y.list

LEMMA UpdatePeerStep ==
    ASSUME NEW x \in Daemons, NEW f, f.cfg \in Configs, NEW rest, UpdatePeer(x, f, rest)
    PROVE  d' \in Daemons /\ MoreListed(d', x) /\ frames' = <<f>> \o rest
<1>1. f.cfg.host \in Addrs
  BY ConfigsAssumption
<1>2. PICK ok \in Accepted :
        d' = [x EXCEPT !.list = IF x.mon /\ f.cfg.host \in ok THEN @ \cup {f.cfg.host} ELSE @]
  BY DEF UpdatePeer
<1> DEFINE ls == IF x.mon /\ f.cfg.host \in ok THEN x.list \cup {f.cfg.host} ELSE x.list
<1>3. d' = [x EXCEPT !.list = ls] /\ ls \in SUBSET Addrs /\ x.list \subseteq ls
  BY <1>1, <1>2 DEF Daemons
<1> HIDE DEF ls
<1>4. d' \in Daemons /\ MoreListed(d', x)
  BY <1>3 DEF Daemons, MoreListed, SameElse
<1> QED BY <1>4 DEF UpdatePeer

LEMMA InterfaceStep ==
    ASSUME NEW x \in Daemons
    PROVE  LET y == DeleteInterface(x)
           IN /\ y \in Daemons /\ y.conn = x.conn /\ y.shaken = x.shaken /\ y.rules = x.rules
              /\ y.resolvers = x.resolvers /\ y.timer = x.timer /\ y.failed = x.failed /\ y.dns = x.dns
              /\ y.counts = x.counts /\ ~y.mon /\ y.list = {}
BY DEF DeleteInterface, Daemons

LEMMA CleanUpStep ==
    ASSUME NEW x \in Daemons
    PROVE  LET y == CleanUp(x)
           IN /\ y \in Daemons /\ y.conn = None /\ y.shaken = x.shaken /\ y.rules = x.rules
              /\ y.resolvers = x.resolvers /\ y.timer = x.timer /\ y.dns = x.dns
              /\ y.counts = [a \in Addrs |-> 0] /\ ~y.mon /\ y.list = {}
<1> DEFINE cs == [a \in Addrs |-> 0]
           z == [x EXCEPT !.conn = None, !.counts = cs, !.failed = FALSE]
<1>1. cs \in [Addrs -> Nat]
  OBVIOUS
<1>2. CleanUp(x) = DeleteInterface(z)
  BY DEF CleanUp
<1> HIDE DEF cs
<1>3. z \in Daemons /\ z.conn = None /\ z.counts = cs /\ z.shaken = x.shaken
      /\ z.rules = x.rules /\ z.resolvers = x.resolvers /\ z.timer = x.timer /\ z.dns = x.dns
  BY <1>1 DEF Daemons
<1> HIDE DEF z
<1> QED BY <1>2, <1>3, InterfaceStep DEF cs

\* y is x as far as the properties are concerned, with the same or more in its list.
AsBefore(y, x) ==
    /\ y.conn = x.conn /\ y.shaken = x.shaken /\ y.rules = x.rules
    /\ y.resolvers = x.resolvers /\ y.timer = x.timer /\ y.failed = x.failed /\ y.mon = x.mon
    /\ y.dns = x.dns /\ y.counts = x.counts /\ x.list \subseteq y.list

\* An activation fails at once or waits.
LEMMA StartStep ==
    ASSUME NEW x \in Daemons, NEW f \in Frames, f.by /= Timer, f.cfg \in Configs, NEW rest,
           StartFresh(x, f, rest)
    PROVE  /\ d' \in Daemons /\ AsBefore(d', x)
           /\ \/ frames' = rest
              \/ \E g : /\ FrameOK(g) /\ g.at \in Activating /\ g.by = f.by /\ g.cfg = f.cfg
                        /\ frames' = <<g>> \o rest
<1>1. CASE x.proc
  <2> DEFINE g == [f EXCEPT !.at = "peer"]
  <2>1. FrameOK(g) /\ g.at = "peer" /\ g.by = f.by /\ g.cfg = f.cfg
    BY MovedFrame
  <2>2. UpdatePeer(x, g, rest)
    BY <1>1 DEF StartFresh
  <2> HIDE DEF g
  <2>3. d' \in Daemons /\ MoreListed(d', x) /\ frames' = <<g>> \o rest
    BY <2>1, <2>2, UpdatePeerStep
  <2> QED BY <2>1, <2>3 DEF MoreListed, SameElse, AsBefore, Activating
<1>2. CASE ~x.proc
  <2> DEFINE g == [f EXCEPT !.at = "tunnelName"]
  <2>1. FrameOK(g) /\ g.at = "tunnelName" /\ g.by = f.by /\ g.cfg = f.cfg
    BY MovedFrame
  <2>2. \/ d' = [x EXCEPT !.proc = TRUE] /\ frames' = <<g>> \o rest
        \/ d' = x /\ frames' = rest
    BY <1>2 DEF StartFresh, Fail
  <2> HIDE DEF g
  <2>3. d' \in Daemons /\ AsBefore(d', x)
    BY <2>2 DEF Daemons, AsBefore
  <2> QED BY <2>1, <2>2, <2>3 DEF Activating
<1> QED BY <1>1, <1>2

\* The end of a deactivation, and the beginning of the activation it was for.
LEMMA DeactivatedStep ==
    ASSUME NEW x \in Daemons, NEW f \in Frames, f.by /= Timer, NEW rest,
           Deactivated(x, f, rest)
    PROVE  /\ d' \in Daemons /\ switched' = FALSE
           /\ d'.conn = None /\ d'.shaken = x.shaken /\ d'.rules = x.rules
           /\ d'.resolvers = x.resolvers /\ d'.timer = x.timer /\ d'.dns = x.dns
           /\ d'.counts = [a \in Addrs |-> 0] /\ ~d'.mon
           /\ \/ frames' = rest
              \/ \E g : /\ FrameOK(g) /\ g.at \in Activating /\ g.by = f.by /\ g.cfg = f.cfg
                        /\ f.cfg /= None /\ frames' = <<g>> \o rest
<1> DEFINE y == CleanUp(x)
<1>1. /\ y \in Daemons /\ y.conn = None /\ y.shaken = x.shaken /\ y.rules = x.rules
      /\ y.resolvers = x.resolvers /\ y.timer = x.timer /\ y.dns = x.dns
      /\ y.counts = [a \in Addrs |-> 0] /\ ~y.mon
  BY CleanUpStep
<1> HIDE DEF y
<1>2. CASE f.cfg = None \/ ~x.proc
  <2>1. d' = y /\ frames' = rest /\ switched' = FALSE
    BY <1>2 DEF Deactivated, Fail, y
  <2> QED BY <1>1, <2>1
<1>3. CASE ~(f.cfg = None \/ ~x.proc)
  <2>1. StartFresh(y, f, rest) /\ switched' = FALSE
    BY <1>3 DEF Deactivated, y
  <2>2. f.cfg \in Configs /\ f.cfg /= None
    BY <1>3 DEF Frames
  <2>3. /\ d' \in Daemons /\ AsBefore(d', y)
        /\ \/ frames' = rest
           \/ \E g : /\ FrameOK(g) /\ g.at \in Activating /\ g.by = f.by /\ g.cfg = f.cfg
                     /\ frames' = <<g>> \o rest
    BY <1>1, <2>1, <2>2, StartStep
  <2> QED BY <1>1, <2>1, <2>2, <2>3 DEF AsBefore
<1> QED BY <1>2, <1>3

-----------------------------------------------------------------------------
(* Facts about a stack of handlers, from those about its parts. *)

LEMMA PushFacts ==
    ASSUME NEW f, NEW rest, FrameOK(f), FramesOK(rest)
    PROVE  LET fr == <<f>> \o rest
           IN /\ fr /= <<>> /\ fr[1] = f /\ Tail(fr) = rest
              /\ HasStatus(rest) => HasStatus(fr)
              /\ f.at = "status" => HasStatus(fr)
              /\ HasTeardown(rest) => HasTeardown(fr)
              /\ IsTeardown(f) => HasTeardown(fr)
              /\ \A ss : FrameOf(f, ss) /\ FramesOf(rest, ss) => FramesOf(fr, ss)
              /\ \A ats : TopIn(fr, ats) <=> f.at \in ats
<1> DEFINE fr == <<f>> \o rest
<1>1. /\ FramesOK(fr) /\ fr /= <<>> /\ Len(fr) = Len(rest) + 1 /\ Len(rest) \in Nat
      /\ fr[1] = f /\ \A i \in 1..Len(rest) : fr[i + 1] = rest[i]
      /\ \A i \in 2..(Len(rest) + 1) : fr[i] = rest[i - 1]
  BY PushOK
<1>2. Tail(fr) = rest
  <2>1. f \in Frames /\ rest \in Seq(Frames)
    BY DEF FrameOK, FramesOK
  <2> QED BY <2>1
<1> HIDE DEF fr
<1>3. \A i \in 1..Len(rest) : i + 1 \in 1..Len(fr)
  BY <1>1
<1>4. 1 \in 1..Len(fr)
  BY <1>1
<1>5. HasStatus(rest) => HasStatus(fr)
  BY <1>1, <1>3 DEF HasStatus
<1>6. f.at = "status" => HasStatus(fr)
  BY <1>1, <1>4 DEF HasStatus
<1>7. HasTeardown(rest) => HasTeardown(fr)
  BY <1>1, <1>3 DEF HasTeardown
<1>8. IsTeardown(f) => HasTeardown(fr)
  BY <1>1, <1>4 DEF HasTeardown
<1>9. ASSUME NEW ss, FrameOf(f, ss), FramesOf(rest, ss)
      PROVE  FramesOf(fr, ss)
  <2> SUFFICES ASSUME NEW i \in 1..Len(fr)
               PROVE  FrameOf(fr[i], ss)
    BY DEF FramesOf
  <2>1. CASE i = 1
    BY <1>1, <1>9, <2>1
  <2>2. CASE i /= 1
    <3>1. i \in 2..(Len(rest) + 1) /\ i - 1 \in 1..Len(rest)
      BY <1>1, <2>2
    <3> QED BY <1>1, <1>9, <3>1 DEF FramesOf
  <2> QED BY <2>1, <2>2
<1>10. \A ats : TopIn(fr, ats) <=> f.at \in ats
  BY <1>1 DEF TopIn
<1> QED BY <1>1, <1>2, <1>5, <1>6, <1>7, <1>8, <1>9, <1>10 DEF fr

LEMMA PopFacts ==
    ASSUME NEW fr, FramesOK(fr), fr /= <<>>
    PROVE  LET rest == Tail(fr)
           IN /\ FramesOK(rest) /\ FrameOK(fr[1])
              /\ fr[1].at /= "status" /\ HasStatus(fr) => HasStatus(rest)
              /\ ~IsTeardown(fr[1]) /\ HasTeardown(fr) => HasTeardown(rest)
              /\ \A ss : FramesOf(fr, ss) => FrameOf(fr[1], ss) /\ FramesOf(rest, ss)
              /\ \A ats : TopIn(fr, ats) <=> fr[1].at \in ats
<1> DEFINE rest == Tail(fr)
<1>1. /\ FramesOK(rest) /\ FrameOK(fr[1]) /\ Len(fr) \in Nat /\ Len(fr) >= 1
      /\ Len(rest) = Len(fr) - 1
      /\ \A i \in 1..(Len(fr) - 1) : rest[i] = fr[i + 1]
      /\ \A i \in 2..Len(fr) : rest[i - 1] = fr[i]
  BY TailOK
<1> HIDE DEF rest
<1>2. \A i \in 1..Len(fr) : i /= 1 => i \in 2..Len(fr) /\ i - 1 \in 1..Len(rest)
  BY <1>1
<1>3. \A i \in 1..Len(rest) : i \in 1..(Len(fr) - 1) /\ i + 1 \in 1..Len(fr)
  BY <1>1
<1>4. 1 \in 1..Len(fr)
  BY <1>1
<1>5. fr[1].at /= "status" /\ HasStatus(fr) => HasStatus(rest)
  BY <1>1, <1>2 DEF HasStatus
<1>6. ~IsTeardown(fr[1]) /\ HasTeardown(fr) => HasTeardown(rest)
  BY <1>1, <1>2 DEF HasTeardown
<1>7. \A ss : FramesOf(fr, ss) => FrameOf(fr[1], ss) /\ FramesOf(rest, ss)
  BY <1>1, <1>3, <1>4 DEF FramesOf
<1> QED BY <1>1, <1>5, <1>6, <1>7 DEF rest, TopIn

\* Handlers of the timer only: none of a request is innermost.
LEMMA StatusTop ==
    ASSUME NEW rest, FramesOK(rest), AllStatus(rest)
    PROVE  /\ ~TopIn(rest, Activating) /\ ~TopIn(rest, Switching)
           /\ ~TopIn(rest, {"deletePeer"})
           /\ rest /= <<>> => AllStatus(Tail(rest))
<1>1. CASE rest = <<>>
  BY <1>1 DEF TopIn
<1>2. CASE rest /= <<>>
  <2>1. /\ Len(rest) \in Nat /\ Len(rest) >= 1 /\ Len(Tail(rest)) = Len(rest) - 1
        /\ \A i \in 1..(Len(rest) - 1) : Tail(rest)[i] = rest[i + 1]
    BY <1>2, TailOK
  <2>2. rest[1].at = "status"
    BY <2>1 DEF AllStatus
  <2>3. \A i \in 1..(Len(rest) - 1) : i + 1 \in 1..Len(rest)
    BY <2>1
  <2>4. AllStatus(Tail(rest))
    BY <2>1, <2>3 DEF AllStatus
  <2> QED BY <2>2, <2>4 DEF TopIn, Activating, Switching
<1> QED BY <1>1, <1>2

\* A request's handler over handlers of the timer, or none at all.
LEMMA UndisturbedRest ==
    ASSUME NEW x, NEW rest, NEW ls, NEW sw, FramesOK(rest), AllStatus(rest), Right(x, ls, sw)
    PROVE  Undisturbed(x, rest, ls, sw)
BY StatusTop DEF Undisturbed

LEMMA UndisturbedPush ==
    ASSUME NEW x, NEW f, NEW rest, NEW ls, NEW sw, FrameOK(f), FramesOK(rest), AllStatus(rest),
           f.at \in Activating => x.conn = None,
           f.at \in Switching => sw /\ x.conn /= None,
           f.at = "deletePeer" => Unlearned(x, ls),
           f.at /= "deletePeer" => Right(x, ls, sw)
    PROVE  Undisturbed(x, <<f>> \o rest, ls, sw)
<1> DEFINE fr == <<f>> \o rest
<1>1. Tail(fr) = rest /\ \A ats : TopIn(fr, ats) <=> f.at \in ats
  BY PushFacts
<1> HIDE DEF fr
<1>2. Undisturbed(x, fr, ls, sw)
  BY <1>1 DEF Undisturbed
<1> QED BY <1>2 DEF fr

-----------------------------------------------------------------------------
(* Counts that are right stay right. *)

LEMMA ZeroRight ==
    ASSUME NEW x \in Daemons, NEW ls, NEW sw, x.counts = Zero, Unlearned(x, ls), x.conn = None
    PROVE  Right(x, ls, sw)
<1>1. \A a \in Addrs : x.counts[a] = 0
  BY DEF Zero
<1>2. Counted(x) = {}
  BY <1>1 DEF Counted
<1>3. Exact(x)
  <2> SUFFICES ASSUME NEW a \in Addrs
               PROVE  x.counts[a] \in ByDns(x, a)..(ByDns(x, a) + ByConfig(x, a))
    BY DEF Exact
  <2>1. ByDns(x, a) = 0 /\ ByConfig(x, a) = 0
    BY DEF ByDns, ByConfig, Unlearned
  <2> QED BY <1>1, <2>1
<1> QED BY <1>2, <1>3 DEF Right, Listed

\* They depend on these fields only.
LEMMA AsBeforeRight ==
    ASSUME NEW x \in Daemons, NEW y \in Daemons, NEW ls, NEW sw, Right(x, ls, sw),
           y.conn = x.conn, y.shaken = x.shaken, y.rules = x.rules, y.dns = x.dns,
           y.counts = x.counts, x.list \subseteq y.list
    PROVE  Right(y, ls, sw)
<1>1. Counted(y) = Counted(x)
  BY DEF Counted
<1>2. Listed(y, sw)
  BY <1>1 DEF Right, Listed
<1>3. ~sw => Exact(y)
  BY DEF Right, Exact, ByDns, ByConfig
<1> QED BY <1>2, <1>3 DEF Right, Unlearned

LEMMA AddListed ==
    ASSUME NEW x \in Daemons, NEW as \in SUBSET Addrs, NEW ok \in SUBSET Addrs, NEW sw,
           Listed(x, sw)
    PROVE  Listed(AddExclusion(x, as, ok), sw)
<1> DEFINE y == AddExclusion(x, as, ok)
           done == Excludable(x, as, ok)
<1>1. /\ y.list = x.list \cup (done \ Counted(x))
      /\ \A a \in Addrs : y.counts[a] = IF a \in done THEN x.counts[a] + 1 ELSE x.counts[a]
  BY AddStep
<1> HIDE DEF y, done
<1>2. \A a \in Counted(y) : a \in Counted(x) \/ a \in done
  BY <1>1 DEF Counted
<1>3. Listed(y, sw)
  BY <1>1, <1>2 DEF Listed
<1> QED BY <1>3 DEF y

LEMMA DelListed ==
    ASSUME NEW x \in Daemons, NEW as \in SUBSET Addrs, NEW sw, Listed(x, sw)
    PROVE  Listed(DelExclusion(x, as), sw)
<1> DEFINE y == DelExclusion(x, as)
<1>1. /\ y.list = x.list \ {a \in as : x.counts[a] <= 1}
      /\ \A a \in Addrs : y.counts[a] = IF a \notin as THEN x.counts[a]
                                        ELSE IF x.counts[a] > 1 THEN x.counts[a] - 1
                                        ELSE 0
  BY DelStep
<1> HIDE DEF y
<1>2. ASSUME NEW a \in Counted(y)
      PROVE  a \in Counted(x) /\ ~(a \in as /\ x.counts[a] <= 1)
  <2>1. a \in Addrs /\ y.counts[a] > 0
    BY DEF Counted
  <2>2. x.counts[a] \in Nat
    BY <2>1 DEF Daemons
  <2>3. CASE a \notin as
    BY <1>1, <2>1, <2>3 DEF Counted
  <2>4. CASE a \in as
    <3>1. x.counts[a] > 1
      <4>1. y.counts[a] = IF x.counts[a] > 1 THEN x.counts[a] - 1 ELSE 0
        BY <1>1, <2>1, <2>4
      <4>2. ~(x.counts[a] > 1) => y.counts[a] = 0
        BY <4>1
      <4> QED BY <2>1, <4>2
    <3>2. x.counts[a] > 0 /\ ~(x.counts[a] <= 1)
      BY <2>2, <3>1
    <3> QED BY <2>1, <3>2 DEF Counted
  <2> QED BY <2>3, <2>4
<1>3. Listed(y, sw)
  BY <1>1, <1>2 DEF Listed
<1> QED BY <1>3 DEF y

LEMMA ClearListed ==
    ASSUME NEW x \in Daemons, NEW sw, Listed(x, sw)
    PROVE  Listed(ClearDnsRoutes(x), sw)
<1> DEFINE z == DelExclusion(x, x.dns \cap Counted(x))
<1>1. x.dns \cap Counted(x) \in SUBSET Addrs
  BY DEF Daemons
<1>2. z \in Daemons /\ Listed(z, sw)
  <2> DEFINE as == x.dns \cap Counted(x)
  <2>1. as \in SUBSET Addrs
    BY <1>1
  <2> HIDE DEF as
  <2>2. DelExclusion(x, as) \in Daemons /\ Listed(DelExclusion(x, as), sw)
    BY <2>1, DelStep, DelListed
  <2> QED BY <2>2 DEF as
<1>3. ClearDnsRoutes(x) = [z EXCEPT !.dns = {}]
  BY DEF ClearDnsRoutes
<1> HIDE DEF z
<1>4. ClearDnsRoutes(x).counts = z.counts /\ ClearDnsRoutes(x).list = z.list
  BY <1>2, <1>3 DEF Daemons
<1> QED BY <1>2, <1>4 DEF Listed, Counted

-----------------------------------------------------------------------------
(* Handlers that go on. *)

\* The handler f over rest ends, or waits again to activate or to switch.
Moved(f, rest) ==
    \/ frames' = rest
    \/ \E g : /\ FrameOK(g) /\ g.at \in Activating \cup Switching /\ g.by = f.by
              /\ frames' = <<g>> \o rest

LEMMA PolledMoved ==
    ASSUME Types, Polled, frames /= <<>>, frames[1].at /= "status", Moved(frames[1], Rest),
           \/ d'.conn = None \/ d'.timer \/ d'.failed
           \/ d'.conn = d.conn /\ d'.shaken = d.shaken /\ d'.timer = d.timer /\ d'.failed = d.failed
    PROVE  FramesOK(frames') /\ Polled'
<1>1. FramesOK(Rest) /\ (HasStatus(frames) => HasStatus(Rest))
  BY PopFacts DEF Types, Rest
<1>2. FramesOK(frames') /\ (HasStatus(Rest) => HasStatus(frames'))
  <2>1. CASE frames' = Rest
    BY <1>1, <2>1
  <2>2. CASE frames' /= Rest
    <3>1. PICK g : FrameOK(g) /\ frames' = <<g>> \o Rest
      BY <2>2 DEF Moved
    <3> QED BY <1>1, <3>1, PushOK, PushFacts
  <2> QED BY <2>1, <2>2
<1> QED BY <1>1, <1>2 DEF Polled

LEMMA LearningKept ==
    ASSUME Learning, UNCHANGED <<lookups, learned>>,
           \/ d'.conn = None \/ ~d'.shaken
           \/ d'.conn = d.conn /\ d'.shaken = d.shaken /\ d'.rules = d.rules
    PROVE  Learning'
BY DEF Learning

LEMMA OwersKept ==
    ASSUME UNCHANGED <<client, inbox>>
    PROVE  Owers' = Owers
BY DEF Owers, Owes

\* A handler that activates or switches is of a socket that owes a request.
LEMMA OwedMoved ==
    ASSUME Types, Owed, frames /= <<>>, frames[1].at \in Activating \cup Switching,
           UNCHANGED <<client, inbox>>, Moved(frames[1], Rest)
    PROVE  Owed'
<1> SUFFICES ASSUME ~client.silent
             PROVE  /\ \A s \in Sockets : inbox[s] /= <<>> => s \in Owers
                    /\ FramesOf(frames', Owers) /\ Owers /= {}
  BY OwersKept DEF Owed
<1>1. FramesOf(frames, Owers) /\ \A s \in Sockets : inbox[s] /= <<>> => s \in Owers
  BY DEF Owed
<1>2. FramesOK(Rest) /\ FrameOK(frames[1]) /\ FrameOf(frames[1], Owers) /\ FramesOf(Rest, Owers)
  BY <1>1, PopFacts DEF Types, Rest
<1>3. frames[1].by \in Owers
  BY <1>2, NamesAssumption DEF FrameOK, FrameOf, Activating, Switching
<1>4. FramesOf(frames', Owers)
  <2>1. CASE frames' = Rest
    BY <1>2, <2>1
  <2>2. CASE frames' /= Rest
    <3>1. PICK g : FrameOK(g) /\ g.by = frames[1].by /\ frames' = <<g>> \o Rest
      BY <2>2 DEF Moved
    <3>2. FrameOf(g, Owers)
      BY <1>3, <3>1 DEF FrameOf
    <3> QED BY <1>2, <3>1, <3>2, PushFacts
  <2> QED BY <2>1, <2>2
<1> QED BY <1>1, <1>3, <1>4

\* While nothing has run inside a request, an activation starts from nothing.
LEMMA ActivatingClean ==
    ASSUME Types, Counting, ~nested, frames /= <<>>, frames[1].at \in Activating
    PROVE  /\ FramesOK(Rest) /\ AllStatus(Rest)
           /\ d.conn = None /\ d.counts = Zero /\ Unlearned(d, lookups)
<1>1. FramesOK(Rest) /\ \A ats : TopIn(frames, ats) <=> frames[1].at \in ats
  BY PopFacts DEF Types, Rest
<1>2. AllStatus(Rest) /\ d.conn = None /\ Right(d, lookups, switched)
  BY <1>1 DEF Counting, Undisturbed, Activating, Rest
<1> QED BY <1>1, <1>2 DEF Right

LEMMA CountingActivating ==
    ASSUME Types, Counting, frames /= <<>>, frames[1].at \in Activating,
           d' \in Daemons, UNCHANGED <<lookups, nested>>,
           d'.conn = d.conn, d'.counts = d.counts, d'.dns = d.dns, d'.rules = d.rules,
           \/ frames' = Rest
           \/ \E g : FrameOK(g) /\ g.at \in Activating /\ frames' = <<g>> \o Rest
    PROVE  Counting'
<1> SUFFICES ASSUME ~nested
             PROVE  Undisturbed(d', frames', lookups', switched')
  BY DEF Counting
<1>1. /\ FramesOK(Rest) /\ AllStatus(Rest)
      /\ d.conn = None /\ d.counts = Zero /\ Unlearned(d, lookups)
  BY ActivatingClean
<1>2. Right(d', lookups', switched') /\ d'.conn = None
  BY <1>1, ZeroRight DEF Unlearned
<1>3. CASE frames' = Rest
  BY <1>1, <1>2, <1>3, UndisturbedRest
<1>4. CASE frames' /= Rest
  <2>1. PICK g : FrameOK(g) /\ g.at \in Activating /\ frames' = <<g>> \o Rest
    BY <1>4
  <2>2. g.at \notin Switching /\ g.at /= "deletePeer"
    BY <2>1 DEF Activating, Switching
  <2> QED BY <1>1, <1>2, <2>1, <2>2, UndisturbedPush
<1> QED BY <1>3, <1>4

\* A step of an activation that only changes the interface.
LEMMA ActivatingStep ==
    ASSUME IInv, frames /= <<>>, frames[1].at \in Activating, d' \in Daemons, Quiet,
           d'.conn = d.conn, d'.counts = d.counts, d'.dns = d.dns, d'.rules = d.rules,
           d'.shaken = d.shaken, d'.timer = d.timer, d'.failed = d.failed,
           \/ frames' = Rest
           \/ \E g : /\ FrameOK(g) /\ g.at \in Activating /\ g.by = frames[1].by
                     /\ frames' = <<g>> \o Rest
    PROVE  IInv'
<1>1. Moved(frames[1], Rest)
  BY DEF Moved
<1>2. frames[1].at /= "status"
  BY DEF Activating
<1>3. FramesOK(frames') /\ Polled'
  BY <1>1, <1>2, PolledMoved DEF IInv
<1>4. Types'
  BY <1>3 DEF IInv, Types, TypeOK, FramesOK, Quiet
<1>5. Learning'
  BY LearningKept DEF IInv, Quiet
<1>6. Counting'
  BY CountingActivating DEF IInv, Quiet
<1>7. Owed'
  BY <1>1, OwedMoved DEF IInv, Quiet
<1> QED BY <1>3, <1>4, <1>5, <1>6, <1>7 DEF IInv

LEMMA TopFrame ==
    ASSUME Types, NEW at, At(at)
    PROVE  /\ frames /= <<>> /\ frames[1].at = at /\ FrameOK(frames[1])
           /\ FramesOK(Rest) /\ frames[1] \in Frames
BY PopFacts DEF Types, At, Rest, FrameOK

LEMMA TunnelNameStep ==
    ASSUME IInv, TunnelName
    PROVE  IInv'
<1>1. /\ frames /= <<>> /\ frames[1].at = "tunnelName" /\ FrameOK(frames[1])
      /\ frames[1] \in Frames /\ d \in Daemons /\ Quiet
  BY TopFrame DEF IInv, TunnelName, Types, TypeOK
<1>2. frames[1].at \in Activating /\ frames[1].cfg \in Configs /\ frames[1].by /= Timer
  BY <1>1 DEF FrameOK, Activating
<1>3. CASE d' = [d EXCEPT !.mon = TRUE, !.list = {}]
           /\ frames' = <<[frames[1] EXCEPT !.at = "interface"]>> \o Rest
  <2> DEFINE g == [frames[1] EXCEPT !.at = "interface"]
  <2>1. FrameOK(g) /\ g.at \in Activating /\ g.by = frames[1].by
    BY <1>1, <1>2, MovedFrame DEF Activating
  <2>2. frames' = <<g>> \o Rest
    BY <1>3
  <2> HIDE DEF g
  <2>3. /\ d' \in Daemons /\ d'.conn = d.conn /\ d'.counts = d.counts /\ d'.dns = d.dns
        /\ d'.rules = d.rules /\ d'.shaken = d.shaken /\ d'.timer = d.timer /\ d'.failed = d.failed
    BY <1>1, <1>3 DEF Daemons
  <2> QED BY <1>1, <1>2, <2>1, <2>2, <2>3, ActivatingStep
<1>4. CASE Fail([d EXCEPT !.proc = FALSE], Rest)
  <2>1. /\ d' \in Daemons /\ d'.conn = d.conn /\ d'.counts = d.counts /\ d'.dns = d.dns
        /\ d'.rules = d.rules /\ d'.shaken = d.shaken /\ d'.timer = d.timer /\ d'.failed = d.failed
        /\ frames' = Rest
    BY <1>1, <1>4 DEF Daemons, Fail
  <2> QED BY <1>1, <1>2, <2>1, ActivatingStep
<1> QED BY <1>3, <1>4 DEF TunnelName

LEMMA InterfaceActionStep ==
    ASSUME IInv, Interface
    PROVE  IInv'
<1>1. /\ frames /= <<>> /\ frames[1].at = "interface" /\ FrameOK(frames[1])
      /\ frames[1] \in Frames /\ d \in Daemons /\ Quiet
  BY TopFrame DEF IInv, Interface, Types, TypeOK
<1>2. frames[1].at \in Activating /\ frames[1].cfg \in Configs /\ frames[1].by /= Timer
  BY <1>1 DEF FrameOK, Activating
<1>3. CASE UpdatePeer(d, [frames[1] EXCEPT !.at = "peer"], Rest)
  <2> DEFINE g == [frames[1] EXCEPT !.at = "peer"]
  <2>1. FrameOK(g) /\ g.at \in Activating /\ g.by = frames[1].by /\ g.cfg \in Configs
    BY <1>1, <1>2, MovedFrame DEF Activating
  <2>2. UpdatePeer(d, g, Rest)
    BY <1>3
  <2> HIDE DEF g
  <2>3. d' \in Daemons /\ MoreListed(d', d) /\ frames' = <<g>> \o Rest
    BY <1>1, <2>1, <2>2, UpdatePeerStep
  <2> QED BY <1>1, <1>2, <2>1, <2>3, ActivatingStep DEF MoreListed, SameElse
<1>4. CASE Fail(d, Rest)
  BY <1>1, <1>2, <1>4, ActivatingStep DEF Fail
<1>5. CASE Fail(DeleteInterface(d), Rest)
  BY <1>1, <1>2, <1>5, InterfaceStep, ActivatingStep DEF Fail
<1> QED BY <1>3, <1>4, <1>5 DEF Interface

LEMMA PeerStep ==
    ASSUME IInv, Peer
    PROVE  IInv'
<1>1. /\ frames /= <<>> /\ frames[1].at = "peer" /\ FrameOK(frames[1])
      /\ frames[1] \in Frames /\ d \in Daemons /\ Quiet
  BY TopFrame DEF IInv, Peer, Types, TypeOK
<1>2. frames[1].at \in Activating /\ frames[1].cfg \in Configs /\ frames[1].at /= "status"
  BY <1>1 DEF FrameOK, Activating
<1>3. CASE Fail(d, Rest)
  BY <1>1, <1>2, <1>3, ActivatingStep DEF Fail
<1>4. CASE Fail([d EXCEPT !.resolvers = TRUE], Rest)
  <2>1. /\ d' \in Daemons /\ d'.conn = d.conn /\ d'.counts = d.counts /\ d'.dns = d.dns
        /\ d'.rules = d.rules /\ d'.shaken = d.shaken /\ d'.timer = d.timer /\ d'.failed = d.failed
        /\ frames' = Rest
    BY <1>1, <1>4 DEF Daemons, Fail
  <2> QED BY <1>1, <1>2, <2>1, ActivatingStep
<1>5. CASE /\ d' = [d EXCEPT !.resolvers = TRUE, !.conn = frames[1].cfg, !.shaken = FALSE,
                             !.timer = TRUE, !.failed = FALSE]
           /\ frames' = Rest
  <2>1. /\ d' \in Daemons /\ d'.conn = frames[1].cfg /\ ~d'.shaken /\ d'.timer
        /\ d'.counts = d.counts /\ d'.dns = d.dns
    BY <1>1, <1>2, <1>5 DEF Daemons
  <2>2. Moved(frames[1], Rest)
    BY <1>5 DEF Moved
  <2>3. FramesOK(frames') /\ Polled'
    BY <1>1, <1>2, <2>1, <2>2, PolledMoved DEF IInv
  <2>4. Types'
    BY <1>1, <2>1, <2>3 DEF IInv, Types, TypeOK, FramesOK, Quiet
  <2>5. Learning'
    BY <2>1 DEF Learning
  <2>6. Counting'
    <3> SUFFICES ASSUME ~nested
                 PROVE  Undisturbed(d', frames', lookups', switched')
      BY <1>1 DEF Counting, Quiet
    <3>1. /\ FramesOK(Rest) /\ AllStatus(Rest) /\ d.counts = Zero /\ Unlearned(d, lookups)
      BY <1>1, <1>2, ActivatingClean DEF IInv
    <3>2. \A a \in Addrs : d'.counts[a] = 0 /\ ByDns(d', a) = 0 /\ ByConfig(d', a) = 0
      BY <2>1, <3>1 DEF Zero, Unlearned, ByDns, ByConfig
    <3>3. Counted(d') = {} /\ Exact(d')
      BY <3>2 DEF Counted, Exact
    <3>4. d'.conn /= None
      BY <1>2, <2>1, NamesAssumption
    <3>5. Right(d', lookups', switched')
      BY <3>3, <3>4 DEF Right, Listed
    <3> QED BY <1>5, <3>1, <3>5, UndisturbedRest
  <2>7. Owed'
    BY <1>1, <1>2, <2>2, OwedMoved DEF IInv, Quiet
  <2> QED BY <2>3, <2>4, <2>5, <2>6, <2>7 DEF IInv
<1> QED BY <1>3, <1>4, <1>5 DEF Peer

\* A step of a switch, which keeps the counted addresses listed, apart from the servers'.
LEMMA SwitchingStep ==
    ASSUME IInv, frames /= <<>>, frames[1].at \in Switching, d' \in Daemons, Quiet,
           d.conn /= None => d'.conn /= None,
           \/ ~d'.shaken /\ (d'.timer \/ d'.failed)
           \/ d'.conn = d.conn /\ d'.shaken = d.shaken /\ d'.timer = d.timer /\ d'.failed = d.failed /\ d'.rules = d.rules,
           Listed(d, TRUE) => Listed(d', TRUE),
           \/ frames' = Rest
           \/ \E g : /\ FrameOK(g) /\ g.at \in Switching /\ g.by = frames[1].by
                     /\ frames' = <<g>> \o Rest
    PROVE  IInv'
<1>1. Moved(frames[1], Rest)
  BY DEF Moved
<1>2. frames[1].at /= "status" /\ frames[1].at \in Activating \cup Switching
  BY DEF Switching
<1>3. FramesOK(frames') /\ Polled'
  BY <1>1, <1>2, PolledMoved DEF IInv
<1>4. Types'
  BY <1>3 DEF IInv, Types, TypeOK, FramesOK, Quiet
<1>5. Learning'
  BY LearningKept DEF IInv, Quiet
<1>6. Counting'
  <2> SUFFICES ASSUME ~nested
               PROVE  Undisturbed(d', frames', lookups', switched')
    BY DEF Counting, Quiet
  <2>1. FramesOK(Rest) /\ \A ats : TopIn(frames, ats) <=> frames[1].at \in ats
    BY PopFacts DEF IInv, Types, Rest
  <2>2. AllStatus(Rest) /\ switched /\ d.conn /= None /\ Right(d, lookups, switched)
    BY <2>1 DEF IInv, Counting, Undisturbed, Switching, Rest
  <2>3. switched = TRUE /\ switched' = switched
    BY <2>2 DEF IInv, Types, TypeOK, Quiet
  <2>4. Right(d', lookups', switched')
    BY <2>2, <2>3 DEF Right
  <2>5. CASE frames' = Rest
    BY <2>1, <2>2, <2>4, <2>5, UndisturbedRest
  <2>6. CASE frames' /= Rest
    <3>1. PICK g : FrameOK(g) /\ g.at \in Switching /\ frames' = <<g>> \o Rest
      BY <2>6
    <3>2. g.at \notin Activating /\ g.at /= "deletePeer"
      BY <3>1 DEF Activating, Switching
    <3> QED BY <2>1, <2>2, <2>3, <2>4, <3>1, <3>2, UndisturbedPush
  <2> QED BY <2>5, <2>6
<1>7. Owed'
  BY <1>1, <1>2, OwedMoved DEF IInv, Quiet
<1> QED BY <1>3, <1>4, <1>5, <1>6, <1>7 DEF IInv

\* The end of a switch, from the daemon x.
LEMMA SwitchedStep ==
    ASSUME IInv, frames /= <<>>, frames[1].at \in Switching, Quiet,
           NEW x \in Daemons, Listed(d, TRUE) => Listed(x, TRUE), Switched(x)
    PROVE  IInv'
<1>1. frames[1].cfg \in Configs
  BY PopFacts DEF IInv, Types, FrameOK
<1>2. /\ d' \in Daemons /\ d'.conn = frames[1].cfg /\ ~d'.shaken /\ (d'.timer \/ d'.failed)
      /\ d'.counts = x.counts /\ d'.list = x.list /\ frames' = Rest
  BY <1>1 DEF Switched, Daemons
<1>3. d'.conn /= None
  BY <1>1, <1>2, NamesAssumption
<1>4. Listed(d, TRUE) => Listed(d', TRUE)
  BY <1>2 DEF Listed, Counted
<1> QED BY <1>2, <1>3, <1>4, SwitchingStep

LEMMA ExcludedType ==
    ASSUME NEW c \in Configs
    PROVE  Excluded(c) \in SUBSET Addrs
BY ConfigsAssumption DEF Excluded

LEMMA SwitchPeerStep ==
    ASSUME IInv, SwitchPeer
    PROVE  IInv'
<1> DEFINE last == frames[1].last
           x == DelExclusion(d, Excluded(last))
<1>1. /\ frames /= <<>> /\ frames[1].at = "switchPeer" /\ FrameOK(frames[1])
      /\ frames[1] \in Frames /\ d \in Daemons /\ Quiet
  BY TopFrame DEF IInv, SwitchPeer, Types, TypeOK
<1>2. /\ frames[1].at \in Switching /\ frames[1].cfg \in Configs /\ last \in Configs
      /\ frames[1].by /= Timer
  BY <1>1 DEF FrameOK, Switching
<1>3. Excluded(last) \in SUBSET Addrs
  BY <1>2, ExcludedType
<1>4. x \in Daemons /\ SameElse(x, d) /\ (Listed(d, TRUE) => Listed(x, TRUE))
  BY <1>1, <1>3, DelStep, DelListed
<1> HIDE DEF x
<1>5. CASE Fail(d, Rest)
  BY <1>1, <1>2, <1>5, SwitchingStep DEF Fail
<1>6. CASE Switched(x)
  BY <1>1, <1>2, <1>4, <1>6, SwitchedStep
<1>7. CASE /\ d' = [x EXCEPT !.list = @ \ {last.host}]
           /\ frames' = <<[frames[1] EXCEPT !.at = "switchDelete"]>> \o Rest
  <2> DEFINE g == [frames[1] EXCEPT !.at = "switchDelete"]
  <2>1. FrameOK(g) /\ g.at \in Switching /\ g.by = frames[1].by
    BY <1>1, <1>2, MovedFrame DEF Switching
  <2>2. frames' = <<g>> \o Rest
    BY <1>7
  <2> HIDE DEF g
  <2>3. d' \in Daemons /\ SameElse(d', x) /\ d'.counts = x.counts /\ d'.list = x.list \ {last.host}
    BY <1>4, <1>7 DEF Daemons, SameElse
  <2>4. last.host \in Servers(TRUE)
    BY <1>2 DEF Servers
  <2>5. Listed(d, TRUE) => Listed(d', TRUE)
    BY <1>4, <2>3, <2>4 DEF Listed, Counted
  <2>6. /\ d'.conn = d.conn /\ d'.shaken = d.shaken /\ d'.timer = d.timer /\ d'.failed = d.failed
        /\ d'.rules = d.rules
    BY <1>4, <2>3 DEF SameElse
  <2> QED BY <1>1, <1>2, <2>1, <2>2, <2>3, <2>5, <2>6, SwitchingStep
<1> QED BY <1>5, <1>6, <1>7 DEF SwitchPeer, x

LEMMA SwitchDeleteStep ==
    ASSUME IInv, SwitchDelete
    PROVE  IInv'
<1>1. /\ frames /= <<>> /\ frames[1].at = "switchDelete" /\ d \in Daemons /\ Quiet
  BY TopFrame DEF IInv, SwitchDelete, Types, TypeOK
<1>2. frames[1].at \in Switching
  BY <1>1 DEF Switching
<1>3. CASE Fail(d, Rest)
  BY <1>1, <1>2, <1>3, SwitchingStep DEF Fail
<1>4. CASE Switched(d)
  BY <1>1, <1>2, <1>4, SwitchedStep
<1> QED BY <1>3, <1>4 DEF SwitchDelete

LEMMA DeletePeerStep ==
    ASSUME IInv, DeletePeer
    PROVE  IInv'
<1> DEFINE f == frames[1]
<1>1. /\ frames /= <<>> /\ f.at = "deletePeer" /\ FrameOK(f) /\ f \in Frames /\ d \in Daemons
      /\ FramesOK(Rest) /\ UNCHANGED <<inbox, client, lookups, learned, nested>>
  BY TopFrame DEF IInv, DeletePeer, Types, TypeOK
<1>2. f.by /= Timer /\ f.at /= "status"
  BY <1>1 DEF FrameOK
<1>3. /\ d' \in Daemons /\ switched' = FALSE
      /\ d'.conn = None /\ d'.rules = d.rules
      /\ d'.resolvers = d.resolvers /\ d'.dns = d.dns
      /\ d'.counts = [a \in Addrs |-> 0] /\ ~d'.mon
      /\ \/ frames' = Rest
         \/ \E g : /\ FrameOK(g) /\ g.at \in Activating /\ g.by = f.by /\ g.cfg = f.cfg
                   /\ f.cfg /= None /\ frames' = <<g>> \o Rest
  BY <1>1, <1>2, DeactivatedStep DEF DeletePeer
<1>4. Moved(f, Rest)
  BY <1>3 DEF Moved
<1>5. FramesOK(frames') /\ Polled'
  BY <1>1, <1>2, <1>3, <1>4, PolledMoved DEF IInv
<1>6. Types'
  BY <1>1, <1>3, <1>5 DEF IInv, Types, TypeOK, FramesOK
<1>7. Learning'
  BY <1>3 DEF Learning
<1>8. Counting'
  <2> SUFFICES ASSUME ~nested
               PROVE  Undisturbed(d', frames', lookups', switched')
    BY <1>1 DEF Counting
  <2>1. \A ats : TopIn(frames, ats) <=> f.at \in ats
    BY <1>1, PopFacts DEF IInv, Types
  <2>2. AllStatus(Rest) /\ Unlearned(d, lookups)
    BY <1>1, <2>1 DEF IInv, Counting, Undisturbed, Rest
  <2>3. Unlearned(d', lookups') /\ d'.counts = Zero
    BY <1>1, <1>3, <2>2 DEF Unlearned, Zero
  <2>4. Right(d', lookups', switched')
    BY <1>3, <2>3, ZeroRight
  <2>5. CASE frames' = Rest
    BY <1>1, <2>2, <2>4, <2>5, UndisturbedRest
  <2>6. CASE frames' /= Rest
    <3>1. PICK g : FrameOK(g) /\ g.at \in Activating /\ frames' = <<g>> \o Rest
      BY <1>3, <2>6
    <3>2. g.at \notin Switching /\ g.at /= "deletePeer"
      BY <3>1 DEF Activating, Switching
    <3> QED BY <1>1, <1>3, <2>2, <2>4, <3>1, <3>2, UndisturbedPush
  <2> QED BY <2>5, <2>6
<1>9. Owed'
  <2> SUFFICES ASSUME ~client.silent
               PROVE  /\ \A s \in Sockets : inbox[s] /= <<>> => s \in Owers
                      /\ FramesOf(frames', Owers) /\ (Owers = {} => ~d'.resolvers)
    BY <1>1, <1>3, OwersKept DEF Owed
  <2>1. /\ \A s \in Sockets : inbox[s] /= <<>> => s \in Owers
        /\ FramesOf(frames, Owers) /\ (Owers = {} => ~d.resolvers)
    BY DEF IInv, Owed
  <2>2. FrameOf(f, Owers) /\ FramesOf(Rest, Owers)
    BY <1>1, <2>1, PopFacts DEF IInv, Types, Rest
  <2>3. CASE frames' = Rest
    BY <1>3, <2>1, <2>2, <2>3
  <2>4. CASE frames' /= Rest
    <3>1. PICK g : /\ FrameOK(g) /\ g.by = f.by /\ f.cfg /= None
                   /\ frames' = <<g>> \o Rest
      BY <1>3, <2>4
    <3>2. FrameOf(g, Owers)
      BY <1>2, <2>2, <3>1 DEF FrameOf
    <3> QED BY <1>1, <1>3, <2>1, <2>2, <3>1, <3>2, PushFacts
  <2> QED BY <2>3, <2>4
<1> QED BY <1>5, <1>6, <1>7, <1>8, <1>9 DEF IInv

-----------------------------------------------------------------------------
(* The handshake. *)

\* Nothing waits but handlers of the timer, and nothing has run inside a request.
LEMMA OutsideRequests ==
    ASSUME Types, Counting, ~Inside
    PROVE  ~nested /\ AllStatus(frames) /\ Right(d, lookups, switched)
<1>1. ~nested /\ \A i \in 1..Len(frames) : frames[i].by = Timer
  BY DEF Inside
<1>2. AllStatus(frames)
  BY <1>1 DEF Types, FramesOK, FrameOK, AllStatus
<1>3. ~TopIn(frames, {"deletePeer"})
  BY <1>2, StatusTop DEF Types
<1> QED BY <1>1, <1>2, <1>3 DEF Counting, Undisturbed

LEMMA CheckHandshakeStep ==
    ASSUME IInv, CheckHandshake
    PROVE  IInv'
<1> DEFINE f == Frame("status", Timer, None, None)
<1>1. FrameOK(f) /\ f.at = "status"
  BY NewFrame DEF Activating, Switching
<1>2. d \in Daemons /\ FramesOK(frames) /\ frames' = <<f>> \o frames
  BY DEF IInv, Types, TypeOK, CheckHandshake
<1> HIDE DEF f
<1>3. /\ d' \in Daemons /\ d'.conn = d.conn /\ d'.shaken = d.shaken /\ d'.rules = d.rules
      /\ d'.dns = d.dns /\ d'.counts = d.counts /\ d'.list = d.list
      /\ d'.resolvers = d.resolvers /\ d'.mon = d.mon
  BY <1>2 DEF CheckHandshake, Daemons
<1>4. /\ FramesOK(frames') /\ HasStatus(frames')
      /\ HasTeardown(frames) => HasTeardown(frames')
      /\ FramesOf(frames, Owers) => FramesOf(frames', Owers)
  BY <1>1, <1>2, PushOK, PushFacts DEF FrameOf
<1>5. UNCHANGED <<inbox, client, lookups, learned, switched>> /\ nested' = Inside
  BY DEF CheckHandshake
<1>6. Inside \in BOOLEAN
  BY DEF Inside, IInv, Types, TypeOK
<1>7. Types'
  BY <1>3, <1>4, <1>5, <1>6 DEF IInv, Types, TypeOK, FramesOK
<1>8. Polled'
  BY <1>4 DEF Polled
<1>9. Learning'
  BY <1>3, <1>5, LearningKept DEF IInv
<1>10. Counting'
  <2> SUFFICES ASSUME ~Inside
               PROVE  Undisturbed(d', frames', lookups', switched')
    BY <1>5 DEF Counting
  <2>1. AllStatus(frames) /\ Right(d, lookups, switched)
    BY OutsideRequests DEF IInv
  <2>2. Right(d', lookups', switched')
    BY <1>2, <1>3, <1>5, <2>1, AsBeforeRight
  <2> QED BY <1>1, <1>2, <2>1, <2>2, UndisturbedPush DEF Activating, Switching
<1>11. Owed'
  BY <1>3, <1>4, <1>5, OwersKept DEF IInv, Owed
<1> QED BY <1>7, <1>8, <1>9, <1>10, <1>11 DEF IInv

\* The handler of the timer ends: what was to be torn down still is.
LEMMA StatusOwed ==
    ASSUME Types, Owed, At("status"), frames' = Rest, UNCHANGED <<client, inbox>>,
           d'.resolvers = d.resolvers, d'.conn = d.conn, d'.mon = d.mon
    PROVE  Owed'
<1>1. /\ frames /= <<>> /\ ~IsTeardown(frames[1])
      /\ HasTeardown(frames) => HasTeardown(Rest)
      /\ FramesOf(frames, Owers) => FramesOf(Rest, Owers)
  BY TopFrame, PopFacts DEF Types, IsTeardown, Rest
<1> QED BY <1>1, OwersKept DEF Owed

LEMMA StatusCounting ==
    ASSUME Types, Counting, ~nested, At("status")
    PROVE  FramesOK(Rest) /\ AllStatus(Rest) /\ Right(d, lookups, switched)
<1>1. /\ frames /= <<>> /\ frames[1].at = "status" /\ FramesOK(Rest)
      /\ \A ats : TopIn(frames, ats) <=> frames[1].at \in ats
  BY TopFrame, PopFacts DEF Types, Rest
<1> QED BY <1>1 DEF Counting, Undisturbed, Rest

LEMMA ObsoleteType ==
    ASSUME lookups \subseteq Lookups
    PROVE  Obsolete(lookups) \subseteq Lookups /\ NoneCurrent(Obsolete(lookups))
BY DEF Obsolete, Lookups, NoneCurrent

\* The daemon after the handshake: learned routes are dropped, static ones counted.
LEMMA ShakenDaemon ==
    ASSUME d \in Daemons, d.conn \in Configs, ~d.shaken, NEW ok \in SUBSET Addrs, Shaken(ok)
    PROVE  /\ d' \in Daemons /\ d'.conn = d.conn /\ d'.shaken /\ d'.rules = Named(d.conn)
           /\ d'.resolvers = d.resolvers /\ d'.mon = d.mon
           /\ \A sw : Listed(d, sw) => Listed(d', sw)
           /\ Exact(d) => Exact(d')
<1> DEFINE y == ClearDnsRoutes(d)
           z == [y EXCEPT !.shaken = TRUE, !.rules = Named(d.conn), !.failed = FALSE]
           as == Excluded(d.conn)
           done == Excludable(z, as, ok)
<1>1. d' = AddExclusion(z, as, ok)
  BY DEF Shaken
<1>2. as \in SUBSET Addrs
  BY ExcludedType
<1>3. /\ y \in Daemons /\ SameElse(y, d) /\ y.dns = {}
      /\ \A a \in Addrs : y.counts[a] = IF a \in d.dns /\ d.counts[a] > 0
                                        THEN d.counts[a] - 1 ELSE d.counts[a]
  BY ClearStep
<1>4. \A sw : Listed(d, sw) => Listed(y, sw)
  BY ClearListed
<1> HIDE DEF y, as
<1>5. Named(d.conn) \in Configs \cup {None}
  BY DEF Named
<1>6. /\ z \in Daemons /\ z.conn = d.conn /\ z.shaken /\ z.rules = Named(d.conn)
      /\ z.resolvers = d.resolvers /\ z.mon = d.mon /\ z.dns = {}
      /\ z.counts = y.counts /\ z.list = y.list
  BY <1>3, <1>5 DEF Daemons, SameElse
<1> HIDE DEF z
<1>7. /\ d' \in Daemons /\ SameElse(d', z) /\ d'.dns = z.dns /\ done \subseteq as
      /\ \A a \in Addrs : d'.counts[a] = IF a \in done THEN z.counts[a] + 1 ELSE z.counts[a]
  <2>1. PICK u \in Daemons, bs \in SUBSET Addrs : u = z /\ bs = as
    BY <1>2, <1>6
  <2>2. LET w == AddExclusion(u, bs, ok)
            e == Excludable(u, bs, ok)
        IN /\ w \in Daemons /\ SameElse(w, u) /\ w.dns = u.dns /\ e \subseteq bs
           /\ \A a \in Addrs : w.counts[a] = IF a \in e THEN u.counts[a] + 1 ELSE u.counts[a]
    BY AddStep
  <2> QED BY <1>1, <2>1, <2>2
<1>8. \A sw : Listed(y, sw) => Listed(d', sw)
  BY <1>1, <1>2, <1>6, AddListed DEF Listed, Counted
<1> HIDE DEF done
<1>9. ASSUME Exact(d), NEW a \in Addrs
      PROVE  d'.counts[a] \in ByDns(d', a)..(ByDns(d', a) + ByConfig(d', a))
  <2>1. ByConfig(d, a) = 0 /\ ByDns(d, a) \in {0, 1} /\ (ByDns(d, a) = 1 <=> a \in d.dns)
    BY DEF ByConfig, ByDns
  <2>2. d.counts[a] \in ByDns(d, a)..(ByDns(d, a) + ByConfig(d, a))
    BY <1>9 DEF Exact
  <2>3. d.counts[a] = ByDns(d, a)
    BY <2>1, <2>2
  <2>4. y.counts[a] = 0
    BY <1>3, <2>1, <2>3
  <2>5. d'.counts[a] = IF a \in done THEN 1 ELSE 0
    BY <1>6, <1>7, <2>4
  <2>6. ByDns(d', a) = 0 /\ d'.conn = d.conn /\ d'.shaken
    BY <1>6, <1>7 DEF ByDns, SameElse
  <2>7. d'.conn /= None
    BY <2>6, NamesAssumption
  <2>8. ByConfig(d', a) = IF a \in as THEN 1 ELSE 0
    BY <2>6, <2>7 DEF ByConfig, as
  <2>9. CASE a \in done
    <3>1. d'.counts[a] = 1 /\ ByConfig(d', a) = 1
      BY <1>7, <2>5, <2>8, <2>9
    <3> QED BY <2>6, <3>1
  <2>10. CASE a \notin done
    <3>1. d'.counts[a] = 0 /\ ByConfig(d', a) \in {0, 1}
      BY <2>5, <2>8, <2>10
    <3> QED BY <2>6, <3>1
  <2> QED BY <2>9, <2>10
<1> QED BY <1>4, <1>6, <1>7, <1>8, <1>9 DEF SameElse, Exact

LEMMA StatusShaken ==
    ASSUME IInv, At("status"), d.conn /= None, ~d.shaken, NEW ok \in Accepted, Shaken(ok),
           frames' = Rest, UNCHANGED <<inbox, client, switched, nested>>
    PROVE  IInv'
<1>1. d \in Daemons /\ d.conn \in Configs /\ ok \in SUBSET Addrs /\ lookups \subseteq Lookups
  BY ConfigsAssumption DEF IInv, Types, TypeOK, Daemons
<1>2. /\ d' \in Daemons /\ d'.conn = d.conn /\ d'.shaken /\ d'.rules = Named(d.conn)
      /\ d'.resolvers = d.resolvers /\ d'.mon = d.mon
      /\ \A sw : Listed(d, sw) => Listed(d', sw)
      /\ Exact(d) => Exact(d')
  BY <1>1, ShakenDaemon
<1> DEFINE new == {[cfg |-> c, current |-> TRUE] : c \in {Named(d.conn)} \ {None}}
<1>3. new \subseteq Lookups /\ \A l \in new : l.cfg = d.conn
  <2> SUFFICES ASSUME NEW l \in new
               PROVE  l \in Lookups /\ l.cfg = d.conn
    OBVIOUS
  <2>1. PICK c \in {Named(d.conn)} \ {None} : l = [cfg |-> c, current |-> TRUE]
    OBVIOUS
  <2>2. c = d.conn
    BY <2>1 DEF Named
  <2> QED BY <1>1, <2>1, <2>2 DEF Lookups
<1>4. lookups' = Obsolete(lookups) \cup new /\ learned' = {}
  BY DEF Shaken
<1> HIDE DEF new
<1>5. FramesOK(frames')
  BY TopFrame DEF IInv
<1>6. Types'
  BY <1>1, <1>2, <1>3, <1>4, <1>5, ObsoleteType DEF IInv, Types, TypeOK, FramesOK
<1>7. Polled'
  BY <1>2 DEF Polled
<1>8. Learning'
  <2>1. d'.rules \in {None, d'.conn}
    BY <1>2 DEF Named
  <2>2. \A l \in lookups' : l.current => l.cfg = d'.conn
    BY <1>1, <1>2, <1>3, <1>4, ObsoleteType DEF NoneCurrent
  <2> QED BY <1>4, <2>1, <2>2 DEF Learning
<1>9. Counting'
  <2> SUFFICES ASSUME ~nested
               PROVE  Undisturbed(d', frames', lookups', switched')
    BY DEF Counting
  <2>1. FramesOK(Rest) /\ AllStatus(Rest) /\ Right(d, lookups, switched)
    BY StatusCounting DEF IInv
  <2>2. Right(d', lookups', switched')
    BY <1>2, <2>1 DEF Right
  <2> QED BY <2>1, <2>2, UndisturbedRest
<1>10. Owed'
  BY <1>2, StatusOwed DEF IInv
<1> QED BY <1>6, <1>7, <1>8, <1>9, <1>10 DEF IInv

LEMMA StatusStep ==
    ASSUME IInv, Status
    PROVE  IInv'
<1>1. At("status") /\ frames' = Rest /\ UNCHANGED <<inbox, client, switched, nested>>
  BY DEF Status
<1>2. CASE d.conn /= None /\ ~d.shaken /\ \E ok \in Accepted : Shaken(ok)
  BY <1>1, <1>2, StatusShaken
<1>3. CASE /\ d' = [d EXCEPT !.timer = @ \/ (d.conn /= None /\ ~d.shaken)]
           /\ UNCHANGED <<lookups, learned>>
  <2>1. d \in Daemons
    BY DEF IInv, Types, TypeOK
  <2> DEFINE t == d.timer \/ (d.conn /= None /\ ~d.shaken)
  <2>2. d' = [d EXCEPT !.timer = t] /\ t \in BOOLEAN
    BY <1>3, <2>1 DEF Daemons
  <2>3. d.conn /= None /\ ~d.shaken => t
    OBVIOUS
  <2> HIDE DEF t
  <2>4. /\ d' \in Daemons /\ d'.conn = d.conn /\ d'.shaken = d.shaken /\ d'.rules = d.rules
        /\ d'.dns = d.dns /\ d'.counts = d.counts /\ d'.list = d.list
        /\ d'.resolvers = d.resolvers /\ d'.mon = d.mon /\ d'.timer = t
    BY <2>1, <2>2 DEF Daemons
  <2>5. FramesOK(frames')
    BY <1>1, TopFrame DEF IInv
  <2>6. Types'
    BY <1>1, <1>3, <2>4, <2>5 DEF IInv, Types, TypeOK, FramesOK
  <2>7. Polled'
    BY <2>3, <2>4 DEF Polled
  <2>8. Learning'
    BY <1>3, <2>4, LearningKept DEF IInv
  <2>9. Counting'
    <3> SUFFICES ASSUME ~nested
                 PROVE  Undisturbed(d', frames', lookups', switched')
      BY <1>1 DEF Counting
    <3>1. FramesOK(Rest) /\ AllStatus(Rest) /\ Right(d, lookups, switched)
      BY <1>1, StatusCounting DEF IInv
    <3>2. Right(d', lookups', switched')
      BY <1>1, <1>3, <2>1, <2>4, <3>1, AsBeforeRight
    <3> QED BY <1>1, <3>1, <3>2, UndisturbedRest
  <2>10. Owed'
    BY <1>1, <2>4, StatusOwed DEF IInv
  <2> QED BY <2>6, <2>7, <2>8, <2>9, <2>10 DEF IInv
<1> QED BY <1>2, <1>3 DEF Status

-----------------------------------------------------------------------------
(* Learned addresses. *)

\* A host name of c is resolved, when something could be learned.
LEMMA ResolvedStep ==
    ASSUME IInv, NEW c \in Configs, Resolved(c), lookups' \subseteq lookups,
           d.conn /= None /\ d.shaken => c = d.conn,
           ~Unlearned(d, lookups)
    PROVE  IInv'
<1>1. PICK ips \in SUBSET c.names, ok \in Accepted :
        LET new == Excludable(d, ips \ d.dns, ok)
        IN /\ d' = [AddExclusion(d, ips \ d.dns, ok) EXCEPT !.dns = @ \cup new]
           /\ learned' = IF new = {} THEN learned ELSE learned \cup {c}
  BY DEF Resolved
<1> DEFINE as == ips \ d.dns
           new == Excludable(d, as, ok)
           y == AddExclusion(d, as, ok)
<1>2. d \in Daemons /\ as \in SUBSET Addrs /\ ok \in SUBSET Addrs /\ as \cap d.dns = {}
  BY ConfigsAssumption DEF IInv, Types, TypeOK
<1>3. UNCHANGED <<frames, inbox, client, switched, nested>>
  BY DEF Resolved
<1>4. /\ d' = [y EXCEPT !.dns = y.dns \cup new]
      /\ learned' = IF new = {} THEN learned ELSE learned \cup {c}
  BY <1>1
<1> HIDE DEF as
<1>5. /\ y \in Daemons /\ SameElse(y, d) /\ y.dns = d.dns /\ new \subseteq as
      /\ \A a \in Addrs : y.counts[a] = IF a \in new THEN d.counts[a] + 1 ELSE d.counts[a]
  BY <1>2, AddStep
<1>6. \A sw : Listed(d, sw) => Listed(y, sw)
  BY <1>2, AddListed
<1> HIDE DEF y, new
<1>7. /\ d' \in Daemons /\ SameElse(d', d) /\ d'.dns = d.dns \cup new
      /\ d'.counts = y.counts /\ d'.list = y.list
  <2>1. new \subseteq Addrs
    BY <1>2, <1>5
  <2> QED BY <1>4, <1>5, <2>1 DEF Daemons, SameElse
<1>8. Types'
  BY <1>3, <1>4, <1>7 DEF IInv, Types, TypeOK
<1>9. Polled'
  BY <1>3, <1>7 DEF IInv, Polled, SameElse
<1>10. Learning'
  BY <1>4, <1>7 DEF IInv, Learning, SameElse
<1>11. Exact(d) => Exact(d')
  <2> SUFFICES ASSUME Exact(d), NEW a \in Addrs
               PROVE  d'.counts[a] \in ByDns(d', a)..(ByDns(d', a) + ByConfig(d', a))
    BY DEF Exact
  <2>1. d.counts[a] \in ByDns(d, a)..(ByDns(d, a) + ByConfig(d, a)) /\ d.counts[a] \in Nat
    BY <1>2 DEF Exact, Daemons
  <2>2. ByConfig(d', a) = ByConfig(d, a) /\ ByConfig(d, a) \in {0, 1}
    BY <1>7 DEF ByConfig, SameElse
  <2>3. CASE a \in new
    <3>1. ByDns(d, a) = 0 /\ ByDns(d', a) = 1
      BY <1>2, <1>5, <1>7, <2>3 DEF ByDns
    <3>2. d'.counts[a] = d.counts[a] + 1
      BY <1>5, <1>7, <2>3
    <3> QED BY <2>1, <2>2, <3>1, <3>2
  <2>4. CASE a \notin new
    <3>1. ByDns(d, a) = ByDns(d', a)
      BY <1>7, <2>4 DEF ByDns
    <3>2. d'.counts[a] = d.counts[a]
      BY <1>5, <1>7, <2>4
    <3> QED BY <2>1, <2>2, <3>1, <3>2
  <2> QED BY <2>3, <2>4
<1>12. \A sw : Listed(d, sw) => Listed(d', sw)
  BY <1>6, <1>7 DEF Listed, Counted
<1>13. Counting'
  <2> SUFFICES ASSUME ~nested
               PROVE  Undisturbed(d', frames, lookups', switched)
    BY <1>3 DEF Counting
  <2>1. Undisturbed(d, frames, lookups, switched)
    BY DEF IInv, Counting
  <2>2. ~TopIn(frames, {"deletePeer"}) /\ Right(d, lookups, switched)
    BY <2>1 DEF Undisturbed
  <2>3. d.conn /= None /\ d'.conn = d.conn
    BY <1>7, <2>2 DEF Right, SameElse
  <2>4. Right(d', lookups', switched)
    BY <1>11, <1>12, <2>2, <2>3 DEF Right
  <2> QED BY <2>1, <2>2, <2>3, <2>4 DEF Undisturbed
<1>14. Owed'
  BY <1>3, <1>7, OwersKept DEF IInv, Owed, SameElse
<1> QED BY <1>8, <1>9, <1>10, <1>13, <1>14 DEF IInv

LEMMA LookupStep ==
    ASSUME IInv, LookupDone
    PROVE  IInv'
<1>1. PICK l \in lookups :
        /\ lookups' = lookups \ {l}
        /\ IF l.current THEN Resolved(l.cfg)
           ELSE UNCHANGED <<d, frames, inbox, client, learned, switched, nested>>
  BY DEF LookupDone
<1>2. l.cfg \in Configs
  BY DEF IInv, Types, TypeOK, Lookups
<1>3. CASE l.current
  <2>1. d.conn /= None /\ d.shaken => l.cfg = d.conn
    BY <1>3 DEF IInv, Learning
  <2>2. ~Unlearned(d, lookups)
    BY <1>3 DEF Unlearned, NoneCurrent
  <2>3. Resolved(l.cfg) /\ lookups' \subseteq lookups
    BY <1>1, <1>3
  <2> QED BY <1>2, <2>1, <2>2, <2>3, ResolvedStep
<1>4. CASE ~l.current
  <2>1. UNCHANGED <<d, frames, inbox, client, learned, switched, nested>>
        /\ lookups' \subseteq lookups
    BY <1>1, <1>4
  <2>2. Types' /\ Polled' /\ Learning'
    BY <2>1 DEF IInv, Types, TypeOK, Polled, Learning
  <2>3. Counting'
    BY <2>1 DEF IInv, Counting, Undisturbed, Right, Unlearned, NoneCurrent
  <2>4. Owed'
    BY <2>1, OwersKept DEF IInv, Owed
  <2> QED BY <2>2, <2>3, <2>4 DEF IInv
<1> QED BY <1>3, <1>4

LEMMA ObservedStep ==
    ASSUME IInv, Observed
    PROVE  IInv'
<1>1. d.rules \in Configs /\ Resolved(d.rules) /\ lookups' \subseteq lookups
  BY DEF Observed, IInv, Types, TypeOK, Daemons
<1>2. d.conn /= None /\ d.shaken => d.rules = d.conn
  BY DEF Observed, IInv, Learning
<1>3. ~Unlearned(d, lookups)
  BY DEF Observed, Unlearned
<1> QED BY <1>1, <1>2, <1>3, ResolvedStep

-----------------------------------------------------------------------------
(* Requests. *)

\* What is handled next of the socket s.
LEMMA RequestRead ==
    ASSUME Types, NEW s \in Sockets, inbox[s] /= <<>>, inbox' = [inbox EXCEPT ![s] = Tail(@)]
    PROVE  /\ Head(inbox[s]) \in Requests /\ inbox' \in [Sockets -> Seq(Requests)]
           /\ \A t \in Sockets : t /= s => inbox'[t] = inbox[t]
           /\ inbox'[s] /= <<>> => inbox'[s][Len(inbox'[s])] = inbox[s][Len(inbox[s])]
           /\ inbox'[s] = <<>> => inbox[s][Len(inbox[s])] = Head(inbox[s])
<1>1. inbox \in [Sockets -> Seq(Requests)] /\ inbox[s] \in Seq(Requests)
  BY DEF Types, TypeOK
<1> DEFINE q == inbox[s]
           t == Tail(q)
<1>2. q \in Seq(Requests) /\ Len(q) \in Nat /\ Len(q) >= 1 /\ Head(q) = q[1] /\ q[1] \in Requests
  BY <1>1
<1>3. t \in Seq(Requests) /\ Len(t) = Len(q) - 1 /\ \A i \in 1..Len(t) : t[i] = q[i + 1]
  BY <1>2
<1>4. /\ inbox' \in [Sockets -> Seq(Requests)] /\ inbox'[s] = t
      /\ \A u \in Sockets : u /= s => inbox'[u] = inbox[u]
  BY <1>1, <1>3
<1> HIDE DEF q, t
<1>5. ASSUME t /= <<>>
      PROVE  t[Len(t)] = q[Len(q)]
  <2>1. Len(t) >= 1
    BY <1>3, <1>5
  <2>2. Len(t) \in 1..Len(t) /\ Len(t) + 1 = Len(q)
    BY <1>2, <1>3, <2>1
  <2> QED BY <1>3, <2>2
<1>6. ASSUME t = <<>>
      PROVE  q[Len(q)] = Head(q)
  <2>1. Len(q) = 1
    BY <1>2, <1>3, <1>6
  <2> QED BY <1>2, <2>1
<1> QED BY <1>2, <1>4, <1>5, <1>6 DEF q

\* A socket whose request has been read still owes one if that was an activation, or if
\* more are unread.
LEMMA OwersRead ==
    ASSUME Types, NEW s \in Sockets, inbox[s] /= <<>>, inbox' = [inbox EXCEPT ![s] = Tail(@)],
           UNCHANGED client, s \in Owers
    PROVE  /\ \A t \in Sockets : t /= s => (t \in Owers' <=> t \in Owers)
           /\ Head(inbox[s]).op = "activate" \/ inbox'[s] /= <<>> => s \in Owers'
<1>1. /\ \A t \in Sockets : t /= s => inbox'[t] = inbox[t]
      /\ inbox'[s] /= <<>> => inbox'[s][Len(inbox'[s])] = inbox[s][Len(inbox[s])]
      /\ inbox'[s] = <<>> => inbox[s][Len(inbox[s])] = Head(inbox[s])
  BY RequestRead
<1>2. \A t \in Sockets : t /= s => (t \in Owers' <=> t \in Owers)
  BY <1>1 DEF Owers, Owes
<1>3. client.sock = s \/ inbox[s][Len(inbox[s])].op = "deactivate"
  BY DEF Owers, Owes
<1>4. ASSUME Head(inbox[s]).op = "activate" \/ inbox'[s] /= <<>>
      PROVE  s \in Owers'
  <2>1. CASE client.sock = s
    BY <2>1 DEF Owers, Owes
  <2>2. CASE client.sock /= s
    <3>1. inbox'[s] /= <<>>
      BY <1>1, <1>3, <1>4, <2>2
    <3> QED BY <1>1, <1>3, <2>2, <3>1 DEF Owers, Owes
  <2> QED BY <2>1, <2>2
<1> QED BY <1>2, <1>4

\* deactivate(), up to its wait or to its end if there is no connection.
LEMMA DeactivateStep ==
    ASSUME IInv, NEW s \in Sockets, NEW c \in Configs \cup {None}, Deactivate(s, c)
    PROVE  /\ d' \in Daemons /\ FramesOK(frames') /\ lookups' \subseteq Lookups
           /\ learned' = {} /\ switched' \in BOOLEAN /\ nested' \in BOOLEAN
           /\ Polled' /\ Learning' /\ Counting'
           /\ ~d'.resolvers
           /\ c = None => (d'.conn = None /\ ~d'.mon) \/ HasTeardown(frames')
           /\ \A ss : FramesOf(frames, ss) /\ (c /= None => s \in ss) => FramesOf(frames', ss)
<1> DEFINE y == ClearDnsRoutes(d)
           x == [y EXCEPT !.rules = None, !.resolvers = FALSE]
           f == Frame("deletePeer", s, c, None)
<1>1. d \in Daemons /\ FramesOK(frames) /\ lookups \subseteq Lookups /\ s /= Timer
  BY NamesAssumption DEF IInv, Types, TypeOK
<1>2. y \in Daemons /\ SameElse(y, d) /\ y.dns = {}
  BY <1>1, ClearStep
<1>3. FrameOK(f) /\ f \in Frames /\ f.at = "deletePeer" /\ f.by = s /\ f.cfg = c
  <2>1. FrameOK(f) /\ f.at = "deletePeer" /\ f.by = s /\ f.cfg = c
    BY <1>1, NewFrame DEF Activating, Switching
  <2> QED BY <2>1 DEF FrameOK
<1>4. /\ lookups' = Obsolete(lookups) /\ learned' = {} /\ nested' = (~Idle /\ Inside)
      /\ IF d.conn = None THEN Deactivated(x, f, frames)
         ELSE /\ d' = [x EXCEPT !.list = @ \ {d.conn.host}]
              /\ frames' = <<f>> \o frames
              /\ UNCHANGED switched
  BY DEF Deactivate
<1> HIDE DEF y, f
<1>5. /\ x \in Daemons /\ x.conn = d.conn /\ x.shaken = d.shaken /\ x.timer = d.timer /\ x.failed = d.failed
      /\ x.rules = None /\ ~x.resolvers /\ x.dns = {}
  BY <1>2 DEF Daemons, SameElse
<1> HIDE DEF x
<1>6. lookups' \subseteq Lookups /\ NoneCurrent(lookups')
  BY <1>1, <1>4, ObsoleteType
<1>7. ~nested' => AllStatus(frames)
  <2> SUFFICES ASSUME ~nested'
               PROVE  AllStatus(frames)
    OBVIOUS
  <2>1. CASE Idle
    BY <2>1 DEF Idle, AllStatus
  <2>2. CASE ~Idle
    BY <1>4, <2>2, OutsideRequests DEF IInv
  <2> QED BY <2>1, <2>2
<1>8. nested' \in BOOLEAN
  BY <1>4
<1>9. CASE d.conn = None
  <2>1. /\ d' \in Daemons /\ switched' = FALSE
        /\ d'.conn = None /\ d'.shaken = x.shaken /\ d'.rules = x.rules
        /\ d'.resolvers = x.resolvers /\ d'.timer = x.timer /\ d'.dns = x.dns
        /\ d'.counts = [a \in Addrs |-> 0] /\ ~d'.mon
        /\ \/ frames' = frames
           \/ \E g : /\ FrameOK(g) /\ g.at \in Activating /\ g.by = f.by /\ g.cfg = f.cfg
                     /\ f.cfg /= None /\ frames' = <<g>> \o frames
    BY <1>1, <1>3, <1>4, <1>5, <1>9, DeactivatedStep
  <2>2. Polled' /\ Learning'
    BY <2>1 DEF Polled, Learning
  <2>3. Unlearned(d', lookups') /\ d'.counts = Zero
    BY <1>5, <1>6, <2>1 DEF Unlearned, Zero
  <2>4. Right(d', lookups', switched')
    BY <2>1, <2>3, ZeroRight
  <2>5. CASE frames' = frames
    <3>1. Counting'
      BY <1>1, <1>7, <2>4, <2>5, UndisturbedRest DEF Counting
    <3> QED BY <1>1, <1>4, <1>5, <1>6, <1>8, <2>1, <2>2, <2>5, <3>1
  <2>6. CASE frames' /= frames
    <3>1. PICK g : /\ FrameOK(g) /\ g.at \in Activating /\ g.by = f.by /\ g.cfg = f.cfg
                   /\ f.cfg /= None /\ frames' = <<g>> \o frames
      BY <2>1, <2>6
    <3>2. g.at \notin Switching /\ g.at /= "deletePeer"
      BY <3>1 DEF Activating, Switching
    <3>3. ~nested' => Undisturbed(d', <<g>> \o frames, lookups', switched')
      BY <1>1, <1>7, <2>1, <2>4, <3>1, <3>2, UndisturbedPush
    <3>4. Counting'
      BY <3>1, <3>3 DEF Counting
    <3>5. FramesOK(frames')
      BY <1>1, <3>1, PushOK
    <3>6. \A ss : FramesOf(frames, ss) /\ (c /= None => s \in ss) => FramesOf(frames', ss)
      BY <1>1, <1>3, <3>1, PushFacts DEF FrameOf
    <3> QED BY <1>3, <1>4, <1>5, <1>6, <1>8, <2>1, <2>2, <3>1, <3>4, <3>5, <3>6
  <2> QED BY <2>5, <2>6
<1>10. CASE d.conn /= None
  <2>1. d' = [x EXCEPT !.list = @ \ {d.conn.host}] /\ frames' = <<f>> \o frames
        /\ switched' = switched
    BY <1>4, <1>10
  <2>2. /\ d' \in Daemons /\ d'.conn = d.conn /\ d'.shaken = d.shaken /\ d'.timer = d.timer /\ d'.failed = d.failed
        /\ d'.rules = None /\ ~d'.resolvers /\ d'.dns = {}
    BY <1>5, <2>1 DEF Daemons
  <2>3. /\ FramesOK(frames') /\ (HasStatus(frames) => HasStatus(frames'))
        /\ (IsTeardown(f) => HasTeardown(frames'))
        /\ \A ss : FrameOf(f, ss) /\ FramesOf(frames, ss) => FramesOf(frames', ss)
    BY <1>1, <1>3, <2>1, PushOK, PushFacts
  <2>4. Polled'
    BY <2>2, <2>3 DEF IInv, Polled
  <2>5. Learning'
    BY <1>4, <1>6, <2>2 DEF Learning, NoneCurrent
  <2>6. Counting'
    <3>1. Unlearned(d', lookups')
      BY <1>6, <2>2 DEF Unlearned
    <3>2. f.at \notin Activating /\ f.at \notin Switching
      BY <1>3 DEF Activating, Switching
    <3>3. ~nested' => Undisturbed(d', <<f>> \o frames, lookups', switched')
      BY <1>1, <1>3, <1>7, <3>1, <3>2, UndisturbedPush
    <3> QED BY <2>1, <3>3 DEF Counting
  <2>7. c = None => HasTeardown(frames')
    BY <1>3, <2>3 DEF IsTeardown
  <2>8. \A ss : FramesOf(frames, ss) /\ (c /= None => s \in ss) => FramesOf(frames', ss)
    BY <1>3, <2>3 DEF FrameOf
  <2>9. switched' \in BOOLEAN
    BY <2>1 DEF IInv, Types, TypeOK
  <2> QED BY <1>4, <1>6, <1>8, <2>2, <2>3, <2>4, <2>5, <2>6, <2>7, <2>8, <2>9
<1> QED BY <1>9, <1>10

\* A first connection: the interface is created, or the peer set at once.
LEMMA ActivateFresh ==
    ASSUME IInv, NEW s \in Sockets, NEW c \in Configs, d.conn = None,
           StartFresh(d, Frame("peer", s, c, None), frames), nested' = Inside,
           UNCHANGED <<lookups, learned, switched>>
    PROVE  /\ d' \in Daemons /\ FramesOK(frames') /\ nested' \in BOOLEAN
           /\ Polled' /\ Learning' /\ Counting'
           /\ \A ss : FramesOf(frames, ss) /\ s \in ss => FramesOf(frames', ss)
<1> DEFINE f == Frame("peer", s, c, None)
<1>1. d \in Daemons /\ FramesOK(frames) /\ s /= Timer
  BY NamesAssumption DEF IInv, Types, TypeOK
<1>2. FrameOK(f) /\ f \in Frames /\ f.by = s /\ f.cfg = c
  <2>1. FrameOK(f) /\ f.by = s /\ f.cfg = c
    BY <1>1, NewFrame DEF Activating, Switching
  <2> QED BY <2>1 DEF FrameOK
<1>3. StartFresh(d, f, frames)
  OBVIOUS
<1> HIDE DEF f
<1>4. /\ d' \in Daemons /\ AsBefore(d', d)
      /\ \/ frames' = frames
         \/ \E g : /\ FrameOK(g) /\ g.at \in Activating /\ g.by = f.by /\ g.cfg = f.cfg
                   /\ frames' = <<g>> \o frames
  BY <1>1, <1>2, <1>3, StartStep
<1>5. Polled' /\ Learning'
  BY <1>4 DEF AsBefore, Polled, Learning
<1>6. nested' \in BOOLEAN
  BY DEF Inside, IInv, Types, TypeOK
<1>7. ~nested' => AllStatus(frames) /\ Right(d', lookups', switched')
  BY <1>1, <1>4, OutsideRequests, AsBeforeRight DEF IInv, AsBefore
<1>8. CASE frames' = frames
  <2>1. Counting'
    BY <1>1, <1>7, <1>8, UndisturbedRest DEF Counting
  <2> QED BY <1>1, <1>4, <1>5, <1>6, <1>8, <2>1
<1>9. CASE frames' /= frames
  <2>1. PICK g : /\ FrameOK(g) /\ g.at \in Activating /\ g.by = f.by /\ g.cfg = f.cfg
                 /\ frames' = <<g>> \o frames
    BY <1>4, <1>9
  <2>2. g.at \notin Switching /\ g.at /= "deletePeer" /\ d'.conn = None
    BY <1>4, <2>1 DEF Activating, Switching, AsBefore
  <2>3. ~nested' => Undisturbed(d', <<g>> \o frames, lookups', switched')
    BY <1>1, <1>7, <2>1, <2>2, UndisturbedPush
  <2>4. Counting'
    BY <2>1, <2>3 DEF Counting
  <2>5. FramesOK(frames')
    BY <1>1, <2>1, PushOK
  <2>6. \A ss : FramesOf(frames, ss) /\ s \in ss => FramesOf(frames', ss)
    BY <1>1, <1>2, <2>1, PushFacts DEF FrameOf
  <2> QED BY <1>4, <1>5, <1>6, <2>4, <2>5, <2>6
<1> QED BY <1>8, <1>9

LEMMA SwitchStep ==
    ASSUME IInv, NEW s \in Sockets, NEW c \in Configs, d.conn /= None, Switch(s, c)
    PROVE  /\ d' \in Daemons /\ FramesOK(frames') /\ nested' \in BOOLEAN /\ switched' \in BOOLEAN
           /\ Polled' /\ Learning' /\ Counting' /\ UNCHANGED <<lookups, learned>>
           /\ \A ss : FramesOf(frames, ss) /\ s \in ss => FramesOf(frames', ss)
<1> DEFINE f == Frame("switchPeer", s, c, d.conn)
           as == Excluded(c)
<1>1. d \in Daemons /\ FramesOK(frames) /\ s /= Timer /\ d.conn \in Configs
      /\ switched \in BOOLEAN
  BY NamesAssumption DEF IInv, Types, TypeOK, Daemons
<1>2. FrameOK(f) /\ f.at = "switchPeer" /\ f.by = s /\ f.cfg = c
  BY <1>1, NewFrame DEF Activating, Switching
<1>3. as \in SUBSET Addrs
  BY ExcludedType
<1>4. PICK ok \in Accepted : UpdatePeer(AddExclusion(d, as, ok), f, frames)
  BY DEF Switch
<1>5. switched' = TRUE /\ nested' = Inside /\ UNCHANGED <<lookups, learned>>
  BY DEF Switch
<1> DEFINE y == AddExclusion(d, as, ok)
<1> HIDE DEF f, as
<1>6. ok \in SUBSET Addrs
  BY ConfigsAssumption
<1>7. y \in Daemons /\ SameElse(y, d) /\ \A sw : Listed(d, sw) => Listed(y, sw)
  BY <1>1, <1>3, <1>6, AddStep, AddListed
<1> HIDE DEF y
<1>8. UpdatePeer(y, f, frames)
  BY <1>4 DEF y
<1>9. d' \in Daemons /\ MoreListed(d', y) /\ frames' = <<f>> \o frames
  BY <1>2, <1>7, <1>8, UpdatePeerStep
<1>10. /\ d'.conn = d.conn /\ d'.shaken = d.shaken /\ d'.timer = d.timer /\ d'.failed = d.failed /\ d'.rules = d.rules
  BY <1>7, <1>9 DEF MoreListed, SameElse
<1>11. \A sw : Listed(y, sw) => Listed(d', sw)
  BY <1>9 DEF MoreListed, Listed, Counted
<1>12. /\ FramesOK(frames') /\ (HasStatus(frames) => HasStatus(frames'))
       /\ \A ss : FrameOf(f, ss) /\ FramesOf(frames, ss) => FramesOf(frames', ss)
  BY <1>1, <1>2, <1>9, PushOK, PushFacts
<1>13. Polled' /\ Learning'
  BY <1>5, <1>10, <1>12, LearningKept DEF IInv, Polled
<1>14. nested' \in BOOLEAN
  BY <1>5 DEF Inside, IInv, Types, TypeOK
<1>15. Counting'
  <2> SUFFICES ASSUME ~Inside
               PROVE  Undisturbed(d', frames', lookups', switched')
    BY <1>5 DEF Counting
  <2>1. AllStatus(frames) /\ Right(d, lookups, switched)
    BY OutsideRequests DEF IInv
  <2>2. Listed(d, TRUE)
    BY <2>1 DEF Right, Listed, Servers
  <2>3. Right(d', lookups', switched')
    BY <1>5, <1>7, <1>10, <1>11, <2>2 DEF Right
  <2>4. f.at \notin Activating /\ f.at /= "deletePeer"
    BY <1>2 DEF Activating
  <2>5. Undisturbed(d', <<f>> \o frames, lookups', switched')
    BY <1>1, <1>2, <1>5, <1>10, <2>1, <2>3, <2>4, UndisturbedPush
  <2> QED BY <1>9, <2>5
<1>16. \A ss : FramesOf(frames, ss) /\ s \in ss => FramesOf(frames', ss)
  BY <1>2, <1>12 DEF FrameOf
<1> QED BY <1>5, <1>9, <1>12, <1>13, <1>14, <1>15, <1>16

\* What is left to read, and the handlers that wait, are of sockets that still owe a request.
LEMMA ReadOwers ==
    ASSUME IInv, ~client.silent, UNCHANGED client, NEW s \in Sockets, inbox[s] /= <<>>,
           \A i \in 1..Len(frames) : frames[i].by /= s,
           inbox' = [inbox EXCEPT ![s] = Tail(@)]
    PROVE  /\ \A t \in Sockets : inbox'[t] /= <<>> => t \in Owers'
           /\ FramesOf(frames, Owers')
           /\ Head(inbox[s]).op = "activate" => s \in Owers'
<1>1. /\ \A t \in Sockets : inbox[t] /= <<>> => t \in Owers
      /\ FramesOf(frames, Owers)
  BY DEF IInv, Owed
<1>2. /\ \A t \in Sockets : t /= s => (t \in Owers' <=> t \in Owers)
      /\ Head(inbox[s]).op = "activate" \/ inbox'[s] /= <<>> => s \in Owers'
  BY <1>1, OwersRead DEF IInv
<1>3. \A t \in Sockets : t /= s => inbox'[t] = inbox[t]
  BY RequestRead DEF IInv
<1>4. \A t \in Sockets : inbox'[t] /= <<>> => t \in Owers'
  BY <1>1, <1>2, <1>3
<1>5. FramesOf(frames, Owers')
  <2>1. Owers \subseteq Sockets
    BY DEF Owers
  <2> QED BY <1>1, <1>2, <2>1 DEF FramesOf, FrameOf
<1> QED BY <1>2, <1>4, <1>5

LEMMA ReadDataStep ==
    ASSUME IInv, ReadData
    PROVE  IInv'
<1>1. PICK s \in Sockets :
        /\ inbox[s] /= <<>> /\ \A i \in 1..Len(frames) : frames[i].by /= s
        /\ inbox' = [inbox EXCEPT ![s] = Tail(@)]
        /\ LET r == Head(inbox[s])
           IN \/ r.op = "activate" /\ Activate(s, r.cfg)
              \/ r.op = "deactivate" /\ Deactivate(s, None)
  BY DEF ReadData
<1>2. client' = client
  BY DEF ReadData
<1> DEFINE r == Head(inbox[s])
<1>3. r \in Requests /\ inbox' \in [Sockets -> Seq(Requests)]
  BY <1>1, RequestRead DEF IInv
<1>4. TypeOK
  BY DEF IInv, Types
<1>5. ~client.silent => /\ \A t \in Sockets : inbox'[t] /= <<>> => t \in Owers'
                        /\ FramesOf(frames, Owers')
                        /\ r.op = "activate" => s \in Owers'
  BY <1>1, <1>2, ReadOwers
<1>6. \/ r.op = "activate" /\ Activate(s, r.cfg)
      \/ r.op = "deactivate" /\ Deactivate(s, None)
  BY <1>1
<1> HIDE DEF r
<1>7. CASE r.op = "activate" /\ Activate(s, r.cfg)
  <2>1. PICK c \in Configs : c = r.cfg
    BY <1>3, <1>7 DEF Requests
  <2>2. /\ d' \in Daemons /\ FramesOK(frames') /\ nested' \in BOOLEAN /\ switched' \in BOOLEAN
        /\ lookups' \subseteq Lookups /\ learned' \subseteq Configs
        /\ Polled' /\ Learning' /\ Counting'
        /\ \A ss : FramesOf(frames, ss) /\ s \in ss => FramesOf(frames', ss)
    <3>1. CASE d.conn = None /\ StartFresh(d, Frame("peer", s, c, None), frames)
               /\ nested' = Inside /\ UNCHANGED <<lookups, learned, switched>>
      <4>1. /\ d' \in Daemons /\ FramesOK(frames') /\ nested' \in BOOLEAN
            /\ Polled' /\ Learning' /\ Counting'
            /\ \A ss : FramesOf(frames, ss) /\ s \in ss => FramesOf(frames', ss)
        BY <3>1, ActivateFresh
      <4> QED BY <1>4, <3>1, <4>1 DEF TypeOK
    <3>2. CASE Switchable(c) /\ Switch(s, c)
      <4>1. /\ d' \in Daemons /\ FramesOK(frames') /\ nested' \in BOOLEAN
            /\ switched' \in BOOLEAN /\ Polled' /\ Learning' /\ Counting'
            /\ UNCHANGED <<lookups, learned>>
            /\ \A ss : FramesOf(frames, ss) /\ s \in ss => FramesOf(frames', ss)
        BY <3>2, SwitchStep DEF Switchable
      <4> QED BY <1>4, <4>1 DEF TypeOK
    <3>3. CASE Deactivate(s, c)
      BY <3>3, DeactivateStep
    <3> QED BY <1>7, <2>1, <3>1, <3>2, <3>3 DEF Activate
  <2>3. Types'
    BY <1>2, <1>3, <1>4, <2>2 DEF Types, TypeOK, FramesOK
  <2>4. Owed'
    <3> SUFFICES ASSUME ~client.silent
                 PROVE  Owed'
      BY <1>2 DEF Owed
    <3>1. s \in Owers' /\ FramesOf(frames', Owers')
      BY <1>5, <1>7, <2>2
    <3> QED BY <1>5, <3>1 DEF Owed
  <2> QED BY <2>2, <2>3, <2>4 DEF IInv
<1>8. CASE r.op = "deactivate" /\ Deactivate(s, None)
  <2>1. /\ d' \in Daemons /\ FramesOK(frames') /\ lookups' \subseteq Lookups
        /\ learned' = {} /\ switched' \in BOOLEAN /\ nested' \in BOOLEAN
        /\ Polled' /\ Learning' /\ Counting' /\ ~d'.resolvers
        /\ (d'.conn = None /\ ~d'.mon) \/ HasTeardown(frames')
        /\ \A ss : FramesOf(frames, ss) => FramesOf(frames', ss)
    <3>1. PICK c \in Configs \cup {None} : c = None
      OBVIOUS
    <3>2. Deactivate(s, c)
      BY <1>8, <3>1
    <3> QED BY <3>1, <3>2, DeactivateStep
  <2>2. Types'
    BY <1>2, <1>3, <1>4, <2>1 DEF Types, TypeOK, FramesOK
  <2>3. Owed'
    BY <1>2, <1>5, <2>1 DEF Owed
  <2> QED BY <2>1, <2>2, <2>3 DEF IInv
<1> QED BY <1>6, <1>7, <1>8

-----------------------------------------------------------------------------
(* The client, and failures. *)

LEMMA StartObjectStep ==
    ASSUME IInv, StartObject
    PROVE  IInv'
<1>1. UNCHANGED <<d, frames, lookups, learned, switched, nested>>
  BY DEF StartObject
<1>2. PICK s \in Sockets, c \in Configs :
        /\ inbox[s] = <<>> /\ \A i \in 1..Len(frames) : frames[i].by /= s
        /\ client' = [sock |-> s, silent |-> client.silent /\ ~Handled]
        /\ inbox' = [inbox EXCEPT ![s] = <<[op |-> "activate", cfg |-> c]>>]
  BY DEF StartObject
<1>3. TypeOK /\ FramesOK(frames)
  BY DEF IInv, Types
<1>4. /\ inbox' \in [Sockets -> Seq(Requests)]
      /\ \A t \in Sockets : t /= s => inbox'[t] = inbox[t]
  <2>1. <<[op |-> "activate", cfg |-> c]>> \in Seq(Requests)
    BY DEF Requests
  <2> QED BY <1>2, <1>3, <2>1 DEF TypeOK
<1>5. client' \in Clients /\ client'.sock = s
      /\ (client'.silent <=> client.silent /\ ~Handled)
  BY <1>2, <1>3 DEF TypeOK, Clients
<1>6. Types'
  BY <1>1, <1>3, <1>4, <1>5 DEF Types, TypeOK, FramesOK
<1>7. Polled' /\ Learning' /\ Counting'
  BY <1>1 DEF IInv, Polled, Learning, Counting
<1>8. Owed'
  <2> SUFFICES ASSUME ~client'.silent
               PROVE  Owed'
    BY DEF Owed
  <2>1. s \in Owers'
    BY <1>5 DEF Owers, Owes
  <2>2. CASE Handled
    <3>1. \A t \in Sockets : t /= s => inbox'[t] = <<>>
      BY <1>4, <2>2 DEF Handled
    <3>2. FramesOf(frames', Owers')
      BY <1>1, <2>2 DEF Handled, Idle, FramesOf
    <3> QED BY <2>1, <3>1, <3>2 DEF Owed
  <2>3. CASE ~Handled
    <3>1. ~client.silent
      BY <1>5, <2>3
    <3>2. /\ \A t \in Sockets : inbox[t] /= <<>> => t \in Owers
          /\ FramesOf(frames, Owers)
      BY <3>1 DEF IInv, Owed
    <3>3. Stopped
      BY DEF StartObject
    <3>4. \A t \in Owers : t \in Owers'
      <4> TAKE t \in Owers
      <4>1. t \in Sockets /\ t /= NoSocket /\ Owes(t)
        BY NamesAssumption DEF Owers
      <4>2. inbox[t] /= <<>> /\ inbox[t][Len(inbox[t])].op = "deactivate"
        BY <3>3, <4>1 DEF Owes, Stopped
      <4>3. inbox'[t] = inbox[t]
        BY <1>2, <1>4, <4>1, <4>2
      <4> QED BY <4>1, <4>2, <4>3 DEF Owers, Owes
    <3>5. \A t \in Sockets : inbox'[t] /= <<>> => t \in Owers'
      BY <1>4, <2>1, <3>2, <3>4
    <3>6. FramesOf(frames', Owers')
      BY <1>1, <3>2, <3>4 DEF FramesOf, FrameOf
    <3> QED BY <2>1, <3>5, <3>6 DEF Owed
  <2> QED BY <2>2, <2>3
<1> QED BY <1>6, <1>7, <1>8 DEF IInv

LEMMA StopObjectStep ==
    ASSUME IInv, StopObject
    PROVE  IInv'
<1>1. UNCHANGED <<d, frames, lookups, learned, switched, nested>>
  BY DEF StopObject
<1>2. PICK silent \in BOOLEAN :
        /\ client' = [sock |-> NoSocket, silent |-> client.silent \/ silent]
        /\ inbox' = IF silent THEN inbox
                    ELSE [inbox EXCEPT ![client.sock] =
                             Append(@, [op |-> "deactivate", cfg |-> None])]
  BY DEF StopObject
<1> DEFINE s == client.sock
           r == [op |-> "deactivate", cfg |-> None]
<1>3. TypeOK /\ FramesOK(frames)
  BY DEF IInv, Types
<1>4. s \in Sockets
  BY <1>3 DEF StopObject, Stopped, TypeOK, Clients
<1>5. client' \in Clients /\ client'.sock = NoSocket
      /\ (client'.silent <=> client.silent \/ silent)
  BY <1>2, <1>3 DEF TypeOK, Clients
<1>6. r \in Requests /\ r.op = "deactivate"
  BY DEF Requests
<1> HIDE DEF s, r
<1>7. ~silent => /\ \A t \in Sockets : t /= s => inbox'[t] = inbox[t]
                 /\ inbox'[s] = Append(inbox[s], r)
                 /\ inbox' = [inbox EXCEPT ![s] = Append(@, r)]
  BY <1>2, <1>3, <1>4 DEF TypeOK, s, r
<1>8. Append(inbox[s], r) \in Seq(Requests) /\ Append(inbox[s], r) /= <<>>
      /\ Append(inbox[s], r)[Len(Append(inbox[s], r))] = r
  <2>1. PICK q \in Seq(Requests) : q = inbox[s]
    BY <1>3, <1>4 DEF TypeOK
  <2>2. Append(q, r) \in Seq(Requests) /\ Len(Append(q, r)) = Len(q) + 1
        /\ Append(q, r)[Len(q) + 1] = r /\ Len(q) \in Nat
    BY <1>6, <2>1
  <2>3. Append(q, r) /= <<>>
    BY <2>2
  <2> QED BY <2>1, <2>2, <2>3
<1>9. inbox' \in [Sockets -> Seq(Requests)]
  <2>1. CASE silent
    BY <1>2, <1>3, <2>1 DEF TypeOK
  <2>2. CASE ~silent
    BY <1>3, <1>4, <1>7, <1>8, <2>2 DEF TypeOK
  <2> QED BY <2>1, <2>2
<1>10. Types'
  BY <1>1, <1>3, <1>5, <1>9 DEF Types, TypeOK, FramesOK
<1>11. Polled' /\ Learning' /\ Counting'
  BY <1>1 DEF IInv, Polled, Learning, Counting
<1>12. Owed'
  <2> SUFFICES ASSUME ~client'.silent
               PROVE  Owed'
    BY DEF Owed
  <2>1. ~silent /\ ~client.silent
    BY <1>5
  <2>2. /\ \A t \in Sockets : inbox[t] /= <<>> => t \in Owers
        /\ FramesOf(frames, Owers)
    BY <2>1 DEF IInv, Owed
  <2>3. s \in Owers'
    BY <1>4, <1>6, <1>7, <1>8, <2>1 DEF Owers, Owes
  <2>4. \A t \in Owers : t \in Owers'
    <3> TAKE t \in Owers
    <3>1. t \in Sockets /\ Owes(t)
      BY DEF Owers
    <3>2. CASE t = s
      BY <2>3, <3>2
    <3>3. CASE t /= s
      BY <1>7, <2>1, <3>1, <3>3 DEF Owers, Owes, s
    <3> QED BY <3>2, <3>3
  <2>5. \A t \in Sockets : inbox'[t] /= <<>> => t \in Owers'
    BY <1>7, <2>1, <2>2, <2>3, <2>4
  <2>6. FramesOf(frames', Owers')
    BY <1>1, <2>2, <2>4 DEF FramesOf, FrameOf
  <2> QED BY <2>3, <2>5, <2>6 DEF Owed
<1> QED BY <1>10, <1>11, <1>12 DEF IInv

LEMMA BackendDiesStep ==
    ASSUME IInv, BackendDies
    PROVE  IInv'
<1>1. d' = [d EXCEPT !.proc = FALSE]
      /\ UNCHANGED <<frames, inbox, client, lookups, learned, switched, nested>>
  BY DEF BackendDies, Quiet
<1>2. TypeOK /\ FramesOK(frames)
  BY DEF IInv, Types
<1>3. /\ d' \in Daemons /\ AsBefore(d', d) /\ d'.list = d.list /\ d'.mon = d.mon
      /\ d'.resolvers = d.resolvers
  BY <1>1, <1>2 DEF TypeOK, Daemons, AsBefore
<1>4. Types'
  BY <1>1, <1>2, <1>3 DEF Types, TypeOK, FramesOK
<1>5. Polled' /\ Learning'
  BY <1>1, <1>3 DEF IInv, Polled, Learning, AsBefore
<1>6. Counting'
  <2>1. \A sw : Listed(d, sw) => Listed(d', sw)
    BY <1>3 DEF AsBefore, Listed, Counted
  <2>2. Exact(d) => Exact(d')
    BY <1>3 DEF AsBefore, Exact, ByDns, ByConfig
  <2>3. Right(d, lookups, switched) => Right(d', lookups, switched)
    BY <1>3, <2>1, <2>2 DEF AsBefore, Right, Unlearned
  <2>4. Unlearned(d, lookups) => Unlearned(d', lookups)
    BY <1>3 DEF AsBefore, Unlearned
  <2> QED BY <1>1, <1>3, <2>3, <2>4 DEF IInv, Counting, Undisturbed, AsBefore
<1>7. Owed'
  BY <1>1, <1>3, OwersKept DEF IInv, Owed, AsBefore
<1> QED BY <1>4, <1>5, <1>6, <1>7 DEF IInv

-----------------------------------------------------------------------------
(* The theorems. *)

LEMMA InitIInv ==
    ASSUME Init
    PROVE  IInv
<1>1. /\ d = NewDaemon /\ frames = <<>> /\ inbox = [s \in Sockets |-> <<>>]
      /\ client = [sock |-> NoSocket, silent |-> FALSE]
      /\ lookups = {} /\ learned = {} /\ switched = FALSE /\ nested = FALSE
  BY DEF Init
<1>2. /\ d \in Daemons /\ d.conn = None /\ d.counts = Zero /\ d.dns = {} /\ d.rules = None
      /\ ~d.resolvers /\ ~d.mon
  BY <1>1 DEF NewDaemon, Daemons, Zero
<1>3. FramesOK(frames) /\ \A ss : FramesOf(frames, ss)
  BY <1>1 DEF FramesOK, FramesOf
<1>4. inbox \in [Sockets -> Seq(Requests)] /\ client \in Clients
  BY <1>1 DEF Clients
<1>5. Types
  BY <1>1, <1>2, <1>3, <1>4 DEF Types, TypeOK, FramesOK
<1>6. Polled /\ Learning
  BY <1>2 DEF Polled, Learning
<1>7. Counting
  <2>1. Right(d, lookups, switched)
    BY <1>1, <1>2, ZeroRight DEF Unlearned, NoneCurrent
  <2> QED BY <1>1, <2>1 DEF Counting, Undisturbed, TopIn
<1>8. Owed
  BY <1>1, <1>2, <1>3 DEF Owed
<1> QED BY <1>5, <1>6, <1>7, <1>8 DEF IInv

LEMMA NextIInv ==
    ASSUME IInv, [Next]_wgVars
    PROVE  IInv'
<1>1. CASE UNCHANGED wgVars
  <2>1. UNCHANGED <<d, frames, inbox, client, lookups, learned, switched, nested>>
    BY <1>1 DEF wgVars
  <2>2. Types' /\ Polled' /\ Learning' /\ Counting'
    BY <2>1 DEF IInv, Types, TypeOK, FramesOK, Polled, Learning, Counting
  <2>3. Owed'
    BY <2>1, OwersKept DEF IInv, Owed
  <2> QED BY <2>2, <2>3 DEF IInv
<1>2. CASE Next
  BY <1>2, ReadDataStep, CheckHandshakeStep, LookupStep, ObservedStep, TunnelNameStep,
     InterfaceActionStep, PeerStep, SwitchPeerStep, SwitchDeleteStep, DeletePeerStep,
     StatusStep, StartObjectStep, StopObjectStep, BackendDiesStep DEF Next
<1> QED BY <1>1, <1>2

\* The inductive invariant holds whatever the requests, the answers of the backend, the
\* timer and the lookups, and however deep their handlers run inside each other.
THEOREM Invariance == Spec => []IInv
<1>1. Init => IInv
  BY InitIInv
<1>2. IInv /\ [Next]_wgVars => IInv'
  BY NextIInv
<1> QED BY <1>1, <1>2, PTL DEF Spec

\* The state of the daemon, its waiting handlers, the requests and the lookups have their
\* types; no count goes below zero.
THEOREM TypeCorrect == Spec => []TypeOK
<1>1. IInv => TypeOK
  BY DEF IInv, Types
<1> QED BY <1>1, Invariance, PTL

\* With no handler waiting and none having been nested, the counts are right.
LEMMA IdleRight ==
    ASSUME IInv, Idle, ~nested
    PROVE  Right(d, lookups, switched)
BY DEF IInv, Counting, Undisturbed, Idle, TopIn

\* addExclusionRoute() and delExclusionRoute() keep the counts of m_excludedAddrSet and the
\* routes of MacosRouteMonitor together: between handlers that did not run inside each
\* other, an address that is counted has its route.
THEOREM CountsListed == Spec => []CountedIsListed
<1>1. IInv => CountedIsListed
  BY IdleRight DEF Right, Listed, Servers, CountedIsListed
<1> QED BY <1>1, Invariance, PTL

\* Between handlers that did not run inside each other, and without a switch of servers,
\* each address is counted once for DNS if it was learned and at most once for the
\* configuration, so that neither clearSplitTunnelDnsRoutes() nor the end of a connection
\* takes the other's share.
THEOREM CountsSound == Spec => []CountsExact
<1>1. IInv => CountsExact
  <2> SUFFICES ASSUME IInv, Idle, ~switched, ~nested
               PROVE  Exact(d)
    BY DEF CountsExact, Exact, ByDns, ByConfig
  <2> QED BY IdleRight DEF Right
<1> QED BY <1>1, Invariance, PTL

\* The generation of refreshSplitTunnelDnsRoutes() suffices: after the handshake no route is
\* learned from the rules of another connection, however late a lookup ends.
THEOREM LearnedSound == Spec => []LearnedForConnection
<1>1. IInv => LearnedForConnection
  BY DEF IInv, Learning, LearnedForConnection
<1> QED BY <1>1, Invariance, PTL

\* checkHandshake() never leaves a connection without handshake unpolled, also if the
\* connection changed while it waited for the backend; only one whose activation was
\* reported as failed, like a switch whose resolvers fail, may have no timer.
THEOREM PollingSound == Spec => []HandshakePolled
<1>1. IInv => HandshakePolled
  <2>1. Idle => ~HasStatus(frames)
    BY DEF Idle, HasStatus
  <2> QED BY <2>1 DEF IInv, Polled, HandshakePolled
<1> QED BY <1>1, Invariance, PTL

\* Once the requests of all stopped objects are handled, in whatever order the sockets were
\* read and the handlers nested, deactivate() has left no connection, resolver or interface.
THEOREM StopSound == Spec => []StopTearsDown
<1>1. IInv => StopTearsDown
  <2> SUFFICES ASSUME IInv, Handled, Stopped, ~client.silent
               PROVE  d.conn = None /\ ~d.resolvers /\ ~d.mon
    BY DEF StopTearsDown
  <2>1. Owers = {}
    BY NamesAssumption DEF Handled, Stopped, Owers, Owes
  <2>2. ~HasTeardown(frames)
    BY DEF Handled, Idle, HasTeardown
  <2> QED BY <2>1, <2>2 DEF IInv, Owed
<1> QED BY <1>1, Invariance, PTL
=============================================================================

--------------------------- MODULE SystemDnsProofs ---------------------------
(***************************************************************************)
(* Proofs of the properties of SystemDns for any set of network services   *)
(* and any resolvers.                                                      *)
(***************************************************************************)
EXTENDS SystemDns, TLAPS

-----------------------------------------------------------------------------
(* The invariant. *)

\* The calls of a handler that have not begun.  Every restore has its sweep behind it.
Fresh(r) ==
    /\ r \in Seq(Calls)
    /\ \A i \in 1..Len(r) :
        /\ ~r[i].begun
        /\ r[i].op = "updateResolvers" => r[i].res \in Resolvers
        /\ r[i].op = "restoreResolvers" =>
             i + 1 <= Len(r) /\ r[i + 1].op = "removeStaleLocalResolverOverrides"

\* A handler: its first call may have begun, the others have not.
Handler(r) ==
    /\ r \in Seq(Calls)
    /\ r /= <<>> =>
        /\ Fresh(Tail(r))
        /\ r[1].op = "updateResolvers" => r[1].res \in Resolvers
        /\ r[1].op = "restoreResolvers" =>
             Tail(r) /= <<>> /\ Tail(r)[1].op = "removeStaleLocalResolverOverrides"

Doing(op) == run /= <<>> /\ run[1].op = op /\ run[1].begun

Local == {s \in Services : store[s] = "local"}

\* What is left of a loop that has begun.
LoopState ==
    /\ run /= <<>> /\ run[1].begun => run[1].todo /= {}
    /\ Doing("updateResolvers") => /\ run[1].todo \subseteq present
                                   /\ util[run[1].by].cur /= NoResolvers
    /\ Doing("restoreResolvers") => run[1].todo \subseteq BackedUp(run[1].by)
    /\ Doing("removeStaleLocalResolverOverrides") => run[1].todo \subseteq Local

\* Only existing network services are ever touched.
OnlyPresent ==
    /\ Local \subseteq present
    /\ \A u \in Owners : BackedUp(u) \subseteq present

SweepAhead == \E i \in 1..Len(run) :
    run[i].op = "removeStaleLocalResolverOverrides" /\ ~run[i].begun

\* Entries for 127.0.0.1 are served, or will be gone before the handler ends.
ServedOrGoing ==
    Local /= {} =>
        \/ ~up
        \/ \E u \in Owners : util[u].observer
        \/ SweepAhead
        \/ Doing("removeStaleLocalResolverOverrides") /\ Local \subseteq run[1].todo
        \/ Doing("updateResolvers") /\ ~util[run[1].by].observer /\ Local \subseteq run[1].todo

Restoring(u) == Doing("restoreResolvers") /\ run[1].by = u

\* The backups are the user's settings; a changed entry has one that will still be written
\* back; an object with backups has resolvers set or is writing them back.
BackupsExact ==
    ~mixed =>
        /\ \A u \in Owners, s \in Services : util[u].backup[s] \in {NoBackup, user[s]}
        /\ \A s \in Services : store[s] /= user[s] =>
              \E u \in Owners : /\ util[u].backup[s] /= NoBackup
                                /\ Restoring(u) => s \in run[1].todo
        /\ \A u \in Owners : BackedUp(u) /= {} =>
              util[u].cur /= NoResolvers \/ Restoring(u)

IInv ==
    /\ TypeOK /\ Handler(run) /\ LoopState /\ OnlyPresent /\ (run /= <<>> => up)
    /\ ServedOrGoing /\ BackupsExact

-----------------------------------------------------------------------------
(* Handlers. *)

LEMMA CallType ==
    ASSUME NEW op \in {"updateResolvers", "restoreResolvers", "removeStaleLocalResolverOverrides",
                       "setRules", "clearRules"},
           NEW u \in Owners, NEW r \in Resolvers \cup {NoResolvers}
    PROVE  Call(op, u, r) \in Calls
BY DEF Call, Calls

LEMMA FreshEmpty == Fresh(<<>>)
BY DEF Fresh

\* A call other than a restore is a handler of its own.
LEMMA FreshCall ==
    ASSUME NEW op \in {"updateResolvers", "removeStaleLocalResolverOverrides",
                       "setRules", "clearRules"},
           NEW u \in Owners, NEW r \in Resolvers \cup {NoResolvers},
           op = "updateResolvers" => r \in Resolvers
    PROVE  Fresh(<<Call(op, u, r)>>)
<1> DEFINE c == Call(op, u, r)
<1>1. c \in Calls /\ c.op = op /\ c.res = r /\ ~c.begun
  BY CallType DEF Call
<1> HIDE DEF c
<1>2. <<c>> \in Seq(Calls) /\ Len(<<c>>) = 1 /\ <<c>>[1] = c
  BY <1>1
<1> QED BY <1>1, <1>2 DEF Fresh, c

LEMMA FreshConcat ==
    ASSUME NEW a, NEW b, Fresh(a), Fresh(b)
    PROVE  Fresh(a \o b)
<1> DEFINE r == a \o b
<1>1. r \in Seq(Calls) /\ Len(r) = Len(a) + Len(b) /\ Len(a) \in Nat /\ Len(b) \in Nat
  BY DEF Fresh
<1>2. \A i \in 1..Len(r) : r[i] = IF i <= Len(a) THEN a[i] ELSE b[i - Len(a)]
  BY DEF Fresh
<1> HIDE DEF r
<1>3. ASSUME NEW i \in 1..Len(r)
      PROVE  /\ ~r[i].begun
             /\ r[i].op = "updateResolvers" => r[i].res \in Resolvers
             /\ r[i].op = "restoreResolvers" =>
                  i + 1 <= Len(r) /\ r[i + 1].op = "removeStaleLocalResolverOverrides"
  <2>1. CASE i <= Len(a)
    BY <1>1, <1>2, <2>1 DEF Fresh
  <2>2. CASE ~(i <= Len(a))
    <3>1. i - Len(a) \in 1..Len(b) /\ (i - Len(a)) + 1 = (i + 1) - Len(a)
      BY <1>1, <2>2
    <3>2. r[i] = b[i - Len(a)]
      BY <1>2, <2>2
    <3>3. i + 1 <= Len(r) => r[i + 1] = b[(i - Len(a)) + 1]
      BY <1>1, <1>2, <2>2, <3>1
    <3> QED BY <1>1, <3>1, <3>2, <3>3 DEF Fresh
  <2> QED BY <2>1, <2>2
<1> QED BY <1>1, <1>3 DEF Fresh, r

LEMMA FreshRestore ==
    ASSUME NEW u \in Owners
    PROVE  Fresh(Restore(u))
<1> DEFINE c == Call("restoreResolvers", u, NoResolvers)
           e == Call("removeStaleLocalResolverOverrides", u, NoResolvers)
<1>1. c \in Calls /\ ~c.begun /\ c.op = "restoreResolvers"
  BY CallType DEF Call
<1>2. e \in Calls /\ ~e.begun /\ e.op = "removeStaleLocalResolverOverrides"
  BY CallType DEF Call
<1>3. Restore(u) = <<c>> \o <<e>>
  BY DEF Restore, Sweep
<1> HIDE DEF c, e
<1>4. <<c>> \in Seq(Calls) /\ <<e>> \in Seq(Calls) /\ Len(<<c>>) = 1 /\ Len(<<e>>) = 1
      /\ <<c>>[1] = c /\ <<e>>[1] = e
  BY <1>1, <1>2
<1>5. Restore(u) \in Seq(Calls) /\ Len(Restore(u)) = 2
      /\ Restore(u)[1] = c /\ Restore(u)[2] = e
  BY <1>3, <1>4
<1> QED BY <1>1, <1>2, <1>5 DEF Fresh

LEMMA FreshIsHandler ==
    ASSUME NEW r, Fresh(r)
    PROVE  Handler(r) /\ (r /= <<>> => ~r[1].begun /\ Fresh(Tail(r)))
<1>1. CASE r = <<>>
  BY <1>1 DEF Fresh, Handler
<1>2. CASE r /= <<>>
  <2>1. r \in Seq(Calls) /\ Len(r) \in Nat /\ Len(r) > 0
    BY <1>2 DEF Fresh
  <2>2. /\ Tail(r) \in Seq(Calls) /\ Len(Tail(r)) = Len(r) - 1
        /\ \A i \in 1..Len(Tail(r)) : Tail(r)[i] = r[i + 1]
    BY <2>1
  <2>3. Fresh(Tail(r))
    BY <2>1, <2>2 DEF Fresh
  <2>4. r[1].op = "restoreResolvers" =>
            Tail(r) /= <<>> /\ Tail(r)[1].op = "removeStaleLocalResolverOverrides"
    <3> SUFFICES ASSUME r[1].op = "restoreResolvers"
                 PROVE  Tail(r) /= <<>> /\ Tail(r)[1].op = "removeStaleLocalResolverOverrides"
      OBVIOUS
    <3>1. 1 + 1 <= Len(r) /\ r[1 + 1].op = "removeStaleLocalResolverOverrides"
      BY <2>1 DEF Fresh
    <3>2. Len(Tail(r)) >= 1 /\ Tail(r)[1] = r[1 + 1]
      BY <2>1, <2>2, <3>1
    <3>3. Tail(r) /= <<>>
      <4> DEFINE t == Tail(r)
      <4>1. t \in Seq(Calls) /\ Len(t) >= 1
        BY <2>2, <3>2
      <4> HIDE DEF t
      <4>2. t /= <<>>
        BY <4>1
      <4> QED BY <4>2 DEF t
    <3> QED BY <3>1, <3>2, <3>3
  <2> QED BY <2>1, <2>3, <2>4 DEF Fresh, Handler
<1> QED BY <1>1, <1>2

\* Every handler the callers start.
LEMMA FreshCalls ==
    ASSUME NEW u \in Owners
    PROVE  /\ Fresh(Sweep(u)) /\ Fresh(Restore(u)) /\ Fresh(SetRules(u)) /\ Fresh(ClearRules(u))
           /\ \A r \in Resolvers : Fresh(Update(u, r))
BY FreshCall, FreshRestore DEF Sweep, SetRules, ClearRules, Update

\* A step of a loop: the next call is on, or what is left is noted.
LEMMA ContinueStep ==
    ASSUME Handler(run), run /= <<>>, NEW ss \in SUBSET Services, Continue(ss)
    PROVE  /\ Handler(run')
           /\ ss = {} => run' = Tail(run) /\ Fresh(run')
           /\ ss /= {} => /\ run' /= <<>> /\ Len(run') = Len(run)
                          /\ run'[1].begun /\ run'[1].todo = ss
                          /\ run'[1].op = run[1].op /\ run'[1].by = run[1].by
                          /\ \A i \in 2..Len(run) : run'[i] = run[i]
<1>1. run \in Seq(Calls) /\ Len(run) \in Nat /\ Len(run) > 0 /\ run[1] \in Calls
  BY DEF Handler
<1>2. CASE ss = {}
  BY <1>2, FreshIsHandler DEF Handler, Continue
<1>3. CASE ss /= {}
  <2> DEFINE c == [run[1] EXCEPT !.begun = TRUE, !.todo = ss]
  <2>1. c \in Calls /\ c.begun /\ c.todo = ss /\ c.op = run[1].op /\ c.by = run[1].by
        /\ c.res = run[1].res
    BY <1>1 DEF Calls
  <2>2. run' = [run EXCEPT ![1] = c]
    BY <1>3 DEF Continue
  <2> HIDE DEF c
  <2>3. run' \in Seq(Calls) /\ Len(run') = Len(run) /\ run'[1] = c
        /\ \A i \in 2..Len(run) : run'[i] = run[i]
    BY <1>1, <2>1, <2>2
  <2>4. Tail(run') = Tail(run)
    BY <1>1, <2>3
  <2>5. run' /= <<>>
    BY <1>1, <2>3
  <2> QED BY <1>3, <2>1, <2>3, <2>4, <2>5 DEF Handler
<1> QED BY <1>2, <1>3

-----------------------------------------------------------------------------
(* Sweeps. *)

\* The call after the first one of a handler has not begun.
LEMMA SecondCall ==
    ASSUME Handler(run), run /= <<>>, Tail(run) /= <<>>
    PROVE  /\ Len(run) \in Nat /\ Len(run) >= 2
           /\ run[2] = Tail(run)[1] /\ ~run[2].begun
<1>1. run \in Seq(Calls) /\ Len(run) \in Nat /\ Len(run) > 0
  BY DEF Handler
<1> DEFINE t == Tail(run)
<1>2. t \in Seq(Calls) /\ Len(t) = Len(run) - 1 /\ \A i \in 1..Len(t) : t[i] = run[i + 1]
  BY <1>1
<1>3. Fresh(t)
  BY DEF Handler
<1>4. t /= <<>>
  OBVIOUS
<1> HIDE DEF t
<1>5. Len(t) >= 1
  BY <1>2, <1>4
<1>6. ~t[1].begun /\ t[1] = run[1 + 1]
  BY <1>1, <1>2, <1>3, <1>5 DEF Fresh
<1> QED BY <1>1, <1>2, <1>5, <1>6 DEF t

\* A restore always has its sweep ahead.
LEMMA RestoreSweeps ==
    ASSUME Handler(run), run /= <<>>, run[1].op = "restoreResolvers"
    PROVE  SweepAhead
<1>1. Tail(run) /= <<>> /\ Tail(run)[1].op = "removeStaleLocalResolverOverrides"
  BY DEF Handler
<1>2. 2 \in 1..Len(run) /\ run[2].op = "removeStaleLocalResolverOverrides" /\ ~run[2].begun
  BY <1>1, SecondCall
<1> QED BY <1>2 DEF SweepAhead

\* A sweep that is ahead stays so until it is its turn.
LEMMA SweepAheadKept ==
    ASSUME Handler(run), run /= <<>>, NEW ss \in SUBSET Services, Continue(ss), SweepAhead,
           run[1].op /= "removeStaleLocalResolverOverrides" \/ run[1].begun
    PROVE  SweepAhead'
<1>1. run \in Seq(Calls) /\ Len(run) \in Nat
  BY DEF Handler
<1>2. PICK i \in 1..Len(run) :
        run[i].op = "removeStaleLocalResolverOverrides" /\ ~run[i].begun
  BY DEF SweepAhead
<1>3. i \in 2..Len(run)
  BY <1>1, <1>2
<1>4. CASE ss = {}
  <2>1. run' = Tail(run)
    BY <1>4, ContinueStep
  <2>2. i - 1 \in 1..Len(Tail(run)) /\ Tail(run)[i - 1] = run[i]
    BY <1>1, <1>3
  <2> QED BY <1>2, <2>1, <2>2 DEF SweepAhead
<1>5. CASE ss /= {}
  <2>1. Len(run') = Len(run) /\ run'[i] = run[i]
    BY <1>3, <1>5, ContinueStep
  <2> QED BY <1>2, <2>1 DEF SweepAhead
<1> QED BY <1>4, <1>5

\* So it is when the first call is replaced by others.
LEMMA SweepAheadBehind ==
    ASSUME Handler(run), run /= <<>>, SweepAhead, NEW a, Fresh(a), run' = a \o Tail(run),
           run[1].op /= "removeStaleLocalResolverOverrides"
    PROVE  SweepAhead'
<1>1. run \in Seq(Calls) /\ Len(run) \in Nat /\ a \in Seq(Calls) /\ Len(a) \in Nat
  BY DEF Handler, Fresh
<1>2. PICK i \in 1..Len(run) :
        run[i].op = "removeStaleLocalResolverOverrides" /\ ~run[i].begun
  BY DEF SweepAhead
<1>3. i \in 2..Len(run)
  BY <1>1, <1>2
<1> DEFINE t == Tail(run)
<1>4. t \in Seq(Calls) /\ Len(t) = Len(run) - 1 /\ t[i - 1] = run[i]
  BY <1>1, <1>3
<1>5. run' = a \o t
  OBVIOUS
<1> HIDE DEF t
<1> DEFINE j == Len(a) + (i - 1)
<1>6. j \in 1..Len(run') /\ run'[j] = t[i - 1]
  BY <1>1, <1>3, <1>4, <1>5
<1> QED BY <1>2, <1>4, <1>6 DEF SweepAhead

-----------------------------------------------------------------------------
(* Each action keeps the invariant. *)

\* The callers: a new handler starts while none runs.
LEMMA CallerStep ==
    ASSUME IInv, Ready, Fresh(run'), conn' \in BOOLEAN,
           UNCHANGED <<user, present, store, util, up, mixed>>
    PROVE  IInv'
<1>1. Handler(run') /\ run' \in Seq(Calls) /\ (run' /= <<>> => ~run'[1].begun)
  BY FreshIsHandler DEF Fresh
<1>2. run = <<>> /\ up
  BY DEF Ready
<1>3. ~Doing("updateResolvers") /\ ~Doing("restoreResolvers") /\ ~SweepAhead
      /\ ~Doing("removeStaleLocalResolverOverrides")
  BY <1>2 DEF Doing, SweepAhead
<1>4. ~Doing("updateResolvers")' /\ ~Doing("restoreResolvers")'
      /\ ~Doing("removeStaleLocalResolverOverrides")'
  BY <1>1 DEF Doing
<1>5. TypeOK' /\ (run' /= <<>> => up')
  BY <1>1, <1>2 DEF IInv, TypeOK
<1>6. LoopState'
  BY <1>1, <1>4 DEF LoopState
<1>7. OnlyPresent'
  BY DEF IInv, OnlyPresent, Local, BackedUp
<1>8. ServedOrGoing'
  BY <1>2, <1>3 DEF IInv, ServedOrGoing, Local
<1>9. BackupsExact'
  BY <1>3, <1>4 DEF IInv, BackupsExact, Restoring, BackedUp
<1> QED BY <1>1, <1>5, <1>6, <1>7, <1>8, <1>9 DEF IInv

LEMMA ActivateStep ==
    ASSUME IInv, NEW r \in Resolvers, NEW connected \in BOOLEAN, Activate(r, connected)
    PROVE  IInv'
<1>1. Fresh(Update("daemon", r)) /\ Fresh(Restore("daemon")) /\ Fresh(ClearRules("daemon"))
  BY FreshCalls DEF Owners
<1>2. /\ Fresh(Restore("daemon") \o Update("daemon", r))
      /\ Fresh(ClearRules("daemon") \o Restore("daemon"))
  BY <1>1, FreshConcat
<1>3. Fresh((ClearRules("daemon") \o Restore("daemon")) \o Update("daemon", r))
  BY <1>1, <1>2, FreshConcat
<1>4. Fresh(run')
  BY <1>1, <1>2, <1>3 DEF Activate
<1> QED BY <1>4, CallerStep DEF Activate

LEMMA HandshakeStep ==
    ASSUME IInv, Handshake
    PROVE  IInv'
<1>1. Fresh(run')
  BY FreshCalls DEF Handshake, Owners
<1> QED BY <1>1, CallerStep DEF Handshake, IInv, TypeOK

LEMMA DeactivateStep ==
    ASSUME IInv, Deactivate
    PROVE  IInv'
<1>1. Fresh(run')
  BY FreshCalls, FreshConcat DEF Deactivate, Owners
<1> QED BY <1>1, CallerStep DEF Deactivate

LEMMA RouterCallStep ==
    ASSUME IInv, RouterCall
    PROVE  IInv'
<1>1. PICK calls \in {Update("router", r) : r \in Resolvers}
                     \cup {Restore("router"), SetRules("router"), ClearRules("router"), <<>>} :
        run' = (IF util["router"].built THEN <<>> ELSE Sweep("router")) \o calls
  BY DEF RouterCall
<1>2. Fresh(calls)
  BY FreshCalls, FreshEmpty DEF Owners
<1>3. Fresh(IF util["router"].built THEN <<>> ELSE Sweep("router"))
  BY FreshCalls, FreshEmpty DEF Owners
<1>4. Fresh(run')
  BY <1>1, <1>2, <1>3, FreshConcat
<1> QED BY <1>4, CallerStep DEF RouterCall, IInv, TypeOK

LEMMA KillStep ==
    ASSUME IInv, Kill
    PROVE  IInv'
<1>1. NewUtil \in Utils /\ NewUtil.cur = NoResolvers
      /\ \A s \in Services : NewUtil.backup[s] = NoBackup
  BY DEF NewUtil, Utils
<1>2. util' \in [Owners -> Utils] /\ \A u \in Owners : util'[u] = NewUtil
  BY <1>1 DEF Kill
<1>3. \A u \in Owners : BackedUp(u)' = {}
  BY <1>1, <1>2 DEF BackedUp
<1>4. TypeOK'
  <2>1. mixed' \in BOOLEAN /\ up' \in BOOLEAN /\ conn' \in BOOLEAN
    BY Zenon DEF Kill, IInv, TypeOK
  <2>2. run' \in Seq(Calls)
    BY DEF Kill
  <2> QED BY <1>2, <2>1, <2>2 DEF Kill, IInv, TypeOK
<1>5. Handler(run')
  BY FreshEmpty, FreshIsHandler DEF Kill
<1>6. LoopState' /\ (run' /= <<>> => up')
  BY DEF Kill, LoopState, Doing
<1>7. OnlyPresent'
  BY <1>3 DEF Kill, IInv, OnlyPresent, Local
<1>8. ServedOrGoing'
  BY DEF Kill, ServedOrGoing
<1>9. BackupsExact'
  <2> SUFFICES ASSUME ~mixed' PROVE
        /\ \A u \in Owners, s \in Services : util'[u].backup[s] = NoBackup
        /\ store' = user'
    BY <1>3 DEF BackupsExact
  <2> QED BY <1>1, <1>2 DEF Kill
<1> QED BY <1>4, <1>5, <1>6, <1>7, <1>8, <1>9 DEF IInv

LEMMA StartStep ==
    ASSUME IInv, Start
    PROVE  IInv'
<1>1. Fresh(run') /\ run' = <<Call("removeStaleLocalResolverOverrides", "daemon", NoResolvers)>>
  BY FreshCalls DEF Start, Owners, Sweep
<1>2. Handler(run') /\ run' \in Seq(Calls) /\ (run' /= <<>> => ~run'[1].begun)
  BY <1>1, FreshIsHandler DEF Fresh
<1>3. run = <<>>
  BY DEF IInv, Start
<1>4. ~Doing("restoreResolvers")
  BY <1>3 DEF Doing
<1>5. ~Doing("updateResolvers")' /\ ~Doing("restoreResolvers")'
      /\ ~Doing("removeStaleLocalResolverOverrides")'
  BY <1>2 DEF Doing
<1>6. SweepAhead'
  BY <1>1 DEF SweepAhead, Call
<1>7. TypeOK' /\ (run' /= <<>> => up')
  BY <1>2 DEF Start, IInv, TypeOK
<1>8. LoopState' /\ OnlyPresent' /\ ServedOrGoing'
  BY <1>2, <1>5, <1>6 DEF Start, IInv, LoopState, OnlyPresent, ServedOrGoing, Local, BackedUp
<1>9. BackupsExact'
  BY <1>4, <1>5 DEF Start, IInv, BackupsExact, Restoring, BackedUp
<1> QED BY <1>2, <1>7, <1>8, <1>9 DEF IInv

LEMMA AddServiceStep ==
    ASSUME IInv, AddService
    PROVE  IInv'
<1>1. present \subseteq present' /\ present' \subseteq Services
  BY DEF AddService, IInv, TypeOK
<1>2. UNCHANGED <<user, store, util, conn, run, up, mixed>>
  BY DEF AddService
<1>3. TypeOK' /\ Handler(run') /\ (run' /= <<>> => up')
  BY <1>1, <1>2 DEF IInv, TypeOK
<1>4. LoopState' /\ OnlyPresent'
  BY <1>1, <1>2 DEF IInv, LoopState, OnlyPresent, Doing, Local, BackedUp
<1>5. ServedOrGoing'
  BY <1>2 DEF IInv, ServedOrGoing, Doing, Local, SweepAhead
<1>6. BackupsExact'
  BY <1>2 DEF IInv, BackupsExact, Restoring, Doing, BackedUp
<1> QED BY <1>3, <1>4, <1>5, <1>6 DEF IInv

-----------------------------------------------------------------------------
(* The loops. *)

\* What is known in a handler.
LEMMA InHandler ==
    ASSUME IInv, run /= <<>>
    PROVE  /\ run[1] \in Calls /\ run[1].by \in Owners /\ util[run[1].by] \in Utils
           /\ run[1].todo \in SUBSET Services /\ Handler(run) /\ up
<1>1. run \in Seq(Calls) /\ util \in [Owners -> Utils]
  BY DEF IInv, TypeOK
<1>2. run[1] \in Calls
  BY <1>1
<1> QED BY <1>1, <1>2 DEF IInv, Calls

LEMMA BeginUpdateStep ==
    ASSUME IInv, BeginUpdate
    PROVE  IInv'
<1> DEFINE c == run[1]
           u == run[1].by
<1>1. run /= <<>> /\ c.op = "updateResolvers" /\ ~c.begun /\ Continue(present)
  BY DEF BeginUpdate, At, Current
<1>2. c \in Calls /\ u \in Owners /\ Handler(run) /\ up /\ util \in [Owners -> Utils]
      /\ present \in SUBSET Services
  BY <1>1, InHandler DEF IInv, TypeOK
<1>3. c.res \in Resolvers
  BY <1>1, <1>2 DEF Handler
<1>4. PICK ok \in BOOLEAN :
        util' = [util EXCEPT ![u].cur = c.res, ![u].observer = ok]
  BY DEF BeginUpdate, Current
<1>5. /\ util' \in [Owners -> Utils]
      /\ util'[u].cur = c.res /\ util'[u].observer = ok
      /\ \A v \in Owners : util'[v].backup = util[v].backup /\ (v /= u => util'[v] = util[v])
  BY <1>2, <1>3, <1>4 DEF Utils
<1>6. UNCHANGED <<user, present, store, conn, up, mixed>>
  BY DEF BeginUpdate
<1>7. /\ Handler(run')
      /\ present = {} => run' = Tail(run) /\ Fresh(run')
      /\ present /= {} => /\ run' /= <<>> /\ run'[1].begun /\ run'[1].todo = present
                          /\ run'[1].op = "updateResolvers" /\ run'[1].by = u
  BY <1>1, <1>2, ContinueStep
<1> HIDE DEF c, u
<1>8. ~Doing("restoreResolvers")' /\ ~Doing("removeStaleLocalResolverOverrides")'
  BY <1>7, FreshIsHandler DEF Doing
<1>9. TypeOK' /\ (run' /= <<>> => up')
  BY <1>2, <1>5, <1>6, <1>7 DEF IInv, TypeOK, Handler
<1>10. LoopState'
  <2>1. run' /= <<>> /\ run'[1].begun => present /= {} /\ run'[1].todo = present /\ run'[1].by = u
    BY <1>7, FreshIsHandler
  <2>2. c.res /= NoResolvers
    BY <1>3, ResolversAssumption
  <2> QED BY <1>5, <1>6, <1>8, <2>1, <2>2 DEF LoopState, Doing
<1>11. OnlyPresent'
  BY <1>5, <1>6 DEF IInv, OnlyPresent, Local, BackedUp
<1>12. ServedOrGoing'
  <2> SUFFICES ASSUME Local' /= {} PROVE ServedOrGoing'
    BY DEF ServedOrGoing
  <2>1. Local' = Local /\ Local \subseteq present /\ present /= {}
    BY <1>6 DEF IInv, OnlyPresent, Local
  <2>2. run' /= <<>> /\ run'[1].begun /\ run'[1].todo = present
        /\ run'[1].op = "updateResolvers" /\ run'[1].by = u
    BY <1>7, <2>1
  <2>3. CASE ok
    BY <1>2, <1>5, <2>3 DEF ServedOrGoing
  <2>4. CASE ~ok
    BY <1>5, <1>6, <2>1, <2>2, <2>4 DEF ServedOrGoing, Doing
  <2> QED BY <2>3, <2>4
<1>13. BackupsExact'
  <2>1. ~Doing("restoreResolvers")
    BY <1>1 DEF Doing, c
  <2>2. \A v \in Owners : util[v].cur /= NoResolvers => util'[v].cur /= NoResolvers
    BY <1>3, <1>5, ResolversAssumption
  <2> QED BY <1>5, <1>6, <1>8, <2>1, <2>2 DEF IInv, BackupsExact, Restoring, BackedUp
<1> QED BY <1>7, <1>9, <1>10, <1>11, <1>12, <1>13 DEF IInv

LEMMA UpdateServiceStep ==
    ASSUME IInv, UpdateService
    PROVE  IInv'
<1> DEFINE c == run[1]
           u == run[1].by
<1>1. run /= <<>> /\ c.op = "updateResolvers" /\ c.begun
  BY DEF UpdateService, At, Current
<1>2. c \in Calls /\ u \in Owners /\ Handler(run) /\ up /\ util \in [Owners -> Utils]
      /\ store \in [Services -> Entries] /\ c.todo \in SUBSET Services
  BY <1>1, InHandler DEF IInv, TypeOK
<1>3. c.res \in Resolvers
  BY <1>1, <1>2 DEF Handler
<1>4. c.todo \subseteq present /\ util[u].cur /= NoResolvers
  BY <1>1 DEF IInv, LoopState, Doing
<1>5. PICK s \in c.todo :
        /\ util' = [util EXCEPT ![u].backup[s] = IF @ = NoBackup THEN store[s] ELSE @]
        /\ store' = [store EXCEPT ![s] = IF util[u].observer THEN "local" ELSE c.res]
        /\ mixed' = (mixed \/ util'[u].backup[s] /= user[s])
        /\ Continue(c.todo \ {s})
  BY DEF UpdateService, Current
<1>6. UNCHANGED <<user, present, conn, up>>
  BY DEF UpdateService
<1>7. s \in Services /\ store[s] \in Entries /\ store[s] /= NoBackup
  <2>1. NoBackup \notin Entries
    BY ResolversAssumption DEF Entries, Settings, NoBackup
  <2> QED BY <1>2, <1>5, <2>1
<1>8. /\ util' \in [Owners -> Utils]
      /\ util'[u].backup[s] = (IF util[u].backup[s] = NoBackup THEN store[s] ELSE util[u].backup[s])
      /\ util'[u].backup[s] /= NoBackup
      /\ \A v \in Owners : /\ util'[v].cur = util[v].cur /\ util'[v].observer = util[v].observer
                           /\ \A t \in Services : v /= u \/ t /= s =>
                                util'[v].backup[t] = util[v].backup[t]
  <2> DEFINE b == IF util[u].backup[s] = NoBackup THEN store[s] ELSE util[u].backup[s]
             k == [util[u].backup EXCEPT ![s] = b]
             w == [util[u] EXCEPT !.backup = k]
  <2>1. util[u] \in Utils /\ util[u].backup \in [Services -> Entries \cup {NoBackup}]
    BY <1>2 DEF Utils
  <2>2. b \in Entries \cup {NoBackup} /\ b /= NoBackup
    BY <1>7, <2>1
  <2>3. util' = [util EXCEPT ![u] = w]
    BY <1>2, <1>5, <2>1 DEF Utils
  <2> HIDE DEF b
  <2>4. /\ k \in [Services -> Entries \cup {NoBackup}] /\ k[s] = b
        /\ \A t \in Services : t /= s => k[t] = util[u].backup[t]
    BY <1>7, <2>1, <2>2
  <2> HIDE DEF k
  <2>5. w \in Utils /\ w.backup = k /\ w.cur = util[u].cur /\ w.observer = util[u].observer
    BY <2>1, <2>4 DEF Utils
  <2> HIDE DEF w
  <2>6. util' \in [Owners -> Utils] /\ util'[u] = w /\ \A v \in Owners : v /= u => util'[v] = util[v]
    BY <1>2, <2>3, <2>5
  <2> QED BY <2>2, <2>4, <2>5, <2>6 DEF b
<1>9. store' \in [Services -> Entries] /\ \A t \in Services : t /= s => store'[t] = store[t]
  BY <1>2, <1>3, <1>5 DEF Entries
<1>10. mixed' \in BOOLEAN
  BY <1>5, Zenon DEF IInv, TypeOK
<1> DEFINE ss == c.todo \ {s}
<1>11. /\ Handler(run')
       /\ ss = {} => run' = Tail(run) /\ Fresh(run')
       /\ ss /= {} => /\ run' /= <<>> /\ run'[1].begun /\ run'[1].todo = ss
                      /\ run'[1].op = "updateResolvers" /\ run'[1].by = u
  BY <1>1, <1>2, <1>5, ContinueStep
<1>12. SweepAhead => SweepAhead'
  BY <1>1, <1>2, <1>5, SweepAheadKept
<1>13. ~Doing("restoreResolvers") /\ ~Doing("removeStaleLocalResolverOverrides")
  BY <1>1 DEF Doing
<1> HIDE DEF c, u, ss
<1>14. ~Doing("restoreResolvers")' /\ ~Doing("removeStaleLocalResolverOverrides")'
  BY <1>11, FreshIsHandler DEF Doing
<1>15. run' /= <<>> /\ run'[1].begun => ss /= {} /\ run'[1].todo = ss /\ run'[1].by = u
  BY <1>11, FreshIsHandler
<1>16. TypeOK' /\ (run' /= <<>> => up')
  BY <1>2, <1>6, <1>8, <1>9, <1>10, <1>11 DEF IInv, TypeOK, Handler
<1>17. LoopState'
  BY <1>4, <1>6, <1>8, <1>2, <1>14, <1>15 DEF LoopState, Doing, ss
<1>18. OnlyPresent'
  <2>1. s \in present
    BY <1>4, <1>5
  <2>2. Local' \subseteq present
    BY <1>9, <2>1 DEF IInv, OnlyPresent, Local
  <2>3. \A v \in Owners : BackedUp(v)' \subseteq present
    BY <1>8, <2>1 DEF IInv, OnlyPresent, BackedUp
  <2> QED BY <1>6, <2>2, <2>3 DEF OnlyPresent
<1>19. ServedOrGoing'
  <2> SUFFICES ASSUME Local' /= {} PROVE ServedOrGoing'
    BY DEF ServedOrGoing
  <2>1. CASE util[u].observer
    BY <1>2, <1>8, <2>1 DEF ServedOrGoing
  <2>2. CASE ~util[u].observer
    <3>1. c.res /= "local"
      BY <1>3, ResolversAssumption
    <3>2. Local' = Local \ {s}
      BY <1>2, <1>5, <1>9, <2>2, <3>1 DEF Local
    <3>3. CASE \E v \in Owners : util[v].observer
      BY <1>8, <3>3 DEF ServedOrGoing
    <3>4. CASE SweepAhead
      BY <1>12, <3>4 DEF ServedOrGoing
    <3>5. CASE Local \subseteq c.todo
      <4>1. Local' \subseteq ss /\ ss /= {}
        BY <3>2, <3>5 DEF ss
      <4>2. run' /= <<>> /\ run'[1].begun /\ run'[1].todo = ss
            /\ run'[1].op = "updateResolvers" /\ run'[1].by = u
        BY <1>11, <4>1
      <4>3. ~util'[u].observer
        BY <1>2, <1>8, <2>2
      <4> QED BY <4>1, <4>2, <4>3 DEF ServedOrGoing, Doing
    <3> QED BY <1>2, <1>13, <3>2, <3>3, <3>4, <3>5 DEF IInv, ServedOrGoing, c
  <2> QED BY <2>1, <2>2
<1>20. BackupsExact'
  <2> SUFFICES ASSUME ~mixed' PROVE BackupsExact'
    BY DEF BackupsExact
  <2>1. ~mixed /\ util'[u].backup[s] = user[s]
    BY <1>5
  <2>2. \A v \in Owners, t \in Services : util'[v].backup[t] \in {NoBackup, user'[t]}
    BY <1>6, <1>8, <2>1 DEF IInv, BackupsExact
  <2>3. \A t \in Services : store'[t] /= user'[t] =>
            \E v \in Owners : util'[v].backup[t] /= NoBackup
    BY <1>2, <1>6, <1>8, <1>9, <2>1 DEF IInv, BackupsExact
  <2>4. \A v \in Owners : BackedUp(v)' /= {} => util'[v].cur /= NoResolvers
    BY <1>4, <1>8, <1>13, <2>1 DEF IInv, BackupsExact, Restoring, BackedUp
  <2> QED BY <1>14, <2>2, <2>3, <2>4 DEF BackupsExact, Restoring
<1> QED BY <1>11, <1>16, <1>17, <1>18, <1>19, <1>20 DEF IInv

LEMMA BeginRestoreStep ==
    ASSUME IInv, BeginRestore
    PROVE  IInv'
<1> DEFINE c == run[1]
           u == run[1].by
           ss == BackedUp(u)
<1>1. run /= <<>> /\ c.op = "restoreResolvers" /\ ~c.begun /\ Continue(ss)
  BY DEF BeginRestore, At, Current
<1>2. c \in Calls /\ u \in Owners /\ Handler(run) /\ up /\ util \in [Owners -> Utils]
      /\ ss \in SUBSET Services
  BY <1>1, InHandler DEF IInv, TypeOK, BackedUp
<1>3. util' = [util EXCEPT ![u].cur = NoResolvers, ![u].observer = FALSE]
  BY DEF BeginRestore, Current
<1>4. UNCHANGED <<user, present, store, conn, up, mixed>>
  BY DEF BeginRestore
<1>5. /\ util' \in [Owners -> Utils]
      /\ \A v \in Owners : util'[v].backup = util[v].backup /\ (v /= u => util'[v] = util[v])
  BY <1>2, <1>3 DEF Utils
<1>6. /\ Handler(run')
      /\ ss = {} => run' = Tail(run) /\ Fresh(run')
      /\ ss /= {} => /\ run' /= <<>> /\ run'[1].begun /\ run'[1].todo = ss
                     /\ run'[1].op = "restoreResolvers" /\ run'[1].by = u
  BY <1>1, <1>2, ContinueStep
<1>7. SweepAhead'
  BY <1>1, <1>2, RestoreSweeps, SweepAheadKept
<1>8. ~Doing("restoreResolvers")
  BY <1>1 DEF Doing
<1>9. \A v \in Owners : BackedUp(v)' = BackedUp(v)
  BY <1>5 DEF BackedUp
<1> HIDE DEF c, u, ss
<1>10. run' /= <<>> /\ run'[1].begun => ss /= {} /\ run'[1].todo = ss /\ run'[1].by = u
                                        /\ run'[1].op = "restoreResolvers"
  BY <1>6, FreshIsHandler
<1>11. TypeOK' /\ (run' /= <<>> => up')
  BY <1>2, <1>4, <1>5, <1>6 DEF IInv, TypeOK, Handler
<1>12. LoopState'
  BY <1>2, <1>9, <1>10 DEF LoopState, Doing, ss
<1>13. OnlyPresent'
  BY <1>4, <1>9 DEF IInv, OnlyPresent, Local
<1>14. ServedOrGoing'
  BY <1>7 DEF ServedOrGoing
<1>15. BackupsExact'
  <2> SUFFICES ASSUME ~mixed' PROVE BackupsExact'
    BY DEF BackupsExact
  <2>1. ~mixed
    BY <1>4
  <2>2. \A v \in Owners, t \in Services : util'[v].backup[t] \in {NoBackup, user'[t]}
    BY <1>4, <1>5, <2>1 DEF IInv, BackupsExact
  <2>3. ASSUME NEW t \in Services, store'[t] /= user'[t]
        PROVE  \E v \in Owners : /\ util'[v].backup[t] /= NoBackup
                                 /\ Restoring(v)' => t \in run'[1].todo
    <3>1. PICK v \in Owners : util[v].backup[t] /= NoBackup
      BY <1>4, <2>1, <2>3 DEF IInv, BackupsExact
    <3>2. v = u => t \in ss
      BY <3>1 DEF BackedUp, ss
    <3> QED BY <1>5, <1>10, <3>1, <3>2 DEF Restoring, Doing
  <2>4. ASSUME NEW v \in Owners, BackedUp(v)' /= {}
        PROVE  util'[v].cur /= NoResolvers \/ Restoring(v)'
    <3>1. CASE v = u
      BY <1>6, <1>9, <2>4, <3>1 DEF Restoring, Doing, ss
    <3>2. CASE v /= u
      BY <1>5, <1>8, <1>9, <2>1, <2>4, <3>2 DEF IInv, BackupsExact, Restoring
    <3> QED BY <3>1, <3>2
  <2> QED BY <2>2, <2>3, <2>4 DEF BackupsExact
<1> QED BY <1>6, <1>11, <1>12, <1>13, <1>14, <1>15 DEF IInv

LEMMA RestoreServiceStep ==
    ASSUME IInv, RestoreService
    PROVE  IInv'
<1> DEFINE c == run[1]
           u == run[1].by
<1>1. run /= <<>> /\ c.op = "restoreResolvers" /\ c.begun
  BY DEF RestoreService, At, Current
<1>2. c \in Calls /\ u \in Owners /\ Handler(run) /\ up /\ util \in [Owners -> Utils]
      /\ store \in [Services -> Entries] /\ c.todo \in SUBSET Services
  BY <1>1, InHandler DEF IInv, TypeOK
<1>3. c.todo \subseteq BackedUp(u)
  BY <1>1 DEF IInv, LoopState, Doing
<1>4. PICK s \in c.todo :
        /\ store' = [store EXCEPT ![s] = util[u].backup[s]]
        /\ util' = IF c.todo = {s}
                   THEN [util EXCEPT ![u].backup = [t \in Services |-> NoBackup]]
                   ELSE util
        /\ Continue(c.todo \ {s})
  BY DEF RestoreService, Current
<1>5. UNCHANGED <<user, present, conn, up, mixed>>
  BY DEF RestoreService
<1>6. s \in Services /\ util[u].backup[s] \in Entries /\ s \in BackedUp(u)
  BY <1>2, <1>3, <1>4 DEF BackedUp, Utils
<1>7. store' \in [Services -> Entries] /\ store'[s] = util[u].backup[s]
      /\ \A t \in Services : t /= s => store'[t] = store[t]
  BY <1>2, <1>4, <1>6
<1>8. /\ util' \in [Owners -> Utils]
      /\ \A v \in Owners : /\ util'[v].cur = util[v].cur
                           /\ v /= u \/ c.todo /= {s} => util'[v] = util[v]
      /\ c.todo = {s} => \A t \in Services : util'[u].backup[t] = NoBackup
  <2> DEFINE none == [t \in Services |-> NoBackup]
  <2>1. none \in [Services -> Entries \cup {NoBackup}] /\ \A t \in Services : none[t] = NoBackup
    OBVIOUS
  <2>2. CASE c.todo = {s}
    <3>1. util' = [util EXCEPT ![u].backup = none]
      BY <1>4, <2>2
    <3> HIDE DEF none, c, u
    <3> QED BY <1>2, <2>1, <2>2, <3>1 DEF Utils
  <2>3. CASE c.todo /= {s}
    BY <1>2, <1>4, <2>3
  <2> QED BY <2>2, <2>3
<1> DEFINE ss == c.todo \ {s}
<1>9. /\ Handler(run')
      /\ ss = {} => run' = Tail(run) /\ Fresh(run')
      /\ ss /= {} => /\ run' /= <<>> /\ run'[1].begun /\ run'[1].todo = ss
                     /\ run'[1].op = "restoreResolvers" /\ run'[1].by = u
  BY <1>1, <1>2, <1>4, ContinueStep
<1>10. SweepAhead'
  BY <1>1, <1>2, <1>4, RestoreSweeps, SweepAheadKept
<1>11. \A v \in Owners : Restoring(v) <=> v = u
  BY <1>1, <1>2 DEF Restoring, Doing
<1> HIDE DEF c, u, ss
<1>12. run' /= <<>> /\ run'[1].begun => ss /= {} /\ run'[1].todo = ss /\ run'[1].by = u
                                        /\ run'[1].op = "restoreResolvers"
  BY <1>9, FreshIsHandler
<1>13. c.todo = {s} <=> ss = {}
  BY <1>4 DEF ss
<1>14. TypeOK' /\ (run' /= <<>> => up')
  BY <1>2, <1>5, <1>7, <1>8, <1>9 DEF IInv, TypeOK, Handler
<1>15. LoopState'
  <2>1. ss /= {} => \A t \in ss : t \in Services /\ util'[u].backup[t] /= NoBackup
    BY <1>2, <1>3, <1>8, <1>13 DEF BackedUp, ss
  <2> QED BY <1>12, <2>1 DEF LoopState, Doing, BackedUp
<1>16. OnlyPresent'
  <2>1. Local' \subseteq present
    BY <1>2, <1>6, <1>7 DEF IInv, OnlyPresent, Local
  <2>2. \A v \in Owners : BackedUp(v)' \subseteq BackedUp(v)
    BY <1>8 DEF BackedUp
  <2> QED BY <1>5, <2>1, <2>2 DEF IInv, OnlyPresent
<1>17. ServedOrGoing'
  BY <1>10 DEF ServedOrGoing
<1>18. BackupsExact'
  <2> SUFFICES ASSUME ~mixed' PROVE BackupsExact'
    BY DEF BackupsExact
  <2>1. ~mixed
    BY <1>5
  <2>2. \A v \in Owners, t \in Services : util'[v].backup[t] \in {NoBackup, user'[t]}
    BY <1>5, <1>8, <2>1 DEF IInv, BackupsExact
  <2>3. ASSUME NEW t \in Services, store'[t] /= user'[t]
        PROVE  \E v \in Owners : /\ util'[v].backup[t] /= NoBackup
                                 /\ Restoring(v)' => t \in run'[1].todo
    <3>1. t /= s
      BY <1>2, <1>5, <1>6, <1>7, <2>1, <2>3 DEF IInv, BackupsExact, BackedUp
    <3>2. PICK v \in Owners : util[v].backup[t] /= NoBackup /\ (v = u => t \in c.todo)
      BY <1>5, <1>7, <1>11, <2>1, <2>3, <3>1 DEF IInv, BackupsExact, c
    <3>3. v = u => t \in ss /\ c.todo /= {s}
      BY <3>1, <3>2 DEF ss
    <3>4. util'[v].backup[t] /= NoBackup
      BY <1>8, <3>2, <3>3
    <3> QED BY <1>12, <3>3, <3>4 DEF Restoring, Doing
  <2>4. ASSUME NEW v \in Owners, BackedUp(v)' /= {}
        PROVE  util'[v].cur /= NoResolvers \/ Restoring(v)'
    <3>1. CASE v = u
      <4>1. ss /= {}
        BY <1>8, <1>13, <2>4, <3>1 DEF BackedUp
      <4> QED BY <1>9, <3>1, <4>1 DEF Restoring, Doing
    <3>2. CASE v /= u
      <4>1. BackedUp(v) /= {} /\ ~Restoring(v)
        BY <1>8, <1>11, <2>4, <3>2 DEF BackedUp
      <4> QED BY <1>8, <2>1, <4>1 DEF IInv, BackupsExact
    <3> QED BY <3>1, <3>2
  <2> QED BY <2>2, <2>3, <2>4 DEF BackupsExact
<1> QED BY <1>9, <1>14, <1>15, <1>16, <1>17, <1>18 DEF IInv

LEMMA BeginSweepStep ==
    ASSUME IInv, BeginSweep
    PROVE  IInv'
<1> DEFINE c == run[1]
           u == run[1].by
<1>1. run /= <<>> /\ c.op = "removeStaleLocalResolverOverrides" /\ ~c.begun
  BY DEF BeginSweep, At, Current
<1>2. {s \in present : store[s] = "local"} = Local
  BY DEF IInv, TypeOK, OnlyPresent, Local
<1>3. Continue(Local) /\ Local \in SUBSET Services
  BY <1>2 DEF BeginSweep, Local
<1>4. c \in Calls /\ u \in Owners /\ Handler(run) /\ up /\ util \in [Owners -> Utils]
  BY <1>1, InHandler DEF IInv, TypeOK
<1>5. util' = [util EXCEPT ![u].built = TRUE]
  BY DEF BeginSweep, Current
<1>6. UNCHANGED <<user, present, store, conn, up, mixed>>
  BY DEF BeginSweep
<1>7. /\ util' \in [Owners -> Utils]
      /\ \A v \in Owners : /\ util'[v].backup = util[v].backup /\ util'[v].cur = util[v].cur
                           /\ util'[v].observer = util[v].observer
  BY <1>4, <1>5 DEF Utils
<1>8. /\ Handler(run')
      /\ Local = {} => run' = Tail(run) /\ Fresh(run')
      /\ Local /= {} => /\ run' /= <<>> /\ run'[1].begun /\ run'[1].todo = Local
                        /\ run'[1].op = "removeStaleLocalResolverOverrides"
  BY <1>1, <1>3, <1>4, ContinueStep
<1>9. ~Doing("restoreResolvers")
  BY <1>1 DEF Doing
<1> HIDE DEF c, u
<1>10. run' /= <<>> /\ run'[1].begun => Local /= {} /\ run'[1].todo = Local
                         /\ run'[1].op = "removeStaleLocalResolverOverrides"
  BY <1>8, FreshIsHandler
<1>11. Local' = Local
  BY <1>6 DEF Local
<1>12. ~Doing("restoreResolvers")' /\ ~Doing("updateResolvers")'
  BY <1>10 DEF Doing
<1>13. TypeOK' /\ (run' /= <<>> => up')
  BY <1>4, <1>6, <1>7, <1>8 DEF IInv, TypeOK, Handler
<1>14. LoopState'
  BY <1>10, <1>11, <1>12 DEF LoopState, Doing
<1>15. OnlyPresent'
  BY <1>6, <1>7, <1>11 DEF IInv, OnlyPresent, BackedUp
<1>16. ServedOrGoing'
  BY <1>8, <1>11 DEF ServedOrGoing, Doing
<1>17. BackupsExact'
  BY <1>6, <1>7, <1>9, <1>12 DEF IInv, BackupsExact, Restoring, BackedUp
<1> QED BY <1>8, <1>13, <1>14, <1>15, <1>16, <1>17 DEF IInv

LEMMA SweepServiceStep ==
    ASSUME IInv, SweepService
    PROVE  IInv'
<1> DEFINE c == run[1]
<1>1. run /= <<>> /\ c.op = "removeStaleLocalResolverOverrides" /\ c.begun
  BY DEF SweepService, At, Current
<1>2. c \in Calls /\ Handler(run) /\ up /\ store \in [Services -> Entries]
      /\ c.todo \in SUBSET Services
  BY <1>1, InHandler DEF IInv, TypeOK
<1>3. c.todo \subseteq Local
  BY <1>1 DEF IInv, LoopState, Doing
<1>4. PICK s \in c.todo : store' = [store EXCEPT ![s] = "none"] /\ Continue(c.todo \ {s})
  BY DEF SweepService, Current
<1>5. UNCHANGED <<user, present, util, conn, up, mixed>>
  BY DEF SweepService
<1>6. store' \in [Services -> Entries] /\ \A t \in Services : t /= s => store'[t] = store[t]
  BY <1>2, <1>4 DEF Entries, Settings
<1>7. Local' = Local \ {s} /\ store[s] = "local" /\ s \in Services
  BY <1>2, <1>3, <1>4 DEF Local
<1> DEFINE ss == c.todo \ {s}
<1>8. /\ Handler(run')
      /\ ss = {} => run' = Tail(run) /\ Fresh(run')
      /\ ss /= {} => /\ run' /= <<>> /\ run'[1].begun /\ run'[1].todo = ss
                     /\ run'[1].op = "removeStaleLocalResolverOverrides"
  BY <1>1, <1>2, <1>4, ContinueStep
<1>9. SweepAhead => SweepAhead'
  BY <1>1, <1>2, <1>4, SweepAheadKept
<1>10. ~Doing("restoreResolvers") /\ ~Doing("updateResolvers")
  BY <1>1 DEF Doing
<1> HIDE DEF c, ss
<1>11. run' /= <<>> /\ run'[1].begun => ss /= {} /\ run'[1].todo = ss
                         /\ run'[1].op = "removeStaleLocalResolverOverrides"
  BY <1>8, FreshIsHandler
<1>12. ~Doing("restoreResolvers")' /\ ~Doing("updateResolvers")'
  BY <1>11 DEF Doing
<1>13. TypeOK' /\ (run' /= <<>> => up')
  BY <1>2, <1>5, <1>6, <1>8 DEF IInv, TypeOK, Handler
<1>14. LoopState'
  BY <1>3, <1>7, <1>11, <1>12 DEF LoopState, Doing, ss
<1>15. OnlyPresent'
  BY <1>5, <1>7 DEF IInv, OnlyPresent, BackedUp
<1>16. ServedOrGoing'
  <2>1. CASE \E v \in Owners : util[v].observer
    BY <1>5, <2>1 DEF ServedOrGoing
  <2>2. CASE SweepAhead
    BY <1>9, <2>2 DEF ServedOrGoing
  <2>3. CASE Local \subseteq c.todo
    <3>1. Local' \subseteq ss
      BY <1>7, <2>3 DEF ss
    <3> QED BY <1>8, <3>1 DEF ServedOrGoing, Doing
  <2> QED BY <1>2, <1>7, <1>10, <2>1, <2>2, <2>3 DEF IInv, ServedOrGoing, c
<1>17. BackupsExact'
  <2> SUFFICES ASSUME ~mixed PROVE BackupsExact'
    BY <1>5 DEF BackupsExact
  <2>1. store[s] /= user[s]
    BY <1>7 DEF IInv, TypeOK, Settings
  <2>2. \A t \in Services : store'[t] /= user'[t] =>
            \E v \in Owners : util'[v].backup[t] /= NoBackup
    BY <1>5, <1>6, <1>7, <2>1 DEF IInv, BackupsExact
  <2> QED BY <1>5, <1>10, <1>12, <2>2 DEF IInv, BackupsExact, Restoring, BackedUp
<1> QED BY <1>8, <1>13, <1>14, <1>15, <1>16, <1>17 DEF IInv

LEMMA ConfigureStep ==
    ASSUME IInv, ConfigureSplitTunnelRules
    PROVE  IInv'
<1> DEFINE c == run[1]
           u == run[1].by
           a == IF util[u].cur = NoResolvers THEN <<>> ELSE Update(u, util[u].cur)
<1>1. run /= <<>> /\ c.op \in {"setRules", "clearRules"}
  BY DEF ConfigureSplitTunnelRules, At, Current
<1>2. c \in Calls /\ u \in Owners /\ Handler(run) /\ up /\ util \in [Owners -> Utils]
  BY <1>1, InHandler DEF IInv, TypeOK
<1>3. util' = [util EXCEPT ![u].rules = (c.op = "setRules")] /\ run' = a \o Tail(run)
  BY DEF ConfigureSplitTunnelRules, Current
<1>4. UNCHANGED <<user, present, store, conn, up, mixed>>
  BY DEF ConfigureSplitTunnelRules
<1>5. /\ util' \in [Owners -> Utils]
      /\ \A v \in Owners : /\ util'[v].backup = util[v].backup /\ util'[v].cur = util[v].cur
                           /\ util'[v].observer = util[v].observer
  <2> DEFINE b == (c.op = "setRules")
  <2>1. b \in BOOLEAN /\ util' = [util EXCEPT ![u].rules = b]
    BY <1>3
  <2> HIDE DEF b, c, u
  <2> QED BY <1>2, <2>1 DEF Utils
<1>6. Fresh(a)
  <2>1. util[u].cur /= NoResolvers => util[u].cur \in Resolvers
    BY <1>2 DEF Utils
  <2> QED BY <1>2, <2>1, FreshEmpty, FreshCalls
<1>7. Fresh(run')
  BY <1>1, <1>2, <1>3, <1>6, FreshConcat DEF Handler
<1>8. Handler(run') /\ (run' /= <<>> => ~run'[1].begun)
  BY <1>7, FreshIsHandler
<1>9. SweepAhead => SweepAhead'
  BY <1>1, <1>2, <1>3, <1>6, SweepAheadBehind
<1>10. ~Doing("restoreResolvers") /\ ~Doing("updateResolvers")
       /\ ~Doing("removeStaleLocalResolverOverrides")
  BY <1>1 DEF Doing
<1> HIDE DEF c, u, a
<1>11. ~Doing("restoreResolvers")' /\ ~Doing("updateResolvers")'
       /\ ~Doing("removeStaleLocalResolverOverrides")'
  BY <1>8 DEF Doing
<1>12. TypeOK' /\ (run' /= <<>> => up')
  BY <1>2, <1>4, <1>5, <1>8 DEF IInv, TypeOK, Handler
<1>13. LoopState'
  BY <1>8, <1>11 DEF LoopState
<1>14. OnlyPresent'
  BY <1>4, <1>5 DEF IInv, OnlyPresent, Local, BackedUp
<1>15. ServedOrGoing'
  <2>1. Local' = Local
    BY <1>4 DEF Local
  <2> QED BY <1>2, <1>4, <1>5, <1>9, <1>10, <2>1 DEF IInv, ServedOrGoing
<1>16. BackupsExact'
  BY <1>4, <1>5, <1>10, <1>11 DEF IInv, BackupsExact, Restoring, BackedUp
<1> QED BY <1>8, <1>12, <1>13, <1>14, <1>15, <1>16 DEF IInv

-----------------------------------------------------------------------------
(* The theorems. *)

LEMMA InitInvariant == Init => IInv
<1> SUFFICES ASSUME Init PROVE IInv
  OBVIOUS
<1>1. NewUtil \in Utils /\ \A s \in Services : NewUtil.backup[s] = NoBackup
  BY DEF NewUtil, Utils
<1>2. \A u \in Owners : util[u] = NewUtil
  BY DEF Init
<1>3. TypeOK
  <2>1. store \in [Services -> Entries]
    BY DEF Init, Entries
  <2>2. run \in Seq(Calls)
    BY DEF Init
  <2>3. util \in [Owners -> Utils]
    BY <1>1 DEF Init
  <2> QED BY <2>1, <2>2, <2>3 DEF Init, TypeOK
<1>4. Handler(run) /\ LoopState /\ (run /= <<>> => up)
  BY FreshEmpty, FreshIsHandler DEF Init, LoopState, Doing
<1>5. Local = {} /\ \A u \in Owners : BackedUp(u) = {}
  BY <1>1, <1>2 DEF Init, Local, BackedUp, Settings
<1>6. OnlyPresent /\ ServedOrGoing
  BY <1>5 DEF OnlyPresent, ServedOrGoing
<1>7. BackupsExact
  BY <1>1, <1>2, <1>5 DEF Init, BackupsExact
<1> QED BY <1>3, <1>4, <1>6, <1>7 DEF IInv

LEMMA StutterStep ==
    ASSUME IInv, UNCHANGED dnsVars
    PROVE  IInv'
BY DEF dnsVars, IInv, TypeOK, Handler, LoopState, OnlyPresent, ServedOrGoing, BackupsExact,
       Doing, Restoring, SweepAhead, Local, BackedUp

\* The invariant holds in every reachable state, whichever calls of the two objects follow
\* each other and between whichever writes the service is killed.
THEOREM Invariance == Spec => []IInv
<1>1. IInv /\ [Next]_dnsVars => IInv'
  <2> SUFFICES ASSUME IInv, [Next]_dnsVars PROVE IInv'
    OBVIOUS
  <2>1. CASE Loops
    BY <2>1, BeginUpdateStep, UpdateServiceStep, BeginRestoreStep, RestoreServiceStep,
       BeginSweepStep, SweepServiceStep, ConfigureStep DEF Loops
  <2>2. CASE \E r \in Resolvers, connected \in BOOLEAN : Activate(r, connected)
    BY <2>2, ActivateStep
  <2>3. CASE Handshake \/ Deactivate \/ RouterCall
    BY <2>3, HandshakeStep, DeactivateStep, RouterCallStep
  <2>4. CASE Kill \/ Start \/ AddService
    BY <2>4, KillStep, StartStep, AddServiceStep
  <2>5. CASE UNCHANGED dnsVars
    BY <2>5, StutterStep
  <2> QED BY <2>1, <2>2, <2>3, <2>4, <2>5 DEF Next
<1> QED BY InitInvariant, <1>1, PTL DEF Spec

\* Type correctness: among others, no entry is ever overwritten with an absent backup.
THEOREM TypeCorrect == Spec => []TypeOK
<1>1. IInv => TypeOK
  BY DEF IInv
<1> QED BY <1>1, Invariance, PTL

\* Between handlers an entry for 127.0.0.1 has an observer behind it: LocalResolverIsServed.
THEOREM ServedSound == Spec => []LocalResolverIsServed
<1>1. IInv => LocalResolverIsServed
  <2> SUFFICES ASSUME IInv, Ready, \E s \in Services : store[s] = "local"
               PROVE  \E u \in Owners : util[u].observer
    BY DEF LocalResolverIsServed
  <2>1. run = <<>> /\ up /\ Local /= {}
    BY DEF Ready, Local
  <2>2. ~SweepAhead /\ ~Doing("updateResolvers") /\ ~Doing("removeStaleLocalResolverOverrides")
    BY <2>1 DEF SweepAhead, Doing
  <2> QED BY <2>1, <2>2 DEF IInv, ServedOrGoing
<1> QED BY <1>1, Invariance, PTL

\* Without resolvers set the user's settings are back: SettingsComeBack.
THEOREM SettingsSound == Spec => []SettingsComeBack
<1>1. IInv => SettingsComeBack
  <2> SUFFICES ASSUME IInv, Ready, \A u \in Owners : util[u].cur = NoResolvers, ~mixed
               PROVE  store = user
    BY DEF SettingsComeBack
  <2>1. \A u \in Owners : ~Restoring(u)
    BY DEF Ready, Restoring, Doing
  <2>2. \A u \in Owners : BackedUp(u) = {}
    BY <2>1 DEF IInv, BackupsExact
  <2>3. \A s \in Services : store[s] = user[s]
    BY <2>2 DEF IInv, BackupsExact, BackedUp
  <2> QED BY <2>3 DEF IInv, TypeOK
<1> QED BY <1>1, Invariance, PTL
=============================================================================

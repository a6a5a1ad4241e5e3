----------------------------- MODULE LoopProofs -----------------------------
(***************************************************************************)
(* The daemon's event loop for every configuration and every environment:  *)
(* the types of its state, the limits of its pipes, that no death of a     *)
(* child is missed, and what the first word to the setter is.              *)
(***************************************************************************)
EXTENDS TlsdatedProofs, SequenceTheorems, FiniteSetTheorems

-----------------------------------------------------------------------------
(* The inductive invariants.                                               *)

NetEvents == NetFiles \cup NetTimers \cup {"E_SIGCHLD"}

\* Each queue holds events of its priority, each of them once.
QueuesOK ==
    /\ save_queue \in Seq(PRI_SAVE) /\ IsInjective(save_queue)
    /\ net_queue \in Seq(NetEvents) /\ IsInjective(net_queue)

\* What the poll has found is still so when the callback runs: there is room
\* for two words, and there is a word to read.
StillReady ==
    /\ "E_SAVE" \in Range(save_queue) => Writable
    /\ "E_TLSDATE_STATUS" \in Range(net_queue) => monitor_pipe # <<>>

LoopInv == TypeOK /\ QueuesOK /\ StillReady

\* Until the setter has assigned its status, the first word on its way is a
\* sane one: it is in the pipe, or last_time holds it and no callback comes
\* before that of E_SAVE.
SaneWord(m) == is_sane_time(m.sec) \/ is_sane_time(-m.sec)

SaveComesFirst ==
    /\ ~exitting
    /\ is_sane_time(last_time.sec)
    /\ "E_SAVE" \in armed
    /\ \/ loop = "poll" /\ save_queue = <<>> /\ net_queue = <<>>
       \/ loop = "run" /\ save_queue # <<>> /\ Head(save_queue) = "E_SAVE"

FirstWord ==
    status = "UNINIT" =>
        /\ setter \in {"start", "read", "dead"}
        /\ setter # "dead" =>
              IF time_pipe # <<>> THEN SaneWord(Head(time_pipe))
              ELSE daemon = "up" => SaveComesFirst

-----------------------------------------------------------------------------
(* Facts about queues.                                                     *)

\* The range of a queue, by place.
LEMMA RangeFacts ==
    ASSUME NEW S, NEW q \in Seq(S)
    PROVE  /\ Len(q) \in Nat /\ DOMAIN q = 1 .. Len(q)
           /\ Range(q) \subseteq S
           /\ \A x : x \in Range(q) <=> \E i \in 1 .. Len(q) : q[i] = x
<1>1. Len(q) \in Nat /\ DOMAIN q = 1 .. Len(q)
  BY LenProperties
<1>2. \A x : x \in Range(q) <=> \E i \in 1 .. Len(q) : q[i] = x
  BY <1>1 DEF Range
<1>3. Range(q) \subseteq S
  BY <1>2, ElementOfSeq
<1> QED
  BY <1>1, <1>2, <1>3

\* The first callback of a queue has run: the others are still there.
LEMMA TailFacts ==
    ASSUME NEW S, NEW q \in Seq(S), q # <<>>, IsInjective(q)
    PROVE  /\ Tail(q) \in Seq(S) /\ IsInjective(Tail(q))
           /\ Range(Tail(q)) = Range(q) \ {Head(q)}
<1>1. /\ Tail(q) \in Seq(S)
      /\ Len(q) \in Nat \ {0}
      /\ Len(Tail(q)) = Len(q) - 1
      /\ \A i \in 1 .. Len(Tail(q)) : Tail(q)[i] = q[i + 1]
      /\ Head(q) = q[1]
  BY HeadTailProperties, EmptySeq
<1>2. \A i, j \in 1 .. Len(q) : q[i] = q[j] => i = j
  BY LenProperties DEF IsInjective
<1>3. DOMAIN Tail(q) = 1 .. Len(Tail(q))
  BY <1>1, LenProperties
<1>6. IsInjective(Tail(q))
  BY <1>1, <1>2, <1>3 DEF IsInjective
<1>4. /\ \A x : x \in Range(q) <=> \E i \in 1 .. Len(q) : q[i] = x
      /\ \A x : x \in Range(Tail(q)) <=> \E i \in 1 .. Len(Tail(q)) : Tail(q)[i] = x
  BY <1>3, RangeFacts, Zenon DEF Range
<1>5. ASSUME NEW x PROVE x \in Range(Tail(q)) <=> x \in Range(q) \ {Head(q)}
  <2>1. ASSUME x \in Range(Tail(q)) PROVE x \in Range(q) \ {Head(q)}
    <3>1. PICK i \in 1 .. Len(Tail(q)) : Tail(q)[i] = x
      BY <1>1, <2>1, <1>4
    <3>2. i + 1 \in 1 .. Len(q) /\ q[i + 1] = x /\ 1 \in 1 .. Len(q) /\ i + 1 # 1
      BY <1>1, <3>1
    <3> QED
      BY <1>1, <1>2, <3>2, <1>4
  <2>2. ASSUME x \in Range(q) \ {Head(q)} PROVE x \in Range(Tail(q))
    <3>1. PICK i \in 1 .. Len(q) : q[i] = x
      BY <2>2, <1>4
    <3>2. i - 1 \in 1 .. Len(Tail(q)) /\ Tail(q)[i - 1] = x
      BY <1>1, <2>2, <3>1
    <3> QED
      BY <1>1, <3>2, <1>4
  <2> QED
    BY <2>1, <2>2
<1> QED
  BY <1>1, <1>5, <1>6

\* event_del: the event is gone and the others are still there.
LEMMA DropFacts ==
    ASSUME NEW S, NEW q \in Seq(S), IsInjective(q), NEW e
    PROVE  /\ Drop(q, e) \in Seq(S) /\ IsInjective(Drop(q, e))
           /\ Range(Drop(q, e)) = Range(q) \ {e}
<1>1. Len(q) \in Nat /\ DOMAIN q = 1 .. Len(q) /\ \A i \in 1 .. Len(q) : q[i] \in S
  BY LenProperties, ElementOfSeq
<1>2. \A i, j \in 1 .. Len(q) : q[i] = q[j] => i = j
  BY <1>1 DEF IsInjective
<1>3. CASE ~ \E i \in 1 .. Len(q) : q[i] = e
  BY <1>3, RangeFacts DEF Drop
<1>4. CASE \E i \in 1 .. Len(q) : q[i] = e
  <2> DEFINE n == CHOOSE i \in 1 .. Len(q) : q[i] = e
             d == [i \in 1 .. (Len(q) - 1) |-> IF i < n THEN q[i] ELSE q[i + 1]]
  <2>1. n \in 1 .. Len(q) /\ q[n] = e
    BY <1>4
  <2>2. Drop(q, e) = d
    BY <1>4 DEF Drop
  <2> HIDE DEF n
  <2>3. Len(q) - 1 \in Nat
    BY <1>1, <2>1
  <2>4. \A i \in 1 .. (Len(q) - 1) : d[i] = (IF i < n THEN q[i] ELSE q[i + 1]) /\ d[i] \in S
    BY <1>1, <2>1
  <2>5. d \in [1 .. (Len(q) - 1) -> S]
    BY <2>4
  <2>6. d \in Seq(S) /\ DOMAIN d = 1 .. (Len(q) - 1)
    BY <2>3, <2>5, SeqDef
  <2>7. Len(d) = Len(q) - 1
    BY <2>3, <2>6
  <2>8. IsInjective(d)
    BY <1>1, <1>2, <2>1, <2>4, <2>6 DEF IsInjective
  <2>9. ASSUME NEW x PROVE x \in Range(d) <=> x \in Range(q) \ {e}
    <3>1. ASSUME x \in Range(d) PROVE x \in Range(q) \ {e}
      <4>1. PICK i \in 1 .. (Len(q) - 1) : d[i] = x
        BY <2>6, <3>1 DEF Range
      <4>2. \E j \in 1 .. Len(q) : q[j] = x /\ j # n
        BY <1>1, <2>1, <2>4, <4>1
      <4> QED
        BY <1>2, <2>1, <4>2, RangeFacts
    <3>2. ASSUME x \in Range(q) \ {e} PROVE x \in Range(d)
      <4>1. PICK i \in 1 .. Len(q) : q[i] = x /\ i # n
        BY <2>1, <3>2, RangeFacts
      <4>2. CASE i < n
        <5>1. i \in 1 .. (Len(q) - 1) /\ d[i] = x
          BY <1>1, <2>1, <2>4, <4>1, <4>2
        <5> QED
          BY <2>6, <5>1 DEF Range
      <4>3. CASE i > n
        <5>1. i - 1 \in 1 .. (Len(q) - 1) /\ ~(i - 1 < n) /\ (i - 1) + 1 = i
          BY <1>1, <2>1, <4>1, <4>3
        <5>2. d[i - 1] = x
          BY <2>4, <4>1, <5>1
        <5> QED
          BY <2>6, <5>1, <5>2 DEF Range
      <4> QED
        BY <2>1, <4>1, <4>2, <4>3
    <3> QED
      BY <3>1, <3>2
  <2> QED
    BY <2>2, <2>6, <2>8, <2>9
<1> QED
  BY <1>3, <1>4

\* Two conditional event_dels in a row.
LEMMA DropTwice ==
    ASSUME NEW S, NEW q \in Seq(S), IsInjective(q), NEW a, NEW x, NEW b, NEW y,
           NEW D
    PROVE  /\ DropIf(DropIf(q, a, x \in D), b, y \in D) \in Seq(S)
           /\ IsInjective(DropIf(DropIf(q, a, x \in D), b, y \in D))
           /\ Range(DropIf(DropIf(q, a, x \in D), b, y \in D)) =
                (Range(q) \ (IF x \in D THEN {a} ELSE {})) \ (IF y \in D THEN {b} ELSE {})
<1> DEFINE r == DropIf(q, a, x \in D)
<1>1. r \in Seq(S) /\ IsInjective(r) /\ Range(r) = IF x \in D THEN Range(q) \ {a} ELSE Range(q)
  BY DropFacts DEF DropIf
<1> HIDE DEF r
<1>2. /\ DropIf(r, b, y \in D) \in Seq(S) /\ IsInjective(DropIf(r, b, y \in D))
      /\ Range(DropIf(r, b, y \in D)) = IF y \in D THEN Range(r) \ {b} ELSE Range(r)
  BY <1>1, DropFacts DEF DropIf
<1>3. Range(DropIf(r, b, y \in D)) =
        (Range(q) \ (IF x \in D THEN {a} ELSE {})) \ (IF y \in D THEN {b} ELSE {})
  BY <1>1, <1>2
<1> QED
  BY <1>2, <1>3 DEF r

\* The events a callback may have deleted from the two queues.
LEMMA DelFacts ==
    ASSUME NEW S, NEW q \in Seq(S), IsInjective(q), NEW D
    PROVE  /\ DelSave(q, D) \in Seq(S) /\ IsInjective(DelSave(q, D))
           /\ Range(DelSave(q, D)) =
                Range(q) \ (IF "E_SAVE" \in D THEN {"E_SAVE", "E_SAVE_HUP"} ELSE {})
           /\ DelNet(q, D) \in Seq(S) /\ IsInjective(DelNet(q, D))
           /\ Range(DelNet(q, D)) = Range(q) \ (D \cap {"E_TLSDATE", "E_TLSDATE_STATUS"})
<1>1. /\ DelSave(q, D) \in Seq(S) /\ IsInjective(DelSave(q, D))
      /\ Range(DelSave(q, D)) = (Range(q) \ (IF "E_SAVE" \in D THEN {"E_SAVE"} ELSE {}))
                                    \ (IF "E_SAVE" \in D THEN {"E_SAVE_HUP"} ELSE {})
  BY DropTwice DEF DelSave
<1>2. /\ DelNet(q, D) \in Seq(S) /\ IsInjective(DelNet(q, D))
      /\ Range(DelNet(q, D)) =
            (Range(q) \ (IF "E_TLSDATE" \in D THEN {"E_TLSDATE"} ELSE {}))
                \ (IF "E_TLSDATE_STATUS" \in D THEN {"E_TLSDATE_STATUS"} ELSE {})
  BY DropTwice DEF DelNet
<1> QED
  BY <1>1, <1>2

\* A callback takes its own event off its queue, unless it goes on, and the
\* events that it deletes; it adds none, and leaves a queued SIGCHLD alone.
LEMMA RanFacts ==
    ASSUME QueuesOK, NEW e, NEW more \in BOOLEAN, NEW added, NEW deleted,
           Callback(e), Ran(e, more, added, deleted)
    PROVE  /\ QueuesOK' /\ loop' \in {"poll", "run"}
           /\ Range(save_queue') \subseteq Range(save_queue)
           /\ Range(net_queue') \subseteq Range(net_queue)
           /\ ~more => e \notin Range(save_queue') /\ e \notin Range(net_queue')
           /\ e # "E_SIGCHLD" /\ "E_SIGCHLD" \in Range(net_queue)
                => "E_SIGCHLD" \in Range(net_queue')
<1> DEFINE sq == IF e \in PRI_SAVE /\ ~more THEN Tail(save_queue) ELSE save_queue
           nq == IF e \notin PRI_SAVE /\ ~more THEN Tail(net_queue) ELSE net_queue
           D == added \cup deleted
<1>1. /\ save_queue \in Seq(PRI_SAVE) /\ IsInjective(save_queue)
      /\ net_queue \in Seq(NetEvents) /\ IsInjective(net_queue)
      /\ Range(save_queue) \subseteq PRI_SAVE /\ Range(net_queue) \subseteq NetEvents
  BY RangeFacts DEF QueuesOK
<1>2. /\ e \in PRI_SAVE => save_queue # <<>> /\ e = Head(save_queue)
      /\ e \notin PRI_SAVE => net_queue # <<>> /\ e = Head(net_queue)
  BY DEF Callback
<1>3. /\ sq \in Seq(PRI_SAVE) /\ IsInjective(sq)
      /\ Range(sq) = Range(save_queue) \ (IF e \in PRI_SAVE /\ ~more THEN {e} ELSE {})
  BY <1>1, <1>2, TailFacts
<1>4. /\ nq \in Seq(NetEvents) /\ IsInjective(nq)
      /\ Range(nq) = Range(net_queue) \ (IF e \notin PRI_SAVE /\ ~more THEN {e} ELSE {})
  BY <1>1, <1>2, TailFacts
<1>5. save_queue' = DelSave(sq, D) /\ net_queue' = DelNet(nq, D) /\ loop' \in {"poll", "run"}
  BY DEF Ran
<1> HIDE DEF sq, nq, D
<1>6. QueuesOK'
  BY <1>3, <1>4, <1>5, DelFacts DEF QueuesOK
<1>7. /\ Range(save_queue') =
            Range(sq) \ (IF "E_SAVE" \in D THEN {"E_SAVE", "E_SAVE_HUP"} ELSE {})
      /\ Range(net_queue') = Range(nq) \ (D \cap {"E_TLSDATE", "E_TLSDATE_STATUS"})
  BY <1>3, <1>4, <1>5, DelFacts
<1>8. PRI_SAVE \cap NetEvents = {}
  BY DEF PRI_SAVE, NetEvents, NetFiles, NetTimers
<1> QED
  BY <1>1, <1>3, <1>4, <1>5, <1>6, <1>7, <1>8

\* Two queues without a common event, one after the other.
LEMMA ConcatFacts ==
    ASSUME NEW S, NEW p \in Seq(S), NEW q \in Seq(S),
           IsInjective(p), IsInjective(q), Range(p) \cap Range(q) = {}
    PROVE  p \o q \in Seq(S) /\ IsInjective(p \o q) /\ Range(p \o q) = Range(p) \cup Range(q)
<1> DEFINE r == p \o q
<1>1. /\ r \in Seq(S) /\ Len(r) = Len(p) + Len(q)
      /\ \A i \in 1 .. Len(p) + Len(q) : r[i] = IF i <= Len(p) THEN p[i] ELSE q[i - Len(p)]
  BY ConcatProperties
<1>2. Range(r) = Range(p) \cup Range(q)
  BY RangeConcatenation
<1>3. Len(p) \in Nat /\ DOMAIN p = 1 .. Len(p) /\ Len(q) \in Nat /\ DOMAIN q = 1 .. Len(q)
  BY LenProperties
<1> HIDE DEF r
<1>4. DOMAIN r = 1 .. Len(p) + Len(q)
  BY <1>1, LenProperties
<1>5. ASSUME NEW i \in DOMAIN r, NEW j \in DOMAIN r, r[i] = r[j] PROVE i = j
  <2>1. CASE i <= Len(p) /\ j <= Len(p)
    BY <1>1, <1>3, <1>4, <1>5, <2>1 DEF IsInjective
  <2>2. CASE ~(i <= Len(p)) /\ ~(j <= Len(p))
    <3>1. i - Len(p) \in DOMAIN q /\ j - Len(p) \in DOMAIN q
      BY <1>3, <1>4, <2>2
    <3>2. q[i - Len(p)] = q[j - Len(p)]
      BY <1>1, <1>4, <1>5, <2>2
    <3>3. i - Len(p) = j - Len(p)
      BY <3>1, <3>2 DEF IsInjective
    <3> QED
      BY <1>3, <1>4, <3>3
  <2>3. ASSUME NEW k \in DOMAIN r, NEW l \in DOMAIN r, k <= Len(p), ~(l <= Len(p))
        PROVE  r[k] # r[l]
    <3>1. k \in DOMAIN p /\ r[k] = p[k] /\ l - Len(p) \in DOMAIN q /\ r[l] = q[l - Len(p)]
      BY <1>1, <1>3, <1>4, <2>3
    <3> QED
      BY <3>1 DEF Range
  <2> QED
    BY <1>5, <2>1, <2>2, <2>3
<1>6. IsInjective(r)
  BY <1>5 DEF IsInjective
<1> QED
  BY <1>1, <1>2, <1>6 DEF r

\* A queue of at most one event.
LEMMA OneFacts ==
    ASSUME NEW S, NEW e \in S, NEW T
    PROVE  /\ One(e, T) \in Seq(S) /\ IsInjective(One(e, T))
           /\ Range(One(e, T)) = {e} \cap T
<1>1. CASE e \in T
  <2>1. One(e, T) = <<e>> /\ <<e>> \in Seq(S)
    BY <1>1 DEF One
  <2>2. DOMAIN <<e>> = {1} /\ <<e>>[1] = e
    OBVIOUS
  <2> QED
    BY <1>1, <2>1, <2>2 DEF IsInjective, Range
<1>2. CASE e \notin T
  BY <1>2, EmptySeq DEF One, IsInjective, Range
<1> QED
  BY <1>1, <1>2

\* The order in which the kernel reports a finite set of events.
LEMMA OrdersFacts ==
    ASSUME NEW S, NEW T, T \subseteq S, IsFiniteSet(T), NEW q \in Orders(T)
    PROVE  q \in Seq(S) /\ IsInjective(q) /\ Range(q) \subseteq T
<1>1. Cardinality(T) \in Nat
  BY FS_CardinalityType
<1>2. q \in [1 .. Cardinality(T) -> T] /\ \A i, j \in DOMAIN q : i # j => q[i] # q[j]
  BY DEF Orders
<1>3. q \in Seq(S)
  BY <1>1, <1>2, SeqDef
<1> QED
  BY <1>2, <1>3 DEF IsInjective, Range

\* The sets of events are finite.
LEMMA FiniteEvents == IsFiniteSet(NetFiles) /\ IsFiniteSet(NetTimers)
<1>1. ASSUME NEW T, IsFiniteSet(T), NEW x PROVE IsFiniteSet(T \cup {x})
  BY <1>1, FS_AddElement
<1>2. IsFiniteSet({"E_TIME_SET"}) /\ IsFiniteSet({"E_TLSDATE"})
  BY FS_Singleton
<1>3. /\ IsFiniteSet({"E_TIME_SET"} \cup {"E_TLSDATE_STATUS"})
      /\ IsFiniteSet({"E_TLSDATE"} \cup {"E_STEADYSTATE"})
  BY <1>1, <1>2
<1>4. /\ IsFiniteSet({"E_TIME_SET", "E_TLSDATE_STATUS"} \cup {"E_ROUTEUP"})
      /\ IsFiniteSet({"E_TLSDATE", "E_STEADYSTATE"} \cup {"E_CONTINUITY"})
  <2>1. /\ {"E_TIME_SET"} \cup {"E_TLSDATE_STATUS"} = {"E_TIME_SET", "E_TLSDATE_STATUS"}
        /\ {"E_TLSDATE"} \cup {"E_STEADYSTATE"} = {"E_TLSDATE", "E_STEADYSTATE"}
    OBVIOUS
  <2> QED
    BY <1>1, <1>3, <2>1
<1>5. IsFiniteSet({"E_TIME_SET", "E_TLSDATE_STATUS", "E_ROUTEUP"} \cup {"E_DBUS"})
  <2>1. {"E_TIME_SET", "E_TLSDATE_STATUS"} \cup {"E_ROUTEUP"}
            = {"E_TIME_SET", "E_TLSDATE_STATUS", "E_ROUTEUP"}
    OBVIOUS
  <2> QED
    BY <1>1, <1>4, <2>1
<1>6. /\ NetFiles = {"E_TIME_SET", "E_TLSDATE_STATUS", "E_ROUTEUP"} \cup {"E_DBUS"}
      /\ NetTimers = {"E_TLSDATE", "E_STEADYSTATE"} \cup {"E_CONTINUITY"}
  BY DEF NetFiles, NetTimers
<1> QED
  BY <1>4, <1>5, <1>6

\* A poll queues what is ready and what is due, each event once, and leaves in
\* the queue what was there.
LEMMA PollFacts ==
    ASSUME QueuesOK, NEW due \in SUBSET MayBeDue, Poll(due)
    PROVE  /\ QueuesOK'
           /\ Range(save_queue') \subseteq PRI_SAVE \cap (Ready \cup due)
           /\ Range(net_queue) \subseteq Range(net_queue')
           /\ Range(net_queue') \subseteq Range(net_queue) \cup Ready \cup due
           /\ sigchld => "E_SIGCHLD" \in Range(net_queue')
           /\ "E_SAVE" \in Ready => save_queue' # <<>> /\ Head(save_queue') = "E_SAVE"
<1> DEFINE new == (Ready \cup due) \ Range(net_queue)
           a == One("E_SAVE", new)
           b == One("E_SAVE_HUP", new)
           c == One("E_TLSDATE_TIMEOUT", new)
           d == One("E_SIGTERM", new)
           z == One("E_SIGCHLD", new)
<1>1. /\ net_queue \in Seq(NetEvents) /\ IsInjective(net_queue)
      /\ Range(net_queue) \subseteq NetEvents
  BY RangeFacts DEF QueuesOK
<1>2. PICK files \in Orders(new \cap NetFiles), timers \in Orders(new \cap NetTimers) :
            net_queue' = net_queue \o files \o timers \o z
  BY DEF Poll
<1>3. save_queue' = a \o b \o c \o d
  BY DEF Poll
<1>4. /\ a \in Seq(PRI_SAVE) /\ IsInjective(a) /\ Range(a) = {"E_SAVE"} \cap new
      /\ b \in Seq(PRI_SAVE) /\ IsInjective(b) /\ Range(b) = {"E_SAVE_HUP"} \cap new
      /\ c \in Seq(PRI_SAVE) /\ IsInjective(c) /\ Range(c) = {"E_TLSDATE_TIMEOUT"} \cap new
      /\ d \in Seq(PRI_SAVE) /\ IsInjective(d) /\ Range(d) = {"E_SIGTERM"} \cap new
  BY OneFacts DEF PRI_SAVE
<1>5. z \in Seq(NetEvents) /\ IsInjective(z) /\ Range(z) = {"E_SIGCHLD"} \cap new
  BY OneFacts DEF NetEvents
<1>6. /\ files \in Seq(NetEvents) /\ IsInjective(files) /\ Range(files) \subseteq new \cap NetFiles
      /\ timers \in Seq(NetEvents) /\ IsInjective(timers)
      /\ Range(timers) \subseteq new \cap NetTimers
  <2>1. IsFiniteSet(new \cap NetFiles) /\ IsFiniteSet(new \cap NetTimers)
    BY FiniteEvents, FS_Intersection
  <2>2. new \cap NetFiles \subseteq NetEvents /\ new \cap NetTimers \subseteq NetEvents
    BY DEF NetEvents
  <2> HIDE DEF new
  <2> QED
    BY <2>1, <2>2, OrdersFacts
<1>7. /\ "E_SIGCHLD" \notin NetFiles /\ "E_SIGCHLD" \notin NetTimers
      /\ NetFiles \cap NetTimers = {}
  BY DEF NetFiles, NetTimers
<1>8. "E_SAVE" \notin Range(net_queue) /\ (sigchld => "E_SIGCHLD" \in Range(net_queue) \cup new)
      /\ new \subseteq Ready \cup due /\ new \cap Range(net_queue) = {}
  BY <1>1 DEF Ready, NetEvents, NetFiles, NetTimers
<1>9. "E_SAVE" \in Ready => a = <<"E_SAVE">>
  BY <1>8 DEF One
<1> HIDE DEF new, a, b, c, d, z
<1> DEFINE ab == a \o b
           abc == ab \o c
           nf == net_queue \o files
           nft == nf \o timers
<1>10. ab \in Seq(PRI_SAVE) /\ IsInjective(ab) /\ Range(ab) = Range(a) \cup Range(b)
  BY <1>4, ConcatFacts
<1>11. nf \in Seq(NetEvents) /\ IsInjective(nf) /\ Range(nf) = Range(net_queue) \cup Range(files)
  <2>1. Range(net_queue) \cap Range(files) = {}
    BY <1>6, <1>8
  <2> QED
    BY <1>1, <1>6, <2>1, ConcatFacts
<1>12. "E_SAVE" \in Ready => Len(ab) > 0 /\ ab[1] = "E_SAVE"
  <2> SUFFICES ASSUME "E_SAVE" \in Ready PROVE Len(ab) > 0 /\ ab[1] = "E_SAVE"
    OBVIOUS
  <2>1. Len(a) = 1 /\ a[1] = "E_SAVE"
    BY <1>9
  <2>2. Len(b) \in Nat
    BY <1>4, LenProperties
  <2>3. Len(ab) = Len(a) + Len(b)
    BY <1>4, ConcatProperties
  <2>4. 1 \in 1 .. Len(a) + Len(b) /\ 1 <= Len(a)
    BY <2>1, <2>2
  <2>5. ab[1] = IF 1 <= Len(a) THEN a[1] ELSE b[1 - Len(a)]
    BY <1>4, <2>4, ConcatProperties
  <2> QED
    BY <2>1, <2>2, <2>3, <2>4, <2>5
<1> HIDE DEF ab, nf
<1>13. abc \in Seq(PRI_SAVE) /\ IsInjective(abc) /\ Range(abc) = Range(ab) \cup Range(c)
  <2>1. Range(ab) \cap Range(c) = {}
    BY <1>4, <1>10
  <2> QED
    BY <1>4, <1>10, <2>1, ConcatFacts
<1>14. /\ nft \in Seq(NetEvents) /\ IsInjective(nft)
       /\ Range(nft) = Range(nf) \cup Range(timers)
  <2>1. Range(nf) \cap Range(timers) = {}
    BY <1>6, <1>7, <1>8, <1>11
  <2> QED
    BY <1>6, <1>11, <2>1, ConcatFacts
<1>15. "E_SAVE" \in Ready => Len(abc) > 0 /\ abc[1] = "E_SAVE"
  BY <1>4, <1>10, <1>12, ConcatProperties, LenProperties
<1>16. save_queue' = abc \o d /\ net_queue' = nft \o z
  BY <1>2, <1>3 DEF ab, nf
<1> HIDE DEF abc, nft
<1>17. /\ save_queue' \in Seq(PRI_SAVE) /\ IsInjective(save_queue')
       /\ Range(save_queue') = Range(abc) \cup Range(d)
  <2>1. Range(abc) \cap Range(d) = {}
    BY <1>4, <1>10, <1>13
  <2> QED
    BY <1>4, <1>13, <1>16, <2>1, ConcatFacts
<1>18. /\ net_queue' \in Seq(NetEvents) /\ IsInjective(net_queue')
       /\ Range(net_queue') = Range(nft) \cup Range(z)
  <2>1. Range(nft) \cap Range(z) = {}
    BY <1>5, <1>6, <1>7, <1>8, <1>11, <1>14
  <2> QED
    BY <1>5, <1>14, <1>16, <2>1, ConcatFacts
<1>19. "E_SAVE" \in Ready => save_queue' # <<>> /\ Head(save_queue') = "E_SAVE"
  <2>1. "E_SAVE" \in Ready => Len(save_queue') > 0 /\ save_queue'[1] = "E_SAVE"
    BY <1>4, <1>13, <1>15, <1>16, ConcatProperties, LenProperties
  <2> QED
    BY <1>17, <2>1, EmptySeq
<1> QED
  BY <1>4, <1>5, <1>6, <1>8, <1>10, <1>11, <1>13, <1>14, <1>17, <1>18, <1>19 DEF QueuesOK, PRI_SAVE

-----------------------------------------------------------------------------
(* Types.                                                                  *)

\* The parts of TypeOK: the setter's, the loop's, and the rest.
LoopTypes ==
    /\ armed \subseteq Events
    /\ save_queue \in Seq(Events) /\ net_queue \in Seq(Events)
    /\ loop \in {"poll", "run"}

StateTypes ==
    /\ last_sync_type \in SYNC_TYPES /\ last_time \in Time /\ clock_delta \in Int
    /\ tries \in 0 .. max_tries /\ backoff \in Nat
    /\ running \in BOOLEAN /\ tlsdate_pid \in BOOLEAN
    /\ exitting \in BOOLEAN /\ term_sync \in SYNC_TYPES /\ term_time \in Time
    /\ cur_source \in 0 .. NumSources
    /\ sigchld \in BOOLEAN /\ sigterm \in BOOLEAN /\ notify_fd \in BOOLEAN
    /\ child \in ChildState /\ child_source \in 0 .. NumSources
    /\ monitor_pipe \in Seq(Int)
    /\ stopped \subseteq {"tlsdate", "setter"}

\* They are its parts.
LEMMA TypeParts == TypeOK <=> SetterTypeOK /\ LoopTypes /\ StateTypes
BY DEF TypeOK, LoopTypes, StateTypes

\* Times are made of and taken apart into their two fields.
LEMMA TimeFacts ==
    /\ NoTime \in Time
    /\ \A t \in Int : FromNet(t) \in Time /\ Local(t) \in Time
    /\ \A m \in Time : m.sec \in Int /\ m.net \in BOOLEAN
    /\ \A m \in Time : Negated(m) \in Time
BY DEF Time, NoTime, FromNet, Local, Negated

\* Taking the first of the words in a pipe.
LEMMA HeadFacts ==
    ASSUME NEW S, NEW q \in Seq(S), q # <<>>
    PROVE  /\ Head(q) \in S /\ Tail(q) \in Seq(S)
           /\ Len(q) \in Nat \ {0} /\ Len(Tail(q)) = Len(q) - 1
BY HeadTailProperties, EmptySeq

\* Adding a word to a pipe.
LEMMA AppendFacts ==
    ASSUME NEW S, NEW q \in Seq(S), NEW w \in S
    PROVE  Append(q, w) \in Seq(S) /\ Len(Append(q, w)) = Len(q) + 1 /\ Append(q, w) # <<>>
BY AppendProperties

\* Every step of the setter keeps its types, and none fills the daemon's pipe.
LEMMA SetterTypes ==
    ASSUME SetterTypeOK, SetterStep \/ SetterKilled, UNCHANGED daemon
    PROVE  SetterTypeOK' /\ Len(time_pipe') <= Len(time_pipe)
<1> USE SetterAssumption, TimeFacts DEF SetterTypeOK, SetterPC, SETTER_STATUS
<1>0. Len(time_pipe) \in Nat /\ Len(notify_pipe) \in Nat
  BY LenProperties
<1>1. CASE Start
  BY <1>0, <1>1 DEF Start, Die, pipes
<1>2. CASE ReadTime
  <2>1. /\ Head(time_pipe) \in Time /\ Tail(time_pipe) \in Seq(Time)
        /\ Len(Tail(time_pipe)) = Len(time_pipe) - 1
    BY <1>2, HeadFacts DEF ReadTime
  <2>2. /\ time_pipe' = Tail(time_pipe) /\ tv' \in Time /\ save' \in BOOLEAN
        /\ setter' \in SetterPC /\ status' \in SETTER_STATUS \cup {"UNINIT"}
        /\ UNCHANGED <<notify_pipe, stores>>
    BY <1>2, <2>1 DEF ReadTime, Unread, SavesToDisk, Die, FirstStep
  <2> QED
    BY <1>0, <2>1, <2>2 DEF stores
<1>3. CASE ReadEnd
  BY <1>0, <1>3 DEF ReadEnd, Die, pipes, stores
<1>4. CASE SetTimeOfDay
  BY <1>0, <1>4 DEF SetTimeOfDay, Die, AfterClock, pipes
<1>5. CASE RtcWrite
  BY <1>0, <1>5 DEF RtcWrite, Die, pipes
<1>6. CASE SaveTimestamp
  BY <1>0, <1>6 DEF SaveTimestamp, Die, pipes
<1>7. CASE Notify
  <2>1. /\ UNCHANGED <<status, time_pipe, stores>> /\ tv' = NoTime /\ save' = TRUE
        /\ setter' \in {"read", "dead"}
    BY <1>7 DEF Notify
  <2>2. notify_pipe' \in Seq(SETTER_STATUS \cup {BOGUS}) /\ Len(notify_pipe') <= NotifyRoom
    <3>1. CASE UNCHANGED notify_pipe
      BY <3>1
    <3>2. ASSUME NEW w \in Written, Len(notify_pipe) < NotifyRoom, notify_pipe' = Append(notify_pipe, w)
          PROVE  notify_pipe' \in Seq(SETTER_STATUS \cup {BOGUS}) /\ Len(notify_pipe') <= NotifyRoom
      <4>1. w \in SETTER_STATUS \cup {BOGUS}
        BY <3>2 DEF Written
      <4> QED
        BY <1>0, <3>2, <4>1, AppendFacts
    <3> QED
      BY <1>7, <3>1, <3>2 DEF Notify
  <2> QED
    BY <1>0, <2>1, <2>2 DEF stores
<1>8. CASE SetterKilled
  BY <1>0, <1>8 DEF SetterKilled, local, pipes, stores
<1> QED
  BY <1>1, <1>2, <1>3, <1>4, <1>5, <1>6, <1>7, <1>8 DEF SetterStep

\* A callback keeps the loop's part of the invariant, and what a poll has found
\* for the events that remain.
LEMMA RanLoop ==
    ASSUME LoopInv, NEW e, NEW more \in BOOLEAN, NEW added \in SUBSET Events, NEW deleted,
           Callback(e), Ran(e, more, added, deleted)
    PROVE  /\ LoopTypes' /\ QueuesOK'
           /\ "E_SAVE" \in Range(save_queue') => Writable /\ ~(e = "E_SAVE" /\ ~more)
           /\ "E_TLSDATE_STATUS" \in Range(net_queue') =>
                monitor_pipe # <<>> /\ ~(e = "E_TLSDATE_STATUS" /\ ~more)
<1>1. /\ QueuesOK' /\ loop' \in {"poll", "run"}
      /\ Range(save_queue') \subseteq Range(save_queue)
      /\ Range(net_queue') \subseteq Range(net_queue)
      /\ ~more => e \notin Range(save_queue') /\ e \notin Range(net_queue')
  BY RanFacts DEF LoopInv
<1>2. armed' \subseteq Events
  BY DEF Ran, LoopInv, TypeOK
<1>3. PRI_SAVE \subseteq Events /\ NetEvents \subseteq Events
  BY DEF PRI_SAVE, NetEvents, NetFiles, NetTimers, Events, OneShot, Timers, WakeEvents
<1>4. save_queue' \in Seq(Events) /\ net_queue' \in Seq(Events)
  BY <1>1, <1>3, SeqMonotonic DEF QueuesOK
<1> QED
  BY <1>1, <1>2, <1>4 DEF LoopTypes, LoopInv, StillReady

\* The parts put together, for a callback that leaves both pipes alone.
LEMMA CallbackLoop ==
    ASSUME LoopInv, NEW e, NEW more \in BOOLEAN, NEW added \in SUBSET Events, NEW deleted,
           Callback(e), Ran(e, more, added, deleted),
           SetterTypeOK', StateTypes', UNCHANGED <<time_pipe, monitor_pipe>>
    PROVE  LoopInv'
<1>1. LoopTypes' /\ QueuesOK'
  BY RanLoop
<1>2. StillReady'
  BY RanLoop DEF StillReady, Writable
<1> QED
  BY <1>1, <1>2, TypeParts DEF LoopInv, TypeOK, LoopTypes, StateTypes

\* The daemon ends.
LEMMA ExitLoop == ASSUME LoopInv, Exit, SetterTypeOK' PROVE LoopInv'
<1>1. StateTypes'
  <2>1. /\ clock_delta' \in Int /\ tries' \in 0 .. max_tries /\ backoff' \in Nat
        /\ cur_source' \in 0 .. NumSources /\ child_source' \in 0 .. NumSources
    BY DaemonAssumption DEF Exit, Blank
  <2>2. /\ running' \in BOOLEAN /\ tlsdate_pid' \in BOOLEAN /\ exitting' \in BOOLEAN
        /\ sigchld' \in BOOLEAN /\ sigterm' \in BOOLEAN /\ notify_fd' \in BOOLEAN
    BY DEF Exit, Blank
  <2>3. /\ last_sync_type' \in SYNC_TYPES /\ last_time' \in Time
        /\ term_sync' \in SYNC_TYPES /\ term_time' \in Time
    BY TimeFacts DEF Exit, LoopInv, TypeOK, SYNC_TYPES
  <2>4. /\ child' \in ChildState /\ monitor_pipe' \in Seq(Int)
        /\ stopped' \subseteq {"tlsdate", "setter"}
    BY EmptySeq DEF Exit, Blank, LoopInv, TypeOK, ChildState
  <2> QED
    BY <2>1, <2>2, <2>3, <2>4 DEF StateTypes
<1>2. LoopTypes' /\ QueuesOK' /\ StillReady'
  BY EmptySeq DEF Exit, Blank, LoopTypes, QueuesOK, StillReady, IsInjective, Range
<1> QED
  BY <1>1, <1>2 DEF LoopInv, TypeOK, LoopTypes, StateTypes

\* It leaves its end of the status pipe behind, empty.
LEMMA ExitSetter ==
    ASSUME SetterTypeOK, Exit, UNCHANGED <<setter, local, time_pipe, stores>>
    PROVE  SetterTypeOK'
<1>1. notify_pipe' \in Seq(SETTER_STATUS \cup {BOGUS}) /\ Len(notify_pipe') = 0
  BY EmptySeq DEF Exit, Blank
<1>2. daemon' = "down" /\ UNCHANGED <<setter, status, tv, save, time_pipe, clock, rtc, disk>>
  BY DEF Exit, local, stores
<1> QED
  BY <1>1, <1>2, SetterAssumption DEF SetterTypeOK

\* The setter's types concern the setter's variables only.
LEMMA SetterUnchanged == SetterTypeOK /\ UNCHANGED <<daemon, setterVars>> => SetterTypeOK'
BY DEF SetterTypeOK, setterVars, local, pipes, stores

\* action_kickoff_time_sync keeps the types of what it is given.
LEMMA KickoffTypes ==
    ASSUME LoopInv, NEW e, NEW more, NEW type \in SYNC_TYPES, NEW time \in Time,
           NEW delta \in Int, NEW added, Kickoff(e, more, type, time, delta, added), KickoffFrame
    PROVE  StateTypes' /\ SetterTypeOK' /\ UNCHANGED <<time_pipe, monitor_pipe>>
<1>1. SetterTypeOK' /\ UNCHANGED <<time_pipe, monitor_pipe>>
  BY SetterUnchanged DEF KickoffFrame, LoopInv, TypeOK, setterVars, pipes, childVars
<1>2. /\ last_sync_type' \in SYNC_TYPES /\ last_time' \in Time /\ clock_delta' \in Int
      /\ tries' \in 0 .. max_tries
  BY DaemonAssumption
     DEF Kickoff, KeptDelta, WakeTries, LoopInv, TypeOK, SetterTypeOK, SYNC_TYPES
<1> QED
  BY <1>1, <1>2 DEF KickoffFrame, LoopInv, TypeOK, StateTypes, exitVars, signalVars, childVars

\* The wakes, stdin and the steady-state timer.
LEMMA WakesLoop ==
    ASSUME LoopInv,
           (\E e \in Wakes : action_kickoff_time_sync(e)) \/ StdinBroken \/ action_invalidate_time
    PROVE  LoopInv'
<1> USE DEF Events, OneShot, Timers
<1>0. /\ last_sync_type \in SYNC_TYPES /\ last_time \in Time /\ clock_delta \in Int /\ clock \in Time
      /\ "RTC" \in SYNC_TYPES
  BY DEF LoopInv, TypeOK, SetterTypeOK, SYNC_TYPES
<1>1. ASSUME NEW e, action_kickoff_time_sync(e) PROVE LoopInv'
  <2>1. /\ Callback(e) /\ KickoffFrame
        /\ Kickoff(e, FALSE, last_sync_type, last_time, clock_delta, {})
    BY <1>1 DEF action_kickoff_time_sync
  <2>2. StateTypes' /\ SetterTypeOK' /\ UNCHANGED <<time_pipe, monitor_pipe>>
    BY <1>0, <2>1, KickoffTypes
  <2>3. \E added \in SUBSET Events : Ran(e, FALSE, added, {})
    BY <2>1 DEF Kickoff
  <2> QED
    BY <2>1, <2>2, <2>3, CallbackLoop
<1>2. ASSUME NEW e, NEW added \in SUBSET Events, NEW deleted, Callback(e),
             Return(e, added, deleted), UNCHANGED <<tries, timeVars>>, KickoffFrame
      PROVE  LoopInv'
  <2>1. SetterTypeOK' /\ UNCHANGED <<time_pipe, monitor_pipe>>
    BY <1>2, SetterUnchanged DEF KickoffFrame, LoopInv, TypeOK, setterVars, pipes, childVars
  <2>2. StateTypes'
    BY <1>2 DEF KickoffFrame, LoopInv, TypeOK, StateTypes, timeVars, exitVars, signalVars, childVars
  <2> QED
    BY <1>2, <2>1, <2>2, CallbackLoop DEF Return
<1>3. CASE StdinBroken
  BY <1>2, <1>3 DEF StdinBroken
<1>4. CASE action_invalidate_time
  <2>1. Callback("E_STEADYSTATE") /\ KickoffFrame
    BY <1>4 DEF action_invalidate_time
  <2>2. CASE Return("E_STEADYSTATE", {}, {}) /\ UNCHANGED <<tries, timeVars>>
    BY <1>2, <2>1, <2>2
  <2>3. CASE Kickoff("E_STEADYSTATE", FALSE, "RTC", clock, clock_delta, {})
    <3>1. StateTypes' /\ SetterTypeOK' /\ UNCHANGED <<time_pipe, monitor_pipe>>
      BY <1>0, <2>1, <2>3, KickoffTypes
    <3>2. \E added \in SUBSET Events : Ran("E_STEADYSTATE", FALSE, added, {})
      BY <2>3 DEF Kickoff
    <3> QED
      BY <2>1, <3>1, <3>2, CallbackLoop
  <2> QED
    BY <1>4, <2>2, <2>3 DEF action_invalidate_time
<1> QED
  BY <1>1, <1>3, <1>4

\* SIGTERM: the pipe is left alone until E_SAVE runs.
LEMMA SigtermLoop == ASSUME LoopInv, action_sigterm PROVE LoopInv'
<1>1. SetterTypeOK' /\ UNCHANGED <<time_pipe, monitor_pipe>>
  BY SetterUnchanged DEF action_sigterm, LoopInv, TypeOK, setterVars, pipes, childVars
<1>2. StateTypes'
  <2>1. /\ last_time' \in Time /\ term_sync' \in SYNC_TYPES /\ term_time' \in Time
        /\ exitting' = TRUE
    BY DEF action_sigterm, NoteTerm, LoopInv, TypeOK, SetterTypeOK
  <2> QED
    BY <2>1 DEF action_sigterm, LoopInv, TypeOK, StateTypes, tryVars, signalVars, childVars
<1>3. Callback("E_SIGTERM") /\ Ran("E_SIGTERM", FALSE, {"E_SAVE"}, {}) /\ {"E_SAVE"} \in SUBSET Events
  BY DEF action_sigterm, Return, Events, OneShot
<1> QED
  BY <1>1, <1>2, <1>3, CallbackLoop

\* E_SAVE: the poll has found room for two words, and nobody else writes.
LEMMA SaveLoop == ASSUME LoopInv, action_sync_and_save PROVE LoopInv'
<1>1. Callback("E_SAVE") /\ Ran("E_SAVE", FALSE, {}, {})
  BY DEF action_sync_and_save, Return
<1>2. LoopTypes' /\ QueuesOK' /\ "E_SAVE" \notin Range(save_queue')
      /\ ("E_TLSDATE_STATUS" \in Range(net_queue') => monitor_pipe # <<>>)
  BY <1>1, RanLoop
<1>3. Writable
  <2>1. save_queue # <<>> /\ Head(save_queue) = "E_SAVE" /\ save_queue \in Seq(PRI_SAVE)
    BY <1>1 DEF Callback, PRI_SAVE, LoopInv, QueuesOK
  <2>2. Len(save_queue) \in Nat \ {0} /\ save_queue[1] = "E_SAVE"
    BY <2>1, EmptySeq
  <2>3. "E_SAVE" \in Range(save_queue)
    BY <2>1, <2>2, RangeFacts
  <2> QED
    BY <2>3 DEF LoopInv, StillReady
<1>4. /\ last_time \in Time /\ SaveWord \in Time /\ NoTime \in Time
      /\ time_pipe \in Seq(Time) /\ Len(time_pipe) \in Nat
  BY TimeFacts, LenProperties DEF LoopInv, TypeOK, SetterTypeOK, SaveWord
<1>5. time_pipe' \in Seq(Time) /\ Len(time_pipe') <= PipeRoom /\ last_time' \in Time
  <2>1. CASE UNCHANGED <<time_pipe, last_time>>
    BY <2>1 DEF LoopInv, TypeOK, SetterTypeOK
  <2>2. CASE time_pipe' = Append(time_pipe, SaveWord) /\ UNCHANGED last_time
    BY <1>3, <1>4, <2>2, AppendFacts, SetterAssumption DEF Writable
  <2>3. CASE time_pipe' = time_pipe \o ShutdownWords /\ last_time' = NoTime
    <3>1. ShutdownWords \in Seq(Time) /\ Len(ShutdownWords) = 2
      BY <1>4 DEF ShutdownWords
    <3>2. /\ time_pipe \o ShutdownWords \in Seq(Time)
          /\ Len(time_pipe \o ShutdownWords) = Len(time_pipe) + Len(ShutdownWords)
      BY <1>4, <3>1, ConcatProperties
    <3>3. time_pipe' \in Seq(Time) /\ Len(time_pipe') = Len(time_pipe) + 2
      BY <2>3, <3>1, <3>2
    <3> QED
      BY <1>3, <1>4, <2>3, <3>3 DEF Writable
  <2> QED
    BY <2>1, <2>2, <2>3 DEF action_sync_and_save
<1>6. SetterTypeOK'
  BY <1>5 DEF action_sync_and_save, LoopInv, TypeOK, SetterTypeOK, local, stores
<1>7. StateTypes'
  BY <1>5 DEF action_sync_and_save, LoopInv, TypeOK, StateTypes, tryVars, exitVars, signalVars,
              childVars
<1>8. StillReady'
  BY <1>2 DEF action_sync_and_save, StillReady, childVars
<1> QED
  BY <1>2, <1>6, <1>7, <1>8, TypeParts DEF LoopInv, TypeOK, LoopTypes, StateTypes

\* The setter has hung up, or the write has failed.
LEMMA HangupLoop == ASSUME LoopInv, SaveHangup \/ SaveSigpipe \/ SetterLost PROVE LoopInv'
<1>1. CASE SaveHangup
  <2>1. SetterTypeOK' /\ UNCHANGED <<time_pipe, monitor_pipe>>
    BY <1>1, SetterUnchanged DEF SaveHangup, LoopInv, TypeOK, setterVars, pipes, childVars
  <2>2. StateTypes'
    BY <1>1 DEF SaveHangup, LoopInv, TypeOK, StateTypes, timeVars, tryVars, exitVars, signalVars,
                childVars
  <2> QED
    BY <1>1, <2>1, <2>2, CallbackLoop DEF SaveHangup, Return
<1>2. CASE SaveSigpipe \/ SetterLost
  <2>1. SetterTypeOK'
    BY <1>2, ExitSetter DEF SaveSigpipe, SetterLost, LoopInv, TypeOK
  <2> QED
    BY <1>2, <2>1, ExitLoop DEF SaveSigpipe, SetterLost
<1> QED
  BY <1>1, <1>2

\* A status word from the setter.
LEMMA TimeSetLoop == ASSUME LoopInv, action_time_set PROVE LoopInv'
<1> USE DEF LoopInv, TypeOK
<1>1. CASE Exit
  <2>1. SetterTypeOK'
    BY <1>1, ExitSetter DEF action_time_set
  <2> QED
    BY <1>1, <2>1, ExitLoop
<1>2. CASE ~Exit
  <2>1. /\ Callback("E_TIME_SET") /\ Ran("E_TIME_SET", FALSE, {}, {})
        /\ UNCHANGED <<daemon, setter, local, time_pipe, stores, tryVars, exitVars, signalVars, childVars>>
        /\ notify_pipe' = notify_pipe \/ (notify_pipe # <<>> /\ notify_pipe' = Tail(notify_pipe))
    BY <1>2 DEF action_time_set, Return
  <2>2. SetterTypeOK'
    <3>1. notify_pipe' \in Seq(SETTER_STATUS \cup {BOGUS}) /\ Len(notify_pipe') <= NotifyRoom
      <4>1. CASE notify_pipe' = notify_pipe
        BY <4>1 DEF SetterTypeOK
      <4>2. CASE notify_pipe # <<>> /\ notify_pipe' = Tail(notify_pipe)
        <5>1. notify_pipe \in Seq(SETTER_STATUS \cup {BOGUS}) /\ Len(notify_pipe) <= NotifyRoom
          BY DEF SetterTypeOK
        <5>2. /\ Tail(notify_pipe) \in Seq(SETTER_STATUS \cup {BOGUS})
              /\ Len(notify_pipe) \in Nat /\ Len(Tail(notify_pipe)) = Len(notify_pipe) - 1
          BY <4>2, <5>1, HeadFacts
        <5> QED
          BY <4>2, <5>1, <5>2, SetterAssumption
      <4> QED
        BY <2>1, <4>1, <4>2
    <3> QED
      BY <2>1, <3>1 DEF SetterTypeOK, local, stores
  <2>3. /\ last_sync_type' \in SYNC_TYPES /\ last_time' \in Time /\ clock_delta' \in Int
        /\ cur_source' \in 0 .. NumSources /\ notify_fd' \in BOOLEAN
    <3>1. ASSUME NEW w, handle_time_setter(w)
          PROVE  /\ last_sync_type' \in {last_sync_type, "RTC"} /\ last_time' \in {last_time, clock}
                 /\ clock_delta' \in {clock_delta, clock.sec} /\ cur_source' \in {cur_source, 0}
      BY <3>1 DEF handle_time_setter, timeVars
    <3>2. /\ last_sync_type' \in {last_sync_type, "RTC"} /\ last_time' \in {last_time, clock}
          /\ clock_delta' \in {clock_delta, clock.sec} /\ cur_source' \in {cur_source, 0}
      BY <1>2, <3>1 DEF action_time_set, timeVars
    <3>3. notify_fd' \in BOOLEAN
      BY <1>2 DEF action_time_set
    <3> QED
      BY <3>2, <3>3, DaemonAssumption, TimeFacts DEF SetterTypeOK, SYNC_TYPES
  <2>4. StateTypes'
    BY <2>1, <2>3 DEF StateTypes, tryVars, exitVars, signalVars, childVars
  <2> QED
    BY <2>1, <2>2, <2>4, CallbackLoop DEF childVars
<1> QED
  BY <1>1, <1>2

\* action_run_tlsdate: at most max_tries runs in a row.
LEMMA RunTlsdateLoop == ASSUME LoopInv, action_run_tlsdate PROVE LoopInv'
<1> USE DaemonAssumption DEF LoopInv, TypeOK
<1>1. /\ Callback("E_TLSDATE")
      /\ UNCHANGED <<daemon, setterVars, timeVars, exitVars, cur_source, signalVars, notify_fd,
                     monitor_pipe, stopped>>
  BY DEF action_run_tlsdate, Launched, LaunchFailed, childVars
<1>2. SetterTypeOK' /\ UNCHANGED time_pipe
  BY <1>1, SetterUnchanged DEF setterVars, pipes
<1>3. tries' \in 0 .. max_tries /\ backoff' \in Nat
  BY DEF action_run_tlsdate, TriesLeft, Launched, LaunchFailed, tryVars
<1>4. /\ running' \in BOOLEAN /\ tlsdate_pid' \in BOOLEAN
      /\ child' \in ChildState /\ child_source' \in 0 .. NumSources
  <2>1. \/ UNCHANGED childVars /\ UNCHANGED <<running, tlsdate_pid>>
        \/ /\ running' = TRUE /\ tlsdate_pid' = TRUE
           /\ child' = "alive" /\ child_source' = NextSource(cur_source)
    BY DEF action_run_tlsdate, Launched, LaunchFailed, tryVars
  <2>2. NextSource(cur_source) \in 0 .. NumSources
    BY DEF NextSource
  <2> QED
    BY <2>1, <2>2 DEF ChildState, childVars
<1>5. StateTypes'
  BY <1>1, <1>3, <1>4 DEF StateTypes, timeVars, exitVars, signalVars
<1>6. \E added \in SUBSET Events, deleted \in SUBSET Events : Ran("E_TLSDATE", FALSE, added, deleted)
  <2>1. \/ Return("E_TLSDATE", {}, {})
        \/ Return("E_TLSDATE", {"E_TLSDATE_TIMEOUT", "E_TLSDATE_STATUS"}, {})
        \/ Return("E_TLSDATE", {"E_TLSDATE_STATUS"}, {"E_TLSDATE_TIMEOUT"})
    BY DEF action_run_tlsdate, Launched, LaunchFailed
  <2> QED
    BY <2>1 DEF Return, Events, OneShot, Timers
<1> QED
  BY <1>1, <1>2, <1>5, <1>6, CallbackLoop

\* The timeout of the child.
LEMMA TimeoutLoop == ASSUME LoopInv, action_tlsdate_timeout PROVE LoopInv'
<1> USE DEF LoopInv, TypeOK
<1>1. SetterTypeOK' /\ UNCHANGED <<time_pipe, monitor_pipe>>
  BY SetterUnchanged DEF action_tlsdate_timeout, setterVars, pipes
<1>2. /\ child' \in ChildState /\ stopped' \subseteq {"tlsdate", "setter"} /\ sigchld' \in BOOLEAN
  BY DEF action_tlsdate_timeout, KillChild, ChildState
<1>3. StateTypes'
  BY <1>2 DEF action_tlsdate_timeout, StateTypes, timeVars, tryVars, exitVars
<1> QED
  BY <1>1, <1>3, CallbackLoop DEF action_tlsdate_timeout, Return

\* A word from the child: the poll has seen it, and nobody else reads.
LEMMA StatusLoop == ASSUME LoopInv, action_tlsdate_status PROVE LoopInv'
<1> USE DaemonAssumption DEF LoopInv, TypeOK
<1>1. Callback("E_TLSDATE_STATUS") /\ monitor_pipe' = Tail(monitor_pipe)
      /\ UNCHANGED <<daemon, setterVars, running, tlsdate_pid, exitVars, cur_source,
                     signalVars, notify_fd, child, child_source, stopped>>
  BY DEF action_tlsdate_status
<1>2. monitor_pipe # <<>>
  <2>1. net_queue # <<>> /\ Head(net_queue) = "E_TLSDATE_STATUS" /\ net_queue \in Seq(NetEvents)
    BY <1>1 DEF Callback, PRI_SAVE, QueuesOK
  <2>2. Len(net_queue) \in Nat \ {0} /\ net_queue[1] = "E_TLSDATE_STATUS"
    BY <2>1, EmptySeq
  <2>3. "E_TLSDATE_STATUS" \in Range(net_queue)
    BY <2>1, <2>2, RangeFacts
  <2> QED
    BY <2>3 DEF StillReady
<1>3. Head(monitor_pipe) \in Int /\ monitor_pipe' \in Seq(Int)
  BY <1>1, <1>2, HeadFacts
<1>4. SetterTypeOK' /\ UNCHANGED time_pipe
  BY <1>1, SetterUnchanged DEF setterVars, pipes
<1>5. /\ last_sync_type' \in SYNC_TYPES /\ last_time' \in Time /\ clock_delta' \in Int
      /\ tries' \in 0 .. max_tries /\ backoff' \in Nat
  BY <1>3, TimeFacts DEF action_tlsdate_status, timeVars, SYNC_TYPES
<1>6. StateTypes'
  BY <1>1, <1>3, <1>5 DEF StateTypes, exitVars, signalVars
<1>7. \E added \in SUBSET Events : Ran("E_TLSDATE_STATUS", FALSE, added, {})
  BY DEF action_tlsdate_status, Return, Events, OneShot, Timers
<1>8. LoopTypes' /\ QueuesOK' /\ "E_TLSDATE_STATUS" \notin Range(net_queue')
      /\ ("E_SAVE" \in Range(save_queue') => Writable)
  BY <1>1, <1>7, RanLoop
<1>9. StillReady'
  BY <1>4, <1>8 DEF StillReady, Writable
<1> QED
  BY <1>4, <1>6, <1>8, <1>9 DEF LoopTypes, StateTypes

\* The children are collected.
LEMMA SigchldLoop == ASSUME LoopInv, action_sigchld PROVE LoopInv'
<1> USE DaemonAssumption DEF LoopInv, TypeOK
<1>1. /\ Callback("E_SIGCHLD") /\ stopped' = {}
      /\ UNCHANGED <<daemon, setterVars, timeVars, tries, exitVars, cur_source, sigterm,
                     notify_fd, child_source, monitor_pipe>>
  BY DEF action_sigchld
<1>2. SetterTypeOK' /\ UNCHANGED time_pipe
  BY <1>1, SetterUnchanged DEF setterVars, pipes
<1>3. NextBackoff \in Nat
  BY DEF NextBackoff
<1>4. /\ child' \in ChildState /\ running' \in BOOLEAN /\ tlsdate_pid' \in BOOLEAN
      /\ sigchld' \in BOOLEAN /\ backoff' \in Nat
  BY <1>3 DEF action_sigchld, ReapTlsdate, ChildState
<1>5. StateTypes'
  BY <1>1, <1>4 DEF StateTypes, timeVars, exitVars
<1>6. \E added \in SUBSET Events, deleted \in SUBSET Events : Ran("E_SIGCHLD", FALSE, added, deleted)
  <2>1. \/ Return("E_SIGCHLD", {}, {})
        \/ Return("E_SIGCHLD", {}, {"E_TLSDATE_TIMEOUT"})
        \/ Return("E_SIGCHLD", {"E_TLSDATE"}, {"E_TLSDATE_TIMEOUT"})
    BY DEF action_sigchld, ReapTlsdate
  <2> QED
    BY <2>1 DEF Return, Events, OneShot, Timers
<1> QED
  BY <1>1, <1>2, <1>5, <1>6, CallbackLoop

\* The D-Bus service.
LEMMA DispatchLoop ==
    ASSUME LoopInv, NEW more \in BOOLEAN, service_dispatch(more) PROVE LoopInv'
<1> USE DaemonAssumption DEF LoopInv, TypeOK
<1>1. ASSUME Callback("E_DBUS"), KickoffFrame, Ran("E_DBUS", more, {}, {}), UNCHANGED tries,
             \/ UNCHANGED timeVars
             \/ clock_delta' = 0 /\ last_sync_type' = "RTC" /\ last_time' = clock
      PROVE  LoopInv'
  <2>1. SetterTypeOK' /\ UNCHANGED <<time_pipe, monitor_pipe>>
    BY <1>1, SetterUnchanged DEF KickoffFrame, setterVars, pipes, childVars
  <2>2. StateTypes'
    BY <1>1 DEF KickoffFrame, StateTypes, SetterTypeOK, SYNC_TYPES, timeVars, exitVars,
                signalVars, childVars
  <2> QED
    BY <1>1, <2>1, <2>2, CallbackLoop
<1>2. ASSUME NEW t \in Requests, Callback("E_DBUS"), KickoffFrame,
             Kickoff("E_DBUS", more, "PLATFORM", Local(t), 0, {"E_SAVE"})
      PROVE  LoopInv'
  <2>1. "PLATFORM" \in SYNC_TYPES /\ Local(t) \in Time
    BY TimeFacts DEF SYNC_TYPES
  <2>2. StateTypes' /\ SetterTypeOK' /\ UNCHANGED <<time_pipe, monitor_pipe>>
    BY <1>2, <2>1, KickoffTypes
  <2>3. \E added \in SUBSET Events : Ran("E_DBUS", more, added, {})
    BY <1>2 DEF Kickoff, Events, OneShot, Timers
  <2> QED
    BY <1>2, <2>2, <2>3, CallbackLoop
<1>3. CASE handle_can_set_time(more)
  BY <1>1, <1>3 DEF handle_can_set_time
<1>4. CASE \E t \in Requests : handle_set_time(t, more)
  BY <1>1, <1>2, <1>4 DEF handle_set_time
<1>5. CASE handle_last_sync_info(more)
  BY <1>1, <1>5 DEF handle_last_sync_info
<1> QED
  BY <1>3, <1>4, <1>5 DEF service_dispatch

\* A poll: what is ready then is ready when its callback runs.
LEMMA PollsLoop == ASSUME LoopInv, Polls PROVE LoopInv'
<1> USE DEF LoopInv, TypeOK
<1>1. PICK due \in SUBSET MayBeDue : Poll(due)
  BY DEF Polls
<1>2. /\ UNCHANGED <<daemon, setterVars, timeVars, tryVars, exitVars, cur_source, armed, notify_fd, childVars>>
      /\ loop' = "run" /\ sigchld' = FALSE /\ sigterm' = FALSE
  BY <1>1 DEF Poll
<1>3. /\ QueuesOK'
      /\ Range(save_queue') \subseteq PRI_SAVE \cap (Ready \cup due)
      /\ Range(net_queue') \subseteq Range(net_queue) \cup Ready \cup due
  BY <1>1, PollFacts
<1>4. SetterTypeOK' /\ UNCHANGED <<time_pipe, monitor_pipe>>
  BY <1>2, SetterUnchanged DEF setterVars, pipes, childVars
<1>5. StateTypes'
  BY <1>2 DEF StateTypes, timeVars, tryVars, exitVars, childVars
<1>6. "E_SAVE" \notin due /\ "E_TLSDATE_STATUS" \notin due
  BY <1>1, DaemonAssumption DEF MayBeDue, Timers, WakeEvents
<1>7. ("E_SAVE" \in Ready => Writable) /\ ("E_TLSDATE_STATUS" \in Ready => monitor_pipe # <<>>)
  BY DEF Ready
<1>8. StillReady'
  BY <1>3, <1>4, <1>6, <1>7 DEF StillReady, Writable
<1>9. LoopTypes'
  <2>1. PRI_SAVE \subseteq Events /\ NetEvents \subseteq Events
    BY DEF PRI_SAVE, NetEvents, NetFiles, NetTimers, Events, OneShot, Timers, WakeEvents
  <2>2. save_queue' \in Seq(Events) /\ net_queue' \in Seq(Events)
    BY <1>3, <2>1, SeqMonotonic DEF QueuesOK
  <2> QED
    BY <1>2, <2>2 DEF LoopTypes
<1> QED
  BY <1>3, <1>4, <1>5, <1>8, <1>9 DEF LoopTypes, StateTypes

\* The loop's state and what its events are about.
loopState == <<eventVars, monitor_pipe>>

\* A step outside the loop that at most makes room in the pipe.
LEMMA OutsideLoop ==
    ASSUME LoopInv, UNCHANGED loopState, SetterTypeOK', StateTypes',
           Len(time_pipe') <= Len(time_pipe)
    PROVE  LoopInv'
<1>1. UNCHANGED <<armed, save_queue, net_queue, loop, monitor_pipe>>
  BY DEF loopState, eventVars
<1>2. QueuesOK'
  BY <1>1 DEF LoopInv, QueuesOK
<1>3. Len(time_pipe) \in Nat /\ Len(time_pipe') \in Nat
  BY LenProperties DEF LoopInv, TypeOK, SetterTypeOK
<1>4. Writable => Writable'
  BY <1>3, SetterAssumption DEF Writable
<1>5. StillReady'
  BY <1>1, <1>4 DEF LoopInv, StillReady
<1> QED
  BY <1>1, <1>2, <1>5 DEF LoopInv, TypeOK, StateTypes

\* The setter makes a step or is killed.
LEMMA CoprocessLoop == ASSUME LoopInv, Coprocess \/ CoprocessKilled PROVE LoopInv'
<1>1. (SetterStep \/ SetterKilled) /\ CoprocessFrame
  BY DEF Coprocess, CoprocessKilled
<1>2. SetterTypeOK' /\ Len(time_pipe') <= Len(time_pipe)
  BY <1>1, SetterTypes DEF CoprocessFrame, LoopInv, TypeOK
<1>3. StateTypes'
  BY <1>1 DEF CoprocessFrame, LoopInv, TypeOK, StateTypes, timeVars, tryVars, exitVars, childVars
<1>4. UNCHANGED loopState
  BY <1>1 DEF CoprocessFrame, loopState, childVars
<1> QED
  BY <1>2, <1>3, <1>4, OutsideLoop

\* The child writes, exits or is stopped; a signal arrives; the clock jumps;
\* the power fails.
LEMMA EnvironmentLoop == ASSUME LoopInv, Environment PROVE LoopInv'
<1> USE DaemonAssumption DEF LoopInv, TypeOK
<1>0. Len(time_pipe) \in Nat
  BY LenProperties DEF SetterTypeOK
<1>1. CASE ChildWrites
  <2>1. PICK w \in Int : monitor_pipe' = Append(monitor_pipe, w)
    BY <1>1 DEF ChildWrites, Truncated
  <2>2. monitor_pipe' \in Seq(Int) /\ monitor_pipe' # <<>>
    BY <2>1, AppendFacts
  <2>3. UNCHANGED <<daemon, setterVars, timeVars, tryVars, exitVars, cur_source, eventVars,
                    signalVars, notify_fd, child_source, stopped>> /\ child' = "wrote"
    BY <1>1 DEF ChildWrites
  <2>4. SetterTypeOK' /\ UNCHANGED time_pipe
    BY <2>3, SetterUnchanged DEF setterVars, pipes
  <2>5. StateTypes'
    BY <2>2, <2>3 DEF StateTypes, ChildState, timeVars, tryVars, exitVars, signalVars
  <2>6. QueuesOK' /\ StillReady'
    BY <2>2, <2>3, <2>4 DEF QueuesOK, StillReady, Writable, eventVars
  <2> QED
    BY <2>3, <2>4, <2>5, <2>6 DEF StateTypes, eventVars
<1>2. CASE ChildExits \/ StopChild
  <2>1. /\ UNCHANGED <<daemon, setterVars, timeVars, tryVars, exitVars, cur_source, eventVars,
                       sigterm, notify_fd, child_source, monitor_pipe>>
        /\ sigchld' = TRUE
    BY <1>2 DEF ChildExits, StopChild
  <2>2. child' \in ChildState /\ stopped' \subseteq {"tlsdate", "setter"}
    BY <1>2 DEF ChildExits, StopChild, ChildState
  <2>3. SetterTypeOK' /\ UNCHANGED time_pipe
    BY <2>1, SetterUnchanged DEF setterVars, pipes
  <2>4. StateTypes'
    BY <2>1, <2>2 DEF StateTypes, timeVars, tryVars, exitVars
  <2> QED
    BY <1>0, <2>1, <2>3, <2>4, OutsideLoop DEF loopState
<1>3. CASE Sigterm
  <2>1. CASE Exit
    BY <1>3, <2>1, ExitSetter, ExitLoop DEF Sigterm
  <2>2. CASE ~Exit
    <3>1. /\ UNCHANGED <<daemon, notify_pipe, timeVars, tryVars, exitVars, cur_source, eventVars,
                         sigchld, notify_fd, childVars, setter, local, time_pipe, stores>>
          /\ sigterm' = TRUE
      BY <1>3, <2>2 DEF Sigterm
    <3>2. SetterTypeOK'
      BY <3>1, SetterUnchanged DEF setterVars, pipes
    <3>3. StateTypes'
      BY <3>1 DEF StateTypes, timeVars, tryVars, exitVars, childVars
    <3> QED
      BY <1>0, <3>1, <3>2, <3>3, OutsideLoop DEF loopState, childVars
  <2> QED
    BY <2>1, <2>2
<1>4. CASE ClockJump
  <2>1. /\ UNCHANGED <<daemon, setter, local, pipes, rtc, disk, timeVars, tryVars, exitVars,
                       cur_source, eventVars, signalVars, notify_fd, childVars>>
        /\ clock' \in Time
    BY <1>4, TimeFacts DEF ClockJump
  <2>2. SetterTypeOK' /\ UNCHANGED time_pipe
    BY <2>1 DEF SetterTypeOK, local, pipes
  <2>3. StateTypes'
    BY <2>1 DEF StateTypes, timeVars, tryVars, exitVars, signalVars, childVars
  <2> QED
    BY <1>0, <2>1, <2>2, <2>3, OutsideLoop DEF loopState, childVars
<1>5. CASE PowerLoss
  <2>1. /\ Exit /\ setter' = "dead" /\ status' = "UNINIT" /\ tv' = NoTime /\ save' = TRUE
        /\ time_pipe' = <<>> /\ clock' \in Time /\ UNCHANGED <<rtc, disk>>
        /\ daemon' = "down" /\ notify_pipe' = <<>>
    BY <1>5, TimeFacts DEF PowerLoss, Exit, Blank
  <2>2. /\ time_pipe' \in Seq(Time) /\ Len(time_pipe') = 0
        /\ notify_pipe' \in Seq(SETTER_STATUS \cup {BOGUS}) /\ Len(notify_pipe') = 0
    BY <2>1, EmptySeq
  <2>3. SetterTypeOK'
    BY <2>1, <2>2, TimeFacts, SetterAssumption DEF SetterTypeOK, SetterPC
  <2> QED
    BY <2>1, <2>3, ExitLoop
<1>6. CASE CoprocessKilled
  BY <1>6, CoprocessLoop
<1> QED
  BY <1>1, <1>2, <1>3, <1>4, <1>5, <1>6 DEF Environment

\* main() starts with empty pipes and queues.
LEMMA MainLoop == ASSUME LoopInv, Main PROVE LoopInv'
<1> USE DEF LoopInv, TypeOK
<1>1. /\ daemon' = "up" /\ setter' = "start" /\ status' = "UNINIT" /\ tv' = NoTime /\ save' = TRUE
      /\ time_pipe' = <<>> /\ notify_pipe' = <<>> /\ UNCHANGED stores
  BY DEF Main, Blank
<1>2. SetterTypeOK'
  <2>1. /\ time_pipe' \in Seq(Time) /\ Len(time_pipe') = 0
        /\ notify_pipe' \in Seq(SETTER_STATUS \cup {BOGUS}) /\ Len(notify_pipe') = 0
    BY <1>1, EmptySeq
  <2> QED
    BY <1>1, <2>1, TimeFacts, SetterAssumption DEF SetterTypeOK, SetterPC, stores
<1>3. StateTypes'
  <2>1. /\ clock_delta' \in Int /\ tries' \in 0 .. max_tries /\ backoff' \in Nat
        /\ cur_source' \in 0 .. NumSources /\ child_source' \in 0 .. NumSources
    BY DaemonAssumption DEF Main, Blank
  <2>2. /\ running' \in BOOLEAN /\ tlsdate_pid' \in BOOLEAN /\ exitting' \in BOOLEAN
        /\ sigchld' \in BOOLEAN /\ sigterm' \in BOOLEAN /\ notify_fd' \in BOOLEAN
    BY DEF Main, Blank
  <2>3. last_sync_type' \in SYNC_TYPES /\ last_time' \in Time
    BY TimeFacts, DatesAssumption DEF Main, StartupTime, StartWith, SetterTypeOK, SYNC_TYPES
  <2>4. term_sync' \in SYNC_TYPES /\ term_time' \in Time
    BY TimeFacts DEF Main, SYNC_TYPES
  <2>5. /\ child' \in ChildState /\ monitor_pipe' \in Seq(Int)
        /\ stopped' \subseteq {"tlsdate", "setter"}
    BY EmptySeq DEF Main, Blank, ChildState
  <2> QED
    BY <2>1, <2>2, <2>3, <2>4, <2>5 DEF StateTypes
<1>4. LoopTypes' /\ QueuesOK' /\ StillReady'
  BY EmptySeq DEF Main, Blank, LoopTypes, QueuesOK, StillReady, IsInjective, Range, Events,
                  OneShot, Timers, WakeEvents
<1> QED
  BY <1>2, <1>3, <1>4 DEF LoopTypes, StateTypes

\* The initial state: nothing runs yet.
LEMMA InitLoop == Init => LoopInv
<1> SUFFICES ASSUME Init PROVE LoopInv
  OBVIOUS
<1>1. SetterTypeOK
  <2>1. clock \in Time /\ rtc \in Time /\ disk \in Time
    BY TimeFacts, DaemonAssumption DEF Init
  <2>2. /\ time_pipe \in Seq(Time) /\ Len(time_pipe) = 0
        /\ notify_pipe \in Seq(SETTER_STATUS \cup {BOGUS}) /\ Len(notify_pipe) = 0
    BY EmptySeq DEF Init
  <2> QED
    BY <2>1, <2>2, TimeFacts, SetterAssumption DEF Init, SetterTypeOK, SetterPC
<1>2. StateTypes
  <2>1. /\ clock_delta \in Int /\ tries \in 0 .. max_tries /\ backoff \in Nat
        /\ cur_source \in 0 .. NumSources /\ child_source \in 0 .. NumSources
    BY DaemonAssumption DEF Init
  <2>2. /\ running \in BOOLEAN /\ tlsdate_pid \in BOOLEAN /\ exitting \in BOOLEAN
        /\ sigchld \in BOOLEAN /\ sigterm \in BOOLEAN /\ notify_fd \in BOOLEAN
    BY DEF Init
  <2>3. /\ last_sync_type \in SYNC_TYPES /\ last_time \in Time
        /\ term_sync \in SYNC_TYPES /\ term_time \in Time
    BY TimeFacts DEF Init, SYNC_TYPES
  <2>4. child \in ChildState /\ monitor_pipe \in Seq(Int) /\ stopped \subseteq {"tlsdate", "setter"}
    BY EmptySeq DEF Init, ChildState
  <2> QED
    BY <2>1, <2>2, <2>3, <2>4 DEF StateTypes
<1>3. LoopTypes /\ QueuesOK /\ StillReady
  BY EmptySeq DEF Init, LoopTypes, QueuesOK, StillReady, IsInjective, Range
<1> QED
  BY <1>1, <1>2, <1>3 DEF LoopInv, TypeOK, LoopTypes, StateTypes

\* Every handler keeps LoopInv.
LEMMA HandlerLoop == ASSUME LoopInv, Handler PROVE LoopInv'
BY WakesLoop, SigtermLoop, SaveLoop, HangupLoop, TimeSetLoop, RunTlsdateLoop, TimeoutLoop,
   StatusLoop, SigchldLoop, DispatchLoop DEF Handler

\* Every step keeps LoopInv.
LEMMA NextLoop == LoopInv /\ [Next]_vars => LoopInv'
<1> SUFFICES ASSUME LoopInv, [Next]_vars PROVE LoopInv'
  OBVIOUS
<1>1. CASE Next
  BY <1>1, MainLoop, PollsLoop, HandlerLoop, CoprocessLoop, EnvironmentLoop DEF Next
<1>2. CASE UNCHANGED vars
  <2>1. UNCHANGED <<daemon, setterVars, timeVars, tryVars, exitVars, cur_source, eventVars,
                    signalVars, notify_fd, childVars>>
    BY <1>2 DEF vars
  <2>2. SetterTypeOK' /\ UNCHANGED time_pipe
    BY <2>1, SetterUnchanged DEF LoopInv, TypeOK, setterVars, pipes
  <2>3. StateTypes'
    BY <2>1 DEF LoopInv, TypeOK, StateTypes, timeVars, tryVars, exitVars, signalVars, childVars
  <2>4. Len(time_pipe) \in Nat
    BY LenProperties DEF LoopInv, TypeOK, SetterTypeOK
  <2> QED
    BY <2>1, <2>2, <2>3, <2>4, OutsideLoop DEF loopState, childVars
<1> QED
  BY <1>1, <1>2

\* LoopInv is an invariant of the daemon.
THEOREM LoopInvariance == Spec => []LoopInv
BY InitLoop, NextLoop, PTL DEF Spec

\* The daemon's state keeps its types, for every configuration: no pipe takes
\* more than it has room for, no handler reads from an empty one, and tlsdate
\* is tried at most max_tries times in a row.
THEOREM DaemonTypes == Spec => []TypeOK
<1>1. LoopInv => TypeOK
  BY DEF LoopInv
<1> QED
  BY <1>1, LoopInvariance, PTL

-----------------------------------------------------------------------------
(* No death is forgotten.                                                  *)

\* A callback other than that of SIGCHLD leaves a queued SIGCHLD where it is.
LEMMA CallbackDeaths ==
    ASSUME LoopInv, DeathsNoticed, NEW e, NEW more \in BOOLEAN, NEW added, NEW deleted,
           Callback(e), e # "E_SIGCHLD", Ran(e, more, added, deleted),
           UNCHANGED <<daemon, setter, sigchld, stopped>>, child' \in Zombie => child \in Zombie
    PROVE  DeathsNoticed'
<1>1. "E_SIGCHLD" \in Range(net_queue) => "E_SIGCHLD" \in Range(net_queue')
  BY RanFacts DEF LoopInv
<1> QED
  BY <1>1 DEF DeathsNoticed

\* The handlers other than that of SIGCHLD.
LEMMA HandlerDeaths ==
    ASSUME LoopInv, DeathsNoticed, Handler, ~action_sigchld PROVE DeathsNoticed'
<1> USE DEF setterVars, signalVars, childVars, Return
<1>1. CASE \E e \in Wakes : action_kickoff_time_sync(e)
  BY <1>1, CallbackDeaths DEF action_kickoff_time_sync, Kickoff, KickoffFrame
<1>2. CASE StdinBroken
  BY <1>2, CallbackDeaths DEF StdinBroken, KickoffFrame
<1>3. CASE action_invalidate_time
  <2>1. \E added : Ran("E_STEADYSTATE", FALSE, added, {})
    BY <1>3 DEF action_invalidate_time, Kickoff
  <2> QED
    BY <1>3, <2>1, CallbackDeaths DEF action_invalidate_time, KickoffFrame
<1>4. CASE action_sigterm
  BY <1>4, CallbackDeaths DEF action_sigterm
<1>5. CASE action_sync_and_save
  BY <1>5, CallbackDeaths DEF action_sync_and_save
<1>6. CASE SaveHangup
  BY <1>6, CallbackDeaths DEF SaveHangup
<1>7. CASE SaveSigpipe \/ SetterLost \/ Exit
  BY <1>7 DEF SaveSigpipe, SetterLost, Exit, DeathsNoticed
<1>8. CASE action_time_set /\ ~Exit
  BY <1>8, CallbackDeaths DEF action_time_set
<1>9. CASE action_run_tlsdate
  <2>1. \E added, deleted : Ran("E_TLSDATE", FALSE, added, deleted)
    BY <1>9 DEF action_run_tlsdate, Launched, LaunchFailed
  <2>2. child' \in Zombie => child \in Zombie
    BY <1>9 DEF action_run_tlsdate, Launched, LaunchFailed, Zombie
  <2>3. UNCHANGED <<daemon, setter, sigchld, stopped>>
    BY <1>9 DEF action_run_tlsdate, Launched, LaunchFailed
  <2> QED
    BY <1>9, <2>1, <2>2, <2>3, CallbackDeaths DEF action_run_tlsdate
<1>10. CASE action_tlsdate_timeout
  <2>1. CASE UNCHANGED <<child, stopped, sigchld>>
    BY <1>10, <2>1, CallbackDeaths DEF action_tlsdate_timeout
  <2>2. CASE sigchld' = TRUE
    BY <2>2 DEF DeathsNoticed
  <2> QED
    BY <1>10, <2>1, <2>2 DEF action_tlsdate_timeout, KillChild
<1>11. CASE action_tlsdate_status
  <2>1. \E added : Ran("E_TLSDATE_STATUS", FALSE, added, {})
    BY <1>11 DEF action_tlsdate_status
  <2> QED
    BY <1>11, <2>1, CallbackDeaths DEF action_tlsdate_status
<1>12. ASSUME NEW more \in BOOLEAN, service_dispatch(more) PROVE DeathsNoticed'
  <2>1. Callback("E_DBUS") /\ KickoffFrame
    BY <1>12 DEF service_dispatch, handle_set_time, handle_can_set_time, handle_last_sync_info
  <2>2. \E added : Ran("E_DBUS", more, added, {})
    BY <1>12 DEF service_dispatch, handle_set_time, handle_can_set_time, handle_last_sync_info, Kickoff
  <2> QED
    BY <2>1, <2>2, CallbackDeaths DEF KickoffFrame
<1> QED
  BY <1>1, <1>2, <1>3, <1>4, <1>5, <1>6, <1>7, <1>8, <1>9, <1>10, <1>11, <1>12 DEF Handler

\* Every step keeps the signal of an uncollected death on its way.
LEMMA NextDeaths == LoopInv /\ DeathsNoticed /\ [Next]_vars => DeathsNoticed'
<1> SUFFICES ASSUME LoopInv, DeathsNoticed, [Next]_vars PROVE DeathsNoticed'
  OBVIOUS
<1>1. CASE Main
  BY <1>1 DEF Main, Blank, DeathsNoticed, Zombie
<1>2. CASE Polls
  <2>1. PICK due \in SUBSET MayBeDue : Poll(due)
    BY <1>2 DEF Polls
  <2>2. sigchld \/ "E_SIGCHLD" \in Range(net_queue) => "E_SIGCHLD" \in Range(net_queue')
    BY <2>1, PollFacts DEF LoopInv
  <2> QED
    BY <2>1, <2>2 DEF Poll, DeathsNoticed, setterVars, childVars
<1>3. CASE Handler /\ ~action_sigchld
  BY <1>3, HandlerDeaths
<1>4. CASE action_sigchld
  BY <1>4 DEF action_sigchld, ReapTlsdate, DeathsNoticed, Zombie, setterVars
<1>5. CASE Coprocess \/ CoprocessKilled
  BY <1>5 DEF Coprocess, CoprocessKilled, CoprocessFrame, SetterStep, Start, ReadTime, ReadEnd,
              SetTimeOfDay, RtcWrite, SaveTimestamp, Notify, SetterKilled,
              DeathsNoticed, eventVars, childVars
<1>6. CASE ChildWrites \/ ClockJump
  BY <1>6 DEF ChildWrites, ClockJump, DeathsNoticed, Zombie, setterVars, eventVars, signalVars, childVars
<1>7. CASE ChildExits \/ StopChild
  BY <1>7 DEF ChildExits, StopChild, DeathsNoticed
<1>8. CASE Sigterm \/ PowerLoss
  BY <1>8 DEF Sigterm, PowerLoss, Exit, DeathsNoticed, eventVars, childVars
<1>9. CASE UNCHANGED vars
  BY <1>9 DEF vars, DeathsNoticed, setterVars, eventVars, signalVars, childVars
<1> QED
  BY <1>1, <1>2, <1>3, <1>4, <1>5, <1>6, <1>7, <1>8, <1>9 DEF Next, Environment

\* However SIGCHLDs coalesce and in whichever order callbacks run, a dead or
\* stopped child is never left without a SIGCHLD on its way to action_sigchld.
THEOREM NoDeathForgotten == Spec => []DeathsNoticed
<1>1. Init => DeathsNoticed
  BY DEF Init, DeathsNoticed
<1> QED
  BY <1>1, NextDeaths, LoopInvariance, PTL DEF Spec

-----------------------------------------------------------------------------
(* The first word to the setter.                                           *)

\* What the handlers leave to the setter, and who writes to it.
LEMMA HandlerFrame ==
    ASSUME Handler
    PROVE  /\ daemon = "up" /\ UNCHANGED <<setter, status, tv, save, clock, rtc, disk>>
           /\ action_sync_and_save \/ UNCHANGED time_pipe
           /\ \E e : Callback(e) /\ (e = "E_SAVE" => action_sync_and_save \/ SaveSigpipe)
<1> USE DEF setterVars, local, pipes, stores
<1>1. CASE \E e \in Wakes : action_kickoff_time_sync(e)
  BY <1>1 DEF action_kickoff_time_sync, KickoffFrame, Callback
<1>2. CASE StdinBroken \/ action_invalidate_time
  BY <1>2 DEF StdinBroken, action_invalidate_time, KickoffFrame, Callback
<1>3. CASE action_sigterm \/ SaveHangup
  BY <1>3 DEF action_sigterm, SaveHangup, Callback
<1>4. CASE action_sync_and_save \/ SaveSigpipe
  BY <1>4 DEF action_sync_and_save, SaveSigpipe, Callback
<1>5. CASE action_time_set \/ SetterLost
  BY <1>5 DEF action_time_set, SetterLost, Callback
<1>6. CASE action_run_tlsdate \/ action_tlsdate_timeout \/ action_tlsdate_status
  BY <1>6 DEF action_run_tlsdate, action_tlsdate_timeout, action_tlsdate_status, Callback
<1>7. CASE action_sigchld
  BY <1>7 DEF action_sigchld, Callback
<1>8. CASE \E more \in BOOLEAN : service_dispatch(more)
  BY <1>8 DEF service_dispatch, handle_set_time, handle_can_set_time, handle_last_sync_info,
              KickoffFrame, Callback
<1> QED
  BY <1>1, <1>2, <1>3, <1>4, <1>5, <1>6, <1>7, <1>8 DEF Handler

\* What E_SAVE writes comes after what is in the pipe.
LEMMA SaveKeepsHead ==
    ASSUME LoopInv, action_sync_and_save, time_pipe # <<>>
    PROVE  time_pipe' # <<>> /\ Head(time_pipe') = Head(time_pipe)
<1>1. /\ time_pipe \in Seq(Time) /\ Len(time_pipe) \in Nat \ {0} /\ SaveWord \in Time
      /\ Head(time_pipe) = time_pipe[1]
  BY TimeFacts, EmptySeq DEF LoopInv, TypeOK, SetterTypeOK, SaveWord
<1>2. CASE UNCHANGED time_pipe
  BY <1>2
<1>3. CASE time_pipe' = Append(time_pipe, SaveWord)
  BY <1>1, <1>3, HeadTailAppend, AppendFacts
<1>4. CASE time_pipe' = time_pipe \o ShutdownWords
  <2>1. ShutdownWords \in Seq(Time) /\ Len(ShutdownWords) = 2
    BY <1>1, TimeFacts DEF ShutdownWords
  <2>2. /\ time_pipe \o ShutdownWords \in Seq(Time)
        /\ Len(time_pipe \o ShutdownWords) = Len(time_pipe) + Len(ShutdownWords)
    BY <1>1, <2>1, ConcatProperties
  <2>2a. 1 \in 1 .. Len(time_pipe) + Len(ShutdownWords) /\ 1 <= Len(time_pipe)
    BY <1>1, <2>1
  <2>2b. (time_pipe \o ShutdownWords)[1] = IF 1 <= Len(time_pipe) THEN time_pipe[1]
                                           ELSE ShutdownWords[1 - Len(time_pipe)]
    BY <1>1, <2>1, <2>2a, ConcatProperties
  <2>3. time_pipe' \in Seq(Time) /\ Len(time_pipe') > 0 /\ time_pipe'[1] = time_pipe[1]
    BY <1>1, <1>4, <2>1, <2>2, <2>2a, <2>2b
  <2>4. time_pipe' # <<>>
    BY <2>3, EmptySeq
  <2> QED
    BY <1>1, <2>3, <2>4
<1> QED
  BY <1>2, <1>3, <1>4 DEF action_sync_and_save

\* No handler gets ahead of the first word.
LEMMA HandlerFirst == ASSUME LoopInv, FirstWord, Handler PROVE FirstWord'
<1> SUFFICES ASSUME status' = "UNINIT", setter' # "dead"
             PROVE  IF time_pipe' # <<>> THEN SaneWord(Head(time_pipe'))
                    ELSE daemon' = "up" => SaveComesFirst'
  BY HandlerFrame DEF FirstWord
<1>1. status = "UNINIT" /\ setter # "dead" /\ daemon = "up"
  BY HandlerFrame
<1>2. CASE time_pipe # <<>>
  <2>1. time_pipe' # <<>> /\ Head(time_pipe') = Head(time_pipe)
    BY <1>2, HandlerFrame, SaveKeepsHead
  <2> QED
    BY <1>1, <1>2, <2>1 DEF FirstWord
<1>3. CASE time_pipe = <<>>
  <2>1. SaveComesFirst
    BY <1>1, <1>3 DEF FirstWord
  <2>2. PICK e : Callback(e) /\ (e = "E_SAVE" => action_sync_and_save \/ SaveSigpipe)
    BY HandlerFrame
  <2>3. e = "E_SAVE"
    BY <2>1, <2>2 DEF SaveComesFirst, Callback
  <2>4. action_sync_and_save
    BY <1>1, <2>2, <2>3 DEF SaveSigpipe
  <2>5. time_pipe' = Append(time_pipe, SaveWord)
    BY <1>1, <2>1, <2>4 DEF action_sync_and_save, SaveComesFirst
  <2>6. last_time \in Time /\ SaveWord \in Time /\ time_pipe \in Seq(Time)
    BY TimeFacts DEF LoopInv, TypeOK, SetterTypeOK, SaveWord
  <2>7. time_pipe' # <<>> /\ Head(time_pipe') = SaveWord
    BY <1>3, <2>5, <2>6, HeadTailAppend, AppendFacts
  <2>8. SaneWord(SaveWord)
    BY <2>1, <2>6, TimeFacts DEF SaveComesFirst, SaveWord, SaneWord, Negated
  <2> QED
    BY <2>7, <2>8
<1> QED
  BY <1>2, <1>3

\* The setter assigns its status when it reads a sane word.
LEMMA CoprocessFirst ==
    ASSUME LoopInv, FirstWord, SetterStep \/ SetterKilled, CoprocessFrame PROVE FirstWord'
<1>0. UNCHANGED <<daemon, exitting, last_time, armed, loop, save_queue, net_queue>>
  BY DEF CoprocessFrame, timeVars, exitVars, eventVars
<1>1. CASE UNCHANGED <<setter, status, time_pipe>> \/ setter' = "dead" \/ status' # "UNINIT"
  BY <1>0, <1>1 DEF FirstWord, SaveComesFirst
<1>2. CASE Start
  BY <1>0, <1>2 DEF Start, Die, FirstWord, SaveComesFirst, pipes
<1>3. CASE ReadTime /\ status = "UNINIT"
  <2>1. time_pipe # <<>> /\ SaneWord(Head(time_pipe))
    BY <1>3 DEF ReadTime, FirstWord
  <2>2. Head(time_pipe) \in Time
    BY <2>1, HeadFacts DEF LoopInv, TypeOK, SetterTypeOK
  <2> DEFINE m == Head(time_pipe)
             w == IF m.sec < 0 THEN Negated(m) ELSE m
  <2>3. m.sec \in Int /\ is_sane_time(w.sec) /\ w.sec # 0
    BY <2>1, <2>2, TimeFacts, DatesAssumption DEF SaneWord, is_sane_time, Negated
  <2>4. status' # "UNINIT"
    BY <1>3, <2>3 DEF ReadTime, Die
  <2> QED
    BY <2>4 DEF FirstWord
<1>4. CASE ReadEnd \/ SetterKilled
  BY <1>1, <1>4 DEF ReadEnd, SetterKilled, Die
<1>5. CASE SetTimeOfDay \/ RtcWrite \/ SaveTimestamp \/ Notify
  BY <1>5 DEF SetTimeOfDay, RtcWrite, SaveTimestamp, Notify, Die, FirstWord
<1>6. CASE ReadTime /\ status # "UNINIT"
  BY <1>6 DEF ReadTime, Die, FirstWord
<1> QED
  BY <1>2, <1>3, <1>4, <1>5, <1>6 DEF SetterStep

\* main() starts with a sane time and E_SAVE on its way.
LEMMA MainFirst == ASSUME Main PROVE FirstWord'
<1>1. is_sane_time(last_time'.sec)
  BY DatesAssumption
     DEF Main, StartupTime, StartWith, DiskBetter, DiskTime, is_sane_time, Local
<1> QED
  BY <1>1 DEF Main, Blank, FirstWord, SaveComesFirst

\* Every step keeps FirstWord.
LEMMA NextFirst == LoopInv /\ FirstWord /\ [Next]_vars => FirstWord'
<1> SUFFICES ASSUME LoopInv, FirstWord, [Next]_vars PROVE FirstWord'
  OBVIOUS
<1>1. CASE Main
  BY <1>1, MainFirst
<1>2. CASE Polls
  <2>1. PICK due \in SUBSET MayBeDue : Poll(due)
    BY <1>2 DEF Polls
  <2>2. /\ UNCHANGED <<daemon, setter, status, time_pipe, exitting, last_time, armed>>
        /\ loop' = "run"
    BY <2>1 DEF Poll, setterVars, local, pipes, timeVars, exitVars
  <2>3. ASSUME "E_SAVE" \in armed, setter # "dead", time_pipe = <<>>
        PROVE  save_queue' # <<>> /\ Head(save_queue') = "E_SAVE"
    <3>1. "E_SAVE" \in Ready
      BY <2>3, SetterAssumption DEF Ready, Writable
    <3> QED
      BY <2>1, <3>1, PollFacts DEF LoopInv
  <2> QED
    BY <2>2, <2>3 DEF FirstWord, SaveComesFirst
<1>3. CASE Handler
  BY <1>3, HandlerFirst
<1>4. CASE Coprocess \/ CoprocessKilled
  BY <1>4, CoprocessFirst DEF Coprocess, CoprocessKilled
<1>5. CASE ChildWrites \/ ChildExits \/ StopChild \/ ClockJump \/ UNCHANGED vars
  <2>1. UNCHANGED <<daemon, setter, status, time_pipe, exitting, last_time, armed, loop,
                    save_queue, net_queue>>
    BY <1>5 DEF ChildWrites, ChildExits, StopChild, ClockJump, vars, setterVars, local, pipes,
                timeVars, exitVars, eventVars
  <2> QED
    BY <2>1 DEF FirstWord, SaveComesFirst
<1>6. CASE Sigterm
  <2>1. UNCHANGED <<setter, status, time_pipe>>
    BY <1>6 DEF Sigterm, local
  <2>2. \/ daemon' = "down"
        \/ UNCHANGED <<daemon, exitting, last_time, armed, loop, save_queue, net_queue>>
    BY <1>6 DEF Sigterm, Exit, timeVars, exitVars, eventVars
  <2> QED
    BY <2>1, <2>2 DEF FirstWord, SaveComesFirst
<1>7. CASE PowerLoss
  BY <1>7 DEF PowerLoss, FirstWord
<1> QED
  BY <1>1, <1>2, <1>3, <1>4, <1>5, <1>6, <1>7 DEF Next, Environment

\* FirstWord is an invariant of the daemon.
THEOREM FirstWordInvariance == Spec => []FirstWord
<1>1. Init => FirstWord
  BY DEF Init, FirstWord
<1> QED
  BY <1>1, NextFirst, LoopInvariance, PTL DEF Spec

\* The setter never writes an uninitialised status: nothing gets to it before
\* the sane time of main(), for every configuration and every order of
\* signals, wakes and deaths.
THEOREM StatusIsAssigned == Spec => []StatusAssigned
<1>1. FirstWord => StatusAssigned
  BY DEF FirstWord, StatusAssigned
<1> QED
  BY <1>1, FirstWordInvariance, PTL
=============================================================================

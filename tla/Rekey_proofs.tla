---------------------------- MODULE Rekey_proofs ----------------------------
(***************************************************************************)
(* Proofs about Rekey, for any window, any number of resends and tries and *)
(* queues of any length.                                                   *)
(***************************************************************************)
EXTENDS Rekey, WellFoundedInduction, SequenceTheorems, TLAPS

-----------------------------------------------------------------------------
(* The inductive invariant.                                                 *)

Frame == [kind : {"text", "file", "ping", "pong", "handshake"}, gen : 0..2, era : Nat]

Client ==
    [on : {"down", "open", "in"}, gate : BOOLEAN, peerOn : BOOLEAN, keyed : BOOLEAN,
     stale : BOOLEAN, sess : BOOLEAN, live : BOOLEAN, gen : 0..2, seen : 0..3, era : Nat,
     sent : Nat \cup {NoEntry}, saved : Nat, since : Nat, queued : Nat,
     out : BOOLEAN, late : BOOLEAN, resends : Nat, owed : BOOLEAN,
     heal : BOOLEAN, kick : BOOLEAN, tries : Nat, tx : Seq(Frame)]

\* Neither the count nor the saved one is ahead of the frames under this key pair.
Honest(c) == c.sent <= c.since /\ c.saved <= c.since

\* Behind a closed gate there is no session, and nothing is counted.
Closed(c) == ~c.gate => ~c.sess /\ c.sent <= 0 /\ c.saved = 0

\* Who has decrypted a frame of the peer can send.
Chained(c) == c.gate /\ c.seen # Unseen => c.live

ClientInv(c) == c \in Client /\ Honest(c) /\ Closed(c) /\ Chained(c) /\ ~c.owed

IInv ==
    /\ client = [u \in Users |-> client[u]]
    /\ mail \in [Users -> Seq(Frame)]
    /\ era \in Nat
    /\ "initiator" \in DOMAIN left /\ left.initiator \in Users
    /\ \A u \in Users : ClientInv(client[u])

-----------------------------------------------------------------------------
(* What a method that only writes frames does to a client.                  *)
Acts(c, e) ==
    /\ e \in Client
    /\ e.on = c.on /\ e.gate = c.gate /\ e.keyed = c.keyed /\ e.sess = c.sess
    /\ e.live = c.live /\ e.gen = c.gen /\ e.seen = c.seen /\ e.era = c.era
    /\ e.queued = c.queued /\ e.peerOn = c.peerOn
    /\ e.owed => c.owed
    /\ Honest(c) => Honest(e)
    /\ Closed(c) => Closed(e)

\* A method that touches neither the counts nor the session.
Alike(c, e) ==
    /\ e \in Client
    /\ e.gate = c.gate /\ e.sess = c.sess /\ e.live = c.live /\ e.seen = c.seen
    /\ e.sent = c.sent /\ e.saved = c.saved /\ e.since = c.since /\ e.owed = c.owed
SameSocket(c, e) ==
    e.on = c.on /\ e.keyed = c.keyed /\ e.gen = c.gen /\ e.era = c.era
    /\ e.queued = c.queued /\ e.peerOn = c.peerOn

\* It only writes frames, if it leaves the socket alone as well.
LEMMA AlikeActs ==
    ASSUME NEW c, NEW e, Alike(c, e)
    PROVE  /\ SameSocket(c, e) => Acts(c, e)
           /\ ClientInv(c) => ClientInv(e)
BY DEF Alike, SameSocket, Acts, ClientInv, Honest, Closed, Chained

\* Doing nothing.
LEMMA ActsSelf == ASSUME NEW c \in Client PROVE Acts(c, c)
BY DEF Acts

\* One handler after another acts as one.
LEMMA ActsTwice ==
    ASSUME NEW c, NEW d, NEW e, Acts(c, d), Acts(d, e)
    PROVE  Acts(c, e)
BY DEF Acts

\* Encrypting a frame for the wire keeps the window and where it starts.
LEMMA WriteActs ==
    ASSUME NEW c \in Client, NEW kind \in {"text", "file", "ping", "pong", "handshake"}
    PROVE  Acts(c, Write(c, kind)) /\ Write(c, kind).sent = c.sent /\ Write(c, kind).since = c.since
<1> DEFINE f == [kind |-> kind, gen |-> c.gen, era |-> c.era]
<1>1. f \in Frame
  BY DEF Frame, Client
<1> HIDE DEF f
<1>0. c.tx \in Seq(Frame)
  BY DEF Client
<1>2. Append(c.tx, f) \in Seq(Frame)
  BY <1>0, <1>1
<1> DEFINE t == Append(c.tx, f)
           e == [c EXCEPT !.tx = t]
<1>3. Write(c, kind) = e
  BY DEF Write, f
<1> HIDE DEF t
<1>4. t \in Seq(Frame)
  BY <1>2 DEF t
<1>5. Alike(c, e) /\ SameSocket(c, e)
  BY <1>4 DEF Alike, SameSocket, Client
<1> HIDE DEF e
<1>6. Acts(c, e) /\ e.sent = c.sent /\ e.since = c.since
  BY <1>5, AlikeActs DEF Alike
<1> QED BY <1>3, <1>6

\* persistSession writes the window's opening to disk and leaves the one in memory.
LEMMA PersistActs ==
    ASSUME NEW c \in Client
    PROVE  /\ Acts(c, persistSession(c)) /\ persistSession(c).sent = c.sent
           /\ persistSession(c).since = c.since
           /\ persistSession(c).saved = IF c.sent = NoEntry THEN 0 ELSE c.sent
<1> DEFINE v == IF c.sent = NoEntry THEN 0 ELSE c.sent
           e == [c EXCEPT !.saved = v]
<1>1. persistSession(c) = e
  BY DEF persistSession
<1>2. v \in Nat /\ c.sent \in Nat \cup {NoEntry} /\ c.since \in Nat
  BY DEF Client
<1>3. /\ c.sent <= c.since => v <= c.since
      /\ c.sent <= 0 => v = 0
  BY <1>2 DEF NoEntry
<1> HIDE DEF v
<1>4. e \in Client /\ e.saved = v /\ e.sent = c.sent /\ e.since = c.since
  BY <1>2 DEF Client
<1>5. Acts(c, e)
  BY <1>3, <1>4 DEF Acts, Client, Honest, Closed
<1> QED BY <1>1, <1>4, <1>5 DEF v

\* Starting a kick, and noting that a ping went out, touch only the rekey timers.
LEMMA KickActs ==
    ASSUME NEW c \in Client
    PROVE  Acts(c, StartKick(c)) /\ Acts(c, markRekeyPingSent(c))
<1> DEFINE a == StartKick(c)
           r == IF c.out THEN c.resends ELSE 0
           b == [c EXCEPT !.resends = r, !.out = TRUE, !.late = FALSE, !.kick = TRUE]
<1>1. Alike(c, a) /\ SameSocket(c, a)
  BY DEF StartKick, Alike, SameSocket, Client
<1>2. r \in Nat /\ markRekeyPingSent(c) = b
  BY DEF markRekeyPingSent, Client
<1> HIDE DEF r
<1>3. Alike(c, b) /\ SameSocket(c, b)
  BY <1>2, ZenonT(40) DEF Alike, SameSocket, Client
<1> HIDE DEF a, b
<1>4. Acts(c, a) /\ Acts(c, b)
  BY <1>1, <1>3, AlikeActs
<1> QED BY <1>2, <1>4 DEF a

\* transmitRekey and a first ping.
LEMMA RekeyActs ==
    ASSUME NEW c \in Client, NEW isPong \in BOOLEAN
    PROVE  /\ Acts(c, transmitRekey(c, isPong)) /\ Acts(c, Ping(c))
           /\ transmitRekey(c, isPong).sent = c.sent
           /\ transmitRekey(c, isPong).saved = IF c.sent = NoEntry THEN 0 ELSE c.sent
<1>1. ASSUME NEW b \in BOOLEAN
      PROVE  /\ Acts(c, transmitRekey(c, b)) /\ transmitRekey(c, b).sent = c.sent
             /\ transmitRekey(c, b).saved = IF c.sent = NoEntry THEN 0 ELSE c.sent
  <2> DEFINE k == IF b THEN "pong" ELSE "ping"
             w == Write(c, k)
  <2>1. Acts(c, w) /\ w.sent = c.sent
    BY WriteActs
  <2>2. transmitRekey(c, b) = persistSession(w)
    BY DEF transmitRekey
  <2> HIDE DEF w
  <2>3. Acts(w, persistSession(w)) /\ persistSession(w).sent = w.sent
        /\ persistSession(w).saved = IF w.sent = NoEntry THEN 0 ELSE w.sent
    BY <2>1, PersistActs DEF Acts
  <2> QED BY <2>1, <2>2, <2>3, ActsTwice
<1>2. Acts(c, Ping(c))
  <2> DEFINE t == transmitRekey(c, FALSE)
  <2>1. Acts(c, t)
    BY <1>1
  <2> HIDE DEF t
  <2>2. Acts(t, markRekeyPingSent(t))
    BY <2>1, KickActs DEF Acts
  <2> QED BY <2>1, <2>2, ActsTwice DEF Ping, t
<1> QED BY <1>1, <1>2

\* A frame of the user is counted on both sides of the comparison.
LEMMA EmitActs ==
    ASSUME NEW c \in Client, c.gate, NEW kind \in {"text", "file"}
    PROVE  Acts(c, Emit(c, kind))
<1> DEFINE w == Write(c, kind)
           s == [w EXCEPT !.since = @ + 1]
           p == persistSession(s)
           n == IF p.sent = NoEntry THEN 1 ELSE p.sent + 1
           d == [p EXCEPT !.sent = n]
<1>0. Acts(c, w) /\ w.sent = c.sent /\ w.since = c.since
  BY WriteActs
<1>1. Acts(c, w) /\ w.sent = c.sent /\ w.since = c.since /\ w \in Client
  BY <1>0 DEF Acts
<1>3. Emit(c, kind) = noteOutboundTo(p)
  BY DEF Emit
<1> HIDE DEF w
<1>2. /\ s \in Client /\ s.since = c.since + 1 /\ s.sent = c.sent
      /\ Acts(w, s)
  <2>1. w.since \in Nat /\ w.since + 1 \in Nat /\ s = [w EXCEPT !.since = w.since + 1]
    BY <1>1 DEF Client
  <2> DEFINE n1 == w.since + 1
  <2>2. n1 \in Nat /\ n1 >= w.since /\ s = [w EXCEPT !.since = n1] /\ n1 = c.since + 1
    BY <1>1, <2>1
  <2> HIDE DEF n1, s
  <2>3. /\ s \in Client /\ s.since = n1 /\ s.sent = w.sent /\ s.saved = w.saved
        /\ s.on = w.on /\ s.gate = w.gate /\ s.keyed = w.keyed /\ s.sess = w.sess
        /\ s.live = w.live /\ s.gen = w.gen /\ s.seen = w.seen /\ s.era = w.era
        /\ s.queued = w.queued /\ s.peerOn = w.peerOn /\ s.owed = w.owed
    BY <1>1, <2>2, ZenonT(40) DEF Client
  <2>4. w.sent \in Nat \cup {NoEntry} /\ w.saved \in Nat
    BY <1>1 DEF Client
  <2>5. Honest(w) => Honest(s)
    BY <2>1, <2>2, <2>3, <2>4 DEF Honest, NoEntry
  <2>6. Closed(w) => Closed(s)
    BY <2>3 DEF Closed
  <2> QED BY <1>1, <2>2, <2>3, <2>5, <2>6 DEF Acts
<1> HIDE DEF s
<1>4. /\ p \in Client /\ Acts(s, p) /\ p.sent = c.sent /\ p.since = c.since + 1
      /\ p.saved = IF c.sent = NoEntry THEN 0 ELSE c.sent
  BY <1>2, PersistActs DEF Acts
<1>5. Acts(c, p)
  BY <1>1, <1>2, <1>4, ActsTwice
<1> HIDE DEF p
<1>6. c.sent \in Nat \cup {NoEntry} /\ c.since \in Nat
  BY DEF Client
<1>7. n \in Nat /\ (c.sent <= c.since => n <= c.since + 1)
  BY <1>4, <1>6 DEF NoEntry
<1>8. noteOutboundTo(p) = IF d.sent < Window \/ d.out \/ ~Up(d) \/ ~d.sess THEN d
                          ELSE IF Transmittable(d, FALSE) THEN Ping(d) ELSE StartKick(d)
  BY DEF noteOutboundTo
<1> HIDE DEF n
<1>9. d \in Client /\ d.sent = n /\ d.since = p.since /\ d.saved = p.saved
  BY <1>4, <1>7 DEF Client
<1>10. Acts(c, d)
  <2>1. Honest(c) => Honest(d)
    BY <1>4, <1>5, <1>7, <1>9 DEF Honest, Acts
  <2>2. /\ d.on = p.on /\ d.gate = p.gate /\ d.keyed = p.keyed /\ d.sess = p.sess
        /\ d.live = p.live /\ d.gen = p.gen /\ d.seen = p.seen /\ d.era = p.era
        /\ d.queued = p.queued /\ d.peerOn = p.peerOn /\ d.owed = p.owed
    BY <1>4 DEF Client
  <2>3. Closed(d)
    BY <1>5, <2>2 DEF Closed, Acts
  <2> HIDE DEF d
  <2> QED BY <1>5, <1>9, <2>1, <2>2, <2>3 DEF Acts
<1> HIDE DEF d
<1>11. Acts(d, d) /\ Acts(d, Ping(d)) /\ Acts(d, StartKick(d))
  BY <1>9, ActsSelf, RekeyActs, KickActs
<1>12. Acts(c, d) /\ Acts(c, Ping(d)) /\ Acts(c, StartKick(d))
  BY <1>10, <1>11, ActsTwice
<1> QED BY <1>3, <1>8, <1>12

-----------------------------------------------------------------------------
(* flushOutbox empties a queue of any length: induction by a least          *)
(* counterexample.                                                          *)

\* A set of numbers has a least one.
LEMMA Least ==
    ASSUME NEW T, T \subseteq Nat, T # {}
    PROVE  \E m \in T : \A k \in T : m <= k
<1>1. PICK m \in T : \A k \in T : ~(<<k, m>> \in OpToRel(<, Nat))
  BY NatLessThanWellFounded, WFMin
<1>2. \A k \in T : ~(k < m)
  BY <1>1 DEF OpToRel
<1> QED BY <1>2

\* The function that emits one text after the other.
Emitted(g, b, n) == g = [k \in 0..n |-> IF k = 0 THEN b ELSE Emit(g[k - 1], "text")]

\* It exists for every number of texts.
LEMMA EmittedExists ==
    ASSUME NEW b, NEW n \in Nat
    PROVE  \E g : Emitted(g, b, n)
<1> DEFINE T == {j \in Nat : ~ \E g : Emitted(g, b, j)}
<1>1. SUFFICES ASSUME T # {} PROVE FALSE
  BY <1>1
<1>2. PICK m \in T : \A k \in T : m <= k
  BY <1>1, Least
<1>3. CASE m = 0
  <2> DEFINE g == [k \in 0..0 |-> b]
  <2>1. Emitted(g, b, 0)
    BY DEF Emitted
  <2> QED BY <1>3, <2>1
<1>4. CASE m # 0
  <2>1. m - 1 \in Nat
    BY <1>4
  <2>2. m - 1 \notin T
    <3> HIDE DEF T
    <3>1. m \in Nat
      BY DEF T
    <3> QED BY <1>2, <3>1
  <2>3. PICK g : Emitted(g, b, m - 1)
    BY <2>1, <2>2
  <2> DEFINE h == [k \in 0..m |-> IF k = m THEN Emit(g[m - 1], "text") ELSE g[k]]
  <2>4. \A k \in 0..m : h[k] = IF k = 0 THEN b ELSE Emit(h[k - 1], "text")
    BY <1>4, <2>1, <2>3 DEF Emitted
  <2>5. Emitted(h, b, m)
    BY <2>4 DEF Emitted
  <2> QED BY <2>5
<1> QED BY <1>3, <1>4

\* Each text is sent as the one before it left the client.
LEMMA FlushActs ==
    ASSUME NEW c \in Client
    PROVE  /\ flushOutbox(c) \in Client
           /\ Acts([c EXCEPT !.queued = 0], flushOutbox(c)) \/ flushOutbox(c) = c
<1> DEFINE b == [c EXCEPT !.queued = 0]
           n == c.queued
           A == CHOOSE g : g = [k \in 0..n |-> IF k = 0 THEN b ELSE Emit(g[k - 1], "text")]
<1>1. flushOutbox(c) = IF Sendable(c) THEN A[n] ELSE c
  BY DEF flushOutbox
<1>2. b \in Client /\ b.gate = c.gate
  BY DEF Client
<1> HIDE DEF b
<1>3. n \in Nat
  BY DEF Client
<1>4. Emitted(A, b, n)
  BY <1>3, EmittedExists DEF Emitted
<1> HIDE DEF A
<1>5. CASE Sendable(c)
  <2>1. b.gate
    BY <1>2, <1>5 DEF Sendable
  <2> DEFINE T == {j \in 0..n : ~Acts(b, A[j])}
  <2>2. CASE T = {}
    <3>1. Acts(b, A[n])
      BY <1>3, <2>2
    <3>2. A[n] \in Client
      BY <3>1 DEF Acts
    <3> QED BY <1>1, <1>5, <3>1, <3>2 DEF b
  <2>3. CASE T # {}
    <3>0. T \subseteq Nat
      BY <1>3
    <3>1. PICK m \in T : \A k \in T : m <= k
      <4> HIDE DEF T
      <4> QED BY <2>3, <3>0, Least
    <3>2. m \in 0..n /\ ~Acts(b, A[m])
      OBVIOUS
    <3>3. CASE m = 0
      <4>1. A[0] = b
        BY <1>3, <1>4 DEF Emitted
      <4> QED BY <1>2, <3>2, <3>3, <4>1, ActsSelf
    <3>4. CASE m # 0
      <4>1. m - 1 \in 0..n
        BY <1>3, <3>2, <3>4
      <4>2. m - 1 \notin T
        <5> HIDE DEF T
        <5> QED BY <3>1, <3>2, <1>3
      <4>3. Acts(b, A[m - 1])
        BY <4>1, <4>2
      <4>4. A[m] = Emit(A[m - 1], "text")
        BY <1>4, <3>2, <3>4 DEF Emitted
      <4> DEFINE a == A[m - 1]
      <4>5. a \in Client /\ a.gate
        BY <2>1, <4>3 DEF Acts
      <4> HIDE DEF a
      <4>6. Acts(a, Emit(a, "text"))
        BY <4>5, EmitActs
      <4>7. Acts(b, Emit(a, "text"))
        BY <4>3, <4>6, ActsTwice DEF a
      <4> QED BY <3>2, <4>4, <4>7 DEF a
    <3> QED BY <3>3, <3>4
  <2> QED BY <2>2, <2>3
<1> QED BY <1>1, <1>5

\* A client that has only written frames is as sound as before.
LEMMA ActsInv ==
    ASSUME NEW c, NEW e, ClientInv(c), Acts(c, e)
    PROVE  ClientInv(e)
BY DEF ClientInv, Acts, Chained

\* So is one whose queue was flushed.
LEMMA FlushInv ==
    ASSUME NEW c, ClientInv(c)
    PROVE  ClientInv(flushOutbox(c)) /\ flushOutbox(c).on = c.on
<1> DEFINE b == [c EXCEPT !.queued = 0]
<1>1. c \in Client
  BY DEF ClientInv
<1>2. /\ b \in Client /\ b.on = c.on /\ b.gate = c.gate /\ b.sess = c.sess /\ b.live = c.live
      /\ b.seen = c.seen /\ b.sent = c.sent /\ b.saved = c.saved /\ b.since = c.since
      /\ b.owed = c.owed
  BY <1>1 DEF Client
<1>3. Acts(b, flushOutbox(c)) \/ flushOutbox(c) = c
  BY <1>1, FlushActs
<1> HIDE DEF b
<1>4. ClientInv(b)
  BY <1>2 DEF ClientInv, Honest, Closed, Chained
<1>5. CASE Acts(b, flushOutbox(c))
  BY <1>2, <1>4, <1>5, ActsInv DEF Acts
<1> QED BY <1>3, <1>5

-----------------------------------------------------------------------------
(* The other methods.                                                       *)

\* Nothing is owed, so there is nothing to pay.
LEMMA NoPongOwed ==
    ASSUME NEW c, ~c.owed
    PROVE  sendOwedPongIfReady(c) = c /\ OwedPong(c) = c
BY DEF sendOwedPongIfReady, OwedPong

\* A change of the timers and flags of an outstanding ping.
LEMMA FlagsActs ==
    ASSUME NEW c \in Client, NEW out \in BOOLEAN, NEW late \in BOOLEAN, NEW resends \in Nat,
           NEW heal \in BOOLEAN, NEW kick \in BOOLEAN, NEW tries \in Nat
    PROVE  /\ Acts(c, [c EXCEPT !.out = out, !.late = late, !.resends = resends])
           /\ Acts(c, [c EXCEPT !.late = late, !.resends = resends])
           /\ Acts(c, [c EXCEPT !.late = late])
           /\ Acts(c, [c EXCEPT !.heal = heal])
           /\ Acts(c, [c EXCEPT !.kick = kick])
           /\ Acts(c, [c EXCEPT !.tries = tries, !.kick = kick])
           /\ Acts(c, [c EXCEPT !.tries = tries])
<1>1. Acts(c, [c EXCEPT !.out = out, !.late = late, !.resends = resends])
  <2> DEFINE e == [c EXCEPT !.out = out, !.late = late, !.resends = resends]
  <2>1. Alike(c, e) /\ SameSocket(c, e)
    BY ZenonT(40) DEF Alike, SameSocket, Client
  <2> HIDE DEF e
  <2>2. Acts(c, e)
    BY <2>1, AlikeActs
  <2> QED BY <2>2 DEF e
<1>2. Acts(c, [c EXCEPT !.late = late, !.resends = resends])
  <2> DEFINE e == [c EXCEPT !.late = late, !.resends = resends]
  <2>1. Alike(c, e) /\ SameSocket(c, e)
    BY ZenonT(40) DEF Alike, SameSocket, Client
  <2> HIDE DEF e
  <2>2. Acts(c, e)
    BY <2>1, AlikeActs
  <2> QED BY <2>2 DEF e
<1>3. Acts(c, [c EXCEPT !.late = late])
  <2> DEFINE e == [c EXCEPT !.late = late]
  <2>1. Alike(c, e) /\ SameSocket(c, e)
    BY DEF Alike, SameSocket, Client
  <2> HIDE DEF e
  <2>2. Acts(c, e)
    BY <2>1, AlikeActs
  <2> QED BY <2>2 DEF e
<1>4. Acts(c, [c EXCEPT !.heal = heal])
  <2> DEFINE e == [c EXCEPT !.heal = heal]
  <2>1. Alike(c, e) /\ SameSocket(c, e)
    BY DEF Alike, SameSocket, Client
  <2> HIDE DEF e
  <2>2. Acts(c, e)
    BY <2>1, AlikeActs
  <2> QED BY <2>2 DEF e
<1>5. Acts(c, [c EXCEPT !.kick = kick])
  <2> DEFINE e == [c EXCEPT !.kick = kick]
  <2>1. Alike(c, e) /\ SameSocket(c, e)
    BY DEF Alike, SameSocket, Client
  <2> HIDE DEF e
  <2>2. Acts(c, e)
    BY <2>1, AlikeActs
  <2> QED BY <2>2 DEF e
<1>6. Acts(c, [c EXCEPT !.tries = tries, !.kick = kick])
  <2> DEFINE e == [c EXCEPT !.tries = tries, !.kick = kick]
  <2>1. Alike(c, e) /\ SameSocket(c, e)
    BY DEF Alike, SameSocket, Client
  <2> HIDE DEF e
  <2>2. Acts(c, e)
    BY <2>1, AlikeActs
  <2> QED BY <2>2 DEF e
<1>7. Acts(c, [c EXCEPT !.tries = tries])
  <2> DEFINE e == [c EXCEPT !.tries = tries]
  <2>1. Alike(c, e) /\ SameSocket(c, e)
    BY DEF Alike, SameSocket, Client
  <2> HIDE DEF e
  <2>2. Acts(c, e)
    BY <2>1, AlikeActs
  <2> QED BY <2>2 DEF e
<1> QED BY <1>1, <1>2, <1>3, <1>4, <1>5, <1>6, <1>7

\* (0) of kickRekey.
LEMMA OverdueActs ==
    ASSUME NEW c \in Client
    PROVE  Acts(c, Overdue(c))
<1> DEFINE t == transmitRekey(c, FALSE)
           r == t.resends + 1
<1>1. Acts(c, t) /\ t \in Client
  BY RekeyActs DEF Acts
<1> HIDE DEF t
<1>2. r \in Nat
  BY <1>1 DEF Client
<1>3. [t EXCEPT !.late = FALSE, !.resends = @ + 1] = [t EXCEPT !.late = FALSE, !.resends = r]
  BY <1>1 DEF Client
<1> HIDE DEF r
<1>4. Acts(t, [t EXCEPT !.late = FALSE, !.resends = r])
  BY <1>1, <1>2, FlagsActs, Zenon
<1>5. Acts(c, [t EXCEPT !.late = FALSE, !.resends = @ + 1])
  BY <1>1, <1>3, <1>4, ActsTwice
<1>6. Acts(c, c) /\ Acts(c, [c EXCEPT !.out = FALSE, !.late = FALSE, !.resends = 0])
  BY ActsSelf, FlagsActs, Zenon
<1> QED BY <1>5, <1>6 DEF Overdue, t

\* (1), (3) and the timer of kickRekey.
LEMMA KickPartsAct ==
    ASSUME NEW c \in Client
    PROVE  Acts(c, DuePing(c)) /\ Acts(c, ParkedHeal(c)) /\ Acts(c, Rearm(c))
<1>1. Acts(c, c) /\ Acts(c, Ping(c)) /\ Acts(c, StartKick(c)) /\ Acts(c, [c EXCEPT !.heal = FALSE])
  BY ActsSelf, RekeyActs, KickActs, FlagsActs, Zenon
<1>2. Acts(c, [Ping(c) EXCEPT !.heal = FALSE])
  <2> DEFINE p == Ping(c)
  <2>1. Acts(c, p) /\ p \in Client
    BY <1>1 DEF Acts
  <2> HIDE DEF p
  <2>2. Acts(p, [p EXCEPT !.heal = FALSE])
    BY <2>1, FlagsActs, Zenon
  <2>3. Acts(c, [p EXCEPT !.heal = FALSE])
    BY <2>1, <2>2, ActsTwice
  <2> QED BY <2>3 DEF p
<1>3. Acts(c, [c EXCEPT !.tries = 0]) /\ Acts(c, [c EXCEPT !.tries = @ + 1, !.kick = TRUE])
  <2> DEFINE k == c.tries + 1
  <2>1. k \in Nat /\ [c EXCEPT !.tries = @ + 1, !.kick = TRUE] = [c EXCEPT !.tries = k, !.kick = TRUE]
    BY DEF Client
  <2> HIDE DEF k
  <2> QED BY <2>1, FlagsActs, Zenon
<1>4. Acts(c, DuePing(c))
  BY <1>1 DEF DuePing
<1>5. Acts(c, ParkedHeal(c))
  BY <1>1, <1>2 DEF ParkedHeal
<1>6. Acts(c, Rearm(c))
  BY <1>1, <1>3 DEF Rearm
<1> QED BY <1>4, <1>5, <1>6

\* kickRekey, while no pong is owed.
LEMMA KickRekeyInv ==
    ASSUME NEW c, ClientInv(c)
    PROVE  ClientInv(kickRekey(c)) /\ kickRekey(c).on = c.on
<1> DEFINE f == [c EXCEPT !.kick = FALSE]
           o == Overdue(f)
           d == DuePing(o)
           h == ParkedHeal(d)
           r == Rearm(h)
<1>1. c \in Client /\ ~c.owed
  BY DEF ClientInv
<1>0. Acts(c, f)
  BY <1>1, FlagsActs, Zenon
<1>2. Acts(c, f) /\ f \in Client
  BY <1>0 DEF Acts
<1>3. kickRekey(c) = IF Up(c) THEN Rearm(ParkedHeal(OwedPong(d))) ELSE f
  BY DEF kickRekey
<1> HIDE DEF f
<1>4. Acts(f, o) /\ o \in Client
  BY <1>2, OverdueActs DEF Acts
<1> HIDE DEF o
<1>5. Acts(o, d) /\ d \in Client
  BY <1>4, KickPartsAct DEF Acts
<1> HIDE DEF d
<1>6. Acts(c, d)
  BY <1>2, <1>4, <1>5, ActsTwice
<1>7. OwedPong(d) = d
  BY <1>1, <1>6, NoPongOwed DEF Acts
<1>8. Acts(d, h) /\ h \in Client
  BY <1>5, KickPartsAct DEF Acts
<1> HIDE DEF h
<1>9. Acts(h, r)
  BY <1>8, KickPartsAct
<1>10. Acts(c, r)
  BY <1>6, <1>8, <1>9, ActsTwice
<1>11. kickRekey(c) = IF Up(c) THEN r ELSE f
  BY <1>3, <1>7 DEF h
<1> HIDE DEF r
<1>12. Acts(c, kickRekey(c))
  BY <1>2, <1>10, <1>11
<1> QED BY <1>12, ActsInv DEF Acts

\* The idle timer, and the heal after a reconnect or an unlock.
LEMMA IdleHealInv ==
    ASSUME NEW c, ClientInv(c)
    PROVE  /\ ClientInv(IdleBackstop(c)) /\ IdleBackstop(c).on = c.on
           /\ ClientInv(reestablishPcsForAll(c)) /\ reestablishPcsForAll(c).on = c.on
<1>1. c \in Client
  BY DEF ClientInv
<1>2. Acts(c, c) /\ Acts(c, Ping(c)) /\ Acts(c, StartKick(c)) /\ Acts(c, [c EXCEPT !.heal = TRUE])
  BY <1>1, ActsSelf, RekeyActs, KickActs, FlagsActs, Zenon
<1>3. Acts(c, [Ping(c) EXCEPT !.heal = FALSE])
  <2> DEFINE p == Ping(c)
  <2>1. Acts(c, p) /\ p \in Client
    BY <1>2 DEF Acts
  <2> HIDE DEF p
  <2>2. Acts(p, [p EXCEPT !.heal = FALSE])
    BY <2>1, FlagsActs, Zenon
  <2>3. Acts(c, [p EXCEPT !.heal = FALSE])
    BY <2>1, <2>2, ActsTwice
  <2> QED BY <2>3 DEF p
<1>4. ASSUME NEW d, Acts(c, d)
      PROVE  Acts(c, StartKick(d))
  <2>1. d \in Client
    BY <1>4 DEF Acts
  <2>2. Acts(d, StartKick(d))
    BY <2>1, KickActs
  <2> QED BY <1>4, <2>2, ActsTwice
<1>5. Acts(c, IdleBackstop(c))
  <2> DEFINE d == IF ~PingDue(c) THEN c ELSE IF Transmittable(c, FALSE) THEN Ping(c) ELSE StartKick(c)
  <2>1. Acts(c, d)
    BY <1>2
  <2>2. IdleBackstop(c) = IF d.owed THEN StartKick(d) ELSE d
    BY DEF IdleBackstop
  <2> HIDE DEF d
  <2> QED BY <1>4, <2>1, <2>2
<1>6. Acts(c, reestablishPcsForAll(c))
  <2> DEFINE d == IF ~c.keyed \/ ~c.sess \/ ~c.gate \/ c.out THEN c
                  ELSE IF Up(c) /\ Transmittable(c, FALSE)
                       THEN [Ping(c) EXCEPT !.heal = FALSE]
                       ELSE [c EXCEPT !.heal = TRUE]
  <2>1. Acts(c, d)
    BY <1>2, <1>3
  <2>2. reestablishPcsForAll(c) = IF d.heal THEN StartKick(d) ELSE d
    BY DEF reestablishPcsForAll
  <2> HIDE DEF d
  <2> QED BY <1>4, <2>1, <2>2
<1>7. IdleBackstop(c).on = c.on /\ reestablishPcsForAll(c).on = c.on
  BY <1>5, <1>6 DEF Acts
<1> QED BY <1>5, <1>6, <1>7, ActsInv

\* A frame that decrypts: the client can answer, so a pong never stays owed, and
\* what was counted before the turn is forgotten, on disk too.
LEMMA ReceivedInv ==
    ASSUME NEW c \in Client, Honest(c), c.gate, c.sess, Chained(c), ~c.owed, c.on = "in",
           NEW f \in Frame
    PROVE  ClientInv(Received(c, f)) /\ Received(c, f).on = "in"
<1> DEFINE d == Decrypt(c, f)
           n == noteInboundFrom(d)
           a == AnswerPing(n, f)
           g == persistSession(a)
<1>1. /\ d \in Client /\ d.gate /\ d.sess /\ d.live /\ ~d.owed /\ d.on = "in"
  <2>1. f.gen \in 0..2
    BY DEF Frame
  <2>2. CASE f.gen = c.seen
    BY <2>1, <2>2 DEF Decrypt, Chained, Unseen
  <2>3. CASE f.gen # c.seen
    <3> DEFINE k == (c.gen + 1) % 3
    <3>1. k \in 0..2
      BY DEF Client
    <3>2. d = [c EXCEPT !.seen = f.gen, !.gen = k, !.live = TRUE, !.since = 0, !.stale = FALSE]
      BY <2>3 DEF Decrypt
    <3> HIDE DEF k, d
    <3>3. c.gate = TRUE /\ c.sess = TRUE /\ c.owed = FALSE
      BY DEF Client
    <3>4. /\ d \in Client /\ d.gate = c.gate /\ d.sess = c.sess /\ d.live = TRUE
          /\ d.owed = c.owed /\ d.on = c.on
      <4> DEFINE fg == f.gen
      <4>1. fg \in 0..3 /\ 0 \in Nat
        BY <2>1
      <4> HIDE DEF fg
      <4>2. d = [c EXCEPT !.seen = fg, !.gen = k, !.live = TRUE, !.since = 0, !.stale = FALSE]
        BY <3>2 DEF fg
      <4> QED BY <3>1, <4>1, <4>2, ZenonT(40) DEF Client
    <3> QED BY <3>3, <3>4
  <2> QED BY <2>2, <2>3
<1> HIDE DEF d
<1>2. /\ n \in Client /\ n.gate /\ n.sess /\ n.live /\ ~n.owed /\ n.on = "in" /\ n.sent = 0
  BY <1>1, ZenonT(40) DEF noteInboundFrom, Client
<1>3. Received(c, f) = IF f.kind = "file" THEN g ELSE flushOutbox(g)
  <2>1. sendOwedPongIfReady(n) = n
    BY <1>2, NoPongOwed
  <2> QED BY <2>1 DEF Received, d
<1> HIDE DEF n
<1>4. a \in Client /\ a.gate /\ a.sess /\ a.live /\ ~a.owed /\ a.on = "in" /\ a.sent = 0
  <2>1. CASE f.kind # "ping"
    BY <1>2, <2>1 DEF AnswerPing
  <2>2. CASE f.kind = "ping"
    <3> DEFINE o == [n EXCEPT !.owed = TRUE]
               t == transmitRekey(o, TRUE)
               r == [t EXCEPT !.owed = FALSE]
    <3>1. o \in Client /\ o.gate /\ o.sess /\ o.live /\ o.owed /\ o.on = "in" /\ o.sent = 0
      BY <1>2, ZenonT(40) DEF Client
    <3>2. a = IF sendOwedPongIfReady(o).owed THEN StartKick(sendOwedPongIfReady(o))
              ELSE sendOwedPongIfReady(o)
      BY <2>2 DEF AnswerPing
    <3> HIDE DEF o
    <3>3. sendOwedPongIfReady(o) = r
      BY <3>1 DEF sendOwedPongIfReady, Up, Transmittable
    <3>4. Acts(o, t) /\ t.sent = o.sent
      BY <3>1, RekeyActs
    <3> HIDE DEF t
    <3>5. t \in Client /\ t.gate /\ t.sess /\ t.live /\ t.on = "in" /\ t.sent = 0
      BY <3>1, <3>4 DEF Acts
    <3>6. r \in Client /\ r.gate /\ r.sess /\ r.live /\ r.on = "in" /\ r.sent = 0 /\ r.owed = FALSE
      BY <3>5, ZenonT(40) DEF Client
    <3> HIDE DEF r
    <3> QED BY <3>2, <3>3, <3>6
  <2> QED BY <2>1, <2>2
<1> HIDE DEF a
<1>5. /\ Acts(a, g) /\ g.sent = 0 /\ g.saved = 0
  BY <1>4, PersistActs DEF NoEntry
<1> HIDE DEF g
<1>6. g \in Client /\ g.gate /\ g.sess /\ g.live /\ ~g.owed /\ g.on = "in" /\ g.since \in Nat
  BY <1>4, <1>5 DEF Acts, Client
<1>7. ClientInv(g)
  BY <1>5, <1>6 DEF ClientInv, Honest, Closed, Chained
<1> QED BY <1>3, <1>6, <1>7, FlushInv

-----------------------------------------------------------------------------
(* The invariant, action by action.                                         *)

\* What a step takes from a client does not matter for it.
LEMMA EmptiedInv ==
    ASSUME NEW c, ClientInv(c)
    PROVE  ClientInv([c EXCEPT !.tx = <<>>]) /\ c.tx \in Seq(Frame)
<1>1. c \in Client
  BY DEF ClientInv
<1> DEFINE e == [c EXCEPT !.tx = <<>>]
<1>2. <<>> \in Seq(Frame)
  OBVIOUS
<1>3. /\ e \in Client /\ e.gate = c.gate /\ e.sess = c.sess /\ e.live = c.live
      /\ e.seen = c.seen /\ e.sent = c.sent /\ e.saved = c.saved /\ e.since = c.since
      /\ e.owed = c.owed
  BY <1>1, <1>2 DEF Client
<1>4. c.tx \in Seq(Frame)
  BY <1>1 DEF Client
<1> HIDE DEF e
<1>5. ClientInv(e)
  BY <1>3 DEF ClientInv, Honest, Closed, Chained
<1> QED BY <1>4, <1>5 DEF e

\* A user becomes another sound client; the mail and the scenario keep their types.
LEMMA Moved ==
    ASSUME IInv, NEW u \in Users, NEW c, ClientInv(c), client' = [client EXCEPT ![u] = c],
           mail' \in [Users -> Seq(Frame)], era' \in Nat,
           "initiator" \in DOMAIN left' /\ left'.initiator \in Users
    PROVE  IInv'
<1>1. client = [v \in Users |-> client[v]] /\ \A v \in Users : ClientInv(client[v])
  BY DEF IInv
<1>2. client' = [v \in Users |-> IF v = u THEN c ELSE client[v]]
  BY <1>1
<1>3. client' = [v \in Users |-> client'[v]] /\ \A v \in Users : ClientInv(client'[v])
  BY <1>1, <1>2
<1> QED BY <1>3 DEF IInv

\* Frames are added to a mailbox.
LEMMA MailGrows ==
    ASSUME NEW m \in [Users -> Seq(Frame)], NEW v, NEW t \in Seq(Frame)
    PROVE  [m EXCEPT ![v] = @ \o t] \in [Users -> Seq(Frame)]
<1>1. ASSUME v \in Users PROVE m[v] \o t \in Seq(Frame)
  BY <1>1
<1> QED BY <1>1

\* What the scenario still allows does not change who the initiator is.
LEMMA Spent ==
    ASSUME IInv, NEW field \in {"drops", "unlocks", "logins", "reinstalls"}, Spend(field)
    PROVE  "initiator" \in DOMAIN left' /\ left'.initiator \in Users
BY DEF IInv, Spend

\* The same for what is counted per user.
LEMMA SpentBy ==
    ASSUME IInv, NEW u \in Users, SpendBy(u, "sends")
    PROVE  "initiator" \in DOMAIN left' /\ left'.initiator \in Users
BY DEF IInv, SpendBy

\* A handler of u that leaves a sound client.
LEMMA StepInv ==
    ASSUME IInv, NEW u \in Users, NEW c, ClientInv(c), Step(u, c), era' = era,
           "initiator" \in DOMAIN left' /\ left'.initiator \in Users
    PROVE  IInv'
<1> DEFINE e == [c EXCEPT !.tx = <<>>]
<1>1. ClientInv(e) /\ c.tx \in Seq(Frame)
  BY EmptiedInv
<1>2. client' = [client EXCEPT ![u] = e]
  BY DEF Step
<1> HIDE DEF e
<1>3. mail \in [Users -> Seq(Frame)] /\ era \in Nat
  BY DEF IInv
<1>4. [mail EXCEPT ![Other(u)] = @ \o c.tx] \in [Users -> Seq(Frame)]
  BY <1>1, <1>3, MailGrows
<1>5. mail' \in [Users -> Seq(Frame)]
  BY <1>3, <1>4 DEF Step
<1> QED BY <1>1, <1>2, <1>3, <1>5, Moved

\* A new session: no frame sent under it, none of the peer's key pairs known.
LEMMA BootstrappedIs ==
    ASSUME NEW c \in Client, NEW initiator \in BOOLEAN
    PROVE  LET e == Bootstrapped(c, initiator) IN
           /\ e \in Client /\ e.gate = c.gate /\ e.sent = c.sent /\ e.saved = c.saved
           /\ e.since = 0 /\ e.owed = c.owed /\ e.seen = Unseen /\ e.on = c.on
<1> DEFINE e == Bootstrapped(c, initiator)
           z == 0
<1>1. Unseen \in 0..3 /\ z \in 0..2 /\ z \in Nat
  BY DEF Unseen
<1>2. e = [c EXCEPT !.sess = TRUE, !.live = initiator, !.gen = z, !.seen = Unseen,
                    !.since = z, !.stale = FALSE]
  BY DEF Bootstrapped
<1> HIDE DEF e, z
<1>3. /\ e \in Client /\ e.gate = c.gate /\ e.sent = c.sent /\ e.saved = c.saved
      /\ e.since = z /\ e.owed = c.owed /\ e.seen = Unseen /\ e.on = c.on
  BY <1>1, <1>2, ZenonT(40) DEF Client
<1> QED BY <1>3 DEF e, z

\* The sessions of a resolved episode.
LEMMA OpenedInv ==
    ASSUME NEW c, ClientInv(c), ~c.gate, NEW initiator \in BOOLEAN
    PROVE  ClientInv(Bootstrapped(resetPcsFor([c EXCEPT !.gate = TRUE]), initiator))
<1> DEFINE o == [c EXCEPT !.gate = TRUE]
           r == resetPcsFor(o)
           e == Bootstrapped(r, initiator)
<1>1. c \in Client /\ c.saved = 0 /\ c.owed = FALSE
  BY DEF ClientInv, Closed, Client
<1>2. o \in Client /\ o.saved = 0 /\ o.owed = FALSE /\ o.gate = TRUE
  BY <1>1, ZenonT(40) DEF Client
<1> HIDE DEF o
<1>3. r \in Client /\ r.saved = 0 /\ r.owed = FALSE /\ r.gate = TRUE /\ r.sent = NoEntry
  BY <1>2, ZenonT(40) DEF resetPcsFor, Client
<1> HIDE DEF r
<1>4. /\ e \in Client /\ e.saved = 0 /\ e.owed = FALSE /\ e.gate = TRUE /\ e.sent = NoEntry
      /\ e.since = 0 /\ e.seen = Unseen
  BY <1>3, BootstrappedIs
<1> HIDE DEF e
<1>5. ClientInv(e)
  BY <1>4 DEF ClientInv, Honest, Closed, Chained, NoEntry
<1> QED BY <1>5 DEF e, r, o

\* The initial clients are sound.
LEMMA InitInv == Init => IInv
<1>0. SUFFICES ASSUME NEW s \in Starts,
                    client = [u \in Users |->
                        IF s.established
                        THEN [Blank EXCEPT !.sess = TRUE, !.live = TRUE,
                                           !.gen = IF u = s.initiator THEN 1 ELSE 0, !.seen = 0]
                        ELSE Bootstrapped(Blank, u = s.initiator)],
                    mail = [u \in Users |-> <<>>], era = 0, left = s
             PROVE  IInv
  BY Zenon DEF Init
<1>1. "initiator" \in DOMAIN left /\ left.initiator \in Users
  BY <1>0, RekeyAssumption
<1>2. <<>> \in Seq(Frame)
  OBVIOUS
<1>3. mail \in [Users -> Seq(Frame)] /\ era \in Nat
  BY <1>0, <1>2
<1>4. Blank \in Client /\ Blank.gate = TRUE /\ Blank.sent = NoEntry /\ Blank.saved = 0
      /\ Blank.since = 0 /\ Blank.owed = FALSE
  BY <1>2 DEF Blank, Client, Unseen
<1>5. ASSUME NEW initiator \in BOOLEAN PROVE ClientInv(Bootstrapped(Blank, initiator))
  <2> DEFINE B == Blank
             e == Bootstrapped(B, initiator)
  <2>1. B \in Client /\ B = Blank
    BY <1>4
  <2> HIDE DEF B
  <2>2. /\ e \in Client /\ e.gate = B.gate /\ e.sent = B.sent /\ e.saved = B.saved
        /\ e.since = 0 /\ e.owed = B.owed /\ e.seen = Unseen
    BY <2>1, BootstrappedIs
  <2> HIDE DEF e
  <2>3. ClientInv(e)
    BY <1>4, <2>1, <2>2 DEF ClientInv, Honest, Closed, Chained, NoEntry
  <2> QED BY <2>3 DEF e, B
<1>6. ASSUME NEW k \in 0..2
      PROVE  ClientInv([Blank EXCEPT !.sess = TRUE, !.live = TRUE, !.gen = k, !.seen = 0])
  <2> DEFINE B == Blank
             e == [B EXCEPT !.sess = TRUE, !.live = TRUE, !.gen = k, !.seen = 0]
  <2>1. B \in Client /\ B = Blank
    BY <1>4
  <2> HIDE DEF B
  <2>2. /\ e \in Client /\ e.gate = B.gate /\ e.sent = B.sent /\ e.saved = B.saved
        /\ e.since = B.since /\ e.owed = B.owed /\ e.live = TRUE
    <3>1. 0 \in 0..3
      OBVIOUS
    <3> QED BY <2>1, <3>1, ZenonT(40) DEF Client
  <2> HIDE DEF e
  <2>3. ClientInv(e)
    BY <1>4, <2>1, <2>2 DEF ClientInv, Honest, Closed, Chained, NoEntry
  <2> QED BY <2>3 DEF e, B
<1>7. ASSUME NEW u \in Users PROVE ClientInv(client[u])
  <2>1. client[u] = IF s.established
                    THEN [Blank EXCEPT !.sess = TRUE, !.live = TRUE,
                                       !.gen = IF u = s.initiator THEN 1 ELSE 0, !.seen = 0]
                    ELSE Bootstrapped(Blank, u = s.initiator)
    BY <1>0
  <2> DEFINE k == IF u = s.initiator THEN 1 ELSE 0
             i == u = s.initiator
  <2>2. k \in 0..2 /\ i \in BOOLEAN
    OBVIOUS
  <2>3. client[u] = IF s.established
                    THEN [Blank EXCEPT !.sess = TRUE, !.live = TRUE, !.gen = k, !.seen = 0]
                    ELSE Bootstrapped(Blank, i)
    BY <2>1
  <2> HIDE DEF k, i
  <2> QED BY <1>5, <1>6, <2>2, <2>3
<1>8. client = [u \in Users |-> client[u]]
  BY <1>0
<1> QED BY <1>1, <1>3, <1>7, <1>8 DEF IInv

\* A flag or the socket of a client changes, nothing that the invariant reads.
LEMMA SetInv ==
    ASSUME NEW c, ClientInv(c), NEW on \in {"down", "open", "in"}, NEW b \in BOOLEAN, NEW q \in Nat
    PROVE  /\ ClientInv([c EXCEPT !.on = on])
           /\ ClientInv([c EXCEPT !.keyed = b])
           /\ ClientInv([c EXCEPT !.late = b])
           /\ ClientInv([c EXCEPT !.peerOn = b])
           /\ ClientInv([c EXCEPT !.on = on, !.stale = b])
           /\ ClientInv([c EXCEPT !.queued = q])
           /\ [c EXCEPT !.on = on].on = on
           /\ [c EXCEPT !.keyed = b].on = c.on
<1>1. c \in Client
  BY DEF ClientInv
<1>2. ClientInv([c EXCEPT !.on = on])
  <2> DEFINE e == [c EXCEPT !.on = on]
  <2>1. Alike(c, e)
    BY <1>1 DEF Alike, Client
  <2> HIDE DEF e
  <2>2. ClientInv(e)
    BY <2>1, AlikeActs
  <2> QED BY <2>2 DEF e
<1>3. ClientInv([c EXCEPT !.keyed = b])
  <2> DEFINE e == [c EXCEPT !.keyed = b]
  <2>1. Alike(c, e)
    BY <1>1 DEF Alike, Client
  <2> HIDE DEF e
  <2>2. ClientInv(e)
    BY <2>1, AlikeActs
  <2> QED BY <2>2 DEF e
<1>4. ClientInv([c EXCEPT !.late = b])
  <2> DEFINE e == [c EXCEPT !.late = b]
  <2>1. Alike(c, e)
    BY <1>1 DEF Alike, Client
  <2> HIDE DEF e
  <2>2. ClientInv(e)
    BY <2>1, AlikeActs
  <2> QED BY <2>2 DEF e
<1>5. ClientInv([c EXCEPT !.peerOn = b])
  <2> DEFINE e == [c EXCEPT !.peerOn = b]
  <2>1. Alike(c, e)
    BY <1>1 DEF Alike, Client
  <2> HIDE DEF e
  <2>2. ClientInv(e)
    BY <2>1, AlikeActs
  <2> QED BY <2>2 DEF e
<1>6. ClientInv([c EXCEPT !.on = on, !.stale = b])
  <2> DEFINE e == [c EXCEPT !.on = on, !.stale = b]
  <2>1. Alike(c, e)
    BY <1>1, ZenonT(40) DEF Alike, Client
  <2> HIDE DEF e
  <2>2. ClientInv(e)
    BY <2>1, AlikeActs
  <2> QED BY <2>2 DEF e
<1>7. ClientInv([c EXCEPT !.queued = q])
  <2> DEFINE e == [c EXCEPT !.queued = q]
  <2>1. Alike(c, e)
    BY <1>1 DEF Alike, Client
  <2> HIDE DEF e
  <2>2. ClientInv(e)
    BY <2>1, AlikeActs
  <2> QED BY <2>2 DEF e
<1>8. [c EXCEPT !.on = on].on = on /\ [c EXCEPT !.keyed = b].on = c.on
  BY <1>1 DEF Client
<1> QED BY <1>2, <1>3, <1>4, <1>5, <1>6, <1>7, <1>8

\* The users write, the timers fire.
LEMMA TimersStep ==
    ASSUME IInv, NEW u \in Users,
           \/ \E kind \in {"text", "file"} : Send(u, kind)
           \/ Timers(u) \/ Unlock(u)
    PROVE  IInv'
<1> DEFINE c == client[u]
<1>0. /\ ClientInv(c) /\ c \in Client /\ era \in Nat /\ mail \in [Users -> Seq(Frame)]
      /\ "initiator" \in DOMAIN left /\ left.initiator \in Users
  BY DEF IInv, ClientInv
<1>1. CASE \E kind \in {"text", "file"} : Send(u, kind)
  <2>1. PICK kind \in {"text", "file"} : Send(u, kind)
    BY <1>1
  <2> DEFINE q == c.queued + 1
             e == IF Sendable(c) THEN Emit(c, kind) ELSE [c EXCEPT !.queued = @ + 1]
  <2>2. Step(u, e) /\ era' = era /\ SpendBy(u, "sends")
    BY <2>1 DEF Send
  <2>3. q \in Nat /\ [c EXCEPT !.queued = @ + 1] = [c EXCEPT !.queued = q]
    BY <1>0 DEF Client
  <2>4. ClientInv([c EXCEPT !.queued = @ + 1])
    <3> HIDE DEF q
    <3> QED BY <1>0, <2>3, SetInv, Zenon
  <2>5. Sendable(c) => ClientInv(Emit(c, kind))
    <3>1. Sendable(c) => c.gate
      BY DEF Sendable
    <3> HIDE DEF c
    <3> QED BY <1>0, <3>1, EmitActs, ActsInv
  <2>6. ClientInv(e)
    BY <2>4, <2>5
  <2> HIDE DEF e
  <2>7. "initiator" \in DOMAIN left' /\ left'.initiator \in Users
    BY <2>2, SpentBy
  <2> QED BY <2>2, <2>6, <2>7, StepInv
<1>2. CASE Idle(u)
  <2>1. Step(u, IdleBackstop(c)) /\ era' = era /\ left' = left
    BY <1>2 DEF Idle
  <2>2. ClientInv(IdleBackstop(c))
    BY <1>0, IdleHealInv
  <2> QED BY <1>0, <2>1, <2>2, StepInv
<1>3. CASE Kick(u)
  <2>1. Step(u, kickRekey(c)) /\ era' = era /\ left' = left
    BY <1>3 DEF Kick
  <2>2. ClientInv(kickRekey(c))
    BY <1>0, KickRekeyInv
  <2> QED BY <1>0, <2>1, <2>2, StepInv
<1>4. CASE PongTimeout(u)
  <2> DEFINE e == [c EXCEPT !.late = TRUE]
  <2>1. client' = [client EXCEPT ![u] = e] /\ mail' = mail /\ era' = era /\ left' = left
    BY <1>4 DEF PongTimeout
  <2>2. ClientInv(e)
    BY <1>0, SetInv, Zenon
  <2> HIDE DEF e
  <2> QED BY <1>0, <2>1, <2>2, Moved
<1>5. CASE Unlock(u)
  <2>1. Step(u, reestablishPcsForAll(c)) /\ era' = era /\ Spend("unlocks")
    BY <1>5 DEF Unlock
  <2>2. ClientInv(reestablishPcsForAll(c))
    BY <1>0, IdleHealInv
  <2>3. "initiator" \in DOMAIN left' /\ left'.initiator \in Users
    BY <2>1, Spent
  <2> QED BY <2>1, <2>2, <2>3, StepInv
<1> QED BY <1>1, <1>2, <1>3, <1>4, <1>5 DEF Timers

\* A frame arrives.
LEMMA ReceiveStep ==
    ASSUME IInv, NEW u \in Users, Receive(u)
    PROVE  IInv'
<1> DEFINE c == client[u]
           f == Head(mail[u])
           s == [c EXCEPT !.sess = TRUE]
           d == IF f.era = c.era /\ (c.sess \/ c.gate) THEN Received(s, f) ELSE c
           e == [d EXCEPT !.tx = <<>>]
<1>0. /\ ClientInv(c) /\ c \in Client /\ era \in Nat /\ mail \in [Users -> Seq(Frame)]
      /\ "initiator" \in DOMAIN left /\ left.initiator \in Users
  BY DEF IInv, ClientInv
<1>1. /\ c.on = "in" /\ mail[u] # <<>> /\ client' = [client EXCEPT ![u] = e]
      /\ mail' = [mail EXCEPT ![u] = Tail(@), ![Other(u)] = @ \o d.tx]
      /\ era' = era /\ left' = left
  BY DEF Receive
<1>2. mail[u] \in Seq(Frame)
  BY <1>0
<1>3. f \in Frame /\ Tail(mail[u]) \in Seq(Frame)
  BY <1>1, <1>2
<1>4. ClientInv(d)
  <2>1. CASE f.era = c.era /\ (c.sess \/ c.gate)
    <3>1. Honest(c) /\ Closed(c) /\ Chained(c) /\ ~c.owed
      BY <1>0 DEF ClientInv
    <3>2. c.gate
      BY <2>1, <3>1 DEF Closed
    <3>3. /\ s \in Client /\ s.sess = TRUE /\ s.gate = c.gate /\ s.live = c.live /\ s.seen = c.seen
          /\ s.sent = c.sent /\ s.saved = c.saved /\ s.since = c.since /\ s.owed = c.owed
          /\ s.on = c.on
      BY <1>0 DEF Client
    <3> HIDE DEF s, c, f
    <3>4. Honest(s) /\ Chained(s)
      BY <3>1, <3>3 DEF Honest, Chained
    <3>5. ClientInv(Received(s, f))
      BY <1>1, <1>3, <3>1, <3>2, <3>3, <3>4, ReceivedInv
    <3> QED BY <2>1, <3>5
  <2> QED BY <1>0, <2>1
<1> HIDE DEF d
<1>5. ClientInv(e) /\ d.tx \in Seq(Frame)
  BY <1>4, EmptiedInv
<1> HIDE DEF e
<1>6. mail' \in [Users -> Seq(Frame)]
  <2> DEFINE m == [mail EXCEPT ![u] = Tail(mail[u])]
  <2>1. m \in [Users -> Seq(Frame)]
    BY <1>0, <1>3
  <2>2. mail' = [m EXCEPT ![Other(u)] = @ \o d.tx]
    <3> DEFINE v == Other(u)
               t == d.tx
    <3>1. mail' = [mail EXCEPT ![u] = Tail(@), ![v] = @ \o t]
      BY <1>1
    <3>0. v \in Users /\ v # u
      BY RekeyAssumption DEF Other
    <3> HIDE DEF v, t
    <3>2. mail' = [m EXCEPT ![v] = @ \o t]
      BY <1>0, <3>0, <3>1
    <3> QED BY <3>2 DEF v, t
  <2> HIDE DEF m
  <2> QED BY <1>5, <2>1, <2>2, MailGrows
<1> QED BY <1>0, <1>1, <1>5, <1>6, Moved

\* The socket, the keys and the presence of the peer.
LEMMA NetworkStep ==
    ASSUME IInv, NEW u \in Users, Network(u)
    PROVE  IInv'
<1> DEFINE c == client[u]
<1>0. /\ ClientInv(c) /\ c \in Client /\ era \in Nat /\ mail \in [Users -> Seq(Frame)]
      /\ "initiator" \in DOMAIN left /\ left.initiator \in Users
  BY DEF IInv, ClientInv
<1>1. CASE onConnected(u)
  <2> DEFINE o == [c EXCEPT !.on = "open"]
             e == IF o.owed \/ o.sent # NoEntry THEN StartKick(o) ELSE o
  <2>1. Step(u, e) /\ era' = era /\ left' = left
    BY <1>1 DEF onConnected
  <2>2. ClientInv(o)
    BY <1>0, SetInv, Zenon
  <2> HIDE DEF o
  <2>3. ClientInv(StartKick(o))
    <3>1. o \in Client
      BY <2>2 DEF ClientInv
    <3> QED BY <2>2, <3>1, KickActs, ActsInv
  <2>4. ClientInv(e)
    BY <2>2, <2>3
  <2> HIDE DEF e
  <2> QED BY <1>0, <2>1, <2>4, StepInv
<1>2. CASE completeHello(u)
  <2> DEFINE o == [c EXCEPT !.on = "in"]
             g == flushOutbox(o)
  <2>1. Step(u, reestablishPcsForAll(g)) /\ era' = era /\ left' = left
    BY <1>2 DEF completeHello
  <2>2. ClientInv(o)
    BY <1>0, SetInv, Zenon
  <2> HIDE DEF o
  <2>3. ClientInv(g)
    BY <2>2, FlushInv
  <2> HIDE DEF g
  <2>4. ClientInv(reestablishPcsForAll(g))
    BY <2>3, IdleHealInv
  <2> QED BY <1>0, <2>1, <2>4, StepInv
<1>3. CASE KeysArrive(u)
  <2> DEFINE o == [c EXCEPT !.keyed = TRUE]
  <2>1. Step(u, flushOutbox(o)) /\ era' = era /\ left' = left
    BY <1>3 DEF KeysArrive
  <2>2. ClientInv(o)
    BY <1>0, SetInv, Zenon
  <2> HIDE DEF o
  <2>3. ClientInv(flushOutbox(o))
    BY <2>2, FlushInv
  <2> QED BY <1>0, <2>1, <2>3, StepInv
<1>4. CASE Receive(u)
  BY <1>4, ReceiveStep
<1>5. CASE Presence(u)
  <2> DEFINE b == client[Other(u)].on = "in"
             e == [c EXCEPT !.peerOn = b]
  <2>1. client' = [client EXCEPT ![u] = e] /\ mail' = mail /\ era' = era /\ left' = left
    BY <1>5 DEF Presence
  <2>2. b \in BOOLEAN
    OBVIOUS
  <2> HIDE DEF b
  <2>3. ClientInv(e)
    BY <1>0, <2>2, SetInv, Zenon
  <2> HIDE DEF e
  <2> QED BY <1>0, <2>1, <2>3, Moved
<1>6. CASE AdoptKey(u)
  <2> DEFINE r == resetPcsFor(c)
             n == era
             z == 0
             e == [r EXCEPT !.gate = FALSE, !.era = n,
                            !.sess = FALSE, !.live = FALSE, !.since = z, !.saved = z, !.stale = FALSE]
  <2>1. client' = [client EXCEPT ![u] = e] /\ mail' = mail /\ era' = era /\ left' = left
    BY <1>6 DEF AdoptKey
  <2>2. ~c.owed
    BY <1>0 DEF ClientInv
  <2>3. r \in Client /\ r.sent = NoEntry /\ r.owed = c.owed
    BY <1>0 DEF resetPcsFor, Client
  <2>4. n \in Nat /\ z \in Nat
    BY <1>0
  <2> HIDE DEF r, n, z
  <2>5. /\ e \in Client /\ e.sent = NoEntry /\ e.owed = r.owed /\ e.gate = FALSE /\ e.sess = FALSE
        /\ e.since = z /\ e.saved = z
    BY <2>3, <2>4, ZenonT(40) DEF Client
  <2> HIDE DEF e
  <2>6. ClientInv(e)
    BY <2>2, <2>3, <2>5 DEF ClientInv, Honest, Closed, Chained, NoEntry, z
  <2> QED BY <1>0, <2>1, <2>6, Moved
<1> QED BY <1>1, <1>2, <1>3, <1>4, <1>5, <1>6 DEF Network

\* Any part of a mailbox is one.
LEMMA MailPart ==
    ASSUME NEW m \in Seq(Frame), NEW i \in 0..Len(m)
    PROVE  SubSeq(m, i + 1, Len(m)) \in Seq(Frame) /\ SubSeq(m, 1, Len(m) - i) \in Seq(Frame)
<1>1. Len(m) \in Nat /\ \A k \in 1..Len(m) : m[k] \in Frame
  BY ElementOfSeq, LenProperties
<1>2. i \in Nat /\ i <= Len(m)
  BY <1>1
<1>3. \A k \in (i + 1)..Len(m) : m[k] \in Frame
  BY <1>1, <1>2
<1>4. \A k \in 1..(Len(m) - i) : m[k] \in Frame
  BY <1>1, <1>2
<1> QED BY <1>1, <1>2, <1>3, <1>4, SubSeqProperties

\* A link is lost, a user logs in again or starts with a new identity.
LEMMA RestartsStep ==
    ASSUME IInv, NEW u \in Users, Drop(u) \/ Relogin(u) \/ Reinstall(u)
    PROVE  IInv'
<1> DEFINE c == client[u]
<1>0. /\ ClientInv(c) /\ c \in Client /\ era \in Nat /\ mail \in [Users -> Seq(Frame)]
  BY DEF IInv, ClientInv
<1>1. CASE Drop(u)
  <2> DEFINE b == c.sess
             e == [c EXCEPT !.on = "down", !.stale = b]
             v == Other(u)
  <2>1. /\ client' = [client EXCEPT ![u].on = "down", ![u].stale = b] /\ Spend("drops") /\ era' = era
        /\ \E i \in 0..Len(mail[u]), j \in 0..Len(mail[v]) :
               mail' = [mail EXCEPT ![u] = SubSeq(@, i + 1, Len(@)),
                                    ![v] = SubSeq(@, 1, Len(@) - j)]
    BY <1>1 DEF Drop
  <2>2. client' = [client EXCEPT ![u] = e]
    BY <2>1 DEF IInv
  <2>3. b \in BOOLEAN
    BY <1>0 DEF Client
  <2> HIDE DEF b
  <2>4. ClientInv(e)
    BY <1>0, <2>3, SetInv, Zenon
  <2> HIDE DEF e
  <2>5. v \in Users /\ v # u
    BY RekeyAssumption DEF Other
  <2> HIDE DEF v
  <2>6. PICK i \in 0..Len(mail[u]), j \in 0..Len(mail[v]) :
               mail' = [mail EXCEPT ![u] = SubSeq(@, i + 1, Len(@)),
                                    ![v] = SubSeq(@, 1, Len(@) - j)]
    BY <2>1
  <2> DEFINE x == SubSeq(mail[u], i + 1, Len(mail[u]))
             y == SubSeq(mail[v], 1, Len(mail[v]) - j)
  <2>7. mail' = [mail EXCEPT ![u] = x, ![v] = y]
    BY <1>0, <2>5, <2>6
  <2>8. x \in Seq(Frame) /\ y \in Seq(Frame)
    <3>1. mail[u] \in Seq(Frame) /\ mail[v] \in Seq(Frame)
      BY <1>0, <2>5
    <3> QED BY <3>1, MailPart
  <2> HIDE DEF x, y
  <2>9. mail' \in [Users -> Seq(Frame)]
    BY <1>0, <2>7, <2>8
  <2>10. "initiator" \in DOMAIN left' /\ left'.initiator \in Users
    BY <2>1, Spent
  <2> QED BY <1>0, <2>1, <2>2, <2>4, <2>9, <2>10, Moved
<1>2. CASE Relogin(u)
  <2> DEFINE d == clearPcsState(c)
             n == IF d.sess /\ d.saved > 0 THEN d.saved ELSE NoEntry
             b == d.sess
             e == [d EXCEPT !.on = "down", !.keyed = FALSE, !.stale = b, !.sent = n]
  <2>1. client' = [client EXCEPT ![u] = e] /\ mail' = mail /\ era' = era /\ Spend("logins")
    BY <1>2 DEF Relogin
  <2>2. /\ d \in Client /\ d.owed = FALSE /\ d.gate = c.gate /\ d.sess = c.sess /\ d.live = c.live
        /\ d.seen = c.seen /\ d.saved = c.saved /\ d.since = c.since
    BY <1>0, ZenonT(40) DEF clearPcsState, Client
  <2> HIDE DEF d
  <2>3. d.saved \in Nat /\ d.since \in Nat /\ b \in BOOLEAN
    BY <2>2 DEF Client
  <2>4. d.saved <= d.since /\ (~d.gate => ~d.sess /\ d.saved = 0) /\ Chained(d)
    BY <1>0, <2>2 DEF ClientInv, Honest, Closed, Chained
  <2>5. n \in Nat \cup {NoEntry} /\ n <= d.since /\ (~d.gate => n <= 0)
    BY <2>3, <2>4 DEF NoEntry
  <2> HIDE DEF n, b
  <2>6. /\ e \in Client /\ e.owed = d.owed /\ e.gate = d.gate /\ e.sess = d.sess /\ e.live = d.live
        /\ e.seen = d.seen /\ e.saved = d.saved /\ e.since = d.since /\ e.sent = n
    BY <2>2, <2>3, <2>5, ZenonT(40) DEF Client
  <2> HIDE DEF e
  <2>7. ClientInv(e)
    BY <2>2, <2>4, <2>5, <2>6 DEF ClientInv, Honest, Closed, Chained
  <2>8. "initiator" \in DOMAIN left' /\ left'.initiator \in Users
    BY <2>1, Spent
  <2> QED BY <1>0, <2>1, <2>7, <2>8, Moved
<1>3. CASE Reinstall(u)
  <2> DEFINE n == era + 1
             B == Blank
             e == [B EXCEPT !.era = n, !.gate = FALSE]
  <2>1. client' = [client EXCEPT ![u] = e] /\ mail' = mail /\ era' = n /\ Spend("reinstalls")
    BY <1>3 DEF Reinstall
  <2>2. n \in Nat /\ <<>> \in Seq(Frame)
    BY <1>0
  <2>3. /\ B \in Client /\ B.sent = NoEntry /\ B.saved = 0 /\ B.since = 0 /\ B.owed = FALSE
        /\ B.sess = FALSE
    BY <2>2 DEF Blank, Client, Unseen
  <2> HIDE DEF n, B
  <2>4. /\ e \in Client /\ e.sent = B.sent /\ e.saved = B.saved /\ e.since = B.since
        /\ e.owed = B.owed /\ e.sess = B.sess /\ e.gate = FALSE
    BY <2>2, <2>3, ZenonT(40) DEF Client
  <2> HIDE DEF e
  <2>5. ClientInv(e)
    BY <2>3, <2>4 DEF ClientInv, Honest, Closed, Chained, NoEntry
  <2>6. "initiator" \in DOMAIN left' /\ left'.initiator \in Users
    BY <2>1, Spent
  <2> QED BY <1>0, <2>1, <2>2, <2>5, <2>6, Moved
<1> QED BY <1>1, <1>2, <1>3

\* An episode of the gate is resolved.
LEMMA GateStep ==
    ASSUME IInv, GateOpens
    PROVE  IInv'
<1> DEFINE opened(u) == Bootstrapped(resetPcsFor([client[u] EXCEPT !.gate = TRUE]), u = left.initiator)
           i == left.initiator
           o == opened(i)
           w == Write(o, "handshake")
           p == persistSession(w)
           c == flushOutbox(p)
           e == [c EXCEPT !.tx = <<>>]
<1>1. /\ \A u \in Users : ~client[u].gate
      /\ client' = [u \in Users |-> IF u = i THEN e ELSE opened(u)]
      /\ mail' = [mail EXCEPT ![Other(i)] = @ \o c.tx]
      /\ era' = era /\ left' = left
  BY DEF GateOpens, GateDue
<1>2. /\ era \in Nat /\ mail \in [Users -> Seq(Frame)] /\ \A u \in Users : ClientInv(client[u])
      /\ "initiator" \in DOMAIN left /\ i \in Users
  BY DEF IInv
<1>3. \A u \in Users : ClientInv(opened(u))
  BY <1>1, <1>2, OpenedInv
<1> HIDE DEF opened
<1>4. ClientInv(o)
  BY <1>2, <1>3
<1> HIDE DEF o
<1>5. Acts(o, w) /\ ClientInv(w)
  BY <1>4, WriteActs, ActsInv DEF ClientInv
<1> HIDE DEF w
<1>6. ClientInv(p)
  <2>1. w \in Client
    BY <1>5 DEF ClientInv
  <2> QED BY <1>5, <2>1, PersistActs, ActsInv
<1> HIDE DEF p
<1>7. ClientInv(c)
  BY <1>6, FlushInv
<1> HIDE DEF c
<1>8. ClientInv(e) /\ c.tx \in Seq(Frame)
  BY <1>7, EmptiedInv
<1> HIDE DEF e
<1>9. mail' \in [Users -> Seq(Frame)]
  BY <1>1, <1>2, <1>8, MailGrows
<1>10. client' = [u \in Users |-> client'[u]] /\ \A u \in Users : ClientInv(client'[u])
  BY <1>1, <1>3, <1>8
<1> QED BY <1>1, <1>2, <1>9, <1>10 DEF IInv

-----------------------------------------------------------------------------
(* Theorems.                                                                 *)

\* The inductive invariant holds for any window, any limits and any scenario.
THEOREM Invariance == Spec => []IInv
<1>1. IInv /\ [Next]_vars => IInv'
  <2> SUFFICES ASSUME IInv, [Next]_vars PROVE IInv'
    OBVIOUS
  <2>1. CASE UNCHANGED vars
    BY <2>1 DEF vars, IInv
  <2>2. CASE Next
    BY <2>2, TimersStep, NetworkStep, RestartsStep, GateStep DEF Next
  <2> QED BY <2>1, <2>2
<1> QED BY <1>1, InitInv, PTL DEF Spec

\* The count of one-way frames (m_sentSinceRatchet), also one restored from the
\* history store, is at most the number of frames really sent under the key pair in
\* force, however long the queue is that flushOutbox empties.
THEOREM WindowHonestHolds == Spec => []WindowHonest
<1>1. IInv => WindowHonest
  BY DEF IInv, ClientInv, Honest, WindowHonest
<1> QED BY <1>1, Invariance, PTL

\* A pong is sent by the step that decrypts the ping, always: a client that has
\* decrypted a frame of its peer has a sending chain.
THEOREM PongAtOnceHolds == Spec => []PongAtOnce
<1>1. IInv => PongAtOnce
  BY DEF IInv, ClientInv, PongAtOnce
<1> QED BY <1>1, Invariance, PTL
=============================================================================

------------------------- MODULE Verification_proofs -------------------------
(***************************************************************************)
(* Proofs about Verification: what a client believes and records of its    *)
(* peer's confirmation, and the gate, for any keys, queues, interleaving   *)
(* and number of reconnects, logouts and reinstalls.                       *)
(***************************************************************************)
EXTENDS Verification, WellFoundedInduction, FiniteSetTheorems, TLAPS

-----------------------------------------------------------------------------
(* The inductive invariant, about one client c of user u at a time.  C and R *)
(* stand for the histories confirmed and restarted.                          *)

StoredFrame == AckFrame \cup MessageFrame
TxFrame == StoredFrame \cup [type : {"verify_resync", "getkey"}]
Item ==
    [kind : {"text"}, held : BOOLEAN] \cup [kind : {"handshake"}]
    \cup [kind : {"verifyack"}, peer_ik : Keys]
Session ==
    {NoSession} \cup [pair : Keys \X Keys, send : Chain, recv : Chain, ready : BOOLEAN]
KeyOrNone == Keys \cup {0}
Disk == [session : Session, ident : KeyOrNone, verified : KeyOrNone, attested : KeyOrNone]

Client ==
    [key : Keys, loggedIn : BOOLEAN, on : BOOLEAN, peerKey : KeyOrNone, ident : KeyOrNone,
     session : Session, flagged : BOOLEAN, pending : BOOLEAN, peerVerified : BOOLEAN,
     attested : KeyOrNone, verified : KeyOrNone, ackOwed : BOOLEAN, adopted : KeyOrNone,
     throttled : BOOLEAN, stash : Seq(StoredFrame), outbox : Seq(Item), disk : Disk, dh : Nat,
     adoptions : Nat, tried : SUBSET Keys, tx : Seq(TxFrame), lost : Seq(Keys \X Keys)]

\* A session is one of this key and the peer's.
Between(s, key, ident) == s # NoSession => ident # 0 /\ s.pair = PairOf(key, ident)

\* What holds of a client whatever it did: the stores of the peer's key agree, a
\* session belongs to it, and an episode is about a key that is held.
Linked(c) ==
    /\ c.on => c.loggedIn
    /\ c.peerKey \in {0, c.ident}
    /\ Between(c.session, c.key, c.ident)
    /\ Between(c.disk.session, c.key, c.disk.ident)
    /\ c.loggedIn /\ c.ident = 0 => c.disk.session = NoSession
    /\ c.flagged => c.pending
    /\ c.pending \/ c.peerVerified => c.peerKey # 0

\* The guard m_rebootstrapAdopted holds the last key adopted.
Guarded(c) ==
    /\ c.adoptions = 0 => c.adopted = 0
    /\ c.adoptions > 0 => c.adopted \in c.tried
    /\ c.adoptions > 1 => \E a, b \in c.tried : a # b

\* The gate: a closed episode is recorded, an own confirmation was given, and
\* what is believed of the peer was.
Gate(u, c, C, R) ==
    /\ c.pending /\ ~c.flagged => <<u, c.key, c.peerKey>> \in C
    /\ c.peerVerified => Peer(u) \in R \/ <<Peer(u), c.peerKey, c.key>> \in C
    /\ \A x \in {c.verified, c.disk.verified} : x # 0 => RecordOf(u, c.key, x, C, R)
    /\ u \in R \/ c.pending \/ c.peerKey \in {0, c.verified}
    /\ u \in R \/ c.ident = c.peerKey
    /\ u \in R \/ c.loggedIn \/ c.disk.ident = 0

\* The frames w may have written: an ack after a confirmation (or a restart), a
\* text for keys both have confirmed.
Said(w, C, R) ==
    {f \in TxFrame \cup Frame :
        /\ f.type = "verifyack" => w \in R \/ <<w, f.ik, f.peer_ik>> \in C
        /\ f.type = "msg" => (f.kind = "text" /\ R = {} => BothConfirmed(C, f.pair))}

\* The items in the outbox of w with this key: the same of the acks that wait.
Waiting(w, key, C, R) ==
    {i \in Item : i.kind = "verifyack" => w \in R \/ <<w, key, i.peer_ik>> \in C}

Queues(u, c, C, R) ==
    /\ c.tx \in Seq(Said(u, C, R))
    /\ c.stash \in Seq(Said(Peer(u), C, R))
    /\ c.outbox \in Seq(Waiting(u, c.key, C, R))

Typed(c) == c \in Client /\ Linked(c) /\ Guarded(c)
Good(u, c, C, R) == Gate(u, c, C, R) /\ Queues(u, c, C, R)

Inv ==
    /\ client \in [Users -> Client]
    /\ inbox \in [Users -> Seq(Frame)]
    /\ directory \in [Users -> KeyOrNone]
    /\ online \subseteq Users /\ \A u \in online : client[u].on
    /\ confirmed \subseteq Users \X Keys \X Keys
    /\ \A u \in Users :
        Typed(client[u]) /\ client[u].tx = <<>> /\ client[u].lost = <<>>

GateInv ==
    adopters = {} =>
        \A u \in Users :
            /\ client[u].adoptions = 0
            /\ Good(u, client[u], confirmed, restarted)
            /\ inbox[u] \in Seq(Said(Peer(u), confirmed, restarted))

IInv == Inv /\ GateInv
-----------------------------------------------------------------------------
(* Users, sequences and the relay's filter.                                 *)

\* There are two users, each the peer of the other.
LEMMA Peers ==
    ASSUME NEW u \in Users
    PROVE  /\ Peer(u) \in Users /\ Peer(u) # u /\ Peer(Peer(u)) = u
           /\ \A w \in Users : w = u \/ w = Peer(u)
<1>1. IsFiniteSet(Users) /\ Cardinality(Users) = 2
  BY UserAssumption
<1>2. IsFiniteSet(Users \ {u}) /\ Cardinality(Users \ {u}) = 1
  BY <1>1, FS_RemoveElement
<1>3. PICK v : Users \ {u} = {v}
  BY <1>2, FS_Singleton
<1>4. v \in Users /\ v # u /\ \A w \in Users : w = u \/ w = v
  BY <1>3
<1>5. Peer(u) = v
  BY <1>4 DEF Peer
<1>6. Peer(v) = u
  BY <1>4 DEF Peer
<1> QED BY <1>4, <1>5, <1>6

\* A sequence over a set is one over a larger set.
LEMMA SeqWiden ==
    ASSUME NEW S, NEW T, S \subseteq T, NEW s \in Seq(S)
    PROVE  s \in Seq(T)
OBVIOUS

\* A set of numbers has a least one.
LEMMA Least ==
    ASSUME NEW T, T \subseteq Nat, T # {}
    PROVE  \E m \in T : \A k \in T : m <= k
<1>1. PICK m \in T : \A k \in T : ~(<<k, m>> \in OpToRel(<, Nat))
  BY NatLessThanWellFounded, WFMin
<1>2. \A k \in T : ~(k < m)
  BY <1>1 DEF OpToRel
<1> QED BY <1>2
\* The function that filters s one frame after the other, up to n.
Filter(g, s, types, n) ==
    g = [k \in 0 .. n |-> IF k = 0 THEN <<>> ELSE Keep(g[k - 1], s[k], types)]

\* It exists for every length.
LEMMA FilterExists ==
    ASSUME NEW s, NEW types, NEW n \in Nat
    PROVE  \E g : Filter(g, s, types, n)
<1> DEFINE T == {j \in Nat : ~ \E g : Filter(g, s, types, j)}
<1>1. SUFFICES ASSUME T # {} PROVE FALSE
  BY <1>1
<1>2. PICK m \in T : \A k \in T : m <= k
  BY <1>1, Least
<1>3. CASE m = 0
  <2> DEFINE g == [k \in 0..0 |-> <<>>]
  <2>1. Filter(g, s, types, 0)
    BY DEF Filter
  <2> QED BY <1>3, <2>1
<1>4. CASE m # 0
  <2>1. m - 1 \in Nat
    BY <1>4
  <2>2. m - 1 \notin T
    <3> HIDE DEF T
    <3>1. m \in Nat
      BY DEF T
    <3> QED BY <1>2, <3>1
  <2>3. PICK g : Filter(g, s, types, m - 1)
    BY <2>1, <2>2
  <2> DEFINE h == [k \in 0..m |-> IF k = m THEN Keep(g[m - 1], s[m], types) ELSE g[k]]
  <2>4. \A k \in 0..m : h[k] = IF k = 0 THEN <<>> ELSE Keep(h[k - 1], s[k], types)
    BY <1>4, <2>1, <2>3 DEF Filter
  <2>5. Filter(h, s, types, m)
    BY <2>4 DEF Filter
  <2> QED BY <2>5
<1> QED BY <1>3, <1>4

\* What the relay's filter keeps are frames it was given, of the types it keeps.
LEMMA OnlyKeeps ==
    ASSUME NEW S, NEW s \in Seq(S), NEW types
    PROVE  Only(s, types) \in Seq({f \in S : f.type \in types})
<1> DEFINE n == Len(s)
           A == CHOOSE g : g = [k \in 0 .. n |->
                                    IF k = 0 THEN <<>> ELSE Keep(g[k - 1], s[k], types)]
           K == {f \in S : f.type \in types}
<1>1. Only(s, types) = A[n]
  BY DEF Only
<1>2. n \in Nat /\ \A k \in 1..n : s[k] \in S
  OBVIOUS
<1>3. Filter(A, s, types, n)
  BY <1>2, FilterExists DEF Filter
<1> HIDE DEF A, n
<1> DEFINE T == {j \in 0..n : A[j] \notin Seq(K)}
<1>4. CASE T = {}
  BY <1>1, <1>2, <1>4
<1>5. CASE T # {}
  <2>1. T \subseteq Nat
    BY <1>2
  <2>2. PICK m \in T : \A k \in T : m <= k
    <3> HIDE DEF T
    <3> QED BY <1>5, <2>1, Least
  <2>3. m \in 0..n /\ A[m] \notin Seq(K)
    OBVIOUS
  <2>4. CASE m = 0
    BY <1>2, <1>3, <2>3, <2>4 DEF Filter
  <2>5. CASE m # 0
    <3>1. m - 1 \in 0..n /\ m \in 1..n
      BY <1>2, <2>3, <2>5
    <3>2. m - 1 \notin T
      <4> HIDE DEF T
      <4> QED BY <1>2, <2>2, <2>3
    <3>3. A[m - 1] \in Seq(K)
      BY <3>1, <3>2
    <3>4. A[m] = IF s[m].type \in types THEN Append(A[m - 1], s[m]) ELSE A[m - 1]
      BY <1>3, <2>3, <2>5 DEF Filter, Keep
    <3>5. s[m] \in S
      BY <1>2, <3>1
    <3>6. s[m].type \in types => s[m] \in K
      BY <3>5
    <3> HIDE DEF K
    <3>7. A[m] \in Seq(K)
      BY <3>3, <3>4, <3>6
    <3> QED BY <2>3, <3>7
  <2> QED BY <2>4, <2>5
<1> QED BY <1>4, <1>5

-----------------------------------------------------------------------------
(* Methods that write, queue and ratchet but leave the gate alone.          *)

OK(u, c, C, R) == Typed(c) /\ (c.adoptions = 0 => Good(u, c, C, R))

\* The fields that only the episode, the directory and a handshake change.
Same(c, e) ==
    /\ e.key = c.key /\ e.loggedIn = c.loggedIn /\ e.on = c.on /\ e.peerKey = c.peerKey
    /\ e.ident = c.ident /\ e.flagged = c.flagged /\ e.pending = c.pending
    /\ e.peerVerified = c.peerVerified /\ e.attested = c.attested /\ e.verified = c.verified
    /\ e.adopted = c.adopted /\ e.adoptions = c.adoptions /\ e.tried = c.tried
    /\ e.disk.verified = c.disk.verified /\ e.disk.attested = c.disk.attested

\* A client that changed nothing else is as sound as before, if its sessions and
\* its queues are.
LEMMA SameOK ==
    ASSUME NEW u, NEW c, NEW e, NEW C, NEW R, OK(u, c, C, R), c.loggedIn,
           e \in Client, Same(c, e),
           Between(e.session, c.key, c.ident), Between(e.disk.session, c.key, e.disk.ident),
           c.ident = 0 => e.disk.session = NoSession,
           c.adoptions = 0 => Queues(u, e, C, R)
    PROVE  OK(u, e, C, R)
<1>1. Linked(e)
  BY DEF OK, Typed, Linked, Same
<1>2. Guarded(e)
  BY DEF OK, Typed, Guarded, Same
<1>3. ASSUME e.adoptions = 0 PROVE Gate(u, e, C, R)
  <2>1. c.adoptions = 0
    BY <1>3 DEF Same
  <2>2. Gate(u, c, C, R)
    BY <2>1 DEF OK, Good
  <2> QED BY <2>2 DEF Gate, Same
<1> QED BY <1>1, <1>2, <1>3 DEF OK, Typed, Good, Same

\* Two such changes in a row.
LEMMA SameTwice ==
    ASSUME NEW c, NEW d, NEW e, Same(c, d), Same(d, e)
    PROVE  Same(c, e)
BY DEF Same

\* No change.
LEMMA SameSelf == \A c : Same(c, c)
BY DEF Same

\* A frame is written.
LEMMA WriteOK ==
    ASSUME NEW u, NEW c, NEW C, NEW R, OK(u, c, C, R), c.loggedIn,
           NEW f \in TxFrame, c.adoptions = 0 => f \in Said(u, C, R)
    PROVE  OK(u, Write(c, f), C, R) /\ Same(c, Write(c, f))
<1> DEFINE e == [c EXCEPT !.tx = Append(c.tx, f)]
<1>1. Write(c, f) = c \/ Write(c, f) = e
  BY DEF Write
<1>2. c \in Client
  BY DEF OK, Typed
<1>3. e \in Client /\ Same(c, e)
  <2>1. c.tx \in Seq(TxFrame) /\ Append(c.tx, f) \in Seq(TxFrame)
    BY <1>2 DEF Client
  <2>2. e \in Client
    BY <1>2, <2>1 DEF Client
  <2> QED BY <1>2, <2>2 DEF Client, Same
<1>4. /\ e.session = c.session /\ e.disk = c.disk /\ e.tx = Append(c.tx, f)
      /\ e.stash = c.stash /\ e.outbox = c.outbox /\ e.key = c.key
  BY <1>2 DEF Client
<1> HIDE DEF e
<1>5. c.adoptions = 0 => Queues(u, e, C, R)
  <2>1. SUFFICES ASSUME c.adoptions = 0 PROVE Queues(u, e, C, R)
    BY <2>1
  <2>2. Queues(u, c, C, R) /\ f \in Said(u, C, R)
    BY <2>1 DEF OK, Good
  <2> QED BY <1>4, <2>2 DEF Queues
<1>6. OK(u, e, C, R)
  BY <1>3, <1>4, <1>5, SameOK DEF OK, Typed, Linked
<1> QED BY <1>1, <1>3, <1>6, SameSelf

\* An item is queued.
LEMMA QueueOK ==
    ASSUME NEW u, NEW c, NEW C, NEW R, OK(u, c, C, R), c.loggedIn,
           NEW i \in Item, c.adoptions = 0 => i \in Waiting(u, c.key, C, R)
    PROVE  OK(u, Queue(c, i), C, R) /\ Same(c, Queue(c, i))
<1> DEFINE e == Queue(c, i)
<1>2. c \in Client
  BY DEF OK, Typed
<1>3. e \in Client /\ Same(c, e)
  <2>1. c.outbox \in Seq(Item) /\ Append(c.outbox, i) \in Seq(Item)
    BY <1>2 DEF Client
  <2>2. e \in Client
    BY <1>2, <2>1 DEF Client, Queue
  <2> QED BY <1>2, <2>2 DEF Client, Same, Queue
<1>4. /\ e.session = c.session /\ e.disk = c.disk /\ e.tx = c.tx
      /\ e.stash = c.stash /\ e.outbox = Append(c.outbox, i) /\ e.key = c.key
  BY <1>2 DEF Client, Queue
<1> HIDE DEF e
<1>5. c.adoptions = 0 => Queues(u, e, C, R)
  <2>1. SUFFICES ASSUME c.adoptions = 0 PROVE Queues(u, e, C, R)
    BY <2>1
  <2>2. Queues(u, c, C, R) /\ i \in Waiting(u, c.key, C, R)
    BY <2>1 DEF OK, Good
  <2> QED BY <1>4, <2>2 DEF Queues
<1>6. OK(u, e, C, R)
  BY <1>3, <1>4, <1>5, SameOK DEF OK, Typed, Linked
<1> QED BY <1>3, <1>6 DEF e

\* Nothing is written, queued or put aside: only sessions and timers change.
Quiet(c, e) == Same(c, e) /\ e.tx = c.tx /\ e.stash = c.stash /\ e.outbox = c.outbox

\* Then the queues are as sound as before.
LEMMA QuietOK ==
    ASSUME NEW u, NEW c, NEW e, NEW C, NEW R, OK(u, c, C, R), c.loggedIn,
           e \in Client, Quiet(c, e),
           Between(e.session, c.key, c.ident), Between(e.disk.session, c.key, e.disk.ident),
           c.ident = 0 => e.disk.session = NoSession
    PROVE  OK(u, e, C, R) /\ Same(c, e)
<1>1. Same(c, e) /\ e.key = c.key
  BY DEF Quiet, Same
<1>2. c.adoptions = 0 => Queues(u, e, C, R)
  BY <1>1 DEF OK, Good, Queues, Quiet
<1> QED BY <1>1, <1>2, SameOK

\* Zero is no key, and the pair of two keys is one of keys.
LEMMA KeyFacts ==
    /\ 0 \notin Keys
    /\ \A a, b \in Keys : PairOf(a, b) \in Keys \X Keys
BY KeyAssumption DEF PairOf

\* A session that was just bootstrapped.
LEMMA Bootstrapped ==
    ASSUME NEW p \in Keys \X Keys, NEW x \in Keys \X Nat
    PROVE  LET boot == [NoSession EXCEPT !.pair = p]
               ready == [boot EXCEPT !.send = <<x>>, !.ready = TRUE]
           IN  /\ boot \in Session /\ boot.pair = p /\ boot # NoSession
               /\ ready \in Session /\ ready.pair = p /\ ready # NoSession
<1>1. p # <<0, 0>>
  BY KeyFacts
<1>2. <<>> \in Chain /\ <<x>> \in Chain
  BY DEF Chain
<1> QED BY <1>1, <1>2 DEF NoSession, Session

\* The session for the key held.
LEMMA SessionForOK ==
    ASSUME NEW u, NEW c, NEW C, NEW R, OK(u, c, C, R), c.loggedIn, c.ident # 0
    PROVE  /\ OK(u, sessionFor(c), C, R) /\ Same(c, sessionFor(c))
           /\ sessionFor(c).session # NoSession
<1>1. c \in Client /\ Linked(c)
  BY DEF OK, Typed
<1>2. CASE c.session # NoSession
  BY <1>2, SameSelf DEF sessionFor
<1>3. CASE c.session = NoSession
  <2> DEFINE p == PairOf(c.key, c.ident)
             x == NewDH(c)
             boot == [NoSession EXCEPT !.pair = p]
             ready == [boot EXCEPT !.send = <<x>>, !.ready = TRUE]
             e1 == [c EXCEPT !.session = boot]
             e2 == [c EXCEPT !.session = ready, !.dh = c.dh + 1]
  <2>1. p \in Keys \X Keys /\ x \in Keys \X Nat
    BY <1>1, KeyFacts DEF Client, KeyOrNone, NewDH
  <2>2. /\ boot \in Session /\ boot.pair = p /\ boot # NoSession
        /\ ready \in Session /\ ready.pair = p /\ ready # NoSession
    <3> HIDE DEF p, x
    <3> QED BY <2>1, Bootstrapped
  <2>3. sessionFor(c) = e1 \/ sessionFor(c) = e2
    <3>1. sessionFor(c) = IF amInitiatorFor(c) THEN e2 ELSE e1
      BY <1>3, Zenon DEF sessionFor
    <3> QED BY <3>1, Zenon
  <2> HIDE DEF boot, ready
  <2>4. e1 \in Client /\ e2 \in Client
    <3> DEFINE n == c.dh + 1
    <3>1. n \in Nat
      BY <1>1 DEF Client
    <3> HIDE DEF n
    <3>2. e1 \in Client
      BY <1>1, <2>2 DEF Client
    <3>3. [c EXCEPT !.session = ready, !.dh = n] \in Client
      BY <1>1, <2>2, <3>1 DEF Client
    <3> QED BY <3>2, <3>3 DEF n
  <2>5. /\ Quiet(c, e1) /\ e1.session = boot /\ e1.disk = c.disk
        /\ Quiet(c, e2) /\ e2.session = ready /\ e2.disk = c.disk
    BY <1>1 DEF Client, Quiet, Same
  <2> HIDE DEF e1, e2
  <2>6. OK(u, e1, C, R) /\ Same(c, e1)
    BY <1>1, <2>2, <2>4, <2>5, QuietOK DEF Between, Linked
  <2>7. OK(u, e2, C, R) /\ Same(c, e2)
    BY <1>1, <2>2, <2>4, <2>5, QuietOK DEF Between, Linked
  <2> QED BY <2>2, <2>3, <2>5, <2>6, <2>7
<1> QED BY <1>2, <1>3

\* The store and CryptoBox forget or keep the session.
LEMMA StoreOK ==
    ASSUME NEW u, NEW c, NEW C, NEW R, OK(u, c, C, R), c.loggedIn
    PROVE  /\ OK(u, persistSession(c), C, R) /\ Same(c, persistSession(c))
           /\ OK(u, clearSession(c), C, R) /\ Same(c, clearSession(c))
           /\ OK(u, dropSession(c), C, R) /\ Same(c, dropSession(c))
<1>1. c \in Client /\ Linked(c) /\ c.disk \in Disk
  BY DEF OK, Typed, Client
<1>2. NoSession \in Session /\ 0 \in KeyOrNone
  BY DEF Session, KeyOrNone
<1> DEFINE d1 == [c.disk EXCEPT !.session = c.session, !.ident = c.ident]
           d2 == [c.disk EXCEPT !.session = NoSession, !.ident = 0]
           e1 == [c EXCEPT !.disk = d1]
           e2 == [c EXCEPT !.disk = d2]
           e3 == [c EXCEPT !.session = NoSession]
<1>3. /\ d1 \in Disk /\ d1.session = c.session /\ d1.ident = c.ident
      /\ d1.verified = c.disk.verified /\ d1.attested = c.disk.attested
  BY <1>1 DEF Disk, Client
<1>4. /\ d2 \in Disk /\ d2.session = NoSession
      /\ d2.verified = c.disk.verified /\ d2.attested = c.disk.attested
  BY <1>1, <1>2 DEF Disk
<1>5. persistSession(c) = e1 /\ clearSession(c) = e2 /\ dropSession(c) = e3
  BY <1>1 DEF persistSession, clearSession, dropSession, Client, Disk
<1> HIDE DEF d1, d2
<1>6. e1 \in Client /\ e2 \in Client /\ e3 \in Client
  BY <1>1, <1>2, <1>3, <1>4 DEF Client
<1>7. /\ Quiet(c, e1) /\ e1.session = c.session /\ e1.disk = d1
      /\ Quiet(c, e2) /\ e2.session = c.session /\ e2.disk = d2
      /\ Quiet(c, e3) /\ e3.session = NoSession /\ e3.disk = c.disk
  BY <1>1, <1>3, <1>4 DEF Client, Quiet, Same
<1> HIDE DEF e1, e2, e3
<1>8. OK(u, e1, C, R) /\ Same(c, e1)
  BY <1>1, <1>3, <1>6, <1>7, QuietOK DEF Between, Linked
<1>9. OK(u, e2, C, R) /\ Same(c, e2)
  BY <1>1, <1>4, <1>6, <1>7, QuietOK DEF Between, Linked
<1>10. OK(u, e3, C, R) /\ Same(c, e3)
  BY <1>1, <1>6, <1>7, QuietOK DEF Between, Linked
<1> QED BY <1>5, <1>8, <1>9, <1>10

\* Frames without a claim.
LEMMA PlainFrames ==
    \A t \in {"getkey", "verify_resync"} :
        [type |-> t] \in TxFrame /\ \A w, C, R : [type |-> t] \in Said(w, C, R)
<1> SUFFICES ASSUME NEW t \in {"getkey", "verify_resync"}
             PROVE  [type |-> t] \in TxFrame /\ \A w, C, R : [type |-> t] \in Said(w, C, R)
  OBVIOUS
<1>1. [type |-> t] \in TxFrame
  BY DEF TxFrame
<1> DEFINE f == [type |-> t]
<1>2. f.type = t /\ t # "verifyack" /\ t # "msg"
  OBVIOUS
<1> HIDE DEF f
<1> QED BY <1>1, <1>2 DEF Said, f

\* requestKeyFor.
LEMMA RequestOK ==
    ASSUME NEW u, NEW c, NEW C, NEW R, OK(u, c, C, R), c.loggedIn
    PROVE  OK(u, requestKeyFor(c), C, R) /\ Same(c, requestKeyFor(c))
BY PlainFrames, WriteOK DEF requestKeyFor

\* sendVerifyResync.
LEMMA ResyncOK ==
    ASSUME NEW u, NEW c, NEW C, NEW R, OK(u, c, C, R), c.loggedIn
    PROVE  OK(u, sendVerifyResync(c), C, R) /\ Same(c, sendVerifyResync(c))
<1> DEFINE e == [c EXCEPT !.throttled = TRUE]
           f == [type |-> "verify_resync"]
<1>1. c \in Client /\ Linked(c)
  BY DEF OK, Typed
<1>2. e \in Client
  BY <1>1 DEF Client
<1>3. Quiet(c, e) /\ e.session = c.session /\ e.disk = c.disk
  BY <1>1 DEF Client, Quiet, Same
<1>4. sendVerifyResync(c) = Write(e, f) \/ sendVerifyResync(c) = c
  BY Zenon DEF sendVerifyResync
<1> HIDE DEF e
<1>5. OK(u, e, C, R) /\ Same(c, e)
  BY <1>1, <1>2, <1>3, QuietOK DEF Linked
<1>6. e.loggedIn
  BY <1>5 DEF Same
<1>7. OK(u, Write(e, f), C, R) /\ Same(e, Write(e, f))
  <2>1. f \in TxFrame /\ f \in Said(u, C, R)
    BY PlainFrames
  <2> HIDE DEF f
  <2> QED BY <1>5, <1>6, <2>1, WriteOK
<1>8. Same(c, Write(e, f))
  BY <1>5, <1>7, SameTwice
<1> QED BY <1>4, <1>7, <1>8, SameSelf

\* Who holds a key and is not asked to look at it has confirmed it: in an episode
\* that waits for the peer, or in the one that is recorded.
LEMMA MayAck ==
    ASSUME NEW u, NEW c, NEW C, NEW R, OK(u, c, C, R), c.peerKey # 0, ~c.flagged, c.adoptions = 0
    PROVE  u \in R \/ <<u, c.key, c.peerKey>> \in C
<1>1. Gate(u, c, C, R)
  BY DEF OK, Good
<1> QED BY <1>1 DEF Gate, RecordOf

\* Behind an open gate of a client that was not restarted the episode is recorded.
LEMMA MayText ==
    ASSUME NEW u \in Users, NEW c, NEW C, NEW R, OK(u, c, C, R), c.peerKey # 0,
           ~c.flagged, ~c.pending, c.adoptions = 0, R = {}
    PROVE  BothConfirmed(C, PairOf(c.key, c.ident))
<1>1. Gate(u, c, C, R)
  BY DEF OK, Good
<1>2. c.ident = c.peerKey /\ c.verified = c.peerKey
  BY <1>1 DEF Gate
<1>3. RecordOf(u, c.key, c.ident, C, R)
  BY <1>1, <1>2 DEF Gate
<1>4. <<u, c.key, c.ident>> \in C /\ <<Peer(u), c.ident, c.key>> \in C
  BY <1>3 DEF RecordOf
<1>5. \A w \in Users : <<w, c.key, c.ident>> \in C \/ <<w, c.ident, c.key>> \in C
  BY <1>4, Peers
<1> QED BY <1>5 DEF BothConfirmed, PairOf

\* transmitVerifyAck.
LEMMA TransmitAckOK ==
    ASSUME NEW u, NEW c, NEW C, NEW R, OK(u, c, C, R), c.loggedIn, NEW k \in Keys,
           c.adoptions = 0 => u \in R \/ <<u, c.key, k>> \in C
    PROVE  OK(u, transmitVerifyAck(c, k), C, R) /\ Same(c, transmitVerifyAck(c, k))
<1> DEFINE f == [type |-> "verifyack", ik |-> c.key, peer_ik |-> k]
<1>1. c.key \in Keys
  BY DEF OK, Typed, Client
<1>2. f.type = "verifyack" /\ f.ik = c.key /\ f.peer_ik = k
  OBVIOUS
<1>3. f \in TxFrame
  BY <1>1 DEF TxFrame, StoredFrame, AckFrame
<1> HIDE DEF f
<1>4. c.adoptions = 0 => f \in Said(u, C, R)
  BY <1>2, <1>3 DEF Said
<1>5. transmitVerifyAck(c, k) = Write(c, f)
  BY DEF transmitVerifyAck, f
<1> QED BY <1>3, <1>4, <1>5, WriteOK

\* sendOrQueueVerifyAck.
LEMMA SendAckOK ==
    ASSUME NEW u, NEW c, NEW C, NEW R, OK(u, c, C, R), c.loggedIn, c.peerKey # 0, ~c.flagged
    PROVE  OK(u, sendOrQueueVerifyAck(c), C, R) /\ Same(c, sendOrQueueVerifyAck(c))
<1> DEFINE i == AckItem(c)
<1>1. c.peerKey \in Keys
  BY DEF OK, Typed, Client, KeyOrNone
<1>2. c.adoptions = 0 => u \in R \/ <<u, c.key, c.peerKey>> \in C
  BY MayAck
<1>3. i \in Item /\ i.kind = "verifyack" /\ i.peer_ik = c.peerKey
  BY <1>1 DEF Item, AckItem
<1> HIDE DEF i
<1>4. c.adoptions = 0 => i \in Waiting(u, c.key, C, R)
  BY <1>2, <1>3 DEF Waiting
<1>5. OK(u, Queue(c, i), C, R) /\ Same(c, Queue(c, i))
  BY <1>3, <1>4, QueueOK
<1>6. OK(u, transmitVerifyAck(c, c.peerKey), C, R) /\ Same(c, transmitVerifyAck(c, c.peerKey))
  BY <1>1, <1>2, TransmitAckOK
<1> QED BY <1>5, <1>6 DEF sendOrQueueVerifyAck, i

\* The frame of an encrypted payload.
LEMMA MsgFrameOK ==
    ASSUME NEW u \in Users, NEW c, NEW C, NEW R, OK(u, c, C, R), c.session # NoSession,
           NEW kind \in {"text", "handshake", "ping", "pong"},
           kind = "text" => c.peerKey # 0 /\ ~conversationBlocked(c)
    PROVE  MsgFrame(c, kind) \in TxFrame /\ (c.adoptions = 0 => MsgFrame(c, kind) \in Said(u, C, R))
<1> DEFINE f == MsgFrame(c, kind)
<1>1. c \in Client /\ Linked(c) /\ c.key \in Keys
  BY DEF OK, Typed, Client
<1>2. c.session \in Session
  BY <1>1 DEF Client
<1>3. c.session.pair \in Keys \X Keys /\ c.session.send \in Chain
  BY <1>2 DEF Session
<1>4. /\ f.type = "msg" /\ f.kind = kind /\ f.pair = c.session.pair
  BY DEF MsgFrame
<1>5. f \in MessageFrame
  <2>1. CASE kind = "handshake"
    BY <1>1, <1>3, <2>1 DEF MsgFrame, MessageFrame
  <2>2. CASE kind # "handshake"
    BY <1>3, <2>2 DEF MsgFrame, MessageFrame
  <2> QED BY <2>1, <2>2
<1>6. f \in TxFrame
  BY <1>5 DEF TxFrame, StoredFrame
<1> HIDE DEF f
<1>7. ASSUME c.adoptions = 0, kind = "text", R = {}
      PROVE  BothConfirmed(C, f.pair)
  <2>1. c.peerKey # 0 /\ ~c.flagged /\ ~c.pending
    BY <1>7 DEF conversationBlocked
  <2>2. BothConfirmed(C, PairOf(c.key, c.ident))
    BY <1>7, <2>1, MayText
  <2>3. f.pair = PairOf(c.key, c.ident)
    BY <1>1, <1>4 DEF Linked, Between
  <2> QED BY <2>2, <2>3
<1>8. c.adoptions = 0 => f \in Said(u, C, R)
  BY <1>4, <1>6, <1>7 DEF Said
<1> QED BY <1>6, <1>8 DEF f

\* encryptFor, the socket and the store.
LEMMA TransmitOK ==
    ASSUME NEW u \in Users, NEW c, NEW C, NEW R, OK(u, c, C, R), c.loggedIn, c.ident # 0,
           NEW kind \in {"text", "handshake", "ping", "pong"},
           kind = "text" => c.peerKey # 0 /\ ~conversationBlocked(c)
    PROVE  OK(u, Transmit(c, kind), C, R) /\ Same(c, Transmit(c, kind))
<1> DEFINE d == sessionFor(c)
           f == MsgFrame(d, kind)
           w == Write(d, f)
           e == persistSession(w)
<1>1. Transmit(c, kind) = IF d.session.ready THEN e ELSE d
  BY DEF Transmit
<1>2. OK(u, d, C, R) /\ Same(c, d) /\ d.session # NoSession
  BY SessionForOK
<1> HIDE DEF d
<1>3. d.loggedIn /\ (kind = "text" => d.peerKey # 0 /\ ~conversationBlocked(d))
  BY <1>2 DEF Same, conversationBlocked
<1>4. f \in TxFrame /\ (d.adoptions = 0 => f \in Said(u, C, R))
  BY <1>2, <1>3, MsgFrameOK
<1> HIDE DEF f
<1>5. OK(u, w, C, R) /\ Same(d, w)
  BY <1>2, <1>3, <1>4, WriteOK
<1> HIDE DEF w
<1>6. w.loggedIn
  BY <1>3, <1>5 DEF Same
<1>7. OK(u, e, C, R) /\ Same(w, e)
  BY <1>5, <1>6, StoreOK
<1> HIDE DEF e
<1>8. Same(c, e)
  BY <1>2, <1>5, <1>7, SameTwice
<1> QED BY <1>1, <1>2, <1>7, <1>8

\* Something is queued after the session was made.
LEMMA QueueLaterOK ==
    ASSUME NEW u, NEW c, NEW C, NEW R, OK(u, c, C, R), c.loggedIn, c.ident # 0,
           NEW i \in Item, c.adoptions = 0 => i \in Waiting(u, c.key, C, R)
    PROVE  OK(u, Queue(sessionFor(c), i), C, R) /\ Same(c, Queue(sessionFor(c), i))
<1> DEFINE d == sessionFor(c)
<1>1. OK(u, d, C, R) /\ Same(c, d)
  BY SessionForOK
<1> HIDE DEF d
<1>2. d.loggedIn /\ d.key = c.key /\ d.adoptions = c.adoptions
  BY <1>1 DEF Same
<1>3. OK(u, Queue(d, i), C, R) /\ Same(d, Queue(d, i))
  BY <1>1, <1>2, QueueOK
<1>4. Same(c, Queue(d, i))
  BY <1>1, <1>3, SameTwice
<1> QED BY <1>3, <1>4 DEF d

\* Something is queued after the directory was asked.
LEMMA QueueAskedOK ==
    ASSUME NEW u, NEW c, NEW C, NEW R, OK(u, c, C, R), c.loggedIn,
           NEW i \in Item, c.adoptions = 0 => i \in Waiting(u, c.key, C, R)
    PROVE  OK(u, Queue(requestKeyFor(c), i), C, R) /\ Same(c, Queue(requestKeyFor(c), i))
<1> DEFINE d == requestKeyFor(c)
<1>1. OK(u, d, C, R) /\ Same(c, d)
  BY RequestOK
<1> HIDE DEF d
<1>2. d.loggedIn /\ d.key = c.key /\ d.adoptions = c.adoptions
  BY <1>1 DEF Same
<1>3. OK(u, Queue(d, i), C, R) /\ Same(d, Queue(d, i))
  BY <1>1, <1>2, QueueOK
<1>4. Same(c, Queue(d, i))
  BY <1>1, <1>3, SameTwice
<1> QED BY <1>3, <1>4 DEF d

\* Items without a claim.
LEMMA PlainItems ==
    /\ HandshakeItem \in Item /\ \A w, k, C, R : HandshakeItem \in Waiting(w, k, C, R)
    /\ \A h \in BOOLEAN : TextItem(h) \in Item /\ \A w, k, C, R : TextItem(h) \in Waiting(w, k, C, R)
<1>1. HandshakeItem \in Item /\ HandshakeItem.kind # "verifyack"
  BY DEF HandshakeItem, Item
<1>2. \A h \in BOOLEAN : TextItem(h) \in Item /\ TextItem(h).kind # "verifyack"
  BY DEF TextItem, Item
<1> QED BY <1>1, <1>2 DEF Waiting

\* A key that is held is the one of CryptoBox.
LEMMA Held ==
    ASSUME NEW u, NEW c, NEW C, NEW R, OK(u, c, C, R), c.peerKey # 0
    PROVE  c.ident = c.peerKey /\ c.ident \in Keys
BY DEF OK, Typed, Linked, Client, KeyOrNone

\* sendOrQueueHandshake.
LEMMA HandshakeOK ==
    ASSUME NEW u \in Users, NEW c, NEW C, NEW R, OK(u, c, C, R), c.loggedIn
    PROVE  OK(u, sendOrQueueHandshake(c), C, R) /\ Same(c, sendOrQueueHandshake(c))
<1>1. HandshakeItem \in Item /\ HandshakeItem \in Waiting(u, c.key, C, R)
  BY PlainItems
<1>2. CASE c.peerKey = 0
  BY <1>1, <1>2, QueueAskedOK DEF sendOrQueueHandshake
<1>3. CASE c.peerKey # 0
  <2>1. c.ident # 0
    BY <1>3, Held
  <2>2. OK(u, Queue(c, HandshakeItem), C, R) /\ Same(c, Queue(c, HandshakeItem))
    BY <1>1, QueueOK
  <2>3. /\ OK(u, Queue(sessionFor(c), HandshakeItem), C, R)
        /\ Same(c, Queue(sessionFor(c), HandshakeItem))
    BY <1>1, <2>1, QueueLaterOK
  <2>4. OK(u, Transmit(c, "handshake"), C, R) /\ Same(c, Transmit(c, "handshake"))
    BY <2>1, TransmitOK
  <2> QED BY <1>3, <2>2, <2>3, <2>4 DEF sendOrQueueHandshake
<1> QED BY <1>2, <1>3

\* flushOutbox, one item.
LEMMA FlushItemOK ==
    ASSUME NEW u \in Users, NEW c, NEW C, NEW R, OK(u, c, C, R), c.loggedIn,
           NEW i \in Item, c.adoptions = 0 => i \in Waiting(u, c.key, C, R)
    PROVE  OK(u, FlushItem(c, i), C, R) /\ Same(c, FlushItem(c, i))
<1>1. CASE c.peerKey = 0
  <2>1. FlushItem(c, i) = Queue(requestKeyFor(c), i)
    BY <1>1 DEF FlushItem
  <2> QED BY <2>1, QueueAskedOK
<1>2. CASE c.peerKey # 0 /\ i.kind = "verifyack"
  <2>1. FlushItem(c, i) = IF i.peer_ik = c.peerKey THEN transmitVerifyAck(c, i.peer_ik) ELSE c
    BY <1>2 DEF FlushItem
  <2>2. i.peer_ik \in Keys
    BY <1>2 DEF Item
  <2>3. c.adoptions = 0 => u \in R \/ <<u, c.key, i.peer_ik>> \in C
    BY <1>2 DEF Waiting
  <2>4. /\ OK(u, transmitVerifyAck(c, i.peer_ik), C, R)
        /\ Same(c, transmitVerifyAck(c, i.peer_ik))
    BY <2>2, <2>3, TransmitAckOK
  <2> QED BY <2>1, <2>4, SameSelf
<1>3. CASE c.peerKey # 0 /\ i.kind = "text" /\ conversationBlocked(c)
  <2>1. FlushItem(c, i) = Queue(c, i)
    BY <1>3 DEF FlushItem
  <2> QED BY <2>1, QueueOK
<1>4. CASE c.peerKey # 0 /\ i.kind # "verifyack" /\ ~(i.kind = "text" /\ conversationBlocked(c))
  <2>1. FlushItem(c, i) = IF CanTransmit(c) THEN Transmit(c, i.kind) ELSE Queue(sessionFor(c), i)
    BY <1>4 DEF FlushItem
  <2>2. i.kind \in {"text", "handshake"}
    BY <1>4 DEF Item
  <2>3. c.ident # 0
    BY <1>4, Held
  <2>4. OK(u, Transmit(c, i.kind), C, R) /\ Same(c, Transmit(c, i.kind))
    BY <1>4, <2>2, <2>3, TransmitOK
  <2>5. OK(u, Queue(sessionFor(c), i), C, R) /\ Same(c, Queue(sessionFor(c), i))
    BY <2>3, QueueLaterOK
  <2> QED BY <2>1, <2>4, <2>5
<1> QED BY <1>1, <1>2, <1>3, <1>4

-----------------------------------------------------------------------------
(* flushOutbox, for a queue of any length.                                  *)

\* The function that flushes the items of q one after the other, from b.
Flushed(g, b, q, n) == g = [k \in 0 .. n |-> IF k = 0 THEN b ELSE FlushItem(g[k - 1], q[k])]

\* It exists for every length.
LEMMA FlushedExists ==
    ASSUME NEW b, NEW q, NEW n \in Nat
    PROVE  \E g : Flushed(g, b, q, n)
<1> DEFINE T == {j \in Nat : ~ \E g : Flushed(g, b, q, j)}
<1>1. SUFFICES ASSUME T # {} PROVE FALSE
  BY <1>1
<1>2. PICK m \in T : \A k \in T : m <= k
  BY <1>1, Least
<1>3. CASE m = 0
  <2> DEFINE g == [k \in 0..0 |-> b]
  <2>1. Flushed(g, b, q, 0)
    BY DEF Flushed
  <2> QED BY <1>3, <2>1
<1>4. CASE m # 0
  <2>1. m - 1 \in Nat
    BY <1>4
  <2>2. m - 1 \notin T
    <3> HIDE DEF T
    <3>1. m \in Nat
      BY DEF T
    <3> QED BY <1>2, <3>1
  <2>3. PICK g : Flushed(g, b, q, m - 1)
    BY <2>1, <2>2
  <2> DEFINE h == [k \in 0..m |-> IF k = m THEN FlushItem(g[m - 1], q[m]) ELSE g[k]]
  <2>4. \A k \in 0..m : h[k] = IF k = 0 THEN b ELSE FlushItem(h[k - 1], q[k])
    BY <1>4, <2>1, <2>3 DEF Flushed
  <2>5. Flushed(h, b, q, m)
    BY <2>4 DEF Flushed
  <2> QED BY <2>5
<1> QED BY <1>3, <1>4

\* Each item meets the client as the one before it left it.
LEMMA FlushOK ==
    ASSUME NEW u \in Users, NEW c, NEW C, NEW R, OK(u, c, C, R), c.loggedIn
    PROVE  OK(u, flushOutbox(c), C, R) /\ Same(c, flushOutbox(c))
<1> DEFINE b == [c EXCEPT !.outbox = <<>>]
           q == c.outbox
           n == Len(q)
           A == CHOOSE g : g = [k \in 0 .. n |-> IF k = 0 THEN b ELSE FlushItem(g[k - 1], q[k])]
<1>1. flushOutbox(c) = IF c.on THEN A[n] ELSE c
  BY DEF flushOutbox
<1>2. c \in Client /\ Linked(c)
  BY DEF OK, Typed
<1>3. q \in Seq(Item) /\ (c.adoptions = 0 => q \in Seq(Waiting(u, c.key, C, R)))
  BY <1>2 DEF OK, Good, Queues, Client
<1>4. /\ b \in Client /\ Same(c, b) /\ b.session = c.session /\ b.disk = c.disk
      /\ b.tx = c.tx /\ b.stash = c.stash /\ b.outbox = <<>>
  <2>1. <<>> \in Seq(Item)
    OBVIOUS
  <2>2. b \in Client
    BY <1>2, <2>1 DEF Client
  <2> QED BY <1>2, <2>2 DEF Client, Same
<1> HIDE DEF b
<1>5. OK(u, b, C, R)
  <2>1. c.adoptions = 0 => Queues(u, b, C, R)
    <3>1. SUFFICES ASSUME c.adoptions = 0 PROVE Queues(u, b, C, R)
      BY <3>1
    <3>2. Queues(u, c, C, R)
      BY <3>1 DEF OK, Good
    <3>3. <<>> \in Seq(Waiting(u, b.key, C, R))
      OBVIOUS
    <3> QED BY <1>4, <3>2, <3>3 DEF Queues
  <2> QED BY <1>2, <1>4, <2>1, SameOK DEF Linked
<1>6. n \in Nat /\ \A k \in 1..n : q[k] \in Item /\ (c.adoptions = 0 => q[k] \in Waiting(u, c.key, C, R))
  BY <1>3
<1>7. Flushed(A, b, q, n)
  BY <1>6, FlushedExists DEF Flushed
<1> HIDE DEF A, n, q
<1> DEFINE P(e) == OK(u, e, C, R) /\ Same(c, e)
           T == {j \in 0..n : ~P(A[j])}
<1>8. CASE T = {}
  BY <1>1, <1>6, <1>8, SameSelf
<1>9. CASE T # {}
  <2>1. T \subseteq Nat
    BY <1>6
  <2>2. PICK m \in T : \A k \in T : m <= k
    <3> HIDE DEF T
    <3> QED BY <1>9, <2>1, Least
  <2>3. m \in 0..n /\ ~P(A[m])
    OBVIOUS
  <2>4. CASE m = 0
    <3>1. A[0] = b
      BY <1>6, <1>7 DEF Flushed
    <3> QED BY <1>4, <1>5, <2>3, <2>4, <3>1
  <2>5. CASE m # 0
    <3>1. m - 1 \in 0..n /\ m \in 1..n
      BY <1>6, <2>3, <2>5
    <3>2. m - 1 \notin T
      <4> HIDE DEF T
      <4> QED BY <1>6, <2>2, <2>3
    <3>3. P(A[m - 1])
      BY <3>1, <3>2
    <3>4. A[m] = FlushItem(A[m - 1], q[m])
      BY <1>7, <2>3, <2>5 DEF Flushed
    <3> DEFINE a == A[m - 1]
               i == q[m]
    <3>5. OK(u, a, C, R) /\ Same(c, a)
      BY <3>3
    <3>6. i \in Item /\ (c.adoptions = 0 => i \in Waiting(u, c.key, C, R))
      BY <1>6, <3>1
    <3> HIDE DEF a, i
    <3>7. a.loggedIn /\ a.key = c.key /\ a.adoptions = c.adoptions
      BY <3>5 DEF Same
    <3>8. OK(u, FlushItem(a, i), C, R) /\ Same(a, FlushItem(a, i))
      BY <3>5, <3>6, <3>7, FlushItemOK
    <3>9. Same(c, FlushItem(a, i))
      BY <3>5, <3>8, SameTwice
    <3> QED BY <2>3, <3>4, <3>8, <3>9 DEF a, i
  <2> QED BY <2>4, <2>5
<1> QED BY <1>8, <1>9

-----------------------------------------------------------------------------
(* The verification episode.                                                *)

\* A method may change the gate; the identity and the socket stay, and a key may
\* be adopted.
Later(c, e) ==
    e.key = c.key /\ e.loggedIn = c.loggedIn /\ e.on = c.on /\ e.adoptions >= c.adoptions

\* What changes nothing of the gate, and two steps in a row.
LEMMA LaterFacts ==
    /\ \A c, e : c \in Client /\ Same(c, e) => Later(c, e)
    /\ \A c, d, e : (c \in Client /\ d \in Client /\ e \in Client
                      /\ Later(c, d) /\ Later(d, e)) => Later(c, e)
<1>1. \A c \in Client : c.adoptions \in Nat
  BY DEF Client
<1> QED BY <1>1 DEF Later, Same

\* A step of the method of either kind.
LEMMA Then ==
    ASSUME NEW u, NEW c, NEW d, NEW e, NEW C, NEW R, c \in Client, Later(c, d), OK(u, d, C, R),
           OK(u, e, C, R), Same(d, e) \/ Later(d, e)
    PROVE  Later(c, e)
<1>1. d \in Client /\ e \in Client
  BY DEF OK, Typed
<1> QED BY <1>1, LaterFacts

\* Only fields of the gate change.
Turned(c, e) ==
    /\ e.key = c.key /\ e.adopted = c.adopted /\ e.adoptions = c.adoptions /\ e.tried = c.tried
    /\ e.tx = c.tx /\ e.stash = c.stash /\ e.outbox = c.outbox

\* Such a change is sound if it leaves the gate sound.
LEMMA TurnedOK ==
    ASSUME NEW u, NEW c, NEW e, NEW C, NEW R, OK(u, c, C, R), e \in Client, Turned(c, e),
           Linked(e), c.adoptions = 0 => Gate(u, e, C, R)
    PROVE  OK(u, e, C, R)
<1>1. Guarded(e)
  BY DEF OK, Typed, Guarded, Turned
<1>2. c.adoptions = 0 => Queues(u, e, C, R)
  BY DEF OK, Good, Queues, Turned
<1> QED BY <1>1, <1>2 DEF OK, Typed, Good, Turned

\* tryResolveBilateral.
LEMMA ResolveOK ==
    ASSUME NEW u \in Users, NEW c, NEW C, NEW R, OK(u, c, C, R), c.loggedIn
    PROVE  OK(u, tryResolveBilateral(c), C, R) /\ Later(c, tryResolveBilateral(c))
<1>1. c \in Client /\ Linked(c) /\ c.disk \in Disk
  BY DEF OK, Typed, Client
<1>2. CASE ~(c.pending /\ ~c.flagged /\ c.peerVerified)
  <2>1. tryResolveBilateral(c) = c
    BY <1>2 DEF tryResolveBilateral
  <2> QED BY <1>1, <2>1, SameSelf, LaterFacts
<1>3. CASE c.pending /\ ~c.flagged /\ c.peerVerified
  <2> DEFINE d == [c.disk EXCEPT !.verified = c.peerKey, !.attested = c.key]
             e == [c EXCEPT !.pending = FALSE, !.ackOwed = FALSE, !.verified = c.peerKey,
                            !.attested = c.key, !.disk = d]
  <2>1. /\ d \in Disk /\ d.verified = c.peerKey /\ d.session = c.disk.session
        /\ d.ident = c.disk.ident
    BY <1>1 DEF Disk, Client, KeyOrNone
  <2>2. tryResolveBilateral(c) = flushOutbox(e)
    <3>1. [c EXCEPT !.pending = FALSE, !.ackOwed = FALSE, !.verified = c.peerKey,
                    !.attested = c.key, !.disk.verified = c.peerKey, !.disk.attested = c.key] = e
      BY <1>1 DEF Client, Disk
    <3> QED BY <1>3, <3>1 DEF tryResolveBilateral
  <2> HIDE DEF d
  <2>3. e \in Client
    BY <1>1, <2>1 DEF Client, KeyOrNone
  <2>4. /\ Turned(c, e) /\ e.disk = d /\ e.session = c.session /\ e.ident = c.ident
        /\ e.peerKey = c.peerKey /\ e.loggedIn = c.loggedIn /\ e.on = c.on
        /\ e.flagged = c.flagged /\ ~e.pending /\ e.peerVerified = c.peerVerified
        /\ e.verified = c.peerKey /\ e.key = c.key /\ e.adoptions = c.adoptions
    BY <1>1 DEF Client, Turned
  <2> HIDE DEF e
  <2>5. Linked(e)
    BY <1>1, <1>3, <2>1, <2>4 DEF Linked
  <2>6. ASSUME c.adoptions = 0 PROVE Gate(u, e, C, R)
    <3>1. Gate(u, c, C, R)
      BY <2>6 DEF OK, Good
    <3>2. RecordOf(u, c.key, c.peerKey, C, R)
      BY <1>3, <3>1 DEF Gate, RecordOf
    <3> QED BY <2>1, <2>4, <3>1, <3>2 DEF Gate
  <2>7. OK(u, e, C, R)
    BY <2>3, <2>4, <2>5, <2>6, TurnedOK
  <2>8. OK(u, flushOutbox(e), C, R) /\ Same(e, flushOutbox(e))
    BY <2>4, <2>7, FlushOK
  <2>9. Later(c, e)
    BY <1>1, <2>3, <2>4 DEF Later, Client
  <2> QED BY <1>1, <2>2, <2>7, <2>8, <2>9, Then
<1> QED BY <1>2, <1>3

\* maybeResendVerifyAck and verify_resync: an ack is repeated.
LEMMA RepeatOK ==
    ASSUME NEW u, NEW c, NEW C, NEW R, OK(u, c, C, R), c.loggedIn
    PROVE  /\ OK(u, maybeResendVerifyAck(c), C, R) /\ Same(c, maybeResendVerifyAck(c))
           /\ OK(u, handleVerifyResync(c), C, R) /\ Same(c, handleVerifyResync(c))
<1>1. maybeResendVerifyAck(c) = c \/ (c.peerKey # 0 /\ ~c.flagged
                                      /\ maybeResendVerifyAck(c) = sendOrQueueVerifyAck(c))
  BY DEF maybeResendVerifyAck
<1>2. handleVerifyResync(c) = c \/ (c.peerKey # 0 /\ ~c.flagged
                                    /\ handleVerifyResync(c) = sendOrQueueVerifyAck(c))
  BY DEF handleVerifyResync, conversationBlocked
<1>3. c.peerKey # 0 /\ ~c.flagged =>
        OK(u, sendOrQueueVerifyAck(c), C, R) /\ Same(c, sendOrQueueVerifyAck(c))
  BY SendAckOK
<1> QED BY <1>1, <1>2, <1>3, SameSelf

\* acknowledgeKeyChange, once the comparison is part of the history.
LEMMA AcknowledgeOK ==
    ASSUME NEW u \in Users, NEW c, NEW C, NEW R, OK(u, c, C, R), c.loggedIn,
           c.flagged => <<u, c.key, c.peerKey>> \in C
    PROVE  OK(u, acknowledgeKeyChange(c), C, R) /\ Later(c, acknowledgeKeyChange(c))
<1>1. c \in Client /\ Linked(c)
  BY DEF OK, Typed
<1>2. CASE ~c.flagged
  BY <1>2, ResolveOK DEF acknowledgeKeyChange
<1>3. CASE c.flagged
  <2> DEFINE a0 == [c EXCEPT !.flagged = FALSE]
             a1 == dropSession(a0)
             a2 == clearSession(a1)
             a3 == sendOrQueueVerifyAck(a2)
             a4 == [a3 EXCEPT !.ackOwed = ~c.peerVerified]
             a5 == IF amInitiatorFor(a4) THEN sendOrQueueHandshake(a4) ELSE a4
             a6 == flushOutbox(a5)
  <2>1. acknowledgeKeyChange(c) = tryResolveBilateral(a6)
    BY <1>3, Zenon DEF acknowledgeKeyChange
  <2>2. a0 \in Client
    BY <1>1 DEF Client
  <2>3. /\ Turned(c, a0) /\ a0.disk = c.disk /\ a0.session = c.session /\ a0.ident = c.ident
        /\ a0.peerKey = c.peerKey /\ a0.loggedIn = c.loggedIn /\ a0.on = c.on
        /\ ~a0.flagged /\ a0.pending = c.pending /\ a0.peerVerified = c.peerVerified
        /\ a0.verified = c.verified /\ a0.key = c.key /\ a0.adoptions = c.adoptions
    BY <1>1 DEF Client, Turned
  <2> HIDE DEF a0
  <2>4. Linked(a0)
    BY <1>1, <2>3 DEF Linked
  <2>5. ASSUME c.adoptions = 0 PROVE Gate(u, a0, C, R)
    <3>1. Gate(u, c, C, R)
      BY <2>5 DEF OK, Good
    <3> QED BY <1>3, <2>3, <3>1 DEF Gate
  <2>6. OK(u, a0, C, R) /\ Later(c, a0)
    <3>1. OK(u, a0, C, R)
      BY <2>2, <2>3, <2>4, <2>5, TurnedOK
    <3> QED BY <1>1, <2>2, <2>3, <3>1 DEF Later, Client
  <2>7. a0.peerKey # 0
    BY <1>1, <1>3, <2>3 DEF Linked
  <2>8. OK(u, a1, C, R) /\ Same(a0, a1)
    BY <1>1, <2>3, <2>6, StoreOK
  <2> HIDE DEF a1
  <2>9. OK(u, a2, C, R) /\ Same(a1, a2)
    <3>1. a1.loggedIn
      BY <2>3, <2>8 DEF Same
    <3> QED BY <2>8, <3>1, StoreOK
  <2> HIDE DEF a2
  <2>10. a2.loggedIn /\ a2.peerKey # 0 /\ ~a2.flagged
    BY <2>3, <2>7, <2>8, <2>9 DEF Same
  <2>11. OK(u, a3, C, R) /\ Same(a2, a3)
    BY <2>9, <2>10, SendAckOK
  <2> HIDE DEF a3
  <2>12. OK(u, a4, C, R) /\ Same(a3, a4)
    <3>1. a3 \in Client /\ Linked(a3) /\ a3.loggedIn
      BY <2>10, <2>11 DEF OK, Typed, Same
    <3>2. a4 \in Client
      BY <1>1, <3>1 DEF Client
    <3>3. Quiet(a3, a4) /\ a4.session = a3.session /\ a4.disk = a3.disk
      BY <3>1 DEF Client, Quiet, Same
    <3> HIDE DEF a4
    <3> QED BY <2>11, <3>1, <3>2, <3>3, QuietOK DEF Linked
  <2> HIDE DEF a4
  <2>13. a4.loggedIn
    BY <2>10, <2>11, <2>12 DEF Same
  <2>14. OK(u, a5, C, R) /\ Same(a4, a5)
    BY <2>12, <2>13, HandshakeOK, SameSelf
  <2> HIDE DEF a5
  <2>15. a5.loggedIn
    BY <2>13, <2>14 DEF Same
  <2>16. OK(u, a6, C, R) /\ Same(a5, a6)
    BY <2>14, <2>15, FlushOK
  <2> HIDE DEF a6
  <2>17. Same(a0, a6) /\ a6.loggedIn
    <3>1. Same(a0, a3)
      BY <2>8, <2>9, <2>11, SameTwice
    <3>2. Same(a3, a6)
      BY <2>12, <2>14, <2>16, SameTwice
    <3> QED BY <2>15, <2>16, <3>1, <3>2, SameTwice DEF Same
  <2>18. Later(c, a6)
    BY <1>1, <2>6, <2>16, <2>17, Then
  <2>19. OK(u, tryResolveBilateral(a6), C, R) /\ Later(a6, tryResolveBilateral(a6))
    BY <2>16, <2>17, ResolveOK
  <2> QED BY <1>1, <2>1, <2>16, <2>18, <2>19, Then
<1> QED BY <1>2, <1>3

-----------------------------------------------------------------------------
(* handleServerFrame: frames of the peer.                                   *)

\* A frame is put aside until the key is known.
LEMMA StashOK ==
    ASSUME NEW u, NEW c, NEW C, NEW R, OK(u, c, C, R), c.loggedIn,
           NEW f \in StoredFrame, c.adoptions = 0 => f \in Said(Peer(u), C, R)
    PROVE  LET e == [c EXCEPT !.stash = Append(c.stash, f)]
           IN  OK(u, requestKeyFor(e), C, R) /\ Same(c, requestKeyFor(e))
<1> DEFINE e == [c EXCEPT !.stash = Append(c.stash, f)]
<1>1. c \in Client /\ Linked(c)
  BY DEF OK, Typed
<1>2. c.stash \in Seq(StoredFrame) /\ Append(c.stash, f) \in Seq(StoredFrame)
  BY <1>1 DEF Client
<1>3. e \in Client
  BY <1>1, <1>2 DEF Client
<1>4. /\ Same(c, e) /\ e.session = c.session /\ e.disk = c.disk /\ e.tx = c.tx
      /\ e.stash = Append(c.stash, f) /\ e.outbox = c.outbox /\ e.key = c.key
  BY <1>1 DEF Client, Same
<1> HIDE DEF e
<1>5. c.adoptions = 0 => Queues(u, e, C, R)
  <2>1. SUFFICES ASSUME c.adoptions = 0 PROVE Queues(u, e, C, R)
    BY <2>1
  <2>2. Queues(u, c, C, R) /\ f \in Said(Peer(u), C, R)
    BY <2>1 DEF OK, Good
  <2> QED BY <1>4, <2>2 DEF Queues
<1>6. OK(u, e, C, R)
  BY <1>1, <1>3, <1>4, <1>5, SameOK DEF Linked
<1>7. e.loggedIn
  BY <1>4 DEF Same
<1>8. OK(u, requestKeyFor(e), C, R) /\ Same(e, requestKeyFor(e))
  BY <1>6, <1>7, RequestOK
<1>9. Same(c, requestKeyFor(e))
  BY <1>4, <1>8, SameTwice
<1> QED BY <1>8, <1>9 DEF e

\* verifyack.
LEMMA HandleAckOK ==
    ASSUME NEW u \in Users, NEW c, NEW C, NEW R, OK(u, c, C, R), c.loggedIn,
           NEW f \in AckFrame, c.adoptions = 0 => f \in Said(Peer(u), C, R)
    PROVE  OK(u, handleVerifyAck(c, f), C, R) /\ Later(c, handleVerifyAck(c, f))
<1>1. c \in Client /\ Linked(c)
  BY DEF OK, Typed
<1>2. f \in StoredFrame /\ f.type = "verifyack"
  BY DEF StoredFrame, AckFrame
<1>3. CASE c.peerKey = 0
  <2> DEFINE e == requestKeyFor([c EXCEPT !.stash = Append(c.stash, f)])
  <2>1. handleVerifyAck(c, f) = e
    BY <1>3, Zenon DEF handleVerifyAck
  <2>2. OK(u, e, C, R) /\ Same(c, e)
    BY <1>2, StashOK
  <2> QED BY <1>1, <2>1, <2>2, LaterFacts
<1>4. CASE c.peerKey # 0 /\ ~(f.ik = c.peerKey /\ f.peer_ik = c.key)
  <2>1. handleVerifyAck(c, f) = c
    BY <1>4 DEF handleVerifyAck
  <2> QED BY <1>1, <2>1, SameSelf, LaterFacts
<1>5. CASE c.peerKey # 0 /\ f.ik = c.peerKey /\ f.peer_ik = c.key
  <2> DEFINE e == [c EXCEPT !.peerVerified = TRUE, !.attested = c.key]
  <2>1. handleVerifyAck(c, f) = tryResolveBilateral(e)
    BY <1>5 DEF handleVerifyAck
  <2>2. e \in Client
    BY <1>1 DEF Client, KeyOrNone
  <2>3. /\ Turned(c, e) /\ e.disk = c.disk /\ e.session = c.session /\ e.ident = c.ident
        /\ e.peerKey = c.peerKey /\ e.loggedIn = c.loggedIn /\ e.on = c.on
        /\ e.flagged = c.flagged /\ e.pending = c.pending /\ e.peerVerified
        /\ e.verified = c.verified /\ e.key = c.key /\ e.adoptions = c.adoptions
    BY <1>1 DEF Client, Turned
  <2> HIDE DEF e
  <2>4. Linked(e)
    BY <1>1, <1>5, <2>3 DEF Linked
  <2>5. ASSUME c.adoptions = 0 PROVE Gate(u, e, C, R)
    <3>1. Gate(u, c, C, R)
      BY <2>5 DEF OK, Good
    <3>2. Peer(u) \in R \/ <<Peer(u), c.peerKey, c.key>> \in C
      BY <1>2, <1>5, <2>5 DEF Said
    <3> QED BY <2>3, <3>1, <3>2 DEF Gate
  <2>6. OK(u, e, C, R)
    BY <2>2, <2>3, <2>4, <2>5, TurnedOK
  <2>7. Later(c, e)
    BY <1>1, <2>2, <2>3 DEF Later, Client
  <2>8. OK(u, tryResolveBilateral(e), C, R) /\ Later(e, tryResolveBilateral(e))
    BY <2>3, <2>6, ResolveOK
  <2> QED BY <1>1, <2>1, <2>6, <2>7, <2>8, Then
<1> QED BY <1>3, <1>4, <1>5

\* A handshake under another key.
LEMMA AdoptOK ==
    ASSUME NEW u, NEW c, NEW C, NEW R, OK(u, c, C, R), c.loggedIn, c.peerKey # 0,
           NEW f \in MessageFrame, f.kind = "handshake", f.ik # c.peerKey
    PROVE  OK(u, adoptIdentity(c, f), C, R) /\ Later(c, adoptIdentity(c, f))
<1>1. c \in Client /\ Linked(c) /\ Guarded(c) /\ c.ident = c.peerKey
  BY Held DEF OK, Typed
<1>2. f.ik \in Keys /\ f \in StoredFrame
  BY DEF MessageFrame, StoredFrame
<1>3. CASE c.adopted = f.ik
  <2>1. adoptIdentity(c, f) = c
    BY <1>3 DEF adoptIdentity
  <2> QED BY <1>1, <2>1, SameSelf, LaterFacts
<1>4. CASE c.adopted # f.ik
  <2> DEFINE a == [c EXCEPT !.adopted = f.ik, !.peerKey = f.ik, !.stash = Append(c.stash, f),
                            !.adoptions = c.adoptions + 1, !.tried = c.tried \cup {f.ik}]
             e == ensureSharedKey(a, f.ik)
  <2>1. adoptIdentity(c, f) = requestKeyFor(e)
    BY <1>4, Zenon DEF adoptIdentity
  <2>2. /\ c.adoptions + 1 \in Nat /\ Append(c.stash, f) \in Seq(StoredFrame)
        /\ c.tried \cup {f.ik} \in SUBSET Keys /\ f.ik \in KeyOrNone
    BY <1>1, <1>2 DEF Client, KeyOrNone
  <2>3. a \in Client
    <3> DEFINE n == c.adoptions + 1
               s == Append(c.stash, f)
               t == c.tried \cup {f.ik}
               k == f.ik
    <3>1. n \in Nat /\ s \in Seq(StoredFrame) /\ t \in SUBSET Keys /\ k \in KeyOrNone
      BY <2>2
    <3> HIDE DEF n, s, t, k
    <3>2. [c EXCEPT !.adopted = k, !.peerKey = k, !.stash = s, !.adoptions = n, !.tried = t]
            \in Client
      BY <1>1, <3>1 DEF Client
    <3> QED BY <3>2 DEF n, s, t, k
  <2>4. /\ a.key = c.key /\ a.loggedIn = c.loggedIn /\ a.on = c.on /\ a.peerKey = f.ik
        /\ a.ident = c.ident /\ a.flagged = c.flagged /\ a.pending = c.pending
        /\ a.peerVerified = c.peerVerified /\ a.disk = c.disk /\ a.adopted = f.ik
        /\ a.adoptions = c.adoptions + 1 /\ a.tried = c.tried \cup {f.ik}
    BY <1>1 DEF Client
  <2> HIDE DEF a
  <2>5. e = [a EXCEPT !.ident = f.ik, !.session = NoSession]
    <3>1. a.ident \notin {0, f.ik}
      BY <1>1, <2>4
    <3> QED BY <3>1 DEF ensureSharedKey
  <2>6. e \in Client
    <3>1. NoSession \in Session
      BY DEF Session
    <3> QED BY <2>2, <2>3, <2>5, <3>1 DEF Client
  <2>7. /\ e.key = c.key /\ e.loggedIn = c.loggedIn /\ e.on = c.on /\ e.peerKey = f.ik
        /\ e.ident = f.ik /\ e.flagged = c.flagged /\ e.pending = c.pending
        /\ e.peerVerified = c.peerVerified /\ e.disk = c.disk /\ e.adopted = f.ik
        /\ e.adoptions = c.adoptions + 1 /\ e.tried = c.tried \cup {f.ik}
        /\ e.session = NoSession
    BY <2>3, <2>4, <2>5 DEF Client
  <2> HIDE DEF e
  <2>8. Linked(e)
    BY <1>1, <1>2, <2>7, KeyFacts DEF Linked, Between
  <2>9. c.adoptions \in Nat
    BY <1>1 DEF Client
  <2>10. Guarded(e)
    <3>1. e.adoptions # 0 /\ e.adopted \in e.tried
      BY <2>7, <2>9
    <3>2. ASSUME e.adoptions > 1 PROVE \E x, y \in e.tried : x # y
      <4>1. c.adoptions > 0
        BY <2>7, <2>9, <3>2
      <4>2. c.adopted \in c.tried
        BY <1>1, <4>1 DEF Guarded
      <4> QED BY <1>4, <2>7, <4>2
    <3> QED BY <3>1, <3>2 DEF Guarded
  <2>11. OK(u, e, C, R)
    BY <2>6, <2>7, <2>8, <2>9, <2>10 DEF OK, Typed
  <2>12. Later(c, e)
    BY <2>7, <2>9 DEF Later
  <2>13. OK(u, requestKeyFor(e), C, R) /\ Same(e, requestKeyFor(e))
    BY <2>7, <2>11, RequestOK
  <2> QED BY <1>1, <2>1, <2>11, <2>12, <2>13, Then
<1> QED BY <1>3, <1>4

\* A DH ratchet step leaves a session between the same keys.
LEMMA Ratcheted ==
    ASSUME NEW s \in Session, s # NoSession, NEW chain \in Chain, NEW x \in Keys \X Nat
    PROVE  LET t == [s EXCEPT !.recv = chain, !.send = Append(chain, x), !.ready = TRUE]
           IN  t \in Session /\ t.pair = s.pair
<1>1. s \in [pair : Keys \X Keys, send : Chain, recv : Chain, ready : BOOLEAN]
  BY DEF Session
<1>2. Append(chain, x) \in Chain
  BY DEF Chain
<1> QED BY <1>1, <1>2 DEF Session

\* decryptFrom.
LEMMA DecryptOK ==
    ASSUME NEW u, NEW c, NEW C, NEW R, OK(u, c, C, R), c.loggedIn, c.ident # 0,
           NEW f \in MessageFrame
    PROVE  OK(u, decryptFrom(c, f), C, R) /\ Same(c, decryptFrom(c, f))
<1> DEFINE d == sessionFor(c)
           t == [d.session EXCEPT !.recv = f.chain, !.send = Append(f.chain, NewDH(d)),
                                  !.ready = TRUE]
           n == d.dh + 1
           e == [d EXCEPT !.session = t, !.dh = n]
<1>1. OK(u, d, C, R) /\ Same(c, d) /\ d.session # NoSession
  BY SessionForOK
<1>2. decryptFrom(c, f) = IF NextChain(d.session, f)
                          THEN [d EXCEPT !.session.recv = f.chain,
                                         !.session.send = Append(f.chain, NewDH(d)),
                                         !.session.ready = TRUE, !.dh = d.dh + 1]
                          ELSE d
  BY Zenon DEF decryptFrom
<1> HIDE DEF d
<1>3. d \in Client /\ Linked(d) /\ d.loggedIn /\ d.key = c.key /\ d.ident = c.ident
  BY <1>1 DEF OK, Typed, Same
<1>4. /\ d.session \in Session /\ f.chain \in Chain /\ NewDH(d) \in Keys \X Nat /\ n \in Nat
  BY <1>3 DEF Client, MessageFrame, NewDH
<1>5. t \in Session /\ t.pair = d.session.pair
  <2> DEFINE s == d.session
             x == NewDH(d)
             chain == f.chain
  <2>1. s \in Session /\ s # NoSession /\ chain \in Chain /\ x \in Keys \X Nat
    BY <1>1, <1>4
  <2> HIDE DEF s, x, chain
  <2>2. LET r == [s EXCEPT !.recv = chain, !.send = Append(chain, x), !.ready = TRUE]
        IN  r \in Session /\ r.pair = s.pair
    BY <2>1, Ratcheted, Zenon
  <2> QED BY <2>2, Zenon DEF s, x, chain
<1>6. [d EXCEPT !.session.recv = f.chain, !.session.send = Append(f.chain, NewDH(d)),
                !.session.ready = TRUE, !.dh = d.dh + 1] = e
  <2>1. d.session \in [pair : Keys \X Keys, send : Chain, recv : Chain, ready : BOOLEAN]
    BY <1>1, <1>4 DEF Session
  <2> DEFINE x == Append(f.chain, NewDH(d))
             s1 == [d.session EXCEPT !.recv = f.chain]
             s2 == [s1 EXCEPT !.send = x]
  <2>2. s1.send = d.session.send /\ s1.ready = d.session.ready /\ s2.ready = d.session.ready
    BY <2>1
  <2> HIDE DEF x
  <2> QED BY <1>3, <2>1 DEF Client, n, t, x
<1> HIDE DEF t, n
<1>7. e \in Client
  BY <1>3, <1>4, <1>5 DEF Client
<1>8. Quiet(d, e) /\ e.session = t /\ e.disk = d.disk
  BY <1>3 DEF Client, Quiet, Same
<1> HIDE DEF e
<1>9. OK(u, e, C, R) /\ Same(d, e)
  BY <1>1, <1>3, <1>5, <1>7, <1>8, QuietOK DEF Linked, Between
<1>10. Same(c, e)
  BY <1>1, <1>9, SameTwice
<1> QED BY <1>1, <1>2, <1>6, <1>9, <1>10

\* msg.
LEMMA HandleMsgOK ==
    ASSUME NEW u \in Users, NEW c, NEW C, NEW R, OK(u, c, C, R), c.loggedIn,
           NEW f \in MessageFrame, c.adoptions = 0 => f \in Said(Peer(u), C, R)
    PROVE  OK(u, handleMsg(c, f), C, R) /\ Later(c, handleMsg(c, f))
<1>1. c \in Client /\ Linked(c)
  BY DEF OK, Typed
<1>2. f \in StoredFrame /\ f.type = "msg" /\ f.pair \in Keys \X Keys
  BY DEF StoredFrame, MessageFrame
<1>3. CASE c.peerKey = 0
  <2> DEFINE e == requestKeyFor([c EXCEPT !.stash = Append(c.stash, f)])
  <2>1. handleMsg(c, f) = e
    BY <1>3, Zenon DEF handleMsg
  <2>2. OK(u, e, C, R) /\ Same(c, e)
    BY <1>2, StashOK
  <2> QED BY <1>1, <2>1, <2>2, LaterFacts
<1>4. CASE c.peerKey # 0 /\ f.kind = "handshake" /\ f.ik # c.peerKey
  <2>1. handleMsg(c, f) = adoptIdentity(c, f)
    BY <1>4, Zenon DEF handleMsg
  <2> QED BY <1>4, <2>1, AdoptOK
<1>5. CASE c.peerKey # 0 /\ ~(f.kind = "handshake" /\ f.ik # c.peerKey)
  <2> DEFINE d == decryptFrom(c, f)
             l == IF f.kind = "text" THEN Append(d.lost, f.pair) ELSE d.lost
             missed == [d EXCEPT !.lost = l]
             kept == persistSession(d)
             answered == IF f.kind = "ping" THEN Transmit(kept, "pong") ELSE kept
             done == flushOutbox(answered)
  <2>1. handleMsg(c, f) = IF ~Decryptable(c, f) THEN missed ELSE done
    BY <1>5, Zenon DEF handleMsg
  <2>2. c.ident # 0
    BY <1>5, Held
  <2>3. OK(u, d, C, R) /\ Same(c, d)
    BY <2>2, DecryptOK
  <2> HIDE DEF d
  <2>4. d \in Client /\ Linked(d) /\ d.loggedIn
    BY <2>3 DEF OK, Typed, Same
  <2>5. OK(u, missed, C, R) /\ Same(d, missed)
    <3>1. l \in Seq(Keys \X Keys)
      BY <1>2, <2>4 DEF Client
    <3> HIDE DEF l
    <3>2. missed \in Client
      BY <2>4, <3>1 DEF Client
    <3>3. Quiet(d, missed) /\ missed.session = d.session /\ missed.disk = d.disk
      BY <2>4 DEF Client, Quiet, Same
    <3> HIDE DEF missed
    <3> QED BY <2>3, <2>4, <3>2, <3>3, QuietOK DEF Linked
  <2>6. OK(u, kept, C, R) /\ Same(d, kept)
    BY <2>3, <2>4, StoreOK
  <2> HIDE DEF missed, kept
  <2>7. kept.loggedIn /\ kept.ident # 0
    BY <2>2, <2>3, <2>4, <2>6 DEF Same
  <2>8. OK(u, answered, C, R) /\ Same(kept, answered)
    BY <2>6, <2>7, TransmitOK, SameSelf
  <2> HIDE DEF answered
  <2>9. answered.loggedIn
    BY <2>7, <2>8 DEF Same
  <2>10. OK(u, done, C, R) /\ Same(answered, done)
    BY <2>8, <2>9, FlushOK
  <2> HIDE DEF done
  <2>11. Same(c, missed)
    BY <2>3, <2>5, SameTwice
  <2>12. Same(c, done)
    <3>1. Same(c, answered)
      BY <2>3, <2>6, <2>8, SameTwice
    <3> QED BY <2>10, <3>1, SameTwice
  <2> QED BY <1>1, <2>1, <2>5, <2>10, <2>11, <2>12, LaterFacts
<1> QED BY <1>3, <1>4, <1>5

\* A frame that waited for the key.
LEMMA ReplayOK ==
    ASSUME NEW u \in Users, NEW c, NEW C, NEW R, OK(u, c, C, R), c.loggedIn,
           NEW f \in StoredFrame, c.adoptions = 0 => f \in Said(Peer(u), C, R)
    PROVE  OK(u, Replay(c, f), C, R) /\ Later(c, Replay(c, f))
<1>1. CASE f.type = "msg"
  <2>1. f \in MessageFrame
    BY <1>1 DEF StoredFrame, AckFrame
  <2> QED BY <1>1, <2>1, HandleMsgOK DEF Replay
<1>2. CASE f.type # "msg"
  <2>1. f \in AckFrame
    BY <1>2 DEF StoredFrame, MessageFrame
  <2> QED BY <1>2, <2>1, HandleAckOK DEF Replay
<1> QED BY <1>1, <1>2

\* The function that replays the frames of q one after the other, from b.
Replayed(g, b, q, n) == g = [k \in 0 .. n |-> IF k = 0 THEN b ELSE Replay(g[k - 1], q[k])]

\* It exists for every length.
LEMMA ReplayedExists ==
    ASSUME NEW b, NEW q, NEW n \in Nat
    PROVE  \E g : Replayed(g, b, q, n)
<1> DEFINE T == {j \in Nat : ~ \E g : Replayed(g, b, q, j)}
<1>1. SUFFICES ASSUME T # {} PROVE FALSE
  BY <1>1
<1>2. PICK m \in T : \A k \in T : m <= k
  BY <1>1, Least
<1>3. CASE m = 0
  <2> DEFINE g == [k \in 0..0 |-> b]
  <2>1. Replayed(g, b, q, 0)
    BY DEF Replayed
  <2> QED BY <1>3, <2>1
<1>4. CASE m # 0
  <2>1. m - 1 \in Nat
    BY <1>4
  <2>2. m - 1 \notin T
    <3> HIDE DEF T
    <3>1. m \in Nat
      BY DEF T
    <3> QED BY <1>2, <3>1
  <2>3. PICK g : Replayed(g, b, q, m - 1)
    BY <2>1, <2>2
  <2> DEFINE h == [k \in 0..m |-> IF k = m THEN Replay(g[m - 1], q[m]) ELSE g[k]]
  <2>4. \A k \in 0..m : h[k] = IF k = 0 THEN b ELSE Replay(h[k - 1], q[k])
    BY <1>4, <2>1, <2>3 DEF Replayed
  <2>5. Replayed(h, b, q, m)
    BY <2>4 DEF Replayed
  <2> QED BY <2>5
<1> QED BY <1>3, <1>4

\* replayPendingFrames.  A frame may be put aside again, and one may be a handshake
\* whose key is adopted: nothing is claimed of the frames after it.
LEMMA ReplayAllOK ==
    ASSUME NEW u \in Users, NEW c, NEW C, NEW R, OK(u, c, C, R), c.loggedIn
    PROVE  OK(u, replayPendingFrames(c), C, R) /\ Later(c, replayPendingFrames(c))
<1> DEFINE b == [c EXCEPT !.stash = <<>>]
           q == c.stash
           n == Len(q)
           A == CHOOSE g : g = [k \in 0 .. n |-> IF k = 0 THEN b ELSE Replay(g[k - 1], q[k])]
<1>1. replayPendingFrames(c) = A[n]
  BY DEF replayPendingFrames
<1>2. c \in Client /\ Linked(c)
  BY DEF OK, Typed
<1>3. q \in Seq(StoredFrame) /\ (c.adoptions = 0 => q \in Seq(Said(Peer(u), C, R)))
  <2>1. q \in Seq(StoredFrame)
    BY <1>2 DEF Client
  <2> QED BY <2>1 DEF OK, Good, Queues
<1>4. /\ b \in Client /\ Same(c, b) /\ b.session = c.session /\ b.disk = c.disk
      /\ b.tx = c.tx /\ b.stash = <<>> /\ b.outbox = c.outbox
  <2>1. <<>> \in Seq(StoredFrame)
    OBVIOUS
  <2>2. b \in Client
    BY <1>2, <2>1 DEF Client
  <2> QED BY <1>2, <2>2 DEF Client, Same
<1> HIDE DEF b
<1>5. OK(u, b, C, R) /\ Later(c, b)
  <2>1. c.adoptions = 0 => Queues(u, b, C, R)
    <3>1. SUFFICES ASSUME c.adoptions = 0 PROVE Queues(u, b, C, R)
      BY <3>1
    <3>2. Queues(u, c, C, R)
      BY <3>1 DEF OK, Good
    <3>3. <<>> \in Seq(Said(Peer(u), C, R)) /\ b.key = c.key
      BY <1>4 DEF Same
    <3> QED BY <1>4, <3>2, <3>3 DEF Queues
  <2>2. OK(u, b, C, R)
    BY <1>2, <1>4, <2>1, SameOK DEF Linked
  <2> QED BY <1>2, <1>4, <2>2, LaterFacts
<1>6. /\ n \in Nat
      /\ \A k \in 1..n : q[k] \in StoredFrame /\ (c.adoptions = 0 => q[k] \in Said(Peer(u), C, R))
  BY <1>3
<1>7. Replayed(A, b, q, n)
  <2> HIDE DEF n, q
  <2>1. \E g : Replayed(g, b, q, n)
    BY <1>6, ReplayedExists
  <2>2. \E g : g = [k \in 0 .. n |-> IF k = 0 THEN b ELSE Replay(g[k - 1], q[k])]
    BY <2>1, Zenon DEF Replayed
  <2> QED BY <2>2, Zenon DEF Replayed
<1> HIDE DEF A, n, q
<1> DEFINE P(e) == OK(u, e, C, R) /\ Later(c, e)
           T == {j \in 0..n : ~P(A[j])}
<1>8. CASE T = {}
  BY <1>1, <1>6, <1>8
<1>9. CASE T # {}
  <2>1. T \subseteq Nat
    BY <1>6
  <2>2. PICK m \in T : \A k \in T : m <= k
    <3> HIDE DEF T
    <3> QED BY <1>9, <2>1, Least
  <2>3. m \in 0..n /\ ~P(A[m])
    OBVIOUS
  <2>4. CASE m = 0
    <3>1. A[0] = b
      BY <1>6, <1>7 DEF Replayed
    <3> QED BY <1>5, <2>3, <2>4, <3>1
  <2>5. CASE m # 0
    <3>1. m - 1 \in 0..n /\ m \in 1..n
      BY <1>6, <2>3, <2>5
    <3>2. m - 1 \notin T
      <4> HIDE DEF T
      <4> QED BY <1>6, <2>2, <2>3
    <3>3. P(A[m - 1])
      BY <3>1, <3>2
    <3>4. A[m] = Replay(A[m - 1], q[m])
      BY <1>7, <2>3, <2>5 DEF Replayed
    <3> DEFINE a == A[m - 1]
               f == q[m]
    <3>5. OK(u, a, C, R) /\ Later(c, a)
      BY <3>3
    <3>6. f \in StoredFrame /\ (c.adoptions = 0 => f \in Said(Peer(u), C, R))
      BY <1>6, <3>1
    <3> HIDE DEF a, f
    <3>7. a \in Client
      BY <3>5 DEF OK, Typed
    <3>8. a.loggedIn /\ (a.adoptions = 0 => c.adoptions = 0)
      BY <1>2, <3>5, <3>7 DEF Later, Client
    <3>9. OK(u, Replay(a, f), C, R) /\ Later(a, Replay(a, f))
      BY <3>5, <3>6, <3>8, ReplayOK
    <3>10. Later(c, Replay(a, f))
      BY <1>2, <3>5, <3>9, Then
    <3> QED BY <2>3, <3>4, <3>9, <3>10 DEF a, f
  <2> QED BY <2>4, <2>5
<1> QED BY <1>8, <1>9

-----------------------------------------------------------------------------
(* handleServerFrame: keys from the directory, and the other entry points.  *)

\* ensureSharedKey with the key the directory states.
LEMMA KnownFields ==
    ASSUME NEW c, c \in Client, NEW pub \in Keys
    PROVE  LET known == ensureSharedKey([c EXCEPT !.peerKey = pub], pub)
           IN  /\ known \in Client /\ Turned(c, known)
               /\ known.loggedIn = c.loggedIn /\ known.on = c.on /\ known.disk = c.disk
               /\ known.peerKey = pub /\ known.ident = pub
               /\ known.session = (IF c.ident \notin {0, pub} THEN NoSession ELSE c.session)
               /\ known.flagged = c.flagged /\ known.pending = c.pending
               /\ known.peerVerified = c.peerVerified /\ known.attested = c.attested
               /\ known.verified = c.verified
<1> DEFINE a == [c EXCEPT !.peerKey = pub]
           s == IF c.ident \notin {0, pub} THEN NoSession ELSE c.session
           e == [a EXCEPT !.ident = pub, !.session = s]
<1>1. pub \in KeyOrNone /\ s \in Session
  BY DEF KeyOrNone, Session, Client
<1>2. a \in Client
  BY <1>1 DEF Client
<1>3. /\ Turned(c, a) /\ a.loggedIn = c.loggedIn /\ a.on = c.on /\ a.disk = c.disk
      /\ a.peerKey = pub /\ a.ident = c.ident /\ a.session = c.session
      /\ a.flagged = c.flagged /\ a.pending = c.pending /\ a.peerVerified = c.peerVerified
      /\ a.attested = c.attested /\ a.verified = c.verified
  BY DEF Client, Turned
<1> HIDE DEF a
<1>4. ensureSharedKey(a, pub) = e
  BY <1>3, Zenon DEF ensureSharedKey
<1> HIDE DEF s
<1>5. e \in Client
  BY <1>1, <1>2 DEF Client
<1>6. /\ Turned(a, e) /\ e.loggedIn = a.loggedIn /\ e.on = a.on /\ e.disk = a.disk
      /\ e.peerKey = a.peerKey /\ e.ident = pub /\ e.session = s
      /\ e.flagged = a.flagged /\ e.pending = a.pending /\ e.peerVerified = a.peerVerified
      /\ e.attested = a.attested /\ e.verified = a.verified
  BY <1>2 DEF Client, Turned
<1> HIDE DEF e
<1>7. Turned(c, e)
  BY <1>3, <1>6 DEF Turned
<1> QED BY <1>3, <1>4, <1>5, <1>6, <1>7 DEF a, s

\* The records of the old key are removed.
LEMMA ForgottenFields ==
    ASSUME NEW k, k \in Client
    PROVE  LET e == [clearSession(dropSession(k)) EXCEPT !.attested = 0, !.verified = 0,
                        !.disk.verified = 0, !.disk.attested = 0]
           IN  /\ e \in Client /\ Turned(k, e)
               /\ e.loggedIn = k.loggedIn /\ e.on = k.on /\ e.peerKey = k.peerKey
               /\ e.ident = k.ident /\ e.session = NoSession /\ e.attested = 0 /\ e.verified = 0
               /\ e.disk.session = NoSession /\ e.disk.ident = 0 /\ e.disk.verified = 0
<1> DEFINE a == dropSession(k)
           d == [k.disk EXCEPT !.session = NoSession, !.ident = 0]
           b == [a EXCEPT !.disk = d]
           x == [d EXCEPT !.verified = 0, !.attested = 0]
           e == [b EXCEPT !.attested = 0, !.verified = 0, !.disk = x]
<1>1. NoSession \in Session /\ 0 \in KeyOrNone
  BY DEF Session, KeyOrNone
<1>2. a \in Client
  BY <1>1 DEF Client, dropSession
<1>3. /\ Turned(k, a) /\ a.loggedIn = k.loggedIn /\ a.on = k.on /\ a.peerKey = k.peerKey
      /\ a.ident = k.ident /\ a.session = NoSession /\ a.disk = k.disk
  BY DEF Client, Turned, dropSession
<1> HIDE DEF a
<1>4. d \in Disk /\ d.session = NoSession /\ d.ident = 0
  BY <1>1 DEF Client, Disk
<1>5. clearSession(a) = b
  BY <1>2, <1>3 DEF clearSession, Client, Disk
<1> HIDE DEF d
<1>6. /\ x \in Disk /\ x.session = NoSession /\ x.ident = 0 /\ x.verified = 0
  BY <1>1, <1>4 DEF Disk
<1>7. b \in Client
  BY <1>2, <1>4 DEF Client
<1>8. /\ Turned(a, b) /\ b.loggedIn = a.loggedIn /\ b.on = a.on /\ b.peerKey = a.peerKey
      /\ b.ident = a.ident /\ b.session = a.session /\ b.disk = d
  BY <1>2 DEF Client, Turned
<1> HIDE DEF b
<1>9. [b EXCEPT !.attested = 0, !.verified = 0, !.disk.verified = 0, !.disk.attested = 0] = e
  BY <1>4, <1>7, <1>8 DEF Client, Disk
<1> HIDE DEF x
<1>10. e \in Client
  BY <1>1, <1>6, <1>7 DEF Client
<1>11. /\ Turned(b, e) /\ e.loggedIn = b.loggedIn /\ e.on = b.on /\ e.peerKey = b.peerKey
       /\ e.ident = b.ident /\ e.session = b.session /\ e.disk = x
       /\ e.attested = 0 /\ e.verified = 0
  BY <1>7 DEF Client, Turned
<1> HIDE DEF e
<1>12. Turned(k, e)
  BY <1>3, <1>8, <1>11 DEF Turned
<1> QED BY <1>3, <1>5, <1>6, <1>8, <1>9, <1>10, <1>11, <1>12 DEF a

\* The flags of a new episode; peerVerified is cleared, or already was.
LEMMA FlaggedFields ==
    ASSUME NEW k, k \in Client, NEW p \in BOOLEAN
    PROVE  LET d == [k EXCEPT !.flagged = TRUE, !.pending = TRUE]
               e == [d EXCEPT !.peerVerified = p]
           IN  /\ d \in Client /\ e \in Client /\ Turned(k, d) /\ Turned(k, e)
               /\ \A x \in {d, e} :
                    /\ x.loggedIn = k.loggedIn /\ x.on = k.on /\ x.peerKey = k.peerKey
                    /\ x.ident = k.ident /\ x.session = k.session /\ x.disk = k.disk
                    /\ x.flagged /\ x.pending /\ x.verified = k.verified
               /\ d.peerVerified = k.peerVerified /\ e.peerVerified = p
<1> DEFINE d == [k EXCEPT !.flagged = TRUE, !.pending = TRUE]
           e == [d EXCEPT !.peerVerified = p]
<1>1. d \in Client
  BY DEF Client
<1>2. /\ Turned(k, d) /\ d.loggedIn = k.loggedIn /\ d.on = k.on /\ d.peerKey = k.peerKey
      /\ d.ident = k.ident /\ d.session = k.session /\ d.disk = k.disk
      /\ d.flagged /\ d.pending /\ d.verified = k.verified /\ d.peerVerified = k.peerVerified
  BY DEF Client, Turned
<1> HIDE DEF d
<1>3. e \in Client
  BY <1>1 DEF Client
<1>4. /\ Turned(d, e) /\ e.loggedIn = d.loggedIn /\ e.on = d.on /\ e.peerKey = d.peerKey
      /\ e.ident = d.ident /\ e.session = d.session /\ e.disk = d.disk
      /\ e.flagged = d.flagged /\ e.pending = d.pending /\ e.verified = d.verified
      /\ e.peerVerified = p
  BY <1>1 DEF Client, Turned
<1> HIDE DEF e
<1>5. Turned(k, e)
  BY <1>2, <1>4 DEF Turned
<1>6. \A x \in {d, e} :
         /\ x.loggedIn = k.loggedIn /\ x.on = k.on /\ x.peerKey = k.peerKey
         /\ x.ident = k.ident /\ x.session = k.session /\ x.disk = k.disk
         /\ x.flagged /\ x.pending /\ x.verified = k.verified
  BY <1>2, <1>4
<1> QED BY <1>1, <1>2, <1>3, <1>4, <1>5, <1>6 DEF d, e

\* flagKeyChange opens an episode for a key of which nothing is believed.
LEMMA FlagOK ==
    ASSUME NEW u, NEW c, NEW C, NEW R, OK(u, c, C, R), c.loggedIn, NEW pub \in Keys,
           NEW k, k \in Client, Turned(c, k), k.loggedIn = c.loggedIn, k.on = c.on,
           k.peerKey = pub, k.ident = pub,
           Between(k.session, c.key, pub), Between(k.disk.session, c.key, k.disk.ident),
           c.adoptions = 0 =>
             \A x \in {k.verified, k.disk.verified} : x # 0 => RecordOf(u, c.key, x, C, R),
           k.attested = c.key => ~k.peerVerified
    PROVE  OK(u, flagKeyChange(k), C, R) /\ Later(c, flagKeyChange(k))
<1> DEFINE d == [k EXCEPT !.flagged = TRUE, !.pending = TRUE]
           e == [d EXCEPT !.peerVerified = FALSE]
<1>1. /\ d \in Client /\ e \in Client /\ Turned(k, d) /\ Turned(k, e)
      /\ \A x \in {d, e} :
            /\ x.loggedIn = k.loggedIn /\ x.on = k.on /\ x.peerKey = k.peerKey
            /\ x.ident = k.ident /\ x.session = k.session /\ x.disk = k.disk
            /\ x.flagged /\ x.pending /\ x.verified = k.verified
      /\ d.peerVerified = k.peerVerified /\ e.peerVerified = FALSE
  BY FlaggedFields, Zenon
<1>2. flagKeyChange(k) = IF k.attested # k.key THEN sendVerifyResync(e) ELSE d
  BY Zenon DEF flagKeyChange
<1> HIDE DEF d, e
<1>3. c \in Client /\ Linked(c) /\ k.key = c.key /\ pub # 0
  BY KeyFacts DEF OK, Typed, Turned
<1>4. ASSUME NEW x \in {d, e}, ~x.peerVerified
      PROVE  OK(u, x, C, R) /\ Later(c, x) /\ x.loggedIn
  <2>1. /\ x \in Client /\ Turned(k, x) /\ x.loggedIn = k.loggedIn /\ x.on = k.on
        /\ x.peerKey = k.peerKey /\ x.ident = k.ident /\ x.session = k.session
        /\ x.disk = k.disk /\ x.flagged /\ x.pending /\ x.verified = k.verified
    BY <1>1
  <2>2. Turned(c, x)
    BY <2>1 DEF Turned
  <2>3. x.key = c.key
    BY <2>2 DEF Turned
  <2>4. Linked(x)
    BY <1>3, <1>4, <2>1, <2>3 DEF Linked
  <2>5. ASSUME c.adoptions = 0 PROVE Gate(u, x, C, R)
    BY <1>4, <2>1, <2>3, <2>5 DEF Gate
  <2>6. OK(u, x, C, R)
    BY <2>1, <2>2, <2>4, <2>5, TurnedOK
  <2>7. c.adoptions \in Nat
    BY <1>3 DEF Client
  <2> QED BY <2>1, <2>2, <2>6, <2>7 DEF Later, Turned
<1>5. CASE k.attested # k.key
  <2>1. OK(u, e, C, R) /\ Later(c, e) /\ e.loggedIn
    BY <1>1, <1>4
  <2>2. OK(u, sendVerifyResync(e), C, R) /\ Same(e, sendVerifyResync(e))
    BY <2>1, ResyncOK
  <2> QED BY <1>2, <1>3, <1>5, <2>1, <2>2, Then
<1>6. CASE k.attested = k.key
  <2>1. ~d.peerVerified
    BY <1>1, <1>3, <1>6
  <2>2. OK(u, d, C, R) /\ Later(c, d)
    BY <1>4, <2>1
  <2> QED BY <1>2, <1>6, <2>2
<1> QED BY <1>5, <1>6

\* keys, key and key_update: the key of the directory.
LEMMA HandleKeyOK ==
    ASSUME NEW u \in Users, NEW c, NEW C, NEW R, OK(u, c, C, R), c.loggedIn, NEW pub \in Keys
    PROVE  OK(u, handleKey(c, pub), C, R) /\ Later(c, handleKey(c, pub))
<1> DEFINE known == ensureSharedKey([c EXCEPT !.peerKey = pub], pub)
           forgotten == [clearSession(dropSession(known)) EXCEPT !.attested = 0, !.verified = 0,
                            !.disk.verified = 0, !.disk.attested = 0]
           newPeer == /\ c.session = NoSession /\ c.ident = 0
                      /\ c.disk.session = NoSession /\ ~c.flagged
           judged == IF c.ident \notin {0, pub} THEN flagKeyChange(forgotten)
                     ELSE IF c.verified # pub /\ newPeer THEN flagKeyChange(known)
                     ELSE known
           m == maybeResendVerifyAck(judged)
           r == replayPendingFrames(m)
           f == flushOutbox(r)
<1>1. handleKey(c, pub) = f
  BY DEF handleKey
<1>2. c \in Client /\ Linked(c) /\ c.key \in Keys /\ c.disk \in Disk /\ pub # 0 /\ c.key # 0
  BY KeyFacts DEF OK, Typed, Client
<1>3. /\ known \in Client /\ Turned(c, known)
      /\ known.loggedIn = c.loggedIn /\ known.on = c.on /\ known.disk = c.disk
      /\ known.peerKey = pub /\ known.ident = pub
      /\ known.session = (IF c.ident \notin {0, pub} THEN NoSession ELSE c.session)
      /\ known.flagged = c.flagged /\ known.pending = c.pending
      /\ known.peerVerified = c.peerVerified /\ known.attested = c.attested
      /\ known.verified = c.verified
  BY <1>2, KnownFields, Zenon
<1> HIDE DEF known
<1>4. OK(u, judged, C, R) /\ Later(c, judged)
  <2>1. CASE c.ident \notin {0, pub}
    <3>1. /\ forgotten \in Client /\ Turned(known, forgotten)
          /\ forgotten.loggedIn = known.loggedIn /\ forgotten.on = known.on
          /\ forgotten.peerKey = known.peerKey /\ forgotten.ident = known.ident
          /\ forgotten.session = NoSession /\ forgotten.attested = 0 /\ forgotten.verified = 0
          /\ forgotten.disk.session = NoSession /\ forgotten.disk.ident = 0
          /\ forgotten.disk.verified = 0
      BY <1>3, ForgottenFields, Zenon
    <3> HIDE DEF forgotten
    <3>2. Turned(c, forgotten)
      BY <1>3, <3>1 DEF Turned
    <3>3. OK(u, flagKeyChange(forgotten), C, R) /\ Later(c, flagKeyChange(forgotten))
      BY <1>2, <1>3, <3>1, <3>2, FlagOK DEF Between
    <3> QED BY <2>1, <3>3
  <2>2. CASE c.ident \in {0, pub} /\ c.verified # pub /\ newPeer
    <3>1. ~c.peerVerified
      BY <1>2, <2>2 DEF Linked
    <3>2. c.adoptions = 0 =>
            \A x \in {c.verified, c.disk.verified} : x # 0 => RecordOf(u, c.key, x, C, R)
      BY DEF OK, Good, Gate
    <3>3. OK(u, flagKeyChange(known), C, R) /\ Later(c, flagKeyChange(known))
      BY <1>2, <1>3, <2>2, <3>1, <3>2, FlagOK DEF Between, Linked
    <3> QED BY <2>2, <3>3
  <2>3. CASE c.ident \in {0, pub} /\ ~(c.verified # pub /\ newPeer)
    <3>1. judged = known
      BY <2>3
    <3>2. known.session = c.session /\ known.key = c.key
      BY <1>3, <2>3 DEF Turned
    <3>3. c.ident = 0 => /\ c.session = NoSession /\ c.disk.session = NoSession
                         /\ ~c.pending /\ ~c.flagged /\ ~c.peerVerified /\ c.verified = pub
      BY <1>2, <2>3 DEF Linked, Between
    <3>4. Linked(known)
      BY <1>2, <1>3, <2>3, <3>2, <3>3 DEF Linked, Between
    <3>5. ASSUME c.adoptions = 0 PROVE Gate(u, known, C, R)
      <4>1. Gate(u, c, C, R)
        BY <3>5 DEF OK, Good
      <4>2. c.peerKey \in {0, pub}
        BY <1>2, <2>3 DEF Linked
      <4>3. c.peerKey = 0 => ~c.pending /\ ~c.peerVerified
        BY <1>2 DEF Linked
      <4> QED BY <1>2, <1>3, <2>3, <3>2, <3>3, <4>1, <4>2, <4>3 DEF Gate
    <3>6. OK(u, known, C, R)
      BY <1>3, <3>4, <3>5, TurnedOK
    <3>7. c.adoptions \in Nat
      BY <1>2 DEF Client
    <3>8. Later(c, known)
      BY <1>3, <3>7 DEF Later, Turned
    <3> QED BY <3>1, <3>6, <3>8
  <2> QED BY <2>1, <2>2, <2>3
<1> HIDE DEF judged
<1>5. judged.loggedIn
  BY <1>4 DEF Later
<1>6. OK(u, m, C, R) /\ Same(judged, m)
  BY <1>4, <1>5, RepeatOK
<1> HIDE DEF m
<1>7. Later(c, m) /\ m.loggedIn
  <2>1. Later(c, m)
    BY <1>2, <1>4, <1>6, Then
  <2> QED BY <2>1 DEF Later
<1>8. OK(u, r, C, R) /\ Later(m, r)
  BY <1>6, <1>7, ReplayAllOK
<1> HIDE DEF r
<1>9. Later(c, r) /\ r.loggedIn
  <2>1. Later(c, r)
    BY <1>2, <1>6, <1>7, <1>8, Then
  <2> QED BY <2>1 DEF Later
<1>10. OK(u, f, C, R) /\ Same(r, f)
  BY <1>8, <1>9, FlushOK
<1> HIDE DEF f
<1> QED BY <1>1, <1>2, <1>8, <1>9, <1>10, Then

\* Any frame from the relay.
LEMMA HandleFrameOK ==
    ASSUME NEW u \in Users, NEW c, NEW C, NEW R, OK(u, c, C, R), c.loggedIn,
           NEW f \in Frame, c.adoptions = 0 => f \in Said(Peer(u), C, R)
    PROVE  OK(u, handleServerFrame(c, f), C, R) /\ Later(c, handleServerFrame(c, f))
<1>1. c \in Client
  BY DEF OK, Typed
<1>2. CASE f.type = "keys"
  <2>1. handleServerFrame(c, f) = IF f.ik = 0 THEN flushOutbox(c) ELSE handleKey(c, f.ik)
    BY <1>2 DEF handleServerFrame
  <2>2. f.ik \in Keys \cup {0}
    BY <1>2 DEF Frame, AckFrame, MessageFrame
  <2>3. Later(c, flushOutbox(c)) /\ OK(u, flushOutbox(c), C, R)
    BY <1>1, FlushOK, LaterFacts
  <2> QED BY <2>1, <2>2, <2>3, HandleKeyOK
<1>3. CASE f.type = "key"
  <2>1. handleServerFrame(c, f) = handleKey(c, f.ik)
    BY <1>3 DEF handleServerFrame
  <2>2. f.ik \in Keys
    BY <1>3 DEF Frame, AckFrame, MessageFrame
  <2> QED BY <2>1, <2>2, HandleKeyOK
<1>4. CASE f.type = "verify_resync"
  <2>1. handleServerFrame(c, f) = handleVerifyResync(c)
    BY <1>4 DEF handleServerFrame
  <2> QED BY <1>1, <2>1, RepeatOK, LaterFacts
<1>5. CASE f.type = "verifyack"
  <2>1. handleServerFrame(c, f) = handleVerifyAck(c, f)
    BY <1>5 DEF handleServerFrame
  <2>2. f \in AckFrame
    BY <1>5 DEF Frame, AckFrame, MessageFrame
  <2> QED BY <2>1, <2>2, HandleAckOK
<1>6. CASE f.type = "msg"
  <2>1. handleServerFrame(c, f) = handleMsg(c, f)
    BY <1>6 DEF handleServerFrame
  <2>2. f \in MessageFrame
    BY <1>6 DEF Frame, AckFrame, MessageFrame
  <2> QED BY <2>1, <2>2, HandleMsgOK
<1>7. f.type \in {"keys", "key", "verify_resync", "verifyack", "msg"}
  BY DEF Frame, AckFrame, MessageFrame
<1> QED BY <1>2, <1>3, <1>4, <1>5, <1>6, <1>7

\* sendMessage.
LEMMA SendMessageOK ==
    ASSUME NEW u \in Users, NEW c, NEW C, NEW R, OK(u, c, C, R), c.loggedIn
    PROVE  OK(u, sendMessage(c), C, R) /\ Later(c, sendMessage(c))
<1>1. c \in Client
  BY DEF OK, Typed
<1>2. OK(u, sendMessage(c), C, R) /\ Same(c, sendMessage(c))
  <2>1. CASE c.peerKey = 0
    BY <2>1, RequestOK DEF sendMessage
  <2>2. CASE c.peerKey # 0
    <3> DEFINE i == TextItem(conversationBlocked(c))
               j == TextItem(FALSE)
    <3>1. conversationBlocked(c) \in BOOLEAN
      BY <1>1 DEF conversationBlocked, Client
    <3>2. /\ i \in Item /\ i \in Waiting(u, c.key, C, R)
          /\ j \in Item /\ j \in Waiting(u, c.key, C, R)
      BY <3>1, PlainItems
    <3>3. c.ident # 0
      BY <2>2, Held
    <3>4. sendMessage(c) = IF conversationBlocked(c) \/ ~c.on THEN Queue(c, i)
                           ELSE IF CanTransmit(c) THEN Transmit(c, "text")
                           ELSE Queue(sessionFor(c), j)
      BY <2>2 DEF sendMessage
    <3> HIDE DEF i, j
    <3>5. OK(u, Queue(c, i), C, R) /\ Same(c, Queue(c, i))
      BY <3>2, QueueOK
    <3>6. OK(u, Queue(sessionFor(c), j), C, R) /\ Same(c, Queue(sessionFor(c), j))
      BY <3>2, <3>3, QueueLaterOK
    <3>7. ~conversationBlocked(c) => OK(u, Transmit(c, "text"), C, R) /\ Same(c, Transmit(c, "text"))
      BY <2>2, <3>3, TransmitOK
    <3> QED BY <3>4, <3>5, <3>6, <3>7
  <2> QED BY <2>1, <2>2
<1> QED BY <1>1, <1>2, LaterFacts

-----------------------------------------------------------------------------
(* Histories only grow, and the relay only passes on what it was given.     *)

Everything == Users \X Keys \X Keys

\* More confirmations and restarts make more frames and items true.
LEMMA SaidGrows ==
    ASSUME NEW w, NEW key, NEW C, NEW R, NEW D, NEW S, C \subseteq D, R \subseteq S
    PROVE  Said(w, C, R) \subseteq Said(w, D, S) /\ Waiting(w, key, C, R) \subseteq Waiting(w, key, D, S)
<1>1. \A p : BothConfirmed(C, p) => BothConfirmed(D, p)
  BY DEF BothConfirmed
<1>2. S = {} => R = {}
  OBVIOUS
<1>3. Said(w, C, R) \subseteq Said(w, D, S)
  BY <1>1, <1>2 DEF Said
<1>4. Waiting(w, key, C, R) \subseteq Waiting(w, key, D, S)
  BY DEF Waiting
<1> QED BY <1>3, <1>4

\* A sound client stays sound as they grow.
LEMMA OKGrows ==
    ASSUME NEW u, NEW c, NEW C, NEW R, NEW D, NEW S, C \subseteq D, R \subseteq S, OK(u, c, C, R)
    PROVE  OK(u, c, D, S)
<1>1. SUFFICES ASSUME c.adoptions = 0 PROVE Good(u, c, D, S)
  BY <1>1 DEF OK
<1>2. Gate(u, c, C, R) /\ Queues(u, c, C, R)
  BY <1>1 DEF OK, Good
<1>3. Gate(u, c, D, S)
  BY <1>2 DEF Gate, RecordOf
<1>4. /\ Said(u, C, R) \subseteq Said(u, D, S) /\ Said(Peer(u), C, R) \subseteq Said(Peer(u), D, S)
      /\ Waiting(u, c.key, C, R) \subseteq Waiting(u, c.key, D, S)
  BY SaidGrows
<1>5. Queues(u, c, D, S)
  BY <1>2, <1>4, SeqWiden DEF Queues
<1> QED BY <1>3, <1>5 DEF Good

\* If everybody had confirmed everything and been restarted, every client of the
\* right type would be sound: so what is proved of sound clients covers the types.
LEMMA TypedOK ==
    ASSUME NEW u \in Users, NEW c, Typed(c)
    PROVE  OK(u, c, Everything, Users)
<1>1. c \in Client /\ Linked(c)
  BY DEF Typed
<1>2. Peer(u) \in Users
  BY Peers
<1>3. Gate(u, c, Everything, Users)
  <2>1. c.key \in Keys /\ c.peerKey \in Keys \cup {0} /\ (c.pending => c.peerKey # 0)
    BY <1>1 DEF Client, KeyOrNone, Linked
  <2>2. \A x \in {c.verified, c.disk.verified} : x \in Keys \cup {0}
    BY <1>1 DEF Client, Disk, KeyOrNone
  <2> QED BY <1>2, <2>1, <2>2 DEF Gate, RecordOf, Everything
<1>4. /\ TxFrame \subseteq Said(u, Everything, Users)
      /\ StoredFrame \subseteq Said(Peer(u), Everything, Users)
      /\ Item \subseteq Waiting(u, c.key, Everything, Users)
  <2>1. StoredFrame \subseteq TxFrame
    BY DEF TxFrame
  <2>2. \A w \in Users : TxFrame \subseteq Said(w, Everything, Users)
    BY DEF Said
  <2>3. Item \subseteq Waiting(u, c.key, Everything, Users)
    BY DEF Waiting
  <2> QED BY <1>2, <2>1, <2>2, <2>3
<1>5. Queues(u, c, Everything, Users)
  <2>1. c.tx \in Seq(TxFrame) /\ c.stash \in Seq(StoredFrame) /\ c.outbox \in Seq(Item)
    BY <1>1 DEF Client
  <2> QED BY <1>4, <2>1, SeqWiden DEF Queues
<1> QED BY <1>3, <1>5 DEF OK, Good

\* The relay's own frames make no claim.
LEMMA KeyFramesSaid ==
    ASSUME NEW k \in KeyOrNone
    PROVE  /\ KeyFrame("keys", k) \in Frame /\ (k # 0 => KeyFrame("key", k) \in Frame)
           /\ \A w, C, R : /\ KeyFrame("keys", k) \in Said(w, C, R)
                           /\ k # 0 => KeyFrame("key", k) \in Said(w, C, R)
<1>1. KeyFrame("keys", k) \in Frame /\ (k # 0 => KeyFrame("key", k) \in Frame)
  BY DEF KeyFrame, Frame, KeyOrNone
<1>2. KeyFrame("keys", k).type = "keys" /\ KeyFrame("key", k).type = "key"
  BY DEF KeyFrame
<1> QED BY <1>1, <1>2 DEF Said

\* What is stored or passed on of frames a client wrote are frames a client reads.
LEMMA PassedOn ==
    ASSUME NEW tx \in Seq(TxFrame), NEW types, types \subseteq Stored \cup {"verify_resync"}
    PROVE  Only(tx, types) \in Seq(Frame)
<1> DEFINE K == {f \in TxFrame : f.type \in types}
<1>1. Only(tx, types) \in Seq(K)
  BY OnlyKeeps
<1>2. \A f \in TxFrame : f.type # "getkey" => f \in Frame
  BY DEF TxFrame, StoredFrame, Frame
<1>3. K \subseteq Frame
  BY <1>2 DEF Stored
<1> HIDE DEF K
<1> QED BY <1>1, <1>3, SeqWiden

\* The filter keeps what holds of all frames.
LEMMA OnlyWithin ==
    ASSUME NEW S, NEW s \in Seq(S), NEW types
    PROVE  Only(s, types) \in Seq(S)
<1> DEFINE K == {f \in S : f.type \in types}
<1>1. K \subseteq S
  OBVIOUS
<1>2. Only(s, types) \in Seq(K)
  BY OnlyKeeps
<1> HIDE DEF K
<1> QED BY <1>1, <1>2, SeqWiden

\* The answers are put between frames that are there.
LEMMA AnsweredWithin ==
    ASSUME NEW S, NEW mail \in Seq(S), NEW keys \in Seq(S), NEW on
    PROVE  Answered(mail, keys, on) \in Seq(S)
<1> DEFINE a == Only(mail, {"key"})
           b == Only(mail, Stored)
<1>1. a \in Seq(S) /\ b \in Seq(S)
  BY OnlyWithin
<1> HIDE DEF a, b
<1>2. mail \o keys \in Seq(S) /\ (a \o keys) \o b \in Seq(S)
  BY <1>1
<1> QED BY <1>2 DEF Answered, a, b

\* The answers to getkey.
LEMMA Answers ==
    ASSUME NEW k \in KeyOrNone, NEW tx \in Seq(TxFrame)
    PROVE  LET asked == Only(tx, IF k = 0 THEN {} ELSE {"getkey"})
               keys == [i \in DOMAIN asked |-> KeyFrame("key", k)]
           IN  keys \in Seq(Frame) /\ \A w, C, R : keys \in Seq(Said(w, C, R))
<1> DEFINE asked == Only(tx, IF k = 0 THEN {} ELSE {"getkey"})
           x == KeyFrame("key", k)
           keys == [i \in DOMAIN asked |-> x]
<1>1. asked \in Seq({f \in TxFrame : f.type \in IF k = 0 THEN {} ELSE {"getkey"}})
  BY OnlyKeeps
<1>2. /\ k # 0 => x \in Frame /\ \A w, C, R : x \in Said(w, C, R)
      /\ k = 0 => asked \in Seq({})
  BY <1>1, KeyFramesSaid
<1>3. asked \in Seq(TxFrame)
  BY OnlyWithin
<1> HIDE DEF asked, x
<1>4. Len(asked) \in Nat /\ DOMAIN asked = 1..Len(asked)
  BY <1>3
<1>5. k = 0 => Len(asked) = 0
  BY <1>2
<1>6. ASSUME NEW S, k # 0 => x \in S PROVE keys \in Seq(S)
  <2>1. CASE k = 0
    BY <1>4, <1>5, <2>1
  <2>2. CASE k # 0
    BY <1>4, <1>6, <2>2
  <2> QED BY <2>1, <2>2
<1>7. keys \in Seq(Frame)
  BY <1>2, <1>6
<1>8. \A w, C, R : keys \in Seq(Said(w, C, R))
  BY <1>2, <1>6
<1> QED BY <1>7, <1>8 DEF asked, x

-----------------------------------------------------------------------------
(* A handler ends: its frames are handed over.                              *)

\* The frames of the step leave the client.
LEMMA ClearedOK ==
    ASSUME NEW u, NEW c, NEW C, NEW R, OK(u, c, C, R)
    PROVE  LET e == [c EXCEPT !.tx = <<>>, !.lost = <<>>]
           IN  OK(u, e, C, R) /\ e.tx = <<>> /\ e.lost = <<>> /\ e.adoptions = c.adoptions
<1> DEFINE e == [c EXCEPT !.tx = <<>>, !.lost = <<>>]
<1>1. c \in Client /\ Linked(c) /\ Guarded(c)
  BY DEF OK, Typed
<1>2. <<>> \in Seq(TxFrame) /\ <<>> \in Seq(Keys \X Keys) /\ <<>> \in Seq(Said(u, C, R))
  OBVIOUS
<1>3. e \in Client
  BY <1>1, <1>2 DEF Client
<1>4. /\ Same(c, e) /\ e.session = c.session /\ e.disk = c.disk /\ e.stash = c.stash
      /\ e.outbox = c.outbox /\ e.tx = <<>> /\ e.lost = <<>>
  BY <1>1 DEF Client, Same
<1> HIDE DEF e
<1>5. Linked(e) /\ Guarded(e)
  BY <1>1, <1>4 DEF Linked, Guarded, Same
<1>6. ASSUME e.adoptions = 0 PROVE Good(u, e, C, R)
  <2>1. Gate(u, c, C, R) /\ Queues(u, c, C, R)
    BY <1>4, <1>6 DEF OK, Good, Same
  <2>2. Gate(u, e, C, R)
    BY <1>4, <2>1 DEF Gate, Same
  <2>3. Queues(u, e, C, R)
    BY <1>2, <1>4, <2>1 DEF Queues, Same
  <2> QED BY <2>2, <2>3 DEF Good
<1> QED BY <1>3, <1>4, <1>5, <1>6 DEF OK, Typed, Same, e

\* The texts among the frames written are for keys both have confirmed.
LEMMA TextsConfirmed ==
    ASSUME NEW w, NEW C, NEW tx \in Seq(Said(w, C, {})), NEW p \in TextPairs(tx)
    PROVE  BothConfirmed(C, p)
<1> DEFINE K == {f \in Said(w, C, {}) : f.type \in {"msg"}}
           s == Only(tx, {"msg"})
<1>1. s \in Seq(K)
  BY OnlyKeeps
<1>2. PICK f \in ToSet(s) : f.kind = "text" /\ f.pair = p
  BY DEF TextPairs
<1>3. f \in K
  <2> HIDE DEF K, s
  <2> QED BY <1>1, <1>2 DEF ToSet
<1> QED BY <1>2, <1>3 DEF Said

\* The invariant after a handler of u made c of its client: what is to be shown of
\* the handler is that c is sound.
LEMMA SettleInv ==
    ASSUME IInv, NEW u \in Users, NEW c, NEW mail \in Seq(Frame), NEW push \in Seq(Frame),
           NEW dir \in [Users -> KeyOrNone], NEW up, Settle(u, c, mail, push, dir, up),
           directory' = dir, online' \subseteq online \cup {u}, u \in online' => c.on,
           confirmed \subseteq confirmed', confirmed' \subseteq Everything, restarted' = restarted,
           Typed(c), c.adoptions >= client[u].adoptions,
           adopters = {} =>
               /\ OK(u, c, confirmed', restarted)
               /\ mail \in Seq(Said(Peer(u), confirmed', restarted))
               /\ push \in Seq(Said(u, confirmed', restarted))
    PROVE  /\ IInv'
           /\ restarted' = {} /\ adopters' = {} =>
                \A s \in sent' \ sent : BothConfirmed(confirmed', s[2])
<1> DEFINE v == Peer(u)
           e == [c EXCEPT !.tx = <<>>, !.lost = <<>>]
           live == IF v \in up THEN {"verify_resync"} ELSE {}
           types == IF u \in up THEN Stored \cup live ELSE {}
           toPeer == Only(c.tx, types)
           asked == Only(c.tx, IF dir[v] = 0 THEN {} ELSE {"getkey"})
           keys == [i \in DOMAIN asked |-> KeyFrame("key", dir[v])]
           own == Answered(mail, keys, u \in up)
           old == inbox[v]
<1>1. /\ client' = [client EXCEPT ![u] = e]
      /\ inbox' = [inbox EXCEPT ![u] = own, ![v] = @ \o push \o toPeer]
      /\ sent' = sent \cup {<<u, p>> : p \in TextPairs(c.tx)}
      /\ adopters' = adopters \cup (IF c.adoptions > client[u].adoptions THEN {u} ELSE {})
  BY DEF Settle
<1>2. v \in Users /\ v # u /\ Peer(v) = u /\ \A w \in Users : w = u \/ w = v
  BY Peers
<1>3. /\ client \in [Users -> Client] /\ inbox \in [Users -> Seq(Frame)]
      /\ \A w \in Users : Typed(client[w]) /\ client[w].tx = <<>> /\ client[w].lost = <<>>
  BY DEF IInv, Inv
<1>4. c \in Client /\ c.tx \in Seq(TxFrame) /\ c.adoptions \in Nat /\ client[u].adoptions \in Nat
  BY <1>3 DEF Typed, Client
<1>5. OK(u, e, Everything, Users) /\ e.tx = <<>> /\ e.lost = <<>> /\ e.adoptions = c.adoptions
  <2>1. OK(u, c, Everything, Users)
    BY TypedOK
  <2> QED BY <2>1, ClearedOK, Zenon
<1>6. Typed(e) /\ e \in Client
  BY <1>5 DEF OK, Typed
<1>7. toPeer \in Seq(Frame)
  <2>1. types \subseteq Stored \cup {"verify_resync"}
    OBVIOUS
  <2> HIDE DEF types
  <2> QED BY <1>4, <2>1, PassedOn
<1>8. keys \in Seq(Frame) /\ \A w, C, R : keys \in Seq(Said(w, C, R))
  <2>1. dir[v] \in KeyOrNone
    BY <1>2
  <2> QED BY <1>4, <2>1, Answers, Zenon
<1>9. old \in Seq(Frame)
  BY <1>2, <1>3
<1> HIDE DEF e, keys, toPeer, own
<1>10. /\ inbox'[u] = own /\ inbox'[v] = (old \o push) \o toPeer
       /\ client'[u] = e /\ client'[v] = client[v]
  <2> HIDE DEF v
  <2> QED BY <1>1, <1>2, <1>3 DEF old
<1>11. inbox' = [w \in Users |-> inbox'[w]]
  <2> HIDE DEF v, old
  <2> QED BY <1>1, <1>2, <1>3
<1> HIDE DEF v, old
<1>12. inbox' \in [Users -> Seq(Frame)]
  <2>1. own \in Seq(Frame) /\ (old \o push) \o toPeer \in Seq(Frame)
    BY <1>7, <1>8, <1>9, AnsweredWithin DEF own
  <2> QED BY <1>2, <1>10, <1>11, <2>1
<1>13. Inv'
  <2>1. client' \in [Users -> Client]
    BY <1>1, <1>3, <1>6
  <2>2. \A w \in Users : Typed(client'[w]) /\ client'[w].tx = <<>> /\ client'[w].lost = <<>>
    BY <1>2, <1>3, <1>5, <1>6, <1>10
  <2>3. online' \subseteq Users /\ \A w \in online' : client'[w].on
    <3>1. online \subseteq Users /\ \A w \in online : client[w].on
      BY DEF IInv, Inv
    <3>2. e.on = c.on
      BY <1>4 DEF e, Client
    <3> QED BY <1>2, <1>10, <3>1, <3>2
  <2> QED BY <1>12, <2>1, <2>2, <2>3 DEF Inv, Everything
<1>14. ASSUME adopters' = {}
       PROVE  /\ adopters = {} /\ c.adoptions = 0 /\ client[v].adoptions = 0
              /\ OK(u, c, confirmed', restarted) /\ Good(u, c, confirmed', restarted)
  <2>1. adopters = {} /\ ~(c.adoptions > client[u].adoptions)
    BY <1>1, <1>14
  <2>2. client[u].adoptions = 0 /\ client[v].adoptions = 0
    BY <1>2, <2>1 DEF IInv, GateInv
  <2>3. c.adoptions = 0
    BY <1>4, <2>1, <2>2
  <2> QED BY <2>1, <2>2, <2>3 DEF OK
<1>15. GateInv'
  <2>1. SUFFICES ASSUME adopters' = {}
                 PROVE  \A w \in Users : /\ client'[w].adoptions = 0
                                         /\ Good(w, client'[w], confirmed', restarted')
                                         /\ inbox'[w] \in Seq(Said(Peer(w), confirmed', restarted'))
    BY <2>1 DEF GateInv
  <2> DEFINE C == confirmed'
             R == restarted
  <2>2. /\ adopters = {} /\ c.adoptions = 0 /\ OK(u, c, C, R) /\ Good(u, c, C, R)
        /\ client[v].adoptions = 0
    BY <1>14, <2>1
  <2>3. mail \in Seq(Said(v, C, R)) /\ push \in Seq(Said(u, C, R))
    BY <2>2 DEF v
  <2>4. /\ Good(v, client[v], confirmed, restarted) /\ old \in Seq(Said(u, confirmed, restarted))
    BY <1>2, <2>2 DEF IInv, GateInv, old
  <2> HIDE DEF C, R
  <2>5. OK(u, e, C, R)
    BY <2>2, ClearedOK, Zenon DEF e
  <2>6. Good(u, e, C, R) /\ e.adoptions = 0
    BY <1>5, <2>2, <2>5 DEF OK
  <2>7. Good(v, client[v], C, R)
    <3>1. OK(v, client[v], confirmed, restarted)
      BY <1>2, <1>3, <2>4 DEF OK
    <3>2. OK(v, client[v], C, R)
      BY <3>1, OKGrows DEF C, R
    <3> QED BY <2>2, <3>2 DEF OK
  <2>8. old \in Seq(Said(u, C, R))
    <3>1. Said(u, confirmed, restarted) \subseteq Said(u, C, R)
      BY SaidGrows DEF C, R
    <3> QED BY <2>4, <3>1, SeqWiden
  <2>9. toPeer \in Seq(Said(u, C, R))
    <3>1. c.tx \in Seq(Said(u, C, R))
      BY <2>2 DEF Good, Queues
    <3> QED BY <3>1, OnlyWithin DEF toPeer
  <2>10. own \in Seq(Said(v, C, R)) /\ (old \o push) \o toPeer \in Seq(Said(u, C, R))
    BY <1>8, <2>3, <2>8, <2>9, AnsweredWithin DEF own
  <2>11. /\ client'[u].adoptions = 0 /\ Good(u, client'[u], C, R)
         /\ inbox'[u] \in Seq(Said(v, C, R))
    BY <1>10, <2>6, <2>10
  <2>12. /\ client'[v].adoptions = 0 /\ Good(v, client'[v], C, R)
         /\ inbox'[v] \in Seq(Said(u, C, R))
    BY <1>10, <2>2, <2>7, <2>10
  <2> QED BY <1>2, <2>11, <2>12 DEF C, R, v
<1>16. ASSUME restarted' = {}, adopters' = {}, NEW s \in sent' \ sent
       PROVE  BothConfirmed(confirmed', s[2])
  <2>1. PICK p \in TextPairs(c.tx) : s = <<u, p>>
    BY <1>1, <1>16
  <2>2. c.tx \in Seq(Said(u, confirmed', {}))
    BY <1>14, <1>16 DEF Good, Queues
  <2>3. BothConfirmed(confirmed', p)
    BY <2>2, TextsConfirmed
  <2> QED BY <2>1, <2>3
<1> QED BY <1>13, <1>15, <1>16 DEF IInv

-----------------------------------------------------------------------------
(* Records that a step leaves behind outside a handler.                     *)

\* A new installation.
LEMMA FreshOK ==
    ASSUME NEW u, NEW key \in Keys
    PROVE  LET c == Fresh(key)
           IN  /\ Typed(c) /\ c.tx = <<>> /\ c.lost = <<>> /\ c.adoptions = 0 /\ c.key = key
               /\ c.disk = EmptyDisk /\ ~c.loggedIn
               /\ \A C, R : Good(u, c, C, R)
<1> DEFINE c == Fresh(key)
<1>1. /\ 0 \in KeyOrNone /\ NoSession \in Session /\ EmptyDisk \in Disk
      /\ <<>> \in Seq(StoredFrame) /\ <<>> \in Seq(Item) /\ <<>> \in Seq(TxFrame)
      /\ <<>> \in Seq(Keys \X Keys)
  BY DEF KeyOrNone, Session, Disk, EmptyDisk
<1>2. EmptyDisk.session = NoSession /\ EmptyDisk.ident = 0 /\ EmptyDisk.verified = 0
  BY DEF EmptyDisk
<1>3. c \in Client
  BY <1>1 DEF Fresh, Client
<1>4. /\ c.tx = <<>> /\ c.lost = <<>> /\ c.adoptions = 0 /\ c.key = key /\ c.disk = EmptyDisk
      /\ ~c.loggedIn /\ ~c.on /\ c.peerKey = 0 /\ c.ident = 0 /\ c.session = NoSession
      /\ ~c.flagged /\ ~c.pending /\ ~c.peerVerified /\ c.verified = 0 /\ c.adopted = 0
      /\ c.stash = <<>> /\ c.outbox = <<>>
  BY DEF Fresh
<1> HIDE DEF c
<1>5. Linked(c) /\ Guarded(c)
  BY <1>2, <1>4 DEF Linked, Guarded, Between
<1>6. ASSUME NEW C, NEW R PROVE Good(u, c, C, R)
  <2>1. Gate(u, c, C, R)
    BY <1>2, <1>4 DEF Gate
  <2>2. Queues(u, c, C, R)
    BY <1>4 DEF Queues
  <2> QED BY <2>1, <2>2 DEF Good
<1> QED BY <1>3, <1>4, <1>5, <1>6 DEF Typed, c

\* What login and logout take from the database.
LEMMA RestoredFields ==
    ASSUME NEW c \in Client
    PROVE  /\ login(c) \in Client
           /\ login(c).key = c.key /\ login(c).loggedIn /\ ~login(c).on
           /\ login(c).disk = c.disk /\ login(c).outbox = c.outbox
           /\ login(c).verified = c.disk.verified /\ login(c).ident = c.disk.ident
           /\ login(c).session = c.disk.session /\ login(c).peerKey = 0
           /\ ~login(c).flagged /\ ~login(c).pending /\ ~login(c).peerVerified
           /\ login(c).adopted = 0 /\ login(c).adoptions = 0
           /\ login(c).tx = <<>> /\ login(c).lost = <<>> /\ login(c).stash = <<>>
           /\ logout(c) \in Client
           /\ logout(c).key = c.key /\ ~logout(c).loggedIn /\ ~logout(c).on
           /\ logout(c).disk = c.disk /\ logout(c).outbox = c.outbox
           /\ logout(c).verified = 0 /\ logout(c).ident = 0
           /\ logout(c).session = NoSession /\ logout(c).peerKey = 0
           /\ ~logout(c).flagged /\ ~logout(c).pending /\ ~logout(c).peerVerified
           /\ logout(c).adopted = 0 /\ logout(c).adoptions = 0
           /\ logout(c).tx = <<>> /\ logout(c).lost = <<>> /\ logout(c).stash = <<>>
<1>1. /\ 0 \in KeyOrNone /\ NoSession \in Session /\ c.disk \in Disk /\ c.outbox \in Seq(Item)
      /\ <<>> \in Seq(StoredFrame) /\ <<>> \in Seq(TxFrame) /\ <<>> \in Seq(Keys \X Keys)
      /\ c.key \in Keys /\ c.dh \in Nat
  BY DEF KeyOrNone, Session, Client
<1>2. /\ c.disk.session \in Session /\ c.disk.ident \in KeyOrNone
      /\ c.disk.verified \in KeyOrNone /\ c.disk.attested \in KeyOrNone
  BY <1>1 DEF Disk
<1> DEFINE f == Fresh(c.key)
<1>3. f \in Client
  BY <1>1, FreshOK DEF Typed
<1>4. /\ f.tx = <<>> /\ f.lost = <<>> /\ f.adoptions = 0 /\ f.key = c.key
      /\ ~f.loggedIn /\ ~f.on /\ f.peerKey = 0 /\ f.ident = 0 /\ f.session = NoSession
      /\ ~f.flagged /\ ~f.pending /\ ~f.peerVerified /\ f.verified = 0 /\ f.adopted = 0
      /\ f.stash = <<>>
  BY DEF Fresh
<1> HIDE DEF f
<1>5. /\ login(c) = [f EXCEPT !.loggedIn = TRUE, !.disk = c.disk, !.outbox = c.outbox, !.dh = c.dh,
                        !.verified = c.disk.verified, !.attested = c.disk.attested,
                        !.ident = c.disk.ident, !.session = c.disk.session]
      /\ logout(c) = [f EXCEPT !.disk = c.disk, !.outbox = c.outbox, !.dh = c.dh]
  BY DEF login, logout, f
<1>6. login(c) \in Client
  <2> DEFINE g == [f EXCEPT !.loggedIn = TRUE, !.disk = c.disk, !.outbox = c.outbox, !.dh = c.dh]
             v == c.disk.verified
             a == c.disk.attested
             k == c.disk.ident
             s == c.disk.session
  <2>1. g \in Client
    BY <1>1, <1>3 DEF Client
  <2>2. login(c) = [g EXCEPT !.verified = v, !.attested = a, !.ident = k, !.session = s]
    BY <1>5
  <2>3. v \in KeyOrNone /\ a \in KeyOrNone /\ k \in KeyOrNone /\ s \in Session
    BY <1>2
  <2> HIDE DEF g, v, a, k, s
  <2>4. [g EXCEPT !.verified = v, !.attested = a, !.ident = k, !.session = s] \in Client
    BY <2>1, <2>3 DEF Client
  <2> QED BY <2>2, <2>4
<1>7. logout(c) \in Client
  BY <1>1, <1>3, <1>5 DEF Client
<1>8. /\ login(c).key = c.key /\ login(c).loggedIn /\ ~login(c).on
      /\ login(c).disk = c.disk /\ login(c).outbox = c.outbox
      /\ login(c).verified = c.disk.verified /\ login(c).ident = c.disk.ident
      /\ login(c).session = c.disk.session /\ login(c).peerKey = 0
      /\ ~login(c).flagged /\ ~login(c).pending /\ ~login(c).peerVerified
      /\ login(c).adopted = 0 /\ login(c).adoptions = 0
      /\ login(c).tx = <<>> /\ login(c).lost = <<>> /\ login(c).stash = <<>>
  BY <1>3, <1>4, <1>5 DEF Client
<1>9. /\ logout(c).key = c.key /\ ~logout(c).loggedIn /\ ~logout(c).on
      /\ logout(c).disk = c.disk /\ logout(c).outbox = c.outbox
      /\ logout(c).verified = 0 /\ logout(c).ident = 0
      /\ logout(c).session = NoSession /\ logout(c).peerKey = 0
      /\ ~logout(c).flagged /\ ~logout(c).pending /\ ~logout(c).peerVerified
      /\ logout(c).adopted = 0 /\ logout(c).adoptions = 0
      /\ logout(c).tx = <<>> /\ logout(c).lost = <<>> /\ logout(c).stash = <<>>
  BY <1>3, <1>4, <1>5 DEF Client
<1> QED BY <1>6, <1>7, <1>8, <1>9

\* A restart forgets the gate, not the record: sound, for a user who was restarted
\* (logout) or whose database is still empty (the first login).
LEMMA RestoredOK ==
    ASSUME NEW u, NEW c, Typed(c)
    PROVE  /\ ~c.loggedIn => Typed(login(c))
           /\ Typed(logout(c))
           /\ \A C, R : Good(u, c, C, R) =>
                /\ ~c.loggedIn => Good(u, login(c), C, R)
                /\ u \in R => Good(u, logout(c), C, R)
<1>1. c \in Client /\ Linked(c)
  BY DEF Typed
<1> DEFINE i == login(c)
           o == logout(c)
<1>2. /\ i \in Client /\ i.key = c.key /\ i.loggedIn /\ ~i.on /\ i.disk = c.disk
      /\ i.outbox = c.outbox /\ i.verified = c.disk.verified /\ i.ident = c.disk.ident
      /\ i.session = c.disk.session /\ i.peerKey = 0 /\ ~i.flagged /\ ~i.pending
      /\ ~i.peerVerified /\ i.adopted = 0 /\ i.adoptions = 0 /\ i.tx = <<>> /\ i.stash = <<>>
  BY <1>1, RestoredFields
<1>3. /\ o \in Client /\ o.key = c.key /\ ~o.loggedIn /\ ~o.on /\ o.disk = c.disk
      /\ o.outbox = c.outbox /\ o.verified = 0 /\ o.ident = 0
      /\ o.session = NoSession /\ o.peerKey = 0 /\ ~o.flagged /\ ~o.pending
      /\ ~o.peerVerified /\ o.adopted = 0 /\ o.adoptions = 0 /\ o.tx = <<>> /\ o.stash = <<>>
  BY <1>1, RestoredFields
<1> HIDE DEF i, o
<1>4. Typed(i)
  BY <1>1, <1>2 DEF Typed, Linked, Guarded, Between
<1>5. Typed(o)
  BY <1>1, <1>3 DEF Typed, Linked, Guarded, Between
<1>6. ASSUME NEW C, NEW R, Good(u, c, C, R), ~c.loggedIn PROVE Good(u, i, C, R)
  <2>1. Gate(u, i, C, R)
    BY <1>2, <1>6 DEF Good, Gate
  <2>2. Queues(u, i, C, R)
    BY <1>2, <1>6 DEF Good, Queues
  <2> QED BY <2>1, <2>2 DEF Good
<1>7. ASSUME NEW C, NEW R, Good(u, c, C, R), u \in R PROVE Good(u, o, C, R)
  <2>1. Gate(u, o, C, R)
    BY <1>3, <1>7 DEF Good, Gate
  <2>2. Queues(u, o, C, R)
    BY <1>3, <1>7 DEF Good, Queues
  <2> QED BY <2>1, <2>2 DEF Good
<1> QED BY <1>4, <1>5, <1>6, <1>7 DEF i, o

\* The socket or the timer of a client changes.
LEMMA SwitchOK ==
    ASSUME NEW u, NEW c, Typed(c), NEW on \in BOOLEAN, on => c.loggedIn
    PROVE  /\ \A e \in {[c EXCEPT !.on = on], [c EXCEPT !.throttled = on]} :
                /\ Typed(e) /\ e.adoptions = c.adoptions /\ e.loggedIn = c.loggedIn
                /\ e.tx = c.tx /\ e.lost = c.lost /\ e.key = c.key
                /\ \A C, R : Good(u, c, C, R) => Good(u, e, C, R)
           /\ [c EXCEPT !.on = on].on = on
<1>0. SUFFICES ASSUME NEW e, e \in {[c EXCEPT !.on = on], [c EXCEPT !.throttled = on]}
              PROVE /\ Typed(e) /\ e.adoptions = c.adoptions /\ e.loggedIn = c.loggedIn
                    /\ e.tx = c.tx /\ e.lost = c.lost /\ e.key = c.key
                    /\ \A C, R : Good(u, c, C, R) => Good(u, e, C, R)
  <2>1. [c EXCEPT !.on = on].on = on
    BY DEF Typed, Client
  <2> QED BY <1>0, <2>1
<1>1. c \in Client /\ Linked(c) /\ Guarded(c)
  BY DEF Typed
<1>2. e \in Client
  <2>1. [c EXCEPT !.on = on] \in Client /\ [c EXCEPT !.throttled = on] \in Client
    BY <1>1 DEF Client
  <2> QED BY <1>0, <2>1
<1>3. /\ Turned(c, e) /\ e.loggedIn = c.loggedIn /\ e.lost = c.lost /\ e.disk = c.disk
      /\ e.peerKey = c.peerKey /\ e.ident = c.ident /\ e.session = c.session
      /\ e.flagged = c.flagged /\ e.pending = c.pending /\ e.peerVerified = c.peerVerified
      /\ e.verified = c.verified /\ (e.on = c.on \/ e.on = on)
  <2>1. CASE e = [c EXCEPT !.on = on]
    BY <1>1, <2>1 DEF Client, Turned
  <2>2. CASE e = [c EXCEPT !.throttled = on]
    BY <1>1, <2>2 DEF Client, Turned
  <2> QED BY <1>0, <2>1, <2>2
<1>4. e.key = c.key /\ e.adoptions = c.adoptions /\ e.tx = c.tx
  BY <1>3 DEF Turned
<1>5. Linked(e)
  BY <1>1, <1>3, <1>4 DEF Linked
<1>6. Guarded(e)
  BY <1>1, <1>3 DEF Guarded, Turned
<1>7. ASSUME NEW C, NEW R, Good(u, c, C, R) PROVE Good(u, e, C, R)
  <2>1. Gate(u, e, C, R)
    BY <1>3, <1>4, <1>7 DEF Good, Gate
  <2>2. Queues(u, e, C, R)
    BY <1>3, <1>7 DEF Good, Queues, Turned
  <2> QED BY <2>1, <2>2 DEF Good
<1> QED BY <1>2, <1>3, <1>4, <1>5, <1>6, <1>7 DEF Typed

-----------------------------------------------------------------------------
(* The actions.                                                             *)

\* A text that goes out in this step is for keys both users have confirmed.
GateStep ==
    restarted' = {} /\ adopters' = {} =>
        \A s \in sent' \ sent : BothConfirmed(confirmed', s[2])

\* What a handler may start from.
LEMMA Ready ==
    ASSUME IInv, NEW u \in Users
    PROVE  /\ client[u] \in Client /\ Typed(client[u]) /\ inbox[u] \in Seq(Frame)
           /\ OK(u, client[u], Everything, Users)
           /\ client[u].on => client[u].loggedIn
           /\ adopters = {} => /\ OK(u, client[u], confirmed, restarted)
                               /\ Good(u, client[u], confirmed, restarted)
                               /\ client[u].adoptions = 0
                               /\ inbox[u] \in Seq(Said(Peer(u), confirmed, restarted))
<1>1. client[u] \in Client /\ Typed(client[u]) /\ inbox[u] \in Seq(Frame)
  BY DEF IInv, Inv
<1>2. OK(u, client[u], Everything, Users)
  BY <1>1, TypedOK
<1>3. client[u].on => client[u].loggedIn
  BY <1>1 DEF Typed, Linked
<1>4. adopters = {} => /\ Good(u, client[u], confirmed, restarted) /\ client[u].adoptions = 0
                       /\ inbox[u] \in Seq(Said(Peer(u), confirmed, restarted))
  BY DEF IInv, GateInv
<1> QED BY <1>1, <1>2, <1>3, <1>4 DEF OK

\* A handler that reads no frame.
LEMMA RunInv ==
    ASSUME IInv, NEW u \in Users, NEW c, Run(u, c), directory' = directory,
           restarted' = restarted, confirmed \subseteq confirmed', confirmed' \subseteq Everything,
           OK(u, c, Everything, Users), Later(client[u], c),
           adopters = {} => OK(u, c, confirmed', restarted)
    PROVE  IInv' /\ GateStep
<1>1. Settle(u, c, inbox[u], <<>>, directory, online) /\ online' = online
  BY DEF Run
<1>2. inbox[u] \in Seq(Frame) /\ <<>> \in Seq(Frame) /\ directory \in [Users -> KeyOrNone]
  BY DEF IInv, Inv
<1>3. adopters = {} => /\ inbox[u] \in Seq(Said(Peer(u), confirmed', restarted))
                       /\ <<>> \in Seq(Said(u, confirmed', restarted))
  <2>1. Said(Peer(u), confirmed, restarted) \subseteq Said(Peer(u), confirmed', restarted)
    BY SaidGrows
  <2>2. adopters = {} => inbox[u] \in Seq(Said(Peer(u), confirmed, restarted))
    BY Ready
  <2> QED BY <2>1, <2>2, SeqWiden
<1>4. Typed(c) /\ c.adoptions >= client[u].adoptions
  BY DEF OK, Later
<1>5. online' \subseteq online \cup {u} /\ (u \in online' => c.on)
  BY <1>1 DEF IInv, Inv, Later
<1> HIDE DEF Run
<1> QED BY <1>1, <1>2, <1>3, <1>4, <1>5, SettleInv DEF GateStep

\* A step that hands over no frames.
LEMMA PlainInv ==
    ASSUME IInv, NEW u \in Users, NEW e, client' = [client EXCEPT ![u] = e],
           inbox' = inbox \/ inbox' = [inbox EXCEPT ![u] = Backlog(u)],
           directory' \in [Users -> KeyOrNone], confirmed' = confirmed, sent' = sent,
           adopters' = adopters, restarted \subseteq restarted',
           online' \subseteq online, u \in online' => e.on,
           Typed(e), e.tx = <<>>, e.lost = <<>>,
           adopters = {} => e.adoptions = 0 /\ Good(u, e, confirmed, restarted')
    PROVE  IInv' /\ GateStep
<1>1. /\ client \in [Users -> Client] /\ inbox \in [Users -> Seq(Frame)] /\ e \in Client
      /\ confirmed \subseteq Users \X Keys \X Keys
      /\ \A w \in Users : Typed(client[w]) /\ client[w].tx = <<>> /\ client[w].lost = <<>>
  BY DEF IInv, Inv, Typed
<1>2. client'[u] = e /\ \A w \in Users : w # u => client'[w] = client[w]
  BY <1>1
<1>3. Backlog(u) \in Seq(Frame)
  BY <1>1, OnlyWithin DEF Backlog
<1>4. Inv'
  <2>1. client' \in [Users -> Client] /\ inbox' \in [Users -> Seq(Frame)]
    BY <1>1, <1>3
  <2>2. \A w \in Users : Typed(client'[w]) /\ client'[w].tx = <<>> /\ client'[w].lost = <<>>
    BY <1>1, <1>2
  <2>3. online' \subseteq Users /\ \A w \in online' : client'[w].on
    BY <1>2 DEF IInv, Inv
  <2> QED BY <1>1, <2>1, <2>2, <2>3 DEF Inv
<1>5. GateInv'
  <2>1. SUFFICES ASSUME adopters = {}, NEW w \in Users
                 PROVE  /\ client'[w].adoptions = 0 /\ Good(w, client'[w], confirmed, restarted')
                        /\ inbox'[w] \in Seq(Said(Peer(w), confirmed, restarted'))
    BY <2>1 DEF GateInv
  <2>2. /\ OK(w, client[w], confirmed, restarted) /\ client[w].adoptions = 0
        /\ inbox[w] \in Seq(Said(Peer(w), confirmed, restarted))
    BY <2>1, Ready
  <2>3. OK(w, client[w], confirmed, restarted')
    BY <2>2, OKGrows
  <2>4. client'[w].adoptions = 0 /\ Good(w, client'[w], confirmed, restarted')
    BY <1>2, <2>1, <2>2, <2>3 DEF OK
  <2>5. inbox[w] \in Seq(Said(Peer(w), confirmed, restarted'))
    <3>1. Said(Peer(w), confirmed, restarted) \subseteq Said(Peer(w), confirmed, restarted')
      BY SaidGrows
    <3> QED BY <2>2, <3>1, SeqWiden
  <2>6. inbox'[w] = inbox[w] \/ inbox'[w] = Only(inbox[w], Stored)
    BY <1>1 DEF Backlog
  <2>7. Only(inbox[w], Stored) \in Seq(Said(Peer(w), confirmed, restarted'))
    BY <2>5, OnlyWithin
  <2> QED BY <2>4, <2>5, <2>6, <2>7
<1> QED BY <1>4, <1>5 DEF IInv, GateStep

\* Login and Logout.
LEMMA RestartInv ==
    ASSUME IInv, NEW u \in Users, Login(u) \/ Logout(u)
    PROVE  IInv' /\ GateStep
<1>1. directory \in [Users -> KeyOrNone] /\ Typed(client[u]) /\ client[u] \in Client
  BY DEF IInv, Inv
<1> DEFINE c == client[u]
<1>2. (c.adoptions = 0 /\ Good(u, c, confirmed, restarted)) \/ adopters # {}
  BY Ready
<1>3. CASE Login(u)
  <2>1. /\ ~c.loggedIn /\ client' = [client EXCEPT ![u] = login(c)] /\ inbox' = inbox
        /\ directory' = directory /\ confirmed' = confirmed /\ sent' = sent
        /\ adopters' = adopters /\ restarted' = restarted /\ online' = online
    BY <1>3 DEF Login
  <2>2. Typed(login(c)) /\ login(c).tx = <<>> /\ login(c).lost = <<>> /\ login(c).adoptions = 0
    BY <1>1, <2>1, RestoredOK, RestoredFields
  <2>3. adopters = {} => Good(u, login(c), confirmed, restarted)
    BY <1>1, <1>2, <2>1, RestoredOK
  <2>4. u \notin online'
    BY <1>1, <2>1 DEF IInv, Inv, Typed, Linked
  <2> HIDE DEF c
  <2> QED BY <1>1, <2>1, <2>2, <2>3, <2>4, PlainInv
<1>4. CASE Logout(u)
  <2>1. /\ client' = [client EXCEPT ![u] = logout(c)] /\ restarted' = restarted \cup {u}
        /\ inbox' = [inbox EXCEPT ![u] = Backlog(u)]
        /\ directory' = directory /\ confirmed' = confirmed /\ sent' = sent
        /\ adopters' = adopters /\ online' = online \ {u}
    BY <1>4 DEF Logout
  <2>2. Typed(logout(c)) /\ logout(c).tx = <<>> /\ logout(c).lost = <<>> /\ logout(c).adoptions = 0
    BY <1>1, RestoredOK, RestoredFields
  <2>3. adopters = {} => Good(u, logout(c), confirmed, restarted')
    <3>1. SUFFICES ASSUME adopters = {} PROVE Good(u, logout(c), confirmed, restarted')
      BY <3>1
    <3>2. OK(u, c, confirmed, restarted) /\ c.adoptions = 0
      BY <3>1, Ready
    <3>3. OK(u, c, confirmed, restarted')
      BY <2>1, <3>2, OKGrows
    <3>4. Good(u, c, confirmed, restarted')
      BY <3>2, <3>3 DEF OK
    <3> QED BY <1>1, <2>1, <3>4, RestoredOK
  <2> HIDE DEF c
  <2> QED BY <1>1, <2>1, <2>2, <2>3, PlainInv
<1> QED BY <1>3, <1>4

\* ThrottleEnds, Drop and Connect.
LEMMA SwitchInv ==
    ASSUME IInv, NEW u \in Users, ThrottleEnds(u) \/ Drop(u) \/ Connect(u)
    PROVE  IInv' /\ GateStep
<1> DEFINE c == client[u]
           t == [c EXCEPT !.throttled = FALSE]
           d == [c EXCEPT !.on = FALSE]
<1>1. /\ directory \in [Users -> KeyOrNone] /\ Typed(c)
      /\ c.tx = <<>> /\ c.lost = <<>>
  BY DEF IInv, Inv
<1>2. adopters = {} => c.adoptions = 0 /\ Good(u, c, confirmed, restarted)
  BY Ready
<1>3. \A e \in {d, t} :
        /\ Typed(e) /\ e.tx = <<>> /\ e.lost = <<>>
        /\ adopters = {} => e.adoptions = 0 /\ Good(u, e, confirmed, restarted)
  <2> HIDE DEF c
  <2>1. \A e \in {d, t} :
          /\ Typed(e) /\ e.adoptions = c.adoptions /\ e.tx = c.tx /\ e.lost = c.lost
          /\ \A C, R : Good(u, c, C, R) => Good(u, e, C, R)
    <3>1. FALSE \in BOOLEAN /\ (FALSE => c.loggedIn)
      OBVIOUS
    <3>2. \A e \in {d, t} :
            /\ Typed(e) /\ e.adoptions = c.adoptions /\ e.loggedIn = c.loggedIn
            /\ e.tx = c.tx /\ e.lost = c.lost /\ e.key = c.key
            /\ \A C, R : Good(u, c, C, R) => Good(u, e, C, R)
      BY <1>1, <3>1, SwitchOK, Zenon
    <3> QED BY <3>2
  <2> HIDE DEF d, t
  <2> QED BY <1>1, <1>2, <2>1
<1>4. CASE ThrottleEnds(u)
  <2>1. /\ client' = [client EXCEPT ![u] = t] /\ inbox' = inbox /\ directory' = directory
        /\ confirmed' = confirmed /\ sent' = sent /\ adopters' = adopters
        /\ restarted' = restarted /\ online' = online
    BY <1>4 DEF ThrottleEnds
  <2>2. u \in online' => t.on
    BY <1>1, <2>1 DEF IInv, Inv, Typed, Client
  <2> HIDE DEF t
  <2> QED BY <1>1, <1>3, <2>1, <2>2, PlainInv
<1>5. CASE Drop(u)
  <2>1. /\ client' = [client EXCEPT ![u] = d] /\ inbox' = [inbox EXCEPT ![u] = Backlog(u)]
        /\ directory' = directory /\ confirmed' = confirmed /\ sent' = sent
        /\ adopters' = adopters /\ restarted' = restarted /\ online' = online \ {u}
    BY <1>5 DEF Drop
  <2> HIDE DEF d
  <2> QED BY <1>1, <1>3, <2>1, PlainInv
<1>6. CASE Connect(u)
  <2> DEFINE e == [c EXCEPT !.on = TRUE]
  <2>1. /\ client' = [client EXCEPT ![u] = e] /\ inbox' = inbox /\ directory' = directory
        /\ confirmed' = confirmed /\ sent' = sent /\ adopters' = adopters
        /\ restarted' = restarted /\ online' = online /\ c.loggedIn
    BY <1>6 DEF Connect
  <2>2. /\ Typed(e) /\ e.tx = <<>> /\ e.lost = <<>> /\ e.on
        /\ adopters = {} => e.adoptions = 0 /\ Good(u, e, confirmed, restarted)
    <3> HIDE DEF c
    <3>1. /\ \A x \in {[c EXCEPT !.on = TRUE], [c EXCEPT !.throttled = TRUE]} :
               /\ Typed(x) /\ x.adoptions = c.adoptions /\ x.loggedIn = c.loggedIn
               /\ x.tx = c.tx /\ x.lost = c.lost /\ x.key = c.key
               /\ \A C, R : Good(u, c, C, R) => Good(u, x, C, R)
          /\ [c EXCEPT !.on = TRUE].on = TRUE
      BY <1>1, <2>1, SwitchOK, Zenon
    <3>2. /\ Typed(e) /\ e.adoptions = c.adoptions /\ e.tx = c.tx /\ e.lost = c.lost /\ e.on
          /\ Good(u, c, confirmed, restarted) => Good(u, e, confirmed, restarted)
      BY <3>1
    <3> HIDE DEF e
    <3> QED BY <1>1, <1>2, <3>2
  <2> HIDE DEF e
  <2> QED BY <1>1, <2>1, <2>2, PlainInv
<1> QED BY <1>4, <1>5, <1>6

\* Reinstall.
LEMMA ReinstallInv ==
    ASSUME IInv, NEW u \in Users, NEW key \in Keys, Reinstall(u, key)
    PROVE  IInv' /\ GateStep
<1>1. /\ client' = [client EXCEPT ![u] = Fresh(key)] /\ inbox' = [inbox EXCEPT ![u] = Backlog(u)]
      /\ directory' = [directory EXCEPT ![u] = 0] /\ confirmed' = confirmed /\ sent' = sent
      /\ adopters' = adopters /\ restarted' = restarted /\ online' = online \ {u}
  BY DEF Reinstall
<1>2. directory' \in [Users -> KeyOrNone]
  BY <1>1 DEF IInv, Inv, KeyOrNone
<1>3. /\ Typed(Fresh(key)) /\ Fresh(key).tx = <<>> /\ Fresh(key).lost = <<>>
      /\ Fresh(key).adoptions = 0 /\ \A C, R : Good(u, Fresh(key), C, R)
  BY FreshOK
<1> QED BY <1>1, <1>2, <1>3, PlainInv

\* A frame put between two queues.
LEMMA PutBetween ==
    ASSUME NEW S, NEW k \in S, NEW q \in Seq(S), NEW r \in Seq(S)
    PROVE  q \o <<k>> \o r \in Seq(S) /\ <<k>> \in Seq(S) /\ <<>> \in Seq(S)
<1>1. <<k>> \in Seq(S)
  OBVIOUS
<1> DEFINE s == <<k>>
<1>2. s \in Seq(S)
  BY <1>1
<1> HIDE DEF s
<1>3. (q \o s) \o r \in Seq(S)
  BY <1>2
<1> QED BY <1>1, <1>3 DEF s

\* Hello: the flush, the directory's answer, the backlog.
LEMMA HelloInv ==
    ASSUME IInv, NEW u \in Users, Hello(u)
    PROVE  IInv' /\ GateStep
<1> DEFINE v == Peer(u)
           c == client[u]
           dir == [directory EXCEPT ![u] = c.key]
           f == flushOutbox(c)
           answers == Only(inbox[u], {"key"})
           backlog == Only(inbox[u], Stored)
           mail == answers \o <<KeyFrame("keys", dir[v])>> \o backlog
           push == IF directory[u] # c.key /\ v \in online THEN <<KeyFrame("key", c.key)>> ELSE <<>>
<1>1. /\ c.on /\ directory' = dir /\ Settle(u, f, mail, push, dir, online \cup {u})
      /\ confirmed' = confirmed /\ restarted' = restarted /\ online' = online \cup {u}
  BY Zenon DEF Hello
<1>2. /\ c \in Client /\ Typed(c) /\ c.key \in Keys /\ c.key # 0 /\ inbox[u] \in Seq(Frame)
      /\ c.adoptions \in Nat /\ c.loggedIn /\ OK(u, c, Everything, Users)
  BY <1>1, Ready, KeyFacts DEF Client
<1>3. dir \in [Users -> KeyOrNone] /\ dir[v] \in KeyOrNone
  BY <1>2, Peers DEF IInv, Inv, KeyOrNone
<1>6. OK(u, f, Everything, Users) /\ Same(c, f)
  BY <1>2, FlushOK
<1>7. Typed(f) /\ f.adoptions >= client[u].adoptions /\ f.on
  BY <1>1, <1>2, <1>6 DEF OK, Same
<1>8. adopters = {} => OK(u, f, confirmed, restarted)
  <2>1. SUFFICES ASSUME adopters = {} PROVE OK(u, f, confirmed, restarted)
    BY <2>1
  <2>2. OK(u, c, confirmed, restarted)
    BY <2>1, Ready
  <2> QED BY <1>2, <2>2, FlushOK
<1> DEFINE k1 == KeyFrame("keys", dir[v])
           k2 == KeyFrame("key", c.key)
<1>9. /\ k1 \in Frame /\ k2 \in Frame
      /\ \A w, C, R : k1 \in Said(w, C, R) /\ k2 \in Said(w, C, R)
  <2>1. c.key \in KeyOrNone
    BY <1>2 DEF KeyOrNone
  <2> HIDE DEF c, dir
  <2> QED BY <1>2, <1>3, <2>1, KeyFramesSaid
<1> HIDE DEF k1, k2
<1>10. mail = answers \o <<k1>> \o backlog /\ push \in {<<k2>>, <<>>}
  BY DEF k1, k2
<1> HIDE DEF mail, push, f, dir
<1>11. mail \in Seq(Frame) /\ push \in Seq(Frame)
  <2> HIDE DEF c
  <2>1. answers \in Seq(Frame) /\ backlog \in Seq(Frame)
    BY <1>2, OnlyWithin
  <2> HIDE DEF answers, backlog
  <2>2. /\ answers \o <<k1>> \o backlog \in Seq(Frame) /\ <<k2>> \in Seq(Frame)
        /\ <<>> \in Seq(Frame)
    BY <1>9, <2>1, PutBetween, Zenon
  <2> QED BY <1>10, <2>2, Zenon
<1>12. adopters = {} => /\ mail \in Seq(Said(Peer(u), confirmed, restarted))
                        /\ push \in Seq(Said(u, confirmed, restarted))
  <2>1. SUFFICES ASSUME adopters = {}
                 PROVE  /\ mail \in Seq(Said(Peer(u), confirmed, restarted))
                        /\ push \in Seq(Said(u, confirmed, restarted))
    BY <2>1
  <2>2. inbox[u] \in Seq(Said(Peer(u), confirmed, restarted))
    BY <2>1, Ready
  <2> DEFINE S1 == Said(Peer(u), confirmed, restarted)
             S2 == Said(u, confirmed, restarted)
  <2>3. k1 \in S1 /\ k2 \in S2 /\ answers \in Seq(S1) /\ backlog \in Seq(S1)
    BY <1>9, <2>2, OnlyWithin
  <2> HIDE DEF c, S1, S2, answers, backlog
  <2>4. <<>> \in Seq(S2)
    OBVIOUS
  <2>5. answers \o <<k1>> \o backlog \in Seq(S1) /\ <<k2>> \in Seq(S2)
    BY <2>3, <2>4, PutBetween, Zenon
  <2>6. mail \in Seq(S1) /\ push \in Seq(S2)
    BY <1>10, <2>4, <2>5, Zenon
  <2> QED BY <2>6 DEF S1, S2
<1>13. confirmed \subseteq Everything
  BY DEF IInv, Inv, Everything
<1> QED BY <1>1, <1>3, <1>7, <1>8, <1>11, <1>12, <1>13, SettleInv DEF GateStep

\* Deliver: the next frame.
LEMMA DeliverInv ==
    ASSUME IInv, NEW u \in Users, Deliver(u)
    PROVE  IInv' /\ GateStep
<1> DEFINE c == client[u]
           f == Head(inbox[u])
           e == handleServerFrame(c, f)
<1>1. /\ c.on /\ inbox[u] # <<>> /\ Settle(u, e, Tail(inbox[u]), <<>>, directory, online)
      /\ directory' = directory /\ confirmed' = confirmed /\ restarted' = restarted
      /\ online' = online
  BY DEF Deliver, OnWire
<1>2. /\ c.loggedIn /\ inbox[u] \in Seq(Frame) /\ OK(u, c, Everything, Users)
      /\ adopters = {} => /\ OK(u, c, confirmed, restarted)
                          /\ inbox[u] \in Seq(Said(Peer(u), confirmed, restarted))
  BY <1>1, Ready
<1>3. f \in Frame /\ Tail(inbox[u]) \in Seq(Frame)
  BY <1>1, <1>2
<1>4. adopters = {} => /\ f \in Said(Peer(u), confirmed, restarted)
                       /\ Tail(inbox[u]) \in Seq(Said(Peer(u), confirmed, restarted))
                       /\ <<>> \in Seq(Said(u, confirmed, restarted))
  BY <1>1, <1>2
<1>5. f \in Said(Peer(u), Everything, Users)
  BY <1>3, Peers DEF Said
<1>6. /\ confirmed \subseteq Everything /\ directory \in [Users -> KeyOrNone]
      /\ <<>> \in Seq(Frame)
  BY DEF IInv, Inv, Everything
<1> HIDE DEF c, f
<1>7. OK(u, e, Everything, Users) /\ Later(c, e)
  BY <1>2, <1>3, <1>5, HandleFrameOK
<1>8. adopters = {} => OK(u, e, confirmed, restarted)
  BY <1>2, <1>3, <1>4, HandleFrameOK
<1>9. Typed(e) /\ e.adoptions >= client[u].adoptions /\ e.on
  BY <1>1, <1>7 DEF OK, Later, c
<1> HIDE DEF e
<1> QED BY <1>1, <1>3, <1>4, <1>6, <1>8, <1>9, SettleInv DEF GateStep

\* Acknowledge, SendMessage and RekeyPing: what the user or a timer starts.
LEMMA StartedInv ==
    ASSUME IInv, NEW u \in Users, Acknowledge(u) \/ SendMessage(u) \/ RekeyPing(u)
    PROVE  IInv' /\ GateStep
<1> DEFINE c == client[u]
<1>1. /\ c \in Client /\ Typed(c) /\ OK(u, c, Everything, Users)
      /\ adopters = {} => OK(u, c, confirmed, restarted)
      /\ c.on => c.loggedIn
  BY Ready
<1>2. confirmed \subseteq Everything
  BY DEF IInv, Inv, Everything
<1>3. CASE Acknowledge(u)
  <2> DEFINE e == acknowledgeKeyChange(c)
             x == <<u, c.key, c.peerKey>>
  <2>1. /\ c.loggedIn /\ Run(u, e) /\ directory' = directory /\ restarted' = restarted
        /\ confirmed' = confirmed \cup (IF c.flagged THEN {x} ELSE {})
    BY <1>3, Zenon DEF Acknowledge
  <2>2. c.flagged => x \in Everything
    <3>1. c.flagged => c.peerKey # 0
      BY <1>1 DEF Typed, Linked
    <3>2. c.key \in Keys /\ c.peerKey \in Keys \cup {0}
      BY <1>1 DEF Client, KeyOrNone
    <3> QED BY <3>1, <3>2 DEF Everything
  <2>3. /\ confirmed \subseteq confirmed' /\ confirmed' \subseteq Everything
        /\ c.flagged => x \in confirmed'
    BY <1>2, <2>1, <2>2
  <2> HIDE DEF c
  <2>4. OK(u, e, Everything, Users) /\ Later(c, e)
    BY <1>1, <2>1, <2>2, AcknowledgeOK
  <2>5. adopters = {} => OK(u, e, confirmed', restarted)
    <3>1. SUFFICES ASSUME adopters = {} PROVE OK(u, e, confirmed', restarted)
      BY <3>1
    <3>2. OK(u, c, confirmed', restarted)
      BY <1>1, <2>3, <3>1, OKGrows
    <3> QED BY <2>1, <2>3, <3>2, AcknowledgeOK
  <2> HIDE DEF e
  <2> QED BY <2>1, <2>3, <2>4, <2>5, RunInv DEF c
<1>4. CASE SendMessage(u)
  <2> DEFINE e == sendMessage(c)
  <2>1. /\ c.loggedIn /\ Run(u, e) /\ directory' = directory /\ restarted' = restarted
        /\ confirmed' = confirmed
    BY <1>4, Zenon DEF SendMessage
  <2> HIDE DEF c
  <2>2. OK(u, e, Everything, Users) /\ Later(c, e)
    BY <1>1, <2>1, SendMessageOK
  <2>3. adopters = {} => OK(u, e, confirmed, restarted)
    BY <1>1, <2>1, SendMessageOK
  <2> HIDE DEF e
  <2> QED BY <1>2, <2>1, <2>2, <2>3, RunInv DEF c
<1>5. CASE RekeyPing(u)
  <2> DEFINE e == Transmit(c, "ping")
  <2>1. /\ c.on /\ c.peerKey # 0 /\ Run(u, e) /\ directory' = directory
        /\ restarted' = restarted /\ confirmed' = confirmed
    BY <1>5, Zenon DEF RekeyPing
  <2> HIDE DEF c
  <2>2. c.loggedIn /\ c.ident # 0
    BY <1>1, <2>1, Held
  <2>3. OK(u, e, Everything, Users) /\ Same(c, e)
    BY <1>1, <2>2, TransmitOK
  <2>4. adopters = {} => OK(u, e, confirmed, restarted)
    BY <1>1, <2>2, TransmitOK
  <2>5. Later(c, e)
    BY <1>1, <2>3, LaterFacts
  <2> HIDE DEF e
  <2> QED BY <1>2, <2>1, <2>3, <2>4, <2>5, RunInv DEF c
<1> QED BY <1>3, <1>4, <1>5

-----------------------------------------------------------------------------
(* The theorems.                                                            *)

\* Before anything happened nothing is claimed.
LEMMA InitInv == Init => IInv
<1>1. SUFFICES ASSUME Init PROVE IInv
  BY <1>1
<1>2. \A u \in Users : FirstKey[u] \in Keys
  BY KeyAssumption
<1>3. \A u \in Users :
        /\ client[u] = Fresh(FirstKey[u]) /\ inbox[u] = <<>>
        /\ Typed(client[u]) /\ client[u].tx = <<>> /\ client[u].lost = <<>>
        /\ client[u].adoptions = 0 /\ Good(u, client[u], confirmed, restarted)
  BY <1>1, <1>2, FreshOK DEF Init
<1>4. /\ client = [u \in Users |-> client[u]] /\ inbox = [u \in Users |-> <<>>]
      /\ directory = [u \in Users |-> 0] /\ confirmed = {} /\ online = {}
  BY <1>1 DEF Init
<1>5. Inv
  <2>1. \A u \in Users : client[u] \in Client
    BY <1>3 DEF Typed
  <2>2. client \in [Users -> Client]
    BY <1>4, <2>1
  <2> QED BY <1>3, <1>4, <2>2 DEF Inv, KeyOrNone
<1>6. GateInv
  <2>1. \A S : <<>> \in Seq(S)
    OBVIOUS
  <2>2. \A u \in Users : inbox[u] \in Seq(Said(Peer(u), confirmed, restarted))
    BY <1>3, <2>1, Zenon
  <2> QED BY <1>3, <2>2, Zenon DEF GateInv
<1> QED BY <1>5, <1>6 DEF IInv

\* Every step keeps the invariant, and sends a text only through an open gate.
LEMMA NextInv == IInv /\ [Next]_vars => IInv' /\ GateStep
<1>1. SUFFICES ASSUME IInv, [Next]_vars PROVE IInv' /\ GateStep
  BY <1>1
<1>2. CASE Next
  <2>1. PICK u \in Users :
          \/ Login(u) \/ Connect(u) \/ Hello(u) \/ Deliver(u) \/ Acknowledge(u)
          \/ SendMessage(u) \/ RekeyPing(u) \/ ThrottleEnds(u)
          \/ Drop(u) \/ Logout(u)
          \/ \E key \in Keys : Reinstall(u, key)
    BY <1>2 DEF Next
  <2>2. Login(u) \/ Logout(u) => IInv' /\ GateStep
    BY <1>1, RestartInv
  <2>3. ThrottleEnds(u) \/ Drop(u) \/ Connect(u) => IInv' /\ GateStep
    BY <1>1, SwitchInv
  <2>4. Hello(u) => IInv' /\ GateStep
    BY <1>1, HelloInv
  <2>5. Deliver(u) => IInv' /\ GateStep
    BY <1>1, DeliverInv
  <2>6. Acknowledge(u) \/ SendMessage(u) \/ RekeyPing(u) => IInv' /\ GateStep
    BY <1>1, StartedInv
  <2>7. (\E key \in Keys : Reinstall(u, key)) => IInv' /\ GateStep
    BY <1>1, ReinstallInv
  <2> QED BY <2>1, <2>2, <2>3, <2>4, <2>5, <2>6, <2>7, Zenon
<1>3. CASE UNCHANGED vars
  BY <1>1, <1>3 DEF vars, IInv, Inv, GateInv, GateStep
<1> QED BY <1>1, <1>2, <1>3

\* The invariant holds in every reachable state.
THEOREM Invariant == Spec => []IInv
<1>1. IInv /\ [Next]_vars => IInv'
  BY NextInv
<1> QED BY InitInv, <1>1, PTL DEF Spec

\* Every frame is well-formed, and m_peerKeys and CryptoBox hold the same key,
\* whatever is delivered, replayed or adopted.
THEOREM Types == Spec => []TypeOK
<1>1. IInv => TypeOK
  <2>1. SUFFICES ASSUME IInv PROVE TypeOK
    BY <2>1
  <2>2. \A u \in Users :
          /\ client[u].key \in Keys
          /\ {client[u].verified, client[u].attested, client[u].adopted} \subseteq Keys \cup {0}
          /\ client[u].stash \in Seq(AckFrame \cup MessageFrame)
          /\ client[u].tx = <<>> /\ client[u].lost = <<>>
          /\ client[u].peerKey \in {0, client[u].ident}
    BY <2>1 DEF IInv, Inv, Typed, Linked, Client, KeyOrNone, StoredFrame
  <2> QED BY <2>1, <2>2 DEF TypeOK, IInv, Inv, KeyOrNone
<1> QED BY Invariant, <1>1, PTL

\* The one-shot guard of the handshake (m_rebootstrapAdopted): a second adoption
\* is one of a second identity.
THEOREM LoopIsCut == Spec => []LoopCut
<1>1. IInv => LoopCut
  BY DEF LoopCut, IInv, Inv, Typed, Guarded
<1> QED BY Invariant, <1>1, PTL

\* m_peerVerified is true only of a confirmation the peer's user has given.
THEOREM AttestationsTrue == Spec => []AttestationTrue
<1>1. IInv => AttestationTrue
  BY DEF AttestationTrue, NoneAdopted, IInv, GateInv, Good, Gate
<1> QED BY Invariant, <1>1, PTL

\* The verification table records only episodes that were confirmed.
THEOREM RecordsTrue == Spec => []RecordTrue
<1>1. IInv => RecordTrue
  BY DEF RecordTrue, NoneAdopted, IInv, GateInv, Good, Gate
<1> QED BY Invariant, <1>1, PTL

\* The gate of conversationBlocked: in a run without restarts and adoptions no text
\* goes out before both users have confirmed the two keys it is encrypted for.
THEOREM GateIsHeld == Spec => GateHolds
<1>1. IInv /\ [Next]_vars => GateStep
  BY NextInv
<1>2. GateStep <=> (restarted' = {} /\ NoneAdopted' =>
                        \A s \in sent' \ sent : BothConfirmed(confirmed', s[2]))
  BY DEF GateStep, NoneAdopted
<1> QED BY Invariant, <1>1, <1>2, PTL DEF Spec, GateHolds
=============================================================================

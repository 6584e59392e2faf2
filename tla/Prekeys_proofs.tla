--------------------------- MODULE Prekeys_proofs ---------------------------
(***************************************************************************)
(* Proofs about Prekeys: the signed prekeys and the one-time prekeys of a  *)
(* user live and die once, and both ends of a session that an opener       *)
(* creates hold the same secret, for any number of peers, any batch, any   *)
(* ages and any clock.                                                     *)
(***************************************************************************)
EXTENDS Prekeys, TLAPS

-----------------------------------------------------------------------------
(* The inductive invariant, in two independent parts.  The first is about  *)
(* the prekeys of Owner: what is in memory is what is on disk, numbers and *)
(* ids are only given out once, and what was destroyed or used lies behind.*)

\* What a restart would find.
Saved == IF disk = None THEN NoPrekeys ELSE disk

\* The previous signed prekey is an older one, and ids were given out in order.
Formed(k) ==
    /\ k.prev = NoSpk \/ k.prev < k.spk
    /\ \A i \in k.pool : i < k.next

\* What was destroyed is older than the current signed prekey and is not the
\* previous one; what opened a session is out of the pool for good, unless its
\* removal was torn from it by a crash.
Past(k, destroyed, opened, lost) ==
    /\ \A g \in destroyed : 0 < g /\ g < k.spk /\ g # k.prev
    /\ \A i \in DOMAIN opened :
          opened[i] < k.next /\ (opened[i] \in lost \/ opened[i] \notin k.pool)

\* Memory and disk differ at most in the stamps.
SameKeys(k, d) == k.spk = d.spk /\ k.prev = d.prev /\ k.pool = d.pool /\ k.next = d.next

KeysTyped ==
    /\ box \in [on : {"down", "open", "in"}, keys : PrekeySets]
    /\ disk \in PrekeySets \cup {None}
    /\ now \in Int
    /\ uses \in Seq(Nat)
    /\ gone \subseteq Nat

KeysInv ==
    /\ KeysTyped
    /\ disk # None => hasPrekeys(disk)
    /\ box.keys = NoPrekeys \/ (disk # None /\ hasPrekeys(box.keys) /\ SameKeys(box.keys, disk))
    /\ Formed(Saved)
    /\ Past(Saved, gone, uses, torn)
    /\ SingleUse

(* The second part is about the sessions: where a bundle can come from, and *)
(* what a header that names a key of Owner says about its sender.           *)

\* A bundle with the signed prekey of Owner, as Owner signed it, or one whose
\* signed prekey the relay has made up and signed with a key of its own.  Its
\* one-time key, which nobody signs, may be any.
Served(b) == b = Bundle(Ik(Owner), Key("spk", Owner, b.spk.n), sign(Ik(Owner), b.spk), b.opk)
Forged(b) == b = Bundle(b.ik, Key("spk", Mallory, 1), sign(Ik(Mallory), b.spk), b.opk)
OpkOK(b) == b.opk = None \/ b.opk.key.kind = "opk"
BundleOK(b) == b = None \/ ((Served(b) \/ Forged(b)) /\ OpkOK(b))

\* A secret of Owner is one the peer derived, or differs from one in its last
\* part only, and the peer is one that took a bundle with another one-time key.
Agrees(p, s, secrets, S) ==
    \/ s \in secrets[p]
    \/ p \in S /\ \E k \in secrets[p] : \A i \in 1..3 : s[i] = k[i]

\* The sender of a header that names a signed prekey of Owner has derived the
\* secret that Owner derives from the header, unless the relay wrote it.
HeaderOK(p, h, secrets, S, I) ==
    \/ p \in I
    \/ h = None
    \/ /\ h.spk # NoKey
       /\ h.spk.of = Owner =>
             /\ h.spk = Key("spk", Owner, h.spk.n)
             /\ Agrees(p, responder(h.spk, OwnOpk(h.opk), h.ik, h.ek), secrets, S)

FrameOK(f, secrets, S, I) == f.from \in Peers /\ HeaderOK(f.from, f.hdr, secrets, S, I)

\* The client of a peer.
Client(asked, reply, key, hdr, queued, eks) ==
    [asked |-> asked, reply |-> reply, key |-> key, hdr |-> hdr, queued |-> queued, eks |-> eks]
ClientTyped(c) == c = Client(c.asked, c.reply, c.key, c.hdr, c.queued, c.eks)

SessionsTyped ==
    /\ sess = [p \in Peers |-> sess[p]]
    /\ derived = [p \in Peers |-> derived[p]]
    /\ peer = [p \in Peers |-> peer[p]]
    /\ \A p \in Peers : ClientTyped(peer[p])
    /\ mail \in Seq(Range(mail))

SessionsInv ==
    /\ SessionsTyped
    /\ \A p \in Peers : peer[p].reply # <<>> => BundleOK(Head(peer[p].reply))
    /\ \A p \in Peers : HeaderOK(p, peer[p].hdr, derived, spliced, imposed)
    /\ \A i \in DOMAIN mail : FrameOK(mail[i], derived, spliced, imposed)
    /\ SecretsAgree
    /\ AuthenticOpen

IInv == KeysInv /\ SessionsInv

-----------------------------------------------------------------------------
(* What CryptoBox does to its prekeys.                                      *)

\* What any operation on the prekeys may do to them: signed prekeys and ids
\* that it brings in are new, and those it leaves were there.
Advance(k, m) ==
    /\ m \in PrekeySets
    /\ Formed(m)
    /\ k.spk <= m.spk
    /\ k.next <= m.next
    /\ m.prev \in {NoSpk, k.spk, k.prev} \/ m.prev > k.spk
    /\ \A i \in m.pool : i \in k.pool \/ i >= k.next

\* Doing nothing is an advance.
LEMMA AdvanceSelf ==
    ASSUME NEW k \in PrekeySets, Formed(k)
    PROVE  Advance(k, k)
BY DEF Advance, PrekeySets

\* Two advances after each other are one: onConnected may generate twice.
LEMMA AdvanceTwice ==
    ASSUME NEW k \in PrekeySets, NEW m, NEW n, Advance(k, m), Advance(m, n)
    PROVE  Advance(k, n)
BY DEF Advance, PrekeySets, NoSpk

\* generatePrekeys: a new signed prekey, the current one becomes the previous
\* one, and the ids of the new pool continue where the last one stopped.
LEMMA GenerateAdvances ==
    ASSUME NEW k \in PrekeySets, Formed(k), NEW c \in Nat, now \in Int
    PROVE  /\ Advance(k, generatePrekeys(k, c))
           /\ hasPrekeys(generatePrekeys(k, c))
<1> DEFINE g == generatePrekeys(k, c)
<1>1. /\ g.spk = k.spk + 1 /\ g.next = k.next + c
      /\ g.prev = (IF hasPrekeys(k) THEN k.spk ELSE k.prev)
      /\ g.pool = k.next .. (k.next + c - 1)
  BY DEF generatePrekeys
<1>2. g \in PrekeySets
  BY DEF generatePrekeys, PrekeySets, hasPrekeys
<1>3. Formed(g)
  BY <1>1, <1>2 DEF Formed, PrekeySets, hasPrekeys, NoSpk
<1>4. g.prev \in {NoSpk, k.spk, k.prev} /\ k.spk <= g.spk /\ k.next <= g.next
  BY <1>1 DEF PrekeySets
<1>5. \A i \in g.pool : i >= k.next
  BY <1>1 DEF PrekeySets
<1>6. hasPrekeys(g)
  BY <1>1 DEF hasPrekeys, NoSpk, PrekeySets
<1> QED
  BY <1>2, <1>3, <1>4, <1>5, <1>6 DEF Advance

\* A new stamp is an advance, and changes nothing but the stamp.
LEMMA RestampAdvances ==
    ASSUME NEW k \in PrekeySets, Formed(k), now \in Int
    PROVE  /\ Restamped(k) \in PrekeySets
           /\ SameKeys(Restamped(k), k)
           /\ Formed(Restamped(k))
           /\ Advance(k, Restamped(k))
<1>1. Restamped(k) \in PrekeySets /\ SameKeys(Restamped(k), k)
  BY DEF Restamped, PrekeySets, SameKeys
<1>2. Formed(Restamped(k))
  BY <1>1 DEF SameKeys, Formed
<1> QED
  BY <1>1, <1>2 DEF Advance, SameKeys, PrekeySets

\* rotateSignedPrekeyIfDue: an advance; without a rotation only the stamp changes.
LEMMA RotateAdvances ==
    ASSUME NEW k \in PrekeySets, Formed(k), now \in Int
    PROVE  /\ Advance(k, rotateSignedPrekeyIfDue(k))
           /\ hasPrekeys(k) => hasPrekeys(rotateSignedPrekeyIfDue(k))
           /\ ~RotationDue(k) => SameKeys(rotateSignedPrekeyIfDue(k), k)
           /\ ~hasPrekeys(k) => rotateSignedPrekeyIfDue(k) = k
<1> DEFINE r == Restamped(k)
<1> DEFINE g == generatePrekeys(r, 0)
<1>1. /\ r \in PrekeySets /\ SameKeys(r, k) /\ Formed(r) /\ Advance(k, r)
  BY RestampAdvances
<1>2. CASE RotationDue(k)
  <2> DEFINE m == [g EXCEPT !.pool = k.pool, !.next = k.next]
  <2>1. rotateSignedPrekeyIfDue(k) = m /\ hasPrekeys(k)
    BY <1>2 DEF rotateSignedPrekeyIfDue, RotationDue
  <2>2. /\ g.spk = k.spk + 1 /\ g.prev = k.spk /\ g \in PrekeySets
    BY <1>1, <2>1 DEF generatePrekeys, PrekeySets, hasPrekeys, SameKeys
  <2> HIDE DEF g
  <2>3. m \in PrekeySets /\ m.spk = k.spk + 1 /\ m.prev = k.spk /\ m.pool = k.pool /\ m.next = k.next
    BY <2>2 DEF PrekeySets
  <2> HIDE DEF m
  <2>4. Formed(m)
    BY <2>3 DEF Formed, PrekeySets
  <2>5. Advance(k, m)
    BY <2>3, <2>4 DEF Advance, PrekeySets
  <2>6. hasPrekeys(m)
    BY <2>3 DEF hasPrekeys, NoSpk, PrekeySets
  <2> QED
    BY <1>2, <2>1, <2>5, <2>6
<1>3. CASE ~RotationDue(k) /\ hasPrekeys(k)
  <2>1. rotateSignedPrekeyIfDue(k) = r
    BY <1>3 DEF rotateSignedPrekeyIfDue
  <2> QED
    BY <1>1, <1>3, <2>1 DEF SameKeys, hasPrekeys
<1>4. CASE ~RotationDue(k) /\ ~hasPrekeys(k)
  <2>1. rotateSignedPrekeyIfDue(k) = k
    BY <1>4 DEF rotateSignedPrekeyIfDue
  <2>2. Advance(k, k) /\ SameKeys(k, k)
    BY AdvanceSelf DEF SameKeys
  <2> QED
    BY <1>4, <2>1, <2>2, Zenon
<1> QED
  BY <1>2, <1>3, <1>4

\* dropExpiredPreviousPrekey: an advance; nothing changes unless it is due.
LEMMA DropAdvances ==
    ASSUME NEW k \in PrekeySets, Formed(k)
    PROVE  /\ Advance(k, dropExpiredPreviousPrekey(k))
           /\ hasPrekeys(k) => hasPrekeys(dropExpiredPreviousPrekey(k))
           /\ ~DropDue(k) => dropExpiredPreviousPrekey(k) = k
<1>1. CASE DropDue(k)
  <2> DEFINE m == [k EXCEPT !.prev = NoSpk, !.retired = 0]
  <2>1. dropExpiredPreviousPrekey(k) = m
    BY <1>1 DEF dropExpiredPreviousPrekey
  <2>2. m \in PrekeySets /\ m.spk = k.spk /\ m.prev = NoSpk /\ m.pool = k.pool /\ m.next = k.next
    <3>1. NoSpk \in Nat /\ 0 \in Int
      BY DEF NoSpk
    <3> QED
      BY <3>1 DEF PrekeySets
  <2> HIDE DEF m
  <2>3. Advance(k, m)
    BY <2>2 DEF Advance, Formed, PrekeySets
  <2>4. hasPrekeys(k) => hasPrekeys(m)
    BY <2>2 DEF hasPrekeys
  <2> QED
    BY <1>1, <2>1, <2>3, <2>4
<1>2. CASE ~DropDue(k)
  BY <1>2, AdvanceSelf DEF dropExpiredPreviousPrekey
<1> QED
  BY <1>1, <1>2
\* publishPrekeysIfNeeded: what it leaves is an advance of what was in memory
\* or, where there was nothing, on disk; unless it is that, it is saved.
LEMMA PublishAdvances ==
    ASSUME NEW k, NEW force \in BOOLEAN, NEW on,
           Restored(k) \in PrekeySets, Formed(Restored(k)), now \in Int
    PROVE  LET p == publishPrekeysIfNeeded(k, force, on)
           IN /\ Advance(Restored(k), p.keys)
              /\ hasPrekeys(p.keys)
              /\ p.saved \in BOOLEAN
              /\ ~p.saved => p.keys = Restored(k)
              /\ force => p.saved
<1> DEFINE r == Restored(k)
           g == generatePrekeys(r, Batch)
           p == publishPrekeysIfNeeded(k, force, on)
<1>0. Batch \in Nat
  BY PrekeysAssumption
<1>1. Advance(r, g) /\ hasPrekeys(g)
  BY <1>0, GenerateAdvances
<1>2. CASE NeedNew(r, force)
  <2>1. p.keys = g /\ p.saved = TRUE
    BY <1>2 DEF publishPrekeysIfNeeded
  <2> QED
    BY <1>1, <2>1
<1>3. CASE ~NeedNew(r, force)
  <2>1. p.keys = r /\ p.saved = FALSE
    BY <1>3 DEF publishPrekeysIfNeeded
  <2>2. hasPrekeys(r) /\ ~force
    BY <1>3 DEF NeedNew
  <2>3. Advance(r, r)
    BY AdvanceSelf
  <2> QED
    BY <2>1, <2>2, <2>3, Zenon
<1> QED
  BY <1>2, <1>3

\* Turned, at a connect: an advance; what it does not save has only a new stamp.
LEMMA TurnAdvances ==
    ASSUME NEW k \in PrekeySets, Formed(k), now \in Int
    PROVE  /\ Advance(k, Turned(k).keys)
           /\ hasPrekeys(k) => hasPrekeys(Turned(k).keys)
           /\ ~Turned(k).saved => SameKeys(Turned(k).keys, k)
           /\ ~hasPrekeys(k) /\ k.prev = NoSpk => Turned(k).keys = k /\ ~Turned(k).rotated /\ ~Turned(k).saved
<1> DEFINE r == rotateSignedPrekeyIfDue(k)
           d == dropExpiredPreviousPrekey(r)
<1>1. /\ Turned(k).keys = d
      /\ Turned(k).rotated = RotationDue(k)
      /\ Turned(k).saved = (RotationDue(k) \/ DropDue(r))
  BY DEF Turned
<1>2. /\ Advance(k, r)
      /\ hasPrekeys(k) => hasPrekeys(r)
      /\ ~RotationDue(k) => SameKeys(r, k)
      /\ ~hasPrekeys(k) => r = k
  BY RotateAdvances
<1>3. r \in PrekeySets /\ Formed(r)
  BY <1>2 DEF Advance
<1> HIDE DEF r
<1>4. /\ Advance(r, d)
      /\ hasPrekeys(r) => hasPrekeys(d)
      /\ ~DropDue(r) => d = r
  BY <1>3, DropAdvances
<1>5. Advance(k, d)
  BY <1>2, <1>4, AdvanceTwice
<1>6. ~hasPrekeys(k) /\ k.prev = NoSpk => d = k /\ ~RotationDue(k) /\ ~DropDue(r)
  BY <1>2, <1>4 DEF DropDue, RotationDue
<1> QED
  BY <1>1, <1>2, <1>4, <1>5, <1>6
-----------------------------------------------------------------------------
(* What is destroyed or used stays behind.                                  *)

\* After an advance, what was destroyed before it and what it destroys is past.
LEMMA PastAdvances ==
    ASSUME NEW k \in PrekeySets, NEW m, Formed(k), Advance(k, m),
           NEW G, NEW U \in Seq(Nat), NEW T, G \subseteq Nat, Past(k, G, U, T)
    PROVE  /\ Past(m, G, U, T)
           /\ Past(m, G \cup Destroyed(k, m), U, T)
<1>1. m \in PrekeySets /\ k.spk <= m.spk
  BY DEF Advance
<1>2. \A g \in G : 0 < g /\ g < m.spk /\ g # m.prev
  <2> SUFFICES ASSUME NEW g \in G PROVE 0 < g /\ g < m.spk /\ g # m.prev
    OBVIOUS
  <2>1. g \in Nat /\ 0 < g /\ g < k.spk /\ g # k.prev
    BY DEF Past
  <2>2. m.prev \in {0, k.spk, k.prev} \/ m.prev > k.spk
    BY DEF Advance, NoSpk
  <2> QED
    BY <1>1, <2>1, <2>2 DEF PrekeySets
<1>3. \A g \in Destroyed(k, m) : 0 < g /\ g < m.spk /\ g # m.prev
  <2> SUFFICES ASSUME NEW g \in Destroyed(k, m) PROVE 0 < g /\ g < m.spk /\ g # m.prev
    OBVIOUS
  <2>1. g \in {k.spk, k.prev} /\ g # m.spk /\ g # m.prev /\ g # 0
    BY DEF Destroyed, NoSpk
  <2>2. k.prev = 0 \/ k.prev < k.spk
    BY DEF Formed, NoSpk
  <2> QED
    BY <1>1, <2>1, <2>2 DEF PrekeySets
<1>4. \A i \in DOMAIN U : U[i] < m.next /\ (U[i] \in T \/ U[i] \notin m.pool)
  <2> SUFFICES ASSUME NEW i \in DOMAIN U
               PROVE  U[i] < m.next /\ (U[i] \in T \/ U[i] \notin m.pool)
    OBVIOUS
  <2>0. U[i] \in Nat
    OBVIOUS
  <2> DEFINE u == U[i]
  <2>1. u < k.next /\ (u \in T \/ u \notin k.pool)
    BY DEF Past
  <2>2. k.next <= m.next /\ \A j \in m.pool : j \in k.pool \/ j >= k.next
    BY DEF Advance
  <2>3. k.next \in Nat /\ m.next \in Nat
    BY <1>1 DEF PrekeySets
  <2> HIDE DEF u
  <2>4. u \in Nat
    BY <2>0 DEF u
  <2>5. u < m.next /\ (u \in T \/ u \notin m.pool)
    BY <2>1, <2>2, <2>3, <2>4
  <2> QED
    BY <2>5 DEF u
<1> QED
  BY <1>2, <1>3, <1>4 DEF Past

\* Whatever differs only in the stamps is as well formed and has the same past.
LEMMA SameKeysSame ==
    ASSUME NEW k, NEW d, SameKeys(k, d), NEW G, NEW U, NEW T
    PROVE  /\ Formed(k) <=> Formed(d)
           /\ Past(k, G, U, T) <=> Past(d, G, U, T)
           /\ hasPrekeys(k) <=> hasPrekeys(d)
BY DEF SameKeys, Formed, Past, hasPrekeys

\* The prekeys that an operation starts from, in memory or else on disk, are
\* well formed and have everything destroyed and used behind them.
LEMMA RestoredOK ==
    ASSUME KeysInv
    PROVE  /\ Restored(box.keys) \in PrekeySets
           /\ Formed(Restored(box.keys))
           /\ Past(Restored(box.keys), gone, uses, torn)
           /\ hasPrekeys(box.keys) => Restored(box.keys) = box.keys
           /\ ~hasPrekeys(box.keys) => box.keys = NoPrekeys /\ Restored(box.keys) = Saved
<1>1. box.keys \in PrekeySets /\ (disk # None => disk \in PrekeySets)
  BY DEF KeysInv, KeysTyped
<1>2. ~hasPrekeys(NoPrekeys)
  BY DEF hasPrekeys, NoPrekeys
<1>3. CASE hasPrekeys(box.keys)
  <2>1. disk # None /\ SameKeys(box.keys, disk) /\ Formed(Saved) /\ Past(Saved, gone, uses, torn)
    BY <1>2, <1>3 DEF KeysInv
  <2>2. Saved = disk /\ Restored(box.keys) = box.keys
    BY <1>3, <2>1 DEF Saved, Restored
  <2>3. Formed(box.keys) /\ Past(box.keys, gone, uses, torn)
    BY <2>1, <2>2, SameKeysSame
  <2> QED
    BY <1>1, <1>3, <2>2, <2>3
<1>4. CASE ~hasPrekeys(box.keys)
  <2>1. box.keys = NoPrekeys /\ Formed(Saved) /\ Past(Saved, gone, uses, torn)
    BY <1>4 DEF KeysInv
  <2>2. Restored(box.keys) = Saved
    BY <1>4, <2>1 DEF Restored, Saved
  <2>3. Saved \in PrekeySets
    BY <1>1, <2>1 DEF Saved
  <2> QED
    BY <1>4, <2>1, <2>2, <2>3
<1> QED
  BY <1>3, <1>4

\* An operation that leaves an advance of those prekeys, in memory and on disk,
\* and records what it destroys keeps the invariant.
LEMMA KeysMoved ==
    ASSUME KeysInv, NEW K, NEW D, NEW R, NEW B,
           R = Restored(box.keys), B \in {R, NoPrekeys},
           Advance(R, K), hasPrekeys(K),
           box' \in [on : {"down", "open", "in"}, keys : PrekeySets], box'.keys = K,
           disk' = D, D \in PrekeySets, SameKeys(K, D),
           gone' = gone \cup Destroyed(B, K), now' = now, uses' = uses, torn' = torn
    PROVE  KeysInv'
<1>1. R \in PrekeySets /\ Formed(R) /\ Past(R, gone, uses, torn)
  BY RestoredOK
<1>2. D # None /\ hasPrekeys(D) /\ Saved' = D
  <2>1. D # None
    BY PrekeysAssumption
  <2> QED
    BY <2>1, SameKeysSame DEF Saved
<1>3. K \in PrekeySets /\ Formed(K)
  BY DEF Advance
<1>4. gone \subseteq Nat /\ uses \in Seq(Nat) /\ now \in Int /\ SingleUse
  BY DEF KeysInv, KeysTyped
<1>5. Past(K, gone', uses, torn)
  <2>1. Past(K, gone, uses, torn) /\ Past(K, gone \cup Destroyed(R, K), uses, torn)
    BY <1>1, <1>4, PastAdvances
  <2>2. Destroyed(NoPrekeys, K) = {}
    BY DEF Destroyed, NoPrekeys
  <2> QED
    BY <2>1, <2>2
<1>6. Formed(D) /\ Past(D, gone', uses, torn)
  BY <1>3, <1>5, SameKeysSame
<1>7. gone' \subseteq Nat
  <2>1. Destroyed(B, K) \subseteq Nat
    BY <1>1 DEF Destroyed, PrekeySets, NoPrekeys, NoSpk
  <2> QED
    BY <1>4, <2>1
<1>8. KeysTyped'
  BY <1>4, <1>7 DEF KeysTyped
<1>9. SingleUse'
  BY <1>4 DEF SingleUse
<1> QED
  BY <1>2, <1>6, <1>8, <1>9 DEF KeysInv
-----------------------------------------------------------------------------
(* The first part of the invariant, action by action.                       *)

\* Nothing is held, saved, destroyed or used at first.
LEMMA KeysInit == Init => KeysInv
<1> SUFFICES ASSUME Init PROVE KeysInv
  OBVIOUS
<1>1. NoPrekeys \in PrekeySets
  BY DEF NoPrekeys, PrekeySets, NoSpk
<1>2. box.keys = NoPrekeys /\ disk = None /\ uses = <<>> /\ gone = {} /\ torn = {} /\ now = 1
  BY DEF Init
<1>3. KeysTyped
  <2>1. box = [on |-> "down", keys |-> NoPrekeys]
    BY DEF Init
  <2>2. box \in [on : {"down", "open", "in"}, keys : PrekeySets]
    BY <1>1, <2>1
  <2> QED
    BY <1>2, <2>2 DEF KeysTyped
<1>4. Formed(NoPrekeys) /\ Past(NoPrekeys, {}, <<>>, {})
  BY DEF Formed, Past, NoPrekeys
<1>5. Saved = NoPrekeys
  BY <1>2 DEF Saved
<1>6. SingleUse
  BY <1>2 DEF SingleUse
<1> QED
  BY <1>2, <1>3, <1>4, <1>5, <1>6 DEF KeysInv

\* A connect: the prekeys are turned, published if they were rotated, and
\* published again if the pool is low; the last save is the one that counts.
LEMMA KeysConnect ==
    ASSUME KeysInv, onConnected
    PROVE  KeysInv'
<1> DEFINE k == box.keys
           R == Restored(k)
           t == Turned(k)
           p == IF t.rotated THEN publishPrekeysIfNeeded(t.keys, TRUE, "open")
                ELSE [keys |-> t.keys, saved |-> FALSE, tx |-> <<>>]
           q == publishPrekeysIfNeeded(p.keys, FALSE, "open")
           D == IF q.saved THEN q.keys ELSE IF p.saved THEN p.keys
                ELSE IF t.saved THEN t.keys ELSE disk
<1>1. /\ box' = [on |-> "open", keys |-> q.keys]
      /\ disk' = D
      /\ gone' = gone \cup Destroyed(R, q.keys)
      /\ now' = now /\ uses' = uses /\ torn' = torn
  BY DEF onConnected, Hold
<1>2. k \in PrekeySets /\ now \in Int
  BY DEF KeysInv, KeysTyped
<1>3. /\ R \in PrekeySets /\ Formed(R)
      /\ hasPrekeys(k) => R = k
      /\ ~hasPrekeys(k) => k = NoPrekeys /\ R = Saved
  BY RestoredOK
<1>4. Formed(NoPrekeys) /\ NoPrekeys.prev = NoSpk
  BY DEF Formed, NoPrekeys
<1>5. Formed(k)
  BY <1>3, <1>4
<1>6. /\ Advance(k, t.keys)
      /\ hasPrekeys(k) => hasPrekeys(t.keys)
      /\ ~t.saved => SameKeys(t.keys, k)
      /\ ~hasPrekeys(k) => t.keys = k /\ ~t.rotated /\ ~t.saved
  <2>1. /\ Advance(k, Turned(k).keys)
        /\ hasPrekeys(k) => hasPrekeys(Turned(k).keys)
        /\ ~Turned(k).saved => SameKeys(Turned(k).keys, k)
        /\ ~hasPrekeys(k) /\ k.prev = NoSpk => Turned(k).keys = k /\ ~Turned(k).rotated /\ ~Turned(k).saved
    BY <1>2, <1>5, TurnAdvances
  <2> QED
    BY <1>3, <1>4, <2>1
<1> HIDE DEF t
\* What the second publication starts from, and what has been saved by then.
<1>7. /\ Restored(p.keys) \in PrekeySets /\ Formed(Restored(p.keys))
      /\ Advance(R, Restored(p.keys))
      /\ p.saved => Restored(p.keys) = p.keys
      /\ t.saved => Restored(p.keys) = p.keys
      /\ ~p.saved => p.keys = t.keys
      /\ p.saved \in BOOLEAN
  <2>1. CASE ~hasPrekeys(k)
    <3>1. p.keys = k /\ p.saved = FALSE /\ ~t.saved
      BY <1>6, <2>1
    <3>2. Advance(R, R)
      BY <1>3, AdvanceSelf
    <3> QED
      BY <1>3, <1>6, <2>1, <3>1, <3>2
  <2>2. CASE hasPrekeys(k) /\ t.rotated
    <3> DEFINE a == publishPrekeysIfNeeded(t.keys, TRUE, "open")
    <3>1. Restored(t.keys) = t.keys /\ t.keys \in PrekeySets /\ Formed(t.keys)
      BY <1>6, <2>2 DEF Restored, Advance
    <3>2. Advance(t.keys, a.keys) /\ hasPrekeys(a.keys) /\ a.saved
      BY <1>2, <3>1, PublishAdvances
    <3>2a. a.saved \in BOOLEAN
      BY <1>2, <3>1, PublishAdvances
    <3>3. p = a
      BY <2>2
    <3> HIDE DEF a, p
    <3>4. Advance(k, p.keys)
      BY <1>2, <1>6, <3>2, <3>3, AdvanceTwice
    <3>5. Restored(p.keys) = p.keys
      BY <3>2, <3>3 DEF Restored
    <3>6. p.keys \in PrekeySets /\ Formed(p.keys)
      BY <3>4 DEF Advance
    <3> QED
      BY <1>3, <2>2, <3>2, <3>2a, <3>3, <3>4, <3>5, <3>6
  <2>3. CASE hasPrekeys(k) /\ ~t.rotated
    <3>1. p.keys = t.keys /\ p.saved = FALSE
      BY <2>3
    <3>2. Restored(t.keys) = t.keys /\ t.keys \in PrekeySets /\ Formed(t.keys)
      BY <1>6, <2>3 DEF Restored, Advance
    <3> QED
      BY <1>3, <1>6, <2>3, <3>1, <3>2
  <2> QED
    BY <2>1, <2>2, <2>3
<1> HIDE DEF p
<1>8. /\ Advance(Restored(p.keys), q.keys) /\ hasPrekeys(q.keys)
      /\ q.saved \in BOOLEAN
      /\ ~q.saved => q.keys = Restored(p.keys)
  BY <1>2, <1>7, PublishAdvances
<1> HIDE DEF q
<1>9. Advance(R, q.keys)
  BY <1>3, <1>7, <1>8, AdvanceTwice
<1>10. q.keys \in PrekeySets
  BY <1>9 DEF Advance
<1>11. D \in PrekeySets /\ SameKeys(q.keys, D)
  <2>1. CASE q.saved
    BY <1>10, <2>1 DEF SameKeys
  <2>2. CASE ~q.saved /\ p.saved
    BY <1>7, <1>8, <1>10, <2>2 DEF SameKeys
  <2>3. CASE ~q.saved /\ ~p.saved /\ t.saved
    BY <1>7, <1>8, <1>10, <2>3 DEF SameKeys
  <2>4. CASE ~q.saved /\ ~p.saved /\ ~t.saved
    <3>1. D = disk /\ q.keys = Restored(t.keys)
      BY <1>7, <1>8, <2>4
    <3>2. CASE ~hasPrekeys(k)
      <4>1. q.keys = Saved
        BY <1>3, <1>6, <3>1, <3>2
      <4>2. disk # None
        BY <1>8, <4>1 DEF Saved, hasPrekeys, NoPrekeys
      <4> QED
        BY <1>10, <3>1, <4>1, <4>2 DEF Saved, SameKeys
    <3>3. CASE hasPrekeys(k)
      <4>1. q.keys = t.keys /\ SameKeys(t.keys, k)
        BY <1>6, <2>4, <3>1, <3>3 DEF Restored
      <4>2. disk # None /\ SameKeys(k, disk) /\ disk \in PrekeySets
        BY <3>3 DEF KeysInv, KeysTyped, hasPrekeys, NoPrekeys
      <4> QED
        BY <3>1, <4>1, <4>2 DEF SameKeys
    <3> QED
      BY <3>2, <3>3
  <2> QED
    BY <2>1, <2>2, <2>3, <2>4
<1> HIDE DEF D, R
<1>12. box' \in [on : {"down", "open", "in"}, keys : PrekeySets] /\ box'.keys = q.keys
  BY <1>1, <1>10
<1>13. \A b, d, r, n :
          /\ r = Restored(box.keys) /\ b \in {r, NoPrekeys} /\ Advance(r, n) /\ hasPrekeys(n)
          /\ box'.keys = n /\ disk' = d /\ d \in PrekeySets /\ SameKeys(n, d)
          /\ gone' = gone \cup Destroyed(b, n)
          => KeysInv'
  BY <1>1, <1>12, KeysMoved
<1> QED
  BY <1>1, <1>8, <1>9, <1>11, <1>12, <1>13 DEF R

\* prekeys_ack: a low pool is filled up and saved.
LEMMA KeysAck ==
    ASSUME KeysInv, PrekeysAck
    PROVE  KeysInv'
<1> DEFINE k == box.keys
           R == Restored(k)
           p == publishPrekeysIfNeeded(k, TRUE, box.on)
<1>1. CASE UNCHANGED <<box, disk, gone>>
  BY <1>1 DEF PrekeysAck, KeysInv, KeysTyped, Saved, SingleUse
<1>2. CASE /\ box' = [box EXCEPT !.keys = p.keys]
           /\ disk' = p.keys
           /\ gone' = gone \cup Destroyed(k, p.keys)
  <2>1. now' = now /\ uses' = uses /\ torn' = torn
    BY DEF PrekeysAck
  <2>2. box \in [on : {"down", "open", "in"}, keys : PrekeySets] /\ now \in Int
    BY DEF KeysInv, KeysTyped
  <2>3. R \in PrekeySets /\ Formed(R) /\ k \in {R, NoPrekeys}
    BY RestoredOK
  <2>4. Advance(R, p.keys) /\ hasPrekeys(p.keys)
    BY <2>2, <2>3, PublishAdvances
  <2> HIDE DEF p
  <2>5. p.keys \in PrekeySets /\ SameKeys(p.keys, p.keys)
    BY <2>4 DEF Advance, SameKeys
  <2>6. box' \in [on : {"down", "open", "in"}, keys : PrekeySets] /\ box'.keys = p.keys
    BY <1>2, <2>2, <2>5
  <2> HIDE DEF R
  <2>7. \A b, d, r, n :
          /\ r = Restored(box.keys) /\ b \in {r, NoPrekeys} /\ Advance(r, n) /\ hasPrekeys(n)
          /\ box'.keys = n /\ disk' = d /\ d \in PrekeySets /\ SameKeys(n, d)
          /\ gone' = gone \cup Destroyed(b, n)
          => KeysInv'
    BY <2>1, <2>6, KeysMoved
  <2> QED
    BY <1>2, <2>3, <2>4, <2>5, <2>6, <2>7 DEF R
<1> QED
  BY <1>1, <1>2 DEF PrekeysAck

\* acceptX3dhSession: the one-time prekey was in the pool, so it was not used
\* before, or its use is one whose removal was lost.
LEMMA Taken ==
    ASSUME KeysInv, OpenSession, NEW hdr, hdr = Head(mail).hdr, NEW T, torn \subseteq T
    PROVE  LET a == Accepted(box.keys, hdr)
               k == box.keys
           IN  /\ k \in PrekeySets /\ hasPrekeys(k) /\ Formed(k)
               /\ a \in PrekeySets /\ hasPrekeys(a) /\ Formed(a)
               /\ uses' \in Seq(Nat)
               /\ Past(a, gone, uses', T)
               /\ \A i, j \in DOMAIN uses' : uses'[i] = uses'[j] => i = j \/ uses'[i] \in T
               /\ hdr.opk # NoOpk /\ hdr.opk \in T => Past(k, gone, uses', T)
               /\ hdr.opk = NoOpk => Past(k, gone, uses', T)
<1> DEFINE k == box.keys
           a == Accepted(k, hdr)
           id == hdr.opk
<1>1. Acceptable(k, hdr) /\ uses' = IF id = NoOpk THEN uses ELSE Append(uses, id)
  BY DEF OpenSession
<1>2. uses \in Seq(Nat) /\ k \in PrekeySets /\ SingleUse
  BY DEF KeysInv, KeysTyped
<1>3. hasPrekeys(k) /\ OpkHeld(k, hdr)
  BY <1>1 DEF Acceptable
<1>4. Formed(k) /\ Past(k, gone, uses, torn)
  <2>1. /\ hasPrekeys(box.keys) => Restored(box.keys) = box.keys
        /\ Formed(Restored(box.keys)) /\ Past(Restored(box.keys), gone, uses, torn)
    BY RestoredOK
  <2> QED BY <1>3, <2>1
<1>5. \A i \in DOMAIN uses : uses[i] < k.next /\ (uses[i] \in T \/ uses[i] \notin k.pool)
  BY <1>4 DEF Past
<1>6. \A g \in gone : 0 < g /\ g < k.spk /\ g # k.prev
  BY <1>4 DEF Past
<1>7. \A i, j \in DOMAIN uses : uses[i] = uses[j] => i = j \/ uses[i] \in T
  BY <1>2 DEF SingleUse
<1>8. CASE id = NoOpk
  <2>1. a = k /\ uses' = uses
    BY <1>1, <1>8 DEF Accepted
  <2> HIDE DEF k, a, id
  <2> QED BY <1>2, <1>3, <1>4, <1>5, <1>6, <1>7, <1>8, <2>1 DEF Past, k, a, id
<1>9. CASE id # NoOpk
  <2>1. a = [k EXCEPT !.pool = @ \ {id}] /\ uses' = Append(uses, id)
    BY <1>1, <1>9 DEF Accepted, takeOneTimePrekey
  <2>2. id \in k.pool
    BY <1>3, <1>9 DEF OpkHeld
  <2> HIDE DEF id, k
  <2>3. id \in Nat
    BY <1>2, <2>2 DEF PrekeySets
  <2>4. /\ a \in PrekeySets /\ a.spk = k.spk /\ a.prev = k.prev
        /\ a.pool = k.pool \ {id} /\ a.next = k.next
    <3>1. k.pool \ {id} \in SUBSET Nat
      BY <1>2 DEF PrekeySets
    <3> QED BY <1>2, <2>1, <3>1 DEF PrekeySets
  <2> HIDE DEF a
  <2>5. Formed(a) /\ hasPrekeys(a)
    BY <1>3, <1>4, <2>4 DEF Formed, hasPrekeys
  <2>6. /\ uses' \in Seq(Nat) /\ Len(uses') = Len(uses) + 1
        /\ DOMAIN uses' = 1 .. Len(uses) + 1
        /\ \A i \in DOMAIN uses : uses'[i] = uses[i]
        /\ uses'[Len(uses) + 1] = id
    BY <1>2, <2>1, <2>3
  <2>7. \A i \in DOMAIN uses' : i \in DOMAIN uses \/ i = Len(uses) + 1
    BY <1>2, <2>6
  <2>8. id < k.next
    BY <1>4, <2>2 DEF Formed
  <2>9. Past(a, gone, uses', T)
    <3>1. \A g \in gone : 0 < g /\ g < a.spk /\ g # a.prev
      BY <1>6, <2>4
    <3>2. \A i \in DOMAIN uses' : uses'[i] < a.next /\ (uses'[i] \in T \/ uses'[i] \notin a.pool)
      BY <1>5, <2>4, <2>6, <2>7, <2>8
    <3> QED BY <3>1, <3>2 DEF Past
  <2>10. ASSUME NEW i \in DOMAIN uses', NEW j \in DOMAIN uses', uses'[i] = uses'[j]
         PROVE  i = j \/ uses'[i] \in T
    <3>1. CASE i \in DOMAIN uses /\ j \in DOMAIN uses
      BY <1>7, <2>6, <2>10, <3>1
    <3>2. CASE i = Len(uses) + 1 \/ j = Len(uses) + 1
      BY <1>5, <2>2, <2>6, <2>7, <2>10, <3>2
    <3> QED BY <2>7, <2>10, <3>1, <3>2
  <2>11. id \in T => Past(k, gone, uses', T)
    <3>1. id \in T => \A i \in DOMAIN uses' :
                          uses'[i] < k.next /\ (uses'[i] \in T \/ uses'[i] \notin k.pool)
      BY <1>5, <2>6, <2>7, <2>8
    <3> QED BY <1>6, <3>1 DEF Past
  <2>12. \A i, j \in DOMAIN uses' : uses'[i] = uses'[j] => i = j \/ uses'[i] \in T
    BY <2>10
  <2> QED BY <1>2, <1>3, <1>4, <1>9, <2>4, <2>5, <2>6, <2>9, <2>11, <2>12 DEF k, a, id
<1> QED BY <1>8, <1>9

\* The prekey leaves the pool in memory and on disk.
LEMMA KeysReceive ==
    ASSUME KeysInv, ReceiveMsg
    PROVE  KeysInv'
<1> DEFINE k == box.keys
           hdr == Head(mail).hdr
           a == Accepted(k, hdr)
<1>1. CASE UNCHANGED <<box, disk, uses>>
  BY <1>1 DEF ReceiveMsg, KeysInv, KeysTyped, Saved, SingleUse
<1>2. CASE OpenSession /\ box' = [box EXCEPT !.keys = a] /\ disk' = a
  <2>1. now' = now /\ gone' = gone /\ torn' = torn
    BY DEF ReceiveMsg, tampered
  <2>2. /\ box \in [on : {"down", "open", "in"}, keys : PrekeySets] /\ now \in Int
        /\ gone \subseteq Nat
    BY DEF KeysInv, KeysTyped
  <2>3. /\ a \in PrekeySets /\ hasPrekeys(a) /\ Formed(a) /\ uses' \in Seq(Nat)
        /\ Past(a, gone, uses', torn)
        /\ \A i, j \in DOMAIN uses' : uses'[i] = uses'[j] => i = j \/ uses'[i] \in torn
    <3>1. hdr = Head(mail).hdr /\ torn \subseteq torn
      OBVIOUS
    <3> HIDE DEF hdr
    <3> QED BY <1>2, <3>1, Taken
  <2> HIDE DEF a
  <2>4. a # None
    BY <2>3, PrekeysAssumption
  <2>5. Saved' = a
    BY <1>2, <2>4 DEF Saved
  <2>6. box' \in [on : {"down", "open", "in"}, keys : PrekeySets] /\ box'.keys = a
    BY <1>2, <2>2, <2>3
  <2>7. KeysTyped'
    BY <1>2, <2>1, <2>2, <2>3, <2>6 DEF KeysTyped
  <2>8. SingleUse'
    BY <2>1, <2>3 DEF SingleUse
  <2> QED
    BY <1>2, <2>1, <2>3, <2>4, <2>5, <2>6, <2>7, <2>8 DEF KeysInv, SameKeys
<1> QED
  BY <1>1, <1>2 DEF ReceiveMsg

\* The process ends before the pool is saved: the prekey is there again.
LEMMA KeysCrash ==
    ASSUME KeysInv, CrashOpening
    PROVE  KeysInv'
<1> DEFINE k == box.keys
           hdr == Head(mail).hdr
<1>1. /\ OpenSession /\ box' = [on |-> "down", keys |-> NoPrekeys] /\ disk' = disk
      /\ now' = now /\ gone' = gone
      /\ torn' = IF hdr.opk = NoOpk THEN torn ELSE torn \cup {hdr.opk}
  BY DEF CrashOpening
<1>2. now \in Int /\ gone \subseteq Nat /\ disk \in PrekeySets \cup {None}
  BY DEF KeysInv, KeysTyped
<1>3. PICK T : T = torn' /\ torn \subseteq T /\ (hdr.opk # NoOpk => hdr.opk \in T)
  BY <1>1
<1>4. /\ k \in PrekeySets /\ hasPrekeys(k) /\ Formed(k) /\ uses' \in Seq(Nat)
      /\ Past(k, gone, uses', T)
      /\ \A i, j \in DOMAIN uses' : uses'[i] = uses'[j] => i = j \/ uses'[i] \in T
  <2>1. hdr = Head(mail).hdr
    OBVIOUS
  <2> HIDE DEF hdr
  <2> QED BY <1>1, <1>3, <2>1, Taken
<1>5. disk # None /\ SameKeys(k, disk) /\ hasPrekeys(disk)
  <2>1. k # NoPrekeys
    BY <1>4 DEF hasPrekeys, NoPrekeys
  <2> QED BY <2>1 DEF KeysInv
<1>6. Formed(disk) /\ Past(disk, gone, uses', T)
  BY <1>4, <1>5, SameKeysSame
<1>7. Saved' = disk
  BY <1>1, <1>5 DEF Saved
<1>8. NoPrekeys \in PrekeySets
  BY DEF NoPrekeys, PrekeySets, NoSpk
<1>9. KeysTyped' /\ box'.keys = NoPrekeys
  BY <1>1, <1>2, <1>4, <1>8 DEF KeysTyped
<1>10. SingleUse'
  BY <1>3, <1>4 DEF SingleUse
<1> QED BY <1>1, <1>3, <1>5, <1>6, <1>7, <1>9, <1>10 DEF KeysInv

\* A lost link keeps the prekeys in memory; a restart finds those on disk.
LEMMA KeysDisconnect ==
    ASSUME KeysInv, Disconnect
    PROVE  KeysInv'
<1>1. /\ disk' = disk /\ now' = now /\ uses' = uses /\ gone' = gone /\ torn' = torn
      /\ \E restart \in BOOLEAN :
             box' = [on |-> "down", keys |-> IF restart THEN NoPrekeys ELSE box.keys]
  BY DEF Disconnect
<1>2. box.keys \in PrekeySets /\ NoPrekeys \in PrekeySets
  BY DEF KeysInv, KeysTyped, NoPrekeys, PrekeySets, NoSpk
<1>3. /\ box'.keys \in {NoPrekeys, box.keys}
      /\ box' \in [on : {"down", "open", "in"}, keys : PrekeySets]
  BY <1>1, <1>2
<1>4. KeysTyped' /\ Saved' = Saved
  BY <1>1, <1>3 DEF KeysInv, KeysTyped, Saved
<1>5. SingleUse'
  BY <1>1 DEF KeysInv, SingleUse
<1> QED
  BY <1>1, <1>3, <1>4, <1>5 DEF KeysInv

\* hello, and the wall clock, which may jump back as well as forward.
LEMMA KeysHelloClock ==
    ASSUME KeysInv, Hello \/ SetClock
    PROVE  KeysInv'
<1>1. disk' = disk /\ uses' = uses /\ gone' = gone /\ torn' = torn /\ box'.keys = box.keys
  BY DEF Hello, SetClock, KeysInv, KeysTyped
<1>2. now' \in Int
  BY PrekeysAssumption DEF Hello, SetClock, KeysInv, KeysTyped
<1>3. box' \in [on : {"down", "open", "in"}, keys : PrekeySets]
  BY DEF Hello, SetClock, KeysInv, KeysTyped
<1>4. KeysTyped' /\ Saved' = Saved
  BY <1>1, <1>2, <1>3 DEF KeysInv, KeysTyped, Saved
<1>5. SingleUse'
  BY <1>1 DEF KeysInv, SingleUse
<1> QED
  BY <1>1, <1>4, <1>5 DEF KeysInv

\* Every step keeps the first part of the invariant.
LEMMA KeysStep ==
    ASSUME KeysInv, [Next]_vars
    PROVE  KeysInv'
<1>1. CASE UNCHANGED <<box, disk, now, uses, gone, torn>>
  BY <1>1 DEF KeysInv, KeysTyped, Saved, SingleUse
<1>2. CASE UNCHANGED vars
  BY <1>1, <1>2 DEF vars
<1>3. CASE RelayPublish \/ Replay
  BY <1>1, <1>3 DEF RelayPublish, Replay
<1>4. ASSUME NEW p \in Peers,
             \/ dropSession(p) \/ RelayBundle(p) \/ ForgeBundle(p) \/ ForgeOpener(p)
             \/ requestBundle(p) \/ OnBundle(p) \/ QueueText(p) \/ sendMessage(p)
      PROVE  KeysInv'
  BY <1>1, <1>4 DEF dropSession, RelayBundle, ForgeBundle, ForgeOpener, requestBundle,
                    OnBundle, QueueText, sendMessage
<1> QED
  BY <1>2, <1>3, <1>4, KeysConnect, KeysAck, KeysReceive, KeysCrash,
     KeysDisconnect, KeysHelloClock DEF Next
-----------------------------------------------------------------------------
(* The sessions.                                                            *)

\* Both ends compute the same Diffie-Hellman values: the secret a peer derives
\* from a bundle of Owner is the one Owner derives from the header; if another
\* one-time key was put into the bundle, the first three parts are.
LEMMA SameSecret ==
    ASSUME NEW p, NEW ek, NEW b, b.ik = Ik(Owner), OpkOK(b)
    PROVE  LET A == initiator(p, ek, b)
               B == responder(b.spk, OwnOpk(OpkId(b)), Ik(p), ek)
           IN  /\ ~Splice(b) => A = B
               /\ \A i \in 1..3 : B[i] = A[i]
<1> DEFINE A == initiator(p, ek, b)
           o == OwnOpk(OpkId(b))
           B == responder(b.spk, o, Ik(p), ek)
           d1 == dh(Ik(p), b.spk)
           d2 == dh(ek, b.ik)
           d3 == dh(ek, b.spk)
           d4 == dh(ek, b.opk.key)
           d5 == dh(o, ek)
<1>1. /\ d1 = dh(b.spk, Ik(p)) /\ d2 = dh(Ik(Owner), ek) /\ d3 = dh(b.spk, ek)
      /\ d5 = dh(ek, o)
  BY DEF dh
<1>2. /\ A = <<d1, d2, d3>> \o (IF b.opk = None THEN <<>> ELSE <<d4>>)
      /\ B = <<d1, d2, d3>> \o (IF o = NoKey THEN <<>> ELSE <<d5>>)
  BY <1>1, Zenon DEF initiator, responder
<1>3. ~Splice(b) => (b.opk = None <=> o = NoKey) /\ (b.opk # None => d4 = d5)
  <2>1. CASE b.opk = None
    BY <2>1 DEF OpkId, OwnOpk
  <2>2. CASE b.opk # None /\ ~Splice(b)
    <3>1. o = OwnOpk(b.opk.id) /\ b.opk.key = o
      BY <2>2 DEF OpkId, Splice
    <3>2. b.opk.key.kind = "opk" /\ NoKey.kind = "none"
      BY <2>2 DEF OpkOK, NoKey, Key
    <3>3. o # NoKey
      BY <3>1, <3>2
    <3> HIDE DEF o
    <3> QED BY <1>1, <2>2, <3>1, <3>3
  <2> QED BY <2>1, <2>2
<1> HIDE DEF A, B, o, d1, d2, d3, d4, d5
<1>4. ~Splice(b) => A = B
  BY <1>2, <1>3, Zenon
<1>5. \A i \in 1..3 : B[i] = A[i]
  BY <1>2
<1> QED
  BY <1>4, <1>5 DEF A, B, o

\* The first part of the secret of a peer is its identity and the signed prekey.
LEMMA FirstPart ==
    ASSUME NEW p, NEW ek, NEW b
    PROVE  /\ 1 \in DOMAIN initiator(p, ek, b)
           /\ initiator(p, ek, b)[1] = {Ik(p), b.spk}
<1> DEFINE d1 == dh(Ik(p), b.spk)
           d2 == dh(ek, b.ik)
           d3 == dh(ek, b.spk)
           d4 == dh(ek, b.opk.key)
<1>1. initiator(p, ek, b) = <<d1, d2, d3>> \o (IF b.opk = None THEN <<>> ELSE <<d4>>)
  BY DEF initiator
<1>2. d1 = {Ik(p), b.spk}
  BY DEF dh
<1> HIDE DEF d1, d2, d3, d4
<1> QED BY <1>1, <1>2

\* A key, a bundle and a header have the fields they are made of.
LEMMA Fields ==
    /\ \A kind, of, n : Key(kind, of, n).of = of /\ Key(kind, of, n).n = n
    /\ \A b, ik, spk, sig, opk :
          b = Bundle(ik, spk, sig, opk) => b.ik = ik /\ b.spk = spk /\ b.sig = sig /\ b.opk = opk
    /\ \A p, ek, b :
          LET h == Header(p, ek, b)
          IN h.ik = Ik(p) /\ h.ek = ek /\ h.opk = OpkId(b) /\ h.spk = b.spk
    /\ \A p, h : Frame(p, h).from = p /\ Frame(p, h).hdr = h
BY DEF Key, Bundle, Header, Frame

\* What a bundle that passes verifyBundle says: either it is one of Owner, or
\* the key it names is of Mallory and so is the identity in it.
LEMMA UsableBundle ==
    ASSUME NEW b, NEW p, BundleOK(b), Usable(p, b)
    PROVE  \/ b.ik = Ik(Owner) /\ b.spk.of = Owner /\ b.spk = Key("spk", Owner, b.spk.n)
           \/ b.spk.of = Mallory /\ p \notin Knows
<1>1. b.sig.by = b.ik /\ (p \in Knows => b.ik = Ik(Owner)) /\ (Served(b) \/ Forged(b))
  BY DEF Usable, Bound, verifyBundle, verify, BundleOK
<1>2. CASE Served(b)
  <2>1. b.ik = Ik(Owner) /\ b.spk = Key("spk", Owner, b.spk.n)
    <3> DEFINE I == Ik(Owner)
               K == Key("spk", Owner, b.spk.n)
               S == sign(Ik(Owner), b.spk)
    <3>1. b = Bundle(I, K, S, b.opk)
      BY <1>2 DEF Served
    <3> HIDE DEF I, K, S
    <3>2. b.ik = I /\ b.spk = K
      BY <3>1 DEF Bundle
    <3> QED
      BY <3>2 DEF I, K
  <2>2. b.spk.of = Owner
    BY <2>1, Fields
  <2> QED
    BY <2>1, <2>2
<1>3. CASE Forged(b)
  <2>1. b.spk = Key("spk", Mallory, 1) /\ b.sig = sign(Ik(Mallory), b.spk)
    <3> DEFINE K == Key("spk", Mallory, 1)
               S == sign(Ik(Mallory), b.spk)
    <3>1. b = Bundle(b.ik, K, S, b.opk)
      BY <1>3 DEF Forged
    <3> HIDE DEF K, S
    <3>2. b.spk = K /\ b.sig = S
      BY <3>1 DEF Bundle
    <3> QED
      BY <3>2 DEF K, S
  <2>2. b.spk.of = Mallory
    BY <2>1, Fields
  <2>3. b.sig.by = Ik(Mallory)
    BY <2>1 DEF sign
  <2>4. Ik(Mallory) # Ik(Owner)
    <3>1. Ik(Mallory).of = Mallory /\ Ik(Owner).of = Owner
      BY DEF Ik, Key
    <3> QED
      BY <3>1, PrekeysAssumption
  <2> QED
    BY <1>1, <2>2, <2>3, <2>4
<1> QED
  BY <1>1, <1>2, <1>3

\* Secrets and the marks of what the relay did are only ever added, so what
\* headers say stays true.
LEMMA AgreesKept ==
    ASSUME NEW p \in Peers, NEW s, NEW D, NEW E, NEW S, NEW T,
           Agrees(p, s, D, S), D[p] \subseteq E[p], S \subseteq T
    PROVE  Agrees(p, s, E, T)
BY DEF Agrees

LEMMA HeaderKept ==
    ASSUME NEW p \in Peers, NEW h, NEW D, NEW E, NEW S, NEW T, NEW I, NEW J,
           HeaderOK(p, h, D, S, I), D[p] \subseteq E[p], S \subseteq T, I \subseteq J
    PROVE  HeaderOK(p, h, E, T, J)
<1>1. \A s : Agrees(p, s, D, S) => Agrees(p, s, E, T)
  BY AgreesKept
<1> QED
  BY <1>1, Zenon DEF HeaderOK

\* Sequences, whatever they hold.
LEMMA SeqFacts ==
    ASSUME NEW s, s \in Seq(Range(s))
    PROVE  /\ \A x : /\ Append(s, x) \in Seq(Range(Append(s, x)))
                     /\ \A i \in DOMAIN Append(s, x) :
                            Append(s, x)[i] = x \/ \E j \in DOMAIN s : Append(s, x)[i] = s[j]
           /\ s # <<>> =>
                 /\ Tail(s) \in Seq(Range(Tail(s)))
                 /\ \A i \in DOMAIN Tail(s) : \E j \in DOMAIN s : Tail(s)[i] = s[j]
                 /\ 1 \in DOMAIN s /\ Head(s) = s[1]
<1> DEFINE R == Range(s)
<1>0. s \in Seq(R) /\ Len(s) \in Nat /\ DOMAIN s = 1..Len(s)
  OBVIOUS
<1> HIDE DEF R
<1>1. ASSUME NEW x
      PROVE  /\ Append(s, x) \in Seq(Range(Append(s, x)))
             /\ \A i \in DOMAIN Append(s, x) :
                    Append(s, x)[i] = x \/ \E j \in DOMAIN s : Append(s, x)[i] = s[j]
  <2> DEFINE a == Append(s, x)
  <2>1. a \in Seq(R \cup {x}) /\ Len(a) = Len(s) + 1
    <3>1. s \in Seq(R \cup {x})
      BY <1>0
    <3> QED
      BY <3>1
  <2>2. \A i \in DOMAIN a : a[i] = IF i \in DOMAIN s THEN s[i] ELSE x
    BY <1>0, <2>1
  <2>3. a \in Seq(Range(a))
    <3> HIDE DEF a
    <3>1. \A i \in 1..Len(a) : a[i] \in Range(a)
      BY <2>1 DEF Range
    <3>2. a = [i \in 1..Len(a) |-> a[i]] /\ Len(a) \in Nat
      BY <2>1
    <3> QED
      BY <3>1, <3>2
  <2> QED
    BY <2>2, <2>3
<1>2. ASSUME s # <<>>
      PROVE  /\ Tail(s) \in Seq(Range(Tail(s)))
             /\ \A i \in DOMAIN Tail(s) : \E j \in DOMAIN s : Tail(s)[i] = s[j]
             /\ 1 \in DOMAIN s /\ Head(s) = s[1]
  <2> DEFINE t == Tail(s)
  <2>1. t \in Seq(R) /\ Len(t) = Len(s) - 1 /\ \A i \in 1..Len(t) : t[i] = s[i + 1]
    BY <1>0, <1>2
  <2>2. 1 \in DOMAIN s /\ Head(s) = s[1]
    BY <1>0, <1>2
  <2> HIDE DEF t
  <2>3. \A i \in DOMAIN t : t[i] = s[i + 1] /\ i + 1 \in DOMAIN s
    BY <1>0, <2>1
  <2>4. t \in Seq(Range(t))
    <3>1. \A i \in 1..Len(t) : t[i] \in Range(t)
      BY <2>1 DEF Range
    <3>2. t = [i \in 1..Len(t) |-> t[i]] /\ Len(t) \in Nat
      BY <2>1
    <3> QED
      BY <3>1, <3>2
  <2> QED
    BY <2>2, <2>3, <2>4 DEF t
<1> QED
  BY <1>1, <1>2
\* What a step may do to replies, headers, frames and sessions.
LEMMA SessionsMoved ==
    ASSUME SessionsInv, SessionsTyped',
           \A p \in Peers : derived[p] \subseteq derived'[p],
           spliced \subseteq spliced', imposed \subseteq imposed',
           \A p \in Knows : \A k \in derived'[p] : k \in derived[p] \/ ~RelayKnows(k),
           \A p \in Peers : \/ peer'[p].reply \in {peer[p].reply, <<>>}
                            \/ BundleOK(Head(peer'[p].reply)),
           \A p \in Peers : \/ peer'[p].hdr \in {peer[p].hdr, None}
                            \/ HeaderOK(p, peer'[p].hdr, derived', spliced', imposed'),
           \A i \in DOMAIN mail' : \/ \E j \in DOMAIN mail : mail'[i] = mail[j]
                                   \/ FrameOK(mail'[i], derived', spliced', imposed'),
           \A p \in Peers : \/ sess'[p] \in {sess[p], None, Legacy(p)}
                            \/ p \in imposed
                            \/ Agrees(p, sess'[p], derived, spliced)
    PROVE  SessionsInv'
<1>1. \A p \in Peers : peer'[p].reply # <<>> => BundleOK(Head(peer'[p].reply))
  <2> SUFFICES ASSUME NEW p \in Peers, peer'[p].reply # <<>> PROVE BundleOK(Head(peer'[p].reply))
    OBVIOUS
  <2>1. peer[p].reply # <<>> => BundleOK(Head(peer[p].reply))
    BY DEF SessionsInv
  <2> QED
    BY <2>1
<1>2. \A p \in Peers : \A h : HeaderOK(p, h, derived, spliced, imposed)
                                 => HeaderOK(p, h, derived', spliced', imposed')
  BY HeaderKept
<1>3. ASSUME NEW p \in Peers PROVE HeaderOK(p, peer'[p].hdr, derived', spliced', imposed')
  <2>1. CASE peer'[p].hdr = peer[p].hdr
    <3>1. HeaderOK(p, peer[p].hdr, derived, spliced, imposed)
      BY DEF SessionsInv
    <3> QED
      BY <1>2, <2>1, <3>1
  <2>2. CASE peer'[p].hdr = None
    BY <2>2 DEF HeaderOK
  <2> QED
    BY <2>1, <2>2
<1>4. ASSUME NEW i \in DOMAIN mail' PROVE FrameOK(mail'[i], derived', spliced', imposed')
  <2>1. CASE \E j \in DOMAIN mail : mail'[i] = mail[j]
    <3>1. PICK j \in DOMAIN mail : mail'[i] = mail[j]
      BY <2>1
    <3>2. FrameOK(mail[j], derived, spliced, imposed)
      BY DEF SessionsInv
    <3> QED
      BY <1>2, <3>1, <3>2 DEF FrameOK
  <2> QED
    BY <2>1
<1>5. SecretsAgree'
  <2> SUFFICES ASSUME NEW p \in Peers, p \notin imposed'
               PROVE  sess'[p] \in {None, Legacy(p)} \/ Agrees(p, sess'[p], derived', spliced')
    BY DEF SecretsAgree, Agrees
  <2>1. sess[p] \in {None, Legacy(p)} \/ Agrees(p, sess[p], derived, spliced)
    BY DEF SessionsInv, SecretsAgree, Agrees
  <2>2. \A s : Agrees(p, s, derived, spliced) => Agrees(p, s, derived', spliced')
    BY AgreesKept
  <2> QED
    BY <2>1, <2>2
<1>6. AuthenticOpen'
  <2>1. \A p \in Knows : \A k \in derived[p] : ~RelayKnows(k)
    BY DEF SessionsInv, AuthenticOpen
  <2> QED
    BY <2>1, PrekeysAssumption DEF AuthenticOpen
<1>7. /\ \A p \in Peers : HeaderOK(p, peer'[p].hdr, derived', spliced', imposed')
      /\ \A i \in DOMAIN mail' : FrameOK(mail'[i], derived', spliced', imposed')
  BY <1>3, <1>4
<1> QED
  BY <1>1, <1>5, <1>6, <1>7 DEF SessionsInv
\* An update of one client leaves the others alone.
LEMMA ClientUpdate ==
    ASSUME SessionsTyped, NEW p \in Peers, NEW c,
           ClientTyped(c), peer' = [peer EXCEPT ![p] = c]
    PROVE  /\ peer' = [q \in Peers |-> peer'[q]]
           /\ \A q \in Peers : ClientTyped(peer'[q])
           /\ peer'[p] = c
           /\ \A q \in Peers \ {p} : peer'[q] = peer[q]
<1>1. peer = [q \in Peers |-> peer[q]] /\ \A q \in Peers : ClientTyped(peer[q])
  BY DEF SessionsTyped
<1>2. peer' = [q \in Peers |-> IF q = p THEN c ELSE peer[q]]
  BY <1>1
<1>3. \A q \in Peers : peer'[q] = IF q = p THEN c ELSE peer[q]
  BY <1>2
<1>4. \A q \in Peers : ClientTyped(peer'[q])
  BY <1>1, <1>3
<1>5. peer' = [q \in Peers |-> peer'[q]]
  BY <1>2
<1> QED
  BY <1>3, <1>4, <1>5

\* Updates of single fields of a client.
LEMMA ClientFields ==
    ASSUME NEW c, NEW a, NEW r, NEW k, NEW h, NEW q, NEW e, c = Client(a, r, k, h, q, e)
    PROVE  /\ \A x : [c EXCEPT !.asked = x] = Client(x, r, k, h, q, e)
           /\ \A x : [c EXCEPT !.reply = x] = Client(a, x, k, h, q, e)
           /\ \A x : [c EXCEPT !.key = x] = Client(a, r, x, h, q, e)
           /\ \A x : [c EXCEPT !.hdr = x] = Client(a, r, k, x, q, e)
           /\ \A x : [c EXCEPT !.queued = x] = Client(a, r, k, h, x, e)
           /\ \A x : [c EXCEPT !.eks = x] = Client(a, r, k, h, q, x)
BY DEF Client

\* The update of a client that has opened a session.
LEMMA OpenedClient ==
    ASSUME NEW c, ClientTyped(c), NEW x1, NEW x2, NEW x4, NEW x5
    PROVE  [c EXCEPT !.reply = x1, !.key = x2, !.eks = @ + 1, !.hdr = x4, !.queued = x5]
               = Client(c.asked, x1, x2, x4, x5, c.eks + 1)
<1> DEFINE a == c.asked
           r == c.reply
           k == c.key
           h == c.hdr
           q == c.queued
           e == c.eks
<1>1. c = Client(a, r, k, h, q, e)
  BY DEF ClientTyped
<1> HIDE DEF a, r, k, h, q, e
<1> DEFINE c1 == [c EXCEPT !.reply = x1]
           c2 == [c1 EXCEPT !.key = x2]
           c3 == [c2 EXCEPT !.eks = @ + 1]
           c4 == [c3 EXCEPT !.hdr = x4]
           c5 == [c4 EXCEPT !.queued = x5]
<1>2. c1 = Client(a, x1, k, h, q, e)
  BY <1>1, ClientFields
<1> HIDE DEF c1
<1>3. c2 = Client(a, x1, x2, h, q, e)
  BY <1>2, ClientFields
<1> HIDE DEF c2
<1>4. c2.eks = e
  BY <1>3 DEF Client
<1>5. c3 = Client(a, x1, x2, h, q, e + 1)
  BY <1>3, <1>4, ClientFields
<1> HIDE DEF c3
<1>6. c4 = Client(a, x1, x2, x4, q, e + 1)
  BY <1>5, ClientFields
<1> HIDE DEF c4
<1>7. c5 = Client(a, x1, x2, x4, x5, e + 1)
  BY <1>6, ClientFields
<1>8. [c EXCEPT !.reply = x1, !.key = x2, !.eks = @ + 1, !.hdr = x4, !.queued = x5] = c5
  BY <1>4 DEF c1, c2, c3, c4
<1> HIDE DEF c5
<1> QED
  BY <1>7, <1>8 DEF a, e

\* The same, of a client in its place among the peers.
LEMMA FieldUpdates ==
    ASSUME NEW P, P = [x \in Peers |-> P[x]], NEW p \in Peers, ClientTyped(P[p])
    PROVE  LET c == P[p]
           IN /\ \A x : [P EXCEPT ![p].asked = x]
                          = [P EXCEPT ![p] = Client(x, c.reply, c.key, c.hdr, c.queued, c.eks)]
              /\ \A x : [P EXCEPT ![p].reply = x]
                          = [P EXCEPT ![p] = Client(c.asked, x, c.key, c.hdr, c.queued, c.eks)]
              /\ \A x : [P EXCEPT ![p].hdr = x]
                          = [P EXCEPT ![p] = Client(c.asked, c.reply, c.key, x, c.queued, c.eks)]
              /\ \A x : [P EXCEPT ![p].queued = x]
                          = [P EXCEPT ![p] = Client(c.asked, c.reply, c.key, c.hdr, x, c.eks)]
              /\ \A x, y : [P EXCEPT ![p].asked = x, ![p].reply = y]
                          = [P EXCEPT ![p] = Client(x, y, c.key, c.hdr, c.queued, c.eks)]
<1> DEFINE a == P[p].asked
           r == P[p].reply
           k == P[p].key
           h == P[p].hdr
           q == P[p].queued
           e == P[p].eks
<1>0. P[p] = Client(a, r, k, h, q, e)
  BY DEF ClientTyped
<1> HIDE DEF a, r, k, h, q, e
<1> DEFINE c == P[p]
<1>1. /\ \A x : [c EXCEPT !.asked = x] = Client(x, r, k, h, q, e)
      /\ \A x : [c EXCEPT !.reply = x] = Client(a, x, k, h, q, e)
      /\ \A x : [c EXCEPT !.hdr = x] = Client(a, r, k, x, q, e)
      /\ \A x : [c EXCEPT !.queued = x] = Client(a, r, k, h, x, e)
  BY <1>0, ClientFields
<1>2. ASSUME NEW x, NEW y
      PROVE [P EXCEPT ![p].asked = x, ![p].reply = y] = [P EXCEPT ![p] = Client(x, y, k, h, q, e)]
  <2> DEFINE Q == [P EXCEPT ![p].asked = x]
  <2>1. Q = [P EXCEPT ![p] = Client(x, r, k, h, q, e)]
    BY <1>1
  <2> HIDE DEF Q
  <2>2. Q = [z \in Peers |-> Q[z]] /\ Q[p] = Client(x, r, k, h, q, e)
    BY <2>1
  <2>3. [Q[p] EXCEPT !.reply = y] = Client(x, y, k, h, q, e)
    BY <2>2, ClientFields
  <2>4. [Q EXCEPT ![p].reply = y] = [Q EXCEPT ![p] = Client(x, y, k, h, q, e)]
    BY <2>3
  <2>5. [Q EXCEPT ![p] = Client(x, y, k, h, q, e)] = [P EXCEPT ![p] = Client(x, y, k, h, q, e)]
    BY <2>1
  <2>6. [P EXCEPT ![p].asked = x, ![p].reply = y] = [Q EXCEPT ![p].reply = y]
    BY DEF Q
  <2> QED
    BY <2>4, <2>5, <2>6
<1>3. /\ \A x : [P EXCEPT ![p].asked = x] = [P EXCEPT ![p] = Client(x, r, k, h, q, e)]
      /\ \A x : [P EXCEPT ![p].reply = x] = [P EXCEPT ![p] = Client(a, x, k, h, q, e)]
      /\ \A x : [P EXCEPT ![p].hdr = x] = [P EXCEPT ![p] = Client(a, r, k, x, q, e)]
      /\ \A x : [P EXCEPT ![p].queued = x] = [P EXCEPT ![p] = Client(a, r, k, h, x, e)]
      /\ \A x, y : [P EXCEPT ![p].asked = x, ![p].reply = y]
                        = [P EXCEPT ![p] = Client(x, y, k, h, q, e)]
  BY <1>1, <1>2, Zenon
<1> QED
  BY <1>3, Zenon DEF a, r, k, h, q, e

\* Frames that join the mail or leave it.
LEMMA MailMoves ==
    ASSUME SessionsTyped
    PROVE  /\ \A x : mail' = Append(mail, x) =>
                 /\ mail' \in Seq(Range(mail'))
                 /\ \A i \in DOMAIN mail' : mail'[i] = x \/ \E j \in DOMAIN mail : mail'[i] = mail[j]
           /\ mail # <<>> /\ mail' = Tail(mail) =>
                 /\ mail' \in Seq(Range(mail'))
                 /\ \A i \in DOMAIN mail' : \E j \in DOMAIN mail : mail'[i] = mail[j]
           /\ mail # <<>> => \E j \in DOMAIN mail : Head(mail) = mail[j]
<1>1. mail \in Seq(Range(mail))
  BY DEF SessionsTyped
<1>2. /\ \A x : /\ Append(mail, x) \in Seq(Range(Append(mail, x)))
                /\ \A i \in DOMAIN Append(mail, x) :
                      Append(mail, x)[i] = x \/ \E j \in DOMAIN mail : Append(mail, x)[i] = mail[j]
      /\ mail # <<>> =>
            /\ Tail(mail) \in Seq(Range(Tail(mail)))
            /\ \A i \in DOMAIN Tail(mail) : \E j \in DOMAIN mail : Tail(mail)[i] = mail[j]
            /\ 1 \in DOMAIN mail /\ Head(mail) = mail[1]
  BY <1>1, SeqFacts
<1>3. ASSUME NEW x, mail' = Append(mail, x)
      PROVE  /\ mail' \in Seq(Range(mail'))
             /\ \A i \in DOMAIN mail' : mail'[i] = x \/ \E j \in DOMAIN mail : mail'[i] = mail[j]
  BY <1>2, <1>3
<1>4. ASSUME mail # <<>>, mail' = Tail(mail)
      PROVE  /\ mail' \in Seq(Range(mail'))
             /\ \A i \in DOMAIN mail' : \E j \in DOMAIN mail : mail'[i] = mail[j]
  BY <1>2, <1>4
<1>5. mail # <<>> => \E j \in DOMAIN mail : Head(mail) = mail[j]
  BY <1>2
<1> QED
  BY <1>3, <1>4, <1>5, Zenon

\* There are no sessions, headers or frames at first.
LEMMA SessionsInit == Init => SessionsInv
<1> SUFFICES ASSUME Init PROVE SessionsInv
  OBVIOUS
<1>1. /\ sess = [p \in Peers |-> None] /\ derived = [p \in Peers |-> {}] /\ mail = <<>>
      /\ peer = [p \in Peers |-> Client(FALSE, <<>>, None, None, FALSE, 0)]
  BY DEF Init, Client
<1>2. \A p \in Peers : peer[p] = Client(FALSE, <<>>, None, None, FALSE, 0)
  BY <1>1
<1>3. \A p \in Peers : peer[p].reply = <<>> /\ peer[p].hdr = None /\ ClientTyped(peer[p])
  BY <1>2 DEF Client, ClientTyped
<1>4. SessionsTyped
  <2>1. <<>> \in Seq(Range(<<>>))
    OBVIOUS
  <2>2. sess = [p \in Peers |-> sess[p]] /\ derived = [p \in Peers |-> derived[p]]
    BY <1>1
  <2>3. peer = [p \in Peers |-> peer[p]]
    BY <1>1
  <2> QED
    BY <1>1, <1>3, <2>1, <2>2, <2>3 DEF SessionsTyped
<1>5. \A p \in Peers : HeaderOK(p, peer[p].hdr, derived, spliced, imposed)
  BY <1>3 DEF HeaderOK
<1>6. SecretsAgree /\ AuthenticOpen
  BY <1>1, <1>3, PrekeysAssumption DEF SecretsAgree, AuthenticOpen
<1>7. \A i \in DOMAIN mail : FrameOK(mail[i], derived, spliced, imposed)
  BY <1>1
<1> QED
  BY <1>3, <1>4, <1>5, <1>6, <1>7 DEF SessionsInv
\* Owner drops a session, or a frame is delivered once more.
LEMMA SessionsDrop ==
    ASSUME SessionsInv, NEW p \in Peers, dropSession(p)
    PROVE  SessionsInv'
<1>1. UNCHANGED <<peer, mail, derived, spliced, imposed>> /\ sess' = [sess EXCEPT ![p] = None]
  BY DEF dropSession, tampered
<1>2. SessionsTyped
  BY DEF SessionsInv
<1>3. sess' = [q \in Peers |-> IF q = p THEN None ELSE sess[q]]
  BY <1>1, <1>2 DEF SessionsTyped
<1>4. /\ \A q \in Peers : sess'[q] \in {sess[q], None}
      /\ sess' = [q \in Peers |-> sess'[q]]
  BY <1>3
<1>5. SessionsTyped'
  BY <1>1, <1>2, <1>4 DEF SessionsTyped
<1> QED
  BY <1>1, <1>4, <1>5, SessionsMoved

\* The relay delivers a stored frame once more.
LEMMA SessionsReplay ==
    ASSUME SessionsInv, Replay
    PROVE  SessionsInv'
<1>1. /\ UNCHANGED <<peer, sess, derived, spliced, imposed>> /\ mail # <<>>
      /\ mail' = Append(mail, Head(mail))
  BY DEF Replay, tampered
<1>2. SessionsTyped
  BY DEF SessionsInv
<1>3. PICK j \in DOMAIN mail : Head(mail) = mail[j]
  BY <1>1, <1>2, MailMoves
<1>4. /\ mail' \in Seq(Range(mail'))
      /\ \A i \in DOMAIN mail' :
            mail'[i] = Head(mail) \/ \E n \in DOMAIN mail : mail'[i] = mail[n]
  BY <1>1, <1>2, MailMoves
<1>5. \A i \in DOMAIN mail' : \E n \in DOMAIN mail : mail'[i] = mail[n]
  BY <1>3, <1>4
<1>6. SessionsTyped'
  BY <1>1, <1>2, <1>4 DEF SessionsTyped
<1> QED
  BY <1>1, <1>5, <1>6, SessionsMoved

\* Owner receives a frame.  The key it answers an opener with is the one the
\* header names, so the secret is the one its sender has derived; or the relay
\* wrote the header.  The session is the same if the process then ends.
LEMMA SessionsReceive ==
    ASSUME SessionsInv, ReceiveMsg \/ CrashOpening
    PROVE  SessionsInv'
<1> DEFINE f == Head(mail)
           h == f.hdr
<1>1. UNCHANGED <<peer, derived, spliced, imposed>> /\ mail # <<>> /\ mail' = Tail(mail)
  BY DEF ReceiveMsg, CrashOpening, tampered
<1>2. SessionsTyped
  BY DEF SessionsInv
<1>3. /\ mail' \in Seq(Range(mail'))
      /\ \A i \in DOMAIN mail' : \E n \in DOMAIN mail : mail'[i] = mail[n]
  BY <1>1, <1>2, MailMoves
<1>4. f.from \in Peers /\ HeaderOK(f.from, h, derived, spliced, imposed)
  <2>1. PICK j \in DOMAIN mail : f = mail[j]
    BY <1>1, <1>2, MailMoves
  <2> QED
    BY <2>1 DEF SessionsInv, FrameOK
<1>5. \/ sess' = sess
      \/ sess' = [sess EXCEPT ![f.from] = Legacy(f.from)]
      \/ /\ h # None /\ Acceptable(box.keys, h)
         /\ sess' = [sess EXCEPT ![f.from] = SecretOf(box.keys, h)]
  BY DEF ReceiveMsg, CrashOpening, OpenSession, Opener
<1>6. ASSUME h # None, Acceptable(box.keys, h), f.from \notin imposed
      PROVE  Agrees(f.from, SecretOf(box.keys, h), derived, spliced)
  <2>0. h.spk # NoKey
    BY <1>4, <1>6 DEF HeaderOK
  <2>1. h.spk.of = Owner /\ SpkFor(box.keys, h) = h.spk.n
    BY <1>6, <2>0 DEF Acceptable, SpkFor
  <2>2. /\ h.spk = Key("spk", Owner, h.spk.n)
        /\ Agrees(f.from, responder(h.spk, OwnOpk(h.opk), h.ik, h.ek), derived, spliced)
    BY <1>4, <1>6, <2>1 DEF HeaderOK
  <2>3. SecretOf(box.keys, h) = responder(Key("spk", Owner, h.spk.n), OwnOpk(h.opk), h.ik, h.ek)
    BY <2>1 DEF SecretOf
  <2> HIDE DEF f, h
  <2> QED
    BY <2>2, <2>3
<1> DEFINE Good(x) == \/ x = Legacy(f.from) \/ f.from \in imposed
                      \/ Agrees(f.from, x, derived, spliced)
<1>7. \/ sess' = sess
      \/ \E x : Good(x) /\ sess' = [sess EXCEPT ![f.from] = x]
  <2>1. Good(Legacy(f.from)) /\ (h # None /\ Acceptable(box.keys, h) => Good(SecretOf(box.keys, h)))
    BY <1>6
  <2> HIDE DEF Good, f, h
  <2> QED BY <1>5, <2>1
<1> HIDE DEF f, h
<1>8. /\ \A q \in Peers : \/ sess'[q] \in {sess[q], Legacy(q)} \/ q \in imposed
                          \/ Agrees(q, sess'[q], derived, spliced)
      /\ sess' = [q \in Peers |-> sess'[q]]
  <2>1. CASE sess' = sess
    BY <1>2, <2>1 DEF SessionsTyped
  <2>2. ASSUME NEW x, Good(x), sess' = [sess EXCEPT ![f.from] = x]
        PROVE  /\ \A q \in Peers : \/ sess'[q] \in {sess[q], Legacy(q)} \/ q \in imposed
                                   \/ Agrees(q, sess'[q], derived, spliced)
               /\ sess' = [q \in Peers |-> sess'[q]]
    <3>1. sess' = [q \in Peers |-> IF q = f.from THEN x ELSE sess[q]]
      BY <1>2, <2>2 DEF SessionsTyped
    <3>2. \A q \in Peers : sess'[q] = IF q = f.from THEN x ELSE sess[q]
      BY <3>1
    <3>3. sess' = [q \in Peers |-> sess'[q]]
      BY <3>1
    <3> QED
      BY <2>2, <3>2, <3>3
  <2> QED
    BY <1>7, <2>1, <2>2
<1>9. SessionsTyped'
  BY <1>1, <1>2, <1>3, <1>8 DEF SessionsTyped
<1> QED
  BY <1>1, <1>3, <1>8, <1>9, SessionsMoved

\* The relay writes an opener in the name of a peer.
LEMMA SessionsForge ==
    ASSUME SessionsInv, NEW p \in Peers, ForgeOpener(p)
    PROVE  SessionsInv'
<1>1. /\ UNCHANGED <<peer, sess, derived, spliced>> /\ imposed' = imposed \cup {p}
      /\ \E h : mail' = Append(mail, Frame(p, h))
  BY DEF ForgeOpener
<1>2. PICK h : mail' = Append(mail, Frame(p, h))
  BY <1>1
<1>3. SessionsTyped
  BY DEF SessionsInv
<1> DEFINE f == Frame(p, h)
<1>4. FrameOK(f, derived', spliced', imposed')
  <2>1. f.from = p
    BY DEF Frame
  <2> HIDE DEF f
  <2> QED BY <1>1, <2>1 DEF FrameOK, HeaderOK
<1> HIDE DEF f
<1>5. /\ mail' \in Seq(Range(mail'))
      /\ \A i \in DOMAIN mail' : mail'[i] = f \/ \E n \in DOMAIN mail : mail'[i] = mail[n]
  BY <1>2, <1>3, MailMoves DEF f
<1>6. SessionsTyped'
  BY <1>1, <1>3, <1>5 DEF SessionsTyped
<1>7. \A i \in DOMAIN mail' : \/ \E j \in DOMAIN mail : mail'[i] = mail[j]
                              \/ FrameOK(mail'[i], derived', spliced', imposed')
  BY <1>4, <1>5
<1> QED
  BY <1>1, <1>6, <1>7, SessionsMoved

\* A peer asks for a bundle, composes a text, or is sent a bundle: one that the
\* relay has assembled or one that it has made up.
LEMMA SessionsReply ==
    ASSUME SessionsInv, NEW p \in Peers,
           requestBundle(p) \/ QueueText(p) \/ RelayBundle(p) \/ ForgeBundle(p)
    PROVE  SessionsInv'
<1> DEFINE c == peer[p]
<1>1. UNCHANGED <<sess, mail, derived, spliced, imposed>>
  BY DEF requestBundle, QueueText, RelayBundle, ForgeBundle, tampered
<1>2. SessionsTyped /\ peer = [q \in Peers |-> peer[q]]
  BY DEF SessionsInv, SessionsTyped
<1>3. c = Client(c.asked, c.reply, c.key, c.hdr, c.queued, c.eks)
  BY <1>2 DEF SessionsTyped, ClientTyped
<1>F. /\ \A x : [peer EXCEPT ![p].asked = x]
                  = [peer EXCEPT ![p] = Client(x, c.reply, c.key, c.hdr, c.queued, c.eks)]
      /\ \A x : [peer EXCEPT ![p].queued = x]
                  = [peer EXCEPT ![p] = Client(c.asked, c.reply, c.key, c.hdr, x, c.eks)]
      /\ \A x, y : [peer EXCEPT ![p].asked = x, ![p].reply = y]
                  = [peer EXCEPT ![p] = Client(x, y, c.key, c.hdr, c.queued, c.eks)]
  <2>1. ClientTyped(peer[p])
    BY <1>2 DEF SessionsTyped
  <2> QED
    BY <1>2, <2>1, FieldUpdates, Zenon
<1>4. \E a, r, q :
         /\ peer' = [peer EXCEPT ![p] = Client(a, r, c.key, c.hdr, q, c.eks)]
         /\ r = c.reply \/ BundleOK(Head(r))
  <2>1. CASE requestBundle(p)
    <3>1. peer' = [peer EXCEPT ![p] = Client(TRUE, c.reply, c.key, c.hdr, c.queued, c.eks)]
      BY <1>F, <2>1, Zenon DEF requestBundle
    <3> QED
      BY <3>1
  <2>2. CASE QueueText(p)
    <3>1. peer' = [peer EXCEPT ![p] = Client(c.asked, c.reply, c.key, c.hdr, TRUE, c.eks)]
      BY <1>F, <2>2, Zenon DEF QueueText
    <3> QED
      BY <3>1
  <2>3. CASE RelayBundle(p)
    <3> DEFINE b == IF store.spk = None THEN None ELSE ServedBundle
    <3>1. peer' = [peer EXCEPT ![p].asked = FALSE, ![p].reply = <<b>>]
      BY <2>3 DEF RelayBundle
    <3>2. BundleOK(b)
      <4> DEFINE s == Key("spk", Owner, store.spk)
                 I == Ik(Owner)
                 S == sign(I, s)
                 o == IF store.pool = {} THEN None ELSE Opk(Min(store.pool), Owner, Min(store.pool))
      <4>1. ServedBundle = Bundle(I, s, S, o)
        BY DEF ServedBundle
      <4>1a. o = None \/ o.key.kind = "opk"
        BY DEF Opk, Key
      <4>2. s.n = store.spk
        BY DEF Key
      <4> HIDE DEF o, I, s, S
      <4>3. ServedBundle.spk = s /\ ServedBundle.opk = o
        BY <4>1 DEF Bundle
      <4>4. Served(ServedBundle)
        BY <4>1, <4>2, <4>3, Zenon DEF Served, I, s, S
      <4> QED
        BY <4>1a, <4>3, <4>4 DEF BundleOK, OpkOK
    <3> HIDE DEF b
    <3>3. peer' = [peer EXCEPT ![p] = Client(FALSE, <<b>>, c.key, c.hdr, c.queued, c.eks)]
      BY <1>F, <3>1, Zenon
    <3>4. Head(<<b>>) = b
      OBVIOUS
    <3> QED
      BY <3>2, <3>3, <3>4
  <2>4. CASE ForgeBundle(p)
    <3>1. PICK m \in ForgedSpks \cup GenuineSpks, o \in ForgedOpks :
              peer' = [peer EXCEPT ![p].asked = FALSE, ![p].reply = <<[m EXCEPT !.opk = o]>>]
      BY <2>4 DEF ForgeBundle
    <3> DEFINE b == [m EXCEPT !.opk = o]
    <3>2. BundleOK(b)
      <4>1. o = None \/ o.key.kind = "opk"
        BY DEF ForgedOpks, Opk, Key
      <4>2. ASSUME NEW ik, NEW s, NEW S, m = Bundle(ik, s, S, None)
            PROVE  b = Bundle(ik, s, S, o) /\ b.ik = ik /\ b.spk = s /\ b.opk = o
        BY <4>2 DEF Bundle
      <4>3. CASE m \in ForgedSpks
        <5> DEFINE s == Key("spk", Mallory, 1)
                   S == sign(Ik(Mallory), s)
        <5>1. PICK ik : m = Bundle(ik, s, S, None)
          BY <4>3 DEF ForgedSpks
        <5> HIDE DEF s, S, b
        <5>2. b = Bundle(ik, s, S, o) /\ b.ik = ik /\ b.spk = s /\ b.opk = o
          BY <4>2, <5>1
        <5>3. Forged(b)
          BY <5>2, Zenon DEF Forged, s, S
        <5> QED BY <4>1, <5>2, <5>3 DEF BundleOK, OpkOK
      <4>4. CASE m \in GenuineSpks
        <5>1. PICK n : m = Bundle(Ik(Owner), Key("spk", Owner, n),
                                  sign(Ik(Owner), Key("spk", Owner, n)), None)
          BY <4>4, Zenon DEF GenuineSpks
        <5> DEFINE I == Ik(Owner)
                   s == Key("spk", Owner, n)
                   S == sign(I, s)
        <5>2. s.n = n
          BY DEF Key
        <5> HIDE DEF s, S, I, b
        <5>3. m = Bundle(I, s, S, None)
          BY <5>1, Zenon DEF I, s, S
        <5>4. b = Bundle(I, s, S, o) /\ b.spk = s /\ b.opk = o
          BY <4>2, <5>3
        <5>5. Served(b)
          BY <5>2, <5>4, Zenon DEF Served, I, s, S
        <5> QED BY <4>1, <5>4, <5>5 DEF BundleOK, OpkOK
      <4> QED BY <4>3, <4>4
    <3> HIDE DEF b
    <3>3. peer' = [peer EXCEPT ![p].asked = FALSE, ![p].reply = <<b>>]
      BY <3>1 DEF b
    <3>4. peer' = [peer EXCEPT ![p] = Client(FALSE, <<b>>, c.key, c.hdr, c.queued, c.eks)]
      BY <1>F, <3>3, Zenon
    <3>5. Head(<<b>>) = b
      OBVIOUS
    <3> QED
      BY <3>2, <3>4, <3>5
  <2> QED
    BY <2>1, <2>2, <2>3, <2>4
<1>5. PICK a, r, q :
         /\ peer' = [peer EXCEPT ![p] = Client(a, r, c.key, c.hdr, q, c.eks)]
         /\ r = c.reply \/ BundleOK(Head(r))
  BY <1>4
<1> DEFINE d == Client(a, r, c.key, c.hdr, q, c.eks)
<1>6. ClientTyped(d) /\ d.reply = r /\ d.hdr = c.hdr
  BY DEF Client, ClientTyped
<1> HIDE DEF d
<1>7. /\ peer' = [x \in Peers |-> peer'[x]]
      /\ \A x \in Peers : ClientTyped(peer'[x])
      /\ peer'[p] = d
      /\ \A x \in Peers \ {p} : peer'[x] = peer[x]
  <2>1. peer' = [peer EXCEPT ![p] = d]
    BY <1>5 DEF d
  <2> QED
    BY <1>2, <1>6, <2>1, ClientUpdate
<1>8. \A x \in Peers : /\ \/ peer'[x].reply \in {peer[x].reply, <<>>}
                          \/ BundleOK(Head(peer'[x].reply))
                       /\ peer'[x].hdr = peer[x].hdr
  BY <1>5, <1>6, <1>7
<1>9. SessionsTyped'
  BY <1>1, <1>2, <1>7 DEF SessionsTyped
<1> QED
  BY <1>1, <1>8, <1>9, SessionsMoved
\* The signed prekey of a bundle is one of a kind of its own.
LEMMA SpkIsKey ==
    ASSUME NEW b, Served(b) \/ Forged(b)
    PROVE  \E of, n : b.spk = Key("spk", of, n)
<1>1. ASSUME NEW I, NEW K, NEW S, NEW o, b = Bundle(I, K, S, o)
      PROVE  b.spk = K
  BY <1>1 DEF Bundle
<1>2. CASE Served(b)
  <2>1. b.spk = Key("spk", Owner, b.spk.n)
    BY <1>1, <1>2, Zenon DEF Served
  <2> QED BY <2>1, Zenon
<1>3. CASE Forged(b)
  <2>1. b.spk = Key("spk", Mallory, 1)
    BY <1>1, <1>3, Zenon DEF Forged
  <2> QED BY <2>1, Zenon
<1> QED BY <1>2, <1>3

\* bundle: a peer that finds a bundle usable derives the secret, and its header
\* is one from which Owner derives the same secret, or names no key of Owner.
LEMMA SessionsBundle ==
    ASSUME SessionsInv, NEW p \in Peers, OnBundle(p)
    PROVE  SessionsInv'
<1> DEFINE c == peer[p]
           b == Head(c.reply)
           ek == Key("ek", p, c.eks)
           key == initiator(p, ek, b)
           h == Header(p, ek, b)
<1>1. UNCHANGED <<sess, imposed>> /\ c.reply # <<>>
  BY DEF OnBundle
<1>2. SessionsTyped /\ peer = [q \in Peers |-> peer[q]] /\ derived = [q \in Peers |-> derived[q]]
  BY DEF SessionsInv, SessionsTyped
<1>3. ClientTyped(c)
  BY <1>2 DEF SessionsTyped
<1>4. BundleOK(b)
  BY <1>1 DEF SessionsInv
<1>5. CASE /\ ~Usable(p, b)
           /\ peer' = [peer EXCEPT ![p].reply = <<>>]
           /\ UNCHANGED <<mail, derived, spliced>>
  <2> DEFINE d == Client(c.asked, <<>>, c.key, c.hdr, c.queued, c.eks)
  <2>1. peer' = [peer EXCEPT ![p] = d]
    <3>1. \A x : [peer EXCEPT ![p].reply = x]
                  = [peer EXCEPT ![p] = Client(c.asked, x, c.key, c.hdr, c.queued, c.eks)]
      BY <1>2, <1>3, FieldUpdates, Zenon
    <3> QED
      BY <1>5, <3>1, Zenon
  <2>2. ClientTyped(d) /\ d.reply = <<>> /\ d.hdr = c.hdr
    BY DEF Client, ClientTyped
  <2> HIDE DEF d
  <2>3. /\ peer' = [x \in Peers |-> peer'[x]]
        /\ \A x \in Peers : ClientTyped(peer'[x])
        /\ peer'[p] = d
        /\ \A x \in Peers \ {p} : peer'[x] = peer[x]
    BY <1>2, <2>1, <2>2, ClientUpdate
  <2>4. \A x \in Peers : peer'[x].reply \in {peer[x].reply, <<>>} /\ peer'[x].hdr = peer[x].hdr
    BY <2>2, <2>3
  <2>5. SessionsTyped'
    BY <1>1, <1>2, <1>5, <2>3 DEF SessionsTyped
  <2> QED
    BY <1>1, <1>5, <2>4, <2>5, SessionsMoved
<1>6. CASE /\ Usable(p, b)
           /\ peer' = [peer EXCEPT ![p] = [c EXCEPT !.reply = <<>>, !.key = key, !.eks = @ + 1,
                                                    !.hdr = h, !.queued = FALSE]]
           /\ mail' = IF c.queued THEN Append(mail, Frame(p, None)) ELSE mail
           /\ derived' = [derived EXCEPT ![p] = @ \cup {key}]
           /\ spliced' = spliced \cup (IF Splice(b) THEN {p} ELSE {})
  <2>1. derived' = [q \in Peers |-> IF q = p THEN derived[p] \cup {key} ELSE derived[q]]
    BY <1>2, <1>6
  <2>2. /\ \A q \in Peers : derived[q] \subseteq derived'[q]
        /\ key \in derived'[p]
        /\ derived' = [q \in Peers |-> derived'[q]]
    <3> HIDE DEF key
    <3> QED
      BY <2>1
  <2>2a. spliced \subseteq spliced' /\ (Splice(b) => p \in spliced')
    BY <1>6
  <2>2b. \/ b.ik = Ik(Owner) /\ b.spk.of = Owner /\ b.spk = Key("spk", Owner, b.spk.n)
         \/ b.spk.of = Mallory /\ p \notin Knows
    BY <1>4, <1>6, UsableBundle
  <2>2c. \A q \in Knows : \A k \in derived'[q] : k \in derived[q] \/ ~RelayKnows(k)
    <3>1. p \in Knows => ~RelayKnows(key)
      <4> SUFFICES ASSUME p \in Knows, RelayKnows(key) PROVE FALSE
        OBVIOUS
      <4>1. 1 \in DOMAIN key /\ key[1] = {Ik(p), b.spk}
        BY FirstPart
      <4>2. Ik(p).of = p /\ b.spk.of = Owner
        BY <2>2b, PrekeysAssumption DEF Ik, Key
      <4>3. \E x \in key[1] : x.of = Mallory
        BY <4>1 DEF RelayKnows
      <4> HIDE DEF key, b
      <4> QED BY <4>1, <4>2, <4>3, PrekeysAssumption
    <3> HIDE DEF key
    <3>2. \A q \in Knows : q \in Peers
      BY PrekeysAssumption
    <3> QED BY <2>1, <3>1, <3>2
  <2>3. HeaderOK(p, h, derived', spliced', imposed')
    <3>1. h.ik = Ik(p) /\ h.ek = ek /\ h.opk = OpkId(b) /\ h.spk = b.spk
      <4> HIDE DEF b, ek
      <4> QED
        BY DEF Header
    <3>2. OpkOK(b)
      BY <1>4, <1>6 DEF BundleOK, Usable
    <3> DEFINE B == responder(b.spk, OwnOpk(OpkId(b)), Ik(p), ek)
    <3>3. b.ik = Ik(Owner) => (~Splice(b) => key = B) /\ \A i \in 1..3 : B[i] = key[i]
      BY <3>2, SameSecret
    <3>4. Mallory # Owner
      BY PrekeysAssumption
    <3>5. b.spk # NoKey
      <4>0. PICK x : x = b.spk
        OBVIOUS
      <4>1. Key("none", None, 0).of = None /\ Key("none", None, 0).kind = "none"
        BY DEF Key
      <4>2. Served(b) \/ Forged(b)
        BY <1>4, <1>6 DEF BundleOK, Usable
      <4>3. x.kind = "spk"
        <5>1. \E of, n : x = Key("spk", of, n)
          <6> HIDE DEF b
          <6> QED BY <4>0, <4>2, SpkIsKey
        <5> QED BY <5>1 DEF Key
      <4> QED BY <4>0, <4>1, <4>3 DEF NoKey
    <3> HIDE DEF B
    <3>6. b.ik = Ik(Owner) => Agrees(p, B, derived', spliced')
      <4> HIDE DEF key, b
      <4> QED BY <2>2, <2>2a, <3>3 DEF Agrees
    <3> HIDE DEF h, key, b, ek
    <3>7. b.ik = Ik(Owner) => Agrees(p, responder(h.spk, OwnOpk(h.opk), h.ik, h.ek), derived', spliced')
      BY <3>1, <3>6 DEF B
    <3> QED
      BY <2>2b, <3>1, <3>4, <3>5, <3>7 DEF HeaderOK
  <2> DEFINE d == Client(c.asked, <<>>, key, h, FALSE, c.eks + 1)
  <2>4. peer' = [peer EXCEPT ![p] = d]
    <3> HIDE DEF key, h
    <3>1. [c EXCEPT !.reply = <<>>, !.key = key, !.eks = @ + 1, !.hdr = h, !.queued = FALSE] = d
      BY <1>3, OpenedClient, Zenon
    <3>2. peer' = [peer EXCEPT ![p] = [c EXCEPT !.reply = <<>>, !.key = key, !.eks = @ + 1,
                                                !.hdr = h, !.queued = FALSE]]
      BY <1>6, Zenon
    <3> QED
      BY <3>1, <3>2, Zenon
  <2>5. ClientTyped(d) /\ d.reply = <<>> /\ d.hdr = h
    <3> HIDE DEF key, h
    <3> QED
      BY DEF Client, ClientTyped
  <2> HIDE DEF d, key, h
  <2>6. /\ peer' = [x \in Peers |-> peer'[x]]
        /\ \A x \in Peers : ClientTyped(peer'[x])
        /\ peer'[p] = d
        /\ \A x \in Peers \ {p} : peer'[x] = peer[x]
    BY <1>2, <2>4, <2>5, ClientUpdate
  <2>7. \A x \in Peers :
           /\ peer'[x].reply \in {peer[x].reply, <<>>}
           /\ \/ peer'[x].hdr = peer[x].hdr
              \/ HeaderOK(x, peer'[x].hdr, derived', spliced', imposed')
    BY <2>3, <2>5, <2>6
  <2>8. /\ mail' \in Seq(Range(mail'))
        /\ \A i \in DOMAIN mail' : \/ \E j \in DOMAIN mail : mail'[i] = mail[j]
                                   \/ FrameOK(mail'[i], derived', spliced', imposed')
    <3>1. CASE mail' = mail
      BY <1>2, <3>1 DEF SessionsTyped
    <3>2. CASE mail' = Append(mail, Frame(p, None))
      <4> DEFINE f == Frame(p, None)
      <4>1. FrameOK(f, derived', spliced', imposed')
        BY DEF FrameOK, HeaderOK, Frame
      <4> HIDE DEF f
      <4>2. /\ mail' \in Seq(Range(mail'))
            /\ \A i \in DOMAIN mail' : mail'[i] = f \/ \E j \in DOMAIN mail : mail'[i] = mail[j]
        BY <1>2, <3>2, MailMoves DEF f
      <4> QED
        BY <4>1, <4>2
    <3> QED
      BY <1>6, <3>1, <3>2
  <2>9. SessionsTyped'
    BY <1>1, <1>2, <2>2, <2>6, <2>8 DEF SessionsTyped
  <2> QED
    BY <1>1, <2>2, <2>2a, <2>2c, <2>7, <2>8, <2>9, SessionsMoved
<1> QED
  BY <1>5, <1>6 DEF OnBundle

\* A text carries the header until it has been sent once.
LEMMA SessionsSend ==
    ASSUME SessionsInv, NEW p \in Peers, sendMessage(p)
    PROVE  SessionsInv'
<1> DEFINE c == peer[p]
           d == Client(c.asked, c.reply, c.key, None, c.queued, c.eks)
           f == Frame(p, c.hdr)
<1>1. /\ UNCHANGED <<sess, derived, spliced, imposed>>
      /\ mail' = Append(mail, f)
      /\ peer' = [peer EXCEPT ![p].hdr = None]
  BY DEF sendMessage, tampered
<1>2. SessionsTyped /\ peer = [q \in Peers |-> peer[q]] /\ ClientTyped(c)
  BY DEF SessionsInv, SessionsTyped
<1>3. peer' = [peer EXCEPT ![p] = d]
  <2>1. \A x : [peer EXCEPT ![p].hdr = x]
                = [peer EXCEPT ![p] = Client(c.asked, c.reply, c.key, x, c.queued, c.eks)]
    BY <1>2, FieldUpdates, Zenon
  <2> QED
    BY <1>1, <2>1, Zenon
<1>4. ClientTyped(d) /\ d.reply = c.reply /\ d.hdr = None
  BY DEF Client, ClientTyped
<1>5. FrameOK(f, derived, spliced, imposed)
  <2>1. HeaderOK(p, c.hdr, derived, spliced, imposed)
    BY DEF SessionsInv
  <2>2. f.from = p /\ f.hdr = c.hdr
    BY DEF Frame
  <2> QED
    BY <2>1, <2>2 DEF FrameOK
<1> HIDE DEF d, f
<1>6. /\ peer' = [x \in Peers |-> peer'[x]]
      /\ \A x \in Peers : ClientTyped(peer'[x])
      /\ peer'[p] = d
      /\ \A x \in Peers \ {p} : peer'[x] = peer[x]
  BY <1>2, <1>3, <1>4, ClientUpdate
<1>7. \A x \in Peers : peer'[x].reply = peer[x].reply /\ peer'[x].hdr \in {peer[x].hdr, None}
  BY <1>4, <1>6
<1>8. /\ mail' \in Seq(Range(mail'))
      /\ \A i \in DOMAIN mail' : mail'[i] = f \/ \E j \in DOMAIN mail : mail'[i] = mail[j]
  BY <1>1, <1>2, MailMoves
<1>9. SessionsTyped'
  BY <1>1, <1>2, <1>6, <1>8 DEF SessionsTyped
<1>10. \A i \in DOMAIN mail' : \/ \E j \in DOMAIN mail : mail'[i] = mail[j]
                               \/ FrameOK(mail'[i], derived', spliced', imposed')
  BY <1>1, <1>5, <1>8
<1> QED
  BY <1>1, <1>7, <1>9, <1>10, SessionsMoved

\* Every step keeps the second part of the invariant.
LEMMA SessionsStep ==
    ASSUME SessionsInv, [Next]_vars
    PROVE  SessionsInv'
<1>1. CASE UNCHANGED <<sess, peer, mail, derived, spliced, imposed>>
  <2>1. SessionsTyped'
    BY <1>1 DEF SessionsInv, SessionsTyped
  <2> QED
    BY <1>1, <2>1, SessionsMoved
<1>2. CASE UNCHANGED vars
  BY <1>1, <1>2 DEF vars
<1>3. CASE onConnected \/ Hello \/ PrekeysAck \/ Disconnect \/ SetClock \/ RelayPublish
  BY <1>1, <1>3 DEF onConnected, Hello, PrekeysAck, Disconnect, SetClock, RelayPublish, tampered
<1> QED
  BY <1>2, <1>3, SessionsDrop, SessionsReplay, SessionsReceive, SessionsForge, SessionsReply,
     SessionsBundle, SessionsSend DEF Next

-----------------------------------------------------------------------------
(* The theorems.                                                            *)

\* The invariant holds in every reachable state.
THEOREM Invariance == Spec => []IInv
<1>1. Init => IInv
  BY KeysInit, SessionsInit DEF IInv
<1>2. IInv /\ [Next]_vars => IInv'
  BY KeysStep, SessionsStep DEF IInv
<1> QED
  BY <1>1, <1>2, PTL DEF Spec

\* A session that an opener of a peer has created holds a secret that peer derived,
\* across rotations, restarts, replays and whatever bundles the relay makes up; a
\* one-time key put into the bundle of the peer changes the last part only.
THEOREM SecretsAgreeHolds == Spec => []SecretsAgree
<1>1. IInv => SecretsAgree
  BY DEF IInv, SessionsInv
<1> QED
  BY <1>1, Invariance, PTL

\* takeOneTimePrekey: a one-time prekey opens one session, unless the process ends
\* between persistSession and savePrekeys.
THEOREM SingleUseHolds == Spec => []SingleUse
<1>1. IInv => SingleUse
  BY DEF IInv, KeysInv
<1> QED
  BY <1>1, Invariance, PTL

\* A peer that holds the directory key never derives a secret that the relay can
\* compute, whatever bundle the relay made up or put another one-time key into.
THEOREM AuthenticOpenHolds == Spec => []AuthenticOpen
<1>1. IInv => AuthenticOpen
  BY DEF IInv, SessionsInv
<1> QED
  BY <1>1, Invariance, PTL

\* A signed prekey that was destroyed is neither in memory nor on disk again.
THEOREM NotResurrectedHolds == Spec => []NotResurrected
<1>1. IInv => NotResurrected
  <2> SUFFICES ASSUME KeysInv PROVE NotResurrected
    BY DEF IInv
  <2>1. \A g \in gone : 0 < g /\ g < Saved.spk /\ g # Saved.prev
    BY DEF KeysInv, Past
  <2>2. gone \subseteq Nat
    BY DEF KeysInv, KeysTyped
  <2>3. NoPrekeys.spk = 0 /\ NoPrekeys.prev = 0
    BY DEF NoPrekeys, NoSpk
  <2>4. disk # None => disk \in PrekeySets
    BY DEF KeysInv, KeysTyped
  <2>5. ASSUME NEW g \in gone
        PROVE  /\ g # box.keys.spk /\ g # box.keys.prev
               /\ disk # None => g # disk.spk /\ g # disk.prev
    <3>1. g \in Nat /\ 0 < g /\ g < Saved.spk /\ g # Saved.prev
      BY <2>1, <2>2
    <3>2. disk # None => Saved = disk
      BY DEF Saved
    <3>3. disk # None => g # disk.spk /\ g # disk.prev
      BY <2>4, <3>1, <3>2 DEF PrekeySets
    <3>4. CASE box.keys = NoPrekeys
      BY <2>3, <3>1, <3>3, <3>4
    <3>5. CASE disk # None /\ SameKeys(box.keys, disk)
      BY <3>3, <3>5 DEF SameKeys
    <3> QED
      BY <3>3, <3>4, <3>5 DEF KeysInv
  <2> QED
    BY <2>5 DEF NotResurrected
<1> QED
  BY <1>1, Invariance, PTL
=============================================================================

------------------------ MODULE DoubleRatchet_proofs ------------------------
(***************************************************************************)
(* Proofs about DoubleRatchet, for every gap the receiver bridges, every   *)
(* size of the bank and any number of frames.                              *)
(***************************************************************************)
EXTENDS DoubleRatchet, FiniteSetTheorems, SequenceTheorems, TLAPS

USE SkipAssumption, FramesAssumption

Session ==
    [DHs : Nat, DHr : Nat, haveDHr : BOOLEAN, RK : Chain, CKs : Chain, CKr : Chain,
     Ns : Nat, Nr : Nat, PN : Nat, skipped : SUBSET MessageKey, evicted : SUBSET MessageKey]

---------------------------------------------------------------------------
(* Chains.  The two ends mix their key pairs in one order, (1,0), (1,1),   *)
(* (2,1), (2,2) ..., so a chain is determined by its length.               *)

Canon(c) ==
    \A i \in 1 .. Len(c) : c[i][1] + c[i][2] = i /\ c[i][1] - c[i][2] \in {0, 1}

\* Length of the chain that p sends with under its key pair dh.
SendLen(p, dh) == IF p = Initiator THEN 2 * dh - 1 ELSE 2 * dh
IsSendChain(p, dh, c) == Canon(c) /\ Len(c) = SendLen(p, dh)

\* Two chains of the same length that grew in that order are the same.
LEMMA CanonUnique ==
    ASSUME NEW c \in Chain, NEW d \in Chain, Canon(c), Canon(d), Len(c) = Len(d)
    PROVE  c = d
<1>1. ASSUME NEW i \in 1 .. Len(c) PROVE c[i] = d[i]
  <2>1. c[i] \in Nat \X Nat /\ d[i] \in Nat \X Nat
    BY ElementOfSeq DEF Chain
  <2>2. c[i][1] = d[i][1] /\ c[i][2] = d[i][2]
    <3>1. PICK a \in Nat, b \in Nat : a = c[i][1] /\ b = c[i][2]
      BY <2>1
    <3>2. PICK x \in Nat, y \in Nat : x = d[i][1] /\ y = d[i][2]
      BY <2>1
    <3>3. a + b = i /\ x + y = i /\ a - b \in {0, 1} /\ x - y \in {0, 1}
      BY <3>1, <3>2 DEF Canon
    <3>4. a = x /\ b = y
      BY <3>3
    <3> QED BY <3>1, <3>2, <3>4
  <2> QED BY <2>1, <2>2
<1> QED BY <1>1, SeqEqual DEF Chain

\* One more Diffie-Hellman result in that order.
LEMMA CanonAppend ==
    ASSUME NEW c \in Chain, Canon(c), NEW a \in Nat, NEW b \in Nat,
           a + b = Len(c) + 1, a - b \in {0, 1}
    PROVE  /\ Append(c, <<a, b>>) \in Chain /\ Canon(Append(c, <<a, b>>))
           /\ Len(Append(c, <<a, b>>)) = Len(c) + 1
<1> DEFINE e == <<a, b>>
           x == Append(c, e)
<1>1. e \in Nat \X Nat /\ c \in Seq(Nat \X Nat)
  BY DEF Chain
<1>2. /\ x \in Seq(Nat \X Nat) /\ Len(x) = Len(c) + 1 /\ x[Len(c) + 1] = e
      /\ \A i \in 1 .. Len(c) : x[i] = c[i]
  <2> HIDE DEF e
  <2> QED BY <1>1, AppendProperties
<1>3. Len(c) \in Nat
  BY <1>1, LenProperties
<1> HIDE DEF x
<1>4. ASSUME NEW i \in 1 .. Len(x)
      PROVE  x[i][1] + x[i][2] = i /\ x[i][1] - x[i][2] \in {0, 1}
  <2>1. CASE i = Len(c) + 1
    BY <1>2, <2>1
  <2>2. CASE i # Len(c) + 1
    <3>1. i \in 1 .. Len(c)
      BY <1>2, <1>3, <2>2
    <3> QED BY <1>2, <3>1 DEF Canon
  <2> QED BY <2>1, <2>2
<1>5. Canon(x)
  BY <1>4 DEF Canon
<1> QED BY <1>2, <1>5 DEF x, Chain

---------------------------------------------------------------------------
(* What the operators of the receiving side do.                            *)

\* The bank holds part of these keys, the rest of them was destroyed by the cap.
Banks(t, keys, before) ==
    /\ t.skipped \subseteq keys /\ keys \subseteq t.skipped \cup t.evicted
    /\ before \subseteq t.evicted
    /\ IsFiniteSet(t.skipped) /\ Cardinality(t.skipped) <= MaxSkippedTotal

SameButBank(s, t) ==
    /\ t \in Session
    /\ t.DHs = s.DHs /\ t.DHr = s.DHr /\ t.haveDHr = s.haveDHr /\ t.RK = s.RK
    /\ t.CKs = s.CKs /\ t.CKr = s.CKr /\ t.Ns = s.Ns /\ t.PN = s.PN

\* enforceSkippedCap touches the bank only, and records what it destroys.
LEMMA CapEffect ==
    ASSUME NEW s \in Session, IsFiniteSet(s.skipped), NEW t \in enforceSkippedCap(s)
    PROVE  SameButBank(s, t) /\ t.Nr = s.Nr /\ Banks(t, s.skipped, s.evicted)
<1>1. CASE Cardinality(s.skipped) <= MaxSkippedTotal
  BY <1>1 DEF enforceSkippedCap, SameButBank, Banks
<1>2. CASE ~(Cardinality(s.skipped) <= MaxSkippedTotal)
  <2>1. PICK T \in SUBSET s.skipped :
            /\ t = [s EXCEPT !.skipped = T, !.evicted = @ \cup (s.skipped \ T)]
            /\ Cardinality(T) = MaxSkippedTotal
    BY <1>2 DEF enforceSkippedCap
  <2>2. IsFiniteSet(T)
    BY FS_Subset
  <2>3. t.skipped = T /\ t.evicted = s.evicted \cup (s.skipped \ T)
    BY <2>1 DEF Session
  <2>4. SameButBank(s, t) /\ t.Nr = s.Nr
    BY <2>1 DEF SameButBank, Session
  <2> QED BY <2>1, <2>2, <2>3, <2>4 DEF Banks
<1> QED BY <1>1, <1>2

\* A finite set has a subset of every smaller size.
LEMMA SubsetOfSize ==
    ASSUME NEW S, IsFiniteSet(S), NEW m \in Nat, m <= Cardinality(S)
    PROVE  \E T \in SUBSET S : Cardinality(T) = m
<1>1. Cardinality(S) \in Nat
  BY FS_CardinalityType
<1>2. PICK b : b \in Bijection(1 .. Cardinality(S), S)
  BY FS_CardinalityType DEF ExistsBijection
<1> DEFINE T == {b[i] : i \in 1 .. m}
           g == [i \in 1 .. m |-> b[i]]
<1>3. 1 .. m \subseteq 1 .. Cardinality(S)
  BY <1>1
<1>4. g \in Bijection(1 .. m, T)
  BY <1>2, <1>3 DEF Bijection, Injection, Surjection, IsInjective
<1>5. Cardinality(T) = m
  BY <1>4, FS_CountingElements DEF ExistsBijection
<1>6. T \in SUBSET S
  BY <1>2, <1>3 DEF Bijection, Injection
<1> QED BY <1>5, <1>6

\* The cap can always be enforced: the old generation goes first, then the live one.
LEMMA CapPossible ==
    ASSUME NEW s \in Session, IsFiniteSet(s.skipped)
    PROVE  enforceSkippedCap(s) # {}
<1> DEFINE live == {k \in s.skipped : k.dh = s.DHr}
           old == s.skipped \ live
           keeps(T) == Cardinality(T) = MaxSkippedTotal /\ (live \subseteq T \/ T \cap old = {})
<1> SUFFICES ASSUME Cardinality(s.skipped) > MaxSkippedTotal
             PROVE  \E T \in SUBSET s.skipped : keeps(T)
  <2>1. Cardinality(s.skipped) \in Nat
    BY FS_CardinalityType
  <2>2. CASE Cardinality(s.skipped) <= MaxSkippedTotal
    BY <2>2 DEF enforceSkippedCap
  <2>3. CASE ~(Cardinality(s.skipped) <= MaxSkippedTotal)
    <3>1. PICK T \in SUBSET s.skipped : keeps(T)
      BY <2>1, <2>3
    <3>2. [s EXCEPT !.skipped = T, !.evicted = @ \cup (s.skipped \ T)] \in enforceSkippedCap(s)
      BY <2>3, <3>1, Zenon DEF enforceSkippedCap
    <3> QED BY <3>2
  <2> QED BY <2>2, <2>3
<1>0. Cardinality({}) = 0
  BY FS_EmptySet
<1>1. /\ IsFiniteSet(live) /\ IsFiniteSet(old)
      /\ Cardinality(live) \in Nat /\ Cardinality(old) \in Nat /\ Cardinality(s.skipped) \in Nat
  <2>1. live \subseteq s.skipped /\ old \subseteq s.skipped
    OBVIOUS
  <2> HIDE DEF live, old
  <2> QED BY <2>1, FS_Subset, FS_CardinalityType
<1>2. CASE Cardinality(live) >= MaxSkippedTotal
  <2>1. PICK T \in SUBSET live : Cardinality(T) = MaxSkippedTotal
    <3> HIDE DEF live
    <3> QED BY <1>1, <1>2, SubsetOfSize
  <2> QED BY <2>1
<1>3. CASE Cardinality(live) < MaxSkippedTotal
  <2>1. Cardinality(live) + Cardinality(old) = Cardinality(s.skipped)
    <3>1. s.skipped = live \cup old /\ live \cap old = {}
      OBVIOUS
    <3> HIDE DEF live, old
    <3>2. Cardinality(live \cup old)
              = Cardinality(live) + Cardinality(old) - Cardinality(live \cap old)
      BY <1>1, FS_Union
    <3>3. Cardinality(s.skipped) = Cardinality(live \cup old) /\ Cardinality(live \cap old) = 0
      BY <1>0, <3>1, Zenon
    <3> QED BY <1>1, <3>2, <3>3
  <2>2. PICK U \in SUBSET old : Cardinality(U) = MaxSkippedTotal - Cardinality(live)
    <3>1. /\ MaxSkippedTotal - Cardinality(live) \in Nat
          /\ MaxSkippedTotal - Cardinality(live) <= Cardinality(old)
      BY <1>1, <1>3, <2>1
    <3> HIDE DEF live, old
    <3> QED BY <1>1, <3>1, SubsetOfSize
  <2>3. live \cap U = {} /\ live \cup U \in SUBSET s.skipped
    OBVIOUS
  <2>4. Cardinality(live \cup U) = MaxSkippedTotal
    <3> HIDE DEF live, old
    <3>1. IsFiniteSet(U)
      BY <1>1, FS_Subset
    <3>2. Cardinality(live \cup U) = Cardinality(live) + Cardinality(U) - Cardinality(live \cap U)
      BY <1>1, <3>1, FS_Union
    <3> QED BY <1>0, <1>1, <2>2, <2>3, <3>2
  <2> QED BY <2>3, <2>4
<1> QED BY <1>1, <1>2, <1>3

\* The keys from the next index of the receiving chain up to index until.
Gap(s, until) ==
    IF s.CKr = NoChain THEN {}
    ELSE {[dh |-> s.DHr, n |-> i, ck |-> s.CKr] : i \in s.Nr .. until - 1}

\* skipTo banks finitely many message keys.
LEMMA GapFinite ==
    ASSUME NEW s \in Session, NEW until \in Nat
    PROVE  IsFiniteSet(Gap(s, until)) /\ Gap(s, until) \subseteq MessageKey
<1>1. Gap(s, until) \subseteq MessageKey
  BY DEF Gap, Session, MessageKey
<1>2. CASE s.CKr = NoChain
  BY <1>2, FS_EmptySet DEF Gap
<1>3. CASE s.CKr # NoChain
  <2> DEFINE I == s.Nr .. until - 1
             h == [i \in I |-> [dh |-> s.DHr, n |-> i, ck |-> s.CKr]]
  <2>1. IsFiniteSet(I)
    BY FS_Interval DEF Session
  <2>2. h \in Surjection(I, Gap(s, until))
    BY <1>3 DEF Gap, Surjection
  <2> HIDE DEF h, I
  <2> QED BY <1>1, <2>1, <2>2, FS_Surjection
<1> QED BY <1>1, <1>2, <1>3

\* skipTo banks the keys of the gap and moves the receiving index, no more.
LEMMA SkipEffect ==
    ASSUME NEW s \in Session, IsFiniteSet(s.skipped),
           Cardinality(s.skipped) <= MaxSkippedTotal,
           NEW until \in Nat, NEW t \in skipTo(s, until)
    PROVE  /\ SameButBank(s, t)
           /\ t.Nr = IF s.CKr = NoChain \/ until <= s.Nr THEN s.Nr ELSE until
           /\ Banks(t, s.skipped \cup Gap(s, until), s.evicted)
<1>0. s.Nr \in Nat /\ ~(s.Nr + MaxSkip < until)
  BY DEF skipTo, Session
<1>1. CASE s.CKr = NoChain \/ until <= s.Nr
  <2>1. t = s
    BY <1>0, <1>1 DEF skipTo
  <2>2. Gap(s, until) = {}
    <3>1. s.CKr # NoChain => s.Nr .. until - 1 = {}
      BY <1>0, <1>1
    <3> QED BY <3>1 DEF Gap
  <2> QED BY <1>1, <2>1, <2>2 DEF SameButBank, Banks
<1>2. CASE ~(s.CKr = NoChain \/ until <= s.Nr)
  <2> DEFINE u == [s EXCEPT !.skipped = s.skipped \cup Gap(s, until), !.Nr = until]
  <2>1. t \in enforceSkippedCap(u)
    BY <1>0, <1>2 DEF skipTo, Gap
  <2>2. u \in Session /\ u.skipped = s.skipped \cup Gap(s, until) /\ u.evicted = s.evicted
    BY GapFinite DEF Session
  <2>3. IsFiniteSet(u.skipped)
    BY <2>2, GapFinite, FS_Union
  <2>4. SameButBank(s, u) /\ u.Nr = until
    BY <2>2 DEF SameButBank, Session
  <2> HIDE DEF u
  <2>5. SameButBank(u, t) /\ t.Nr = u.Nr /\ Banks(t, u.skipped, u.evicted)
    BY <2>1, <2>2, <2>3, CapEffect
  <2> QED BY <1>2, <2>2, <2>4, <2>5 DEF SameButBank
<1> QED BY <1>1, <1>2

\* skipTo refuses nothing within the gap kMaxSkip allows.
LEMMA SkipPossible ==
    ASSUME NEW s \in Session, IsFiniteSet(s.skipped), NEW until \in Nat,
           until <= s.Nr + MaxSkip
    PROVE  skipTo(s, until) # {}
<1>1. s.Nr \in Nat /\ ~(s.Nr + MaxSkip < until)
  <2>1. s.Nr \in Nat
    BY DEF Session
  <2> QED BY <2>1
<1>2. CASE s.CKr = NoChain \/ until <= s.Nr
  BY <1>1, <1>2 DEF skipTo
<1>3. CASE ~(s.CKr = NoChain \/ until <= s.Nr)
  <2> DEFINE u == [s EXCEPT !.skipped = s.skipped \cup Gap(s, until), !.Nr = until]
  <2>1. skipTo(s, until) = enforceSkippedCap(u)
    BY <1>1, <1>3 DEF skipTo, Gap
  <2>2. u \in Session /\ u.skipped = s.skipped \cup Gap(s, until)
    BY GapFinite DEF Session
  <2>3. IsFiniteSet(u.skipped)
    BY <2>2, GapFinite, FS_Union
  <2> HIDE DEF u
  <2> QED BY <2>1, <2>2, <2>3, CapPossible
<1> QED BY <1>2, <1>3

\* The chain keys a party reaches with a new public of its peer.
RecvKey(p, s, dhPub) == kdfRk(s.RK, dhFn(p, s.DHs, dhPub))
SendKey(p, s, dhPub) == kdfRk(RecvKey(p, s, dhPub), dhFn(p, s.DHs + 1, dhPub))

\* t is s after a turn on dhPub, but for the bank and the receiving index.
Turned(p, s, t, dhPub) ==
    /\ t \in Session
    /\ t.PN = s.Ns /\ t.Ns = 0 /\ t.DHr = dhPub /\ t.haveDHr = TRUE /\ t.DHs = s.DHs + 1
    /\ t.CKr = RecvKey(p, s, dhPub) /\ t.RK = SendKey(p, s, dhPub) /\ t.CKs = t.RK

\* The state dhRatchet hands to enforceSkippedCap.
LEMMA TurnStart ==
    ASSUME NEW p \in Parties, NEW s \in Session, NEW dhPub \in Nat, IsFiniteSet(s.skipped)
    PROVE  \E u : /\ dhRatchet(p, s, dhPub) = enforceSkippedCap(u)
                  /\ Turned(p, s, u, dhPub) /\ u.Nr = 0 /\ IsFiniteSet(u.skipped)
                  /\ u.skipped = purgeUnreachableSkipped(s.skipped, dhPub, s.DHr)
                  /\ u.evicted = s.evicted
<1> DEFINE rk1 == RecvKey(p, s, dhPub)
           rk2 == SendKey(p, s, dhPub)
           kept == purgeUnreachableSkipped(s.skipped, dhPub, s.DHr)
           u == [s EXCEPT !.PN = s.Ns, !.Ns = 0, !.Nr = 0, !.DHr = dhPub, !.haveDHr = TRUE,
                          !.CKr = rk1, !.DHs = s.DHs + 1, !.RK = rk2, !.CKs = rk2,
                          !.skipped = kept]
<1>1. dhRatchet(p, s, dhPub) = enforceSkippedCap(u)
  BY DEF dhRatchet, RecvKey, SendKey
<1>2. rk1 \in Chain /\ rk2 \in Chain
  <2>1. s.RK \in Seq(Nat \X Nat) /\ s.DHs \in Nat /\ s.DHs + 1 \in Nat
    BY DEF Session, Chain
  <2>2. \A own \in Nat : dhFn(p, own, dhPub) \in Nat \X Nat
    BY DEF dhFn
  <2>3. rk1 \in Seq(Nat \X Nat)
    BY <2>1, <2>2, AppendProperties DEF RecvKey, kdfRk
  <2> HIDE DEF rk1
  <2>4. Append(rk1, dhFn(p, s.DHs + 1, dhPub)) \in Seq(Nat \X Nat)
    BY <2>1, <2>2, <2>3, AppendProperties
  <2> QED BY <2>3, <2>4 DEF rk1, SendKey, kdfRk, Chain
<1>3. kept \subseteq s.skipped
  BY DEF purgeUnreachableSkipped
<1>4. IsFiniteSet(kept)
  BY <1>3, FS_Subset
<1> HIDE DEF rk1, rk2, kept
<1>5. u \in Session
  <2> DEFINE a == [s EXCEPT !.PN = s.Ns, !.Ns = 0, !.Nr = 0, !.DHr = dhPub]
             b == [a EXCEPT !.haveDHr = TRUE, !.CKr = rk1, !.DHs = s.DHs + 1]
             c == [b EXCEPT !.RK = rk2, !.CKs = rk2, !.skipped = kept]
  <2>1. s.DHs + 1 \in Nat /\ kept \in SUBSET MessageKey
    BY <1>3 DEF Session
  <2>2. a \in Session
    BY DEF Session
  <2>3. u = c
    OBVIOUS
  <2> HIDE DEF a, u
  <2>4. b \in Session
    BY <1>2, <2>1, <2>2 DEF Session
  <2> HIDE DEF b
  <2> QED BY <1>2, <2>1, <2>3, <2>4 DEF Session
<1>6. /\ u.PN = s.Ns /\ u.Ns = 0 /\ u.Nr = 0 /\ u.DHr = dhPub /\ u.haveDHr = TRUE
      /\ u.CKr = rk1 /\ u.DHs = s.DHs + 1 /\ u.RK = rk2 /\ u.CKs = rk2
      /\ u.skipped = kept /\ u.evicted = s.evicted
  BY DEF Session
<1> HIDE DEF u
<1> QED BY <1>1, <1>4, <1>5, <1>6 DEF Turned, rk1, rk2, kept

\* dhRatchet changes the chains and counters and purges the bank of all but two
\* generations.
LEMMA TurnEffect ==
    ASSUME NEW p \in Parties, NEW s \in Session, NEW dhPub \in Nat, IsFiniteSet(s.skipped),
           NEW t \in dhRatchet(p, s, dhPub)
    PROVE  /\ Turned(p, s, t, dhPub) /\ t.Nr = 0
           /\ Banks(t, purgeUnreachableSkipped(s.skipped, dhPub, s.DHr), s.evicted)
<1>1. PICK u : /\ dhRatchet(p, s, dhPub) = enforceSkippedCap(u)
               /\ Turned(p, s, u, dhPub) /\ u.Nr = 0 /\ IsFiniteSet(u.skipped)
               /\ u.skipped = purgeUnreachableSkipped(s.skipped, dhPub, s.DHr)
               /\ u.evicted = s.evicted
  BY TurnStart
<1>2. u \in Session
  BY <1>1 DEF Turned
<1>3. t \in enforceSkippedCap(u)
  BY <1>1
<1>4. SameButBank(u, t) /\ t.Nr = u.Nr /\ Banks(t, u.skipped, u.evicted)
  BY <1>1, <1>2, <1>3, CapEffect
<1> QED BY <1>1, <1>4 DEF SameButBank, Turned

\* dhRatchet always succeeds.
LEMMA TurnPossible ==
    ASSUME NEW p \in Parties, NEW s \in Session, NEW dhPub \in Nat, IsFiniteSet(s.skipped)
    PROVE  dhRatchet(p, s, dhPub) # {}
<1>1. PICK u : /\ dhRatchet(p, s, dhPub) = enforceSkippedCap(u)
               /\ Turned(p, s, u, dhPub) /\ IsFiniteSet(u.skipped)
  BY TurnStart
<1>2. enforceSkippedCap(u) # {}
  BY <1>1, CapPossible DEF Turned
<1> QED BY <1>1, <1>2

\* The three ways a frame opens: with a banked key, with the chain it belongs
\* to, or with a new one.
ByBank(s, f, t) ==
    \E k \in s.skipped :
        /\ k.dh = f.dh /\ k.n = f.n /\ k.ck = f.ck
        /\ SameButBank(s, t) /\ t.Nr = s.Nr
        /\ t.skipped = s.skipped \ {k} /\ t.evicted = s.evicted

ByChain(s, f, t) ==
    /\ s.haveDHr /\ f.dh = s.DHr /\ f.ck = s.CKr
    /\ SameButBank(s, t) /\ s.Nr <= f.n /\ t.Nr = f.n + 1
    /\ Banks(t, s.skipped \cup Gap(s, f.n), s.evicted)

NewKeys(f) == {[dh |-> f.dh, n |-> i, ck |-> f.ck] : i \in 0 .. f.n - 1}
ByTurn(p, s, f, t) ==
    /\ ~(s.haveDHr /\ f.dh = s.DHr)
    /\ Turned(p, s, t, f.dh) /\ f.ck = t.CKr /\ t.Nr = f.n + 1
    /\ Banks(t, purgeUnreachableSkipped(s.skipped \cup Gap(s, f.pn), f.dh, s.DHr) \cup NewKeys(f),
             s.evicted)

\* decryptFrom commits one of these three.
LEMMA DecryptEffect ==
    ASSUME NEW p \in Parties, NEW s \in Session, NEW f \in Frame,
           IsFiniteSet(s.skipped), Cardinality(s.skipped) <= MaxSkippedTotal,
           f.ck # NoChain, NEW t \in decryptFrom(p, s, f)
    PROVE  ByBank(s, f, t) \/ ByChain(s, f, t) \/ ByTurn(p, s, f, t)
<1>0. f.n \in Nat /\ f.pn \in Nat /\ f.dh \in Nat /\ s.Nr \in Nat
  BY DEF Frame, Session
<1>1. CASE Banked(s, f) # {}
  <2>1. PICK k \in Banked(s, f) : k.ck = f.ck /\ t = [s EXCEPT !.skipped = @ \ {k}]
    BY <1>1 DEF decryptFrom, useBanked
  <2>2. k \in s.skipped /\ k.dh = f.dh /\ k.n = f.n
    BY DEF Banked
  <2>3. SameButBank(s, t) /\ t.Nr = s.Nr /\ t.skipped = s.skipped \ {k} /\ t.evicted = s.evicted
    BY <2>1 DEF SameButBank, Session
  <2> QED BY <2>1, <2>2, <2>3 DEF ByBank
<1>2. CASE Banked(s, f) = {}
  <2>1. PICK v \in Advance(p, s, f) : v.CKr = f.ck /\ v.Nr = f.n /\ t = [v EXCEPT !.Nr = @ + 1]
    BY <1>2 DEF decryptFrom, useChain
  <2>2. CASE s.haveDHr /\ f.dh = s.DHr
    <3>1. v \in skipTo(s, f.n)
      BY <2>2 DEF Advance
    <3>2. /\ SameButBank(s, v)
          /\ v.Nr = IF s.CKr = NoChain \/ f.n <= s.Nr THEN s.Nr ELSE f.n
          /\ Banks(v, s.skipped \cup Gap(s, f.n), s.evicted)
      BY <1>0, <3>1, SkipEffect
    <3>3. s.Nr <= f.n
      BY <1>0, <2>1, <3>2
    <3>4. SameButBank(v, t) /\ t.Nr = f.n + 1 /\ t.skipped = v.skipped /\ t.evicted = v.evicted
      <4>1. v \in Session
        BY <3>2 DEF SameButBank
      <4> QED BY <2>1, <4>1 DEF SameButBank, Session
    <3>5. SameButBank(s, t) /\ f.ck = s.CKr
      BY <2>1, <3>2, <3>4 DEF SameButBank
    <3>6. Banks(t, s.skipped \cup Gap(s, f.n), s.evicted)
      BY <3>2, <3>4 DEF Banks
    <3> QED BY <2>2, <3>3, <3>4, <3>5, <3>6 DEF ByChain
  <2>3. CASE ~(s.haveDHr /\ f.dh = s.DHr)
    <3>a. PICK s1 \in skipTo(s, f.pn) : \E s2 \in dhRatchet(p, s1, f.dh) : v \in skipTo(s2, f.n)
      BY <2>3 DEF Advance
    <3>1. PICK s2 \in dhRatchet(p, s1, f.dh) : v \in skipTo(s2, f.n)
      BY <3>a
    <3>2. /\ SameButBank(s, s1)
          /\ Banks(s1, s.skipped \cup Gap(s, f.pn), s.evicted)
      BY <1>0, SkipEffect
    <3>3. s1 \in Session /\ IsFiniteSet(s1.skipped)
      BY <3>2 DEF SameButBank, Banks
    <3>4. /\ Turned(p, s1, s2, f.dh) /\ s2.Nr = 0
          /\ Banks(s2, purgeUnreachableSkipped(s1.skipped, f.dh, s1.DHr), s1.evicted)
      BY <1>0, <3>3, TurnEffect
    <3>5. s2 \in Session /\ IsFiniteSet(s2.skipped) /\ Cardinality(s2.skipped) <= MaxSkippedTotal
      BY <3>4 DEF Turned, Banks
    <3>6. SameButBank(s2, v) /\ Banks(v, s2.skipped \cup Gap(s2, f.n), s2.evicted)
      BY <1>0, <3>1, <3>5, SkipEffect
    <3>7. SameButBank(v, t) /\ t.Nr = f.n + 1 /\ t.skipped = v.skipped /\ t.evicted = v.evicted
      <4>1. v \in Session
        BY <3>6 DEF SameButBank
      <4> QED BY <2>1, <4>1 DEF SameButBank, Session
    <3>8. Turned(p, s, t, f.dh) /\ f.ck = t.CKr /\ s2.CKr = f.ck /\ s2.DHr = f.dh
      <4>1. Turned(p, s, s2, f.dh)
        BY <3>2, <3>4 DEF SameButBank, Turned, RecvKey, SendKey
      <4> QED BY <2>1, <3>6, <3>7, <4>1 DEF SameButBank, Turned
    <3>9. Gap(s2, f.n) = NewKeys(f)
      BY <3>4, <3>8 DEF Gap, NewKeys
    <3>10. Banks(t, purgeUnreachableSkipped(s.skipped \cup Gap(s, f.pn), f.dh, s.DHr)
                       \cup NewKeys(f), s.evicted)
      <4>1. s1.DHr = s.DHr
        BY <3>2 DEF SameButBank
      <4> QED BY <3>2, <3>4, <3>6, <3>7, <3>9, <4>1 DEF Banks, purgeUnreachableSkipped
    <3> QED BY <2>3, <3>7, <3>8, <3>10 DEF ByTurn
  <2> QED BY <2>2, <2>3
<1> QED BY <1>1, <1>2

---------------------------------------------------------------------------
(* The inductive invariant, per end p with session s, over the frames A it *)
(* has read and the frames N that were written.                            *)

\* The counters of an end are tied to each other and to its chains.
SessionOK(p, s) ==
    /\ IF p = Initiator THEN s.DHs = s.DHr + 1 /\ s.haveDHr
                        ELSE s.DHs = s.DHr /\ s.haveDHr = (s.DHr > 0)
    /\ IsSendChain(p, s.DHs, s.RK) /\ s.CKs = s.RK
    /\ s.DHr > 0 => IsSendChain(Other(p), s.DHr, s.CKr)
    /\ s.DHr = 0 => s.CKr = NoChain
    /\ IsFiniteSet(s.skipped) /\ Cardinality(s.skipped) <= MaxSkippedTotal

\* An end has not seen more of its peer o than there is.
Behind(s, o) == s.DHr <= o.DHs /\ (s.DHr = o.DHs => s.Nr <= o.Ns)

\* What is banked is a passed index of one of the last two receiving chains.
BankOK(p, s) ==
    \A k \in s.skipped :
        /\ k.dh \in {s.DHr, s.DHr - 1} /\ k.dh > 0
        /\ IsSendChain(Other(p), k.dh, k.ck)
        /\ k.dh = s.DHr => k.n < s.Nr

\* A frame of p names its chain and is known by its generation and index, and pn
\* covers every frame of the chain before.
FramesOK(p, s, N) ==
    \A f \in N : f.from = p =>
        /\ 1 <= f.dh /\ f.dh <= s.DHs
        /\ IsSendChain(p, f.dh, f.ck)
        /\ f.dh = s.DHs => f.n < s.Ns /\ f.pn = s.PN
        /\ f.dh = s.DHs - 1 => f.n < s.PN
        /\ \A g \in N : g.from = p /\ g.dh = f.dh + 1 => f.n < g.pn
        /\ \A g \in N : g.from = p /\ g.dh = f.dh /\ g.n = f.n => g = f

\* What was read is behind the receiving chain and not banked.
AcceptedOK(p, s, A) ==
    \A f \in A :
        /\ f.from = Other(p) /\ f.dh <= s.DHr
        /\ f.dh = s.DHr => f.n < s.Nr
        /\ \A k \in s.skipped : ~(k.dh = f.dh /\ k.n = f.n)

KeyOf(f) == [dh |-> f.dh, n |-> f.n, ck |-> f.ck]

\* What was passed over, in the last two chains, is banked unless it was read or
\* the cap destroyed it.
CompleteOK(p, s, A, N) ==
    \A f \in N :
        /\ f.from = Other(p) /\ f.dh \in {s.DHr, s.DHr - 1}
        /\ f.dh = s.DHr => f.n < s.Nr
        => f \in A \/ KeyOf(f) \in s.skipped \cup s.evicted

EndOK(p, s, A, N) ==
    /\ SessionOK(p, s) /\ BankOK(p, s) /\ FramesOK(p, s, N)
    /\ AcceptedOK(p, s, A) /\ CompleteOK(p, s, A, N)

IInv ==
    /\ TypeOK
    /\ \A p \in Parties : /\ EndOK(p, session[p], accepted[p], net)
                          /\ Behind(session[p], session[Other(p)])
    /\ again = {}

\* The session has two ends.
LEMMA OtherParty ==
    ASSUME NEW p \in Parties
    PROVE  Other(p) \in Parties /\ Other(p) # p /\ Other(Other(p)) = p
  BY DEF Parties, Other, Initiator, Responder

\* What the three ways to open a frame have in common: the step of p, and where
\* it leaves both ends.
Opens(p, s, o, A, N, f) ==
    /\ p \in Parties /\ s \in Session /\ o \in Session /\ N \subseteq Frame
    /\ f \in N /\ f.from = Other(p) /\ A \subseteq N
    /\ EndOK(p, s, A, N) /\ FramesOK(Other(p), o, N) /\ Behind(s, o) /\ Behind(o, s)
Opened(p, t, o, A, N, f) ==
    EndOK(p, t, A \cup {f}, N) /\ Behind(t, o) /\ Behind(o, t)

\* A frame that is opened has a chain key, and it tells the generation.
LEMMA FrameChain ==
    ASSUME NEW p, NEW s, NEW o, NEW A, NEW N, NEW f, Opens(p, s, o, A, N, f)
    PROVE  /\ f \in Frame /\ 1 <= f.dh /\ f.dh <= o.DHs
           /\ IsSendChain(Other(p), f.dh, f.ck) /\ f.ck # NoChain
<1>1. /\ f \in Frame /\ 1 <= f.dh /\ f.dh <= o.DHs
      /\ IsSendChain(Other(p), f.dh, f.ck)
  BY DEF Opens, FramesOK
<1>2. f.dh \in Nat
  BY <1>1 DEF Frame
<1>3. Len(f.ck) >= 1
  BY <1>1, <1>2 DEF IsSendChain, SendLen
<1>4. f.ck # <<>>
  BY <1>3
<1> QED BY <1>1, <1>4 DEF NoChain

\* The frame's key was banked.
LEMMA BankOpens ==
    ASSUME NEW p, NEW s, NEW o, NEW A, NEW N, NEW f, NEW t,
           Opens(p, s, o, A, N, f), ByBank(s, f, t)
    PROVE  Opened(p, t, o, A, N, f)
<1>1. PICK k \in s.skipped :
        /\ k.dh = f.dh /\ k.n = f.n /\ k.ck = f.ck
        /\ SameButBank(s, t) /\ t.Nr = s.Nr
        /\ t.skipped = s.skipped \ {k} /\ t.evicted = s.evicted
  BY DEF ByBank
<1>2. /\ p \in Parties /\ s \in Session /\ o \in Session /\ f \in N /\ f.from = Other(p)
      /\ N \subseteq Frame /\ t \in Session
  BY <1>1 DEF Opens, SameButBank
<1>3. SessionOK(p, t)
  <2>1. IsFiniteSet(s.skipped) /\ Cardinality(s.skipped) \in Nat
    BY FS_CardinalityType DEF Opens, EndOK, SessionOK
  <2>2. IsFiniteSet(t.skipped) /\ Cardinality(t.skipped) <= Cardinality(s.skipped)
    BY <1>1, <2>1, FS_Subset
  <2>3. Cardinality(t.skipped) \in Nat
    BY <2>2, FS_CardinalityType
  <2>4. Cardinality(t.skipped) <= MaxSkippedTotal
    BY <2>1, <2>2, <2>3 DEF Opens, EndOK, SessionOK
  <2> QED BY <1>1, <2>2, <2>4 DEF Opens, EndOK, SessionOK, SameButBank
<1>4. BankOK(p, t)
  BY <1>1 DEF Opens, EndOK, BankOK, SameButBank
<1>5. FramesOK(p, t, N)
  BY <1>1 DEF Opens, EndOK, FramesOK, SameButBank
<1>6. Behind(t, o) /\ Behind(o, t)
  BY <1>1 DEF Opens, Behind, SameButBank
<1>7. AcceptedOK(p, t, A \cup {f})
  <2>1. ASSUME NEW g \in A
        PROVE  /\ g.from = Other(p) /\ g.dh <= t.DHr
               /\ g.dh = t.DHr => g.n < t.Nr
               /\ \A j \in t.skipped : ~(j.dh = g.dh /\ j.n = g.n)
    BY <1>1 DEF Opens, EndOK, AcceptedOK, SameButBank
  <2>2. f.dh <= t.DHr /\ (f.dh = t.DHr => f.n < t.Nr)
    <3>1. k.dh \in {s.DHr, s.DHr - 1} /\ (k.dh = s.DHr => k.n < s.Nr)
      BY DEF Opens, EndOK, BankOK
    <3>2. s.DHr \in Nat
      BY <1>2 DEF Session
    <3> QED BY <1>1, <3>1, <3>2 DEF SameButBank
  <2>3. ASSUME NEW j \in t.skipped, j.dh = f.dh, j.n = f.n PROVE FALSE
    <3>1. j \in s.skipped /\ j # k
      BY <1>1
    <3>2. /\ IsSendChain(Other(p), k.dh, k.ck) /\ IsSendChain(Other(p), j.dh, j.ck)
      BY <3>1 DEF Opens, EndOK, BankOK
    <3>3. j \in MessageKey /\ k \in MessageKey
      BY <1>2, <3>1 DEF Session
    <3>4. j.ck = k.ck
      BY <1>1, <2>3, <3>2, <3>3, CanonUnique DEF IsSendChain, MessageKey
    <3> QED BY <1>1, <2>3, <3>1, <3>3, <3>4 DEF MessageKey
  <2> QED BY <1>2, <2>1, <2>2, <2>3 DEF AcceptedOK
<1>8. CompleteOK(p, t, A \cup {f}, N)
  <2> SUFFICES ASSUME NEW g \in N, g.from = Other(p), g.dh \in {t.DHr, t.DHr - 1},
                      g.dh = t.DHr => g.n < t.Nr, g # f
               PROVE  g \in A \/ KeyOf(g) \in t.skipped \cup t.evicted
    BY DEF CompleteOK
  <2>1. g \in A \/ KeyOf(g) \in s.skipped \cup s.evicted
    BY <1>1 DEF Opens, EndOK, CompleteOK, SameButBank
  <2>2. CASE KeyOf(g) = k /\ g \notin A
    <3>1. g.dh = f.dh /\ g.n = f.n
      BY <1>1, <2>2 DEF KeyOf
    <3> QED BY <1>2, <3>1 DEF Opens, FramesOK
  <2> QED BY <1>1, <2>1, <2>2
<1> QED BY <1>3, <1>4, <1>5, <1>6, <1>7, <1>8 DEF Opened, EndOK

\* The frame continues the receiving chain.
LEMMA ChainOpens ==
    ASSUME NEW p, NEW s, NEW o, NEW A, NEW N, NEW f, NEW t,
           Opens(p, s, o, A, N, f), ByChain(s, f, t)
    PROVE  Opened(p, t, o, A, N, f)
<1>1. /\ p \in Parties /\ s \in Session /\ o \in Session /\ f \in N /\ f.from = Other(p)
      /\ N \subseteq Frame /\ A \subseteq N /\ t \in Session /\ f \in Frame
  BY DEF Opens, ByChain, SameButBank
<1>2. /\ s.DHr = f.dh /\ s.CKr = f.ck /\ s.Nr <= f.n /\ t.Nr = f.n + 1
      /\ SameButBank(s, t) /\ t.DHr = s.DHr
      /\ Banks(t, s.skipped \cup Gap(s, f.n), s.evicted)
  BY DEF ByChain, SameButBank
<1>3. 1 <= f.dh /\ IsSendChain(Other(p), f.dh, f.ck) /\ f.ck # NoChain
  BY FrameChain
<1>4. f.n \in Nat /\ f.dh \in Nat /\ s.Nr \in Nat /\ s.DHr \in Nat
  BY <1>1 DEF Frame, Session
<1>5. ASSUME NEW k \in t.skipped
      PROVE  \/ k \in s.skipped
             \/ k.dh = f.dh /\ k.ck = f.ck /\ k.n \in Nat /\ s.Nr <= k.n /\ k.n < f.n
  BY <1>2, <1>4 DEF Banks, Gap
<1>6. SessionOK(p, t)
  BY <1>2 DEF Opens, EndOK, SessionOK, SameButBank, Banks
<1>7. BankOK(p, t)
  <2> SUFFICES ASSUME NEW k \in t.skipped
               PROVE  /\ k.dh \in {t.DHr, t.DHr - 1} /\ k.dh > 0
                      /\ IsSendChain(Other(p), k.dh, k.ck)
                      /\ k.dh = t.DHr => k.n < t.Nr
    BY DEF BankOK
  <2>1. CASE k \in s.skipped
    <3>1. k.n \in Nat
      BY <1>1, <2>1 DEF Session, MessageKey
    <3> QED BY <1>2, <1>4, <2>1, <3>1 DEF Opens, EndOK, BankOK
  <2>2. CASE k \notin s.skipped
    BY <1>2, <1>3, <1>4, <1>5, <2>2
  <2> QED BY <2>1, <2>2
<1>8. FramesOK(p, t, N)
  BY <1>2 DEF Opens, EndOK, FramesOK, SameButBank
<1>9. Behind(t, o) /\ Behind(o, t)
  <2>1. f.dh = o.DHs => f.n < o.Ns
    BY <1>1 DEF Opens, FramesOK
  <2>2. o.Ns \in Nat
    BY <1>1 DEF Session
  <2> QED BY <1>2, <1>4, <2>1, <2>2 DEF Opens, Behind, SameButBank
<1>10. AcceptedOK(p, t, A \cup {f})
  <2>1. ASSUME NEW g \in A
        PROVE  /\ g.from = Other(p) /\ g.dh <= t.DHr
               /\ g.dh = t.DHr => g.n < t.Nr
               /\ \A j \in t.skipped : ~(j.dh = g.dh /\ j.n = g.n)
    <3>1. /\ g.from = Other(p) /\ g.dh <= s.DHr
          /\ g.dh = s.DHr => g.n < s.Nr
          /\ \A j \in s.skipped : ~(j.dh = g.dh /\ j.n = g.n)
      BY DEF Opens, EndOK, AcceptedOK
    <3>2. g.n \in Nat
      BY <1>1 DEF Frame
    <3>3. ASSUME NEW j \in t.skipped, j.dh = g.dh, j.n = g.n PROVE FALSE
      BY <1>2, <1>4, <1>5, <3>1, <3>2, <3>3
    <3> QED BY <1>2, <1>4, <3>1, <3>2, <3>3
  <2>2. ASSUME NEW j \in t.skipped, j.dh = f.dh, j.n = f.n PROVE FALSE
    <3>1. j \in s.skipped => j.n < s.Nr
      BY <1>2, <2>2 DEF Opens, EndOK, BankOK
    <3> QED BY <1>2, <1>4, <1>5, <2>2, <3>1
  <2> QED BY <1>1, <1>2, <1>4, <2>1, <2>2 DEF AcceptedOK
<1>11. CompleteOK(p, t, A \cup {f}, N)
  <2> SUFFICES ASSUME NEW g \in N, g.from = Other(p), g.dh \in {t.DHr, t.DHr - 1},
                      g.dh = t.DHr => g.n < t.Nr, g # f
               PROVE  g \in A \/ KeyOf(g) \in t.skipped \cup t.evicted
    BY DEF CompleteOK
  <2>1. g \in Frame /\ g.n \in Nat /\ g.ck \in Chain /\ f.ck \in Chain
    BY <1>1 DEF Frame
  <2>2. CASE g.dh = s.DHr => g.n < s.Nr
    <3>1. g \in A \/ KeyOf(g) \in s.skipped \cup s.evicted
      BY <1>2, <2>2 DEF Opens, EndOK, CompleteOK
    <3> QED BY <1>2, <3>1 DEF Banks
  <2>3. CASE g.dh = s.DHr /\ ~(g.n < s.Nr)
    <3>1. g.n # f.n
      BY <1>1, <1>2, <2>3 DEF Opens, FramesOK
    <3>2. g.n \in s.Nr .. f.n - 1
      BY <1>2, <1>4, <2>1, <2>3, <3>1
    <3>3. IsSendChain(Other(p), g.dh, g.ck)
      BY DEF Opens, FramesOK
    <3>4. g.ck = f.ck
      BY <1>2, <1>3, <2>1, <2>3, <3>3, CanonUnique DEF IsSendChain
    <3>5. KeyOf(g) \in Gap(s, f.n)
      BY <1>2, <1>3, <2>3, <3>2, <3>4 DEF Gap, KeyOf
    <3> QED BY <1>2, <3>5 DEF Banks
  <2> QED BY <2>2, <2>3
<1> QED BY <1>6, <1>7, <1>8, <1>9, <1>10, <1>11 DEF Opened, EndOK

\* A turn goes to the peer's next generation, on chains that stay in order.
LEMMA TurnChains ==
    ASSUME NEW p, NEW s, NEW o, NEW A, NEW N, NEW f, NEW t,
           Opens(p, s, o, A, N, f), ByTurn(p, s, f, t)
    PROVE  f.dh = s.DHr + 1 /\ IsSendChain(p, s.DHs + 1, t.RK)
<1>1. p \in Parties /\ s \in Session /\ f \in Frame
  BY DEF Opens
<1>2. 1 <= f.dh /\ IsSendChain(Other(p), f.dh, f.ck)
  BY FrameChain
<1>3. /\ IF p = Initiator THEN s.DHs = s.DHr + 1 /\ s.haveDHr
                          ELSE s.DHs = s.DHr /\ s.haveDHr = (s.DHr > 0)
      /\ IsSendChain(p, s.DHs, s.RK)
  BY DEF Opens, EndOK, SessionOK
<1>4. /\ f.ck = Append(s.RK, dhFn(p, s.DHs, f.dh))
      /\ t.RK = Append(f.ck, dhFn(p, s.DHs + 1, f.dh))
  BY DEF ByTurn, Turned, RecvKey, SendKey, kdfRk
<1>5. s.DHs \in Nat /\ s.DHr \in Nat /\ f.dh \in Nat /\ s.RK \in Chain /\ f.ck \in Chain
  BY <1>1 DEF Session, Frame
<1>6. Len(f.ck) = Len(s.RK) + 1
  <2>1. s.RK \in Seq(Nat \X Nat) /\ dhFn(p, s.DHs, f.dh) \in Nat \X Nat
    BY <1>5 DEF Chain, dhFn
  <2> QED BY <1>4, <2>1, AppendProperties
<1>7. /\ Len(f.ck) = IF p = Initiator THEN 2 * f.dh ELSE 2 * f.dh - 1
      /\ Len(s.RK) = IF p = Initiator THEN 2 * s.DHs - 1 ELSE 2 * s.DHs
  BY <1>1, <1>2, <1>3 DEF IsSendChain, SendLen, Other, Parties, Initiator, Responder
<1>8. f.dh = s.DHr + 1
  BY <1>3, <1>5, <1>6, <1>7
<1>9. ASSUME NEW a \in Nat, NEW b \in Nat, a + b = Len(f.ck) + 1, a - b \in {0, 1}
      PROVE  Canon(Append(f.ck, <<a, b>>)) /\ Len(Append(f.ck, <<a, b>>)) = Len(f.ck) + 1
  <2>1. Canon(f.ck) /\ f.ck \in Chain
    BY <1>2, <1>5 DEF IsSendChain
  <2> QED BY <1>9, <2>1, CanonAppend, Zenon
<1> DEFINE own == s.DHs + 1
<1>10. own \in Nat /\ own = s.DHs + 1
  BY <1>5
<1>11. t.RK = Append(f.ck, dhFn(p, own, f.dh))
  BY <1>4
<1> HIDE DEF own
<1>12. CASE p = Initiator
  <2>1. t.RK = Append(f.ck, <<own, f.dh>>)
    BY <1>11, <1>12 DEF dhFn
  <2>2. own = f.dh + 1 /\ Len(f.ck) = 2 * f.dh
    <3>1. s.DHs = s.DHr + 1 /\ Len(f.ck) = 2 * f.dh
      BY <1>3, <1>7, <1>12
    <3> QED BY <1>5, <1>8, <1>10, <3>1
  <2>3. own + f.dh = Len(f.ck) + 1 /\ own - f.dh \in {0, 1}
    <3>1. f.dh \in Nat
      BY <1>5
    <3>2. own + f.dh = Len(f.ck) + 1
      BY <2>2, <3>1
    <3>3. own - f.dh = 1
      BY <2>2, <3>1
    <3> QED BY <3>2, <3>3
  <2>4. Canon(t.RK) /\ Len(t.RK) = Len(f.ck) + 1
    BY <1>5, <1>9, <1>10, <2>1, <2>3, Zenon
  <2>5. Len(t.RK) = 2 * own - 1
    <3>1. f.dh \in Nat
      BY <1>5
    <3> QED BY <2>2, <2>4, <3>1
  <2> QED BY <1>8, <1>10, <1>12, <2>4, <2>5 DEF IsSendChain, SendLen
<1>13. CASE p # Initiator
  <2>1. t.RK = Append(f.ck, <<f.dh, own>>)
    BY <1>11, <1>13 DEF dhFn
  <2>2. own = f.dh /\ Len(f.ck) = 2 * f.dh - 1
    <3>1. s.DHs = s.DHr /\ Len(f.ck) = 2 * f.dh - 1
      BY <1>3, <1>7, <1>13
    <3> QED BY <1>5, <1>8, <1>10, <3>1
  <2>3. f.dh + own = Len(f.ck) + 1 /\ f.dh - own \in {0, 1}
    <3>1. f.dh \in Nat
      BY <1>5
    <3>2. f.dh + own = Len(f.ck) + 1
      BY <2>2, <3>1
    <3>3. f.dh - own = 0
      BY <2>2, <3>1
    <3> QED BY <3>2, <3>3
  <2>4. Canon(t.RK) /\ Len(t.RK) = Len(f.ck) + 1
    <3>1. f.dh \in Nat /\ own \in Nat
      BY <1>5, <1>10
    <3>2. /\ Canon(Append(f.ck, <<f.dh, own>>))
          /\ Len(Append(f.ck, <<f.dh, own>>)) = Len(f.ck) + 1
      BY <1>9, <2>3, <3>1
    <3> QED BY <2>1, <3>2
  <2>5. Len(t.RK) = 2 * own
    <3>1. f.dh \in Nat
      BY <1>5
    <3> QED BY <2>2, <2>4, <3>1
  <2> QED BY <1>8, <1>10, <1>13, <2>4, <2>5 DEF IsSendChain, SendLen
<1> QED BY <1>12, <1>13

\* The frame opens a new receiving chain.
LEMMA TurnOpens ==
    ASSUME NEW p, NEW s, NEW o, NEW A, NEW N, NEW f, NEW t,
           Opens(p, s, o, A, N, f), ByTurn(p, s, f, t)
    PROVE  Opened(p, t, o, A, N, f)
<1> DEFINE kept == purgeUnreachableSkipped(s.skipped \cup Gap(s, f.pn), f.dh, s.DHr)
<1>1. /\ p \in Parties /\ s \in Session /\ o \in Session /\ f \in N /\ f.from = Other(p)
      /\ N \subseteq Frame /\ A \subseteq N /\ t \in Session /\ f \in Frame
  BY DEF Opens, ByTurn, Turned
<1>2. /\ t.PN = s.Ns /\ t.Ns = 0 /\ t.DHr = f.dh /\ t.haveDHr = TRUE /\ t.DHs = s.DHs + 1
      /\ t.CKr = f.ck /\ t.CKs = t.RK /\ t.Nr = f.n + 1
      /\ Banks(t, kept \cup NewKeys(f), s.evicted)
  BY DEF ByTurn, Turned
<1>3. 1 <= f.dh /\ IsSendChain(Other(p), f.dh, f.ck) /\ f.dh <= o.DHs
  BY FrameChain
<1>4. f.dh = s.DHr + 1 /\ IsSendChain(p, s.DHs + 1, t.RK)
  BY TurnChains
<1>5. f.n \in Nat /\ f.pn \in Nat /\ f.dh \in Nat /\ s.Nr \in Nat /\ s.DHr \in Nat
      /\ s.DHs \in Nat /\ s.Ns \in Nat
  BY <1>1 DEF Frame, Session
<1>6. ASSUME NEW k \in t.skipped
      PROVE  \/ k \in s.skipped /\ k.dh = s.DHr
             \/ /\ k.dh = s.DHr /\ s.CKr # NoChain /\ k.ck = s.CKr
                /\ k.n \in Nat /\ s.Nr <= k.n
             \/ k.dh = f.dh /\ k.ck = f.ck /\ k.n \in Nat /\ k.n < f.n
  <2>1. k \in kept \/ k \in NewKeys(f)
    BY <1>2 DEF Banks
  <2>2. CASE k \in NewKeys(f)
    BY <1>5, <2>2 DEF NewKeys
  <2>3. CASE k \in kept
    <3>1. k.dh \in {f.dh, s.DHr} /\ (k \in s.skipped \/ k \in Gap(s, f.pn))
      BY <2>3 DEF purgeUnreachableSkipped
    <3>2. CASE k \in s.skipped
      <4>1. k.dh \in {s.DHr, s.DHr - 1}
        BY <3>2 DEF Opens, EndOK, BankOK
      <4> QED BY <1>4, <1>5, <3>1, <3>2, <4>1
    <3>3. CASE k \in Gap(s, f.pn)
      BY <1>5, <3>3 DEF Gap
    <3> QED BY <3>1, <3>2, <3>3
  <2> QED BY <2>1, <2>2, <2>3
<1>7. SessionOK(p, t)
  <2>1. IF p = Initiator THEN t.DHs = t.DHr + 1 /\ t.haveDHr
                        ELSE t.DHs = t.DHr /\ t.haveDHr = (t.DHr > 0)
    <3>1. IF p = Initiator THEN s.DHs = s.DHr + 1 ELSE s.DHs = s.DHr
      BY DEF Opens, EndOK, SessionOK
    <3>2. t.DHr > 0
      BY <1>2, <1>3, <1>5
    <3>3. IF p = Initiator THEN t.DHs = t.DHr + 1 ELSE t.DHs = t.DHr
      BY <1>2, <1>4, <1>5, <3>1
    <3> QED BY <1>2, <3>2, <3>3
  <2>2. t.DHr # 0
    BY <1>2, <1>3, <1>5
  <2> QED BY <1>2, <1>3, <1>4, <2>1, <2>2 DEF SessionOK, Banks
<1>8. s.CKr # NoChain => s.DHr > 0 /\ IsSendChain(Other(p), s.DHr, s.CKr)
  BY <1>5 DEF Opens, EndOK, SessionOK
<1>9. BankOK(p, t)
  <2> SUFFICES ASSUME NEW k \in t.skipped
               PROVE  /\ k.dh \in {t.DHr, t.DHr - 1} /\ k.dh > 0
                      /\ IsSendChain(Other(p), k.dh, k.ck)
                      /\ k.dh = t.DHr => k.n < t.Nr
    BY DEF BankOK
  <2>1. CASE k.dh = s.DHr
    <3>1. k.dh = t.DHr - 1 /\ k.dh # t.DHr
      BY <1>2, <1>4, <1>5, <2>1
    <3>2. k.dh > 0 /\ IsSendChain(Other(p), k.dh, k.ck)
      <4>1. CASE k \in s.skipped
        BY <4>1 DEF Opens, EndOK, BankOK
      <4>2. CASE k \notin s.skipped
        <5>1. s.DHr # f.dh
          BY <1>4, <1>5
        <5> QED BY <1>6, <1>8, <2>1, <4>2, <5>1
      <4> QED BY <4>1, <4>2
    <3> QED BY <3>1, <3>2
  <2>2. CASE k.dh # s.DHr
    BY <1>2, <1>3, <1>5, <1>6, <2>2
  <2> QED BY <2>1, <2>2
<1>10. FramesOK(p, t, N)
  <2> SUFFICES ASSUME NEW g \in N, g.from = p
               PROVE  /\ 1 <= g.dh /\ g.dh <= t.DHs
                      /\ IsSendChain(p, g.dh, g.ck)
                      /\ g.dh = t.DHs => g.n < t.Ns /\ g.pn = t.PN
                      /\ g.dh = t.DHs - 1 => g.n < t.PN
                      /\ \A h \in N : h.from = p /\ h.dh = g.dh + 1 => g.n < h.pn
                      /\ \A h \in N : h.from = p /\ h.dh = g.dh /\ h.n = g.n => h = g
    BY DEF FramesOK
  <2>1. /\ 1 <= g.dh /\ g.dh <= s.DHs
        /\ IsSendChain(p, g.dh, g.ck)
        /\ g.dh = s.DHs => g.n < s.Ns
        /\ \A h \in N : h.from = p /\ h.dh = g.dh + 1 => g.n < h.pn
        /\ \A h \in N : h.from = p /\ h.dh = g.dh /\ h.n = g.n => h = g
    BY DEF Opens, EndOK, FramesOK
  <2>2. g.dh \in Nat
    BY <1>1 DEF Frame
  <2>3. g.dh <= t.DHs /\ g.dh # t.DHs /\ (g.dh = t.DHs - 1 => g.n < t.PN)
    BY <1>2, <1>5, <2>1, <2>2
  <2> QED BY <2>1, <2>3
<1>11. Behind(t, o) /\ Behind(o, t)
  <2>1. f.dh = o.DHs => f.n < o.Ns
    BY <1>1 DEF Opens, FramesOK
  <2>2. o.Ns \in Nat /\ o.DHr \in Nat
    BY <1>1 DEF Session
  <2>3. o.DHr <= s.DHs
    BY DEF Opens, Behind
  <2> QED BY <1>2, <1>3, <1>5, <2>1, <2>2, <2>3 DEF Behind
<1>12. AcceptedOK(p, t, A \cup {f})
  <2>1. ASSUME NEW g \in A
        PROVE  /\ g.from = Other(p) /\ g.dh <= t.DHr
               /\ g.dh = t.DHr => g.n < t.Nr
               /\ \A j \in t.skipped : ~(j.dh = g.dh /\ j.n = g.n)
    <3>1. /\ g.from = Other(p) /\ g.dh <= s.DHr
          /\ g.dh = s.DHr => g.n < s.Nr
          /\ \A j \in s.skipped : ~(j.dh = g.dh /\ j.n = g.n)
      BY DEF Opens, EndOK, AcceptedOK
    <3>2. g.n \in Nat /\ g.dh \in Nat
      BY <1>1 DEF Frame
    <3>3. g.dh <= t.DHr /\ g.dh # t.DHr
      BY <1>2, <1>4, <1>5, <3>1, <3>2
    <3>4. ASSUME NEW j \in t.skipped, j.dh = g.dh, j.n = g.n PROVE FALSE
      <4>1. j \notin s.skipped /\ j.dh # f.dh
        BY <1>2, <3>1, <3>3, <3>4
      <4>2. j.dh = s.DHr /\ s.Nr <= j.n
        BY <1>6, <4>1
      <4> QED BY <1>5, <3>1, <3>2, <3>4, <4>2
    <3> QED BY <3>1, <3>3, <3>4
  <2>2. ASSUME NEW j \in t.skipped, j.dh = f.dh, j.n = f.n PROVE FALSE
    BY <1>4, <1>5, <1>6, <2>2
  <2> QED BY <1>1, <1>2, <1>5, <2>1, <2>2 DEF AcceptedOK
<1>13. CompleteOK(p, t, A \cup {f}, N)
  <2> SUFFICES ASSUME NEW g \in N, g.from = Other(p), g.dh \in {t.DHr, t.DHr - 1},
                      g.dh = t.DHr => g.n < t.Nr, g # f
               PROVE  g \in A \/ KeyOf(g) \in t.skipped \cup t.evicted
    BY DEF CompleteOK
  <2>1. g \in Frame /\ g.n \in Nat /\ g.dh \in Nat /\ g.ck \in Chain /\ f.ck \in Chain
    BY <1>1 DEF Frame
  <2>2. 1 <= g.dh /\ IsSendChain(Other(p), g.dh, g.ck)
    BY DEF Opens, FramesOK
  <2>3. CASE g.dh = f.dh
    <3>1. g.n # f.n
      BY <1>1, <2>3 DEF Opens, FramesOK
    <3>2. g.n \in 0 .. f.n - 1
      BY <1>2, <1>5, <2>1, <2>3, <3>1
    <3>3. g.ck = f.ck
      BY <1>3, <2>1, <2>2, <2>3, CanonUnique DEF IsSendChain
    <3>4. KeyOf(g) \in NewKeys(f)
      BY <2>3, <3>2, <3>3 DEF NewKeys, KeyOf
    <3> QED BY <1>2, <3>4 DEF Banks
  <2>4. CASE g.dh # f.dh
    <3>1. g.dh = s.DHr /\ f.dh = g.dh + 1
      BY <1>2, <1>4, <1>5, <2>4
    <3>2. g.n < f.pn
      BY <1>1, <3>1 DEF Opens, FramesOK
    <3>3. CASE g.n < s.Nr
      <4>1. g \in A \/ KeyOf(g) \in s.skipped \/ KeyOf(g) \in s.evicted
        BY <3>1, <3>3 DEF Opens, EndOK, CompleteOK
      <4>2. KeyOf(g) \in s.skipped => KeyOf(g) \in kept
        BY <3>1 DEF purgeUnreachableSkipped, KeyOf
      <4> QED BY <1>2, <4>1, <4>2 DEF Banks
    <3>4. CASE ~(g.n < s.Nr)
      <4>1. IsSendChain(Other(p), s.DHr, s.CKr) /\ s.CKr \in Chain
        <5>1. s.DHr > 0
          BY <1>5, <2>2, <3>1
        <5> QED BY <1>1, <5>1 DEF Opens, EndOK, SessionOK, Session
      <4>2. g.ck = s.CKr
        BY <2>1, <2>2, <3>1, <4>1, CanonUnique DEF IsSendChain
      <4>3. g.ck # NoChain
        <5>1. Len(g.ck) >= 1
          BY <2>1, <2>2 DEF IsSendChain, SendLen
        <5>2. g.ck # <<>>
          BY <5>1
        <5> QED BY <5>2 DEF NoChain
      <4>4. g.n \in s.Nr .. f.pn - 1
        BY <1>5, <2>1, <3>2, <3>4
      <4>5. KeyOf(g) \in Gap(s, f.pn)
        BY <3>1, <4>2, <4>3, <4>4 DEF Gap, KeyOf
      <4>6. KeyOf(g) \in kept
        BY <3>1, <4>5 DEF purgeUnreachableSkipped, KeyOf
      <4> QED BY <1>2, <4>6 DEF Banks
    <3> QED BY <3>3, <3>4
  <2> QED BY <2>3, <2>4
<1> QED BY <1>7, <1>9, <1>10, <1>11, <1>12, <1>13 DEF Opened, EndOK

\* A frame that was read cannot be opened again, whichever way.
LEMMA ReadOnce ==
    ASSUME NEW p, NEW s, NEW o, NEW A, NEW N, NEW f, NEW t, Opens(p, s, o, A, N, f),
           ByBank(s, f, t) \/ ByChain(s, f, t) \/ ByTurn(p, s, f, t)
    PROVE  f \notin A
<1> SUFFICES ASSUME f \in A PROVE FALSE
  OBVIOUS
<1>1. /\ f.dh <= s.DHr /\ (f.dh = s.DHr => f.n < s.Nr)
      /\ \A k \in s.skipped : ~(k.dh = f.dh /\ k.n = f.n)
  BY DEF Opens, EndOK, AcceptedOK
<1>2. f.n \in Nat /\ f.dh \in Nat /\ s.Nr \in Nat /\ s.DHr \in Nat
  BY DEF Opens, Frame, Session
<1>3. ~ByBank(s, f, t)
  BY <1>1 DEF ByBank
<1>4. ~ByChain(s, f, t)
  BY <1>1, <1>2 DEF ByChain
<1>5. ~ByTurn(p, s, f, t)
  BY <1>1, <1>2, TurnChains
<1> QED BY <1>3, <1>4, <1>5

\* A session, its peer and the frames after p encrypted f.
Writes(p, s, o, A, B, N, f, t) ==
    /\ p \in Parties /\ s \in Session /\ o \in Session /\ N \subseteq Frame
    /\ s.CKs # NoChain
    /\ f = [from |-> p, dh |-> s.DHs, pn |-> s.PN, n |-> s.Ns, ck |-> s.CKs]
    /\ t = [s EXCEPT !.Ns = @ + 1]
    /\ EndOK(p, s, A, N) /\ EndOK(Other(p), o, B, N)
    /\ Behind(s, o) /\ Behind(o, s)

\* The new frame is the last of its chain, which the peer has not passed.
LEMMA WriteKeeps ==
    ASSUME NEW p, NEW s, NEW o, NEW A, NEW B, NEW N, NEW f, NEW t,
           Writes(p, s, o, A, B, N, f, t)
    PROVE  /\ f \in Frame /\ t \in Session
           /\ EndOK(p, t, A, N \cup {f}) /\ EndOK(Other(p), o, B, N \cup {f})
           /\ Behind(t, o) /\ Behind(o, t)
<1>1. /\ p \in Parties /\ s \in Session /\ o \in Session /\ N \subseteq Frame
      /\ s.CKs # NoChain
  BY DEF Writes
<1>2. /\ f \in Frame /\ f.from = p /\ f.dh = s.DHs /\ f.pn = s.PN /\ f.n = s.Ns /\ f.ck = s.CKs
  BY DEF Writes, Frame, Session
<1>3. /\ t \in Session /\ t.DHs = s.DHs /\ t.DHr = s.DHr /\ t.haveDHr = s.haveDHr /\ t.RK = s.RK
      /\ t.CKs = s.CKs /\ t.CKr = s.CKr /\ t.Nr = s.Nr /\ t.PN = s.PN
      /\ t.skipped = s.skipped /\ t.evicted = s.evicted /\ t.Ns = s.Ns + 1
  BY DEF Writes, Session
<1>4. s.DHs \in Nat /\ s.Ns \in Nat /\ s.PN \in Nat /\ o.DHr \in Nat /\ o.Nr \in Nat
  BY <1>1 DEF Session
<1>5. p # Other(p) /\ Other(Other(p)) = p
  BY <1>1, OtherParty
<1>6. s.CKs = s.RK /\ IsSendChain(p, s.DHs, s.RK)
  BY DEF Writes, EndOK, SessionOK
<1>7. 1 <= s.DHs
  <2>1. CASE p = Initiator
    <3>1. s.DHs = s.DHr + 1 /\ s.DHr \in Nat
      BY <1>1, <2>1 DEF Writes, EndOK, SessionOK, Session
    <3> QED BY <3>1
  <2>2. CASE p # Initiator
    <3>1. s.RK \in Seq(Nat \X Nat)
      BY <1>1 DEF Session, Chain
    <3>2. Len(s.RK) = 2 * s.DHs
      BY <1>6, <2>2 DEF IsSendChain, SendLen
    <3>3. Len(s.RK) # 0
      BY <1>1, <1>6, <3>1, EmptySeq DEF NoChain
    <3> QED BY <1>4, <3>2, <3>3
  <2> QED BY <2>1, <2>2
<1>8. SessionOK(p, t) /\ BankOK(p, t) /\ AcceptedOK(p, t, A)
  BY <1>3 DEF Writes, EndOK, SessionOK, BankOK, AcceptedOK
<1>9. CompleteOK(p, t, A, N \cup {f})
  BY <1>2, <1>3, <1>5 DEF Writes, EndOK, CompleteOK
<1>10. FramesOK(p, t, N \cup {f})
  <2>0. \A g \in N : g.dh \in Nat /\ g.n \in Nat
    BY <1>1 DEF Frame
  <2>1. ASSUME NEW g \in N, g.from = p
        PROVE  /\ 1 <= g.dh /\ g.dh <= s.DHs
               /\ IsSendChain(p, g.dh, g.ck)
               /\ g.dh = s.DHs => g.n < s.Ns /\ g.pn = s.PN
               /\ g.dh = s.DHs - 1 => g.n < s.PN
               /\ \A h \in N : h.from = p /\ h.dh = g.dh + 1 => g.n < h.pn
               /\ \A h \in N : h.from = p /\ h.dh = g.dh /\ h.n = g.n => h = g
    BY <2>1 DEF Writes, EndOK, FramesOK
  <2>2. ASSUME NEW g \in N, g.from = p
        PROVE  /\ g.dh = t.DHs => g.n < t.Ns
               /\ f.dh = g.dh + 1 => g.n < f.pn
               /\ ~(f.dh = g.dh /\ f.n = g.n)
               /\ g.dh # f.dh + 1
    BY <1>2, <1>3, <1>4, <2>0, <2>1, <2>2
  <2>3. /\ f.dh = t.DHs /\ f.dh # t.DHs - 1 /\ f.n < t.Ns /\ f.dh # f.dh + 1 /\ 1 <= f.dh
        /\ IsSendChain(p, f.dh, f.ck) /\ f.pn = t.PN
    BY <1>2, <1>3, <1>4, <1>6, <1>7
  <2>4. ASSUME NEW g \in N \cup {f}, g.from = p
        PROVE  /\ 1 <= g.dh /\ g.dh <= t.DHs
               /\ IsSendChain(p, g.dh, g.ck)
               /\ g.dh = t.DHs => g.n < t.Ns /\ g.pn = t.PN
               /\ g.dh = t.DHs - 1 => g.n < t.PN
    BY <1>3, <1>4, <2>1, <2>2, <2>3, <2>4
  <2>5. ASSUME NEW g \in N \cup {f}, NEW h \in N \cup {f}, g.from = p, h.from = p
        PROVE  /\ h.dh = g.dh + 1 => g.n < h.pn
               /\ h.dh = g.dh /\ h.n = g.n => h = g
    BY <2>1, <2>2, <2>3, <2>5
  <2> QED BY <2>4, <2>5 DEF FramesOK
<1>11. FramesOK(Other(p), o, N \cup {f})
  BY <1>2, <1>5 DEF Writes, EndOK, FramesOK
<1>12. CompleteOK(Other(p), o, B, N \cup {f})
  <2>1. ~(f.dh \in {o.DHr, o.DHr - 1} /\ (f.dh = o.DHr => f.n < o.Nr))
    BY <1>2, <1>4 DEF Writes, Behind
  <2> QED BY <2>1 DEF Writes, EndOK, CompleteOK
<1>13. Behind(t, o) /\ Behind(o, t)
  BY <1>3, <1>4 DEF Writes, Behind
<1> QED BY <1>2, <1>3, <1>8, <1>9, <1>10, <1>11, <1>12, <1>13 DEF Writes, EndOK

---------------------------------------------------------------------------
(* The invariant holds initially and is kept by both operations.           *)

\* sessionFor establishes the invariant.
LEMMA InitInvariant == Init => IInv
<1> SUFFICES ASSUME Init PROVE IInv
  OBVIOUS
<1> USE DEF Init
<1> DEFINE c == <<(<<1, 0>>)>>
<1>1. /\ InitiatorSession.RK = c /\ c \in Chain /\ Len(c) = 1 /\ c[1] = <<1, 0>>
      /\ <<>> \in Chain /\ Len(<<>>) = 0
  BY DEF InitiatorSession, kdfRk, dhFn, Chain
<1>2. InitiatorSession \in Session /\ ResponderSession \in Session
  BY <1>1 DEF InitiatorSession, ResponderSession, Session, NoChain, kdfRk, dhFn
<1>3. session[Initiator] = InitiatorSession /\ session[Responder] = ResponderSession
  BY DEF Parties, Initiator, Responder
<1>4. TypeOK
  <2>1. session \in [Parties -> Session]
    BY <1>2
  <2> QED BY <2>1 DEF TypeOK, Session
<1>5. IsSendChain(Initiator, 1, InitiatorSession.RK)
  BY <1>1 DEF IsSendChain, SendLen, Canon
<1>6. IsSendChain(Responder, 0, <<>>)
  BY <1>1 DEF IsSendChain, SendLen, Canon, Initiator, Responder
<1>7. IsFiniteSet({}) /\ Cardinality({}) = 0
  BY FS_EmptySet
<1>8. SessionOK(Initiator, InitiatorSession)
  <2>1. /\ InitiatorSession.DHs = 1 /\ InitiatorSession.DHr = 0 /\ InitiatorSession.haveDHr
        /\ InitiatorSession.CKr = NoChain /\ InitiatorSession.skipped = {}
        /\ InitiatorSession.CKs = InitiatorSession.RK
    BY DEF InitiatorSession
  <2> QED BY <1>5, <1>7, <2>1 DEF SessionOK
<1>9. SessionOK(Responder, ResponderSession)
  <2>1. /\ ResponderSession.DHs = 0 /\ ResponderSession.DHr = 0 /\ ~ResponderSession.haveDHr
        /\ ResponderSession.CKr = NoChain /\ ResponderSession.skipped = {}
        /\ ResponderSession.CKs = <<>> /\ ResponderSession.RK = <<>>
        /\ ResponderSession.haveDHr = FALSE
    BY DEF ResponderSession, NoChain
  <2>2. ~(ResponderSession.DHr > 0) /\ (ResponderSession.DHr > 0) = FALSE
    BY <2>1
  <2>3. ResponderSession.haveDHr = (ResponderSession.DHr > 0)
    BY <2>1, <2>2, Zenon
  <2>4. Responder # Initiator
    BY DEF Initiator, Responder
  <2>5. /\ IsSendChain(Responder, ResponderSession.DHs, ResponderSession.RK)
        /\ IsFiniteSet(ResponderSession.skipped)
        /\ Cardinality(ResponderSession.skipped) <= MaxSkippedTotal
    BY <1>6, <1>7, <2>1
  <2> QED BY <2>1, <2>2, <2>3, <2>4, <2>5, Zenon DEF SessionOK
<1>10. \A p \in Parties : accepted[p] = {} /\ session[p].skipped = {} /\ SessionOK(p, session[p])
  BY <1>3, <1>8, <1>9 DEF Parties, InitiatorSession, ResponderSession
<1>11. \A p \in Parties : EndOK(p, session[p], accepted[p], net)
  BY <1>10 DEF EndOK, BankOK, FramesOK, AcceptedOK, CompleteOK
<1>12. \A p \in Parties : Behind(session[p], session[Other(p)])
  BY <1>3 DEF Behind, Parties, Other, Initiator, Responder, InitiatorSession, ResponderSession
<1> QED BY <1>4, <1>11, <1>12 DEF IInv

\* The typed state, with the records named.
LEMMA Typed ==
    TypeOK <=> /\ session \in [Parties -> Session] /\ net \subseteq Frame
               /\ accepted \in [Parties -> SUBSET net] /\ again \subseteq net
               /\ frames \in [Parties -> 0 .. MaxFrames]
  BY DEF TypeOK, Session

\* encryptFor keeps it.
LEMMA EncryptStep ==
    ASSUME IInv, NEW p \in Parties, Encrypt(p)
    PROVE  IInv'
<1> DEFINE s == session[p]
           o == session[Other(p)]
           t == [s EXCEPT !.Ns = @ + 1]
           f == [from |-> p, dh |-> s.DHs, pn |-> s.PN, n |-> s.Ns, ck |-> s.CKs]
<1>1. /\ session \in [Parties -> Session] /\ net \subseteq Frame
      /\ accepted \in [Parties -> SUBSET net] /\ again \subseteq net
      /\ frames \in [Parties -> 0 .. MaxFrames]
  BY Typed DEF IInv
<1>2. Other(p) \in Parties /\ Other(p) # p /\ Other(Other(p)) = p
  BY OtherParty
<1>3. /\ s.CKs # NoChain /\ frames[p] < MaxFrames /\ net' = net \cup {f}
      /\ session' = [session EXCEPT ![p] = t]
      /\ frames' = [frames EXCEPT ![p] = @ + 1] /\ accepted' = accepted /\ again' = again
  BY DEF Encrypt
<1>4. Writes(p, s, o, accepted[p], accepted[Other(p)], net, f, t)
  BY <1>1, <1>2, <1>3 DEF IInv, Writes
<1>5. session'[p] = t /\ session'[Other(p)] = o
  BY <1>1, <1>2, <1>3
<1> HIDE DEF s, o, t, f
<1>6. /\ f \in Frame /\ t \in Session
      /\ EndOK(p, t, accepted[p], net \cup {f})
      /\ EndOK(Other(p), o, accepted[Other(p)], net \cup {f})
      /\ Behind(t, o) /\ Behind(o, t)
  BY <1>4, WriteKeeps
<1>7. TypeOK'
  <2>1. session' \in [Parties -> Session] /\ net' \subseteq Frame
    BY <1>1, <1>3, <1>6
  <2>2. accepted' \in [Parties -> SUBSET net'] /\ again' \subseteq net'
    BY <1>1, <1>3
  <2>3. frames' \in [Parties -> 0 .. MaxFrames]
    <3>1. frames[p] + 1 \in 0 .. MaxFrames
      BY <1>1, <1>3
    <3> QED BY <1>1, <1>3, <3>1
  <2> QED BY <2>1, <2>2, <2>3 DEF TypeOK, Session
<1>8. ASSUME NEW r \in Parties
      PROVE  EndOK(r, session'[r], accepted'[r], net') /\ Behind(session'[r], session'[Other(r)])
  <2>1. r = p \/ r = Other(p)
    BY DEF Parties, Other
  <2> QED BY <1>2, <1>3, <1>5, <1>6, <2>1
<1> QED BY <1>3, <1>7, <1>8 DEF IInv

\* decryptFrom keeps it, whichever frame ever written arrives.
LEMMA DecryptStep ==
    ASSUME IInv, NEW p \in Parties, NEW f \in net, Decrypt(p, f)
    PROVE  IInv'
<1> DEFINE s == session[p]
           o == session[Other(p)]
<1>1. /\ session \in [Parties -> Session] /\ net \subseteq Frame
      /\ accepted \in [Parties -> SUBSET net] /\ again \subseteq net
      /\ frames \in [Parties -> 0 .. MaxFrames]
  BY Typed DEF IInv
<1>2. Other(p) \in Parties /\ Other(p) # p /\ Other(Other(p)) = p
  BY OtherParty
<1>3. PICK t \in decryptFrom(p, s, f) : session' = [session EXCEPT ![p] = t]
  BY DEF Decrypt
<1>4. /\ again' = IF f \in accepted[p] THEN again \cup {f} ELSE again
      /\ accepted' = [accepted EXCEPT ![p] = @ \cup {f}] /\ net' = net /\ frames' = frames
  BY DEF Decrypt
<1>5. Opens(p, s, o, accepted[p], net, f)
  BY <1>1, <1>2 DEF IInv, Opens, EndOK, Decrypt
<1>6. /\ s \in Session /\ f \in Frame /\ f.ck # NoChain
      /\ IsFiniteSet(s.skipped) /\ Cardinality(s.skipped) <= MaxSkippedTotal
  BY <1>1, <1>5, FrameChain DEF IInv, EndOK, SessionOK
<1>7. session'[p] = t /\ session'[Other(p)] = o
  BY <1>1, <1>2, <1>3
<1> HIDE DEF s, o
<1>8. ByBank(s, f, t) \/ ByChain(s, f, t) \/ ByTurn(p, s, f, t)
  BY <1>6, DecryptEffect
<1>9. Opened(p, t, o, accepted[p], net, f)
  BY <1>5, <1>8, BankOpens, ChainOpens, TurnOpens
<1>10. f \notin accepted[p]
  BY <1>5, <1>8, ReadOnce
<1>11. t \in Session
  BY <1>8 DEF ByBank, ByChain, ByTurn, SameButBank, Turned
<1>12. TypeOK'
  <2>1. session' \in [Parties -> Session]
    BY <1>1, <1>3, <1>11
  <2>2. accepted' \in [Parties -> SUBSET net']
    BY <1>1, <1>4
  <2> QED BY <1>1, <1>4, <1>10, <2>1, <2>2 DEF TypeOK, Session
<1>13. ASSUME NEW r \in Parties
       PROVE  EndOK(r, session'[r], accepted'[r], net') /\ Behind(session'[r], session'[Other(r)])
  <2>1. accepted'[p] = accepted[p] \cup {f} /\ accepted'[Other(p)] = accepted[Other(p)]
    BY <1>1, <1>2, <1>4
  <2>2. EndOK(Other(p), o, accepted[Other(p)], net)
    BY <1>2 DEF IInv, o
  <2>3. r = p \/ r = Other(p)
    BY DEF Parties, Other
  <2> QED BY <1>2, <1>4, <1>7, <1>9, <2>1, <2>2, <2>3 DEF Opened
<1> QED BY <1>4, <1>10, <1>12, <1>13 DEF IInv

\* So it holds in every reachable state.
LEMMA Invariance == Spec => []IInv
<1>1. IInv /\ [Next]_vars => IInv'
  <2> SUFFICES ASSUME IInv, [Next]_vars PROVE IInv'
    OBVIOUS
  <2>1. CASE Next
    BY <2>1, EncryptStep, DecryptStep DEF Next
  <2>2. CASE UNCHANGED vars
    BY <2>2 DEF vars, IInv, TypeOK
  <2> QED BY <2>1, <2>2
<1> QED BY <1>1, InitInvariant, PTL DEF Spec

---------------------------------------------------------------------------
(* The theorems.                                                           *)

\* The state keeps its type: counters are naturals, chain keys are sequences of
\* Diffie-Hellman results, what was read is part of what was written.
THEOREM TypeCorrect == Spec => []TypeOK
<1>1. IInv => TypeOK
  BY DEF IInv
<1> QED BY <1>1, Invariance, PTL

\* decryptFrom opens no frame twice, whatever is replayed and in which order.
THEOREM ReplaySafe == Spec => []AtMostOnce
<1>1. IInv => AtMostOnce
  BY DEF IInv, AtMostOnce
<1> QED BY <1>1, Invariance, PTL

\* enforceSkippedCap and purgeUnreachableSkipped keep the bank within the cap and
\* to the last two generations.
THEOREM BankCapped == Spec => []BankBounded
<1>1. IInv => BankBounded
  BY DEF IInv, EndOK, SessionOK, BankOK, BankBounded
<1> QED BY <1>1, Invariance, PTL

\* Forward secrecy: decryptFrom leaves no way to derive a key that was used.
THEOREM ForwardSecrecy == Spec => []UsedKeysGone
<1>1. ASSUME IInv, NEW p \in Parties, NEW f \in accepted[p]
      PROVE  /\ \A k \in session[p].skipped : ~(k.ck = f.ck /\ k.n = f.n)
             /\ ~(session[p].CKr = f.ck /\ session[p].Nr <= f.n)
  <2> DEFINE s == session[p]
             q == Other(p)
  <2>1. /\ s \in Session /\ f \in net /\ f \in Frame
    BY <1>1, Typed DEF IInv
  <2>2. /\ SessionOK(p, s) /\ BankOK(p, s) /\ FramesOK(q, session[q], net)
        /\ AcceptedOK(p, s, accepted[p])
    BY <1>1, OtherParty DEF IInv, EndOK
  <2>3. /\ f.from = q /\ f.dh <= s.DHr /\ (f.dh = s.DHr => f.n < s.Nr)
        /\ \A k \in s.skipped : ~(k.dh = f.dh /\ k.n = f.n)
    BY <2>2 DEF AcceptedOK
  <2>4. 1 <= f.dh /\ IsSendChain(q, f.dh, f.ck)
    BY <2>1, <2>2, <2>3 DEF FramesOK
  <2>5. f.dh \in Nat /\ f.n \in Nat /\ s.DHr \in Nat /\ s.Nr \in Nat
    BY <2>1 DEF Frame, Session
  <2> HIDE DEF s, q
  <2>6. ASSUME NEW d \in Nat, IsSendChain(q, d, f.ck) PROVE d = f.dh
    BY <2>4, <2>5, <2>6 DEF IsSendChain, SendLen
  <2>7. ASSUME NEW k \in s.skipped, k.ck = f.ck, k.n = f.n PROVE FALSE
    <3>1. k.dh \in Nat /\ IsSendChain(q, k.dh, k.ck)
      BY <2>1, <2>2 DEF BankOK, Session, MessageKey, q
    <3> QED BY <2>3, <2>6, <2>7, <3>1
  <2>8. ASSUME s.CKr = f.ck, s.Nr <= f.n PROVE FALSE
    <3>1. s.DHr > 0
      BY <2>3, <2>4, <2>5
    <3>2. IsSendChain(q, s.DHr, s.CKr)
      BY <2>2, <3>1 DEF SessionOK, q
    <3>3. s.DHr = f.dh
      BY <2>5, <2>6, <2>8, <3>2
    <3> QED BY <2>3, <2>5, <2>8, <3>3
  <2> QED BY <2>7, <2>8 DEF s
<1>2. IInv => UsedKeysGone
  BY <1>1 DEF UsedKeysGone
<1> QED BY <1>2, Invariance, PTL

\* The peer is at most one generation ahead of what p has seen of it, and p's
\* next receiving chain is the one the peer sends that generation with.
LEMMA OneAhead ==
    ASSUME NEW p \in Parties, NEW s \in Session, NEW o \in Session, SessionOK(p, s),
           SessionOK(Other(p), o), Behind(o, s), NEW d \in Nat, d > s.DHr, d <= o.DHs
    PROVE  /\ d = s.DHr + 1 /\ RecvKey(p, s, d) \in Chain
           /\ IsSendChain(Other(p), d, RecvKey(p, s, d))
<1>1. /\ s.DHs \in Nat /\ s.DHr \in Nat /\ o.DHs \in Nat /\ o.DHr \in Nat /\ s.RK \in Chain
      /\ Canon(s.RK) /\ Len(s.RK) = SendLen(p, s.DHs)
  BY DEF Session, SessionOK, IsSendChain
<1>2. o.DHr <= s.DHs
  BY DEF Behind
<1> DEFINE rk == RecvKey(p, s, d)
<1>e. ASSUME NEW a \in Nat, NEW b \in Nat, a + b = Len(s.RK) + 1, a - b \in {0, 1}
      PROVE  /\ Append(s.RK, <<a, b>>) \in Chain /\ Canon(Append(s.RK, <<a, b>>))
             /\ Len(Append(s.RK, <<a, b>>)) = Len(s.RK) + 1
  BY <1>e, <1>1, CanonAppend, Zenon
<1>3. CASE p = Initiator
  <2>1. s.DHs = s.DHr + 1 /\ o.DHs = o.DHr
    BY <1>3 DEF SessionOK, Other, Initiator, Responder
  <2>2. d = s.DHr + 1 /\ d = s.DHs
    BY <1>1, <1>2, <2>1
  <2>3. rk = Append(s.RK, <<s.DHs, d>>)
    BY <1>3 DEF RecvKey, kdfRk, dhFn
  <2>a. Len(s.RK) = 2 * d - 1
    BY <1>1, <1>3, <2>2 DEF SendLen
  <2>4. s.DHs + d = Len(s.RK) + 1 /\ s.DHs - d \in {0, 1} /\ Len(s.RK) + 1 = 2 * d
    <3>1. d + d = Len(s.RK) + 1 /\ d - d = 0 /\ Len(s.RK) + 1 = 2 * d
      BY <2>a
    <3> QED BY <2>2, <3>1
  <2> HIDE DEF rk
  <2>5. rk \in Chain /\ Canon(rk) /\ Len(rk) = Len(s.RK) + 1
    BY <1>e, <1>1, <2>3, <2>4, Zenon
  <2>6. SendLen(Other(p), d) = 2 * d
    BY <1>3 DEF SendLen, Other, Initiator, Responder
  <2> QED BY <2>2, <2>4, <2>5, <2>6 DEF IsSendChain, rk
<1>4. CASE p = Responder
  <2>1. s.DHs = s.DHr /\ o.DHs = o.DHr + 1
    BY <1>4 DEF SessionOK, Other, Initiator, Responder
  <2>2. d = s.DHr + 1 /\ d = s.DHs + 1
    BY <1>1, <1>2, <2>1
  <2>3. rk = Append(s.RK, <<d, s.DHs>>)
    BY <1>4 DEF RecvKey, kdfRk, dhFn, Initiator, Responder
  <2>a. Len(s.RK) = 2 * s.DHs /\ s.DHs \in Nat
    BY <1>1, <1>4 DEF SendLen, Initiator, Responder
  <2>4. d + s.DHs = Len(s.RK) + 1 /\ d - s.DHs \in {0, 1} /\ Len(s.RK) + 1 = 2 * d - 1
    <3>1. PICK m \in Nat : m = s.DHs
      BY <2>a
    <3>2. d = m + 1 /\ Len(s.RK) = 2 * m
      BY <2>2, <2>a, <3>1
    <3>3. d + m = Len(s.RK) + 1 /\ d - m = 1 /\ Len(s.RK) + 1 = 2 * d - 1
      BY <3>2
    <3> QED BY <3>1, <3>3
  <2> HIDE DEF rk
  <2>5. rk \in Chain /\ Canon(rk) /\ Len(rk) = Len(s.RK) + 1
    <3>1. /\ Append(s.RK, <<d, s.DHs>>) \in Chain /\ Canon(Append(s.RK, <<d, s.DHs>>))
          /\ Len(Append(s.RK, <<d, s.DHs>>)) = Len(s.RK) + 1
      BY <1>e, <2>a, <2>4
    <3> QED BY <2>3, <3>1
  <2>6. SendLen(Other(p), d) = 2 * d - 1
    BY <1>4 DEF SendLen, Other, Initiator, Responder
  <2> QED BY <2>2, <2>4, <2>5, <2>6 DEF IsSendChain, rk
<1> QED BY <1>3, <1>4 DEF Parties

\* The receiving chain reaches the frame's index within the gap.
LEMMA ReachIndex ==
    ASSUME NEW s \in Session, IsFiniteSet(s.skipped), Cardinality(s.skipped) <= MaxSkippedTotal,
           NEW n \in Nat, s.Nr <= n, n <= s.Nr + MaxSkip, s.CKr # NoChain
    PROVE  \E t \in skipTo(s, n) : t.CKr = s.CKr /\ t.Nr = n
<1>1. PICK t \in skipTo(s, n) : TRUE
  BY SkipPossible
<1>2. /\ SameButBank(s, t)
      /\ t.Nr = IF s.CKr = NoChain \/ n <= s.Nr THEN s.Nr ELSE n
  BY SkipEffect
<1>3. s.Nr \in Nat
  BY DEF Session
<1>4. t.Nr = n
  BY <1>2, <1>3
<1> QED BY <1>2, <1>4 DEF SameButBank

\* An unread frame within the limits opens, whatever came before it: by its
\* banked key, by the chain it belongs to, or by the turn it announces.
THEOREM AlwaysReadable == Spec => []StillReadable
<1>1. ASSUME IInv, NEW p \in Parties, NEW f \in net, f.from = Other(p), f \notin accepted[p],
             f.dh >= session[p].DHr - 1, WithinGap(session[p], f),
             KeyOf(f) \notin session[p].evicted
      PROVE  decryptFrom(p, session[p], f) # {}
  <2> DEFINE s == session[p]
             q == Other(p)
             o == session[q]
  <2>1. q \in Parties /\ s \in Session /\ o \in Session /\ f \in Frame /\ f.from = q
    BY <1>1, Typed, OtherParty DEF IInv
  <2>2. /\ SessionOK(p, s) /\ BankOK(p, s) /\ CompleteOK(p, s, accepted[p], net)
        /\ SessionOK(q, o) /\ FramesOK(q, o, net) /\ Behind(o, s)
    <3>1. Other(q) = p
      BY OtherParty
    <3> QED BY <1>1, <2>1, <3>1 DEF IInv, EndOK
  <2>3. /\ f \notin accepted[p] /\ f.dh >= s.DHr - 1 /\ WithinGap(s, f)
        /\ KeyOf(f) \notin s.evicted
    BY <1>1
  <2> HIDE DEF s, o
  <2>4. 1 <= f.dh /\ f.dh <= o.DHs /\ IsSendChain(q, f.dh, f.ck)
    BY <2>1, <2>2 DEF FramesOK
  <2>5. /\ f.dh \in Nat /\ f.n \in Nat /\ f.pn \in Nat /\ f.ck \in Chain /\ s.DHr \in Nat
        /\ s.Nr \in Nat
    BY <2>1 DEF Frame, Session
  <2>6. f.ck # NoChain
    <3>1. Len(f.ck) >= 1
      BY <2>4, <2>5 DEF IsSendChain, SendLen
    <3>2. f.ck # <<>>
      BY <3>1
    <3> QED BY <3>2 DEF NoChain
  <2>7. IsFiniteSet(s.skipped) /\ Cardinality(s.skipped) <= MaxSkippedTotal
    BY <2>2 DEF SessionOK
  <2>8. CASE Banked(s, f) # {}
    <3>1. PICK k \in s.skipped : k.dh = f.dh /\ k.n = f.n
      BY <2>8 DEF Banked
    <3>2. IsSendChain(q, k.dh, k.ck) /\ k.ck \in Chain
      BY <2>1, <2>2 DEF BankOK, Session, MessageKey
    <3>3. k.ck = f.ck
      BY <2>4, <2>5, <3>1, <3>2, CanonUnique DEF IsSendChain
    <3>4. useBanked(s, f) # {}
      BY <3>1, <3>3 DEF useBanked, Banked
    <3> QED BY <2>8, <3>4 DEF decryptFrom, s
  <2>9. CASE Banked(s, f) = {}
    <3>1. KeyOf(f) \notin s.skipped
      BY <2>9 DEF Banked, KeyOf
    <3>2. ~(f.dh \in {s.DHr, s.DHr - 1} /\ (f.dh = s.DHr => f.n < s.Nr))
      BY <2>1, <2>2, <2>3, <3>1 DEF CompleteOK
    <3>3. SUFFICES \E t \in Advance(p, s, f) : t.CKr = f.ck /\ t.Nr = f.n
      BY <2>9, <3>3 DEF decryptFrom, useChain, s
    <3>4. CASE f.dh = s.DHr
      <4>1. s.haveDHr /\ IsSendChain(q, s.DHr, s.CKr) /\ s.CKr \in Chain
        <5>1. s.DHr > 0
          BY <2>4, <2>5, <3>4
        <5> QED BY <2>1, <2>2, <5>1 DEF SessionOK, Session
      <4>2. s.CKr = f.ck
        BY <2>4, <2>5, <3>4, <4>1, CanonUnique DEF IsSendChain
      <4>3. s.Nr <= f.n /\ f.n <= s.Nr + MaxSkip
        BY <2>3, <2>5, <3>2, <3>4, <4>1 DEF WithinGap
      <4>4. PICK t \in skipTo(s, f.n) : t.CKr = s.CKr /\ t.Nr = f.n
        BY <2>1, <2>5, <2>6, <2>7, <4>2, <4>3, ReachIndex
      <4>5. t \in Advance(p, s, f)
        BY <3>4, <4>1 DEF Advance
      <4> QED BY <4>2, <4>4, <4>5
    <3>5. CASE f.dh # s.DHr
      <4>1. f.dh > s.DHr
        BY <2>3, <2>5, <3>2, <3>5
      <4>2. /\ RecvKey(p, s, f.dh) \in Chain
            /\ IsSendChain(q, f.dh, RecvKey(p, s, f.dh))
        BY <2>1, <2>2, <2>4, <2>5, <4>1, OneAhead
      <4>3. RecvKey(p, s, f.dh) = f.ck
        BY <2>4, <2>5, <4>2, CanonUnique DEF IsSendChain
      <4>4. f.pn <= s.Nr + MaxSkip /\ f.n <= MaxSkip
        BY <2>3, <2>5, <3>5, <4>1 DEF WithinGap
      <4>5. PICK s1 \in skipTo(s, f.pn) : TRUE
        BY <2>1, <2>5, <2>7, <4>4, SkipPossible
      <4>6. SameButBank(s, s1) /\ IsFiniteSet(s1.skipped)
        BY <2>1, <2>5, <2>7, SkipEffect DEF Banks
      <4>7. s1 \in Session
        BY <4>6 DEF SameButBank
      <4>8. PICK s2 \in dhRatchet(p, s1, f.dh) : TRUE
        BY <2>5, <4>6, <4>7, TurnPossible
      <4>9. /\ Turned(p, s1, s2, f.dh) /\ s2.Nr = 0
            /\ IsFiniteSet(s2.skipped) /\ Cardinality(s2.skipped) <= MaxSkippedTotal
        BY <2>5, <4>6, <4>7, TurnEffect DEF Banks
      <4>10. s2 \in Session /\ s2.CKr = f.ck
        BY <4>3, <4>6, <4>9 DEF Turned, SameButBank, RecvKey
      <4>11. s2.Nr <= f.n /\ f.n <= s2.Nr + MaxSkip
        BY <2>5, <4>4, <4>9
      <4>12. PICK t \in skipTo(s2, f.n) : t.CKr = s2.CKr /\ t.Nr = f.n
        BY <2>5, <2>6, <4>9, <4>10, <4>11, ReachIndex
      <4>13. t \in Advance(p, s, f)
        BY <3>5 DEF Advance
      <4> QED BY <4>10, <4>12, <4>13
    <3> QED BY <3>4, <3>5
  <2> QED BY <2>8, <2>9
<1>2. IInv => StillReadable
  BY <1>1 DEF StillReadable, KeyOf
<1> QED BY <1>2, Invariance, PTL
=============================================================================

---------------------------- MODULE DoubleRatchet ----------------------------
(***************************************************************************)
(* The Double Ratchet of CryptoBox (cryptobox.cpp): one session seen from  *)
(* its two ends, over a network that may delay, reorder, replay and lose.  *)
(*                                                                         *)
(* Keys are symbolic.  A party's ratchet key pairs are numbered; a root or *)
(* chain key is the sequence of Diffie-Hellman results mixed into it; the  *)
(* message key of index n of chain ck is the pair of the two.  The AEAD    *)
(* opens a frame exactly when both ends hold the same message key.         *)
(* The identity of the responder, or its signed prekey when X3DH opened    *)
(* the session, is its key pair 0.                                         *)
(***************************************************************************)
EXTENDS Integers, Sequences, FiniteSets

CONSTANTS
    MaxSkip,            \* kMaxSkip: longest gap the receiver bridges
    MaxSkippedTotal,    \* kMaxSkippedTotal: banked keys of a session
    MaxFrames           \* bound: frames each party encrypts

ASSUME SkipAssumption == MaxSkip \in Nat /\ MaxSkippedTotal \in Nat
ASSUME FramesAssumption == MaxFrames \in Nat

Initiator == "initiator"    \* the smaller identity key
Responder == "responder"
Parties == {Initiator, Responder}
Other(p) == IF p = Initiator THEN Responder ELSE Initiator

VARIABLES
    session,    \* RatchetSession of each party
    net,        \* frames ever written; a frame may be delivered any number of times
    accepted,   \* history: frames each party decrypted
    again,      \* history: frames a party decrypted a second time
    frames      \* history: frames each party encrypted

vars == <<session, net, accepted, again, frames>>

\* X25519 of p's pair own with the peer's public peer: the same for both ends.
dhFn(p, own, peer) == IF p = Initiator THEN <<own, peer>> ELSE <<peer, own>>

\* kdfRk: the new root key, and the new chain key, which is named like it.
kdfRk(rk, dh) == Append(rk, dh)

NoChain == <<>>

\* evicted is history: the banked keys the cap destroyed.
\* sessionFor: the initiator can send at once, the responder cannot.
InitiatorSession ==
    LET rk == kdfRk(<<>>, dhFn(Initiator, 1, 0)) IN
    [DHs |-> 1, DHr |-> 0, haveDHr |-> TRUE, RK |-> rk, CKs |-> rk, CKr |-> NoChain,
     Ns |-> 0, Nr |-> 0, PN |-> 0, skipped |-> {}, evicted |-> {}]
ResponderSession ==
    [DHs |-> 0, DHr |-> 0, haveDHr |-> FALSE, RK |-> <<>>, CKs |-> NoChain, CKr |-> NoChain,
     Ns |-> 0, Nr |-> 0, PN |-> 0, skipped |-> {}, evicted |-> {}]

Init ==
    /\ session = [p \in Parties |-> IF p = Initiator THEN InitiatorSession
                                                     ELSE ResponderSession]
    /\ net = {}
    /\ accepted = [p \in Parties |-> {}]
    /\ again = {}
    /\ frames = [p \in Parties |-> 0]

---------------------------------------------------------------------------
\* The receiving side, on the working copy.  Where QHash's iteration order
\* decides, the operators return the set of possible sessions.

\* enforceSkippedCap: over the cap, keys of the superseded generation go first.
enforceSkippedCap(s) ==
    LET live == {k \in s.skipped : k.dh = s.DHr}
        old == s.skipped \ live
        keeps(T) == Cardinality(T) = MaxSkippedTotal /\ (live \subseteq T \/ T \cap old = {})
    IN IF Cardinality(s.skipped) <= MaxSkippedTotal THEN {s}
       ELSE {[s EXCEPT !.skipped = T, !.evicted = @ \cup (s.skipped \ T)] :
                T \in {T \in SUBSET s.skipped : keeps(T)}}

\* skipTo: bank the keys up to index until; a gap over kMaxSkip is refused.
skipTo(s, until) ==
    IF s.Nr + MaxSkip < until THEN {}
    ELSE IF s.CKr = NoChain \/ until <= s.Nr THEN {s}
    ELSE enforceSkippedCap(
            [s EXCEPT !.skipped = @ \cup {[dh |-> s.DHr, n |-> i, ck |-> s.CKr] :
                                            i \in s.Nr .. until - 1},
                      !.Nr = until])

\* Mutant: nothing is destroyed when a generation is superseded.
purgeUnreachableSkipped_none(skipped, current, previous) == skipped

\* purgeUnreachableSkipped: two generations are kept.
purgeUnreachableSkipped(skipped, current, previous) ==
    {k \in skipped : k.dh \in {current, previous}}

\* Mutant: Ns is reset before PN takes it.
dhRatchet_no_pn(p, s, dhPub) ==
    LET rk1 == kdfRk(s.RK, dhFn(p, s.DHs, dhPub))
        rk2 == kdfRk(rk1, dhFn(p, s.DHs + 1, dhPub))
    IN enforceSkippedCap(
        [s EXCEPT !.PN = 0, !.Ns = 0, !.Nr = 0, !.DHr = dhPub, !.haveDHr = TRUE,
                  !.CKr = rk1, !.DHs = @ + 1, !.RK = rk2, !.CKs = rk2,
                  !.skipped = purgeUnreachableSkipped(@, dhPub, s.DHr)])

\* dhRatchet: a step on a new public of the peer, with a fresh pair of our own.
dhRatchet(p, s, dhPub) ==
    LET rk1 == kdfRk(s.RK, dhFn(p, s.DHs, dhPub))
        rk2 == kdfRk(rk1, dhFn(p, s.DHs + 1, dhPub))
    IN enforceSkippedCap(
        [s EXCEPT !.PN = s.Ns, !.Ns = 0, !.Nr = 0, !.DHr = dhPub, !.haveDHr = TRUE,
                  !.CKr = rk1, !.DHs = @ + 1, !.RK = rk2, !.CKs = rk2,
                  !.skipped = purgeUnreachableSkipped(@, dhPub, s.DHr)])

\* Steps 2 and 3 of decryptFrom up to the message key.
Advance(p, s, f) ==
    LET stepped == IF s.haveDHr /\ f.dh = s.DHr THEN {s}
                   ELSE UNION {dhRatchet(p, t, f.dh) : t \in skipTo(s, f.pn)}
    IN UNION {skipTo(t, f.n) : t \in stepped}

Banked(s, f) == {k \in s.skipped : k.dh = f.dh /\ k.n = f.n}

\* Mutant: a banked key stays after its message was read.
useBanked_keeps(s, f) == {s : k \in {k \in Banked(s, f) : k.ck = f.ck}}

\* Step 1 of decryptFrom: a banked key opens the frame and is erased.
useBanked(s, f) ==
    {[s EXCEPT !.skipped = @ \ {k}] : k \in {k \in Banked(s, f) : k.ck = f.ck}}

\* Mutant: the step is committed before the tag is checked.
useChain_destructive(p, s, f) == {[t EXCEPT !.Nr = @ + 1] : t \in Advance(p, s, f)}

\* The chain's next message key opens the frame.
useChain(p, s, f) ==
    {[t EXCEPT !.Nr = @ + 1] : t \in {t \in Advance(p, s, f) : t.CKr = f.ck /\ t.Nr = f.n}}

\* decryptFrom: the sessions it may commit; none when the frame is refused or
\* does not authenticate, and then the session is what it was.
decryptFrom(p, s, f) ==
    IF Banked(s, f) # {} THEN useBanked(s, f) ELSE useChain(p, s, f)

---------------------------------------------------------------------------
\* encryptFor; a responder without a sending chain reports notReady.
Encrypt(p) ==
    LET s == session[p]
        f == [from |-> p, dh |-> s.DHs, pn |-> s.PN, n |-> s.Ns, ck |-> s.CKs]
    IN /\ s.CKs # NoChain /\ frames[p] < MaxFrames
       /\ net' = net \cup {f}
       /\ session' = [session EXCEPT ![p].Ns = @ + 1]
       /\ frames' = [frames EXCEPT ![p] = @ + 1]
       /\ UNCHANGED <<accepted, again>>

\* A frame of the peer arrives and decrypts.  One that does not changes nothing.
Decrypt(p, f) ==
    /\ f.from = Other(p)
    /\ \E t \in decryptFrom(p, session[p], f) : session' = [session EXCEPT ![p] = t]
    /\ again' = IF f \in accepted[p] THEN again \cup {f} ELSE again
    /\ accepted' = [accepted EXCEPT ![p] = @ \cup {f}]
    /\ UNCHANGED <<net, frames>>

Next ==
    \E p \in Parties : Encrypt(p) \/ \E f \in net : Decrypt(p, f)

Spec == Init /\ [][Next]_vars

---------------------------------------------------------------------------
\* Properties

Chain == Seq(Nat \X Nat)
MessageKey == [dh : Nat, n : Nat, ck : Chain]
Frame == [from : Parties, dh : Nat, pn : Nat, n : Nat, ck : Chain]

TypeOK ==
    /\ session \in [Parties ->
            [DHs : Nat, DHr : Nat, haveDHr : BOOLEAN, RK : Chain, CKs : Chain, CKr : Chain,
             Ns : Nat, Nr : Nat, PN : Nat, skipped : SUBSET MessageKey,
             evicted : SUBSET MessageKey]]
    /\ net \subseteq Frame
    /\ accepted \in [Parties -> SUBSET net]
    /\ again \subseteq net
    /\ frames \in [Parties -> 0 .. MaxFrames]

\* A frame is decrypted at most once by the session, however often the relay
\* delivers it and whatever the client's own replay filter has forgotten.
AtMostOnce == again = {}

\* Forward secrecy: the key of a message that was read can no longer be derived
\* from the session; it is neither banked nor ahead in the receiving chain.
UsedKeysGone ==
    \A p \in Parties : \A f \in accepted[p] :
        /\ \A k \in session[p].skipped : ~(k.ck = f.ck /\ k.n = f.n)
        /\ ~(session[p].CKr = f.ck /\ session[p].Nr <= f.n)

\* The bank holds keys of the current and the superseded generation only, and
\* never more than the cap.
BankBounded ==
    \A p \in Parties :
        /\ Cardinality(session[p].skipped) <= MaxSkippedTotal
        /\ \A k \in session[p].skipped : k.dh \in {session[p].DHr, session[p].DHr - 1}

\* The frame is no further ahead of p than kMaxSkip, counted in its own chain and,
\* when it opens a new one, also in the chain it closes.
WithinGap(s, f) ==
    IF s.haveDHr /\ f.dh = s.DHr THEN f.n <= s.Nr + MaxSkip
    ELSE f.dh < s.DHr \/ (f.pn <= s.Nr + MaxSkip /\ f.n <= MaxSkip)

\* No reordering, replay or loss makes a message unreadable but for the two limits:
\* a frame not yet read, of a generation not older than the superseded one, opens
\* unless it lies beyond the gap or the cap destroyed its key.
StillReadable ==
    \A p \in Parties : \A f \in net :
        /\ f.from = Other(p)
        /\ f \notin accepted[p]
        /\ f.dh >= session[p].DHr - 1
        /\ WithinGap(session[p], f)
        /\ [dh |-> f.dh, n |-> f.n, ck |-> f.ck] \notin session[p].evicted
        => decryptFrom(p, session[p], f) # {}
=============================================================================

------------------------------ MODULE Prekeys ------------------------------
(***************************************************************************)
(* X3DH: the signed prekey and the pool of one-time prekeys of a user, how *)
(* they are stored, published, rotated and destroyed, the relay's prekey   *)
(* store, and the sessions that peers open from a bundle.                  *)
(*                                                                         *)
(* Sources: the prekey part of cryptobox.cpp, x3dh.cpp, the handlers of    *)
(* chatclient.cpp that use them, server/prekey_store.py and its handlers.  *)
(*                                                                         *)
(* One user, Owner, publishes; the Peers open sessions with it.  A key is  *)
(* [kind, of, n]; a Diffie-Hellman value is the set of the two keys, so it *)
(* is the same for both sides exactly when they use the same pair; a       *)
(* signature is [by, msg].  The relay is not trusted: under the name       *)
(* Mallory it makes up bundles, puts other one-time keys into genuine ones *)
(* (only the signed prekey is signed) and writes openers of its own.       *)
(* HelloFirst says that the relay refuses prekeys before hello, as this    *)
(* relay does; with FALSE the rest of the protocol is checked as if they   *)
(* had been accepted.                                                      *)
(***************************************************************************)
EXTENDS Integers, Sequences, FiniteSets, FiniteSetsExt

CONSTANTS
    Peers,          \* users who open sessions with Owner
    Owner, Mallory, \* the user who publishes; the name of forged keys
    None,
    Batch,          \* kPrekeyBatchSize
    LowWater,       \* kPrekeyLowWaterMark
    MaxAge,         \* kSpkMaxAgeMs, in clock ticks
    Grace,          \* kSpkGraceMs
    HelloFirst,     \* the relay refuses prekeys of a socket that has not said hello
    Knows,          \* peers that hold the directory key of Owner
    MaxClock,       \* bound: the wall clock
    Budgets         \* bounds: how often what may happen, one choice per scenario

\* The prekeys CryptoBox holds: the numbers of the current and of the previous
\* signed prekey, their stamps, the ids of the pool and the next free id.
PrekeySets == [spk : Nat, prev : Nat, created : Int, retired : Int, pool : SUBSET Nat, next : Nat]

ASSUME PrekeysAssumption ==
    /\ Owner \notin Peers /\ Mallory \notin Peers \cup {Owner}
    /\ Batch \in Nat /\ LowWater \in Nat /\ MaxAge \in Nat \ {0} /\ Grace \in Nat
    /\ Knows \subseteq Peers
    /\ MaxClock \in Nat /\ None \notin PrekeySets

VARIABLES
    box,        \* prekeys in memory (CryptoBox), and the state of the socket
    disk,       \* the prekeys row of the history store, or None
    sess,       \* sessions of Owner, by peer: persisted as they change
    store,      \* the relay's prekey store: signed prekey and pool
    wire,       \* frames between Owner and the relay: up and down
    peer,       \* the clients of the peers
    mail,       \* msg frames on their way to Owner
    now,        \* wall clock
    left,       \* what may still happen
    derived,    \* history: secrets the peers have derived
    uses,       \* history: the one-time prekeys sessions were opened with, in order
    gone,       \* history: signed prekeys of Owner that were destroyed
    spliced,    \* history: peers that took a bundle with another one-time key in it
    imposed,    \* history: peers in whose name the relay wrote an opener
    torn        \* history: one-time prekeys used, whose removal was not saved

vars == <<box, disk, sess, store, wire, peer, mail, now, left, derived, uses, gone,
          spliced, imposed, torn>>
tampered == <<spliced, imposed>>

Key(kind, of, n) == [kind |-> kind, of |-> of, n |-> n]
Ik(u) == Key("ik", u, 0)
Legacy(p) == <<{Ik(Owner), Ik(p)}>>      \* a session started from the identity keys alone
NoSpk == 0
NoOpk == -1                              \* opk_id of a header without one
NoKey == Key("none", None, 0)
-----------------------------------------------------------------------------
(* x3dh.cpp                                                                 *)
dh(private, public) == {private, public}
sign(identity, message) == [by |-> identity, msg |-> message]
verify(identity, message, sig) == sig.by = identity /\ sig.msg = message

\* initiatorWithEphemeral: DH1 to DH3, DH4 when there is a one-time prekey.
initiator(me, ek, bundle) ==
    <<dh(Ik(me), bundle.spk), dh(ek, bundle.ik), dh(ek, bundle.spk)>>
        \o (IF bundle.opk = None THEN <<>> ELSE <<dh(ek, bundle.opk.key)>>)

responder(spk, opk, ikA, ekA) ==
    <<dh(spk, ikA), dh(Ik(Owner), ekA), dh(spk, ekA)>>
        \o (IF opk = NoKey THEN <<>> ELSE <<dh(opk, ekA)>>)

-----------------------------------------------------------------------------
(* The prekeys of CryptoBox: spk and prev are numbers of signed prekeys (0: *)
(* none), pool holds the ids of the one-time prekeys.                       *)

NoPrekeys == [spk |-> NoSpk, prev |-> NoSpk, created |-> 0, retired |-> 0, pool |-> {}, next |-> 0]
hasPrekeys(k) == k.spk # NoSpk

\* The ids of the new pool continue where the last one stopped.
generatePrekeys(k, count) ==
    [spk |-> k.spk + 1,
     prev |-> IF hasPrekeys(k) THEN k.spk ELSE k.prev,
     created |-> now,
     retired |-> IF hasPrekeys(k) THEN now ELSE k.retired,
     pool |-> k.next .. (k.next + count - 1),
     next |-> k.next + count]

signedPrekeyAgeMs(k) == IF ~hasPrekeys(k) \/ k.created <= 0 THEN -1 ELSE now - k.created

\* A stamp from the future becomes a stamp of now.
Restamped(k) == IF signedPrekeyAgeMs(k) < 0 THEN [k EXCEPT !.created = now] ELSE k
RotationDue(k) == hasPrekeys(k) /\ signedPrekeyAgeMs(Restamped(k)) >= MaxAge
rotateSignedPrekeyIfDue(k) ==
    IF RotationDue(k)
    THEN [generatePrekeys(Restamped(k), 0) EXCEPT !.pool = k.pool, !.next = k.next]
    ELSE IF hasPrekeys(k) THEN Restamped(k) ELSE k

DropDue(k) == k.prev # NoSpk /\ now - k.retired >= Grace
dropExpiredPreviousPrekey(k) ==
    IF DropDue(k) THEN [k EXCEPT !.prev = NoSpk, !.retired = 0] ELSE k

\* Mutant: the key stays in the pool.
takeOneTimePrekey_kept(k, id) == k
takeOneTimePrekey(k, id) == [k EXCEPT !.pool = @ \ {id}]

\* Mutant: the current signed prekey answers every opener.
SpkFor_current(k, hdr) == k.spk
\* acceptX3dhSession: the number of the signed prekey the header names, if it
\* is still held; the current one if it names none.
SpkFor(k, hdr) ==
    IF hdr.spk = NoKey THEN k.spk
    ELSE IF hdr.spk.of # Owner THEN NoSpk
    ELSE IF hdr.spk.n = k.spk THEN k.spk
    ELSE IF k.prev # NoSpk /\ hdr.spk.n = k.prev THEN k.prev
    ELSE NoSpk
\* The header has only the id of the one-time prekey: the private key is looked
\* up under it, whatever public key the sender was served.
OpkHeld(k, hdr) == hdr.opk # NoOpk => hdr.opk \in k.pool
Acceptable(k, hdr) == hasPrekeys(k) /\ OpkHeld(k, hdr) /\ SpkFor(k, hdr) # NoSpk
Accepted(k, hdr) == IF hdr.opk = NoOpk THEN k ELSE takeOneTimePrekey(k, hdr.opk)
OwnOpk(id) == IF id = NoOpk THEN NoKey ELSE Key("opk", Owner, id)
SecretOf(k, hdr) ==
    responder(Key("spk", Owner, SpkFor(k, hdr)), OwnOpk(hdr.opk), hdr.ik, hdr.ek)

-----------------------------------------------------------------------------
Init ==
    /\ box = [on |-> "down", keys |-> NoPrekeys]
    /\ disk = None
    /\ sess = [p \in Peers |-> None]
    /\ store = [spk |-> None, pool |-> {}]
    /\ wire = [up |-> <<>>, down |-> <<>>]
    /\ peer = [p \in Peers |-> [asked |-> FALSE, reply |-> <<>>, key |-> None, hdr |-> None,
                                queued |-> FALSE, eks |-> 0]]
    /\ mail = <<>>
    /\ now = 1
    /\ left \in Budgets
    /\ derived = [p \in Peers |-> {}]
    /\ uses = <<>>
    /\ gone = {}
    /\ spliced = {} /\ imposed = {} /\ torn = {}

Spend(what) == left[what] > 0 /\ left' = [left EXCEPT ![what] = @ - 1]

(* Owner.                                                                   *)
Destroyed(before, after) == ({before.spk, before.prev} \ {after.spk, after.prev}) \ {NoSpk}

\* The prekeys are held and saved; a publication is written to the socket.
Hold(k, frames, on) ==
    /\ box' = [on |-> on, keys |-> k]
    /\ wire' = [wire EXCEPT !.up = @ \o frames]
Publication(k, on) ==
    [type |-> "publish_prekeys", early |-> on # "in", spk |-> k.spk, opks |-> k.pool]

Restored(k) == IF ~hasPrekeys(k) /\ disk # None THEN disk ELSE k
NeedNew(k, force) == force \/ ~hasPrekeys(k) \/ Cardinality(k.pool) <= LowWater

\* publishPrekeysIfNeeded: the prekeys it leaves and the frames it writes.
publishPrekeysIfNeeded(k, force, on) ==
    LET r == Restored(k)
        g == generatePrekeys(r, Batch)
    IN IF NeedNew(r, force) THEN [keys |-> g, saved |-> TRUE, tx |-> <<Publication(g, on)>>]
       ELSE [keys |-> r, saved |-> FALSE, tx |-> <<>>]

\* Mutant: the rotation at a connect is not saved.
Turned_unsaved(k) ==
    [keys |-> dropExpiredPreviousPrekey(rotateSignedPrekeyIfDue(k)),
     rotated |-> RotationDue(k), saved |-> FALSE]
\* The rotation and the destruction at a connect of a process with prekeys.
Turned(k) ==
    LET r == rotateSignedPrekeyIfDue(k)
    IN [keys |-> dropExpiredPreviousPrekey(r), rotated |-> RotationDue(k),
        saved |-> RotationDue(k) \/ DropDue(r)]

\* onConnected: turn, publish what was turned, publish if the pool is low.
onConnected ==
    LET t == Turned(box.keys)
        p == IF t.rotated THEN publishPrekeysIfNeeded(t.keys, TRUE, "open")
             ELSE [keys |-> t.keys, saved |-> FALSE, tx |-> <<>>]
        q == publishPrekeysIfNeeded(p.keys, FALSE, "open")
    IN /\ box.on = "down"
       /\ Hold(q.keys, p.tx \o q.tx, "open")
       /\ disk' = IF q.saved THEN q.keys ELSE IF p.saved THEN p.keys
                  ELSE IF t.saved THEN t.keys ELSE disk
       /\ gone' = gone \cup Destroyed(Restored(box.keys), q.keys)
       /\ UNCHANGED <<sess, store, peer, mail, now, left, derived, uses, tampered, torn>>

Hello ==
    /\ box.on = "open"
    /\ box' = [box EXCEPT !.on = "in"]
    /\ UNCHANGED <<disk, sess, store, wire, peer, mail, now, left, derived, uses, gone, tampered, torn>>

\* prekeys_ack: a pool that the relay calls low is filled up.
PrekeysAck ==
    LET f == Head(wire.down)
        p == publishPrekeysIfNeeded(box.keys, TRUE, box.on)
    IN /\ wire.down # <<>>
       /\ IF f.type = "prekeys_ack" /\ f.remaining <= LowWater
          THEN /\ box' = [box EXCEPT !.keys = p.keys]
               /\ wire' = [up |-> wire.up \o p.tx, down |-> Tail(wire.down)]
               /\ disk' = p.keys
               /\ gone' = gone \cup Destroyed(box.keys, p.keys)
          ELSE /\ wire' = [wire EXCEPT !.down = Tail(@)]
               /\ UNCHANGED <<box, disk, gone>>
       /\ UNCHANGED <<sess, store, peer, mail, now, left, derived, uses, tampered, torn>>

\* The next msg frame opens a session: it has an opener's header and there is no
\* session with its sender.
Opener == LET f == Head(mail) IN f.hdr # None /\ sess[f.from] = None

\* acceptX3dhSession and persistSession: the session is held and on disk, the
\* one-time prekey is out of the pool in memory.
OpenSession ==
    LET f == Head(mail)
    IN /\ Opener /\ Acceptable(box.keys, f.hdr)
       /\ sess' = [sess EXCEPT ![f.from] = SecretOf(box.keys, f.hdr)]
       /\ uses' = IF f.hdr.opk = NoOpk THEN uses ELSE Append(uses, f.hdr.opk)

\* A msg frame of a peer: an opener is accepted (and the pool saved) or refused
\* before the frame reaches the ratchet, which starts a legacy session where
\* there is none.
ReceiveMsg ==
    LET f == Head(mail)
        k == Accepted(box.keys, f.hdr)
    IN /\ box.on = "in" /\ mail # <<>>
       /\ mail' = Tail(mail)
       /\ \/ /\ OpenSession
             /\ box' = [box EXCEPT !.keys = k]
             /\ disk' = k
          \/ /\ Opener /\ ~Acceptable(box.keys, f.hdr)
             /\ UNCHANGED <<box, disk, sess, uses>>
          \/ /\ ~Opener
             /\ sess' = IF sess[f.from] = None THEN [sess EXCEPT ![f.from] = Legacy(f.from)] ELSE sess
             /\ UNCHANGED <<box, disk, uses>>
       /\ UNCHANGED <<store, wire, peer, now, left, derived, gone, tampered, torn>>

\* The process ends between persistSession and savePrekeys.
CrashOpening ==
    LET hdr == Head(mail).hdr
    IN /\ box.on = "in" /\ mail # <<>> /\ Spend("links")
       /\ mail' = Tail(mail)
       /\ OpenSession
       /\ box' = [on |-> "down", keys |-> NoPrekeys]
       /\ \E n \in 0..Len(wire.up) : wire' = [up |-> SubSeq(wire.up, 1, n), down |-> <<>>]
       /\ torn' = IF hdr.opk = NoOpk THEN torn ELSE torn \cup {hdr.opk}
       /\ UNCHANGED <<disk, store, peer, now, derived, gone, tampered>>

\* A key change of the peer is acknowledged: the session is dropped.
dropSession(p) ==
    /\ sess[p] # None /\ Spend("drops")
    /\ sess' = [sess EXCEPT ![p] = None]
    /\ UNCHANGED <<box, disk, store, wire, peer, mail, now, derived, uses, gone, tampered, torn>>

\* The link is lost, or the process ends and a new one finds the disk.
Disconnect ==
    /\ box.on # "down" /\ Spend("links")
    /\ \E restart \in BOOLEAN :
           box' = [on |-> "down", keys |-> IF restart THEN NoPrekeys ELSE box.keys]
    /\ \E n \in 0..Len(wire.up) : wire' = [up |-> SubSeq(wire.up, 1, n), down |-> <<>>]
    /\ UNCHANGED <<disk, sess, store, peer, mail, now, derived, uses, gone, tampered, torn>>

\* Time passes, or the clock is set back.
SetClock ==
    /\ Spend("clock")
    /\ now' \in 1..MaxClock
    /\ UNCHANGED <<box, disk, sess, store, wire, peer, mail, derived, uses, gone, tampered, torn>>

(* The relay.                                                               *)
\* Ids that are already there stay as they are (the ids of Owner are unique).
RelayPublish ==
    LET f == Head(wire.up)
        pool == store.pool \cup f.opks
        ok == ~(HelloFirst /\ f.early)
        answer == IF ok THEN [type |-> "prekeys_ack", remaining |-> Cardinality(pool)]
                  ELSE [type |-> "error"]
    IN /\ wire.up # <<>>
       /\ store' = IF ok THEN [spk |-> f.spk, pool |-> pool] ELSE store
       /\ wire' = [up |-> Tail(wire.up),
                   down |-> IF box.on = "down" THEN <<>> ELSE Append(wire.down, answer)]
       /\ UNCHANGED <<box, disk, sess, peer, mail, now, left, derived, uses, gone, tampered, torn>>

claim_one_time_prekey(pool) == pool \ {Min(pool)}

Bundle(ik, spk, sig, opk) == [ik |-> ik, spk |-> spk, sig |-> sig, opk |-> opk]
\* A one-time prekey as the relay serves it: a public key under an id.
Opk(id, of, n) == [id |-> id, key |-> Key("opk", of, n)]
\* What Owner signed, as the relay assembles it.
ServedBundle ==
    LET spk == Key("spk", Owner, store.spk)
    IN Bundle(Ik(Owner), spk, sign(Ik(Owner), spk),
              IF store.pool = {} THEN None ELSE Opk(Min(store.pool), Owner, Min(store.pool)))

RelayBundle(p) ==
    /\ peer[p].asked
    /\ peer' = [peer EXCEPT ![p].asked = FALSE,
           ![p].reply = <<IF store.spk = None THEN None ELSE ServedBundle>>]
    /\ store' = IF store.spk = None \/ store.pool = {} THEN store
                ELSE [store EXCEPT !.pool = claim_one_time_prekey(@)]
    /\ UNCHANGED <<box, disk, sess, wire, mail, now, left, derived, uses, gone, tampered, torn>>

\* A relay that makes up a bundle.  It can sign only with keys of its own, or
\* serve a signed prekey Owner once published; the one-time key, which nobody
\* signs, may be anything under any id.
ForgedSpks ==
    {Bundle(ik, Key("spk", Mallory, 1), sign(Ik(Mallory), Key("spk", Mallory, 1)), None)
        : ik \in {Ik(Owner), Ik(Mallory)}}
GenuineSpks ==
    {Bundle(Ik(Owner), Key("spk", Owner, n), sign(Ik(Owner), Key("spk", Owner, n)), None)
        : n \in IF store.spk = None THEN {} ELSE 1..store.spk}
ForgedOpks ==
    {None} \cup {Opk(id, Mallory, 1) : id \in store.pool}
           \cup {Opk(id, Owner, n) : id, n \in store.pool}

ForgeBundle(p) ==
    /\ peer[p].asked /\ Spend("forged")
    /\ \E b \in ForgedSpks \cup GenuineSpks, opk \in ForgedOpks :
           peer' = [peer EXCEPT ![p].asked = FALSE, ![p].reply = <<[b EXCEPT !.opk = opk]>>]
    /\ UNCHANGED <<box, disk, sess, store, wire, mail, now, derived, uses, gone, tampered, torn>>

\* The frame of a text; only sendMessage attaches the opener's header.
Frame(p, hdr) == [from |-> p, hdr |-> hdr]

\* A relay that writes an opener in the name of p: any id, the identity of p or its
\* own, a signed prekey of Owner or none, and an ephemeral key it has made.
ForgeOpener(p) ==
    /\ Spend("forged")
    /\ \E ik \in {Ik(p), Ik(Mallory)}, id \in {NoOpk} \cup 0..(box.keys.next - 1),
          spk \in {NoKey, Key("spk", Owner, box.keys.spk)} :
           mail' = Append(mail, Frame(p, [ik |-> ik, ek |-> Key("ek", Mallory, 0),
                                          opk |-> id, spk |-> spk]))
    /\ imposed' = imposed \cup {p}
    /\ UNCHANGED <<box, disk, sess, store, wire, peer, now, derived, uses, gone, spliced, torn>>

(* The peers.                                                               *)
requestBundle(p) ==
    /\ Spend("requests") /\ ~peer[p].asked /\ peer[p].reply = <<>>
    /\ peer' = [peer EXCEPT ![p].asked = TRUE]
    /\ UNCHANGED <<box, disk, sess, store, wire, mail, now, derived, uses, gone, tampered, torn>>

\* Mutant: the identity in the bundle is not compared with the directory.
Bound_unchecked(p, b) == TRUE
\* The identity is the one the directory has published, if the peer holds it.
Bound(p, b) == p \in Knows => b.ik = Ik(Owner)
verifyBundle(b) == verify(b.ik, b.spk, b.sig)
Usable(p, b) == b # None /\ Bound(p, b) /\ verifyBundle(b)

\* beginX3dhSession: the header from which Owner derives the secret.  Of the
\* one-time prekey it has only the id.
OpkId(b) == IF b.opk = None THEN NoOpk ELSE b.opk.id
Header(p, ek, b) == [ik |-> Ik(p), ek |-> ek, opk |-> OpkId(b), spk |-> b.spk]

\* The one-time key in a bundle is not the one Owner holds under its id.
Splice(b) == b.opk # None /\ b.opk.key # OwnOpk(b.opk.id)

\* bundle: check it, open the session, drain the outbox.
OnBundle(p) ==
    LET b == Head(peer[p].reply)
        ek == Key("ek", p, peer[p].eks)
        key == initiator(p, ek, b)
    IN /\ peer[p].reply # <<>>
       /\ \/ /\ Usable(p, b)
             /\ peer' = [peer EXCEPT ![p] = [peer[p] EXCEPT !.reply = <<>>, !.key = key, !.eks = @ + 1,
                            !.hdr = Header(p, ek, b),
                            !.queued = FALSE]]
             /\ mail' = IF peer[p].queued THEN Append(mail, Frame(p, None)) ELSE mail
             /\ derived' = [derived EXCEPT ![p] = @ \cup {key}]
             /\ spliced' = spliced \cup (IF Splice(b) THEN {p} ELSE {})
          \/ /\ ~Usable(p, b)
             /\ peer' = [peer EXCEPT ![p].reply = <<>>]
             /\ UNCHANGED <<mail, derived, spliced>>
       /\ UNCHANGED <<box, disk, sess, store, wire, now, left, uses, gone, imposed, torn>>

\* A text composed while offline waits in the outbox.
QueueText(p) ==
    /\ Spend("queued") /\ peer[p].key = None
    /\ peer' = [peer EXCEPT ![p].queued = TRUE]
    /\ UNCHANGED <<box, disk, sess, store, wire, mail, now, derived, uses, gone, tampered, torn>>

sendMessage(p) ==
    /\ Spend("texts") /\ peer[p].key # None
    /\ mail' = Append(mail, Frame(p, peer[p].hdr))
    /\ peer' = [peer EXCEPT ![p].hdr = None]
    /\ UNCHANGED <<box, disk, sess, store, wire, now, derived, uses, gone, tampered, torn>>

\* The relay delivers a stored frame once more.
Replay ==
    /\ Spend("replays") /\ mail # <<>>
    /\ mail' = Append(mail, Head(mail))
    /\ UNCHANGED <<box, disk, sess, store, wire, peer, now, derived, uses, gone, tampered, torn>>

Next ==
    \/ onConnected \/ Hello \/ PrekeysAck \/ ReceiveMsg \/ CrashOpening
    \/ Disconnect \/ SetClock
    \/ RelayPublish \/ Replay
    \/ \E p \in Peers :
          \/ dropSession(p) \/ RelayBundle(p) \/ ForgeBundle(p) \/ ForgeOpener(p)
          \/ requestBundle(p)
          \/ OnBundle(p) \/ QueueText(p) \/ sendMessage(p)

Spec == Init /\ [][Next]_vars

-----------------------------------------------------------------------------
(* Properties                                                               *)
\* Owner and the peer derive the same secret: a session that an opener has
\* created holds a secret the peer derived, across rotations, restarts, replays and
\* whatever bundle the relay made up.  A one-time key put into the peer's bundle
\* changes the last part only, so that the two ends cannot talk; the secret of an
\* opener the relay wrote itself is nobody else's.
SecretsAgree ==
    \A p \in Peers \ imposed :
        \/ sess[p] \in {None, Legacy(p)} \cup derived[p]
        \/ p \in spliced /\ \E k \in derived[p] : \A i \in 1..3 : sess[p][i] = k[i]

\* "SINGLE USE. Taking the prekey here is what makes a replayed header fail"
\* (acceptX3dhSession): a one-time prekey opens one session, whatever is replayed,
\* forged, forgotten or restored from disk, unless the process ended between the
\* two writes that follow.
SingleUse ==
    \A i, j \in DOMAIN uses : uses[i] = uses[j] => i = j \/ uses[i] \in torn

\* The relay can compute a Diffie-Hellman value if one of the keys is its own.
RelayKnows(secret) == \A i \in DOMAIN secret : \E key \in secret[i] : key.of = Mallory

\* A peer that holds the directory key never derives a secret that the relay knows,
\* whatever bundle it is served: one made up, or a genuine one with another
\* one-time key in it.
AuthenticOpen == \A p \in Knows : \A k \in derived[p] : ~RelayKnows(k)

\* A signed prekey that was destroyed never comes back, from disk or otherwise.
NotResurrected ==
    LET held(k) == {k.spk, k.prev}
    IN gone \cap (held(box.keys) \cup (IF disk = None THEN {} ELSE held(disk))) = {}

\* "Publishing happens after login": once Owner is in and everything it wrote
\* has been read, the relay has its bundle.
Published == box.on = "in" /\ wire.up = <<>> => store.spk # None
=============================================================================

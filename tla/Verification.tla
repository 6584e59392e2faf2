---------------------------- MODULE Verification ----------------------------
(***************************************************************************)
(* The bilateral safety-number gate of the client (chatclient.cpp), for    *)
(* the conversation of two users, with the parts of CryptoBox it steers.   *)
(*                                                                         *)
(* A client's state is a record, one field per member variable (the maps   *)
(* keyed by peer have a single entry).  A method is an operator from a     *)
(* record to the record it leaves behind; frames it writes to the socket   *)
(* are collected in tx, and the action that runs the method hands them to  *)
(* the relay.  Qt runs one handler at a time, so a handler is one step.    *)
(*                                                                         *)
(* The relay is idealised here (RelayDelivery has the real one): msg and   *)
(* verifyack are kept until read, in order; key frames and verify_resync   *)
(* are live only.  Left out: files, edits, X3DH openers, the replay filter *)
(* m_seenFrames (no frame is duplicated here) and the bookkeeping that     *)
(* decides WHEN a rekey-ping is due: a ping may go out whenever            *)
(* transmitRekey would send one.                                           *)
(***************************************************************************)
EXTENDS Integers, FiniteSets, SequencesExt

CONSTANTS
    Users,          \* the two users
    Keys,           \* identity keys: positive integers, ordered like memcmp
    FirstKey,       \* FirstKey[u]: the key u registers with
    MaxAdoptions,   \* bound: keys a client adopts from handshakes, at most one more
    Budgets         \* bounds: a behaviour picks one of these records and has its
                    \* texts typed, rekey-pings sent, connections lost (drops),
                    \* logouts or process exits, and reinstalls

ASSUME UserAssumption == IsFiniteSet(Users) /\ Cardinality(Users) = 2
ASSUME KeyAssumption ==
    /\ Keys \subseteq Nat \ {0}
    /\ FirstKey \in [Users -> Keys]
    /\ \A u, v \in Users : FirstKey[u] = FirstKey[v] => u = v
ASSUME BudgetAssumption ==
    /\ MaxAdoptions \in Nat
    /\ Budgets \subseteq
            [texts : Nat, pings : Nat, drops : Nat, logouts : Nat, reinstalls : Nat]

VARIABLES
    client,     \* client[u]: the record described below
    inbox,      \* frames the relay holds for u, or has on the wire to u
    directory,  \* the relay's users table: nick -> identity key, 0 for no row
    online,     \* the relay's online map: users whose socket has said hello
    used,       \* history: identity keys generated so far
    confirmed,  \* history: <<u, own key, peer key>>: u compared these two
    sent,       \* history: <<u, key pair>> of the text frames u transmitted
    lost,       \* history: <<u, key pair>> of texts u failed to decrypt
    restarted,  \* history: users who logged out, or whose process ended
    adopters,   \* history: users whose client took a key from a handshake
    refused,    \* history: users whose verifyack came before their hello, was
                \* refused, and is not armed to be sent again
    budget      \* history: what the behaviour may still do

vars == <<client, inbox, directory, online, used, confirmed, sent, lost, restarted,
          adopters, refused, budget>>

Peer(u) == CHOOSE v \in Users : v # u

---------------------------------------------------------------------------
\* A ratchet session (RatchetSession), abstracted to which chains two ends
\* share.  pair: the identities whose secret it was bootstrapped from; send:
\* the DH publics mixed into the sending chain so far; recv: those of the
\* receiving chain.  The sending chain exists (CKs) when ready.
PairOf(a, b) == IF a < b THEN <<a, b>> ELSE <<b, a>>
NoSession == [pair |-> <<0, 0>>, send |-> <<>>, recv |-> <<>>, ready |-> FALSE]

\* The rows of the per-user SQLite database that concern the peer.
EmptyDisk == [session |-> NoSession, ident |-> 0, verified |-> 0, attested |-> 0]

Fresh(key) ==
    [key |-> key,               \* m_crypto's identity key
     loggedIn |-> FALSE, on |-> FALSE,
     peerKey |-> 0,             \* m_peerKeys
     ident |-> 0,               \* m_crypto.m_peerIdentity
     session |-> NoSession,     \* m_crypto.m_sessions
     flagged |-> FALSE,         \* m_unverifiedKeyChange
     pending |-> FALSE,         \* m_pendingBilateral
     peerVerified |-> FALSE,    \* m_peerVerified
     attested |-> 0,            \* m_peerVerifiedForIdentity
     verified |-> 0,            \* m_verifiedPeerIdentity
     ackOwed |-> FALSE,         \* m_verifyAckResend
     adopted |-> 0,             \* m_rebootstrapAdopted
     throttled |-> FALSE,       \* less than 3 s since m_lastVerifyResyncMs
     stash |-> <<>>,            \* m_pendingFrames
     outbox |-> <<>>,           \* m_outbox and the outbox table
     disk |-> EmptyDisk,
     dh |-> 0,                  \* history: ratchet key pairs generated
     adoptions |-> 0,           \* history: times a key was adopted from a handshake
     tried |-> {},              \* history: the keys so adopted
     tx |-> <<>>, lost |-> <<>>] \* frames written and texts lost in this step

Init ==
    /\ client = [u \in Users |-> Fresh(FirstKey[u])]
    /\ inbox = [u \in Users |-> <<>>]
    /\ directory = [u \in Users |-> 0]
    /\ online = {}
    /\ used = {FirstKey[u] : u \in Users}
    /\ confirmed = {}
    /\ sent = {}
    /\ lost = {}
    /\ restarted = {}
    /\ adopters = {}
    /\ refused = {}
    /\ budget \in Budgets

Spend(what) == budget[what] > 0 /\ budget' = [budget EXCEPT ![what] = @ - 1]

---------------------------------------------------------------------------
\* CryptoBox

\* Mutant: a key once held is kept.
ensureSharedKey_keeps_first(c, pub) == [c EXCEPT !.ident = IF @ = 0 THEN pub ELSE @]

\* A new peer key replaces the old one, whose session is removed.
ensureSharedKey(c, pub) ==
    [c EXCEPT !.ident = pub,
              !.session = IF c.ident \notin {0, pub} THEN NoSession ELSE @]

\* Mutant: the role does not depend on the order of the keys.
amInitiatorFor_both(c) == c.ident # 0

amInitiatorFor(c) == c.ident # 0 /\ c.key < c.ident

\* A ratchet key pair never seen before.
NewDH(c) == <<c.key, c.dh>>

\* sessionFor: an existing session, or one bootstrapped from the identities.
\* Only the initiator, the smaller key, gets a sending chain.
sessionFor(c) ==
    IF c.session # NoSession THEN c
    ELSE LET boot == [NoSession EXCEPT !.pair = PairOf(c.key, c.ident)] IN
         IF amInitiatorFor(c)
         THEN [c EXCEPT !.session = [boot EXCEPT !.send = <<NewDH(c)>>, !.ready = TRUE],
                        !.dh = @ + 1]
         ELSE [c EXCEPT !.session = boot]

\* decryptFrom opens a frame of the current receiving chain, or one whose DH
\* public continues our sending chain: that is a DH ratchet step.
CurrentChain(s, f) == f.pair = s.pair /\ f.chain = s.recv
NextChain(s, f) == f.pair = s.pair /\ f.chain = Append(s.send, Last(f.chain))
Decryptable(c, f) ==
    LET s == sessionFor(c).session IN CurrentChain(s, f) \/ NextChain(s, f)

\* A failed decryption leaves the session (bootstrapped, if there was none).
decryptFrom(c, f) ==
    LET d == sessionFor(c) IN
    IF NextChain(d.session, f)
    THEN [d EXCEPT !.session.recv = f.chain,
                   !.session.send = Append(f.chain, NewDH(d)),
                   !.session.ready = TRUE,
                   !.dh = @ + 1]
    ELSE d

---------------------------------------------------------------------------
\* ChatClient: the socket, the store

Write(c, f) == IF c.on THEN [c EXCEPT !.tx = Append(@, f)] ELSE c
requestKeyFor(c) == Write(c, [type |-> "getkey"])
persistSession(c) == [c EXCEPT !.disk.session = c.session, !.disk.ident = c.ident]
clearSession(c) == [c EXCEPT !.disk.session = NoSession, !.disk.ident = 0]
dropSession(c) == [c EXCEPT !.session = NoSession]
Queue(c, item) == [c EXCEPT !.outbox = Append(@, item)]

TextItem(held) == [kind |-> "text", held |-> held]    \* held: by the gate
HandshakeItem == [kind |-> "handshake"]
AckItem(c) == [kind |-> "verifyack", peer_ik |-> c.peerKey]

MsgFrame(c, kind) ==
    [type |-> "msg", kind |-> kind, ik |-> IF kind = "handshake" THEN c.key ELSE 0,
     pair |-> c.session.pair, chain |-> c.session.send]

\* encryptFor, write, persist; a chain that is not ready sends nothing.
Transmit(c, kind) ==
    LET d == sessionFor(c) IN
    IF d.session.ready THEN persistSession(Write(d, MsgFrame(d, kind))) ELSE d
CanTransmit(c) == c.on /\ sessionFor(c).session.ready

\* Mutant: the earlier, unilateral gate.
conversationBlocked_unilateral(c) == c.flagged

conversationBlocked(c) == c.flagged \/ c.pending

transmitVerifyAck(c, verifiedKey) ==
    Write(c, [type |-> "verifyack", ik |-> c.key, peer_ik |-> verifiedKey])

\* Mutant: an ack given while offline is not queued.
sendOrQueueVerifyAck_online_only(c) == transmitVerifyAck(c, c.peerKey)

sendOrQueueVerifyAck(c) ==
    IF c.on THEN transmitVerifyAck(c, c.peerKey) ELSE Queue(c, AckItem(c))

sendVerifyResync(c) ==
    IF c.on /\ ~c.throttled
    THEN Write([c EXCEPT !.throttled = TRUE], [type |-> "verify_resync"])
    ELSE c

sendOrQueueHandshake(c) ==
    IF ~c.on \/ c.peerKey = 0
    THEN Queue(IF c.peerKey = 0 THEN requestKeyFor(c) ELSE c, HandshakeItem)
    ELSE IF CanTransmit(c) THEN Transmit(c, "handshake")
    ELSE Queue(sessionFor(c), HandshakeItem)

\* flushOutbox: one pass over the queue, item by item; what cannot go yet is
\* queued again in the same order.
FlushItem(c, item) ==
    CASE c.peerKey = 0 -> Queue(requestKeyFor(c), item)
      [] c.peerKey # 0 /\ item.kind = "verifyack" ->
            IF item.peer_ik = c.peerKey THEN transmitVerifyAck(c, item.peer_ik) ELSE c
      [] c.peerKey # 0 /\ item.kind = "text" /\ conversationBlocked(c) -> Queue(c, item)
      [] OTHER -> IF CanTransmit(c) THEN Transmit(c, item.kind)
                  ELSE Queue(sessionFor(c), item)

flushOutbox(c) ==
    LET after[k \in 0 .. Len(c.outbox)] ==
            IF k = 0 THEN [c EXCEPT !.outbox = <<>>]
            ELSE FlushItem(after[k - 1], c.outbox[k])
    IN IF c.on THEN after[Len(c.outbox)] ELSE c

---------------------------------------------------------------------------
\* ChatClient: the verification episode

\* Mutant: a peer's old attestation is kept for whatever key comes next.
flagKeyChange_keeps_ack(c) ==
    LET d == [c EXCEPT !.flagged = TRUE, !.pending = TRUE] IN
    IF c.attested # c.key THEN sendVerifyResync(d) ELSE d

flagKeyChange(c) ==
    LET d == [c EXCEPT !.flagged = TRUE, !.pending = TRUE] IN
    IF c.attested # c.key
    THEN sendVerifyResync([d EXCEPT !.peerVerified = FALSE])
    ELSE d

\* Mutant: our own confirmation closes the episode.
tryResolveBilateral_own_only(c) ==
    IF c.pending /\ ~c.flagged
    THEN flushOutbox([c EXCEPT !.pending = FALSE, !.ackOwed = FALSE,
                               !.verified = c.peerKey, !.attested = c.key,
                               !.disk.verified = c.peerKey, !.disk.attested = c.key])
    ELSE c

\* Both sides confirmed: the episode closes, is recorded, the queue is flushed.
tryResolveBilateral(c) ==
    IF c.pending /\ ~c.flagged /\ c.peerVerified
    THEN flushOutbox([c EXCEPT !.pending = FALSE, !.ackOwed = FALSE,
                               !.verified = c.peerKey, !.attested = c.key,
                               !.disk.verified = c.peerKey, !.disk.attested = c.key])
    ELSE c

\* The user taps "verified".  A tap on a stale banner only re-checks.
acknowledgeKeyChange(c) ==
    IF ~c.flagged THEN tryResolveBilateral(c)
    ELSE LET unflagged == clearSession(dropSession([c EXCEPT !.flagged = FALSE]))
             acked == [sendOrQueueVerifyAck(unflagged) EXCEPT !.ackOwed = ~c.peerVerified]
             opened == IF amInitiatorFor(acked) THEN sendOrQueueHandshake(acked) ELSE acked
         IN tryResolveBilateral(flushOutbox(opened))

maybeResendVerifyAck(c) ==
    IF c.ackOwed /\ c.pending /\ ~c.flagged /\ ~c.peerVerified /\ c.peerKey # 0
    THEN sendOrQueueVerifyAck(c)
    ELSE c

---------------------------------------------------------------------------
\* handleServerFrame

\* verifyack: it must come from the key held and name our current one.
handleVerifyAck(c, f) ==
    IF c.peerKey = 0 THEN requestKeyFor([c EXCEPT !.stash = Append(@, f)])
    ELSE IF f.ik = c.peerKey /\ f.peer_ik = c.key
    THEN tryResolveBilateral([c EXCEPT !.peerVerified = TRUE, !.attested = c.key])
    ELSE c

\* verify_resync: answered only when the episode is closed on our side.
handleVerifyResync(c) ==
    IF c.peerKey # 0 /\ ~conversationBlocked(c) THEN sendOrQueueVerifyAck(c) ELSE c

\* Mutant: the same key is adopted again whenever its handshake comes back.
adoptIdentity_unguarded(c, f) ==
    requestKeyFor(
        ensureSharedKey([c EXCEPT !.adopted = f.ik, !.peerKey = f.ik,
                                  !.stash = Append(@, f), !.adoptions = @ + 1,
                                  !.tried = @ \cup {f.ik}], f.ik))

\* A handshake under another key than the one held: adopt that key once, keep
\* the frame and ask the directory; a second time the frame is dropped.
adoptIdentity(c, f) ==
    IF c.adopted = f.ik THEN c
    ELSE requestKeyFor(
            ensureSharedKey([c EXCEPT !.adopted = f.ik, !.peerKey = f.ik,
                                      !.stash = Append(@, f), !.adoptions = @ + 1,
                                      !.tried = @ \cup {f.ik}], f.ik))

\* msg, all kinds.  A ping is answered at once, also while the gate is closed.
handleMsg(c, f) ==
    IF c.peerKey = 0 THEN requestKeyFor([c EXCEPT !.stash = Append(@, f)])
    ELSE IF f.kind = "handshake" /\ f.ik # c.peerKey THEN adoptIdentity(c, f)
    ELSE LET d == decryptFrom(c, f) IN
         IF ~Decryptable(c, f)
         THEN [d EXCEPT !.lost = IF f.kind = "text" THEN Append(@, f.pair) ELSE @]
         ELSE LET kept == persistSession(d)
                  answered == IF f.kind = "ping" THEN Transmit(kept, "pong") ELSE kept
              IN flushOutbox(answered)

\* replayPendingFrames: the frames that waited for this key.
Replay(c, f) == IF f.type = "msg" THEN handleMsg(c, f) ELSE handleVerifyAck(c, f)
replayPendingFrames(c) ==
    LET after[k \in 0 .. Len(c.stash)] ==
            IF k = 0 THEN [c EXCEPT !.stash = <<>>]
            ELSE Replay(after[k - 1], c.stash[k])
    IN after[Len(c.stash)]

\* keys, key and key_update: pub is the peer's key in the directory.  A key
\* other than the one held, or a first key, opens a verification episode.
handleKey(c, pub) ==
    LET changed == c.ident \notin {0, pub}
        newPeer == c.session = NoSession /\ c.ident = 0
                   /\ c.disk.session = NoSession /\ ~c.flagged
        known == ensureSharedKey([c EXCEPT !.peerKey = pub], pub)
        forgotten == [clearSession(dropSession(known)) EXCEPT
                        !.attested = 0, !.verified = 0,
                        !.disk.verified = 0, !.disk.attested = 0]
        judged == IF changed THEN flagKeyChange(forgotten)
                  ELSE IF c.verified # pub /\ newPeer THEN flagKeyChange(known)
                  ELSE known
    IN flushOutbox(replayPendingFrames(maybeResendVerifyAck(judged)))

handleServerFrame(c, f) ==
    CASE f.type = "keys" -> IF f.ik = 0 THEN flushOutbox(c) ELSE handleKey(c, f.ik)
      [] f.type = "key" -> handleKey(c, f.ik)
      [] f.type = "verify_resync" -> handleVerifyResync(c)
      [] f.type = "verifyack" -> handleVerifyAck(c, f)
      [] f.type = "msg" -> handleMsg(c, f)

sendMessage(c) ==
    IF c.peerKey = 0 THEN requestKeyFor(c)
    ELSE IF conversationBlocked(c) \/ ~c.on THEN Queue(c, TextItem(conversationBlocked(c)))
    ELSE IF CanTransmit(c) THEN Transmit(c, "text")
    ELSE Queue(sessionFor(c), TextItem(FALSE))

\* login: what the database keeps.  The loop that should restore m_peerVerified
\* compares with publicKeyHex(), which is empty before establishIdentity.
login(c) ==
    [Fresh(c.key) EXCEPT
        !.loggedIn = TRUE, !.disk = c.disk, !.outbox = c.outbox, !.dh = c.dh,
        !.verified = c.disk.verified, !.attested = c.disk.attested,
        !.ident = c.disk.ident, !.session = c.disk.session]

\* logout (or the process ends): only the database and the queue in it survive.
logout(c) ==
    [Fresh(c.key) EXCEPT !.disk = c.disk, !.outbox = c.outbox, !.dh = c.dh]

---------------------------------------------------------------------------
\* The relay, idealised

\* The frames of one of these types, in order.
Keep(kept, f, types) == IF f.type \in types THEN Append(kept, f) ELSE kept
Only(frames, types) ==
    LET kept[k \in 0 .. Len(frames)] ==
            IF k = 0 THEN <<>> ELSE Keep(kept[k - 1], frames[k], types)
    IN kept[Len(frames)]

Stored == {"msg", "verifyack"}
KeyFrame(type, key) == [type |-> type, ik |-> key]
TextPairs(frames) == {f.pair : f \in {g \in ToSet(Only(frames, {"msg"})) : g.kind = "text"}}

\* The answers to getkey follow the mail of a user who is online.  Before hello
\* they are all the socket carries: the backlog waits for the hello.
Answered(mail, answers, on) ==
    IF on THEN mail \o answers
    ELSE Only(mail, {"key"}) \o answers \o Only(mail, Stored)

\* c is what a handler of u made of client[u], mail and push what the relay then
\* holds for u and adds for the peer before the frames u wrote are processed, up
\* its online map.  Of a socket that has not said hello the relay takes a getkey
\* only: "must log in first" is its answer to the rest.
Settle(u, c, mail, push, dir, up) ==
    LET v == Peer(u)
        live == IF v \in up THEN {"verify_resync"} ELSE {}
        toPeer == Only(c.tx, IF u \in up THEN Stored \cup live ELSE {})
        asked == Only(c.tx, IF dir[v] = 0 THEN {} ELSE {"getkey"})
        answers == [i \in DOMAIN asked |-> KeyFrame("key", dir[v])]
        acks == Only(c.tx, {"verifyack"})
    IN /\ client' = [client EXCEPT ![u] = [c EXCEPT !.tx = <<>>, !.lost = <<>>]]
       /\ inbox' = [inbox EXCEPT ![u] = Answered(mail, answers, u \in up),
                                 ![v] = @ \o push \o toPeer]
       /\ sent' = sent \cup {<<u, p>> : p \in TextPairs(c.tx)}
       /\ lost' = lost \cup {<<u, p>> : p \in ToSet(c.lost)}
       /\ adopters' = adopters \cup
            (IF c.adoptions > client[u].adoptions THEN {u} ELSE {})
       /\ refused' = refused \cup
            (IF u \notin up /\ acks # <<>> /\ ~c.ackOwed THEN {u} ELSE {})

Run(u, c) ==
    /\ Settle(u, c, inbox[u], <<>>, directory, online)
    /\ UNCHANGED online

---------------------------------------------------------------------------
\* Actions

Login(u) ==
    /\ ~client[u].loggedIn
    /\ client' = [client EXCEPT ![u] = login(@)]
    /\ UNCHANGED <<inbox, directory, online, used, confirmed, sent, lost, restarted,
                   adopters, refused, budget>>

\* The socket opens (onConnected).  The client counts as connected and asks for
\* the salt its hello needs; until the hello the relay does not know who it is.
Connect(u) ==
    /\ client[u].loggedIn /\ ~client[u].on
    /\ client' = [client EXCEPT ![u].on = TRUE]
    /\ UNCHANGED <<inbox, directory, online, used, confirmed, sent, lost, restarted,
                   adopters, refused, budget>>

\* The salt has come, or its timer has run out: completeHello sends hello and
\* flushes.  The relay answers with the directory and the backlog, and pushes a
\* key that is new to it.
Hello(u) ==
    LET v == Peer(u)
        c == client[u]
        dir == [directory EXCEPT ![u] = c.key]
        isNew == directory[u] # c.key
    IN /\ c.on /\ u \notin online
       /\ directory' = dir
       /\ online' = online \cup {u}
       /\ Settle(u, flushOutbox(c),
                 Only(inbox[u], {"key"}) \o <<KeyFrame("keys", dir[v])>>
                                         \o Only(inbox[u], Stored),
                 IF isNew /\ v \in online THEN <<KeyFrame("key", c.key)>> ELSE <<>>,
                 dir, online \cup {u})
       /\ UNCHANGED <<used, confirmed, restarted, budget>>

\* The next frame from the relay: before hello, only the answer to a getkey.
OnWire(u) ==
    /\ client[u].on /\ inbox[u] # <<>>
    /\ u \in online \/ Head(inbox[u]).type = "key"

Deliver(u) ==
    /\ OnWire(u)
    /\ client[u].adoptions <= MaxAdoptions
    /\ Settle(u, handleServerFrame(client[u], Head(inbox[u])), Tail(inbox[u]),
              <<>>, directory, online)
    /\ UNCHANGED <<directory, online, used, confirmed, restarted, budget>>

\* The user compares the safety number on screen and confirms it.
Acknowledge(u) ==
    LET c == client[u] IN
    /\ c.loggedIn /\ conversationBlocked(c)
    /\ confirmed' = confirmed \cup
            (IF c.flagged THEN {<<u, c.key, c.peerKey>>} ELSE {})
    /\ Run(u, acknowledgeKeyChange(c))
    /\ UNCHANGED <<directory, used, restarted, budget>>

SendMessage(u) ==
    /\ client[u].loggedIn
    /\ Spend("texts")
    /\ Run(u, sendMessage(client[u]))
    /\ UNCHANGED <<directory, used, confirmed, restarted>>

\* transmitRekey(ping), whenever one of its callers finds it due.
RekeyPing(u) ==
    LET c == client[u] IN
    /\ c.on /\ c.peerKey # 0 /\ c.session # NoSession /\ c.session.ready
    /\ ~conversationBlocked(c) /\ Peer(u) \in online
    /\ Spend("pings")
    /\ Run(u, Transmit(c, "ping"))
    /\ UNCHANGED <<directory, used, confirmed, restarted>>

\* Three seconds pass since the last verify_resync.
ThrottleEnds(u) ==
    /\ client[u].throttled
    /\ client' = [client EXCEPT ![u].throttled = FALSE]
    /\ UNCHANGED <<inbox, directory, online, used, confirmed, sent, lost, restarted,
                   adopters, refused, budget>>

\* What the relay keeps for u when its socket is gone.
Backlog(u) == Only(inbox[u], Stored)

\* The socket is lost; the client keeps its memory and will reconnect.
Drop(u) ==
    /\ client[u].on
    /\ Spend("drops")
    /\ client' = [client EXCEPT ![u].on = FALSE]
    /\ inbox' = [inbox EXCEPT ![u] = Backlog(u)]
    /\ online' = online \ {u}
    /\ UNCHANGED <<directory, used, confirmed, sent, lost, restarted, adopters, refused>>

Logout(u) ==
    /\ client[u].loggedIn
    /\ Spend("logouts")
    /\ restarted' = restarted \cup {u}
    /\ client' = [client EXCEPT ![u] = logout(@)]
    /\ inbox' = [inbox EXCEPT ![u] = Backlog(u)]
    /\ online' = online \ {u}
    /\ UNCHANGED <<directory, used, confirmed, sent, lost, adopters, refused>>

\* The user reinstalls: nothing of the old device is left.  The relay binds a
\* nick to its first key, so the operator has freed the row.
Reinstall(u, key) ==
    /\ key \in Keys \ used
    /\ Spend("reinstalls")
    /\ used' = used \cup {key}
    /\ directory' = [directory EXCEPT ![u] = 0]
    /\ client' = [client EXCEPT ![u] = Fresh(key)]
    /\ inbox' = [inbox EXCEPT ![u] = Backlog(u)]
    /\ online' = online \ {u}
    /\ UNCHANGED <<confirmed, sent, lost, restarted, adopters, refused>>

Next ==
    \E u \in Users :
        \/ Login(u) \/ Connect(u) \/ Hello(u) \/ Deliver(u) \/ Acknowledge(u)
        \/ SendMessage(u) \/ RekeyPing(u) \/ ThrottleEnds(u)
        \/ Drop(u) \/ Logout(u)
        \/ \E key \in Keys : Reinstall(u, key)

Spec == Init /\ [][Next]_vars

\* A logged-in client reconnects on its timer, says hello when the salt or the
\* 3 s timer has come, and reads its socket; both users log in and confirm the number they are shown.  Nobody has to type or ping.
\* Each disjunction is weak fairness of its action, with ENABLED spelled out.
FairSpec ==
    /\ Spec
    /\ \A u \in Users :
        /\ []<>client[u].loggedIn \/ []<><<Login(u)>>_vars
        /\ []<>(client[u].on \/ ~client[u].loggedIn) \/ []<><<Connect(u)>>_vars
        /\ []<>(u \in online \/ ~client[u].on) \/ []<><<Hello(u)>>_vars
        /\ []<>(~OnWire(u) \/ client[u].adoptions > MaxAdoptions)
           \/ []<><<Deliver(u)>>_vars
        /\ []<>(~client[u].flagged) \/ []<><<Acknowledge(u)>>_vars

---------------------------------------------------------------------------
\* Properties

Chain == Seq(Keys \X Nat)
AckFrame == [type : {"verifyack"}, ik : Keys, peer_ik : Keys]
MessageFrame ==
    [type : {"msg"}, kind : {"handshake"}, ik : Keys, pair : Keys \X Keys, chain : Chain]
    \cup [type : {"msg"}, kind : {"text", "ping", "pong"}, ik : {0}, pair : Keys \X Keys,
          chain : Chain]
Frame ==
    [type : {"keys"}, ik : Keys \cup {0}] \cup [type : {"key"}, ik : Keys]
    \cup [type : {"verify_resync"}] \cup AckFrame \cup MessageFrame

\* Types, and two facts every handler relies on: the frames of a step are handed
\* over with it, and m_peerKeys and CryptoBox hold the same key for the peer.
TypeOK ==
    /\ inbox \in [Users -> Seq(Frame)]
    /\ directory \in [Users -> Keys \cup {0}]
    /\ online \subseteq {u \in Users : client[u].on}
    /\ confirmed \subseteq Users \X Keys \X Keys
    /\ \A u \in Users :
        LET c == client[u] IN
        /\ c.key \in Keys
        /\ {c.verified, c.attested, c.adopted} \subseteq Keys \cup {0}
        /\ c.stash \in Seq(AckFrame \cup MessageFrame)
        /\ c.tx = <<>> /\ c.lost = <<>>
        /\ c.peerKey \in {0, c.ident}

\* According to C, both users compared the two keys of p.
BothConfirmed(C, p) ==
    \A u \in Users : <<u, p[1], p[2]>> \in C \/ <<u, p[2], p[1]>> \in C

\* "Nothing moves between two parties until EACH of them has independently
\* confirmed the safety number" (conversationBlocked): a text is encrypted only
\* for a pair of identities both users have confirmed by then.
SentOnlyVerified == [][\A s \in sent' \ sent : BothConfirmed(confirmed', s[2])]_vars

\* No client has ever taken its peer's key from a handshake instead of the
\* directory.  A key so adopted opens no episode: it is confirmed to the peer, and
\* recorded, without its user having seen it.
NoneAdopted == adopters = {}

\* The gate holds as long as both processes live and keys come from the
\* directory: a text is encrypted only for a pair of identities both users have
\* confirmed by then, whatever is lost, late or reinstalled.  (A client logged out
\* within an episode answers a verify_resync as if it had closed it.)
GateHolds ==
    [][restarted' = {} /\ NoneAdopted' =>
            \A s \in sent' \ sent : BothConfirmed(confirmed', s[2])]_vars

\* A client believes in its peer's confirmation only if that user gave it, for
\* exactly the keys the two clients hold, or its peer has lost its gate (above).
AttestationTrue ==
    NoneAdopted =>
        \A u \in Users :
            client[u].peerVerified /\ Peer(u) \notin restarted =>
                <<Peer(u), client[u].peerKey, client[u].key>> \in confirmed

\* According to C, u compared x with its own key; so did the peer, unless in R.
RecordOf(u, own, x, C, R) ==
    /\ <<u, own, x>> \in C
    /\ Peer(u) \in R \/ <<Peer(u), x, own>> \in C

\* What the verification table remembers across restarts was confirmed: always by
\* its own user, and by the peer too unless the peer has lost its gate (above).
RecordTrue ==
    NoneAdopted =>
        \A u \in Users :
            client[u].disk.verified # 0 =>
                RecordOf(u, client[u].key, client[u].disk.verified, confirmed, restarted)

\* A text between two clients that kept their identities, were not logged out and
\* took no key from a handshake is readable: no order of confirmations,
\* handshakes, pings and reconnects separates their chains.
Readable ==
    restarted = {} /\ NoneAdopted =>
        \A u \in Users : <<u, PairOf(client[u].key, client[Peer(u)].key)>> \notin lost

\* "Without this one-shot guard, a handshake whose `ik` never converges with the
\* server's authoritative key ... loops forever": the guard cuts the loop of
\* adopting, asking the directory and replaying, as long as the handshakes state
\* one identity.  (Two that state different ones disarm it in turn.)
LoopCut ==
    \A u \in Users :
        client[u].adoptions > 1 => \E a, b \in client[u].tried : a # b

\* The episode ends: once a client is flagged, both users confirm and the gate
\* opens on that side, whoever was offline when; also after the other end came
\* back with a new identity, which starts an episode inside the episode.  A
\* logout in between, or a key adopted from a handshake, may leave it closed, and
\* so may the peer's confirmation if it was written before the peer's hello.
GateOpens ==
    \A u \in Users :
        client[u].flagged ~>
            (~conversationBlocked(client[u]) \/ restarted # {} \/ ~NoneAdopted
             \/ Peer(u) \in refused)
=============================================================================

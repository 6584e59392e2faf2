------------------------------- MODULE Rekey -------------------------------
(***************************************************************************)
(* The post-compromise rekey of chatclient.cpp: the count of one-way       *)
(* frames, the ping and the pong that force a ratchet turn, the idle timer,*)
(* the kick timer that retries, the heal after a reconnect or an unlock.   *)
(*                                                                         *)
(* Two users and the session between them.  The ratchet is reduced to what *)
(* a turn changes: gen numbers the sending key pair of a user (modulo 3),  *)
(* seen is the newest one of the peer; a frame under an unseen key pair    *)
(* makes the receiver turn.  A user is "down", "open" (connected, hello    *)
(* not sent: the relay refuses every frame) or "in".  mail[u] is what the  *)
(* relay stores for u and what the peer has written to its socket; lost    *)
(* links take frames with them.  An episode of the verification gate       *)
(* (module Verification) resolves for both users in one step here.         *)
(***************************************************************************)
EXTENDS Integers, Sequences

CONSTANTS
    Users,          \* the two users
    Window,         \* kPcsRekeyAfterMessages
    MaxResends,     \* kPcsRekeyPingMaxResends
    MaxTries,       \* kPcsRekeyKickMaxTries
    MaxMail,        \* bound: frames on their way when one more is composed
    Starts          \* scenarios: initiator, established, and what may happen

ASSUME RekeyAssumption ==
    /\ Window \in Nat \ {0} /\ MaxResends \in Nat /\ MaxTries \in Nat \ {0}
    /\ MaxMail \in Nat
    /\ \A u \in Users : \E v \in Users : Users = {u, v} /\ u # v
    /\ \A s \in Starts : "initiator" \in DOMAIN s /\ s.initiator \in Users

VARIABLES
    client,     \* each user's ChatClient, as far as the rekey is concerned
    mail,       \* frames on their way to each user: [kind, gen, era]
    era,        \* number of the identity pair in force
    left        \* scenario: what may still happen

vars == <<client, mail, era, left>>

Other(u) == CHOOSE v \in Users : v # u
NoEntry == -1       \* m_sentSinceRatchet has no entry for the peer
Unseen == 3         \* no key pair of the peer is known

\* clearPcsState: what logout leaves of the accounting (and what a start finds).
clearPcsState(c) ==
    [c EXCEPT !.sent = NoEntry, !.out = FALSE, !.late = FALSE, !.resends = 0,
              !.owed = FALSE, !.heal = FALSE, !.kick = FALSE, !.tries = 0]

Blank ==
    [on |-> "down", gate |-> TRUE, peerOn |-> FALSE, keyed |-> FALSE, stale |-> FALSE,
     sess |-> FALSE, live |-> FALSE, gen |-> 0, seen |-> Unseen, era |-> 0,
     sent |-> NoEntry, saved |-> 0, since |-> 0, queued |-> 0,
     out |-> FALSE, late |-> FALSE, resends |-> 0, owed |-> FALSE,
     heal |-> FALSE, kick |-> FALSE, tries |-> 0, tx |-> <<>>]

\* Sessions as a resolved episode leaves them: the initiator can send, the
\* responder can once a frame of the initiator has reached it.
Bootstrapped(c, initiator) ==
    [c EXCEPT !.sess = TRUE, !.live = initiator, !.gen = 0, !.seen = Unseen,
              !.since = 0, !.stale = FALSE]

Init ==
    \E s \in Starts :
        /\ client = [u \in Users |->
               IF s.established
               THEN [Blank EXCEPT !.sess = TRUE, !.live = TRUE,
                                  !.gen = IF u = s.initiator THEN 1 ELSE 0, !.seen = 0]
               ELSE Bootstrapped(Blank, u = s.initiator)]
        /\ mail = [u \in Users |-> <<>>]
        /\ era = 0
        /\ left = s

-----------------------------------------------------------------------------
(* Methods of ChatClient, from a client to the client they leave; tx        *)
(* collects the frames they write to the socket.                            *)

Up(c) == c.on # "down"
Write(c, kind) == [c EXCEPT !.tx = Append(@, [kind |-> kind, gen |-> c.gen, era |-> c.era])]
persistSession(c) == [c EXCEPT !.saved = IF c.sent = NoEntry THEN 0 ELSE c.sent]

\* When transmitRekey returns true: a ping needs an open gate and a peer that
\* is online, a pong only a sending chain.
Transmittable(c, isPong) ==
    /\ isPong \/ (c.gate /\ c.peerOn)
    /\ c.sess /\ c.live
transmitRekey(c, isPong) == persistSession(Write(c, IF isPong THEN "pong" ELSE "ping"))

markRekeyPingSent(c) ==
    [c EXCEPT !.resends = IF c.out THEN @ ELSE 0,
              !.out = TRUE, !.late = FALSE, !.kick = TRUE]

StartKick(c) == [c EXCEPT !.tries = 0, !.kick = TRUE]
Ping(c) == markRekeyPingSent(transmitRekey(c, FALSE))

noteOutboundTo(c) ==
    LET d == [c EXCEPT !.sent = IF @ = NoEntry THEN 1 ELSE @ + 1]
    IN IF d.sent < Window \/ d.out \/ ~Up(d) \/ ~d.sess THEN d
       ELSE IF Transmittable(d, FALSE) THEN Ping(d) ELSE StartKick(d)

\* Mutant: the count is left as it is.
noteInboundFrom_uncounted(c) ==
    [c EXCEPT !.out = FALSE, !.late = FALSE, !.resends = 0]
noteInboundFrom(c) ==
    [c EXCEPT !.sent = 0, !.out = FALSE, !.late = FALSE, !.resends = 0]

\* Bound to the old chain; a pong that is owed stays owed.
resetPcsFor(c) ==
    [c EXCEPT !.sent = NoEntry, !.out = FALSE, !.late = FALSE, !.resends = 0]

sendOwedPongIfReady(c) ==
    IF c.owed /\ Up(c) /\ Transmittable(c, TRUE)
    THEN [transmitRekey(c, TRUE) EXCEPT !.owed = FALSE]
    ELSE c

\* One text or file key frame, encrypted and counted.
Emit(c, kind) ==
    noteOutboundTo(persistSession([Write(c, kind) EXCEPT !.since = @ + 1]))

Sendable(c) == Up(c) /\ c.keyed /\ c.gate /\ c.sess /\ c.live
flushOutbox(c) ==
    LET after[k \in 0..c.queued] == IF k = 0 THEN [c EXCEPT !.queued = 0]
                                    ELSE Emit(after[k - 1], "text")
    IN IF Sendable(c) THEN after[c.queued] ELSE c

reestablishPcsForAll(c) ==
    LET d == IF ~c.keyed \/ ~c.sess \/ ~c.gate \/ c.out THEN c
             ELSE IF Up(c) /\ Transmittable(c, FALSE)
                  THEN [Ping(c) EXCEPT !.heal = FALSE]
                  ELSE [c EXCEPT !.heal = TRUE]
    IN IF d.heal THEN StartKick(d) ELSE d

(* kickRekey, in its four parts.                                            *)
\* Mutant: a ping that has used up its resends is waited for all the same.
Overdue_kept(c) ==
    IF c.out /\ c.late /\ c.resends < MaxResends /\ Transmittable(c, FALSE)
    THEN [transmitRekey(c, FALSE) EXCEPT !.late = FALSE, !.resends = @ + 1]
    ELSE c
\* (0) a ping whose pong is overdue is sent again, or given up.
Overdue(c) ==
    IF ~c.out \/ ~c.late THEN c
    ELSE IF c.resends >= MaxResends THEN [c EXCEPT !.out = FALSE, !.late = FALSE, !.resends = 0]
    ELSE IF Transmittable(c, FALSE)
         THEN [transmitRekey(c, FALSE) EXCEPT !.late = FALSE, !.resends = @ + 1]
    ELSE c
\* (1) a ping the count or the idle rule asks for.
PingDue(c) == c.sent > 0 /\ ~c.out /\ c.gate /\ c.sess
DuePing(c) == IF PingDue(c) /\ Transmittable(c, FALSE) THEN Ping(c) ELSE c
\* (2) a pong that is owed.
OwedPong(c) ==
    IF c.owed /\ Transmittable(c, TRUE)
    THEN [transmitRekey(c, TRUE) EXCEPT !.owed = FALSE]
    ELSE c
\* (3) a heal that was parked.
ParkedHeal(c) ==
    IF ~c.heal THEN c
    ELSE IF ~c.gate \/ c.out THEN [c EXCEPT !.heal = FALSE]
    ELSE IF Transmittable(c, FALSE) THEN [Ping(c) EXCEPT !.heal = FALSE]
    ELSE c

\* Whether the timer that has just fired is started again.
Rearm(c) ==
    IF (c.owed /\ c.sess) \/ c.out THEN StartKick(c)
    ELSE IF (PingDue(c) \/ c.owed \/ c.heal) /\ c.tries + 1 < MaxTries
         THEN [c EXCEPT !.tries = @ + 1, !.kick = TRUE]
    ELSE [c EXCEPT !.tries = 0]

kickRekey(c) ==
    LET fired == [c EXCEPT !.kick = FALSE]
    IN IF Up(c) THEN Rearm(ParkedHeal(OwedPong(DuePing(Overdue(fired))))) ELSE fired

\* The handler of the idle timer.
IdleBackstop(c) ==
    LET d == IF ~PingDue(c) THEN c
             ELSE IF Transmittable(c, FALSE) THEN Ping(c) ELSE StartKick(c)
    IN IF d.owed THEN StartKick(d) ELSE d

(* Receiving.                                                               *)
\* Mutant: the first frame of the initiator does not give the responder a chain.
Decrypt_no_chain(c, f) ==
    IF f.gen = c.seen THEN c
    ELSE [c EXCEPT !.seen = f.gen, !.gen = (@ + 1) % 3, !.since = 0, !.stale = FALSE]
\* A frame under a new key pair of the peer turns the ratchet.
Decrypt(c, f) ==
    IF f.gen = c.seen THEN c
    ELSE [c EXCEPT !.seen = f.gen, !.gen = (@ + 1) % 3, !.live = TRUE, !.since = 0, !.stale = FALSE]

\* Mutant: a pong is taken for one more ping.
AnswerPing_pong_too(c, f) ==
    LET d == sendOwedPongIfReady([c EXCEPT !.owed = TRUE])
    IN IF f.kind \notin {"ping", "pong"} THEN c ELSE IF d.owed THEN StartKick(d) ELSE d
AnswerPing(c, f) ==
    LET d == sendOwedPongIfReady([c EXCEPT !.owed = TRUE])
    IN IF f.kind # "ping" THEN c ELSE IF d.owed THEN StartKick(d) ELSE d

\* A frame that decrypts; a text, a handshake or a pong also pays a pong that
\* is owed, a file does not, and a frame that made the chain sendable drains
\* the outbox.
Received(c, f) ==
    LET d == noteInboundFrom(Decrypt(c, f))
        e == IF f.kind \in {"ping", "file"} THEN d ELSE sendOwedPongIfReady(d)
        g == persistSession(AnswerPing(e, f))
    IN IF f.kind = "file" THEN g ELSE flushOutbox(g)

-----------------------------------------------------------------------------
(* Steps.  What a user writes goes to the relay, which refuses the frames of *)
(* a socket that has not said hello.                                         *)

Step(u, c) ==
    /\ client' = [client EXCEPT ![u] = [c EXCEPT !.tx = <<>>]]
    /\ mail' = IF c.on = "in" THEN [mail EXCEPT ![Other(u)] = @ \o c.tx] ELSE mail

\* Bound: a frame is composed only while few are on their way.
Room == \A u \in Users : Len(mail[u]) + Len(mail[Other(u)]) < MaxMail

Spend(field) == left[field] > 0 /\ left' = [left EXCEPT ![field] = @ - 1]
SpendBy(u, field) == left[field][u] > 0 /\ left' = [left EXCEPT ![field][u] = @ - 1]

\* sendMessage and sendFile: what cannot go out now is queued (a text; a file
\* is offered again by the user).
Send(u, kind) ==
    LET c == client[u]
    IN /\ SpendBy(u, "sends")
       /\ Room
       /\ kind = "text" \/ Sendable(c)
       /\ Step(u, IF Sendable(c) THEN Emit(c, kind) ELSE [c EXCEPT !.queued = @ + 1])
       /\ UNCHANGED era

Idle(u) ==
    /\ Up(client[u]) /\ Room
    /\ Step(u, IdleBackstop(client[u]))
    /\ UNCHANGED <<era, left>>

Kick(u) ==
    /\ client[u].kick /\ Room
    /\ Step(u, kickRekey(client[u]))
    /\ UNCHANGED <<era, left>>

\* kPcsRekeyPongTimeoutMs have passed since the last ping.
PongTimeout(u) ==
    /\ client[u].out /\ ~client[u].late
    /\ client' = [client EXCEPT ![u].late = TRUE]
    /\ UNCHANGED <<mail, era, left>>

\* A msg or file_init frame reaches u: it decrypts if its sender had the
\* identities in force; a frame of a newer identity waits for the key.
Receive(u) ==
    LET c == client[u]
        f == Head(mail[u])
        d == IF f.era = c.era /\ (c.sess \/ c.gate) THEN Received([c EXCEPT !.sess = TRUE], f) ELSE c
    IN /\ c.on = "in" /\ c.keyed /\ mail[u] # <<>> /\ f.era <= c.era
       /\ client' = [client EXCEPT ![u] = [d EXCEPT !.tx = <<>>]]
       /\ mail' = [mail EXCEPT ![u] = Tail(@), ![Other(u)] = @ \o d.tx]
       /\ UNCHANGED <<era, left>>

Presence(u) ==
    /\ client[u].on = "in"
    /\ client' = [client EXCEPT ![u].peerOn = (client[Other(u)].on = "in")]
    /\ UNCHANGED <<mail, era, left>>

\* onConnected: the kick timer is started if a pong is owed or the map of
\* counts is not empty (an entry that is zero counts).
onConnected(u) ==
    LET c == [client[u] EXCEPT !.on = "open"]
    IN /\ client[u].on = "down"
       /\ Step(u, IF c.owed \/ c.sent # NoEntry THEN StartKick(c) ELSE c)
       /\ UNCHANGED <<era, left>>

\* completeHello: hello, the outbox, the heal.
completeHello(u) ==
    /\ client[u].on = "open"
    /\ Step(u, reestablishPcsForAll(flushOutbox([client[u] EXCEPT !.on = "in"])))
    /\ UNCHANGED <<era, left>>

\* The relay's dump of keys, which follows hello.
KeysArrive(u) ==
    /\ client[u].on = "in" /\ ~client[u].keyed
    /\ Step(u, flushOutbox([client[u] EXCEPT !.keyed = TRUE]))
    /\ UNCHANGED <<era, left>>

\* verifyPin or onBiometricSucceeded opens the lock of the running session.
Unlock(u) ==
    /\ Spend("unlocks")
    /\ Step(u, reestablishPcsForAll(client[u]))
    /\ UNCHANGED era

\* The link of u is lost, with i frames to u and the last j frames of u.
Drop(u) ==
    /\ Spend("drops")
    /\ Up(client[u])
    /\ \E i \in 0..Len(mail[u]), j \in 0..Len(mail[Other(u)]) :
           mail' = [mail EXCEPT ![u] = SubSeq(@, i + 1, Len(@)),
                                ![Other(u)] = SubSeq(@, 1, Len(@) - j)]
    /\ client' = [client EXCEPT ![u].on = "down", ![u].stale = client[u].sess]
    /\ UNCHANGED era

\* logout and login of the same user: the sessions and the positive counts
\* are restored from the history store, the keys of the peers are not.
Relogin(u) ==
    LET c == clearPcsState(client[u])
    IN /\ Spend("logins")
       /\ client' = [client EXCEPT ![u] =
              [c EXCEPT !.on = "down", !.keyed = FALSE, !.stale = c.sess,
                        !.sent = IF c.sess /\ c.saved > 0 THEN c.saved ELSE NoEntry]]
       /\ UNCHANGED <<mail, era>>

\* u starts again with a new identity key: nothing is left on its side.
Reinstall(u) ==
    /\ Spend("reinstalls")
    /\ era' = era + 1
    /\ client' = [client EXCEPT ![u] = [Blank EXCEPT !.era = era + 1, !.gate = FALSE]]
    /\ UNCHANGED mail

\* The new key of the peer reaches u: the gate closes, the session is dropped.
AdoptKey(u) ==
    LET c == client[u]
    IN /\ c.on = "in" /\ c.keyed /\ c.era < era
       /\ client' = [client EXCEPT ![u] = [resetPcsFor(c) EXCEPT !.gate = FALSE, !.era = era,
                        !.sess = FALSE, !.live = FALSE, !.since = 0, !.saved = 0, !.stale = FALSE]]
       /\ UNCHANGED <<mail, era, left>>

GateDue == \A u \in Users : client[u].on = "in" /\ client[u].keyed /\ ~client[u].gate /\ client[u].era = era

\* Both have acknowledged the keys in force: the sessions start again, the
\* initiator writes the handshake, and what was queued goes out.
GateOpens ==
    LET opened(u) == Bootstrapped(resetPcsFor([client[u] EXCEPT !.gate = TRUE]), u = left.initiator)
        i == left.initiator
        c == flushOutbox(persistSession(Write(opened(i), "handshake")))
    IN /\ GateDue
       /\ client' = [u \in Users |-> IF u = i THEN [c EXCEPT !.tx = <<>>] ELSE opened(u)]
       /\ mail' = [mail EXCEPT ![Other(i)] = @ \o c.tx]
       /\ UNCHANGED <<era, left>>

Timers(u) == Idle(u) \/ Kick(u) \/ PongTimeout(u)
Network(u) ==
    \/ onConnected(u) \/ completeHello(u) \/ KeysArrive(u)
    \/ Receive(u) \/ Presence(u) \/ AdoptKey(u)

Next ==
    \/ \E u \in Users :
          \/ \E kind \in {"text", "file"} : Send(u, kind)
          \/ Timers(u) \/ Network(u) \/ Unlock(u)
          \/ Drop(u) \/ Relogin(u) \/ Reinstall(u)
    \/ GateOpens

Spec == Init /\ [][Next]_vars
\* Timers fire, the client reconnects, the relay delivers, and an episode of
\* the gate that both users can resolve is resolved; nobody has to write.
\* Each disjunction is weak fairness of its action, with ENABLED spelled out.
TimersDue(u) ==
    LET c == client[u]
    IN \/ c.out /\ ~c.late
       \/ Room /\ c.kick /\ kickRekey(c) # c
       \/ Room /\ Up(c) /\ IdleBackstop(c) # c
NetworkDue(u) ==
    LET c == client[u]
    IN \/ c.on # "in" \/ ~c.keyed \/ mail[u] # <<>> \/ c.era < era
       \/ c.peerOn # (client[Other(u)].on = "in")
FairSpec ==
    /\ Spec
    /\ \A u \in Users :
        /\ []<>(~TimersDue(u)) \/ []<><<Timers(u)>>_vars
        /\ []<>(~NetworkDue(u)) \/ []<><<Network(u)>>_vars
    /\ []<>(~GateDue) \/ []<><<GateOpens>>_vars

-----------------------------------------------------------------------------
\* The count that decides about a ping never exceeds the frames really sent
\* under the key pair in force: what has been healed is not counted again,
\* across a lost link, a restored count and a new session.
WindowHonest == \A u \in Users : client[u].sent <= client[u].since

\* A ping whose answer nobody is waiting for: the flag that suppresses every
\* further ping is up and the timer that would take it down is not running.
Unwatched(u) == client[u].out /\ ~client[u].kick /\ client[u].on = "in"

\* One-way frames do not stay unanswered: a positive count is taken back by a
\* frame of the peer, by the end of the session or by a new session, unless
\* the ping has become unwatched.
Heals == \A u \in Users : client[u].sent > 0 ~> (client[u].sent <= 0 \/ Unwatched(u))

\* "A pong is a PROMISE we must keep": it is kept in the step that decrypts the
\* ping, because that step also makes the chain sendable, also in a session
\* that has just been restored or started again; the retry is never needed.
PongAtOnce == \A u \in Users : ~client[u].owed

\* "sends nothing on a healthy, quiescent channel": once the users are silent
\* the timers stop and no frame is exchanged.
Quiesces == <>[](\A u \in Users : ~client[u].kick /\ mail[u] = <<>>)
=============================================================================

--------------------------- MODULE RelayDelivery ---------------------------
(***************************************************************************)
(* Store-and-forward in the relay (server/server.py).                      *)
(*                                                                         *)
(* One coroutine ChatServer.handle runs per socket; all of them share one  *)
(* event loop, so a step of this module is the code between two awaits.    *)
(* A stored frame (msg, delete, reaction, verifyack: four branches with    *)
(* one and the same body) is a row of the messages table, its id is its    *)
(* index.  delivery_cursor[n] is the highest id handed to n.  A login      *)
(* drains history_for in batches, and the drain runs AFTER the socket is   *)
(* in self.online, so live frames of other coroutines interleave with it.  *)
(*                                                                         *)
(* The websockets library and TCP are external: a link is open; dead (the  *)
(* peer is gone, the library has not noticed, a send vanishes); or closed  *)
(* (a send raises ConnectionClosed, the receive loop ends).                *)
(***************************************************************************)
EXTENDS Integers, Sequences, FiniteSets

CONSTANTS
    Nicks,          \* registered users
    Socks,          \* server-side connections, each used once
    Accounts,       \* Accounts[s]: the users whose keys the client behind s holds
    None,           \* Python's None
    HistoryLimit,   \* rows per history_for batch (50 in the code)
    DrainCap,       \* iterations of the drain loop (400 in the code)
    MaxMessages,    \* bound: rows ever stored
    MaxAgain,       \* bound: hellos on sockets that have said hello before
    MaxFailures     \* bound: links that die or are closed by the client

ASSUME NickAssumption == None \notin Nicks /\ None \notin Socks
ASSUME AccountsAssumption == Accounts \in [Socks -> SUBSET Nicks]
ASSUME LimitAssumption == HistoryLimit \in Nat \ {0} /\ DrainCap \in Nat \ {0}
ASSUME BoundAssumption == MaxMessages \in Nat /\ MaxAgain \in Nat /\ MaxFailures \in Nat

VARIABLES
    messages,   \* the messages table: a sequence of [from, to]
    cursor,     \* the delivery_cursor table (a missing row reads as 0)
    online,     \* self.online: nick -> socket or None
    nick,       \* the local variable nick of each coroutine
    new_nick,   \* its local variable new_nick, while a close is awaited
    pc,         \* where each coroutine is suspended
    link,       \* state of each socket, as the websockets library sees it
    batch,      \* ids of the history_for batch still to be sent on a socket
    round,      \* iterations of the drain loop done by a coroutine
    relay,      \* the live send a coroutine is awaiting
    wire,       \* frames written to a socket and not yet read by the client,
                \* each with the user it was written for
    received,   \* ids of the frames for a user that a client of the user has read
    taken,      \* history: frames taken on for s, by a live send or by a batch
    former,     \* history: nicks a socket has left by another hello
    again,      \* history: hellos on sockets that had said hello before
    failures    \* history: links failed so far

vars == <<messages, cursor, online, nick, new_nick, pc, link, batch, round, relay,
          wire, received, taken, former, again, failures>>

Frame == [from : Nicks, to : Nicks]
Sent == Nicks \X (1 .. MaxMessages)
Ids == 1 .. Len(messages)
NoRelay == [id |-> 0, to |-> None, target |-> None]

TypeOK ==
    /\ messages \in Seq(Frame) /\ Len(messages) <= MaxMessages
    /\ cursor \in [Nicks -> 0 .. MaxMessages]
    /\ online \in [Nicks -> Socks \cup {None}]
    /\ nick \in [Socks -> Nicks \cup {None}]
    /\ new_nick \in [Socks -> Nicks \cup {None}]
    /\ pc \in [Socks -> {"off", "serve", "evict", "login", "drain", "relay", "done"}]
    /\ link \in [Socks -> {"new", "open", "dead", "closed"}]
    /\ batch \in [Socks -> SUBSET (1 .. MaxMessages)]
    /\ round \in [Socks -> 0 .. DrainCap]
    /\ relay \in [Socks -> [id : 0 .. MaxMessages, to : Nicks \cup {None},
                            target : Socks \cup {None}]]
    /\ wire \in [Socks -> Seq(Sent)]
    /\ received \in [Nicks -> SUBSET (1 .. MaxMessages)]
    /\ taken \in [Socks -> SUBSET Sent]
    /\ former \in [Socks -> SUBSET Nicks]
    /\ again \in 0 .. MaxAgain /\ failures \in 0 .. MaxFailures

Init ==
    /\ messages = <<>>
    /\ cursor = [n \in Nicks |-> 0]
    /\ online = [n \in Nicks |-> None]
    /\ nick = [s \in Socks |-> None]
    /\ new_nick = [s \in Socks |-> None]
    /\ pc = [s \in Socks |-> "off"]
    /\ link = [s \in Socks |-> "new"]
    /\ batch = [s \in Socks |-> {}]
    /\ round = [s \in Socks |-> 0]
    /\ relay = [s \in Socks |-> NoRelay]
    /\ wire = [s \in Socks |-> <<>>]
    /\ received = [n \in Nicks |-> {}]
    /\ taken = [s \in Socks |-> {}]
    /\ former = [s \in Socks |-> {}]
    /\ again = 0 /\ failures = 0

---------------------------------------------------------------------------
\* Storage

\* Mutant: the upsert stores the new id whatever the row holds.
advance_cursor_overwrites(n, id) ==
    cursor' = [cursor EXCEPT ![n] = id]

\* advance_cursor: the upsert keeps the maximum.
advance_cursor(n, id) ==
    cursor' = [cursor EXCEPT ![n] = IF id > @ THEN id ELSE @]

\* The rows history_for may return: n is a party, the id is past n's cursor.
Backlog(n) ==
    {i \in Ids : i > cursor[n] /\ (messages[i].from = n \/ messages[i].to = n)}

\* ORDER BY id ASC LIMIT: the rows with fewer than HistoryLimit rows before them.
history_for(n) ==
    {i \in Backlog(n) : Cardinality({j \in Backlog(n) : j < i}) < HistoryLimit}

---------------------------------------------------------------------------
\* Mutant: the finally clause forgets the presence table.
finally_keeps_online(s) == UNCHANGED online

\* The finally clause: only the socket that owns the entry removes it.
finally_online(s) ==
    online' = [n \in Nicks |-> IF n = nick[s] /\ online[n] = s
                               THEN None ELSE online[n]]

\* The coroutine ends: the finally clause, then the library closes the socket.
Exit(s) ==
    /\ pc' = [pc EXCEPT ![s] = "done"]
    /\ link' = [link EXCEPT ![s] = "closed"]
    /\ batch' = [batch EXCEPT ![s] = {}]
    /\ relay' = [relay EXCEPT ![s] = NoRelay]
    /\ finally_online(s)
    /\ UNCHANGED <<messages, cursor, nick, new_nick, round, wire, received, taken, former,
                   again, failures>>

\* ws.send of a frame for n on a socket that is not closed: the frame reaches the
\* wire, or vanishes when the peer is gone.
Put(t, n, id) ==
    wire' = [wire EXCEPT ![t] = IF link[t] = "open" THEN Append(@, <<n, id>>) ELSE @]

Connect(s) ==
    /\ link[s] = "new"
    /\ link' = [link EXCEPT ![s] = "open"]
    /\ pc' = [pc EXCEPT ![s] = "serve"]
    /\ UNCHANGED <<messages, cursor, online, nick, new_nick, batch, round, relay, wire,
                   received, taken, former, again, failures>>

\* nick = new_nick; self.online[nick] = ws; then the key dump is awaited.  An entry
\* under the nick the socket had before stays as it is.
Bind(s, n) ==
    /\ nick' = [nick EXCEPT ![s] = n]
    /\ online' = [online EXCEPT ![n] = s]
    /\ pc' = [pc EXCEPT ![s] = "login"]
    /\ round' = [round EXCEPT ![s] = 0]
    /\ former' = [former EXCEPT ![s] = (@ \cup {nick[s]}) \ {n, None}]

\* hello of an account in good standing (a refused login is left out), the first
\* one of the socket or a further one, under the same nick or another.  Another
\* socket of the nick is closed first, and that close is awaited.
Hello(s, n) ==
    LET existing == online[n] IN
    /\ pc[s] = "serve" /\ link[s] = "open" /\ n \in Accounts[s]
    /\ nick[s] # None => again < MaxAgain
    /\ again' = again + (IF nick[s] = None THEN 0 ELSE 1)
    /\ \/ /\ existing \in {None, s}
          /\ Bind(s, n)
          /\ UNCHANGED <<link, new_nick>>
       \/ /\ existing \notin {None, s}
          /\ link' = [link EXCEPT ![existing] = "closed"]
          /\ new_nick' = [new_nick EXCEPT ![s] = n]
          /\ pc' = [pc EXCEPT ![s] = "evict"]
          /\ UNCHANGED <<nick, online, round, former>>
    /\ UNCHANGED <<messages, cursor, batch, relay, wire, received, taken, failures>>

\* await existing.close() returns; the rest of the login does not look again.
EvictDone(s) ==
    /\ pc[s] = "evict"
    /\ Bind(s, new_nick[s])
    /\ new_nick' = [new_nick EXCEPT ![s] = None]
    /\ UNCHANGED <<messages, cursor, link, batch, relay, wire, received, taken, again,
                   failures>>

\* The key dump and the log snapshot are sent, or the send raises.
LoginSend(s) ==
    /\ pc[s] = "login"
    /\ \/ /\ link[s] = "closed"
          /\ Exit(s)
       \/ /\ link[s] # "closed"
          /\ pc' = [pc EXCEPT ![s] = "drain"]
          /\ UNCHANGED <<messages, cursor, online, nick, new_nick, link, batch, round,
                         relay, wire, received, taken, former, again, failures>>

\* One iteration of the drain loop: history_for takes the next rows and moves
\* the cursor over all of them before the first one is sent.
FetchBatch(s) ==
    LET rows == history_for(nick[s]) IN
    /\ pc[s] = "drain" /\ batch[s] = {}
    /\ \/ /\ rows = {} \/ round[s] = DrainCap
          /\ pc' = [pc EXCEPT ![s] = "serve"]
          /\ UNCHANGED <<cursor, batch, round, taken>>
       \/ /\ rows # {} /\ round[s] < DrainCap
          /\ batch' = [batch EXCEPT ![s] = rows]
          /\ round' = [round EXCEPT ![s] = @ + 1]
          /\ taken' = [taken EXCEPT ![s] = @ \cup ({nick[s]} \X rows)]
          /\ \E top \in rows : /\ \A i \in rows : i <= top
                               /\ advance_cursor(nick[s], top)
          /\ UNCHANGED pc
    /\ UNCHANGED <<messages, online, nick, new_nick, link, relay, wire, received, former,
                   again, failures>>

\* for env in batch: what is left of the batch once row id is sent.
rest_of_batch(s, id) == batch[s] \ {id}

\* await ws.send(env) for the next row of the batch, or it raises.
SendBacklog(s) ==
    /\ pc[s] = "drain" /\ batch[s] # {}
    /\ \/ /\ link[s] = "closed"
          /\ Exit(s)
       \/ /\ link[s] # "closed"
          /\ \E id \in batch[s] :
                /\ \A j \in batch[s] : id <= j
                /\ batch' = [batch EXCEPT ![s] = rest_of_batch(s, id)]
                /\ Put(s, nick[s], id)
          /\ UNCHANGED <<messages, cursor, online, nick, new_nick, pc, link, round,
                         relay, received, taken, former, again, failures>>

\* target_ws = self.online.get(to): the socket is looked up before the send.
live_send(id, r) == [id |-> id, to |-> r, target |-> online[r]]

\* msg / delete / reaction / verifyack: the row is stored, the recipient's
\* socket is looked up, and a live send to it is awaited if there is one.
RelayStored(s, r) ==
    LET id == Len(messages) + 1 IN
    /\ pc[s] = "serve" /\ link[s] = "open" /\ nick[s] # None
    /\ r # nick[s]
    /\ Len(messages) < MaxMessages
    /\ messages' = Append(messages, [from |-> nick[s], to |-> r])
    /\ \/ /\ online[r] = None
          /\ UNCHANGED <<pc, relay, taken>>
       \/ /\ online[r] # None
          /\ taken' = [taken EXCEPT ![online[r]] = @ \cup {<<r, id>>}]
          /\ relay' = [relay EXCEPT ![s] = live_send(id, r)]
          /\ pc' = [pc EXCEPT ![s] = "relay"]
    /\ UNCHANGED <<cursor, online, nick, new_nick, link, batch, round, wire, received, former,
                   again, failures>>

\* typing / verify_resync: live only, nothing is stored.
RelayEphemeral(s, r) ==
    /\ pc[s] = "serve" /\ link[s] = "open" /\ nick[s] # None
    /\ r # nick[s] /\ online[r] # None
    /\ relay' = [relay EXCEPT ![s] = live_send(0, r)]
    /\ pc' = [pc EXCEPT ![s] = "relay"]
    /\ UNCHANGED <<messages, cursor, online, nick, new_nick, link, batch, round, wire,
                   received, taken, former, again, failures>>

\* Mutant: the frame is written to the sender's own socket.
send_target_own(s) == s

\* The socket a live send writes to.
send_target(s) == relay[s].target

\* The awaited live send returns; a stored frame then moves the cursor.
RelaySent(s) ==
    LET t == send_target(s) IN
    /\ pc[s] = "relay" /\ link[t] # "closed"
    /\ \/ /\ relay[s].id = 0
          /\ UNCHANGED <<wire, cursor>>
       \/ /\ relay[s].id # 0
          /\ Put(t, relay[s].to, relay[s].id)
          /\ advance_cursor(relay[s].to, relay[s].id)
    /\ pc' = [pc EXCEPT ![s] = "serve"]
    /\ relay' = [relay EXCEPT ![s] = NoRelay]
    /\ UNCHANGED <<messages, online, nick, new_nick, link, batch, round, received, taken,
                   former, again, failures>>

\* The live send raises ConnectionClosed: it leaves the sender's own loop.
RelayRaise(s) ==
    /\ pc[s] = "relay" /\ link[relay[s].target] = "closed"
    /\ Exit(s)

\* async for ends because this socket is closed.
HandlerEnds(s) ==
    /\ pc[s] = "serve" /\ link[s] = "closed"
    /\ Exit(s)

---------------------------------------------------------------------------
\* The network and the client.

\* The client reads the next frame.
ClientRead(s) ==
    /\ link[s] \in {"open", "closed"} /\ wire[s] # <<>>
    /\ received' = [received EXCEPT ![Head(wire[s])[1]] = @ \cup {Head(wire[s])[2]}]
    /\ wire' = [wire EXCEPT ![s] = Tail(@)]
    /\ UNCHANGED <<messages, cursor, online, nick, new_nick, pc, link, batch, round,
                   relay, taken, former, again, failures>>

\* The peer vanishes (new = "dead") or closes (new = "closed"); what was on
\* its way to it is gone.
LinkFails(s, new) ==
    /\ link[s] = "open" /\ failures < MaxFailures
    /\ link' = [link EXCEPT ![s] = new]
    /\ wire' = [wire EXCEPT ![s] = <<>>]
    /\ failures' = failures + 1
    /\ UNCHANGED <<messages, cursor, online, nick, new_nick, pc, batch, round, relay,
                   received, taken, former, again>>

\* The library's keepalive gives up on a dead peer.
KeepaliveTimeout(s) ==
    /\ link[s] = "dead"
    /\ link' = [link EXCEPT ![s] = "closed"]
    /\ UNCHANGED <<messages, cursor, online, nick, new_nick, pc, batch, round, relay,
                   wire, received, taken, former, again, failures>>

\* Steps the event loop schedules once they are possible.
Server(s) ==
    \/ EvictDone(s) \/ LoginSend(s) \/ FetchBatch(s) \/ SendBacklog(s)
    \/ RelaySent(s) \/ RelayRaise(s) \/ HandlerEnds(s)

Client(s) ==
    \/ Connect(s)
    \/ \E n \in Nicks : Hello(s, n) \/ RelayStored(s, n) \/ RelayEphemeral(s, n)

Network(s) ==
    \/ ClientRead(s) \/ KeepaliveTimeout(s)
    \/ LinkFails(s, "dead") \/ LinkFails(s, "closed")

Next == \E s \in Socks : Server(s) \/ Client(s) \/ Network(s)

Spec == Init /\ [][Next]_vars

\* A coroutine of the event loop that is not waiting for a frame of its client.
Ready(s) ==
    \/ pc[s] \in {"evict", "login", "drain", "relay"}
    \/ pc[s] = "serve" /\ link[s] = "closed"

\* asyncio runs every ready coroutine; a connected client reads its socket.
\* Nothing obliges a user to connect or send, or a link to fail.  (Ready(s) is
\* ENABLED Server(s), so the first conjunct is WF_vars(Server(s)).)
FairSpec ==
    /\ Spec
    /\ \A s \in Socks : ([]<>~Ready(s) \/ []<><<Server(s)>>_vars) /\ WF_vars(ClientRead(s))

---------------------------------------------------------------------------
\* Properties

\* Frame id is on its way to n over s: written to the socket, in the batch that the
\* coroutine of s is sending, or in a live send to s that is being awaited.
OnItsWay(s, n, id) ==
    \/ \E k \in 1 .. Len(wire[s]) : wire[s][k] = <<n, id>>
    \/ nick[s] = n /\ id \in batch[s]
    \/ \E q \in Socks : relay[q].id = id /\ relay[q].to = n /\ relay[q].target = s

\* No frame is dropped on a healthy link: one the relay took on for a socket, by a
\* live send or in a batch of the drain, has been read or is on its way, unless
\* that link has failed.
TakenAccounted ==
    \A s \in Socks, f \in Sent :
        f \in taken[s] =>
            \/ f[2] \in received[f[1]]
            \/ OnItsWay(s, f[1], f[2])
            \/ link[s] # "open"

\* What the comment on delivery_cursor promises ("this can never lose a
\* message"): a row the cursor has passed, which no login will replay again, has
\* been read or is on its way.
NeverLost ==
    \A id \in Ids :
        LET r == messages[id].to IN
        id <= cursor[r] =>
            \/ id \in received[r]
            \/ \E s \in Socks : OnItsWay(s, r, id)

Running(s) == pc[s] \in {"serve", "evict", "login", "drain", "relay"}

\* self.online names a coroutine that runs under that nick, so presence lists no
\* ghost, through evictions, late finally clauses and exceptions; but for the nick
\* that a socket left by saying hello under another one, whose entry nobody removes.
OnlineServing ==
    \A n \in Nicks : LET s == online[n] IN
        s # None => (Running(s) /\ nick[s] = n) \/ n \in former[s]

\* advance_cursor never moves a cursor backward, however the live sends of
\* several coroutines and a drain complete.
CursorMonotonic == [][\A n \in Nicks : cursor'[n] >= cursor[n]]_vars

\* A frame the relay took on for a socket, live or from the backlog, is read in the
\* end unless that link fails.
EventuallyRead ==
    \A s \in Socks, f \in Sent :
        f \in taken[s] ~> (f[2] \in received[f[1]] \/ link[s] # "open")

\* What has become of frame id, for the abstract specification.
PhaseOf(id) ==
    IF id \notin Ids THEN "absent"
    ELSE LET r == messages[id].to IN
         IF id \in received[r] THEN "read"
         ELSE IF \E s \in Socks : OnItsWay(s, r, id) THEN "offered"
         ELSE IF id > cursor[r] THEN "kept" ELSE "gone"

Abstract == INSTANCE Mailbox WITH
    Rows <- 1 .. MaxMessages,
    to <- [id \in Ids |-> messages[id].to],
    phase <- [id \in 1 .. MaxMessages |-> PhaseOf(id)],
    disturbed <- \E s \in Socks : link[s] \in {"dead", "closed"}

\* The relay implements the abstract mailbox, whatever its coroutines, drains,
\* evictions and failing links do.
ImplementsMailbox == Abstract!Spec
=============================================================================

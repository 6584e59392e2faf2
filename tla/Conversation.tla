---------------------------- MODULE Conversation ----------------------------
(***************************************************************************)
(* One conversation of two users: texts, edits, deletions, reactions,      *)
(* typing states and files, from the composing ChatClient through its      *)
(* outbox and its socket, over the relay, to the history and the screen of *)
(* the other one, with lost links, restarts and crashes inside a handler.  *)
(*                                                                         *)
(* A client is a record; methods are operators from records to records.    *)
(* hist, react, box, got, savedN and used are on disk; the rest is memory. *)
(* The list on screen is screen, the rows of the conversation, and notices *)
(* between them, each given by the number of rows above it; risen is       *)
(* history: the tombstones that the last reload has put there as messages. *)
(* Texts and files of a user are numbered; the body of a text is its       *)
(* version.  The gate (module Verification) is "blocked" until this user   *)
(* verifies, "waiting" until a responder has read a frame of the peer.     *)
(* The relay hands a frame over live or stores it, and a login drains what *)
(* is stored while live frames go on (module RelayDelivery, which also has *)
(* the live send and its cursor update apart).                             *)
(***************************************************************************)
EXTENDS FileTransfer

CONSTANTS
    Users,      \* the two users
    Starts      \* scenarios: gates, who composes, and what may happen how often

ASSUME UsersAssumption ==
    \A u \in Users : \E v \in Users : Users = {u, v} /\ u # v
ASSUME StartsAssumption ==
    \A s \in Starts : /\ s.settled \in BOOLEAN
                      /\ s.gate \in [Users -> {"open", "blocked", "waiting"}]

VARIABLES
    client,     \* each user's ChatClient with its database
    out,        \* frames written to a user's socket, not handled by the relay
    wire,       \* frames the relay has sent to a user
    stored,     \* rows past a user's delivery cursor
    login,      \* a login the relay is still serving: see NoLogin
    files,      \* the relay's file tables
    online,     \* users in the relay's self.online
    left,       \* scenario: what may still happen
    ghost       \* history: see Ghosts

vars == <<client, out, wire, stored, login, files, online, left, ghost>>

Other(u) == CHOOSE v \in Users : v # u
Item(mid) == <<mid[1], mid[2]>>
Elements(s) == {s[i] : i \in DOMAIN s}
TextFrames == {"text", "edit"}
TextItems(s) == {Item(fr.mid) : fr \in {x \in Elements(s) : x.kind \in TextFrames}}
Retractions(s) == {fr.mid : fr \in {x \in Elements(s) : x.kind = "delete"}}

\* An empty database and a client that has not connected.
Fresh(gate) ==
    [up |-> FALSE, hi |-> FALSE, keyed |-> FALSE, gate |-> gate, ids |-> 0, since |-> 0,
     gone |-> FALSE, active |-> FALSE, screen |-> <<>>, notices |-> <<>>, risen |-> {}, unread |-> 0,
     hist |-> <<>>, react |-> {}, box |-> <<>>, outbox |-> <<>>, nextRid |-> 1, next |-> 1,
     n |-> 1, savedN |-> 1, used |-> {}, incoming |-> {}, got |-> {},
     told |-> "none", armed |-> FALSE, shows |-> FALSE, tx |-> <<>>]

Ghosts ==
    [lost |-> {},       \* items with a frame refused, lost with a link, skipped by
                        \* the cursor, or dropped because its message key had been used
     late |-> {},       \* items with a fetched frame that a live one overtook
     renamed |-> {},    \* texts that waited in the outbox table when a process ended
     again |-> {},      \* texts that were sent and stayed in the outbox table
     reused |-> {},     \* users who encrypt under a key they have used before
     cut |-> {},        \* files that were open when their receiver lost its link
     asked |-> {},      \* <<user, id>>: the user deleted the message
     passed |-> {},     \* texts the relay has accepted
     recalled |-> {},   \* ids of retractions it has accepted after their text
     unheard |-> {},    \* of these, those lost with a link or skipped by the cursor
     opened |-> {},     \* users whose chain was made by a file_init
     blind |-> {}]      \* users who lost a link

-----------------------------------------------------------------------------
(* MessageModel and HistoryStore: changing rows.                            *)

\* indexOfMid: the first row of that id; a system row has none.
indexOfMid(c, mid) ==
    LET at == {i \in DOMAIN c.screen : c.screen[i].kind # "system" /\ c.screen[i].mid = mid}
    IN IF at = {} THEN 0 ELSE CHOOSE i \in at : \A j \in at : i <= j
OnScreen(c, mid) == indexOfMid(c, mid) # 0

markDeletedByMid(c, mid) ==
    IF ~OnScreen(c, mid) THEN c
    ELSE [c EXCEPT !.screen[indexOfMid(c, mid)] =
             [@ EXCEPT !.deleted = TRUE, !.me = FALSE, !.peer = FALSE]]

applyReaction(c, mid, mine, on) ==
    LET i == indexOfMid(c, mid) IN
    IF ~OnScreen(c, mid) \/ c.screen[i].deleted THEN c
    ELSE IF mine THEN [c EXCEPT !.screen[i].me = on] ELSE [c EXCEPT !.screen[i].peer = on]

editTextByMid(c, mid, body) ==
    LET i == indexOfMid(c, mid) IN
    IF ~OnScreen(c, mid) \/ c.screen[i].kind = "file" \/ c.screen[i].deleted THEN c
    ELSE [c EXCEPT !.screen[i] = [@ EXCEPT !.body = body, !.edited = TRUE]]

\* markDeleted: every row of that id.
markDeleted(c, mid) ==
    [c EXCEPT !.hist = [i \in DOMAIN @ |->
        IF @[i].kind # "system" /\ @[i].mid = mid THEN [@[i] EXCEPT !.deleted = TRUE] ELSE @[i]]]

Editable(r, mid) == r.kind = "text" /\ r.mid = mid /\ ~r.deleted
Updates(c, mid) == \E i \in DOMAIN c.hist : Editable(c.hist[i], mid)

\* updateTextRow: every text row of that id that is no tombstone.
updateTextRow(c, mid, body) ==
    [c EXCEPT !.hist = [i \in DOMAIN @ |->
        IF Editable(@[i], mid) THEN [@[i] EXCEPT !.body = body, !.edited = TRUE] ELSE @[i]]]

\* setReaction: a cleared reaction is removed.
setReaction(c, mid, who, on) ==
    [c EXCEPT !.react = IF on THEN @ \cup {<<mid, who>>} ELSE @ \ {<<mid, who>>}]

\* loadConversation: the rows without their tombstones (r.deleted is not looked
\* at), then the reactions; a reaction lands on the first row of its id.
loadConversation(c) ==
    LET bare == [c EXCEPT !.notices = <<>>,
                     !.risen = {r.mid : r \in {x \in Elements(c.hist) : x.deleted}},
                     !.screen = [i \in DOMAIN c.hist |-> [c.hist[i] EXCEPT !.deleted = FALSE]]]
        badge(i, who) == /\ <<bare.screen[i].mid, who>> \in c.react
                         /\ indexOfMid(bare, bare.screen[i].mid) = i
    IN [bare EXCEPT !.screen =
           [i \in DOMAIN @ |-> [@[i] EXCEPT !.me = badge(i, "me"), !.peer = badge(i, "peer")]]]

\* addSystem for a line that is in no history.
addSystem(c) == [c EXCEPT !.notices = Append(@, Len(c.screen))]

\* setActivePeer to the peer, or to nobody.
setActivePeer(c) ==
    IF c.active THEN [c EXCEPT !.active = FALSE, !.screen = <<>>, !.notices = <<>>, !.risen = {}]
    ELSE loadConversation([c EXCEPT !.active = TRUE, !.unread = 0])

-----------------------------------------------------------------------------
(* Typing states: told is m_lastTypingStateSent, armed the idle timer.      *)

\* A state is recorded as told even when nothing can be sent.
sendTypingState(c, state) ==
    IF c.told = state THEN c
    ELSE LET d == [c EXCEPT !.told = state]
         IN IF c.up THEN Write(d, Frame("typing", <<>>, 0, 0, state = "typing")) ELSE d

notifyTyping(c) == [sendTypingState(c, "typing") EXCEPT !.armed = TRUE]

TypingIdle(c) == [sendTypingState(c, "idle") EXCEPT !.armed = FALSE]

setPeerTyping(c, on) == [c EXCEPT !.shows = on]

-----------------------------------------------------------------------------
(* The outbox.                                                              *)

\* queueOutbox: the table row does not take the id along.
queueOutbox(c, mid) ==
    LET item == [rid |-> c.nextRid, kind |-> "text", k |-> mid[2], mid |-> mid]
    IN [addTextRow(c, Row("text", mid, 0, TRUE)) EXCEPT
           !.box = Append(@, [item EXCEPT !.mid = <<>>]),
           !.outbox = Append(@, item), !.nextRid = @ + 1]

\* rid is the key of the table.
deleteOutboxRow(c, rid) ==
    LET at == {i \in DOMAIN c.box : c.box[i].rid = rid}
        i == CHOOSE j \in at : TRUE
    IN IF at = {} THEN c
       ELSE [c EXCEPT !.box =
                [j \in 1 .. Len(c.box) - 1 |-> IF j < i THEN c.box[j] ELSE c.box[j + 1]]]

restoreOutbox(c) == [c EXCEPT !.outbox = @ \o c.box]

\* Mutant: an item goes back to the front.
Requeue_front(c, item) == [c EXCEPT !.outbox = <<item>> \o @]
Requeue(c, item) == [c EXCEPT !.outbox = Append(@, item)]

\* One text out of the queue; a row without id gets a new one.
FlushText(c, u, item) ==
    LET mid == IF item.mid = <<>> THEN <<u, item.k, c.ids>> ELSE item.mid
    IN Write(encryptFor(c), Frame("text", mid, 0, c.n, FALSE))

\* One round of the loop of flushOutbox.  A file is sent, or queued again as a
\* new row, or dropped when its source is gone; its row is deleted anyway.
FlushItem(c, u, item) ==
    IF ~c.up \/ ~c.keyed \/ c.gate = "blocked" THEN Requeue(c, item)
    ELSE IF item.kind = "file"
    THEN deleteOutboxRow(IF c.gone THEN c ELSE sendFile(c, u, item.k), item.rid)
    ELSE IF c.gate = "waiting" THEN Requeue(c, item)
    ELSE deleteOutboxRow(persistSession(FlushText(c, u, item)), item.rid)

\* Mutant: the list is not taken and cleared up front.
flushOutbox_uncleared(c, u) ==
    LET after[k \in 0 .. Len(c.outbox)] ==
            IF k = 0 THEN c ELSE FlushItem(after[k - 1], u, c.outbox[k])
    IN after[Len(c.outbox)]

flushOutbox(c, u) ==
    LET after[k \in 0 .. Len(c.outbox)] ==
            IF k = 0 THEN [c EXCEPT !.outbox = <<>>] ELSE FlushItem(after[k - 1], u, c.outbox[k])
    IN after[Len(c.outbox)]

-----------------------------------------------------------------------------
(* What the user does.                                                      *)

\* sendMessage, with the peer's key at hand.
sendMessage(c, u) ==
    LET mid == <<u, c.next, c.ids>>
        row == Row("text", mid, 0, TRUE)
        d == [c EXCEPT !.next = @ + 1]
    IN IF c.gate # "open" \/ ~c.up THEN addMessage(queueOutbox(d, mid), row)
       ELSE persistSession(addTextRow(addMessage(sendTypingState(
                Write(encryptFor(d), Frame("text", mid, 0, c.n, FALSE)), "idle"), row), row))

\* The rows the user may edit: an own text on screen that is no tombstone, while
\* the frame can be sent.
MayEdit(c, mid) ==
    /\ OnScreen(c, mid) /\ c.keyed /\ c.gate = "open" /\ c.up
    /\ LET r == c.screen[indexOfMid(c, mid)] IN r.mine /\ r.kind = "text" /\ ~r.deleted

editMessage(c, mid) ==
    LET body == c.screen[indexOfMid(c, mid)].body + 1
    IN persistSession(updateTextRow(editTextByMid(
           Write(encryptFor(c), Frame("edit", mid, body, c.n, FALSE)), mid, body), mid, body))

deleteForMe(c, mid) == markDeleted(markDeletedByMid(c, mid), mid)

\* Mutant: whose message it is is not looked at.
deleteForEveryone_any(c, mid) ==
    IF c.up THEN Write(deleteForMe(c, mid), Frame("delete", mid, 0, 0, FALSE))
    ELSE deleteForMe(c, mid)

\* Only an own message on screen is retracted, and only when connected.
deleteForEveryone(c, mid) ==
    IF ~OnScreen(c, mid) THEN markDeleted(c, mid)
    ELSE IF ~c.screen[indexOfMid(c, mid)].mine \/ ~c.up THEN deleteForMe(c, mid)
    ELSE Write(deleteForMe(c, mid), Frame("delete", mid, 0, 0, FALSE))

\* Mutant: the reaction is shown and not stored.
sendReaction_unstored(c, mid, on) ==
    LET d == applyReaction(c, mid, TRUE, on)
    IN IF c.up THEN Write(d, Frame("reaction", mid, 0, 0, on)) ELSE d

sendReaction(c, mid, on) ==
    LET d == setReaction(applyReaction(c, mid, TRUE, on), mid, "me", on)
    IN IF c.up THEN Write(d, Frame("reaction", mid, 0, 0, on)) ELSE d

\* resendMessage: the words or the file of an own row, as a new item.  The
\* sources of sent files are known to the run that sent them only.
MayResend(c, mid) ==
    /\ OnScreen(c, mid)
    /\ LET r == c.screen[indexOfMid(c, mid)]
       IN /\ r.mine
          /\ IF r.kind = "file" THEN mid[3] >= c.since /\ ~c.gone ELSE c.keyed /\ ~r.deleted

newFile(c, u) == sendFile([c EXCEPT !.next = @ + 1], u, c.next)

-----------------------------------------------------------------------------
(* What a frame does.  A decrypted message frame drains the outbox.         *)

\* Mutant: a decrypted frame does not drain the outbox.
Drained_not(c, u) == c
Drained(c, u) == flushOutbox(c, u)

OnText(c, fr) ==
    LET row == Row("text", fr.mid, fr.body, FALSE)
        d == persistSession(addTextRow(setPeerTyping(c, FALSE), row))
    IN IF c.active THEN addMessage(d, row) ELSE incrementUnread(d)

\* Mutant: a message that is edited on screen is not edited in the history.
OnEdit_screen_only(c, fr) ==
    LET row == Row("text", fr.mid, fr.body, FALSE)
        d == persistSession(addTextRow(c, row))
    IN IF OnScreen(c, fr.mid) THEN persistSession(editTextByMid(c, fr.mid, fr.body))
       ELSE IF Updates(c, fr.mid) THEN persistSession(updateTextRow(c, fr.mid, fr.body))
       ELSE IF c.active THEN addMessage(d, row) ELSE incrementUnread(d)

\* An edit of a message that is not held, or is a tombstone, is a new message.
OnEdit(c, fr) ==
    LET row == Row("text", fr.mid, fr.body, FALSE)
        d == persistSession(addTextRow(c, row))
    IN IF Updates(c, fr.mid)
       THEN persistSession(editTextByMid(updateTextRow(c, fr.mid, fr.body), fr.mid, fr.body))
       ELSE IF c.active THEN addMessage(d, row) ELSE incrementUnread(d)

\* A message of the ratchet: dropped as a duplicate, or read.
OnMsg(c, u, fr) ==
    IF ~Decrypts(c, fr) THEN c
    ELSE LET d == decryptFrom(c, fr)
         IN Drained(CASE fr.kind = "text" -> OnText(d, fr)
                      [] fr.kind = "edit" -> OnEdit(d, fr)
                      [] fr.kind = "handshake" -> persistSession(d), u)

OnKeys(c, u) == flushOutbox([c EXCEPT !.keyed = TRUE], u)

\* Mutant: only the conversation on screen is changed.
OnDelete_screen_only(c, fr) == markDeletedByMid(c, fr.mid)

\* Mutant: the conversation on screen is not told.
OnDelete_stored_only(c, fr) == markDeleted(c, fr.mid)

OnDelete(c, fr) == markDeleted(markDeletedByMid(c, fr.mid), fr.mid)
OnReaction(c, fr) == applyReaction(setReaction(c, fr.mid, "peer", fr.on), fr.mid, FALSE, fr.on)
OnTyping(c, fr) == setPeerTyping(c, fr.on)

\* Mutant: the indicator of a peer that left stays.
OnPresence_kept(c, fr) == c

\* A peer that is not online is not typing.
OnPresence(c, fr) == IF fr.on THEN c ELSE setPeerTyping(c, FALSE)

Received(c, u, fr) ==
    CASE fr.kind \in {"text", "edit", "handshake"} -> OnMsg(c, u, fr)
      [] fr.kind = "keys" -> OnKeys(c, u)
      [] fr.kind = "delete" -> OnDelete(c, fr)
      [] fr.kind = "reaction" -> OnReaction(c, fr)
      [] fr.kind = "typing" -> OnTyping(c, fr)
      [] fr.kind = "presence" -> OnPresence(c, fr)
      [] fr.kind = "init" -> OnFileInit(c, fr)
      [] fr.kind = "chunk" -> OnChunk(c, fr)
      [] fr.kind = "end" -> OnFileEnd(c, fr)

\* completeHello: hello, and the outbox behind it.
completeHello(c, u) ==
    flushOutbox([Write(c, Frame("hello", <<>>, 0, 0, FALSE)) EXCEPT !.hi = TRUE], u)

\* The gate opens for this user (acknowledgeKeyChange), and the outbox drains.
Verified(c, u) ==
    LET d == [c EXCEPT !.gate = "open"] IN IF d.up THEN flushOutbox(d, u) ELSE d

\* The link is gone: memory stays, and a line on the screen says so.
onDisconnected(c) == addSystem([c EXCEPT !.up = FALSE, !.hi = FALSE])

\* A new process: what is on disk, and the login that restores the outbox.  The gate
\* of the verification is memory; the chain of a responder is not there yet.
Restarted(c) ==
    restoreOutbox([Fresh(IF c.gate = "waiting" THEN "waiting" ELSE "open") EXCEPT
        !.ids = c.ids + 1, !.since = c.ids + 1,
        !.gone = c.gone, !.hist = c.hist, !.react = c.react, !.box = c.box,
        !.nextRid = c.nextRid, !.next = c.next, !.n = c.savedN, !.savedN = c.savedN,
        !.used = c.used, !.got = c.got])

-----------------------------------------------------------------------------
(* The relay.                                                               *)

Stored == {"text", "edit", "handshake", "delete", "reaction"}
FileFrames == {"init", "chunk", "end"}

\* broadcast_presence: everybody who is online learns who is.
Presence(u, on) == Frame("presence", <<>>, 0, 0, on)

\* Nothing is served; otherwise the rows and files fetched and not sent yet, and
\* the files the user had when it said hello.
NoLogin == [stage |-> "none", batch |-> <<>>, have |-> {}]

\* hello: self.online and the key dump; the rest of the login is awaited.
RelayHello(u) ==
    /\ online' = online \cup {u}
    /\ wire' = [wire EXCEPT ![u] = Append(@, Frame("keys", <<>>, 0, 0, FALSE))]
    /\ login' = [login EXCEPT ![u] = [stage |-> "drain", batch |-> <<>>, have |-> client[u].got]]
    /\ UNCHANGED <<stored, files, ghost>>

\* history_for: the next rows (some of a batch may be u's own, which its client
\* drops), and the cursor moves over all of them; without rows the loop ends and
\* pending_files_for reads the files.
FetchBatch(u) ==
    /\ login[u].stage = "drain" /\ login[u].batch = <<>>
    /\ \/ \E k \in 1 .. Len(stored[u]) :
             /\ login' = [login EXCEPT ![u].batch = SubSeq(stored[u], 1, k)]
             /\ stored' = [stored EXCEPT ![u] = SubSeq(@, k + 1, Len(@))]
       \/ /\ stored[u] = <<>>
          /\ \E rows \in ByTime(pending_files_for(files, u, login[u].have)) :
                login' = [login EXCEPT ![u].stage = "files", ![u].batch = ReplayAll(rows)]
          /\ UNCHANGED stored
    /\ UNCHANGED <<client, out, wire, files, online, left, ghost>>

\* await ws.send for the next frame of the batch.
SendBacklog(u) ==
    /\ login[u].batch # <<>>
    /\ wire' = [wire EXCEPT ![u] = Append(@, Head(login[u].batch))]
    /\ login' = [login EXCEPT ![u].batch = Tail(@)]
    /\ UNCHANGED <<client, out, stored, files, online, left, ghost>>

\* The end of a login: presence.
LoginDone(u) ==
    LET v == Other(u) IN
    /\ login[u].stage = "files" /\ login[u].batch = <<>>
    /\ login' = [login EXCEPT ![u] = NoLogin]
    /\ wire' = [wire EXCEPT ![u] = Append(@, Presence(v, v \in online)),
                            ![v] = IF v \in online THEN Append(@, Presence(u, TRUE)) ELSE @]
    /\ UNCHANGED <<client, out, stored, files, online, left, ghost>>

\* Mutant: a stored frame is not kept for a user who is offline.
Forward_live_only(u, fr) ==
    LET v == Other(u) IN
    /\ wire' = [wire EXCEPT ![v] = IF v \in online THEN Append(@, fr) ELSE @]
    /\ UNCHANGED stored

\* A frame of u for the other user: handed over live, or stored unless it is a
\* typing state or part of a file.  advance_cursor after a live one skips the rows
\* that a login of the other user has not fetched yet.
Forward(u, fr) ==
    LET v == Other(u) IN
    /\ wire' = [wire EXCEPT ![v] = IF v \in online THEN Append(@, fr) ELSE @]
    /\ stored' = [stored EXCEPT ![v] = IF fr.kind \notin Stored THEN @
                                        ELSE IF v \in online THEN <<>> ELSE Append(@, fr)]

\* History: the rows of a login of v that live frames overtake or skip.
Overtaking(g, v, frs) ==
    IF v \notin online \/ frs = <<>> THEN g
    ELSE [g EXCEPT !.lost = @ \cup TextItems(stored[v]), !.late = @ \cup TextItems(login[v].batch),
                   !.unheard = @ \cup Retractions(stored[v])]

\* The relay handles the next frame of u, once u's login is served.  Before hello it
\* refuses all others.
RelayTakes(u) ==
    LET fr == Head(out[u]) IN
    /\ out[u] # <<>> /\ login[u].stage = "none"
    /\ out' = [out EXCEPT ![u] = Tail(@)]
    /\ IF fr.kind = "hello" THEN RelayHello(u)
       ELSE IF u \notin online
       THEN /\ ghost' = [ghost EXCEPT !.lost = @ \cup TextItems(<<fr>>)]
            /\ UNCHANGED <<wire, stored, login, files, online>>
       ELSE /\ Forward(u, fr)
            /\ files' = IF fr.kind \in FileFrames THEN StoreFile(files, fr) ELSE files
            /\ ghost' = [Overtaking(ghost, Other(u), IF fr.kind \in Stored THEN <<fr>> ELSE <<>>)
                         EXCEPT
                  !.passed = @ \cup IF fr.kind = "text" THEN {Item(fr.mid)} ELSE {},
                  !.recalled = @ \cup IF fr.kind = "delete" /\ Item(fr.mid) \in ghost.passed
                                      THEN {fr.mid} ELSE {}]
            /\ UNCHANGED <<login, online>>
    /\ UNCHANGED <<client, left>>

-----------------------------------------------------------------------------
(* The actions of a client.                                                 *)

\* A method of u's client ran and left c.
Does(u, c) ==
    /\ client' = [client EXCEPT ![u] = [c EXCEPT !.tx = <<>>]]
    /\ out' = [out EXCEPT ![u] = @ \o c.tx]

Spend(what) == left[what] > 0 /\ left' = [left EXCEPT ![what] = @ - 1]
Network == <<wire, stored, login, files, online>>
Mids(u) == {client[u].hist[i].mid : i \in {j \in DOMAIN client[u].hist :
                                            client[u].hist[j].kind # "system"}}
ScreenMids(u) == {mid \in Mids(u) : OnScreen(client[u], mid)}

Compose(u) ==
    /\ u \in left.who /\ client[u].active /\ client[u].keyed
    /\ Spend("texts")
    /\ Does(u, sendMessage(client[u], u))
    /\ UNCHANGED <<Network, ghost>>

SendFile(u) ==
    /\ u \in left.who /\ client[u].active /\ (client[u].up => client[u].keyed)
    /\ ~client[u].gone
    /\ Spend("files")
    /\ Does(u, newFile(client[u], u))
    /\ UNCHANGED <<Network, ghost>>

Resend(u, mid) ==
    /\ MayResend(client[u], mid)
    /\ IF client[u].screen[indexOfMid(client[u], mid)].kind = "file"
       THEN Spend("files") /\ Does(u, newFile(client[u], u))
       ELSE Spend("texts") /\ Does(u, sendMessage(client[u], u))
    /\ UNCHANGED <<Network, ghost>>

Edit(u, mid) ==
    /\ MayEdit(client[u], mid)
    /\ Spend("edits")
    /\ Does(u, editMessage(client[u], mid))
    /\ UNCHANGED <<Network, ghost>>

DeleteForMe(u, mid) ==
    /\ Spend("deletes")
    /\ Does(u, deleteForMe(client[u], mid))
    /\ ghost' = [ghost EXCEPT !.asked = @ \cup {<<u, mid>>}]
    /\ UNCHANGED Network

DeleteForEveryone(u, mid) ==
    /\ Spend("deletes")
    /\ Does(u, deleteForEveryone(client[u], mid))
    /\ ghost' = [ghost EXCEPT !.asked = @ \cup {<<u, mid>>}]
    /\ UNCHANGED Network

React(u, mid, on) ==
    /\ Spend("reacts")
    /\ Does(u, sendReaction(client[u], mid, on))
    /\ UNCHANGED <<Network, ghost>>

Type(u) ==
    /\ u \in left.who /\ client[u].active /\ client[u].up
    /\ Spend("types")
    /\ Does(u, notifyTyping(client[u]))
    /\ UNCHANGED <<Network, ghost>>

TypingTimer(u) ==
    /\ client[u].armed
    /\ Does(u, TypingIdle(client[u]))
    /\ UNCHANGED <<Network, left, ghost>>

Switch(u) ==
    /\ Spend("switches")
    /\ Does(u, setActivePeer(client[u]))
    /\ UNCHANGED <<Network, ghost>>

SourceVanishes(u) ==
    /\ ~client[u].gone /\ Spend("vanish")
    /\ Does(u, [client[u] EXCEPT !.gone = TRUE])
    /\ UNCHANGED <<Network, ghost>>

Verify(u) ==
    /\ client[u].gate = "blocked"
    /\ Does(u, Verified(client[u], u))
    /\ UNCHANGED <<Network, left, ghost>>

Connect(u) ==
    /\ ~client[u].up
    /\ Does(u, [client[u] EXCEPT !.up = TRUE])
    /\ UNCHANGED <<Network, left, ghost>>

Hello(u) ==
    /\ client[u].up /\ ~client[u].hi
    /\ Does(u, completeHello(client[u], u))
    /\ UNCHANGED <<Network, left, ghost>>

\* The client reads the next frame.  A message whose key has been used before is
\* gone when its sender used the key again.
Read(u) ==
    LET fr == Head(wire[u]) IN
    /\ wire[u] # <<>>
    /\ Does(u, Received(client[u], u, fr))
    /\ wire' = [wire EXCEPT ![u] = Tail(@)]
    /\ ghost' = [ghost EXCEPT !.lost = @ \cup
           IF fr.kind \in TextFrames /\ ~Decrypts(client[u], fr) /\ Other(u) \in ghost.reused
           THEN {Item(fr.mid)} ELSE {},
           !.opened = IF fr.kind = "init" /\ client[u].gate = "waiting" THEN @ \cup {u} ELSE @]
    /\ UNCHANGED <<stored, login, files, online, left>>

-----------------------------------------------------------------------------
(* Failures.                                                                *)

\* The connection of u ends, from ghosts g: what was on its way to or from u is
\* gone, what was fetched for it too; frs is the last text of u the relay took, if any.
Cut(u, frs, g) ==
    LET v == Other(u)
        off == IF u \in online THEN <<Presence(u, FALSE)>> ELSE <<>>
    IN /\ out' = [out EXCEPT ![u] = <<>>]
       /\ wire' = [wire EXCEPT ![u] = <<>>, ![v] = IF v \in online THEN @ \o frs \o off ELSE @]
       /\ stored' = [stored EXCEPT ![v] = IF v \notin online THEN @ \o frs
                                           ELSE IF frs = <<>> THEN @ ELSE <<>>]
       /\ login' = [login EXCEPT ![u] = NoLogin]
       /\ online' = online \ {u}
       /\ ghost' = [Overtaking(g, v, frs) EXCEPT
              !.lost = @ \cup TextItems(out[u]) \cup TextItems(wire[u]) \cup TextItems(login[u].batch),
              !.unheard = @ \cup Retractions(wire[u]) \cup Retractions(login[u].batch),
              !.cut = @ \cup {s[1] : s \in client[u].incoming},
              !.passed = @ \cup TextItems(frs),
              !.blind = @ \cup {u}]
       /\ UNCHANGED files

\* History: the process of u ends, and the outbox table has no ids.
Ending(u, g) ==
    [g EXCEPT !.renamed = @ \cup {<<u, r.k>> : r \in {x \in Elements(client[u].box) : x.kind = "text"}}]

Drop(u) ==
    /\ client[u].up /\ Spend("drops")
    /\ client' = [client EXCEPT ![u] = onDisconnected(@)]
    /\ Cut(u, <<>>, ghost)

Restart(u) ==
    /\ Spend("restarts")
    /\ client' = [client EXCEPT ![u] = Restarted(@)]
    /\ Cut(u, <<>>, Ending(u, ghost))

Serving(u) ==
    u \in online /\ login[u].stage = "none" /\ out[u] = <<>> /\ client[u].up /\ client[u].hi

\* sendMessage dies between the write to the socket and its database calls: the
\* peer gets a text the author has no row of, under a key the next run uses again.
CrashInSend(u) ==
    LET c == client[u] IN
    /\ Serving(u) /\ u \in left.who /\ c.active /\ c.keyed /\ c.gate = "open"
    /\ Spend("crashes")
    /\ client' = [client EXCEPT ![u] = Restarted([c EXCEPT !.next = @ + 1])]
    /\ Cut(u, <<Frame("text", <<u, c.next, c.ids>>, 0, c.n, FALSE)>>,
           [Ending(u, ghost) EXCEPT !.reused = @ \cup {u}])

\* flushOutbox, run by the keys frame or by a verification, dies after the first
\* text is written: before persistSession, or between it and deleteOutboxRow.
CrashInFlush(u, saved) ==
    LET c == [client[u] EXCEPT !.keyed = TRUE, !.gate = "open"]
        item == Head(c.outbox)
        sent == [FlushText(c, u, item) EXCEPT !.tx = <<>>]
    IN /\ Serving(u) /\ c.outbox # <<>> /\ item.kind = "text"
       /\ \/ client[u].gate = "open" /\ wire[u] # <<>> /\ Head(wire[u]).kind = "keys"
          \/ client[u].gate = "blocked" /\ client[u].keyed
       /\ Spend("crashes")
       /\ client' = [client EXCEPT ![u] = Restarted(IF saved THEN persistSession(sent) ELSE sent)]
       /\ Cut(u, FlushText(c, u, item).tx,
              [Ending(u, ghost) EXCEPT !.again = @ \cup {<<u, item.k>>},
                                       !.reused = IF saved THEN @ ELSE @ \cup {u}])

\* Two users who have logged in and look at their conversation.
Settled(c) == [c EXCEPT !.up = TRUE, !.hi = TRUE, !.keyed = TRUE, !.active = TRUE]

Init ==
    \E s \in Starts :
        /\ client = [u \in Users |-> IF s.settled THEN Settled(Fresh(s.gate[u])) ELSE Fresh(s.gate[u])]
        /\ out = [u \in Users |-> <<>>]
        /\ wire = [u \in Users |-> <<>>]
        /\ stored = [u \in Users |->      \* the opening frame of the peer's chain
               IF s.gate[u] = "waiting" /\ ~s.settled
               THEN <<Frame("handshake", <<>>, 0, 0, FALSE)>> ELSE <<>>]
        /\ login = [u \in Users |-> NoLogin]
        /\ files = {}
        /\ online = IF s.settled THEN Users ELSE {}
        /\ left = s.left
        /\ ghost = Ghosts

User(u) ==
    \/ Compose(u) \/ SendFile(u) \/ Type(u) \/ TypingTimer(u) \/ Switch(u)
    \/ \E mid \in ScreenMids(u) :
          \/ Resend(u, mid) \/ Edit(u, mid) \/ DeleteForMe(u, mid)
          \/ DeleteForEveryone(u, mid) \/ \E on \in BOOLEAN : React(u, mid, on)

Failure(u) ==
    \/ Drop(u) \/ Restart(u) \/ CrashInSend(u) \/ SourceVanishes(u)
    \/ \E saved \in BOOLEAN : CrashInFlush(u, saved)

Next ==
    \E u \in Users :
        \/ User(u) \/ Failure(u)
        \/ Verify(u) \/ Connect(u) \/ Hello(u) \/ Read(u)
        \/ RelayTakes(u) \/ FetchBatch(u) \/ SendBacklog(u) \/ LoginDone(u)

Spec == Init /\ [][Next]_vars

-----------------------------------------------------------------------------
(* Properties.                                                              *)

\* Nothing is on its way.
Quiet ==
    \A u \in Users : out[u] = <<>> /\ wire[u] = <<>> /\ stored[u] = <<>> /\ login[u].batch = <<>>

IsText(h, i, it) == h[i].kind = "text" /\ Item(h[i].mid) = it
TextRows(u, it) == {i \in DOMAIN client[u].hist : IsText(client[u].hist, i, it)}
Underway(u, it) ==
    LET v == Other(u) IN
    \E fr \in Elements(out[u]) \cup Elements(wire[v]) \cup Elements(login[v].batch)
                \cup Elements(stored[v]) :
        fr.kind = "text" /\ Item(fr.mid) = it

\* Nothing typed is lost, but in four ways: every text its author's history
\* shows is in the outbox table, under way, or in the peer's history, or one of
\* its frames was written before hello, was on a link that failed or fetched for
\* it, was skipped by the cursor because a live frame came during the peer's
\* login, or came under a message key that a crashed run had used (queueOutbox:
\* "nothing typed offline is lost across a restart").
Accounted ==
    \A u \in Users : \A k \in 1 .. client[u].next - 1 :
        TextRows(u, <<u, k>>) # {} =>
            \/ \E r \in Elements(client[u].box) : r.kind = "text" /\ r.k = k
            \/ Underway(u, <<u, k>>)
            \/ TextRows(Other(u), <<u, k>>) # {}
            \/ <<u, k>> \in ghost.lost

\* A wakeup is never missed: with the relay greeted, the peer's key held and the
\* gate open, no message waits in the outbox, unless a file_init has made the
\* chain (its handler does not drain the outbox).
NothingStranded ==
    \A u \in Users :
        LET c == client[u] IN
        (c.hi /\ c.keyed /\ c.gate = "open" /\ c.outbox # <<>>) => u \in ghost.opened

\* The texts u has received are in the order they were typed; only a text with a
\* lost frame comes late (as its edit), or one that a live frame has overtaken.
TypedOrder(u) ==
    LET h == client[u].hist IN
    \A i, j \in DOMAIN h :
        (i < j /\ h[i].kind = "text" /\ h[j].kind = "text" /\ ~h[i].mine /\ ~h[j].mine
           /\ h[j].mid[2] < h[i].mid[2]) =>
            \/ \E m \in 1 .. i - 1 : h[m].kind = "text" /\ ~h[m].mine /\ h[m].mid[2] = h[j].mid[2]
            \/ Item(h[j].mid) \in ghost.lost \cup ghost.late

\* The peer sees the texts of a user in the order they were typed, queued or not,
\* over restarts, unless a file_init has made the user's chain (see NothingStranded).
\* A login is where the relay lets a text overtake others: those it had fetched.
InOrder == \A u \in Users : TypedOrder(u) \/ Other(u) \in ghost.opened

\* A text has one live row, and a file one row, with the peer, over flushes,
\* requeues, replays, lost links, restarts and crashes, whatever ids they were sent
\* under.  A text is shown twice in three ways: a crash in flushOutbox sent it and
\* left its row in the table; the restart gave a queued text another id than its
\* author shows, and the author edits it; or its edit overtakes it, in a login of
\* the peer or because it waits although the chain is there.
ShownOnce ==
    \A u \in Users : LET h == client[u].hist IN
        \A i, j \in DOMAIN h :
            (i # j /\ h[i].kind = h[j].kind /\ Item(h[i].mid) = Item(h[j].mid)) =>
                \/ h[i].kind = "system"
                \/ /\ h[i].kind = "text"
                   /\ \/ h[i].deleted \/ h[j].deleted
                      \/ Item(h[i].mid) \in ghost.again \cup ghost.late \/ Other(u) \in ghost.opened
                      \/ /\ Item(h[i].mid) \in ghost.renamed /\ h[i].mid # h[j].mid
                         /\ h[i].body # 0 \/ h[j].body # 0

\* Both ends agree on what an edited message says once nothing is under way
\* (editMessage: "so the two sides can never silently diverge"), unless one of
\* its frames was lost or overtaken, or its author's chain was made by a file_init,
\* or the peer's row has another id than the author's, which only the restart of
\* an author whose text was queued brings about.
EditsConverge ==
    Quiet => \A u \in Users : LET h == client[u].hist
                                  g == client[Other(u)].hist IN
        \A i \in DOMAIN h, j \in DOMAIN g :
            (/\ h[i].kind = "text" /\ h[i].mine /\ ~h[i].deleted
             /\ IsText(g, j, Item(h[i].mid)) /\ ~g[j].deleted
             /\ Item(h[i].mid) \notin ghost.lost \cup ghost.late /\ u \notin ghost.opened) =>
                IF h[i].mid = g[j].mid THEN h[i].body = g[j].body
                ELSE Item(h[i].mid) \in ghost.renamed

\* A tombstone was asked for by the author of the message or by the owner of the
\* device, both running this client: the receiving side obeys a delete frame whoever
\* wrote the message it names, and nothing here would notice that.
TombstonesAsked ==
    \A u \in Users : \A r \in Elements(client[u].hist) :
        r.deleted => \E w \in {u, r.mid[1]} : <<w, r.mid>> \in ghost.asked

\* A retraction the relay accepted after its text has made a tombstone of the row
\* that held the text, once nothing is under way, unless a frame was lost or
\* overtaken, or the peer has the text under another id than the author retracts
\* (see EditsConverge).  A text retracted while it waits in the outbox is not among
\* these: deleteForEveryone leaves the outbox alone and flushOutbox sends the text
\* after its retraction, although sendMessage says it "is deletable at once".
RetractionsTake ==
    Quiet => \A u \in Users : LET h == client[u].hist IN
        \A mid \in ghost.recalled \ ghost.unheard, i \in DOMAIN h :
            (/\ IsText(h, i, Item(mid)) /\ ~h[i].mine
             /\ Item(mid) \notin ghost.lost \cup ghost.late
             /\ \A j \in 1 .. i - 1 : ~IsText(h, j, Item(mid))) =>
                h[i].deleted \/ (h[i].mid # mid /\ Item(mid) \in ghost.renamed)

\* The one message of its id in a history, and no tombstone.
Alone(h, i) ==
    /\ h[i].kind # "system" /\ ~h[i].deleted
    /\ \A j \in DOMAIN h : h[j].kind # "system" /\ h[j].mid = h[i].mid => j = i

\* What is on screen is what a reload would show, tombstones aside: every row that
\* is no notice of a lost link is the row of the history in its place, and of every
\* message that has its id alone the newest body, the edited mark, and no
\* reaction that is not stored (a reaction that comes before its message is stored
\* and only shown by the next reload).
ScreenIsHistory ==
    \A u \in Users : LET c == client[u] IN
        c.active =>
            /\ Len(c.screen) = Len(c.hist)
            /\ \A i \in DOMAIN c.hist :
                  /\ c.screen[i].kind = c.hist[i].kind /\ c.screen[i].mid = c.hist[i].mid
                  /\ Alone(c.hist, i) =>
                        /\ c.screen[i].body = c.hist[i].body
                        /\ c.screen[i].edited = c.hist[i].edited
                        /\ c.screen[i].me => <<c.hist[i].mid, "me">> \in c.react
                        /\ c.screen[i].peer => <<c.hist[i].mid, "peer">> \in c.react

\* A tombstone is on screen if and only if it is in the history, whoever deleted the
\* message and whichever of the two was changed first, for a message that has its id
\* alone.  The exception is loadConversation, which does not read r.deleted: what
\* was a tombstone when the conversation was opened is on screen as a message again.
TombstonesShown ==
    \A u \in Users : LET c == client[u] IN
        c.active => \A i \in DOMAIN c.hist :
            (/\ c.hist[i].kind # "system"
             /\ \A j \in DOMAIN c.hist :
                    c.hist[j].kind # "system" /\ c.hist[j].mid = c.hist[i].mid => j = i) =>
                (c.hist[i].deleted <=> (c.screen[i].deleted \/ c.hist[i].mid \in c.risen))

\* The typing indicator goes out: once nothing is under way it is lit only while
\* the peer's idle timer runs, unless this user lost the link (the idle frame is
\* not stored, and a peer still online clears nothing).
IndicatorHonest ==
    \A u \in Users :
        (client[u].shows /\ wire[u] = <<>> /\ out[Other(u)] = <<>>) =>
            client[Other(u)].armed \/ u \in ghost.blind

\* What pending_files_for promises ("a recipient never sees a half-sent file
\* with no final tag"): a file recorded as received is whole.
FileComplete ==
    \A u \in Users : \A r \in Elements(client[u].hist) :
        r.kind = "file" => r.body = Chunks

\* A file is only ever cut short by a link its receiver lost during the transfer.
FileWhole ==
    \A u \in Users : \A r \in Elements(client[u].hist) :
        r.kind = "file" => r.body = Chunks \/ r.mid \in ghost.cut
=============================================================================

---------------------------- MODULE FileTransfer ----------------------------
(***************************************************************************)
(* A file on its way: the key frame (file_init), the chunks and file_end   *)
(* as ChatClient sends and receives them, and the relay's file tables.     *)
(*                                                                         *)
(* An operator takes a client record (module Conversation) to the record   *)
(* the method leaves; tx collects what it writes to the socket.  A message *)
(* id is <<author, number, tick>>: the tick (ids) moves with every process *)
(* and every file sent, which makes ids as unique as the code's UUIDs.  A  *)
(* chunk is its index: FileCrypto's secretstream opens a chunk under the   *)
(* key of its file only, and only in the order of encryption.              *)
(***************************************************************************)
EXTENDS Integers, Sequences, FiniteSets

CONSTANT Chunks     \* chunks of a file, the last one tagged final

ASSUME ChunksAssumption == Chunks \in Nat \ {0, 1}

\* One frame: n is the ratchet number of an encrypted frame, on is the one bit
\* that a presence, a reaction, a typing state or a replayed file_init carries.
Frame(kind, mid, body, n, on) ==
    [kind |-> kind, mid |-> mid, body |-> body, n |-> n, on |-> on]
Write(c, fr) == [c EXCEPT !.tx = Append(@, fr)]

\* A row of the history table and of the message model.
Row(kind, mid, body, mine) ==
    [kind |-> kind, mid |-> mid, body |-> body, mine |-> mine,
     edited |-> FALSE, deleted |-> FALSE, me |-> FALSE, peer |-> FALSE]

-----------------------------------------------------------------------------
(* HistoryStore and MessageModel: adding rows.                              *)

addTextRow(c, row) == [c EXCEPT !.hist = Append(@, row)]
addFileRow(c, row) == [c EXCEPT !.hist = Append(@, row)]

\* An identical system line that is the newest row already is not repeated.
addSystemRow(c, row) ==
    IF c.hist # <<>> /\ c.hist[Len(c.hist)] = row THEN c
    ELSE [c EXCEPT !.hist = Append(@, row)]

addMessage(c, row) == [c EXCEPT !.screen = Append(@, row)]
appendFileMessage(c, row) == [c EXCEPT !.screen = Append(@, row)]
incrementUnread(c) == [c EXCEPT !.unread = @ + 1]

-----------------------------------------------------------------------------
(* The ratchet, reduced to the single use of a message key.  The number is  *)
(* spent in memory when a frame is written; persistSession saves it.        *)

encryptFor(c) == [c EXCEPT !.n = @ + 1]
persistSession(c) == [c EXCEPT !.savedN = c.n]

\* A number is dropped as seen (m_seenFrames) or its key is gone.
Decrypts(c, fr) == fr.n \notin c.used

\* The first frame of the peer makes the chain of a responder.
decryptFrom(c, fr) ==
    [c EXCEPT !.used = @ \cup {fr.n},
              !.gate = IF @ = "waiting" THEN "open" ELSE @]

-----------------------------------------------------------------------------
(* The sender.                                                              *)

\* The row of a queued file; the message id is only made when it is sent.
queueOutboxFile(c, k) ==
    LET item == [rid |-> c.nextRid, kind |-> "file", k |-> k, mid |-> <<>>]
    IN [c EXCEPT !.box = Append(@, item), !.outbox = Append(@, item), !.nextRid = @ + 1]

\* FileCrypto: the i-th chunk, tagged when it is the last; the stream of a file
\* at its start; the chunk a stream opens next (one of another file, or out of
\* order, does not authenticate).
encryptChunk(mid, i) == Frame("chunk", mid, i - 1, 0, i = Chunks)
initPull(mid) == <<mid, 0>>
decryptChunk(c, fr) == <<fr.mid, fr.body>> \in c.incoming

\* All chunks and file_end are written at once, then the file is shown as sent,
\* whatever conversation is on screen.
pumpOutgoingFile(c, mid) ==
    LET row == Row("file", mid, Chunks, TRUE)
        chunks == [i \in 1 .. Chunks |-> encryptChunk(mid, i)]
        sent == [c EXCEPT !.tx = @ \o chunks \o <<Frame("end", mid, 0, 0, FALSE)>>]
    IN addFileRow(appendFileMessage(sent, row), row)

\* sendFile for item k of user u (the peer is the one it is for).
sendFile(c, u, k) ==
    LET mid == <<u, k, c.ids>> IN
    IF c.gate = "blocked" \/ ~c.up THEN queueOutboxFile(c, k)
    ELSE IF ~c.keyed THEN c
    ELSE IF c.gate = "waiting" THEN queueOutboxFile(c, k)
    ELSE pumpOutgoingFile(persistSession(encryptFor(
             Write([c EXCEPT !.ids = @ + 1], Frame("init", mid, 0, c.n, FALSE)))), mid)

-----------------------------------------------------------------------------
(* The receiver: m_incoming is a set of <<id, next chunk>>.                 *)

Streams(c, mid) == {s \in c.incoming : s[1] = mid}
NoStream(c, mid) == [c EXCEPT !.incoming = @ \ Streams(c, mid)]

\* file_init: a key frame that was seen, or whose key is spent, is dropped with
\* its file.  The outbox is not drained here.
OnFileInit(c, fr) ==
    IF ~Decrypts(c, fr) THEN c
    ELSE [NoStream(decryptFrom(c, fr), fr.mid) EXCEPT !.incoming = @ \cup {initPull(fr.mid)}]

\* The file is closed, recorded as received, and shown or announced.
Finalise(c, mid, got) ==
    LET row == Row("file", mid, got, FALSE)
        kept == addFileRow([NoStream(c, mid) EXCEPT !.got = @ \cup {mid}], row)
    IN IF c.active THEN appendFileMessage(kept, row)
       ELSE addSystemRow(incrementUnread(kept), Row("system", mid, 0, FALSE))

\* onBinaryMessageReceived: a stray chunk is ignored, one out of order ends the
\* transfer, the final one completes it.
OnChunk(c, fr) ==
    IF Streams(c, fr.mid) = {} THEN c
    ELSE IF ~decryptChunk(c, fr) THEN NoStream(c, fr.mid)
    ELSE IF fr.on THEN Finalise(c, fr.mid, fr.body + 1)
    ELSE [NoStream(c, fr.mid) EXCEPT !.incoming = @ \cup {<<fr.mid, fr.body + 1>>}]

\* file_end: what has arrived is taken for the file.
OnFileEnd(c, fr) ==
    IF Streams(c, fr.mid) = {} THEN c
    ELSE LET s == CHOOSE x \in Streams(c, fr.mid) : TRUE
         IN Finalise(c, fr.mid, s[2])

-----------------------------------------------------------------------------
(* The relay's file tables: a set of [init, chunks, done].                  *)

Meta(files, mid) == {f \in files : f.init.mid = mid}

save_file_init(files, fr) ==
    (files \ Meta(files, fr.mid)) \cup {[init |-> fr, chunks |-> {}, done |-> FALSE]}
save_file_chunk(files, fr) ==
    (files \ Meta(files, fr.mid)) \cup
        {[f EXCEPT !.chunks = @ \cup {fr.body}] : f \in Meta(files, fr.mid)}
mark_file_complete(files, fr) ==
    (files \ Meta(files, fr.mid)) \cup {[f EXCEPT !.done = TRUE] : f \in Meta(files, fr.mid)}

\* The relay's handling of one file frame of its owner.
StoreFile(files, fr) ==
    CASE fr.kind = "init" -> save_file_init(files, fr)
      [] fr.kind = "chunk" -> save_file_chunk(files, fr)
      [] fr.kind = "end" -> mark_file_complete(files, fr)

\* Mutant: files without their file_end are replayed too.
pending_files_for_any(files, v, have) ==
    {f \in files : f.init.mid[1] # v /\ f.init.mid \notin have}

\* The files replayed to v at its login.
pending_files_for(files, v, have) ==
    {f \in files : f.init.mid[1] # v /\ f.done /\ f.init.mid \notin have}

\* The frames of one replayed file; its chunks in the order of their index.
Replay(f) ==
    LET upTo[k \in 0 .. Chunks] ==
            IF k = 0 THEN <<>>
            ELSE IF k - 1 \in f.chunks
                 THEN Append(upTo[k - 1], Frame("chunk", f.init.mid, k - 1, 0, k = Chunks))
                 ELSE upTo[k - 1]
    IN <<[f.init EXCEPT !.on = TRUE]>> \o upTo[Chunks]
       \o <<Frame("end", f.init.mid, 0, 0, FALSE)>>

\* ORDER BY ts: item numbers grow with time.
ByTime(fs) ==
    {rows \in [1 .. Cardinality(fs) -> fs] :
        /\ \A f \in fs : \E i \in DOMAIN rows : rows[i] = f
        /\ \A i, j \in DOMAIN rows : i < j => rows[i].init.mid[2] <= rows[j].init.mid[2]}

\* The frames of these files, one file after the other.
ReplayAll(rows) ==
    LET upTo[k \in 0 .. Len(rows)] == IF k = 0 THEN <<>> ELSE upTo[k - 1] \o Replay(rows[k])
    IN upTo[Len(rows)]
=============================================================================

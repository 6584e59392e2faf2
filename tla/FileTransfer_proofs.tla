------------------------- MODULE FileTransfer_proofs -------------------------
(***************************************************************************)
(* Proofs about the files of Conversation: a received file is whole unless *)
(* its receiver lost its link during the transfer, for any number of files *)
(* and chunks, restarts and crashes.  Builds on Conversation_proofs.       *)
(***************************************************************************)
EXTENDS Conversation_proofs

-----------------------------------------------------------------------------
(* Files.  What a method does to the frames and the rows of files needs less *)
(* than a sound client: the history is a sequence of rows, the frames are one. *)

Listed(s) == \E S : s \in Seq(S)
RowLike(r) == {"kind", "mid", "body"} \subseteq DOMAIN r
Ruled(h) == Listed(h) /\ \A i \in DOMAIN h : RowLike(h[i])
Neat(c) == DOMAIN c = Fields /\ Ruled(c.hist) /\ Listed(c.tx) /\ c.ids \in Nat

\* The tagged chunk of file m, and the tag is on the last chunk only.
Final(f, m) == f.kind = "chunk" /\ f.mid = m /\ f.on
Tag(f) == f.kind = "chunk" /\ f.on => f.body = Chunks - 1

\* t goes on from s; behind s an end follows the tagged chunk of its file.
Ships(s, t) ==
    /\ Len(s) <= Len(t) /\ \A i \in 1 .. Len(s) : t[i] = s[i]
    /\ \A i \in Len(s) + 1 .. Len(t) :
          Tag(t[i]) /\ (t[i].kind = "end" => i - 1 > Len(s) /\ Final(t[i - 1], t[i].mid))

\* The files of history g are whole or are rows of h.
Filed(h, g) ==
    \A i \in DOMAIN g : g[i].kind = "file" =>
        \/ g[i].body = Chunks
        \/ \E j \in DOMAIN h : h[j].kind = "file" /\ h[j].mid = g[i].mid /\ h[j].body = g[i].body

\* The frames that start and end a file; new ones, behind s in t, are of files with a
\* tick from m to n, and behind the end of a file none is of the same file.
Marks(f) == f.kind \in {"init", "end"}
Dates(s, t, m, n) ==
    /\ m <= n
    /\ \A i \in Len(s) + 1 .. Len(t) : Marks(t[i]) => t[i].mid[3] \in m .. n - 1
    /\ \A i, j \in Len(s) + 1 .. Len(t) :
          i < j /\ t[i].kind = "end" /\ Marks(t[j]) => t[i].mid # t[j].mid

Carries(c, d) ==
    Neat(d) /\ Ships(c.tx, d.tx) /\ Filed(c.hist, d.hist) /\ Dates(c.tx, d.tx, c.ids, d.ids)

\* A sequence and its domain.
LEMMA ListedIn ==
    ASSUME NEW s, Listed(s)
    PROVE  Len(s) \in Nat /\ DOMAIN s = 1 .. Len(s)
BY DEF Listed

\* One element more.
More(s, x, t) ==
    /\ Listed(t) /\ Len(s) \in Nat /\ Len(t) = Len(s) + 1
    /\ DOMAIN s = 1 .. Len(s) /\ DOMAIN t = 1 .. Len(s) + 1
    /\ \A i \in 1 .. Len(s) : t[i] = s[i]
    /\ t[Len(s) + 1] = x

LEMMA ListedMore ==
    ASSUME NEW s, Listed(s), NEW x, NEW t, Plus(s, x, t)
    PROVE  More(s, x, t)
<1>1. PICK S : s \in Seq(S)
  BY DEF Listed
<1>2. s \in Seq(S \cup {x}) /\ x \in S \cup {x}
  BY <1>1
<1>3. /\ t \in Seq(S \cup {x}) /\ Len(s) \in Nat /\ Len(t) = Len(s) + 1
      /\ DOMAIN s = 1 .. Len(s) /\ DOMAIN t = 1 .. Len(s) + 1
      /\ \A i \in 1 .. Len(s) : t[i] = s[i]
      /\ t[Len(s) + 1] = x
  BY <1>2 DEF Plus
<1> QED BY <1>3 DEF Listed, More

\* Two sequences.
Joint(s, r, t) ==
    /\ Listed(t) /\ Len(s) \in Nat /\ Len(r) \in Nat /\ Len(t) = Len(s) + Len(r)
    /\ DOMAIN s = 1 .. Len(s) /\ DOMAIN r = 1 .. Len(r) /\ DOMAIN t = 1 .. Len(s) + Len(r)
    /\ \A i \in 1 .. Len(s) : t[i] = s[i]
    /\ \A i \in 1 .. Len(r) : t[Len(s) + i] = r[i]
    /\ \A i \in DOMAIN t :
          i \in 1 .. Len(s) \/ (i > Len(s) /\ i - Len(s) \in 1 .. Len(r) /\ t[i] = r[i - Len(s)])

LEMMA ListedJoin ==
    ASSUME NEW s, Listed(s), NEW r, Listed(r)
    PROVE  Joint(s, r, s \o r)
<1> DEFINE t == s \o r
<1>1. PICK S : s \in Seq(S)
  BY DEF Listed
<1>2. PICK R : r \in Seq(R)
  BY DEF Listed
<1>3. s \in Seq(S \cup R) /\ r \in Seq(S \cup R)
  BY <1>1, <1>2
<1>4. Join(S \cup R, s, r, t)
  BY <1>3, Joined
<1> HIDE DEF t
<1>5. Listed(t)
  BY <1>4 DEF Join, Listed
<1>6. Joint(s, r, t)
  BY <1>4, <1>5 DEF Join, Joint
<1> QED BY <1>6 DEF t

\* Nothing more.
LEMMA ShipsSelf ==
    ASSUME NEW s, Listed(s)
    PROVE  Ships(s, s)
BY ListedIn DEF Ships

LEMMA DatesSelf ==
    ASSUME NEW s, Listed(s), NEW n \in Nat
    PROVE  Dates(s, s, n, n)
BY ListedIn DEF Dates

LEMMA FiledSelf ==
    ASSUME NEW h
    PROVE  Filed(h, h)
BY DEF Filed

\* One after the other.
LEMMA ShipsTwice ==
    ASSUME NEW s, NEW t, NEW r, Listed(s), Listed(t), Listed(r), Ships(s, t), Ships(t, r)
    PROVE  Ships(s, r)
<1>1. Len(s) \in Nat /\ Len(t) \in Nat /\ Len(r) \in Nat
  BY ListedIn
<1>2. Len(s) <= Len(t) /\ Len(t) <= Len(r)
  BY DEF Ships
<1>3. \A i \in 1 .. Len(t) : r[i] = t[i]
  BY DEF Ships
<1>4. \A i \in 1 .. Len(s) : r[i] = s[i]
  BY <1>1, <1>2, <1>3 DEF Ships
<1>5. ASSUME NEW i \in Len(s) + 1 .. Len(r)
      PROVE  Tag(r[i]) /\ (r[i].kind = "end" => i - 1 > Len(s) /\ Final(r[i - 1], r[i].mid))
  <2>1. CASE i > Len(t)
    <3>1. i \in Len(t) + 1 .. Len(r)
      BY <1>1, <2>1
    <3>2. Tag(r[i]) /\ (r[i].kind = "end" => i - 1 > Len(t) /\ Final(r[i - 1], r[i].mid))
      BY <3>1 DEF Ships
    <3> QED BY <1>1, <1>2, <3>2
  <2>2. CASE ~(i > Len(t))
    <3>1. i \in Len(s) + 1 .. Len(t) /\ i \in 1 .. Len(t)
      BY <1>1, <2>2
    <3>2. Tag(t[i]) /\ (t[i].kind = "end" => i - 1 > Len(s) /\ Final(t[i - 1], t[i].mid))
      BY <3>1 DEF Ships
    <3>3. r[i] = t[i]
      BY <1>3, <3>1
    <3>4. i - 1 > Len(s) => r[i - 1] = t[i - 1]
      BY <1>1, <1>3, <3>1
    <3> QED BY <3>2, <3>3, <3>4
  <2> QED BY <2>1, <2>2
<1> QED BY <1>1, <1>2, <1>4, <1>5 DEF Ships

LEMMA DatesTwice ==
    ASSUME NEW s, NEW t, NEW r, Listed(s), Listed(t), Listed(r), Ships(s, t), Ships(t, r),
           NEW a \in Nat, NEW b \in Nat, NEW c \in Nat, Dates(s, t, a, b), Dates(t, r, b, c)
    PROVE  Dates(s, r, a, c)
<1>1. Len(s) \in Nat /\ Len(t) \in Nat /\ Len(r) \in Nat /\ Len(s) <= Len(t) /\ Len(t) <= Len(r)
  BY ListedIn DEF Ships
<1>2. a <= b /\ b <= c
  BY DEF Dates
<1>3. \A i \in Len(s) + 1 .. Len(r) :
         \/ i \in Len(s) + 1 .. Len(t) /\ r[i] = t[i]
         \/ i \in Len(t) + 1 .. Len(r)
  <2>1. \A i \in 1 .. Len(t) : r[i] = t[i]
    BY DEF Ships
  <2> QED BY <1>1, <2>1
<1>4. ASSUME NEW i \in Len(s) + 1 .. Len(t), r[i] = t[i], Marks(r[i]) PROVE r[i].mid[3] \in a .. b - 1
  BY <1>4 DEF Dates
<1>5. ASSUME NEW i \in Len(t) + 1 .. Len(r), Marks(r[i]) PROVE r[i].mid[3] \in b .. c - 1
  BY <1>5 DEF Dates
<1>6. ASSUME NEW i \in Len(s) + 1 .. Len(r), Marks(r[i]) PROVE r[i].mid[3] \in a .. c - 1
  <2>1. r[i].mid[3] \in a .. b - 1 \/ r[i].mid[3] \in b .. c - 1
    BY <1>3, <1>4, <1>5, <1>6
  <2> QED BY <1>2, <2>1
<1>7. ASSUME NEW i \in Len(s) + 1 .. Len(r), NEW j \in Len(s) + 1 .. Len(r), i < j,
             r[i].kind = "end", Marks(r[j])
      PROVE  r[i].mid # r[j].mid
  <2>0. Marks(r[i])
    BY <1>7 DEF Marks
  <2>1. CASE j \in Len(s) + 1 .. Len(t) /\ r[j] = t[j]
    <3>1. i \in Len(s) + 1 .. Len(t) /\ r[i] = t[i]
      BY <1>1, <1>3, <1>7, <2>1
    <3> QED BY <1>7, <2>1, <3>1 DEF Dates
  <2>2. CASE j \in Len(t) + 1 .. Len(r)
    <3>1. CASE i \in Len(t) + 1 .. Len(r)
      BY <1>7, <2>2, <3>1 DEF Dates
    <3>2. CASE i \in Len(s) + 1 .. Len(t) /\ r[i] = t[i]
      <4>1. r[i].mid[3] \in a .. b - 1 /\ r[j].mid[3] \in b .. c - 1
        BY <1>4, <1>5, <1>7, <2>0, <2>2, <3>2
      <4>2. r[i].mid[3] # r[j].mid[3]
        BY <4>1
      <4> QED BY <4>2
    <3> QED BY <1>3, <3>1, <3>2
  <2> QED BY <1>3, <2>1, <2>2
<1> QED BY <1>2, <1>6, <1>7 DEF Dates

LEMMA FiledTwice ==
    ASSUME NEW h, NEW g, NEW k, Filed(h, g), Filed(g, k)
    PROVE  Filed(h, k)
<1> SUFFICES ASSUME NEW i \in DOMAIN k, k[i].kind = "file", k[i].body # Chunks
             PROVE  \E j \in DOMAIN h : h[j].kind = "file" /\ h[j].mid = k[i].mid /\ h[j].body = k[i].body
  BY DEF Filed
<1>1. PICK j \in DOMAIN g : g[j].kind = "file" /\ g[j].mid = k[i].mid /\ g[j].body = k[i].body
  BY DEF Filed
<1> QED BY <1>1 DEF Filed

LEMMA CarriesTwice ==
    ASSUME NEW c, NEW d, NEW e, Neat(c), Carries(c, d), Carries(d, e)
    PROVE  Carries(c, e)
<1>1. Neat(d) /\ Neat(e) /\ Ships(c.tx, d.tx) /\ Ships(d.tx, e.tx)
      /\ Filed(c.hist, d.hist) /\ Filed(d.hist, e.hist)
      /\ Dates(c.tx, d.tx, c.ids, d.ids) /\ Dates(d.tx, e.tx, d.ids, e.ids)
  BY DEF Carries
<1>2. Ships(c.tx, e.tx)
  BY <1>1, ShipsTwice DEF Neat
<1>3. Filed(c.hist, e.hist)
  BY <1>1, FiledTwice
<1>4. Dates(c.tx, e.tx, c.ids, e.ids)
  BY <1>1, DatesTwice DEF Neat
<1> QED BY <1>1, <1>2, <1>3, <1>4 DEF Carries

\* A frame more that is not about files.
LEMMA ShipsOne ==
    ASSUME NEW s, Listed(s), NEW f, f.kind \notin FileFrames, NEW t, Plus(s, f, t), NEW n \in Nat
    PROVE  Ships(s, t) /\ Listed(t) /\ Dates(s, t, n, n)
<1>1. More(s, f, t)
  BY ListedMore, Zenon
<1>2. \A i \in Len(s) + 1 .. Len(t) : t[i] = f
  BY <1>1 DEF More
<1>3. \A i \in Len(s) + 1 .. Len(t) : t[i].kind \notin FileFrames
  BY <1>2
<1>4. Ships(s, t) /\ Listed(t)
  BY <1>1, <1>3 DEF More, Ships, Tag, FileFrames
<1> QED BY <1>3, <1>4 DEF Dates, Marks, FileFrames

\* A row more that is no file, or a whole one.
LEMMA FiledOne ==
    ASSUME NEW h, Ruled(h), NEW r, RowLike(r), r.kind = "file" => r.body = Chunks, NEW g,
           Plus(h, r, g)
    PROVE  Filed(h, g) /\ Ruled(g)
<1>1. More(h, r, g)
  BY ListedMore, Zenon DEF Ruled
<1>2. \A i \in DOMAIN g : i \in DOMAIN h \/ i = Len(h) + 1
  BY <1>1 DEF More
<1> QED BY <1>1, <1>2 DEF More, Filed, Ruled

\* Rows that are changed where they are, files not.
LEMMA FiledSame ==
    ASSUME NEW h, Ruled(h), NEW g, g = [i \in DOMAIN h |-> g[i]],
           \A i \in DOMAIN h : /\ RowLike(g[i]) /\ g[i].kind = h[i].kind /\ g[i].mid = h[i].mid
                               /\ h[i].kind = "file" => g[i].body = h[i].body
    PROVE  Filed(h, g) /\ Ruled(g)
<1>1. Len(h) \in Nat /\ DOMAIN h = 1 .. Len(h)
  BY ListedIn DEF Ruled
<1>2. g \in Seq({g[i] : i \in DOMAIN h}) /\ DOMAIN g = DOMAIN h
  BY <1>1
<1> QED BY <1>2 DEF Filed, Ruled, Listed

\* A method that leaves the incoming files alone.
Works(c, d) == Carries(c, d) /\ d.incoming = c.incoming

LEMMA WorksTwice ==
    ASSUME NEW c, NEW d, NEW e, Neat(c), Works(c, d), Works(d, e)
    PROVE  Works(c, e)
BY CarriesTwice DEF Works

LEMMA WorksNeat ==
    ASSUME NEW c, NEW d, Works(c, d)
    PROVE  Neat(d)
BY DEF Works, Carries

\* The history and the frames stay.
LEMMA WorksRest ==
    ASSUME NEW c, NEW d, Neat(c), DOMAIN d = Fields, d.hist = c.hist, d.tx = c.tx,
           d.incoming = c.incoming /\ d.ids = c.ids
    PROVE  Works(c, d)
<1>1. Ships(c.tx, d.tx) /\ Filed(c.hist, d.hist) /\ Dates(c.tx, d.tx, c.ids, d.ids)
  BY ShipsSelf, FiledSelf, DatesSelf DEF Neat
<1> QED BY <1>1 DEF Works, Carries, Neat

\* A frame is written.
LEMMA WorksWrites ==
    ASSUME NEW c, NEW d, Neat(c), DOMAIN d = Fields, d.hist = c.hist, d.incoming = c.incoming /\ d.ids = c.ids,
           NEW f, f.kind \notin FileFrames, Plus(c.tx, f, d.tx)
    PROVE  Works(c, d)
<1>1. Ships(c.tx, d.tx) /\ Listed(d.tx) /\ Dates(c.tx, d.tx, c.ids, d.ids)
  BY ShipsOne DEF Neat
<1>2. Filed(c.hist, d.hist)
  BY FiledSelf
<1> QED BY <1>1, <1>2 DEF Works, Carries, Neat

\* A row is added.
LEMMA WorksAdds ==
    ASSUME NEW c, NEW d, Neat(c), DOMAIN d = Fields, d.tx = c.tx, d.incoming = c.incoming /\ d.ids = c.ids,
           NEW r, RowLike(r), r.kind = "file" => r.body = Chunks, Plus(c.hist, r, d.hist)
    PROVE  Works(c, d)
<1>1. Filed(c.hist, d.hist) /\ Ruled(d.hist)
  BY FiledOne DEF Neat
<1>2. Ships(c.tx, d.tx) /\ Dates(c.tx, d.tx, c.ids, d.ids)
  BY ShipsSelf, DatesSelf DEF Neat
<1> QED BY <1>1, <1>2 DEF Works, Carries, Neat

\* A file that is sent: its end is behind its tagged chunk.
LEMMA PumpWorks ==
    ASSUME NEW c, Neat(c), NEW mid, mid[3] = c.ids
    PROVE  Works(c, pumpOutgoingFile(persistSession(encryptFor(
               Write([c EXCEPT !.ids = @ + 1], Frame("init", mid, 0, c.n, FALSE)))), mid))
<1> DEFINE row == Row("file", mid, Chunks, TRUE)
           f == Frame("init", mid, 0, c.n, FALSE)
           q == [i \in 1 .. Chunks |-> encryptChunk(mid, i)]
           e == Frame("end", mid, 0, 0, FALSE)
           d == pumpOutgoingFile(persistSession(encryptFor(Write([c EXCEPT !.ids = @ + 1], f))), mid)
           a == Append(c.tx, f)
           b == a \o q
<1>1. DOMAIN c = Fields /\ Listed(c.tx) /\ Ruled(c.hist) /\ c.ids \in Nat
  BY DEF Neat
<1>2. f.kind = "init" /\ f.mid = mid /\ e.kind = "end" /\ e.mid = mid /\ row.body = Chunks /\ RowLike(row)
  BY DEF Frame, Row, RowLike
<1>3. /\ Chunks \in Nat /\ Chunks > 1
  BY ChunksAssumption
<1>4. Listed(q) /\ Len(q) = Chunks /\ DOMAIN q = 1 .. Chunks
  <2>1. q \in Seq({q[i] : i \in 1 .. Chunks}) /\ Len(q) = Chunks
    BY <1>3
  <2> QED BY <2>1 DEF Listed
<1>5. \A i \in 1 .. Chunks : /\ q[i].kind = "chunk" /\ q[i].mid = mid /\ q[i].on = (i = Chunks)
                            /\ q[i].body = i - 1
  BY DEF encryptChunk, Frame
<1> HIDE DEF f, q, e, row
<1>6. /\ DOMAIN d = Fields /\ d.tx = b \o <<e>> /\ Plus(c.hist, row, d.hist)
      /\ d.incoming = c.incoming /\ d.ids = c.ids + 1
  BY <1>1 DEF pumpOutgoingFile, persistSession, encryptFor, Write, addFileRow, appendFileMessage,
              row, q, e, Fields, Plus
<1> HIDE DEF d
<1>7. More(c.tx, f, a)
  BY <1>1, ListedMore DEF Plus
<1> HIDE DEF a
<1>8. Joint(a, q, b)
  <2>1. Listed(a)
    BY <1>7 DEF More
  <2> QED BY <1>4, <2>1, ListedJoin
<1> HIDE DEF b
<1>9. Joint(b, <<e>>, d.tx)
  <2>1. Listed(b)
    BY <1>8 DEF Joint
  <2>2. Listed(<<e>>)
    <3>1. <<e>> \in Seq({e})
      OBVIOUS
    <3> QED BY <3>1 DEF Listed
  <2>3. Joint(b, <<e>>, b \o <<e>>)
    BY <2>1, <2>2, ListedJoin
  <2> QED BY <1>6, <2>3
<1> DEFINE n == Len(c.tx)
           t == d.tx
<1>10. n \in Nat /\ Len(a) = n + 1 /\ Len(b) = n + 1 + Chunks /\ Len(t) = n + Chunks + 2 /\ Listed(t)
  <2>1. Len(<<e>>) = 1
    OBVIOUS
  <2> QED BY <1>3, <1>4, <1>7, <1>8, <1>9, <2>1 DEF More, Joint
<1>11. ASSUME NEW i \in 1 .. n PROVE t[i] = c.tx[i]
  <2>1. a[i] = c.tx[i]
    BY <1>7 DEF More
  <2>2. i \in 1 .. Len(a) /\ i \in 1 .. Len(b)
    BY <1>3, <1>10
  <2>3. b[i] = a[i]
    BY <1>8, <2>2 DEF Joint
  <2>4. t[i] = b[i]
    BY <1>9, <2>2 DEF Joint
  <2> QED BY <2>1, <2>3, <2>4
<1>12. t[n + 1] = f
  <2>1. a[n + 1] = f
    BY <1>7 DEF More
  <2>2. b[n + 1] = a[n + 1]
    <3>1. n + 1 \in 1 .. Len(a)
      BY <1>10
    <3> QED BY <1>8, <3>1 DEF Joint
  <2>3. t[n + 1] = b[n + 1]
    BY <1>3, <1>9, <1>10 DEF Joint
  <2> QED BY <2>1, <2>2, <2>3
<1>13. ASSUME NEW i \in 1 .. Chunks PROVE t[n + 1 + i] = q[i]
  <2>1. b[n + 1 + i] = q[i]
    BY <1>4, <1>8, <1>10 DEF Joint
  <2>2. n + 1 + i \in 1 .. Len(b)
    BY <1>3, <1>10
  <2>3. t[n + 1 + i] = b[n + 1 + i]
    BY <1>9, <2>2 DEF Joint
  <2> QED BY <2>1, <2>3
<1>14. t[n + Chunks + 2] = e
  <2>1. t[n + 1 + Chunks + 1] = <<e>>[1]
    BY <1>9, <1>10 DEF Joint
  <2> QED BY <1>3, <1>10, <2>1
<1> HIDE DEF n, t
<1>15. ASSUME NEW i \in n + 1 .. Len(t)
       PROVE  Tag(t[i]) /\ (t[i].kind = "end" => i - 1 > n /\ Final(t[i - 1], t[i].mid))
  <2>1. CASE i = n + 1
    BY <1>2, <1>12, <2>1 DEF Tag
  <2>2. CASE i \in n + 2 .. n + 1 + Chunks
    <3>1. i - n - 1 \in 1 .. Chunks /\ i = n + 1 + (i - n - 1)
      BY <1>3, <1>10, <2>2
    <3>2. t[i] = q[i - n - 1]
      BY <1>13, <3>1
    <3>3. t[i].kind = "chunk" /\ (t[i].on => i - n - 1 = Chunks) /\ t[i].body = i - n - 1 - 1
      BY <1>5, <3>1, <3>2
    <3> QED BY <3>3 DEF Tag
  <2>3. CASE i = n + Chunks + 2
    <3>1. t[n + 1 + Chunks] = q[Chunks]
      BY <1>3, <1>13
    <3>2. i - 1 = n + 1 + Chunks /\ i - 1 > n
      BY <1>3, <1>10, <2>3
    <3>3. Chunks \in 1 .. Chunks /\ t[i - 1] = q[Chunks]
      BY <1>3, <3>1, <3>2
    <3>4. q[Chunks].kind = "chunk" /\ q[Chunks].mid = mid /\ q[Chunks].on
      BY <1>5, <3>3
    <3>5. Final(t[i - 1], mid)
      BY <3>3, <3>4 DEF Final
    <3> QED BY <1>2, <1>14, <2>3, <3>2, <3>5 DEF Tag
  <2> QED BY <1>3, <1>10, <2>1, <2>2, <2>3
<1>16. Ships(c.tx, d.tx)
  <2>1. Len(c.tx) <= Len(t)
    BY <1>3, <1>10 DEF n
  <2> QED BY <1>11, <1>15, <2>1 DEF Ships, n, t
<1>17. Filed(c.hist, d.hist) /\ Ruled(d.hist)
  BY <1>1, <1>2, <1>6, FiledOne
<1>18. ASSUME NEW i \in n + 1 .. Len(t), Marks(t[i])
       PROVE  t[i].mid = mid /\ (t[i].kind = "end" => i = Len(t))
  <2>1. CASE i = n + 1
    BY <1>2, <1>12, <2>1
  <2>2. CASE i \in n + 2 .. n + 1 + Chunks
    <3>1. i - n - 1 \in 1 .. Chunks /\ i = n + 1 + (i - n - 1)
      BY <1>3, <1>10, <2>2
    <3>2. t[i] = q[i - n - 1]
      BY <1>13, <3>1
    <3>3. t[i].kind = "chunk"
      BY <1>5, <3>1, <3>2
    <3> QED BY <1>18, <3>3 DEF Marks
  <2>3. CASE i = n + Chunks + 2
    BY <1>2, <1>10, <1>14, <2>3
  <2> QED BY <1>3, <1>10, <2>1, <2>2, <2>3
<1>19. Dates(c.tx, d.tx, c.ids, d.ids)
  <2>1. c.ids <= d.ids /\ c.ids \in c.ids .. d.ids - 1
    BY <1>1, <1>6
  <2>2. ASSUME NEW i \in n + 1 .. Len(t), NEW j \in n + 1 .. Len(t), i < j, t[i].kind = "end"
        PROVE  FALSE
    <3>1. i = Len(t)
      BY <1>18, <2>2 DEF Marks
    <3> QED BY <1>3, <1>10, <2>2, <3>1
  <2> QED BY <1>18, <2>1, <2>2 DEF Dates, n, t
<1>20. d.ids \in Nat
  BY <1>1, <1>6
<1>21. Works(c, d)
  BY <1>6, <1>10, <1>16, <1>17, <1>19, <1>20 DEF Works, Carries, Neat, t
<1> QED BY <1>21 DEF d, f

\* sendFile.
LEMMA SendFileWorks ==
    ASSUME NEW c, Neat(c), NEW u, NEW k
    PROVE  Works(c, sendFile(c, u, k))
<1> DEFINE mid == <<u, k, c.ids>>
           p == pumpOutgoingFile(persistSession(encryptFor(
                    Write([c EXCEPT !.ids = @ + 1], Frame("init", mid, 0, c.n, FALSE)))), mid)
<1>1. sendFile(c, u, k) \in {queueOutboxFile(c, k), c, p}
  BY DEF sendFile
<1>2. Works(c, p)
  <2>1. mid[3] = c.ids
    OBVIOUS
  <2> HIDE DEF mid
  <2> QED BY <2>1, PumpWorks
<1>3. Works(c, c)
  BY WorksRest DEF Neat
<1>4. Works(c, queueOutboxFile(c, k))
  <2> DEFINE d == queueOutboxFile(c, k)
  <2>1. DOMAIN d = Fields /\ d.hist = c.hist /\ d.tx = c.tx /\ d.incoming = c.incoming /\ d.ids = c.ids
    BY DEF queueOutboxFile, Neat, Fields
  <2> HIDE DEF d
  <2>2. Works(c, d)
    BY <2>1, WorksRest
  <2> QED BY <2>2 DEF d
<1> HIDE DEF p
<1> QED BY <1>1, <1>2, <1>3, <1>4

\* One round of flushOutbox, whatever the item.
LEMMA FlushItemWorks ==
    ASSUME NEW c, Neat(c), NEW u, NEW item
    PROVE  Works(c, FlushItem(c, u, item))
<1>1. ASSUME NEW e, Works(c, e) PROVE Works(c, deleteOutboxRow(e, item.rid))
  <2> DEFINE d == deleteOutboxRow(e, item.rid)
             B == {i \in DOMAIN e.box : e.box[i].rid = item.rid}
             m == CHOOSE j \in B : TRUE
             y == [j \in 1 .. Len(e.box) - 1 |-> IF j < m THEN e.box[j] ELSE e.box[j + 1]]
  <2>1. Neat(e) /\ DOMAIN e = Fields
    BY <1>1 DEF Works, Carries, Neat
  <2>2. d = e \/ d = [e EXCEPT !.box = y]
    BY DEF deleteOutboxRow
  <2> HIDE DEF y, d
  <2>3. DOMAIN d = Fields /\ d.hist = e.hist /\ d.tx = e.tx /\ d.incoming = e.incoming /\ d.ids = e.ids
    BY <2>1, <2>2 DEF Fields
  <2>4. Works(e, d)
    BY <2>1, <2>3, WorksRest
  <2>5. Works(c, d)
    BY <1>1, <2>4, WorksTwice
  <2> QED BY <2>5 DEF d
<1>2. Works(c, Requeue(c, item))
  <2> DEFINE d == Requeue(c, item)
  <2>1. DOMAIN d = Fields /\ d.hist = c.hist /\ d.tx = c.tx /\ d.incoming = c.incoming /\ d.ids = c.ids
    BY DEF Requeue, Neat, Fields
  <2> HIDE DEF d
  <2>2. Works(c, d)
    BY <2>1, WorksRest
  <2> QED BY <2>2 DEF d
<1>3. Works(c, IF c.gone THEN c ELSE sendFile(c, u, item.k))
  <2>1. Works(c, c)
    BY WorksRest DEF Neat
  <2>2. Works(c, sendFile(c, u, item.k))
    BY SendFileWorks
  <2> QED BY <2>1, <2>2
<1>4. Works(c, persistSession(FlushText(c, u, item)))
  <2> DEFINE mid == IF item.mid = <<>> THEN <<u, item.k, c.ids>> ELSE item.mid
             f == Frame("text", mid, 0, c.n, FALSE)
             d == persistSession(FlushText(c, u, item))
  <2>1. f.kind \notin FileFrames
    BY DEF Frame, FileFrames
  <2> HIDE DEF f
  <2>2. DOMAIN d = Fields /\ d.hist = c.hist /\ Plus(c.tx, f, d.tx) /\ d.incoming = c.incoming /\ d.ids = c.ids
    BY DEF persistSession, FlushText, encryptFor, Write, Neat, Fields, Plus, f
  <2> HIDE DEF d
  <2>3. Works(c, d)
    BY <2>1, <2>2, WorksWrites
  <2> QED BY <2>3 DEF d
<1>5. FlushItem(c, u, item) \in {Requeue(c, item),
          deleteOutboxRow(IF c.gone THEN c ELSE sendFile(c, u, item.k), item.rid),
          deleteOutboxRow(persistSession(FlushText(c, u, item)), item.rid)}
  BY DEF FlushItem
<1>6. Works(c, deleteOutboxRow(IF c.gone THEN c ELSE sendFile(c, u, item.k), item.rid))
  BY <1>1, <1>3
<1>7. Works(c, deleteOutboxRow(persistSession(FlushText(c, u, item)), item.rid))
  BY <1>1, <1>4
<1> QED BY <1>2, <1>5, <1>6, <1>7

\* flushOutbox.
LEMMA FlushWorks ==
    ASSUME NEW c, Neat(c), NEW u, Len(c.outbox) \in Nat
    PROVE  Works(c, flushOutbox(c, u))
<1> DEFINE b == [c EXCEPT !.outbox = <<>>]
           q == c.outbox
           n == Len(q)
           A == CHOOSE g : g = [k \in 0 .. n |-> IF k = 0 THEN b ELSE FlushItem(g[k - 1], u, q[k])]
<1>1. flushOutbox(c, u) = A[n]
  BY DEF flushOutbox
<1>2. Works(c, b)
  <2>1. DOMAIN b = Fields /\ b.hist = c.hist /\ b.tx = c.tx /\ b.incoming = c.incoming /\ b.ids = c.ids
    BY DEF Neat, Fields
  <2> HIDE DEF b
  <2> QED BY <2>1, WorksRest
<1> HIDE DEF b
<1>3. n \in Nat
  OBVIOUS
<1>4. Flushed(A, b, u, q, n)
  BY <1>3, FlushedExists DEF Flushed
<1> HIDE DEF A, n, q
<1> DEFINE T == {j \in 0 .. n : ~Works(c, A[j])}
<1>5. CASE T = {}
  BY <1>1, <1>3, <1>5
<1>6. CASE T # {}
  <2>1. T \subseteq Nat
    BY <1>3
  <2>2. PICK m \in T : \A k \in T : m <= k
    <3> HIDE DEF T
    <3> QED BY <1>6, <2>1, Least
  <2>3. m \in 0 .. n /\ ~Works(c, A[m])
    OBVIOUS
  <2>4. m # 0
    <3>1. A[0] = b
      BY <1>3, <1>4 DEF Flushed
    <3> QED BY <1>2, <2>3, <3>1
  <2>5. m - 1 \in 0 .. n
    BY <1>3, <2>3, <2>4
  <2>6. m - 1 \notin T
    <3> HIDE DEF T
    <3> QED BY <1>3, <2>2, <2>3
  <2>7. Works(c, A[m - 1])
    BY <2>5, <2>6
  <2>8. A[m] = FlushItem(A[m - 1], u, q[m])
    BY <1>4, <2>3, <2>4 DEF Flushed
  <2>9. Works(A[m - 1], FlushItem(A[m - 1], u, q[m]))
    BY <2>7, WorksNeat, FlushItemWorks
  <2>10. Works(c, FlushItem(A[m - 1], u, q[m]))
    BY <2>7, <2>9, WorksTwice
  <2> QED BY <2>3, <2>8, <2>10
<1> QED BY <1>5, <1>6

\* Methods that touch neither the frames nor the history.
LEMMA RestWork ==
    ASSUME NEW c, Neat(c), NEW x, NEW y, NEW z, NEW w
    PROVE  /\ Works(c, c) /\ Works(c, addMessage(c, x)) /\ Works(c, appendFileMessage(c, x))
           /\ Works(c, incrementUnread(c)) /\ Works(c, encryptFor(c)) /\ Works(c, persistSession(c))
           /\ Works(c, setPeerTyping(c, x)) /\ Works(c, setReaction(c, x, y, z))
           /\ Works(c, markDeletedByMid(c, x)) /\ Works(c, editTextByMid(c, x, y))
           /\ Works(c, applyReaction(c, x, y, z)) /\ Works(c, setActivePeer(c))
           /\ Works(c, [c EXCEPT !.next = @ + 1]) /\ Works(c, [c EXCEPT !.gone = TRUE])
           /\ Works(c, [c EXCEPT !.up = TRUE]) /\ Works(c, [c EXCEPT !.hi = TRUE])
           /\ Works(c, [c EXCEPT !.gate = "open"]) /\ Works(c, [c EXCEPT !.keyed = TRUE])
           /\ Works(c, [c EXCEPT !.told = x]) /\ Works(c, [c EXCEPT !.armed = x])
           /\ Works(c, decryptFrom(c, x))
<1> DEFINE Like(d) == DOMAIN d = Fields /\ d.hist = c.hist /\ d.tx = c.tx /\ d.incoming = c.incoming /\ d.ids = c.ids
<1>0. DOMAIN c = Fields
  BY DEF Neat
<1>1. \A d : Like(d) => Works(c, d)
  BY WorksRest
<1>2. Like(c) /\ Like(addMessage(c, x)) /\ Like(appendFileMessage(c, x))
  BY <1>0 DEF addMessage, appendFileMessage, Fields
<1>3. Like(incrementUnread(c)) /\ Like(encryptFor(c)) /\ Like(persistSession(c))
  BY <1>0 DEF incrementUnread, encryptFor, persistSession, Fields
<1>4. Like(setPeerTyping(c, x)) /\ Like(setReaction(c, x, y, z))
  BY <1>0 DEF setPeerTyping, setReaction, Fields
<1>5. Like(markDeletedByMid(c, x))
  BY <1>0 DEF markDeletedByMid, Fields
<1>6. Like(editTextByMid(c, x, y))
  BY <1>0 DEF editTextByMid, Fields
<1>7. Like(applyReaction(c, x, y, z))
  BY <1>0 DEF applyReaction, Fields
<1>8. Like(setActivePeer(c))
  BY <1>0 DEF setActivePeer, loadConversation, Fields
<1>9. Like([c EXCEPT !.next = @ + 1]) /\ Like([c EXCEPT !.gone = TRUE])
      /\ Like([c EXCEPT !.up = TRUE]) /\ Like([c EXCEPT !.hi = TRUE])
  BY <1>0 DEF Fields
<1>10. Like([c EXCEPT !.gate = "open"]) /\ Like([c EXCEPT !.keyed = TRUE])
       /\ Like([c EXCEPT !.told = x]) /\ Like([c EXCEPT !.armed = x])
  BY <1>0 DEF Fields
<1>11. Like(decryptFrom(c, x))
  BY <1>0 DEF decryptFrom, Fields
<1> HIDE DEF Like
<1> QED BY <1>1, <1>2, <1>3, <1>4, <1>5, <1>6, <1>7, <1>8, <1>9, <1>10, <1>11

\* Writing a frame, adding a row, changing rows.
LEMMA PartsWork ==
    ASSUME NEW c, Neat(c)
    PROVE  /\ \A f : f.kind \notin FileFrames => Works(c, Write(c, f))
           /\ \A r : RowLike(r) /\ r.kind # "file" => Works(c, addTextRow(c, r)) /\ Works(c, addSystemRow(c, r))
           /\ \A m : Works(c, markDeleted(c, m))
           /\ \A m, b : Works(c, updateTextRow(c, m, b))
<1>0. DOMAIN c = Fields /\ Ruled(c.hist) /\ Listed(c.tx) /\ c.ids \in Nat
  BY DEF Neat
<1>1. ASSUME NEW f, f.kind \notin FileFrames PROVE Works(c, Write(c, f))
  <2> DEFINE d == Write(c, f)
  <2>1. DOMAIN d = Fields /\ d.hist = c.hist /\ d.incoming = c.incoming /\ d.ids = c.ids /\ Plus(c.tx, f, d.tx)
    BY <1>0 DEF Write, Fields, Plus
  <2> HIDE DEF d
  <2>2. Works(c, d)
    BY <1>1, <2>1, WorksWrites
  <2> QED BY <2>2 DEF d
<1>2. ASSUME NEW r, RowLike(r), r.kind # "file"
      PROVE  Works(c, addTextRow(c, r)) /\ Works(c, addSystemRow(c, r))
  <2> DEFINE d == [c EXCEPT !.hist = Append(@, r)]
  <2>1. DOMAIN d = Fields /\ d.tx = c.tx /\ d.incoming = c.incoming /\ d.ids = c.ids /\ Plus(c.hist, r, d.hist)
    BY <1>0 DEF Fields, Plus
  <2>2. addTextRow(c, r) = d /\ (addSystemRow(c, r) = d \/ addSystemRow(c, r) = c)
    BY DEF addTextRow, addSystemRow
  <2> HIDE DEF d
  <2>3. Works(c, d)
    BY <1>2, <2>1, WorksAdds
  <2>4. Works(c, c)
    BY <1>0, WorksRest
  <2> QED BY <2>2, <2>3, <2>4
<1>3. ASSUME NEW d, DOMAIN d = Fields, d.tx = c.tx, d.incoming = c.incoming /\ d.ids = c.ids,
             d.hist = [i \in DOMAIN c.hist |-> d.hist[i]],
             \A i \in DOMAIN c.hist :
                /\ RowLike(d.hist[i])
                /\ d.hist[i].kind = c.hist[i].kind /\ d.hist[i].mid = c.hist[i].mid
                /\ c.hist[i].kind = "file" => d.hist[i].body = c.hist[i].body
      PROVE  Works(c, d)
  <2>1. Filed(c.hist, d.hist) /\ Ruled(d.hist)
    BY <1>0, <1>3, FiledSame
  <2>2. Ships(c.tx, d.tx) /\ Dates(c.tx, d.tx, c.ids, d.ids)
    BY <1>0, <1>3, ShipsSelf, DatesSelf
  <2> QED BY <1>0, <1>3, <2>1, <2>2 DEF Works, Carries, Neat
<1>4. ASSUME NEW m PROVE Works(c, markDeleted(c, m))
  <2> DEFINE d == markDeleted(c, m)
             h == [i \in DOMAIN c.hist |-> IF c.hist[i].kind # "system" /\ c.hist[i].mid = m
                                           THEN [c.hist[i] EXCEPT !.deleted = TRUE] ELSE c.hist[i]]
  <2>1. DOMAIN d = Fields /\ d.tx = c.tx /\ d.incoming = c.incoming /\ d.ids = c.ids /\ d.hist = h
    BY <1>0 DEF markDeleted, Fields
  <2>2. ASSUME NEW i \in DOMAIN c.hist
        PROVE  /\ RowLike(h[i]) /\ h[i].kind = c.hist[i].kind /\ h[i].mid = c.hist[i].mid
               /\ h[i].body = c.hist[i].body
    <3>1. RowLike(c.hist[i])
      BY <1>0 DEF Ruled
    <3> QED BY <3>1 DEF RowLike
  <2>3. h = [i \in DOMAIN c.hist |-> h[i]]
    OBVIOUS
  <2> HIDE DEF d, h
  <2>4. Works(c, d)
    BY <1>3, <2>1, <2>2, <2>3
  <2> QED BY <2>4 DEF d
<1>5. ASSUME NEW m, NEW b PROVE Works(c, updateTextRow(c, m, b))
  <2> DEFINE d == updateTextRow(c, m, b)
             h == [i \in DOMAIN c.hist |-> IF Editable(c.hist[i], m)
                                           THEN [c.hist[i] EXCEPT !.body = b, !.edited = TRUE]
                                           ELSE c.hist[i]]
  <2>1. DOMAIN d = Fields /\ d.tx = c.tx /\ d.incoming = c.incoming /\ d.ids = c.ids /\ d.hist = h
    BY <1>0 DEF updateTextRow, Fields
  <2>2. ASSUME NEW i \in DOMAIN c.hist
        PROVE  /\ RowLike(h[i]) /\ h[i].kind = c.hist[i].kind /\ h[i].mid = c.hist[i].mid
               /\ c.hist[i].kind = "file" => h[i].body = c.hist[i].body
    <3>1. RowLike(c.hist[i])
      BY <1>0 DEF Ruled
    <3> QED BY <3>1 DEF RowLike, Editable
  <2>3. h = [i \in DOMAIN c.hist |-> h[i]]
    OBVIOUS
  <2> HIDE DEF d, h
  <2>4. Works(c, d)
    BY <1>3, <2>1, <2>2, <2>3
  <2> QED BY <2>4 DEF d
<1> QED BY <1>1, <1>2, <1>4, <1>5

\* sendTypingState.
LEMMA TypingWorks ==
    ASSUME NEW c, Neat(c), NEW state
    PROVE  Works(c, sendTypingState(c, state))
<1> DEFINE d == [c EXCEPT !.told = state]
           f == Frame("typing", <<>>, 0, 0, state = "typing")
<1>1. sendTypingState(c, state) \in {c, d, Write(d, f)}
  BY DEF sendTypingState
<1>2. Works(c, c) /\ Works(c, d)
  BY RestWork
<1>3. f.kind \notin FileFrames
  BY DEF Frame, FileFrames
<1> HIDE DEF d, f
<1>4. Works(d, Write(d, f))
  BY <1>2, <1>3, WorksNeat, PartsWork
<1>5. Works(c, Write(d, f))
  BY <1>2, <1>4, WorksTwice
<1> QED BY <1>1, <1>2, <1>5

\* sendMessage.
LEMMA SendMessageWorks ==
    ASSUME NEW c, Neat(c), NEW u
    PROVE  Works(c, sendMessage(c, u))
<1> DEFINE mid == <<u, c.next, c.ids>>
           row == Row("text", mid, 0, TRUE)
           f == Frame("text", mid, 0, c.n, FALSE)
           d == [c EXCEPT !.next = @ + 1]
           item == [rid |-> d.nextRid, kind |-> "text", k |-> mid[2], mid |-> mid]
           y == addTextRow(d, row)
           z == [y EXCEPT !.box = Append(@, [item EXCEPT !.mid = <<>>]),
                          !.outbox = Append(@, item), !.nextRid = @ + 1]
           x1 == encryptFor(d)
           x2 == Write(x1, f)
           x3 == sendTypingState(x2, "idle")
           x4 == addMessage(x3, row)
           x5 == addTextRow(x4, row)
           x6 == persistSession(x5)
<1>1. sendMessage(c, u) \in {addMessage(z, row), x6}
  BY DEF sendMessage, queueOutbox
<1>2. RowLike(row) /\ row.kind = "text" /\ f.kind \notin FileFrames
  BY DEF Row, RowLike, Frame, FileFrames
<1> HIDE DEF row, f, item
<1>3. Works(c, d) /\ Neat(d)
  BY RestWork, WorksNeat
<1> HIDE DEF d
<1>4. Works(d, y) /\ Neat(y)
  <2>1. row.kind # "file"
    BY <1>2
  <2> QED BY <1>2, <1>3, <2>1, PartsWork, WorksNeat
<1> HIDE DEF y
<1>5. Works(y, z) /\ Neat(z)
  <2>1. DOMAIN z = Fields /\ z.hist = y.hist /\ z.tx = y.tx /\ z.incoming = y.incoming /\ z.ids = y.ids
    BY <1>4 DEF Neat, Fields
  <2> HIDE DEF z
  <2> QED BY <1>4, <2>1, WorksRest, WorksNeat
<1> HIDE DEF z
<1>6. Works(z, addMessage(z, row))
  BY <1>5, RestWork
<1>7. Works(c, addMessage(z, row))
  <2>1. Works(c, y)
    BY <1>3, <1>4, WorksTwice
  <2>2. Works(c, z)
    BY <1>5, <2>1, WorksTwice
  <2> QED BY <1>6, <2>2, WorksTwice
<1>8. Works(d, x1) /\ Neat(x1)
  BY <1>3, RestWork, WorksNeat
<1> HIDE DEF x1
<1>9. Works(x1, x2) /\ Neat(x2)
  BY <1>2, <1>8, PartsWork, WorksNeat
<1> HIDE DEF x2
<1>10. Works(x2, x3) /\ Neat(x3)
  BY <1>9, TypingWorks, WorksNeat
<1> HIDE DEF x3
<1>11. Works(x3, x4) /\ Neat(x4)
  BY <1>10, RestWork, WorksNeat
<1> HIDE DEF x4
<1>12. Works(x4, x5) /\ Neat(x5)
  <2>1. row.kind # "file"
    BY <1>2
  <2> QED BY <1>2, <1>11, <2>1, PartsWork, WorksNeat
<1> HIDE DEF x5
<1>13. Works(x5, x6)
  BY <1>12, RestWork
<1> HIDE DEF x6
<1>14. Works(c, x6)
  <2>1. Works(c, x1)
    BY <1>3, <1>8, WorksTwice
  <2>2. Works(c, x2)
    BY <1>9, <2>1, WorksTwice
  <2>3. Works(c, x3)
    BY <1>10, <2>2, WorksTwice
  <2>4. Works(c, x4)
    BY <1>11, <2>3, WorksTwice
  <2>5. Works(c, x5)
    BY <1>12, <2>4, WorksTwice
  <2> QED BY <1>13, <2>5, WorksTwice
<1> QED BY <1>1, <1>7, <1>14

\* editMessage.
LEMMA EditWorks ==
    ASSUME NEW c, Neat(c), NEW mid
    PROVE  Works(c, editMessage(c, mid))
<1> DEFINE body == c.screen[indexOfMid(c, mid)].body + 1
           f == Frame("edit", mid, body, c.n, FALSE)
           x1 == encryptFor(c)
           x2 == Write(x1, f)
           x3 == editTextByMid(x2, mid, body)
           x4 == updateTextRow(x3, mid, body)
           x5 == persistSession(x4)
<1>1. editMessage(c, mid) = x5
  BY DEF editMessage
<1>2. f.kind \notin FileFrames
  BY DEF Frame, FileFrames
<1> HIDE DEF body, f
<1>3. Works(c, x1) /\ Neat(x1)
  BY RestWork, WorksNeat
<1> HIDE DEF x1
<1>4. Works(x1, x2) /\ Neat(x2)
  BY <1>2, <1>3, PartsWork, WorksNeat
<1> HIDE DEF x2
<1>5. Works(x2, x3) /\ Neat(x3)
  BY <1>4, RestWork, WorksNeat
<1> HIDE DEF x3
<1>6. Works(x3, x4) /\ Neat(x4)
  BY <1>5, PartsWork, WorksNeat
<1> HIDE DEF x4
<1>7. Works(x4, x5)
  BY <1>6, RestWork
<1> HIDE DEF x5
<1>8. Works(c, x2)
  BY <1>3, <1>4, WorksTwice
<1>9. Works(c, x3)
  BY <1>5, <1>8, WorksTwice
<1>10. Works(c, x4)
  BY <1>6, <1>9, WorksTwice
<1> QED BY <1>1, <1>7, <1>10, WorksTwice

\* Deletions and reactions.
LEMMA MarksWork ==
    ASSUME NEW c, Neat(c), NEW mid
    PROVE  /\ Works(c, deleteForMe(c, mid)) /\ Works(c, deleteForEveryone(c, mid))
           /\ \A on \in BOOLEAN : Works(c, sendReaction(c, mid, on))
<1>1. Works(c, deleteForMe(c, mid))
  <2> DEFINE x == markDeletedByMid(c, mid)
  <2>1. Works(c, x) /\ Neat(x)
    BY RestWork, WorksNeat
  <2> HIDE DEF x
  <2>2. Works(x, markDeleted(x, mid))
    BY <2>1, PartsWork
  <2>3. Works(c, markDeleted(x, mid))
    BY <2>1, <2>2, WorksTwice
  <2> QED BY <2>3 DEF x, deleteForMe
<1>2. Works(c, deleteForEveryone(c, mid))
  <2> DEFINE x == deleteForMe(c, mid)
             f == Frame("delete", mid, 0, 0, FALSE)
  <2>1. deleteForEveryone(c, mid) \in {markDeleted(c, mid), x, Write(x, f)}
    BY DEF deleteForEveryone
  <2>2. f.kind \notin FileFrames
    BY DEF Frame, FileFrames
  <2> HIDE DEF x, f
  <2>3. Works(c, x) /\ Neat(x)
    BY <1>1, WorksNeat DEF x
  <2>4. Works(x, Write(x, f))
    BY <2>2, <2>3, PartsWork
  <2>5. Works(c, Write(x, f))
    BY <2>3, <2>4, WorksTwice
  <2>6. Works(c, markDeleted(c, mid))
    BY PartsWork
  <2> QED BY <2>1, <2>3, <2>5, <2>6
<1>3. ASSUME NEW on \in BOOLEAN PROVE Works(c, sendReaction(c, mid, on))
  <2> DEFINE a == applyReaction(c, mid, TRUE, on)
             x == setReaction(a, mid, "me", on)
             f == Frame("reaction", mid, 0, 0, on)
  <2>1. sendReaction(c, mid, on) \in {x, Write(x, f)}
    BY DEF sendReaction
  <2>2. f.kind \notin FileFrames
    BY DEF Frame, FileFrames
  <2> HIDE DEF f
  <2>3. Works(c, a) /\ Neat(a)
    BY RestWork, WorksNeat
  <2> HIDE DEF a
  <2>4. Works(a, x) /\ Neat(x)
    BY <2>3, RestWork, WorksNeat
  <2> HIDE DEF x
  <2>5. Works(x, Write(x, f))
    BY <2>2, <2>4, PartsWork
  <2>6. Works(c, x)
    BY <2>3, <2>4, WorksTwice
  <2>7. Works(c, Write(x, f))
    BY <2>5, <2>6, WorksTwice
  <2> QED BY <2>1, <2>6, <2>7
<1> QED BY <1>1, <1>2, <1>3

\* Typing, files, the gate and hello.
LEMMA OthersWork ==
    ASSUME NEW c, Neat(c), NEW u, Len(c.outbox) \in Nat
    PROVE  /\ Works(c, notifyTyping(c)) /\ Works(c, TypingIdle(c)) /\ Works(c, newFile(c, u))
           /\ Works(c, Verified(c, u)) /\ Works(c, completeHello(c, u))
<1>1. \A s, b : Works(c, [sendTypingState(c, s) EXCEPT !.armed = b])
  <2> SUFFICES ASSUME NEW s, NEW b PROVE Works(c, [sendTypingState(c, s) EXCEPT !.armed = b])
    OBVIOUS
  <2> DEFINE x == sendTypingState(c, s)
  <2>1. Works(c, x) /\ Neat(x)
    BY TypingWorks, WorksNeat
  <2> HIDE DEF x
  <2>2. Works(x, [x EXCEPT !.armed = b])
    BY <2>1, RestWork
  <2>3. Works(c, [x EXCEPT !.armed = b])
    BY <2>1, <2>2, WorksTwice
  <2> QED BY <2>3 DEF x
<1>2. Works(c, newFile(c, u))
  <2> DEFINE x == [c EXCEPT !.next = @ + 1]
  <2>1. Works(c, x) /\ Neat(x)
    BY RestWork, WorksNeat
  <2> HIDE DEF x
  <2>2. Works(x, sendFile(x, u, c.next))
    BY <2>1, SendFileWorks
  <2>3. Works(c, sendFile(x, u, c.next))
    BY <2>1, <2>2, WorksTwice
  <2> QED BY <2>3 DEF x, newFile
<1>3. Works(c, Verified(c, u))
  <2> DEFINE x == [c EXCEPT !.gate = "open"]
  <2>1. Works(c, x) /\ Neat(x)
    BY RestWork, WorksNeat
  <2>2. x.outbox = c.outbox
    BY DEF Neat, Fields
  <2>3. Verified(c, u) \in {x, flushOutbox(x, u)}
    BY DEF Verified
  <2> HIDE DEF x
  <2>4. Works(x, flushOutbox(x, u))
    BY <2>1, <2>2, FlushWorks
  <2>5. Works(c, flushOutbox(x, u))
    BY <2>1, <2>4, WorksTwice
  <2> QED BY <2>1, <2>3, <2>5
<1>4. Works(c, completeHello(c, u))
  <2> DEFINE f == Frame("hello", <<>>, 0, 0, FALSE)
             x == Write(c, f)
             y == [x EXCEPT !.hi = TRUE]
  <2>1. f.kind \notin FileFrames
    BY DEF Frame, FileFrames
  <2> HIDE DEF f
  <2>2. Works(c, x) /\ Neat(x)
    BY <2>1, PartsWork, WorksNeat
  <2>3. y.outbox = c.outbox
    BY DEF Write, Neat, Fields
  <2> HIDE DEF x
  <2>4. Works(x, y) /\ Neat(y)
    BY <2>2, RestWork, WorksNeat
  <2> HIDE DEF y
  <2>5. Works(y, flushOutbox(y, u))
    BY <2>3, <2>4, FlushWorks
  <2>6. Works(c, y)
    BY <2>2, <2>4, WorksTwice
  <2>7. Works(c, flushOutbox(y, u))
    BY <2>5, <2>6, WorksTwice
  <2> QED BY <2>7 DEF completeHello, f, x, y
<1> QED BY <1>1, <1>2, <1>3, <1>4 DEF notifyTyping, TypingIdle

\* A file on its way in, and what reading frame f does to files: a tagged chunk
\* closes its file, and only an end makes a row of a file that is not whole.
Str(c, m) == \E s \in c.incoming : s[1] = m
Takes(c, d, f) ==
    /\ Neat(d) /\ Ships(c.tx, d.tx) /\ Dates(c.tx, d.tx, c.ids, d.ids)
    /\ \A m : Str(d, m) => (Str(c, m) /\ ~Final(f, m)) \/ (f.kind = "init" /\ f.mid = m)
    /\ \A i \in DOMAIN d.hist : d.hist[i].kind = "file" =>
          \/ d.hist[i].body = Chunks
          \/ \E j \in DOMAIN c.hist : /\ c.hist[j].kind = "file" /\ c.hist[j].mid = d.hist[i].mid
                                      /\ c.hist[j].body = d.hist[i].body
          \/ f.kind = "end" /\ f.mid = d.hist[i].mid /\ Str(c, f.mid)

\* A frame that is not about files.
LEMMA TakesOther ==
    ASSUME NEW c, NEW d, NEW f, f.kind # "chunk", Works(c, d)
    PROVE  Takes(c, d, f)
<1>1. /\ Neat(d) /\ Ships(c.tx, d.tx) /\ Filed(c.hist, d.hist) /\ d.incoming = c.incoming
      /\ Dates(c.tx, d.tx, c.ids, d.ids)
  BY DEF Works, Carries
<1> QED BY <1>1 DEF Takes, Str, Final, Filed

\* Finalise: the file is closed and has its row.
LEMMA FinaliseFacts ==
    ASSUME NEW c, Neat(c), NEW mid, NEW got
    PROVE  LET d == Finalise(c, mid, got) IN
           /\ Neat(d) /\ d.tx = c.tx /\ d.ids = c.ids /\ d.incoming = c.incoming \ Streams(c, mid)
           /\ \A i \in DOMAIN d.hist : d.hist[i].kind = "file" =>
                 \/ d.hist[i].mid = mid /\ d.hist[i].body = got
                 \/ \E j \in DOMAIN c.hist : c.hist[j] = d.hist[i]
<1> DEFINE row == Row("file", mid, got, FALSE)
           sys == Row("system", mid, 0, FALSE)
           k == addFileRow([NoStream(c, mid) EXCEPT !.got = @ \cup {mid}], row)
           x == appendFileMessage(k, row)
           y == incrementUnread(k)
           z == addSystemRow(y, sys)
           d == Finalise(c, mid, got)
<1>1. d \in {x, z}
  BY DEF Finalise
<1>2. /\ RowLike(row) /\ row.mid = mid /\ row.body = got /\ RowLike(sys) /\ sys.kind = "system"
  BY DEF Row, RowLike
<1> HIDE DEF row, sys, d
<1>3. DOMAIN c = Fields /\ Ruled(c.hist) /\ Listed(c.tx) /\ c.ids \in Nat
  BY DEF Neat
<1>4. /\ DOMAIN k = Fields /\ k.tx = c.tx /\ k.ids = c.ids /\ k.incoming = c.incoming \ Streams(c, mid)
      /\ Plus(c.hist, row, k.hist)
  BY <1>3 DEF addFileRow, NoStream, Fields, Plus
<1> HIDE DEF k
<1>5. More(c.hist, row, k.hist)
  BY <1>3, <1>4, ListedMore, Zenon DEF Ruled
<1>6. /\ Ruled(k.hist)
      /\ \A i \in DOMAIN k.hist : k.hist[i] = row \/ \E j \in DOMAIN c.hist : c.hist[j] = k.hist[i]
  <2>1. \A i \in DOMAIN k.hist : i = Len(c.hist) + 1 \/ i \in DOMAIN c.hist
    BY <1>5 DEF More
  <2> QED BY <1>2, <1>3, <1>5, <2>1 DEF More, Ruled
<1>7. Neat(k)
  BY <1>3, <1>4, <1>6 DEF Neat
<1>8. \A i \in DOMAIN k.hist : k.hist[i].kind = "file" =>
         \/ k.hist[i].mid = mid /\ k.hist[i].body = got
         \/ \E j \in DOMAIN c.hist : c.hist[j] = k.hist[i]
  BY <1>2, <1>6
<1>9. /\ DOMAIN x = Fields /\ x.hist = k.hist /\ x.tx = k.tx /\ x.incoming = k.incoming /\ x.ids = k.ids
      /\ DOMAIN y = Fields /\ y.hist = k.hist /\ y.tx = k.tx /\ y.incoming = k.incoming /\ y.ids = k.ids
  BY <1>7 DEF appendFileMessage, incrementUnread, Neat, Fields
<1> HIDE DEF x, y
<1>10. CASE d = x
  BY <1>3, <1>4, <1>6, <1>8, <1>9, <1>10 DEF Neat, d
<1>11. CASE d = z
  <2>1. CASE z = y
    BY <1>3, <1>4, <1>6, <1>8, <1>9, <1>11, <2>1 DEF Neat, d
  <2>2. CASE z = [y EXCEPT !.hist = Append(@, sys)]
    <3>1. /\ DOMAIN z = Fields /\ z.tx = c.tx /\ z.ids = c.ids /\ z.incoming = c.incoming \ Streams(c, mid)
          /\ Plus(k.hist, sys, z.hist)
      BY <1>4, <1>9, <2>2 DEF Fields, Plus
    <3> HIDE DEF z
    <3>2. More(k.hist, sys, z.hist)
      BY <1>6, <3>1, ListedMore, Zenon DEF Ruled
    <3>3. \A i \in DOMAIN z.hist : z.hist[i] = sys \/ \E j \in DOMAIN k.hist : k.hist[j] = z.hist[i]
      <4>1. \A i \in DOMAIN z.hist : i = Len(k.hist) + 1 \/ i \in DOMAIN k.hist
        BY <3>2 DEF More
      <4> QED BY <3>2, <4>1 DEF More
    <3>4. Ruled(z.hist)
      BY <1>2, <1>6, <3>2, <3>3 DEF More, Ruled
    <3>5. ASSUME NEW i \in DOMAIN z.hist, z.hist[i].kind = "file"
          PROVE  \/ z.hist[i].mid = mid /\ z.hist[i].body = got
                 \/ \E j \in DOMAIN c.hist : c.hist[j] = z.hist[i]
      <4>1. PICK j \in DOMAIN k.hist : k.hist[j] = z.hist[i]
        BY <1>2, <3>3, <3>5
      <4> QED BY <1>8, <3>5, <4>1
    <3> QED BY <1>3, <1>11, <3>1, <3>4, <3>5 DEF Neat, d
  <2>3. z = y \/ z = [y EXCEPT !.hist = Append(@, sys)]
    BY DEF z, addSystemRow
  <2> QED BY <2>1, <2>2, <2>3
<1> QED BY <1>1, <1>10, <1>11

\* Reading a frame of a file.
LEMMA FileTakes ==
    ASSUME NEW c, Neat(c), NEW f, Tag(f)
    PROVE  /\ f.kind = "init" => Takes(c, OnFileInit(c, f), f)
           /\ f.kind = "chunk" => Takes(c, OnChunk(c, f), f)
           /\ f.kind = "end" => Takes(c, OnFileEnd(c, f), f)
<1>0. /\ DOMAIN c = Fields /\ Ruled(c.hist) /\ Listed(c.tx) /\ c.ids \in Nat
      /\ Ships(c.tx, c.tx) /\ Dates(c.tx, c.tx, c.ids, c.ids)
  BY ShipsSelf, DatesSelf DEF Neat
<1> DEFINE mid == f.mid
           S == Streams(c, mid)
<1>1. S \subseteq c.incoming /\ \A s \in c.incoming : s \in S <=> s[1] = mid
  BY DEF Streams
<1>2. \A m : Final(f, m) => m = mid /\ f.kind = "chunk"
  BY DEF Final
<1>3. ASSUME NEW d, DOMAIN d = Fields, d.hist = c.hist, d.tx = c.tx, d.ids = c.ids,
             \/ d.incoming = c.incoming \ S
             \/ f.kind # "chunk" /\ d.incoming = c.incoming
             \/ f.kind = "chunk" /\ ~f.on /\ d.incoming \subseteq c.incoming \cup {<<mid, f.body + 1>>} /\ S # {}
             \/ f.kind = "init" /\ d.incoming \subseteq c.incoming \cup {<<mid, 0>>}
             \/ f.kind = "chunk" /\ S = {} /\ d.incoming = c.incoming /\ d.ids = c.ids
      PROVE  Takes(c, d, f)
  <2>1. Neat(d) /\ Ships(c.tx, d.tx) /\ Dates(c.tx, d.tx, c.ids, d.ids)
    BY <1>0, <1>3 DEF Neat
  <2>2. ASSUME NEW m, Str(d, m) PROVE (Str(c, m) /\ ~Final(f, m)) \/ (f.kind = "init" /\ f.mid = m)
    <3>1. PICK s \in d.incoming : s[1] = m
      BY <2>2 DEF Str
    <3>2. CASE d.incoming = c.incoming \ S
      <4>1. s \in c.incoming /\ s \notin S
        BY <3>1, <3>2
      <4>2. m # mid
        BY <1>1, <3>1, <4>1
      <4> QED BY <1>2, <3>1, <4>1, <4>2 DEF Str
    <3>3. CASE f.kind # "chunk" /\ d.incoming = c.incoming /\ d.ids = c.ids
      BY <1>2, <3>1, <3>3 DEF Str
    <3>4. CASE f.kind = "chunk" /\ ~f.on /\ d.incoming \subseteq c.incoming \cup {<<mid, f.body + 1>>} /\ S # {}
      <4>1. ~Final(f, m)
        BY <3>4 DEF Final
      <4>2. Str(c, mid)
        BY <1>1, <3>4 DEF Str
      <4>3. s \in c.incoming \/ s[1] = mid
        BY <3>1, <3>4
      <4> QED BY <3>1, <4>1, <4>2, <4>3 DEF Str
    <3>5. CASE f.kind = "init" /\ d.incoming \subseteq c.incoming \cup {<<mid, 0>>}
      <4>1. s \in c.incoming \/ s[1] = mid
        BY <3>1, <3>5
      <4> QED BY <1>2, <3>1, <3>5, <4>1 DEF Str
    <3>6. CASE f.kind = "chunk" /\ S = {} /\ d.incoming = c.incoming /\ d.ids = c.ids
      BY <1>1, <1>2, <3>1, <3>6 DEF Str
    <3> QED BY <1>3, <3>2, <3>3, <3>4, <3>5, <3>6
  <2> QED BY <1>3, <2>1, <2>2 DEF Takes
<1>4. ASSUME NEW got, \/ got = Chunks
                      \/ f.kind = "end" /\ S # {}
      PROVE  Takes(c, Finalise(c, mid, got), f)
  <2> DEFINE d == Finalise(c, mid, got)
  <2>1. /\ Neat(d) /\ d.tx = c.tx /\ d.ids = c.ids /\ d.incoming = c.incoming \ S
        /\ \A i \in DOMAIN d.hist : d.hist[i].kind = "file" =>
              \/ d.hist[i].mid = mid /\ d.hist[i].body = got
              \/ \E j \in DOMAIN c.hist : c.hist[j] = d.hist[i]
    BY FinaliseFacts
  <2> HIDE DEF d
  <2>2. \A m : Str(d, m) => Str(c, m) /\ m # mid
    BY <1>1, <2>1 DEF Str
  <2>3. S # {} => Str(c, mid)
    BY <1>1 DEF Str
  <2>4. Ships(c.tx, d.tx) /\ Dates(c.tx, d.tx, c.ids, d.ids)
    BY <1>0, <2>1
  <2>5. Takes(c, d, f)
    BY <1>2, <1>4, <2>1, <2>2, <2>3, <2>4 DEF Takes
  <2> QED BY <2>5 DEF d
<1>5. ASSUME f.kind = "init" PROVE Takes(c, OnFileInit(c, f), f)
  <2> DEFINE d == OnFileInit(c, f)
  <2>1. DOMAIN d = Fields /\ d.hist = c.hist /\ d.tx = c.tx /\ d.ids = c.ids
    BY <1>0 DEF OnFileInit, NoStream, decryptFrom, Fields
  <2>2. d.incoming \subseteq c.incoming \cup {<<mid, 0>>}
    BY <1>0 DEF OnFileInit, NoStream, decryptFrom, Fields, initPull
  <2> HIDE DEF d
  <2>3. Takes(c, d, f)
    BY <1>3, <1>5, <2>1, <2>2
  <2> QED BY <2>3 DEF d
<1>6. ASSUME f.kind = "chunk" PROVE Takes(c, OnChunk(c, f), f)
  <2> DEFINE n == NoStream(c, mid)
             g == [n EXCEPT !.incoming = @ \cup {<<mid, f.body + 1>>}]
  <2>1. DOMAIN n = Fields /\ n.hist = c.hist /\ n.tx = c.tx /\ n.ids = c.ids /\ n.incoming = c.incoming \ S
    BY <1>0 DEF NoStream, Fields
  <2>2. /\ DOMAIN g = Fields /\ g.hist = c.hist /\ g.tx = c.tx /\ g.ids = c.ids
        /\ g.incoming \subseteq c.incoming \cup {<<mid, f.body + 1>>}
    <3> HIDE DEF n
    <3> QED BY <2>1 DEF Fields
  <2>3. S = {} => OnChunk(c, f) = c
    BY DEF OnChunk
  <2>4. Takes(c, n, f)
    <3> HIDE DEF n
    <3> QED BY <1>3, <2>1
  <2>5. ~f.on /\ S # {} => Takes(c, g, f)
    <3> HIDE DEF g
    <3> QED BY <1>3, <1>6, <2>2
  <2>6. f.on => Takes(c, Finalise(c, mid, f.body + 1), f)
    <3>1. f.on => f.body + 1 = Chunks
      BY <1>6, ChunksAssumption DEF Tag
    <3> QED BY <1>4, <3>1
  <2>7. S = {} => Takes(c, c, f)
    BY <1>0, <1>3, <1>6
  <2>8. S # {} => OnChunk(c, f) = n \/ (f.on /\ OnChunk(c, f) = Finalise(c, mid, f.body + 1))
                  \/ (~f.on /\ OnChunk(c, f) = g)
    BY DEF OnChunk
  <2> HIDE DEF n, g
  <2> QED BY <2>3, <2>4, <2>5, <2>6, <2>7, <2>8
<1>7. ASSUME f.kind = "end" PROVE Takes(c, OnFileEnd(c, f), f)
  <2> DEFINE s == CHOOSE x \in S : TRUE
  <2>1. S = {} => OnFileEnd(c, f) = c
    BY DEF OnFileEnd
  <2>2. S # {} => OnFileEnd(c, f) = Finalise(c, mid, s[2])
    BY DEF OnFileEnd
  <2> HIDE DEF s
  <2>3. S = {} => Takes(c, c, f)
    BY <1>0, <1>3, <1>7
  <2>4. S # {} => Takes(c, Finalise(c, mid, s[2]), f)
    BY <1>4, <1>7
  <2> QED BY <2>1, <2>2, <2>3, <2>4
<1> QED BY <1>5, <1>6, <1>7

\* Reading any frame.
LEMMA ReceivedTakes ==
    ASSUME NEW c, Neat(c), NEW u, Len(c.outbox) \in Nat, NEW f, Tag(f), f.kind \in Kinds, f.kind # "hello"
    PROVE  Takes(c, Received(c, u, f), f)
<1>0. DOMAIN c = Fields
  BY DEF Neat
<1>1. ASSUME NEW d, Works(c, d), d.outbox = c.outbox PROVE Works(c, flushOutbox(d, u))
  <2>1. Works(d, flushOutbox(d, u))
    BY <1>1, FlushWorks, WorksNeat
  <2> QED BY <1>1, <2>1, WorksTwice
<1>2. CASE f.kind \in {"text", "edit", "handshake"}
  <2> DEFINE d == decryptFrom(c, f)
             row == Row("text", f.mid, f.body, FALSE)
  <2>1. RowLike(row) /\ row.kind # "file"
    BY DEF Row, RowLike
  <2> HIDE DEF row
  <2>2. Works(c, d) /\ Neat(d) /\ d.outbox = c.outbox
    <3>1. d.outbox = c.outbox
      BY <1>0 DEF decryptFrom, Fields
    <3> HIDE DEF d
    <3>2. Works(c, d)
      BY RestWork DEF d
    <3> QED BY <3>1, <3>2, WorksNeat
  <2> HIDE DEF d
  <2>3. ASSUME NEW e, Works(c, e), e.outbox = c.outbox
        PROVE  LET x == persistSession(addTextRow(e, row)) IN
               /\ Works(c, addMessage(x, row)) /\ addMessage(x, row).outbox = c.outbox
               /\ Works(c, incrementUnread(x)) /\ incrementUnread(x).outbox = c.outbox
    <3> DEFINE y == addTextRow(e, row)
               x == persistSession(y)
    <3>1. Neat(e) /\ DOMAIN e = Fields
      BY <2>3, WorksNeat DEF Neat
    <3>2. Works(e, y) /\ Neat(y) /\ y.outbox = c.outbox
      <4>1. Works(e, y) /\ Neat(y)
        BY <2>1, <3>1, PartsWork, WorksNeat
      <4>2. y.outbox = c.outbox
        BY <2>3, <3>1 DEF addTextRow, Fields
      <4> QED BY <4>1, <4>2
    <3> HIDE DEF y
    <3>3. Works(y, x) /\ Neat(x) /\ x.outbox = c.outbox
      <4>1. Works(y, x) /\ Neat(x)
        BY <3>2, RestWork, WorksNeat
      <4>2. x.outbox = c.outbox
        BY <3>2 DEF persistSession, Neat, Fields
      <4> QED BY <4>1, <4>2
    <3> HIDE DEF x
    <3>4. Works(c, x)
      <4>1. Works(c, y)
        BY <2>3, <3>2, WorksTwice
      <4> QED BY <3>3, <4>1, WorksTwice
    <3>5. Works(x, addMessage(x, row)) /\ Works(x, incrementUnread(x))
      BY <3>3, RestWork
    <3>6. addMessage(x, row).outbox = c.outbox /\ incrementUnread(x).outbox = c.outbox
      BY <3>3 DEF addMessage, incrementUnread, Neat, Fields
    <3>7. Works(c, addMessage(x, row)) /\ Works(c, incrementUnread(x))
      BY <3>4, <3>5, WorksTwice
    <3> QED BY <3>6, <3>7 DEF x, y
  <2>4. Works(c, OnText(d, f)) /\ OnText(d, f).outbox = c.outbox
    <3> DEFINE e == setPeerTyping(d, FALSE)
    <3>1. Works(d, e)
      BY <2>2, RestWork
    <3>2. e.outbox = c.outbox
      BY <2>2 DEF setPeerTyping, Neat, Fields
    <3> HIDE DEF e
    <3>3. Works(c, e)
      BY <2>2, <3>1, WorksTwice
    <3> DEFINE x == persistSession(addTextRow(e, row))
    <3>4. OnText(d, f) \in {addMessage(x, row), incrementUnread(x)}
      BY DEF OnText, e, row
    <3>5. /\ Works(c, addMessage(x, row)) /\ addMessage(x, row).outbox = c.outbox
          /\ Works(c, incrementUnread(x)) /\ incrementUnread(x).outbox = c.outbox
      BY <2>3, <3>2, <3>3
    <3> HIDE DEF x
    <3> QED BY <3>4, <3>5
  <2>5. Works(c, OnEdit(d, f)) /\ OnEdit(d, f).outbox = c.outbox
    <3> DEFINE x == persistSession(addTextRow(d, row))
               a == updateTextRow(d, f.mid, f.body)
               b == editTextByMid(a, f.mid, f.body)
               e == persistSession(b)
    <3>1. OnEdit(d, f) \in {addMessage(x, row), incrementUnread(x), e}
      BY DEF OnEdit, row
    <3>2. /\ Works(c, addMessage(x, row)) /\ addMessage(x, row).outbox = c.outbox
          /\ Works(c, incrementUnread(x)) /\ incrementUnread(x).outbox = c.outbox
      BY <2>2, <2>3
    <3> HIDE DEF x
    <3>3. Works(d, a) /\ Neat(a) /\ a.outbox = c.outbox
      <4>1. Works(d, a) /\ Neat(a)
        BY <2>2, PartsWork, WorksNeat
      <4>2. a.outbox = c.outbox
        BY <2>2 DEF updateTextRow, Neat, Fields
      <4> QED BY <4>1, <4>2
    <3> HIDE DEF a
    <3>4. Works(a, b) /\ Neat(b) /\ b.outbox = c.outbox
      <4>1. Works(a, b) /\ Neat(b)
        BY <3>3, RestWork, WorksNeat
      <4>2. b.outbox = c.outbox
        BY <3>3 DEF editTextByMid, Neat, Fields
      <4> QED BY <4>1, <4>2
    <3> HIDE DEF b
    <3>5. Works(b, e) /\ e.outbox = c.outbox
      <4>1. Works(b, e)
        BY <3>4, RestWork
      <4>2. e.outbox = c.outbox
        BY <3>4 DEF persistSession, Neat, Fields
      <4> QED BY <4>1, <4>2
    <3> HIDE DEF e
    <3>6. Works(c, e)
      <4>1. Works(c, a)
        BY <2>2, <3>3, WorksTwice
      <4>2. Works(c, b)
        BY <3>4, <4>1, WorksTwice
      <4> QED BY <3>5, <4>2, WorksTwice
    <3> QED BY <3>1, <3>2, <3>5, <3>6
  <2>6. Works(c, persistSession(d)) /\ persistSession(d).outbox = c.outbox
    <3>1. Works(d, persistSession(d))
      BY <2>2, RestWork
    <3>2. persistSession(d).outbox = c.outbox
      BY <2>2 DEF persistSession, Neat, Fields
    <3> QED BY <2>2, <3>1, <3>2, WorksTwice
  <2>7. Works(c, c)
    BY RestWork
  <2>8. Received(c, u, f) \in {c, flushOutbox(OnText(d, f), u), flushOutbox(OnEdit(d, f), u),
                               flushOutbox(persistSession(d), u)}
    BY <1>2 DEF Received, OnMsg, Drained, d
  <2>9. Works(c, Received(c, u, f))
    <3>1. /\ Works(c, flushOutbox(OnText(d, f), u)) /\ Works(c, flushOutbox(OnEdit(d, f), u))
          /\ Works(c, flushOutbox(persistSession(d), u))
      BY <1>1, <2>4, <2>5, <2>6
    <3> QED BY <2>7, <2>8, <3>1
  <2> QED BY <1>2, <2>9, TakesOther
<1>3. CASE f.kind \in {"keys", "delete", "reaction", "typing", "presence"}
  <2>1. Works(c, OnKeys(c, u))
    <3> DEFINE d == [c EXCEPT !.keyed = TRUE]
    <3>1. d.outbox = c.outbox
      BY <1>0 DEF Fields
    <3>2. Works(c, d)
      BY RestWork
    <3> HIDE DEF d
    <3>3. Works(c, flushOutbox(d, u))
      BY <1>1, <3>1, <3>2
    <3> QED BY <3>3 DEF OnKeys, d
  <2>2. Works(c, OnDelete(c, f))
    BY MarksWork DEF OnDelete, deleteForMe
  <2>3. Works(c, OnReaction(c, f))
    <3> DEFINE d == setReaction(c, f.mid, "peer", f.on)
    <3>1. Works(c, d) /\ Neat(d)
      BY RestWork, WorksNeat
    <3> HIDE DEF d
    <3>2. Works(d, applyReaction(d, f.mid, FALSE, f.on))
      BY <3>1, RestWork
    <3>3. Works(c, applyReaction(d, f.mid, FALSE, f.on))
      BY <3>1, <3>2, WorksTwice
    <3> QED BY <3>3 DEF OnReaction, d
  <2>4. Works(c, OnTyping(c, f)) /\ Works(c, OnPresence(c, f))
    BY RestWork DEF OnTyping, OnPresence
  <2>5. Received(c, u, f) \in {OnKeys(c, u), OnDelete(c, f), OnReaction(c, f), OnTyping(c, f),
                               OnPresence(c, f)}
    BY <1>3 DEF Received
  <2>6. Works(c, Received(c, u, f))
    BY <2>1, <2>2, <2>3, <2>4, <2>5
  <2> QED BY <1>3, <2>6, TakesOther
<1>4. CASE f.kind \in {"init", "chunk", "end"}
  <2>1. /\ f.kind = "init" => Received(c, u, f) = OnFileInit(c, f)
        /\ f.kind = "chunk" => Received(c, u, f) = OnChunk(c, f)
        /\ f.kind = "end" => Received(c, u, f) = OnFileEnd(c, f)
    BY DEF Received
  <2> QED BY <1>4, <2>1, FileTakes
<1> QED BY <1>2, <1>3, <1>4 DEF Kinds

-----------------------------------------------------------------------------
(* The files of u on their way: o are the frames u has written, w those the  *)
(* relay has sent to the client e of the peer, b those it has fetched in a   *)
(* login of the peer; X are the files cut by a link e lost, F the files of u *)
(* that the relay keeps.                                                     *)

Open(e, m, X) == Str(e, m) /\ m \notin X

\* Before frame n of w, file m is shut: a tagged chunk follows every start of it,
\* and comes if it is open already.
Shut(w, n, m, open) ==
    /\ \A j \in 1 .. n - 1 : w[j].kind = "init" /\ w[j].mid = m =>
          \E k \in j + 1 .. n - 1 : Final(w[k], m)
    /\ open => \E k \in 1 .. n - 1 : Final(w[k], m)

Paired(o) ==
    \A i \in DOMAIN o :
        Tag(o[i]) /\ (o[i].kind = "end" /\ i > 1 => Final(o[i - 1], o[i].mid))
Shutting(e, w, X) ==
    \A i \in DOMAIN w :
        Tag(w[i]) /\ (w[i].kind = "end" => Shut(w, i, w[i].mid, Open(e, w[i].mid, X)))

\* A file that is complete for the relay is shut behind all that was sent or fetched.
AllShut(e, w, X, F) ==
    \A g \in F : g.done => Shut(w, Len(w) + 1, g.init.mid, Open(e, g.init.mid, X))
Heading(o, e, w, X, F) ==
    (o # <<>> /\ o[1].kind = "end") =>
        /\ Shut(w, Len(w) + 1, o[1].mid, Open(e, o[1].mid, X))
        /\ \A f \in F : f.init.mid = o[1].mid => Chunks - 1 \in f.chunks
Whole(h, X) == \A i \in DOMAIN h : h[i].kind = "file" => h[i].body = Chunks \/ h[i].mid \in X

Lane(o, e, w, b, on, von, X, F) ==
    /\ Paired(o) /\ Shutting(e, w \o b, X) /\ AllShut(e, w \o b, X, F)
    /\ on => Heading(o, e, w, X, F)
    /\ ~von => \A m : Str(e, m) => m \in X
    /\ Whole(e.hist, X)

\* A live frame may come between fetched ones, so it must be of another file: the
\* files of u have ticks below n, no frame starts or ends a file behind its end or
\* when the relay has it complete, and what is fetched is of complete files, and
\* brings the tagged chunk of every file it starts.
Dated(o, n) == \A i \in DOMAIN o : Marks(o[i]) => o[i].mid[3] \in 0 .. n - 1
Once(o) == \A i, j \in DOMAIN o : i < j /\ o[i].kind = "end" /\ Marks(o[j]) => o[i].mid # o[j].mid
NotDone(o, F) == \A i \in DOMAIN o, g \in F : Marks(o[i]) /\ g.done => o[i].mid # g.init.mid
DoneIn(b, F) == \A i \in DOMAIN b : Marks(b[i]) => \E g \in F : g.done /\ g.init.mid = b[i].mid
Tailed(b) ==
    \A i \in DOMAIN b : b[i].kind = "init" => \E k \in i + 1 .. Len(b) : Final(b[k], b[i].mid)
Kin(o, b, n, F) ==
    /\ Dated(o, n) /\ \A g \in F : g.init.mid[3] \in 0 .. n - 1
    /\ Once(o) /\ NotDone(o, F) /\ DoneIn(b, F) /\ Tailed(b)

Track(o, n, e, w, b, on, von, X, F) == Lane(o, e, w, b, on, von, X, F) /\ Kin(o, b, n, F)
FilesOf(F, u) == {f \in F : f.init.mid[1] = u}
LaneOf(u) ==
    LET v == Other(u)
    IN Track(out[u], client[u].ids, client[v], wire[v], login[v].batch, u \in online, v \in online,
             ghost.cut, FilesOf(files, u))

\* A file that is complete for the relay has its last chunk there, and no file is stored
\* among the messages.
Stocked(F) == \A f \in F : f.done => Chunks - 1 \in f.chunks
NoFile(s) == \A i \in DOMAIN s : s[i].kind \notin FileFrames
FileInv == Stocked(files) /\ \A u \in Users : LaneOf(u) /\ NoFile(stored[u])

\* Frames behind do not matter, nor do files that were cut meanwhile.
LEMMA ShutMore ==
    ASSUME NEW w, NEW z, NEW n \in Nat, NEW m, NEW a, NEW b, Shut(w, n, m, a), b => a,
           \A i \in 1 .. n - 1 : z[i] = w[i]
    PROVE  Shut(z, n, m, b)
<1>1. ASSUME NEW j \in 1 .. n - 1, z[j].kind = "init", z[j].mid = m
      PROVE  \E k \in j + 1 .. n - 1 : Final(z[k], m)
  <2>1. PICK k \in j + 1 .. n - 1 : Final(w[k], m)
    BY <1>1 DEF Shut
  <2>2. k \in 1 .. n - 1
    OBVIOUS
  <2> QED BY <2>1, <2>2
<1>2. ASSUME b PROVE \E k \in 1 .. n - 1 : Final(z[k], m)
  BY <1>2 DEF Shut
<1> QED BY <1>1, <1>2 DEF Shut

\* Frames q come into y behind position p and make it z.
Spot(y, p, q, z) ==
    /\ Len(y) \in Nat /\ Len(q) \in Nat /\ p \in 0 .. Len(y) /\ Len(z) = Len(y) + Len(q)
    /\ DOMAIN y = 1 .. Len(y) /\ DOMAIN q = 1 .. Len(q) /\ DOMAIN z = 1 .. Len(y) + Len(q)
    /\ \A i \in 1 .. p : z[i] = y[i]
    /\ \A i \in 1 .. Len(q) : z[p + i] = q[i]
    /\ \A i \in p + 1 .. Len(y) : z[i + Len(q)] = y[i]

LEMMA SpotEnd ==
    ASSUME NEW y, Listed(y), NEW q, Listed(q)
    PROVE  Spot(y, Len(y), q, y \o q)
<1>1. Joint(y, q, y \o q)
  BY ListedJoin
<1> DEFINE z == y \o q
<1>2. Joint(y, q, z)
  BY <1>1
<1> HIDE DEF z
<1>3. Spot(y, Len(y), q, z)
  BY <1>2 DEF Joint, Spot
<1> QED BY <1>3 DEF z

LEMMA SpotJoin ==
    ASSUME NEW w, Listed(w), NEW q, Listed(q), NEW b, Listed(b)
    PROVE  Spot(w \o b, Len(w), q, (w \o q) \o b)
<1> DEFINE y == w \o b
           a == w \o q
           z == a \o b
<1>1. Joint(w, b, y)
  BY ListedJoin
<1>2. Joint(w, q, a)
  BY ListedJoin
<1> HIDE DEF y, a
<1>3. Joint(a, b, z)
  BY <1>2, ListedJoin DEF Joint
<1> HIDE DEF z
<1>4. /\ Len(w) \in Nat /\ Len(q) \in Nat /\ Len(b) \in Nat /\ DOMAIN q = 1 .. Len(q)
      /\ Len(y) = Len(w) + Len(b) /\ DOMAIN y = 1 .. Len(w) + Len(b)
      /\ Len(a) = Len(w) + Len(q) /\ Len(z) = Len(a) + Len(b) /\ DOMAIN z = 1 .. Len(a) + Len(b)
  BY <1>1, <1>2, <1>3 DEF Joint
<1>5. ASSUME NEW i \in 1 .. Len(w) PROVE z[i] = y[i]
  <2>1. i \in 1 .. Len(a)
    BY <1>4
  <2> QED BY <1>1, <1>2, <1>3, <2>1 DEF Joint
<1>6. ASSUME NEW i \in 1 .. Len(q) PROVE z[Len(w) + i] = q[i]
  <2>1. Len(w) + i \in 1 .. Len(a)
    BY <1>4
  <2>2. z[Len(w) + i] = a[Len(w) + i]
    BY <1>3, <2>1 DEF Joint
  <2>3. a[Len(w) + i] = q[i]
    BY <1>2 DEF Joint
  <2> QED BY <2>2, <2>3
<1>7. ASSUME NEW i \in Len(w) + 1 .. Len(y) PROVE z[i + Len(q)] = y[i]
  <2> DEFINE k == i - Len(w)
  <2>1. k \in 1 .. Len(b) /\ i = Len(w) + k /\ i + Len(q) = Len(a) + k
    BY <1>4
  <2> HIDE DEF k
  <2>2. z[Len(a) + k] = b[k]
    BY <1>3, <2>1 DEF Joint
  <2>3. y[Len(w) + k] = b[k]
    BY <1>1, <2>1 DEF Joint
  <2> QED BY <2>1, <2>2, <2>3
<1>8. Spot(y, Len(w), q, z)
  BY <1>4, <1>5, <1>6, <1>7 DEF Spot
<1> QED BY <1>8 DEF y, a, z

\* A file is still shut when frames come in that do not start it.
LEMMA SpotShut ==
    ASSUME NEW y, NEW p, NEW q, NEW z, Spot(y, p, q, z), NEW n \in p + 1 .. Len(y) + 1, NEW m, NEW a,
           Shut(y, n, m, a), \A i \in 1 .. Len(q) : ~(q[i].kind = "init" /\ q[i].mid = m)
    PROVE  Shut(z, n + Len(q), m, a)
<1> DEFINE L == Len(q)
           S(k) == IF k <= p THEN k ELSE k + L
<1>1. Len(y) \in Nat /\ L \in Nat /\ p \in 0 .. Len(y) /\ n \in Nat
  BY DEF Spot
<1>2. ASSUME NEW k \in 1 .. n - 1 PROVE S(k) \in 1 .. n + L - 1 /\ z[S(k)] = y[k]
  <2>1. CASE k <= p
    <3>1. k \in 1 .. p
      BY <1>1, <2>1
    <3> QED BY <1>1, <2>1, <3>1 DEF Spot
  <2>2. CASE ~(k <= p)
    <3>1. k \in p + 1 .. Len(y)
      BY <1>1, <2>2
    <3>2. z[k + L] = y[k]
      BY <3>1 DEF Spot
    <3> QED BY <1>1, <2>2, <3>2
  <2> QED BY <2>1, <2>2
<1>3. ASSUME NEW j \in 1 .. n - 1, NEW k \in j + 1 .. n - 1 PROVE S(k) \in S(j) + 1 .. n + L - 1
  BY <1>1
<1>4. ASSUME NEW j \in 1 .. n + L - 1
      PROVE  (\E k \in 1 .. n - 1 : j = S(k)) \/ (j - p \in 1 .. L /\ p + (j - p) = j)
  <2>1. CASE j <= p
    BY <1>1, <2>1
  <2>2. CASE j > p /\ j <= p + L
    BY <1>1, <2>2
  <2>3. CASE j > p + L
    <3>1. j - L \in 1 .. n - 1 /\ S(j - L) = j
      BY <1>1, <2>3
    <3> QED BY <3>1
  <2> QED BY <1>1, <2>1, <2>2, <2>3
<1> HIDE DEF S
<1>5. ASSUME NEW j \in 1 .. n + L - 1, z[j].kind = "init", z[j].mid = m
      PROVE  \E k \in j + 1 .. n + L - 1 : Final(z[k], m)
  <2>1. ~(j - p \in 1 .. L /\ p + (j - p) = j)
    <3> DEFINE i == j - p
    <3>1. i \in 1 .. Len(q) => z[p + i] = q[i]
      BY DEF Spot
    <3> HIDE DEF i
    <3>2. ~(i \in 1 .. L /\ p + i = j)
      BY <1>5, <3>1
    <3> QED BY <3>2 DEF i
  <2>2. PICK k \in 1 .. n - 1 : j = S(k)
    BY <1>4, <2>1
  <2>3. y[k].kind = "init" /\ y[k].mid = m
    BY <1>2, <1>5, <2>2
  <2>4. PICK l \in k + 1 .. n - 1 : Final(y[l], m)
    BY <2>3 DEF Shut
  <2>5. l \in 1 .. n - 1
    BY <1>1
  <2>6. z[S(l)] = y[l] /\ S(l) \in j + 1 .. n + L - 1
    BY <1>2, <1>3, <2>2, <2>5
  <2> QED BY <2>4, <2>6
<1>6. ASSUME a PROVE \E k \in 1 .. n + L - 1 : Final(z[k], m)
  <2>1. PICK k \in 1 .. n - 1 : Final(y[k], m)
    BY <1>6 DEF Shut
  <2>2. z[S(k)] = y[k] /\ S(k) \in 1 .. n + L - 1
    BY <1>2
  <2> QED BY <2>1, <2>2
<1> QED BY <1>5, <1>6 DEF Shut

LEMMA SpotShutting ==
    ASSUME NEW y, NEW p, NEW q, NEW z, Spot(y, p, q, z), NEW e, NEW X, Shutting(e, y, X),
           \A i \in 1 .. Len(q) :
              Tag(q[i]) /\ (q[i].kind = "end" => Shut(z, p + i, q[i].mid, Open(e, q[i].mid, X))),
           \A i \in 1 .. Len(q), j \in p + 1 .. Len(y) :
              q[i].kind = "init" /\ y[j].kind = "end" => q[i].mid # y[j].mid
    PROVE  Shutting(e, z, X)
<1> DEFINE L == Len(q)
<1>1. /\ Len(y) \in Nat /\ L \in Nat /\ p \in 0 .. Len(y) /\ DOMAIN z = 1 .. Len(y) + L
      /\ DOMAIN y = 1 .. Len(y)
  BY DEF Spot
<1> SUFFICES ASSUME NEW i \in DOMAIN z
             PROVE  Tag(z[i]) /\ (z[i].kind = "end" => Shut(z, i, z[i].mid, Open(e, z[i].mid, X)))
  BY DEF Shutting
<1>2. CASE i <= p
  <2>1. i \in 1 .. p /\ i \in DOMAIN y /\ i \in Nat
    BY <1>1, <1>2
  <2>2. z[i] = y[i] /\ \A j \in 1 .. i - 1 : z[j] = y[j]
    <3>1. \A j \in 1 .. i - 1 : j \in 1 .. p
      BY <1>1, <1>2
    <3> QED BY <2>1, <3>1 DEF Spot
  <2>3. Tag(y[i]) /\ (y[i].kind = "end" => Shut(y, i, y[i].mid, Open(e, y[i].mid, X)))
    BY <2>1 DEF Shutting
  <2> QED BY <2>1, <2>2, <2>3, ShutMore
<1>3. CASE i > p /\ i <= p + L
  <2> DEFINE k == i - p
  <2>1. k \in 1 .. Len(q) /\ p + k = i
    BY <1>1, <1>3
  <2> HIDE DEF k
  <2>2. z[i] = q[k]
    BY <2>1 DEF Spot
  <2>3. Tag(q[k]) /\ (q[k].kind = "end" => Shut(z, p + k, q[k].mid, Open(e, q[k].mid, X)))
    BY <2>1
  <2> QED BY <2>1, <2>2, <2>3
<1>4. CASE i > p + L
  <2> DEFINE k == i - L
  <2>1. k \in p + 1 .. Len(y) /\ k + L = i /\ k \in p + 1 .. Len(y) + 1 /\ k \in DOMAIN y
    BY <1>1, <1>4
  <2> HIDE DEF k
  <2>2. z[i] = y[k]
    BY <2>1 DEF Spot
  <2>3. Tag(y[k]) /\ (y[k].kind = "end" => Shut(y, k, y[k].mid, Open(e, y[k].mid, X)))
    BY <2>1 DEF Shutting
  <2>4. y[k].kind = "end" => \A j \in 1 .. Len(q) : ~(q[j].kind = "init" /\ q[j].mid = y[k].mid)
    BY <2>1
  <2>5. y[k].kind = "end" => Shut(z, k + L, y[k].mid, Open(e, y[k].mid, X))
    BY <2>1, <2>3, <2>4, SpotShut
  <2> QED BY <2>1, <2>2, <2>3, <2>5
<1> QED BY <1>1, <1>2, <1>3, <1>4

LEMMA SpotAll ==
    ASSUME NEW y, NEW p, NEW q, NEW z, Spot(y, p, q, z), NEW e, NEW X, NEW F, AllShut(e, y, X, F),
           \A i \in 1 .. Len(q), g \in F : q[i].kind = "init" /\ g.done => q[i].mid # g.init.mid
    PROVE  AllShut(e, z, X, F)
<1> SUFFICES ASSUME NEW g \in F, g.done
             PROVE  Shut(z, Len(z) + 1, g.init.mid, Open(e, g.init.mid, X))
  BY DEF AllShut
<1> DEFINE n == Len(y) + 1
           m == g.init.mid
<1>1. n \in p + 1 .. Len(y) + 1 /\ n + Len(q) = Len(z) + 1
  BY DEF Spot
<1>2. Shut(y, n, m, Open(e, m, X))
  BY DEF AllShut
<1>3. \A i \in 1 .. Len(q) : ~(q[i].kind = "init" /\ q[i].mid = m)
  OBVIOUS
<1> HIDE DEF n, m
<1>4. Shut(z, n + Len(q), m, Open(e, m, X))
  BY <1>1, <1>2, <1>3, SpotShut
<1> QED BY <1>1, <1>4 DEF m

\* The author writes.
LEMMA LaneWrites ==
    ASSUME NEW o, Listed(o), NEW e, NEW w, NEW b, NEW on, NEW von, NEW X, NEW F,
           Lane(o, e, w, b, on, von, X, F), NEW t, Listed(t), Ships(<<>>, t)
    PROVE  Lane(o \o t, e, w, b, on, von, X, F)
<1> DEFINE p == o \o t
<1>1. Joint(o, t, p)
  BY ListedJoin
<1> HIDE DEF p
<1>2. \A i \in 1 .. Len(t) : Tag(t[i]) /\ (t[i].kind = "end" => i > 1 /\ Final(t[i - 1], t[i].mid))
  <2>1. Len(<<>>) = 0
    OBVIOUS
  <2> QED BY <2>1 DEF Ships
<1>3. /\ Len(o) \in Nat /\ Len(t) \in Nat /\ DOMAIN o = 1 .. Len(o) /\ DOMAIN t = 1 .. Len(t)
      /\ DOMAIN p = 1 .. Len(o) + Len(t) /\ Len(p) = Len(o) + Len(t) /\ Listed(p)
  BY <1>1 DEF Joint
<1>4. \A i \in 1 .. Len(o) : p[i] = o[i]
  BY <1>1 DEF Joint
<1>5. \A i \in 1 .. Len(t) : p[Len(o) + i] = t[i]
  BY <1>1 DEF Joint
<1>6. Paired(p)
  <2> SUFFICES ASSUME NEW i \in DOMAIN p
               PROVE  Tag(p[i]) /\ (p[i].kind = "end" /\ i > 1 => Final(p[i - 1], p[i].mid))
    BY DEF Paired
  <2>1. CASE i \in DOMAIN o
    <3>1. p[i] = o[i] /\ (i > 1 => p[i - 1] = o[i - 1])
      BY <1>3, <1>4, <2>1
    <3> QED BY <2>1, <3>1 DEF Lane, Paired
  <2>2. CASE i \notin DOMAIN o
    <3> DEFINE n == i - Len(o)
    <3>1. n \in 1 .. Len(t) /\ Len(o) + n = i /\ i \in Nat
      BY <1>3, <2>2
    <3>2. n > 1 => n - 1 \in 1 .. Len(t) /\ Len(o) + (n - 1) = i - 1
      BY <1>3, <3>1
    <3> HIDE DEF n
    <3>3. p[i] = t[n] /\ (n > 1 => p[i - 1] = t[n - 1])
      BY <1>5, <3>1, <3>2
    <3> QED BY <1>2, <3>1, <3>3
  <2> QED BY <2>1, <2>2
<1>7. ASSUME on PROVE Heading(p, e, w, X, F)
  <2>1. CASE 1 \in DOMAIN o
    <3>1. p[1] = o[1] /\ o # <<>>
      BY <1>3, <1>4, <2>1
    <3> QED BY <1>7, <3>1 DEF Lane, Heading
  <2>2. CASE 1 \notin DOMAIN o
    <3>1. Len(o) = 0
      BY <1>3, <2>2
    <3>2. p # <<>> => p[1].kind # "end"
      <4>1. p # <<>> => Len(p) # 0
        BY <1>3 DEF Listed
      <4>2. p # <<>> => 1 \in 1 .. Len(t) /\ Len(o) + 1 = 1
        BY <1>3, <3>1, <4>1
      <4>3. p # <<>> => p[1] = t[1]
        BY <1>5, <4>2
      <4> QED BY <1>2, <4>2, <4>3
    <3> QED BY <3>2 DEF Heading
  <2> QED BY <2>1, <2>2
<1>8. Lane(p, e, w, b, on, von, X, F)
  BY <1>6, <1>7 DEF Lane
<1> QED BY <1>8 DEF p

\* The reader does something else, and files may be cut.
LEMMA LaneBeside ==
    ASSUME NEW o, NEW e, NEW w, Listed(w), NEW b, Listed(b), NEW on, NEW von, NEW X, NEW F,
           Lane(o, e, w, b, on, von, X, F), NEW d, \A m : Str(d, m) => Str(e, m), Filed(e.hist, d.hist),
           NEW Y, X \subseteq Y
    PROVE  Lane(o, d, w, b, on, von, Y, F)
<1> DEFINE y == w \o b
<1>1. \A m : Open(d, m, Y) => Open(e, m, X)
  BY DEF Open
<1>2. \A s, m : \A n \in Nat : Shut(s, n, m, Open(e, m, X)) => Shut(s, n, m, Open(d, m, Y))
  BY <1>1, ShutMore
<1>3. Len(w) \in Nat /\ Len(y) \in Nat /\ DOMAIN y = 1 .. Len(y)
  <2>1. Joint(w, b, y)
    BY ListedJoin
  <2> HIDE DEF y
  <2> QED BY <2>1 DEF Joint
<1>4. Shutting(e, y, X) /\ AllShut(e, y, X, F)
  BY DEF Lane
<1> HIDE DEF y
<1>5. Shutting(d, y, Y)
  BY <1>2, <1>3, <1>4 DEF Shutting
<1>6. AllShut(d, y, Y, F)
  <2>1. Len(y) + 1 \in Nat
    BY <1>3
  <2> QED BY <1>2, <1>4, <2>1 DEF AllShut
<1>7. ASSUME on PROVE Heading(o, d, w, Y, F)
  <2>1. Len(w) + 1 \in Nat
    BY <1>3
  <2> QED BY <1>2, <1>7, <2>1 DEF Lane, Heading
<1>8. Whole(d.hist, Y)
  BY DEF Lane, Whole, Filed
<1> QED BY <1>5, <1>6, <1>7, <1>8 DEF Lane, y

\* The reader reads the next frame: what was shut stays shut.
LEMMA ShutReads ==
    ASSUME NEW S, NEW w \in Seq(S), w # <<>>, NEW e, NEW d, NEW X, Takes(e, d, Head(w)),
           NEW n \in 2 .. Len(w) + 1, NEW m, Shut(w, n, m, Open(e, m, X))
    PROVE  Shut(Tail(w), n - 1, m, Open(d, m, X))
<1> DEFINE f == Head(w)
           t == Tail(w)
<1>1. /\ f = w[1] /\ Len(w) \in Nat /\ Len(w) > 0
      /\ \A i \in 1 .. Len(w) - 1 : t[i] = w[i + 1]
  OBVIOUS
<1> HIDE DEF f, t
<1>2. Takes(e, d, f)
  BY DEF f
<1>3. \A k \in 2 .. n - 1 : k - 1 \in 1 .. n - 2 /\ t[k - 1] = w[k]
  <2> SUFFICES ASSUME NEW k \in 2 .. n - 1 PROVE k - 1 \in 1 .. n - 2 /\ t[k - 1] = w[k]
    OBVIOUS
  <2>1. k - 1 \in 1 .. n - 2 /\ k - 1 \in 1 .. Len(w) - 1 /\ (k - 1) + 1 = k
    BY <1>1
  <2> QED BY <1>1, <2>1
<1>4. ASSUME NEW j \in 1 .. n - 1 - 1, t[j].kind = "init", t[j].mid = m
      PROVE  \E k \in j + 1 .. n - 1 - 1 : Final(t[k], m)
  <2>1. j + 1 \in 1 .. n - 1 /\ t[j] = w[j + 1]
    BY <1>1
  <2>2. PICK k \in j + 1 + 1 .. n - 1 : Final(w[k], m)
    BY <1>4, <2>1 DEF Shut
  <2>3. k \in 2 .. n - 1 /\ k - 1 \in j + 1 .. n - 1 - 1
    OBVIOUS
  <2> QED BY <1>3, <2>2, <2>3
<1>5. ASSUME Open(d, m, X) PROVE \E k \in 1 .. n - 1 - 1 : Final(t[k], m)
  <2>1. m \notin X /\ ((Str(e, m) /\ ~Final(f, m)) \/ (f.kind = "init" /\ f.mid = m))
    BY <1>2, <1>5 DEF Open, Takes
  <2>2. \E k \in 2 .. n - 1 : Final(w[k], m)
    <3>1. CASE Str(e, m) /\ ~Final(f, m)
      <4>1. PICK k \in 1 .. n - 1 : Final(w[k], m)
        BY <2>1, <3>1 DEF Shut, Open
      <4>2. k # 1
        BY <1>1, <3>1, <4>1
      <4> QED BY <4>1, <4>2
    <3>2. CASE f.kind = "init" /\ f.mid = m
      <4>1. 1 \in 1 .. n - 1
        BY <1>1
      <4>2. PICK k \in 1 + 1 .. n - 1 : Final(w[k], m)
        BY <1>1, <3>2, <4>1 DEF Shut
      <4> QED BY <4>2
    <3> QED BY <2>1, <3>1, <3>2
  <2>3. PICK k \in 2 .. n - 1 : Final(w[k], m)
    BY <2>2
  <2>4. k - 1 \in 1 .. n - 1 - 1 /\ t[k - 1] = w[k]
    BY <1>3
  <2> QED BY <2>3, <2>4
<1> QED BY <1>4, <1>5 DEF Shut, t

LEMMA LaneReads ==
    ASSUME NEW S, NEW o, NEW e, NEW w \in Seq(S), w # <<>>, NEW b \in Seq(S), NEW on, NEW X, NEW F,
           Lane(o, e, w, b, on, TRUE, X, F), NEW d, Takes(e, d, Head(w))
    PROVE  Lane(o, d, Tail(w), b, on, TRUE, X, F)
<1> DEFINE f == Head(w)
           y == w \o b
           t == Tail(w)
           x == Tail(y)
<1>1. /\ y \in Seq(S) /\ y # <<>> /\ Head(y) = f /\ Len(y) = Len(w) + Len(b) /\ Len(w) > 0 /\ Len(b) \in Nat
      /\ Len(w) \in Nat
  OBVIOUS
<1>2. t \o b = x
  <2> DEFINE z == t \o b
  <2>1. z \in Seq(S) /\ Len(z) = Len(w) - 1 + Len(b) /\ \A i \in 1 .. Len(z) : z[i] = y[i + 1]
    OBVIOUS
  <2> HIDE DEF y
  <2>2. x \in Seq(S) /\ Len(x) = Len(y) - 1 /\ \A i \in 1 .. Len(x) : x[i] = y[i + 1]
    BY <1>1
  <2> HIDE DEF z, x
  <2>3. z = x
    BY <1>1, <2>1, <2>2
  <2> QED BY <2>3 DEF z
<1>3. f = y[1] /\ Len(t) = Len(w) - 1
  BY <1>1
<1>4. /\ Len(y) \in Nat /\ Len(y) > 0 /\ DOMAIN y = 1 .. Len(y)
      /\ Len(x) = Len(y) - 1 /\ DOMAIN x = 1 .. Len(y) - 1
      /\ \A i \in 1 .. Len(y) - 1 : x[i] = y[i + 1]
  <2> HIDE DEF y
  <2>1. x \in Seq(S) /\ Len(x) = Len(y) - 1
    BY <1>1
  <2> QED BY <1>1, <2>1
<1>5. Takes(e, d, f) /\ Shutting(e, y, X) /\ AllShut(e, y, X, F)
  BY DEF Lane
<1>6. ASSUME NEW n \in 2 .. Len(y) + 1, NEW m, Shut(y, n, m, Open(e, m, X))
      PROVE  Shut(x, n - 1, m, Open(d, m, X))
  <2> HIDE DEF y, f
  <2> QED BY <1>1, <1>5, <1>6, ShutReads
<1>7. ASSUME NEW n \in 2 .. Len(w) + 1, NEW m, Shut(w, n, m, Open(e, m, X))
      PROVE  Shut(t, n - 1, m, Open(d, m, X))
  BY <1>7, ShutReads
<1> HIDE DEF f, t, x, y
<1>8. Shutting(d, x, X)
  <2> SUFFICES ASSUME NEW i \in DOMAIN x
               PROVE  Tag(x[i]) /\ (x[i].kind = "end" => Shut(x, i, x[i].mid, Open(d, x[i].mid, X)))
    BY DEF Shutting
  <2>1. i + 1 \in DOMAIN y /\ x[i] = y[i + 1] /\ i + 1 \in 2 .. Len(y) + 1 /\ i + 1 - 1 = i
    BY <1>4
  <2>2. Tag(y[i + 1]) /\ (y[i + 1].kind = "end" => Shut(y, i + 1, y[i + 1].mid, Open(e, y[i + 1].mid, X)))
    BY <1>5, <2>1 DEF Shutting
  <2>3. y[i + 1].kind = "end" => Shut(x, i + 1 - 1, y[i + 1].mid, Open(d, y[i + 1].mid, X))
    BY <1>6, <2>1, <2>2
  <2> QED BY <2>1, <2>2, <2>3
<1>9. AllShut(d, x, X, F)
  <2>1. Len(y) + 1 \in 2 .. Len(y) + 1 /\ Len(y) + 1 - 1 = Len(x) + 1
    BY <1>4
  <2> QED BY <1>5, <1>6, <2>1 DEF AllShut
<1>10. ASSUME on PROVE Heading(o, d, t, X, F)
  <2>1. Len(w) + 1 \in 2 .. Len(w) + 1 /\ Len(w) + 1 - 1 = Len(t) + 1
    BY <1>1, <1>3
  <2> QED BY <1>7, <1>10, <2>1 DEF Lane, Heading
<1>11. Whole(d.hist, X)
  <2> SUFFICES ASSUME NEW i \in DOMAIN d.hist, d.hist[i].kind = "file", d.hist[i].body # Chunks
               PROVE  d.hist[i].mid \in X
    BY DEF Whole
  <2>1. CASE f.kind = "end" /\ f.mid = d.hist[i].mid /\ Str(e, f.mid)
    <3>1. 1 \in DOMAIN y
      BY <1>4
    <3>2. Shut(y, 1, f.mid, Open(e, f.mid, X))
      BY <1>3, <1>5, <2>1, <3>1 DEF Shutting
    <3>3. ~Open(e, f.mid, X)
      BY <3>2 DEF Shut
    <3> QED BY <2>1, <3>3 DEF Open
  <2>2. CASE ~(f.kind = "end" /\ f.mid = d.hist[i].mid /\ Str(e, f.mid))
    <3>1. PICK j \in DOMAIN e.hist : /\ e.hist[j].kind = "file" /\ e.hist[j].mid = d.hist[i].mid
                                     /\ e.hist[j].body = d.hist[i].body
      BY <1>5, <2>2 DEF Takes
    <3> QED BY <3>1 DEF Lane, Whole
  <2> QED BY <2>1, <2>2
<1>12. Lane(o, d, t, b, on, TRUE, X, F)
  BY <1>2, <1>8, <1>9, <1>10, <1>11 DEF Lane
<1> QED BY <1>12 DEF t

\* The reader loses its link.
LEMMA LaneCutReader ==
    ASSUME NEW o, NEW e, NEW w, NEW b, NEW on, NEW von, NEW X, NEW F, Lane(o, e, w, b, on, von, X, F),
           NEW d, d.hist = e.hist, \A m : Str(d, m) => Str(e, m),
           NEW Y, X \subseteq Y, \A m : Str(e, m) => m \in Y
    PROVE  Lane(o, d, <<>>, <<>>, on, FALSE, Y, F)
<1>1. \A m : ~Open(d, m, Y)
  BY DEF Open
<1>2. Len(<<>>) = 0 /\ DOMAIN <<>> = {} /\ <<>> \o <<>> = <<>>
  OBVIOUS
<1>3. Shutting(d, <<>>, Y)
  BY <1>2 DEF Shutting
<1>4. \A m : Shut(<<>>, Len(<<>>) + 1, m, Open(d, m, Y))
  BY <1>1, <1>2 DEF Shut
<1>5. on => Heading(o, d, <<>>, Y, F)
  BY <1>4 DEF Lane, Heading
<1>6. AllShut(d, <<>>, Y, F)
  BY <1>4 DEF AllShut
<1>7. Whole(d.hist, Y)
  BY DEF Lane, Whole
<1> QED BY <1>2, <1>3, <1>5, <1>6, <1>7 DEF Lane

\* The author loses its link.
LEMMA LaneCutAuthor ==
    ASSUME NEW o, NEW e, NEW w, NEW b, NEW on, NEW von, NEW X, NEW F, Lane(o, e, w, b, on, von, X, F)
    PROVE  Lane(<<>>, e, w, b, FALSE, von, X, F)
<1>1. DOMAIN <<>> = {}
  OBVIOUS
<1> QED BY <1>1 DEF Lane, Paired

\* Frames that are not about files come behind what was sent.
LEMMA LaneInserts ==
    ASSUME NEW o, NEW e, NEW w, Listed(w), NEW b, Listed(b), NEW on, NEW von, NEW X, NEW F,
           Lane(o, e, w, b, on, von, X, F), NEW q, Listed(q), NoFile(q)
    PROVE  Lane(o, e, w \o q, b, on, von, X, F)
<1> DEFINE y == w \o b
           a == w \o q
           z == a \o b
<1>1. Spot(y, Len(w), q, z) /\ Spot(w, Len(w), q, a)
  BY SpotJoin, SpotEnd
<1>2. Shutting(e, y, X) /\ AllShut(e, y, X, F)
  BY DEF Lane
<1> HIDE DEF y, a, z
<1>3. \A i \in 1 .. Len(q) : q[i].kind \notin FileFrames
  BY ListedIn DEF NoFile
<1>4. \A i \in 1 .. Len(q) : q[i].kind \notin {"init", "end"} /\ Tag(q[i])
  BY <1>3 DEF FileFrames, Tag
<1>5. Shutting(e, z, X)
  BY <1>1, <1>2, <1>4, SpotShutting
<1>6. AllShut(e, z, X, F)
  BY <1>1, <1>2, <1>4, SpotAll
<1>7. ASSUME on PROVE Heading(o, e, a, X, F)
  <2>1. Len(w) + 1 \in Len(w) + 1 .. Len(w) + 1 /\ Len(w) + 1 + Len(q) = Len(a) + 1
    BY <1>1 DEF Spot
  <2>2. ASSUME NEW m, Shut(w, Len(w) + 1, m, Open(e, m, X)) PROVE Shut(a, Len(a) + 1, m, Open(e, m, X))
    <3> DEFINE n == Len(w) + 1
    <3>1. n \in Len(w) + 1 .. Len(w) + 1 /\ n + Len(q) = Len(a) + 1 /\ Shut(w, n, m, Open(e, m, X))
      BY <2>1, <2>2
    <3> HIDE DEF n
    <3>2. Shut(a, n + Len(q), m, Open(e, m, X))
      BY <1>1, <1>4, <3>1, SpotShut
    <3> QED BY <3>1, <3>2
  <2> QED BY <1>7, <2>2 DEF Lane, Heading
<1>8. Lane(o, e, a, b, on, von, X, F)
  BY <1>5, <1>6, <1>7 DEF Lane, z
<1> QED BY <1>8 DEF a

\* The relay takes the next frame of the author: refuses it, or logs the author in.
LEMMA LaneTake ==
    ASSUME NEW S, NEW o \in Seq(S), o # <<>>, NEW e, NEW w, NEW b, NEW on, NEW von, NEW X, NEW F,
           Lane(o, e, w, b, on, von, X, F)
    PROVE  /\ Paired(Tail(o)) /\ Tag(Head(o))
           /\ Tail(o) # <<>> /\ Tail(o)[1].kind = "end" => Final(Head(o), Tail(o)[1].mid)
           /\ Lane(Tail(o), e, w, b, FALSE, von, X, F)
           /\ Head(o).kind = "hello" => Lane(Tail(o), e, w, b, TRUE, von, X, F)
<1> DEFINE f == Head(o)
           t == Tail(o)
<1>1. /\ f = o[1] /\ Len(o) \in Nat /\ Len(o) > 0 /\ DOMAIN o = 1 .. Len(o)
      /\ Len(t) = Len(o) - 1 /\ DOMAIN t = 1 .. Len(o) - 1 /\ (t # <<>> => Len(o) > 1)
      /\ \A i \in 1 .. Len(o) - 1 : t[i] = o[i + 1]
  <2>1. t \in Seq(S) /\ Len(t) = Len(o) - 1
    OBVIOUS
  <2>2. t # <<>> => Len(t) > 0
    BY <2>1
  <2> QED BY <2>1, <2>2
<1> HIDE DEF f, t
<1>2. Paired(o)
  BY DEF Lane
<1>3. Tag(f)
  <2>1. 1 \in DOMAIN o
    BY <1>1
  <2> QED BY <1>1, <1>2, <2>1 DEF Paired
<1>4. Paired(t)
  <2> SUFFICES ASSUME NEW i \in DOMAIN t
               PROVE  Tag(t[i]) /\ (t[i].kind = "end" /\ i > 1 => Final(t[i - 1], t[i].mid))
    BY DEF Paired
  <2>1. i + 1 \in DOMAIN o /\ i + 1 > 1 /\ t[i] = o[i + 1] /\ i + 1 - 1 = i
    BY <1>1
  <2>2. i > 1 => t[i - 1] = o[i]
    <3> SUFFICES ASSUME i > 1 PROVE t[i - 1] = o[i]
      OBVIOUS
    <3>1. i - 1 \in 1 .. Len(o) - 1 /\ i - 1 + 1 = i
      BY <1>1
    <3> QED BY <1>1, <3>1
  <2> DEFINE n == i + 1
  <2>3. n \in DOMAIN o /\ n > 1 /\ t[i] = o[n] /\ n - 1 = i
    BY <2>1
  <2> HIDE DEF n
  <2>4. Tag(o[n]) /\ (o[n].kind = "end" => Final(o[n - 1], o[n].mid))
    BY <1>2, <2>3 DEF Paired
  <2> QED BY <2>2, <2>3, <2>4
<1>5. t # <<>> /\ t[1].kind = "end" => Final(f, t[1].mid)
  <2> SUFFICES ASSUME t # <<>>, t[1].kind = "end" PROVE Final(f, t[1].mid)
    OBVIOUS
  <2>1. 2 \in DOMAIN o /\ 2 > 1 /\ 2 - 1 = 1 /\ 1 + 1 = 2 /\ 1 \in 1 .. Len(o) - 1
    BY <1>1
  <2>2. t[1] = o[2]
    BY <1>1, <2>1
  <2>3. o[2].kind = "end" => Final(o[2 - 1], o[2].mid)
    BY <1>2, <2>1 DEF Paired
  <2> QED BY <1>1, <2>1, <2>2, <2>3
<1>6. Lane(t, e, w, b, FALSE, von, X, F)
  BY <1>4 DEF Lane
<1>7. ASSUME f.kind = "hello" PROVE Lane(t, e, w, b, TRUE, von, X, F)
  <2>1. ~(t # <<>> /\ t[1].kind = "end")
    BY <1>5, <1>7 DEF Final
  <2>2. Heading(t, e, w, X, F)
    BY <2>1 DEF Heading
  <2> QED BY <1>4, <2>2 DEF Lane
<1> QED BY <1>3, <1>4, <1>5, <1>6, <1>7 DEF f, t

\* What is fetched, behind what was sent.
LEMMA TailedShut ==
    ASSUME NEW b, Listed(b), Tailed(b), NEW m
    PROVE  Shut(b, Len(b) + 1, m, FALSE)
<1>1. Len(b) \in Nat /\ DOMAIN b = 1 .. Len(b)
  BY ListedIn
<1> SUFFICES ASSUME NEW j \in 1 .. Len(b) + 1 - 1, b[j].kind = "init", b[j].mid = m
             PROVE  \E k \in j + 1 .. Len(b) + 1 - 1 : Final(b[k], m)
  BY DEF Shut
<1>2. j \in DOMAIN b /\ Len(b) + 1 - 1 = Len(b)
  BY <1>1
<1> QED BY <1>2 DEF Tailed

LEMMA ShutJoin ==
    ASSUME NEW w, NEW q, NEW z, Spot(w, Len(w), q, z), NEW m, NEW a, Shut(w, Len(w) + 1, m, a),
           NEW i \in 1 .. Len(q) + 1, Shut(q, i, m, FALSE)
    PROVE  Shut(z, Len(w) + i, m, a)
<1> DEFINE p == Len(w)
<1>1. p \in Nat /\ Len(q) \in Nat /\ p + 1 - 1 = p
  BY DEF Spot
<1>2. \A j \in 1 .. p : z[j] = w[j]
  BY DEF Spot
<1>3. \A j \in 1 .. Len(q) : z[p + j] = q[j]
  BY DEF Spot
<1>4. ASSUME NEW j \in 1 .. p + i - 1, z[j].kind = "init", z[j].mid = m
      PROVE  \E k \in j + 1 .. p + i - 1 : Final(z[k], m)
  <2>1. CASE j \in 1 .. p
    <3>1. j \in 1 .. Len(w) + 1 - 1
      BY <1>1, <2>1
    <3>2. PICK k \in j + 1 .. Len(w) + 1 - 1 : Final(w[k], m)
      BY <1>2, <1>4, <2>1, <3>1 DEF Shut
    <3>3. k \in 1 .. p /\ k \in j + 1 .. p + i - 1
      BY <1>1
    <3> QED BY <1>2, <3>2, <3>3
  <2>2. CASE j \notin 1 .. p
    <3> DEFINE l == j - p
    <3>1. l \in 1 .. i - 1 /\ p + l = j /\ l \in 1 .. Len(q)
      BY <1>1, <2>2
    <3> HIDE DEF l
    <3>2. q[l].kind = "init" /\ q[l].mid = m
      BY <1>3, <1>4, <3>1
    <3>3. PICK k \in l + 1 .. i - 1 : Final(q[k], m)
      BY <3>1, <3>2 DEF Shut
    <3>4. k \in 1 .. Len(q) /\ p + k \in j + 1 .. p + i - 1
      BY <1>1, <3>1
    <3> QED BY <1>3, <3>3, <3>4
  <2> QED BY <2>1, <2>2
<1>5. ASSUME a PROVE \E k \in 1 .. p + i - 1 : Final(z[k], m)
  <2>1. PICK k \in 1 .. Len(w) + 1 - 1 : Final(w[k], m)
    BY <1>5 DEF Shut
  <2>2. k \in 1 .. p /\ k \in 1 .. p + i - 1
    BY <1>1
  <2> QED BY <1>2, <2>1, <2>2
<1> QED BY <1>4, <1>5 DEF Shut

\* The sequence of one frame.
LEMMA FrameAlone ==
    ASSUME NEW f
    PROVE  Listed(<<f>>) /\ Len(<<f>>) = 1 /\ DOMAIN <<f>> = 1 .. 1 /\ <<f>>[1] = f
<1> DEFINE S == {f}
<1>1. f \in S
  OBVIOUS
<1> HIDE DEF S
<1>2. <<f>> \in Seq(S) /\ Len(<<f>>) = 1 /\ <<f>>[1] = f
  BY <1>1
<1>3. Listed(<<f>>)
  BY <1>2 DEF Listed
<1>4. DOMAIN <<f>> = 1 .. 1
  OBVIOUS
<1> QED BY <1>2, <1>3, <1>4

\* What the relay has of the files of u when it has taken frame f.
Fed(f, F, G) ==
    /\ \A g \in G : f.kind = "chunk" /\ g.init.mid = f.mid => f.body \in g.chunks
    /\ \A g \in G : g.done => \/ \E h \in F : h.done /\ h.init.mid = g.init.mid
                              \/ f.kind = "end" /\ g.init.mid = f.mid

\* The relay hands it over, between what it has fetched, or has nobody to hand it to.
LEMMA LaneForward ==
    ASSUME NEW S, NEW o \in Seq(S), o # <<>>, NEW e, NEW w, Listed(w), NEW b, Listed(b), NEW von, NEW X,
           NEW F, Lane(o, e, w, b, TRUE, von, X, F), NEW n, Kin(o, b, n, F), NEW z,
           IF von THEN z = w \o <<Head(o)>> ELSE w = <<>> /\ b = <<>> /\ z = w,
           NEW G, Fed(Head(o), F, G)
    PROVE  Lane(Tail(o), e, z, b, TRUE, von, X, G)
<1> DEFINE f == Head(o)
           t == Tail(o)
           q == <<f>>
<1>1. /\ Paired(t) /\ Tag(f)
      /\ t # <<>> /\ t[1].kind = "end" => Final(f, t[1].mid)
  BY LaneTake
<1>2. (IF von THEN z = w \o q ELSE w = <<>> /\ b = <<>> /\ z = w) /\ Fed(f, F, G)
  OBVIOUS
<1>3. f = o[1] /\ 1 \in DOMAIN o
  OBVIOUS
<1>4. Listed(q) /\ Len(q) = 1 /\ q[1] = f /\ \A i \in 1 .. Len(q) : i = 1
  <2> HIDE DEF f
  <2>1. Listed(q) /\ Len(q) = 1 /\ q[1] = f
    BY FrameAlone
  <2> HIDE DEF q
  <2> QED BY <2>1
<1> HIDE DEF f, t, q
<1>5. f.kind = "end" => Shut(w, Len(w) + 1, f.mid, Open(e, f.mid, X))
  BY <1>3 DEF Lane, Heading
<1>6. \A m : Final(f, m) => \A g \in G : g.init.mid = m => Chunks - 1 \in g.chunks
  BY <1>1, <1>2 DEF Final, Tag, Fed
<1>7. ASSUME NEW g \in F, g.done, Marks(f) PROVE f.mid # g.init.mid
  BY <1>3, <1>7 DEF Kin, NotDone
<1>8. CASE ~von
  <2>1. Len(<<>>) = 0 /\ <<>> \o <<>> = <<>> /\ \A m : ~Open(e, m, X)
    BY <1>8 DEF Lane, Open
  <2>2. \A m : Shut(<<>>, Len(<<>>) + 1, m, Open(e, m, X))
    BY <2>1 DEF Shut
  <2>3. z = <<>> /\ w = <<>> /\ b = <<>> /\ z \o b = <<>>
    BY <1>2, <1>8, <2>1
  <2>4. Heading(t, e, z, X, G)
    BY <1>1, <1>6, <2>2, <2>3 DEF Heading
  <2>5. AllShut(e, z \o b, X, G)
    BY <2>2, <2>3 DEF AllShut
  <2>6. Shutting(e, z \o b, X)
    BY <2>3 DEF Lane
  <2> QED BY <1>1, <2>4, <2>5, <2>6 DEF Lane, t
<1>9. CASE von
  <2> DEFINE y == w \o b
             x == z \o b
  <2>1. z = w \o q
    BY <1>2, <1>9
  <2>2. Spot(y, Len(w), q, x) /\ Spot(w, Len(w), q, z)
    BY <1>4, <2>1, SpotJoin, SpotEnd
  <2>3. Listed(z) /\ Joint(w, b, y)
    <3>1. Joint(w, q, w \o q)
      BY <1>4, ListedJoin
    <3>2. Joint(w, q, z)
      BY <2>1, <3>1
    <3>3. Listed(z)
      BY <3>2 DEF Joint
    <3> QED BY <3>3, ListedJoin
  <2>4. Spot(z, Len(z), b, x)
    BY <2>3, SpotEnd
  <2>5. Shutting(e, y, X) /\ AllShut(e, y, X, F)
    BY DEF Lane
  <2> HIDE DEF x, y
  <2>6. Len(w) \in Nat /\ Len(b) \in Nat /\ Len(y) = Len(w) + Len(b) /\ Len(z) = Len(w) + 1
        /\ Len(x) = Len(z) + Len(b)
    BY <1>4, <2>2, <2>3, <2>4 DEF Spot, Joint
  <2>7. ASSUME f.kind = "end" PROVE Shut(x, Len(w) + 1, f.mid, Open(e, f.mid, X))
    <3>1. \A i \in 1 .. Len(w) + 1 - 1 : x[i] = w[i]
      <4> SUFFICES ASSUME NEW i \in 1 .. Len(w) + 1 - 1 PROVE x[i] = w[i]
        OBVIOUS
      <4>1. i \in 1 .. Len(w)
        BY <2>6
      <4> QED BY <2>2, <2>3, <4>1 DEF Spot, Joint
    <3>2. Len(w) + 1 \in Nat
      BY <2>6
    <3> QED BY <1>5, <2>7, <3>1, <3>2, ShutMore
  <2>8. ASSUME NEW j \in Len(w) + 1 .. Len(y), f.kind = "init", y[j].kind = "end"
        PROVE  f.mid # y[j].mid
    <3> DEFINE k == j - Len(w)
    <3>1. k \in 1 .. Len(b) /\ Len(w) + k = j
      BY <2>6
    <3> HIDE DEF k
    <3>2. y[j] = b[k] /\ k \in DOMAIN b
      BY <2>3, <3>1 DEF Joint
    <3>3. PICK g \in F : g.done /\ g.init.mid = b[k].mid
      BY <2>8, <3>2 DEF Kin, DoneIn, Marks
    <3> QED BY <1>7, <2>8, <3>2, <3>3 DEF Marks
  <2>9. Shutting(e, x, X)
    <3>1. \A i \in 1 .. Len(q) :
             Tag(q[i]) /\ (q[i].kind = "end" => Shut(x, Len(w) + i, q[i].mid, Open(e, q[i].mid, X)))
      BY <1>1, <1>4, <2>7
    <3>2. \A i \in 1 .. Len(q), j \in Len(w) + 1 .. Len(y) :
             q[i].kind = "init" /\ y[j].kind = "end" => q[i].mid # y[j].mid
      BY <1>4, <2>8
    <3> QED BY <2>2, <2>5, <3>1, <3>2, SpotShutting
  <2>10. AllShut(e, x, X, F)
    <3>1. \A i \in 1 .. Len(q), g \in F : q[i].kind = "init" /\ g.done => q[i].mid # g.init.mid
      BY <1>4, <1>7 DEF Marks
    <3> QED BY <2>2, <2>5, <3>1, SpotAll
  <2>11. ASSUME NEW m, Shut(w, Len(w) + 1, m, Open(e, m, X)), ~(f.kind = "init" /\ f.mid = m)
         PROVE  Shut(z, Len(z) + 1, m, Open(e, m, X))
    <3> DEFINE k == Len(w) + 1
    <3>1. k \in Len(w) + 1 .. Len(w) + 1 /\ k + Len(q) = Len(z) + 1 /\ Shut(w, k, m, Open(e, m, X))
      BY <1>4, <2>6, <2>11
    <3>2. \A i \in 1 .. Len(q) : ~(q[i].kind = "init" /\ q[i].mid = m)
      BY <1>4, <2>11
    <3> HIDE DEF k
    <3>3. Shut(z, k + Len(q), m, Open(e, m, X))
      BY <2>2, <3>1, <3>2, SpotShut
    <3> QED BY <3>1, <3>3
  <2>12. AllShut(e, x, X, G)
    <3> SUFFICES ASSUME NEW g \in G, g.done
                 PROVE  Shut(x, Len(x) + 1, g.init.mid, Open(e, g.init.mid, X))
      BY DEF AllShut
    <3>1. CASE \E h \in F : h.done /\ h.init.mid = g.init.mid
      BY <2>10, <3>1 DEF AllShut
    <3>2. CASE f.kind = "end" /\ g.init.mid = f.mid
      <4> DEFINE m == f.mid
                 i == Len(b) + 1
      <4>1. Shut(z, Len(z) + 1, m, Open(e, m, X))
        BY <1>5, <2>11, <3>2
      <4>2. Shut(b, i, m, FALSE)
        BY TailedShut DEF Kin
      <4>3. i \in 1 .. Len(b) + 1 /\ Len(z) + i = Len(x) + 1
        BY <2>6
      <4> HIDE DEF i, m
      <4>4. Shut(x, Len(z) + i, m, Open(e, m, X))
        BY <2>4, <4>1, <4>2, <4>3, ShutJoin
      <4> QED BY <3>2, <4>3, <4>4 DEF m
    <3> QED BY <1>2, <3>1, <3>2 DEF Fed
  <2>13. ASSUME NEW m, Final(f, m) PROVE Shut(z, Len(z) + 1, m, Open(e, m, X))
    <3>0. z[Len(w) + 1] = f
      BY <1>4, <2>2 DEF Spot
    <3>1. Final(z[Len(w) + 1], m) /\ Len(w) + 1 \in 1 .. Len(z) + 1 - 1
      BY <2>6, <2>13, <3>0
    <3>2. ASSUME NEW j \in 1 .. Len(z) + 1 - 1, z[j].kind = "init"
          PROVE  Len(w) + 1 \in j + 1 .. Len(z) + 1 - 1
      <4>1. j # Len(w) + 1
        BY <2>13, <3>0, <3>2 DEF Final
      <4> QED BY <2>6, <4>1
    <3> QED BY <3>1, <3>2 DEF Shut
  <2>14. Heading(t, e, z, X, G)
    BY <1>1, <1>6, <2>13 DEF Heading
  <2> QED BY <1>1, <1>9, <2>9, <2>12, <2>14 DEF Lane, t, x
<1> QED BY <1>8, <1>9

\* A fetched frame is sent.
LEMMA LaneServes ==
    ASSUME NEW S, NEW o, NEW e, NEW w \in Seq(S), NEW b \in Seq(S), b # <<>>, NEW on, NEW von, NEW X,
           NEW F, Lane(o, e, w, b, on, von, X, F), NEW n, Kin(o, b, n, F), o # <<>> => 1 \in DOMAIN o
    PROVE  Lane(o, e, w \o <<Head(b)>>, Tail(b), on, von, X, F)
<1> DEFINE f == Head(b)
           q == <<f>>
           a == w \o q
           t == Tail(b)
<1>1. f = b[1] /\ 1 \in DOMAIN b /\ f \in S
  OBVIOUS
<1>2. a \o t = w \o b
  <2> DEFINE x == a \o t
             y == w \o b
  <2>1. a \in Seq(S) /\ Len(a) = Len(w) + 1 /\ a[Len(w) + 1] = f /\ \A i \in 1 .. Len(w) : a[i] = w[i]
    BY <1>1
  <2>2. t \in Seq(S) /\ Len(t) = Len(b) - 1 /\ \A i \in 1 .. Len(b) - 1 : t[i] = b[i + 1]
    OBVIOUS
  <2> HIDE DEF a, t, f
  <2>3. /\ x \in Seq(S) /\ Len(x) = Len(w) + Len(b)
        /\ \A i \in 1 .. Len(x) : x[i] = IF i <= Len(w) THEN w[i] ELSE IF i = Len(w) + 1 THEN f ELSE b[i - Len(w)]
    <3>1. x \in Seq(S) /\ Len(x) = Len(a) + Len(t)
          /\ \A i \in 1 .. Len(x) : x[i] = IF i <= Len(a) THEN a[i] ELSE t[i - Len(a)]
      <4>1. a \in Seq(S) /\ t \in Seq(S)
        BY <2>1, <2>2
      <4> QED BY <4>1
    <3> HIDE DEF x
    <3>2. ASSUME NEW i \in 1 .. Len(x)
          PROVE  x[i] = IF i <= Len(w) THEN w[i] ELSE IF i = Len(w) + 1 THEN f ELSE b[i - Len(w)]
      <4>1. CASE i <= Len(w)
        BY <2>1, <3>1, <4>1
      <4>2. CASE i = Len(w) + 1
        BY <2>1, <3>1, <4>2
      <4>3. CASE i > Len(w) + 1
        <5>1. i - Len(a) \in 1 .. Len(b) - 1 /\ i - Len(a) + 1 = i - Len(w)
          BY <2>1, <2>2, <3>1, <4>3
        <5> DEFINE k == i - Len(a)
        <5>2. k \in 1 .. Len(b) - 1 /\ k + 1 = i - Len(w) /\ ~(i <= Len(a)) /\ ~(i <= Len(w)) /\ i # Len(w) + 1
          BY <2>1, <4>3, <5>1
        <5>3. x[i] = t[k]
          BY <3>1, <5>2
        <5> HIDE DEF k
        <5>4. t[k] = b[k + 1]
          BY <2>2, <5>2
        <5> QED BY <5>2, <5>3, <5>4
      <4> QED BY <4>1, <4>2, <4>3
    <3> QED BY <2>1, <2>2, <3>1, <3>2
  <2>4. /\ y \in Seq(S) /\ Len(y) = Len(w) + Len(b)
        /\ \A i \in 1 .. Len(y) : y[i] = IF i <= Len(w) THEN w[i] ELSE b[i - Len(w)]
    OBVIOUS
  <2> HIDE DEF x, y
  <2>5. \A i \in 1 .. Len(x) : x[i] = y[i]
    BY <1>1, <2>3, <2>4
  <2>6. x = y
    BY <2>3, <2>4, <2>5
  <2> QED BY <2>6 DEF x, y
<1>3. Listed(w) /\ Listed(q) /\ Len(q) = 1 /\ q[1] = f /\ \A i \in 1 .. Len(q) : i = 1
  BY FrameAlone DEF Listed
<1>4. Spot(w, Len(w), q, a)
  BY <1>3, SpotEnd
<1> HIDE DEF f, q, a, t
<1>5. ASSUME on PROVE Heading(o, e, a, X, F)
  <2> SUFFICES ASSUME o # <<>>, o[1].kind = "end"
               PROVE  /\ Shut(a, Len(a) + 1, o[1].mid, Open(e, o[1].mid, X))
                      /\ \A g \in F : g.init.mid = o[1].mid => Chunks - 1 \in g.chunks
    BY DEF Heading
  <2> DEFINE m == o[1].mid
             k == Len(w) + 1
  <2>1. Shut(w, k, m, Open(e, m, X)) /\ \A g \in F : g.init.mid = m => Chunks - 1 \in g.chunks
    BY <1>5 DEF Lane, Heading
  <2>2. ~(f.kind = "init" /\ f.mid = m)
    <3> SUFFICES ASSUME f.kind = "init", f.mid = m PROVE FALSE
      OBVIOUS
    <3>1. PICK g \in F : g.done /\ g.init.mid = f.mid
      BY <1>1 DEF Kin, DoneIn, Marks
    <3> QED BY <3>1 DEF Kin, NotDone, Marks
  <2>3. k \in Len(w) + 1 .. Len(w) + 1 /\ k + Len(q) = Len(a) + 1
    BY <1>3, <1>4 DEF Spot
  <2>4. \A i \in 1 .. Len(q) : ~(q[i].kind = "init" /\ q[i].mid = m)
    BY <1>3, <2>2
  <2> HIDE DEF k, m
  <2>5. Shut(a, k + Len(q), m, Open(e, m, X))
    BY <1>4, <2>1, <2>3, <2>4, SpotShut
  <2> QED BY <2>1, <2>3, <2>5 DEF m
<1>6. Lane(o, e, a, t, on, von, X, F)
  BY <1>2, <1>5 DEF Lane
<1> QED BY <1>6 DEF a, q, f, t


\* What the relay has of files when it has taken frame f: what was complete still is.
Feeds(f, F, G) ==
    /\ \A g \in G :
          \/ g \in F /\ (f.kind = "chunk" => g.init.mid # f.mid)
          \/ f.kind = "init" /\ g.init = f /\ g.done = FALSE
          \/ \E h \in F : /\ h.init.mid = f.mid /\ g.init = h.init
                          /\ \/ f.kind = "chunk" /\ g.done = h.done /\ g.chunks = h.chunks \cup {f.body}
                             \/ f.kind = "end" /\ g.chunks = h.chunks
    /\ \A h \in F : h.done /\ (f.kind = "init" => f.mid # h.init.mid) =>
          \E g \in G : g.done /\ g.init = h.init

LEMMA FeedsSame ==
    ASSUME NEW f, f.kind \notin FileFrames, NEW F
    PROVE  Feeds(f, F, F)
BY DEF Feeds, FileFrames

LEMMA StoreRows ==
    ASSUME NEW F, \A f \in F : FileRow(f), NEW fr, fr.kind \in FileFrames
    PROVE  /\ Feeds(fr, F, StoreFile(F, fr))
           /\ \A g \in F : g.init.mid # fr.mid => g \in StoreFile(F, fr)
<1> DEFINE G == StoreFile(F, fr)
           M == Meta(F, fr.mid)
           a == [init |-> fr, chunks |-> {}, done |-> FALSE]
           Add(h) == [h EXCEPT !.chunks = @ \cup {fr.body}]
           End(h) == [h EXCEPT !.done = TRUE]
           B == {Add(f) : f \in M}
           C == {End(f) : f \in M}
<1>1. M \subseteq F /\ \A f \in F : f \in M <=> f.init.mid = fr.mid
  BY DEF Meta
<1>2. /\ fr.kind = "init" => G = (F \ M) \cup {a}
      /\ fr.kind = "chunk" => G = (F \ M) \cup B
      /\ fr.kind = "end" => G = (F \ M) \cup C
  BY DEF StoreFile, save_file_init, save_file_chunk, mark_file_complete
<1>3. a.init = fr /\ a.done = FALSE
  OBVIOUS
<1>4. ASSUME NEW h \in M
      PROVE  /\ Add(h).init = h.init /\ Add(h).done = h.done /\ Add(h).chunks = h.chunks \cup {fr.body}
             /\ End(h).init = h.init /\ End(h).chunks = h.chunks /\ End(h).done
  <2>1. DOMAIN h = {"init", "chunks", "done"}
    BY <1>1 DEF FileRow
  <2> QED BY <2>1
<1>5. (\A h \in M : Add(h) \in B /\ End(h) \in C) /\ (\A g \in B : \E h \in M : g = Add(h))
      /\ \A g \in C : \E h \in M : g = End(h)
  OBVIOUS
<1> HIDE DEF G, M, a, B, C, Add, End
<1>6. CASE fr.kind = "init"
  BY <1>1, <1>2, <1>3, <1>6 DEF G, Feeds
<1>7. CASE fr.kind = "chunk"
  <2>1. \A g \in G : (g \in F /\ g.init.mid # fr.mid) \/ \E h \in M : g = Add(h)
    BY <1>1, <1>2, <1>5, <1>7
  <2>2. \A h \in F : h \in G \/ (h \in M /\ Add(h) \in G)
    BY <1>1, <1>2, <1>5, <1>7
  <2>3. \A g \in F : g.init.mid # fr.mid => g \in G
    BY <1>1, <1>2, <1>7
  <2> QED BY <1>1, <1>4, <1>7, <2>1, <2>2, <2>3 DEF G, Feeds
<1>8. CASE fr.kind = "end"
  <2>1. \A g \in G : (g \in F /\ g.init.mid # fr.mid) \/ \E h \in M : g = End(h)
    BY <1>1, <1>2, <1>5, <1>8
  <2>2. \A h \in F : h \in G \/ (h \in M /\ End(h) \in G)
    BY <1>1, <1>2, <1>5, <1>8
  <2>3. \A g \in F : g.init.mid # fr.mid => g \in G
    BY <1>1, <1>2, <1>8
  <2> QED BY <1>1, <1>4, <1>8, <2>1, <2>2, <2>3 DEF G, Feeds
<1> QED BY <1>6, <1>7, <1>8 DEF FileFrames

\* A frame of u changes files of u only.
LEMMA StoreOwn ==
    ASSUME NEW u, NEW F, \A f \in F : FileRow(f), NEW fr, fr.kind \in FileFrames, fr.mid[1] = u
    PROVE  /\ Feeds(fr, FilesOf(F, u), FilesOf(StoreFile(F, fr), u))
           /\ \A v : v # u => FilesOf(StoreFile(F, fr), v) = FilesOf(F, v)
<1> DEFINE G == StoreFile(F, fr)
<1>1. Feeds(fr, F, G) /\ \A g \in F : g.init.mid # fr.mid => g \in G
  BY StoreRows
<1> HIDE DEF G
<1>2. Feeds(fr, FilesOf(F, u), FilesOf(G, u))
  BY <1>1 DEF Feeds, FilesOf
<1>3. ASSUME NEW v, v # u PROVE FilesOf(G, v) = FilesOf(F, v)
  <2>1. \A g \in G : g.init.mid[1] = v => g \in F
    BY <1>1, <1>3 DEF Feeds
  <2>2. \A g \in F : g.init.mid[1] = v => g \in G
    BY <1>1, <1>3
  <2> QED BY <2>1, <2>2 DEF FilesOf
<1> QED BY <1>2, <1>3 DEF G

LEMMA FeedsFed ==
    ASSUME NEW f, NEW F, NEW G, Feeds(f, F, G)
    PROVE  Fed(f, F, G)
BY DEF Feeds, Fed

-----------------------------------------------------------------------------
(* What the relay fetches for a login.                                      *)

\* Every file that is started in z is completed in z, before its end.
Sealed(z) ==
    /\ Listed(z)
    /\ \A i \in DOMAIN z :
          /\ Tag(z[i])
          /\ z[i].kind = "end" => Shut(z, i, z[i].mid, FALSE)
          /\ z[i].kind = "init" => \E k \in i + 1 .. Len(z) : Final(z[k], z[i].mid)


\* It is fetched when all that was fetched before is sent.
LEMMA LaneFetch ==
    ASSUME NEW o, NEW e, NEW w, Listed(w), NEW on, NEW von, NEW X, NEW F,
           Lane(o, e, w, <<>>, on, von, X, F), NEW q, Sealed(q), DoneIn(q, F)
    PROVE  Lane(o, e, w, q, on, von, X, F)
<1> DEFINE z == w \o q
<1>1. w \o <<>> = w
  <2>1. PICK S : w \in Seq(S)
    BY DEF Listed
  <2> QED BY <2>1
<1>2. Shutting(e, w, X) /\ AllShut(e, w, X, F)
  BY <1>1 DEF Lane
<1>3. Spot(w, Len(w), q, z)
  BY SpotEnd DEF Sealed
<1> HIDE DEF z
<1>4. Len(w) \in Nat /\ Len(q) \in Nat /\ DOMAIN q = 1 .. Len(q) /\ Len(z) = Len(w) + Len(q)
  BY <1>3 DEF Spot
<1>5. Tailed(q) /\ Listed(q)
  BY DEF Sealed, Tailed
<1>6. ASSUME NEW m, Shut(w, Len(w) + 1, m, Open(e, m, X)), NEW i \in 1 .. Len(q) + 1, Shut(q, i, m, FALSE)
      PROVE  Shut(z, Len(w) + i, m, Open(e, m, X))
  BY <1>3, <1>6, ShutJoin
<1>7. ASSUME NEW i \in 1 .. Len(q), q[i].kind = "end"
      PROVE  Shut(z, Len(w) + i, q[i].mid, Open(e, q[i].mid, X))
  <2>1. i \in DOMAIN q /\ i \in 1 .. Len(q) + 1
    BY <1>4
  <2>2. Shut(q, i, q[i].mid, FALSE)
    BY <1>7, <2>1 DEF Sealed
  <2>3. PICK g \in F : g.done /\ g.init.mid = q[i].mid
    BY <1>7, <2>1 DEF DoneIn, Marks
  <2>4. Shut(w, Len(w) + 1, q[i].mid, Open(e, q[i].mid, X))
    BY <1>2, <2>3 DEF AllShut
  <2> QED BY <1>6, <2>1, <2>2, <2>4
<1>8. Shutting(e, z, X)
  <2>1. \A i \in 1 .. Len(q) :
           Tag(q[i]) /\ (q[i].kind = "end" => Shut(z, Len(w) + i, q[i].mid, Open(e, q[i].mid, X)))
    BY <1>4, <1>7 DEF Sealed
  <2>2. \A i \in 1 .. Len(q), j \in Len(w) + 1 .. Len(w) :
           q[i].kind = "init" /\ w[j].kind = "end" => q[i].mid # w[j].mid
    BY <1>4
  <2> QED BY <1>2, <1>3, <2>1, <2>2, SpotShutting
<1>9. AllShut(e, z, X, F)
  <2> SUFFICES ASSUME NEW g \in F, g.done
               PROVE  Shut(z, Len(z) + 1, g.init.mid, Open(e, g.init.mid, X))
    BY DEF AllShut
  <2> DEFINE i == Len(q) + 1
             m == g.init.mid
  <2>1. Shut(w, Len(w) + 1, m, Open(e, m, X))
    BY <1>2 DEF AllShut
  <2>2. Shut(q, i, m, FALSE)
    BY <1>5, TailedShut
  <2>3. i \in 1 .. Len(q) + 1 /\ Len(w) + i = Len(z) + 1
    BY <1>4
  <2> HIDE DEF i, m
  <2>4. Shut(z, Len(w) + i, m, Open(e, m, X))
    BY <1>6, <2>1, <2>2, <2>3
  <2> QED BY <2>3, <2>4 DEF m
<1> QED BY <1>8, <1>9 DEF Lane, z

\* Frames that are not about files.
LEMMA SealedPlain ==
    ASSUME NEW z, Listed(z), \A i \in DOMAIN z : z[i].kind \notin FileFrames
    PROVE  Sealed(z)
BY DEF Sealed, Tag, FileFrames

\* One after the other.
LEMMA SealedJoin ==
    ASSUME NEW q, Sealed(q), NEW r, Sealed(r)
    PROVE  Sealed(q \o r)
<1> DEFINE z == q \o r
<1>1. Joint(q, r, z)
  BY ListedJoin DEF Sealed
<1> HIDE DEF z
<1>2. /\ Listed(z) /\ Len(q) \in Nat /\ Len(r) \in Nat /\ Len(z) = Len(q) + Len(r)
      /\ DOMAIN q = 1 .. Len(q) /\ DOMAIN r = 1 .. Len(r) /\ DOMAIN z = 1 .. Len(q) + Len(r)
  BY <1>1 DEF Joint
<1>3. \A i \in 1 .. Len(q) : z[i] = q[i]
  BY <1>1 DEF Joint
<1>4. \A i \in 1 .. Len(r) : z[Len(q) + i] = r[i]
  BY <1>1 DEF Joint
<1>5. \A i \in DOMAIN z : i \in 1 .. Len(q) \/ (i > Len(q) /\ i - Len(q) \in 1 .. Len(r) /\ z[i] = r[i - Len(q)])
  BY <1>1 DEF Joint
<1>6. ASSUME NEW i \in DOMAIN z
      PROVE  /\ Tag(z[i])
             /\ z[i].kind = "end" => Shut(z, i, z[i].mid, FALSE)
             /\ z[i].kind = "init" => \E k \in i + 1 .. Len(z) : Final(z[k], z[i].mid)
  <2>1. CASE i \in 1 .. Len(q)
    <3>1. Tag(q[i]) /\ (q[i].kind = "end" => Shut(q, i, q[i].mid, FALSE))
      BY <1>2, <2>1 DEF Sealed
    <3>2. q[i].kind = "init" => \E k \in i + 1 .. Len(q) : Final(q[k], q[i].mid)
      BY <1>2, <2>1 DEF Sealed
    <3>3. z[i] = q[i] /\ i \in Nat /\ \A j \in 1 .. i - 1 : z[j] = q[j]
      BY <1>2, <1>3, <2>1
    <3>4. z[i].kind = "end" => Shut(z, i, z[i].mid, FALSE)
      BY <3>1, <3>3, ShutMore
    <3>5. ASSUME z[i].kind = "init" PROVE \E k \in i + 1 .. Len(z) : Final(z[k], z[i].mid)
      <4>1. PICK k \in i + 1 .. Len(q) : Final(q[k], q[i].mid)
        BY <3>2, <3>3, <3>5
      <4>2. k \in 1 .. Len(q) /\ k \in i + 1 .. Len(z)
        BY <1>2, <2>1
      <4> QED BY <1>3, <3>3, <4>1, <4>2
    <3> QED BY <3>1, <3>3, <3>4, <3>5
  <2>2. CASE i \notin 1 .. Len(q)
    <3> DEFINE n == i - Len(q)
    <3>1. i \in Nat /\ n \in 1 .. Len(r) /\ z[i] = r[n] /\ Len(q) + n = i
      BY <1>2, <1>5, <2>2
    <3> HIDE DEF n
    <3>2. Tag(r[n]) /\ (r[n].kind = "end" => Shut(r, n, r[n].mid, FALSE))
      BY <1>2, <3>1 DEF Sealed
    <3>3. r[n].kind = "init" => \E k \in n + 1 .. Len(r) : Final(r[k], r[n].mid)
      BY <1>2, <3>1 DEF Sealed
    <3>4. ASSUME z[i].kind = "init" PROVE \E k \in i + 1 .. Len(z) : Final(z[k], z[i].mid)
      <4>1. PICK k \in n + 1 .. Len(r) : Final(r[k], r[n].mid)
        BY <3>1, <3>3, <3>4
      <4>2. k \in 1 .. Len(r) /\ Len(q) + k \in i + 1 .. Len(z)
        BY <1>2, <3>1
      <4> QED BY <1>4, <3>1, <4>1, <4>2
    <3>5. ASSUME z[i].kind = "end", NEW j \in 1 .. i - 1, z[j].kind = "init", z[j].mid = z[i].mid
          PROVE  \E k \in j + 1 .. i - 1 : Final(z[k], z[i].mid)
      <4>1. CASE j \in 1 .. Len(q)
        <5>1. z[j] = q[j] /\ j \in DOMAIN q
          BY <1>2, <1>3, <4>1
        <5>2. PICK k \in j + 1 .. Len(q) : Final(q[k], q[j].mid)
          BY <3>5, <5>1 DEF Sealed
        <5>3. k \in 1 .. Len(q) /\ k \in j + 1 .. i - 1
          BY <1>2, <3>1, <4>1
        <5> QED BY <1>3, <3>5, <5>1, <5>2, <5>3
      <4>2. CASE j \notin 1 .. Len(q)
        <5> DEFINE l == j - Len(q)
        <5>0. j \in DOMAIN z
          BY <1>2, <3>1
        <5>1. l \in 1 .. n - 1 /\ z[j] = r[l] /\ Len(q) + l = j
          BY <1>2, <1>5, <3>1, <4>2, <5>0
        <5> HIDE DEF l
        <5>2. PICK k \in l + 1 .. n - 1 : Final(r[k], r[n].mid)
          BY <3>1, <3>2, <3>5, <5>1 DEF Shut
        <5>3. k \in 1 .. Len(r) /\ Len(q) + k \in j + 1 .. i - 1
          BY <1>2, <3>1, <5>1
        <5> QED BY <1>4, <3>1, <5>2, <5>3
      <4> QED BY <4>1, <4>2
    <3>6. z[i].kind = "end" => Shut(z, i, z[i].mid, FALSE)
      BY <3>5 DEF Shut
    <3> QED BY <3>1, <3>2, <3>4, <3>6
  <2> QED BY <2>1, <2>2
<1>7. Sealed(z)
  BY <1>2, <1>6 DEF Sealed
<1> QED BY <1>7 DEF z

\* The chunks of a complete file: the tagged one is the last.
LEMMA ReplaySealed ==
    ASSUME NEW f, FileRow(f), Chunks - 1 \in f.chunks
    PROVE  Sealed(Replay(f)) /\ \A j \in DOMAIN Replay(f) : Marks(Replay(f)[j]) => Replay(f)[j].mid = f.init.mid
<1> DEFINE g == CHOOSE h : h = [k \in 0 .. Chunks |->
                   IF k = 0 THEN <<>>
                   ELSE IF k - 1 \in f.chunks
                        THEN Append(h[k - 1], Frame("chunk", f.init.mid, k - 1, 0, k = Chunks))
                        ELSE h[k - 1]]
           i == [f.init EXCEPT !.on = TRUE]
           m == f.init.mid
           e == Frame("end", m, 0, 0, FALSE)
           c(k) == Frame("chunk", m, k - 1, 0, k = Chunks)
           Good(s) == Listed(s) /\ \A j \in DOMAIN s : s[j].kind = "chunk" /\ Tag(s[j])
<1>1. Replay(f) = <<i>> \o g[Chunks] \o <<e>>
  BY DEF Replay
<1>2. Chunks \in Nat /\ Chunks > 0
  BY ChunksAssumption
<1>3. Chunked(g, f, Chunks)
  <2>1. \E h : Chunked(h, f, Chunks)
    BY <1>2, ChunkedExists
  <2>2. g = CHOOSE h : Chunked(h, f, Chunks)
    BY DEF Chunked
  <2> HIDE DEF g
  <2> QED BY <2>1, <2>2
<1> HIDE DEF g
<1>4. i.kind = "init" /\ i.mid = m
  BY DEF FileRow, Frames
<1>5. e.kind = "end" /\ e.mid = m
  BY DEF Frame
<1>6. \A k \in Nat : c(k).kind = "chunk" /\ c(k).mid = m /\ Tag(c(k)) /\ (k = Chunks => Final(c(k), m))
  BY DEF Frame, Tag, Final
<1>7. g[0] = <<>> /\ \A k \in 1 .. Chunks : IF k - 1 \in f.chunks THEN Plus(g[k - 1], c(k), g[k])
                                              ELSE g[k] = g[k - 1]
  <2>1. g[0] = <<>>
    BY <1>2, <1>3 DEF Chunked
  <2>2. ASSUME NEW k \in 1 .. Chunks
        PROVE  IF k - 1 \in f.chunks THEN Plus(g[k - 1], c(k), g[k]) ELSE g[k] = g[k - 1]
    <3> DEFINE x == c(k)
    <3>1. k \in 0 .. Chunks /\ k # 0
      BY <1>2
    <3>2. g[k] = IF k - 1 \in f.chunks THEN Append(g[k - 1], x) ELSE g[k - 1]
      BY <1>3, <3>1 DEF Chunked
    <3> HIDE DEF x
    <3>3. IF k - 1 \in f.chunks THEN Plus(g[k - 1], x, g[k]) ELSE g[k] = g[k - 1]
      BY <3>2, Zenon DEF Plus
    <3> QED BY <3>3 DEF x
  <2> QED BY <2>1, <2>2
<1> HIDE DEF i, e, c, m
<1>8. \A k \in 0 .. Chunks : Good(g[k])
  <2> DEFINE T == {k \in 0 .. Chunks : ~Good(g[k])}
  <2> SUFFICES ASSUME T # {} PROVE FALSE
    OBVIOUS
  <2>1. T \subseteq Nat
    BY <1>2
  <2>2. PICK n \in T : \A k \in T : n <= k
    BY <2>1, Least
  <2>3. n \in 0 .. Chunks /\ ~Good(g[n])
    OBVIOUS
  <2>4. \A k \in 0 .. Chunks : k < n => Good(g[k])
    BY <1>2, <2>2
  <2> HIDE DEF T
  <2>5. n # 0
    <3>1. <<>> \in Seq({}) /\ DOMAIN <<>> = {}
      OBVIOUS
    <3>2. Good(<<>>)
      BY <3>1 DEF Listed
    <3> QED BY <1>7, <2>3, <3>2
  <2>6. n \in 1 .. Chunks /\ n - 1 \in 0 .. Chunks /\ n - 1 < n /\ n \in Nat
    BY <1>2, <2>3, <2>5
  <2>7. Good(g[n - 1])
    BY <2>4, <2>6
  <2>8. g[n] # g[n - 1]
    BY <2>3, <2>7
  <2>9. Plus(g[n - 1], c(n), g[n])
    BY <1>7, <2>6, <2>8
  <2>10. More(g[n - 1], c(n), g[n])
    BY <2>7, <2>9, ListedMore, Zenon
  <2>11. \A j \in DOMAIN g[n] : (j \in DOMAIN g[n - 1] /\ g[n][j] = g[n - 1][j]) \/ g[n][j] = c(n)
    BY <2>10 DEF More
  <2>12. Good(g[n])
    BY <1>6, <2>6, <2>7, <2>10, <2>11 DEF More
  <2> QED BY <2>3, <2>12
<1> DEFINE q == g[Chunks]
<1>9. Good(q) /\ Len(q) \in Nat /\ Len(q) > 0 /\ Final(q[Len(q)], m)
  <2>1. Good(q) /\ Good(g[Chunks - 1]) /\ Chunks \in 1 .. Chunks
    BY <1>2, <1>8
  <2>2. Plus(g[Chunks - 1], c(Chunks), q)
    BY <1>7, <2>1
  <2>3. More(g[Chunks - 1], c(Chunks), q)
    BY <2>1, <2>2, ListedMore, Zenon
  <2> QED BY <1>2, <1>6, <2>1, <2>3 DEF More
<1> HIDE DEF q
<1> DEFINE a == <<i>> \o q
           z == a \o <<e>>
<1>10. Listed(<<i>>) /\ Len(<<i>>) = 1 /\ <<i>>[1] = i /\ Listed(<<e>>) /\ Len(<<e>>) = 1 /\ <<e>>[1] = e
  BY FrameAlone
<1>11. Joint(<<i>>, q, a)
  BY <1>9, <1>10, ListedJoin
<1> HIDE DEF a
<1>12. Joint(a, <<e>>, z)
  BY <1>10, <1>11, ListedJoin DEF Joint
<1> HIDE DEF z
<1>13. /\ Listed(z) /\ DOMAIN z = 1 .. Len(q) + 2 /\ Len(z) = Len(q) + 2
       /\ z[1] = i /\ z[Len(q) + 2] = e /\ \A j \in 1 .. Len(q) : z[j + 1] = q[j]
  <2>1. Len(a) = Len(q) + 1 /\ a[1] = i /\ \A j \in 1 .. Len(q) : a[1 + j] = q[j]
    BY <1>9, <1>10, <1>11 DEF Joint
  <2>2. Listed(z) /\ Len(z) = Len(a) + 1 /\ DOMAIN z = 1 .. Len(a) + 1 /\ z[Len(a) + 1] = e
        /\ \A j \in 1 .. Len(a) : z[j] = a[j]
    BY <1>10, <1>12 DEF Joint
  <2>3. Len(a) + 1 = Len(q) + 2
    BY <1>9, <2>1
  <2>4. ASSUME NEW j \in 1 .. Len(q) PROVE z[j + 1] = q[j]
    <3>1. j + 1 \in 1 .. Len(a) /\ 1 + j = j + 1
      BY <1>9, <2>1
    <3> QED BY <2>1, <2>2, <3>1
  <2>5. z[1] = i
    <3>1. 1 \in 1 .. Len(a)
      BY <1>9, <2>1
    <3> QED BY <2>1, <2>2, <3>1
  <2> QED BY <2>2, <2>3, <2>4, <2>5
<1>14. Final(z[Len(q) + 1], m)
  <2>1. Len(q) \in 1 .. Len(q)
    BY <1>9
  <2> QED BY <1>9, <1>13, <2>1
<1>15. ASSUME NEW j \in DOMAIN z, j # 1, j # Len(q) + 2 PROVE z[j].kind = "chunk" /\ Tag(z[j])
  <2> DEFINE n == j - 1
  <2>1. n \in 1 .. Len(q) /\ n + 1 = j
    BY <1>9, <1>13, <1>15
  <2> HIDE DEF n
  <2>2. z[j] = q[n]
    BY <1>13, <2>1
  <2>3. n \in DOMAIN q
    BY <1>9, <2>1, ListedIn
  <2> QED BY <1>9, <2>2, <2>3
<1>16. ASSUME NEW j \in DOMAIN z
       PROVE  /\ Tag(z[j])
              /\ z[j].kind = "end" => Shut(z, j, z[j].mid, FALSE)
              /\ z[j].kind = "init" => \E k \in j + 1 .. Len(z) : Final(z[k], z[j].mid)
  <2>1. CASE j = 1
    <3>1. Len(q) + 1 \in j + 1 .. Len(z)
      BY <1>9, <1>13, <2>1
    <3> QED BY <1>4, <1>13, <1>14, <2>1, <3>1 DEF Tag
  <2>2. CASE j = Len(q) + 2
    <3>1. \A l \in 1 .. j - 1 : z[l].kind = "init" => Len(q) + 1 \in l + 1 .. j - 1
      <4> SUFFICES ASSUME NEW l \in 1 .. j - 1, z[l].kind = "init" PROVE Len(q) + 1 \in l + 1 .. j - 1
        OBVIOUS
      <4>1. l \in DOMAIN z /\ l # Len(q) + 2
        BY <1>9, <1>13, <2>2
      <4>2. l = 1
        BY <1>15, <4>1
      <4> QED BY <1>9, <2>2, <4>2
    <3>2. Shut(z, j, m, FALSE)
      BY <1>14, <3>1 DEF Shut
    <3> QED BY <1>5, <1>13, <2>2, <3>2 DEF Tag
  <2>3. CASE j # 1 /\ j # Len(q) + 2
    BY <1>15, <2>3
  <2> QED BY <2>1, <2>2, <2>3
<1>17. Sealed(z)
  BY <1>13, <1>16 DEF Sealed
<1>18. \A j \in DOMAIN z : Marks(z[j]) => z[j].mid = m
  BY <1>4, <1>5, <1>13, <1>15 DEF Marks
<1> QED BY <1>1, <1>17, <1>18 DEF z, a, q, m

LEMMA DoneJoin ==
    ASSUME NEW q, Listed(q), NEW r, Listed(r), NEW F, DoneIn(q, F), DoneIn(r, F)
    PROVE  DoneIn(q \o r, F)
<1> DEFINE z == q \o r
<1>1. Joint(q, r, z)
  BY ListedJoin
<1> HIDE DEF z
<1>2. \A i \in DOMAIN z : (i \in DOMAIN q /\ z[i] = q[i]) \/ \E j \in DOMAIN r : z[i] = r[j]
  BY <1>1 DEF Joint
<1>3. DoneIn(z, F)
  BY <1>2 DEF DoneIn
<1> QED BY <1>3 DEF z

\* All files the relay has for u.
LEMMA ReplayAllSealed ==
    ASSUME NEW u, NEW F, IsFiniteSet(F), \A f \in F : FileRow(f), Stocked(F),
           NEW have, NEW rows \in ByTime(pending_files_for(F, u, have))
    PROVE  /\ Sealed(ReplayAll(rows))
           /\ DoneIn(ReplayAll(rows), pending_files_for(F, u, have))
<1> DEFINE P == pending_files_for(F, u, have)
           N == Cardinality(P)
           n == Len(rows)
           g == CHOOSE h : h = [k \in 0 .. n |-> IF k = 0 THEN <<>> ELSE h[k - 1] \o Replay(rows[k])]
<1>1. P \subseteq F /\ \A f \in P : f.done
  BY DEF pending_files_for
<1>2. IsFiniteSet(P)
  BY <1>1, FS_Subset
<1>3. N \in Nat
  BY <1>2, FS_CardinalityType
<1>4. rows \in [1 .. N -> P]
  BY DEF ByTime
<1>5. ReplayAll(rows) = g[n]
  BY DEF ReplayAll
<1> HIDE DEF P, N
<1>6. n \in Nat /\ \A k \in 1 .. n : rows[k] \in P
  <2>1. rows \in Seq(P)
    BY <1>3, <1>4
  <2> QED BY <2>1
<1>7. Replayed(g, rows, n)
  <2>1. \E h : Replayed(h, rows, n)
    BY <1>6, ReplayedExists
  <2>2. g = CHOOSE h : Replayed(h, rows, n)
    BY DEF Replayed
  <2> HIDE DEF g
  <2> QED BY <2>1, <2>2
<1> HIDE DEF g, n
<1> DEFINE Good(q) == Sealed(q) /\ DoneIn(q, P)
<1>8. ASSUME NEW f \in P PROVE Good(Replay(f))
  <2>1. FileRow(f) /\ Chunks - 1 \in f.chunks
    BY <1>1 DEF Stocked
  <2>2. Sealed(Replay(f)) /\ \A j \in DOMAIN Replay(f) : Marks(Replay(f)[j]) => Replay(f)[j].mid = f.init.mid
    BY <2>1, ReplaySealed
  <2> QED BY <1>1, <2>2 DEF DoneIn
<1>9. \A k \in 0 .. n : Good(g[k])
  <2> DEFINE T == {k \in 0 .. n : ~Good(g[k])}
  <2> SUFFICES ASSUME T # {} PROVE FALSE
    OBVIOUS
  <2>1. T \subseteq Nat
    BY <1>6
  <2>2. PICK m \in T : \A k \in T : m <= k
    BY <2>1, Least
  <2>3. m \in 0 .. n /\ ~Good(g[m])
    OBVIOUS
  <2>4. \A k \in 0 .. n : k < m => Good(g[k])
    BY <1>6, <2>2
  <2> HIDE DEF T
  <2>5. Good(<<>>)
    <3>1. <<>> \in Seq({}) /\ DOMAIN <<>> = {}
      OBVIOUS
    <3> QED BY <3>1 DEF Sealed, Listed, DoneIn
  <2>6. m # 0
    BY <1>6, <1>7, <2>3, <2>5 DEF Replayed
  <2>7. m \in 1 .. n /\ m - 1 \in 0 .. n /\ m - 1 < m
    BY <1>6, <2>3, <2>6
  <2>8. Good(g[m - 1]) /\ Good(Replay(rows[m]))
    BY <1>6, <1>8, <2>4, <2>7
  <2>9. g[m] = g[m - 1] \o Replay(rows[m])
    BY <1>7, <2>3, <2>6 DEF Replayed
  <2> DEFINE q == g[m - 1]
             r == Replay(rows[m])
  <2>10. Good(q) /\ Good(r) /\ g[m] = q \o r
    BY <2>8, <2>9
  <2> HIDE DEF q, r
  <2>11. Sealed(q \o r)
    BY <2>10, SealedJoin
  <2>12. DoneIn(q \o r, P)
    BY <2>10, DoneJoin DEF Sealed
  <2> QED BY <2>3, <2>10, <2>11, <2>12
<1>10. Good(g[n])
  BY <1>6, <1>9
<1> QED BY <1>5, <1>10 DEF P

-----------------------------------------------------------------------------

-----------------------------------------------------------------------------
(* The ticks of files.                                                      *)

\* The author writes.
LEMMA KinWrites ==
    ASSUME NEW o, Listed(o), NEW b, NEW n \in Nat, NEW F, Kin(o, b, n, F), NEW k \in Nat,
           NEW t, Listed(t), Dates(<<>>, t, n, k)
    PROVE  Kin(o \o t, b, k, F)
<1> DEFINE p == o \o t
<1>1. Joint(o, t, p)
  BY ListedJoin
<1> HIDE DEF p
<1>2. Len(<<>>) = 0 /\ DOMAIN t = 1 .. Len(t) /\ Len(o) \in Nat /\ Len(t) \in Nat /\ DOMAIN o = 1 .. Len(o)
  BY <1>1 DEF Joint
<1>3. /\ n <= k
      /\ \A i \in DOMAIN t : Marks(t[i]) => t[i].mid[3] \in n .. k - 1
      /\ \A i, j \in DOMAIN t : i < j /\ t[i].kind = "end" /\ Marks(t[j]) => t[i].mid # t[j].mid
  BY <1>2 DEF Dates
<1>4. \A i \in DOMAIN p : \/ i \in DOMAIN o /\ p[i] = o[i]
                          \/ i > Len(o) /\ i - Len(o) \in DOMAIN t /\ p[i] = t[i - Len(o)]
  BY <1>1, <1>2 DEF Joint
<1>5. /\ \A i \in DOMAIN o : Marks(o[i]) => o[i].mid[3] \in 0 .. n - 1
      /\ \A g \in F : g.init.mid[3] \in 0 .. n - 1
  BY DEF Kin, Dated
<1>6. Dated(p, k)
  <2> SUFFICES ASSUME NEW i \in DOMAIN p, Marks(p[i]) PROVE p[i].mid[3] \in 0 .. k - 1
    BY DEF Dated
  <2>1. p[i].mid[3] \in 0 .. n - 1 \/ p[i].mid[3] \in n .. k - 1
    BY <1>3, <1>4, <1>5
  <2> QED BY <1>3, <2>1
<1>7. Once(p)
  <2> SUFFICES ASSUME NEW i \in DOMAIN p, NEW j \in DOMAIN p, i < j, p[i].kind = "end", Marks(p[j])
               PROVE  p[i].mid # p[j].mid
    BY DEF Once
  <2>0. Marks(p[i])
    BY DEF Marks
  <2>1. CASE i \in DOMAIN o /\ p[i] = o[i] /\ j \in DOMAIN o /\ p[j] = o[j]
    BY <2>1 DEF Kin, Once
  <2>2. CASE i \in DOMAIN o /\ p[i] = o[i] /\ j - Len(o) \in DOMAIN t /\ p[j] = t[j - Len(o)]
    <3>1. p[i].mid[3] \in 0 .. n - 1
      BY <1>5, <2>0, <2>2
    <3>2. p[j].mid[3] \in n .. k - 1
      BY <1>3, <2>2
    <3> QED BY <3>1, <3>2
  <2>3. CASE /\ i > Len(o) /\ i - Len(o) \in DOMAIN t /\ p[i] = t[i - Len(o)]
             /\ j - Len(o) \in DOMAIN t /\ p[j] = t[j - Len(o)]
    <3> DEFINE x == i - Len(o)
               y == j - Len(o)
    <3>1. x \in DOMAIN t /\ y \in DOMAIN t /\ p[i] = t[x] /\ p[j] = t[y]
      BY <2>3
    <3>2. x < y
      BY <1>1, <1>2 DEF Joint
    <3> HIDE DEF x, y
    <3> QED BY <1>3, <3>1, <3>2
  <2>4. CASE i > Len(o) /\ j \in DOMAIN o
    <3>1. j \in 1 .. Len(o) /\ i \in 1 .. Len(o) + Len(t)
      BY <1>1, <1>2, <2>4 DEF Joint
    <3> QED BY <1>2, <2>4, <3>1
  <2> QED BY <1>4, <2>1, <2>2, <2>3, <2>4
<1>8. NotDone(p, F)
  <2> SUFFICES ASSUME NEW i \in DOMAIN p, NEW g \in F, Marks(p[i]), g.done PROVE p[i].mid # g.init.mid
    BY DEF NotDone
  <2>1. CASE i \in DOMAIN o /\ p[i] = o[i]
    BY <2>1 DEF Kin, NotDone
  <2>2. CASE i - Len(o) \in DOMAIN t /\ p[i] = t[i - Len(o)]
    <3>1. p[i].mid[3] \in n .. k - 1 /\ g.init.mid[3] \in 0 .. n - 1
      BY <1>3, <1>5, <2>2
    <3> QED BY <3>1
  <2> QED BY <1>4, <2>1, <2>2
<1>9. \A g \in F : g.init.mid[3] \in 0 .. k - 1
  BY <1>3, <1>5
<1>10. Kin(p, b, k, F)
  BY <1>6, <1>7, <1>8, <1>9 DEF Kin
<1> QED BY <1>10 DEF p

\* Frames are lost, and time goes on.
LEMMA KinLoses ==
    ASSUME NEW o, NEW b, NEW n \in Nat, NEW F, Kin(o, b, n, F), NEW k \in Nat, n <= k
    PROVE  Kin(<<>>, b, k, F) /\ Kin(o, <<>>, k, F)
<1>1. DOMAIN <<>> = {}
  OBVIOUS
<1>2. Dated(o, k) /\ \A g \in F : g.init.mid[3] \in 0 .. k - 1
  <2>1. \A x \in 0 .. n - 1 : x \in 0 .. k - 1
    OBVIOUS
  <2> QED BY <2>1 DEF Kin, Dated
<1>3. Dated(<<>>, k) /\ Once(<<>>) /\ NotDone(<<>>, F) /\ DoneIn(<<>>, F) /\ Tailed(<<>>)
  BY <1>1 DEF Dated, Once, NotDone, DoneIn, Tailed
<1> QED BY <1>2, <1>3 DEF Kin

\* The relay takes a frame.
LEMMA KinTakes ==
    ASSUME NEW S, NEW o \in Seq(S), o # <<>>, NEW b, NEW n, NEW F, Kin(o, b, n, F),
           NEW G, Feeds(Head(o), F, G)
    PROVE  Kin(Tail(o), b, n, G)
<1> DEFINE f == Head(o)
           t == Tail(o)
<1>1. /\ f = o[1] /\ 1 \in DOMAIN o
      /\ \A i \in DOMAIN t : i \in Nat /\ i + 1 \in DOMAIN o /\ i + 1 > 1 /\ t[i] = o[i + 1]
  OBVIOUS
<1>2. Feeds(f, F, G)
  OBVIOUS
<1> HIDE DEF f, t
<1>3. Dated(o, n) /\ Once(o) /\ NotDone(o, F) /\ DoneIn(b, F) /\ Tailed(b) /\ \A g \in F : g.init.mid[3] \in 0 .. n - 1
  BY DEF Kin
<1>4. Dated(t, n)
  BY <1>1, <1>3 DEF Dated
<1>5. Once(t)
  <2> SUFFICES ASSUME NEW i \in DOMAIN t, NEW j \in DOMAIN t, i < j, t[i].kind = "end", Marks(t[j])
               PROVE  t[i].mid # t[j].mid
    BY DEF Once
  <2>1. i + 1 \in DOMAIN o /\ j + 1 \in DOMAIN o /\ i + 1 < j + 1 /\ t[i] = o[i + 1] /\ t[j] = o[j + 1]
    BY <1>1
  <2> QED BY <1>3, <2>1 DEF Once
<1>6. \A g \in G : g.init.mid[3] \in 0 .. n - 1
  <2> SUFFICES ASSUME NEW g \in G PROVE g.init.mid[3] \in 0 .. n - 1
    OBVIOUS
  <2>1. CASE \E h \in F : g.init = h.init
    BY <1>3, <2>1
  <2>2. CASE f.kind = "init" /\ g.init = f
    BY <1>1, <1>3, <2>2 DEF Dated, Marks
  <2> QED BY <1>2, <2>1, <2>2 DEF Feeds
<1>7. NotDone(t, G)
  <2> SUFFICES ASSUME NEW i \in DOMAIN t, NEW g \in G, Marks(t[i]), g.done PROVE t[i].mid # g.init.mid
    BY DEF NotDone
  <2> DEFINE k == i + 1
  <2>1. k \in DOMAIN o /\ t[i] = o[k] /\ 1 < k
    BY <1>1
  <2> HIDE DEF k
  <2>2. CASE \E h \in F : h.done /\ g.init = h.init
    BY <1>3, <2>1, <2>2 DEF NotDone
  <2>3. CASE f.kind = "end" /\ g.init.mid = f.mid
    BY <1>1, <1>3, <2>1, <2>3 DEF Once
  <2> QED BY <1>2, <2>2, <2>3 DEF Feeds
<1>8. DoneIn(b, G)
  <2> SUFFICES ASSUME NEW i \in DOMAIN b, Marks(b[i]) PROVE \E g \in G : g.done /\ g.init.mid = b[i].mid
    BY DEF DoneIn
  <2>1. PICK h \in F : h.done /\ h.init.mid = b[i].mid
    BY <1>3 DEF DoneIn
  <2>2. f.kind = "init" => f.mid # h.init.mid
    BY <1>1, <1>3, <2>1 DEF NotDone, Marks
  <2> QED BY <1>2, <2>1, <2>2 DEF Feeds
<1>9. Kin(t, b, n, G)
  BY <1>3, <1>4, <1>5, <1>6, <1>7, <1>8 DEF Kin
<1> QED BY <1>9 DEF t

\* A fetched frame is sent.
LEMMA KinServes ==
    ASSUME NEW S, NEW o, NEW b \in Seq(S), b # <<>>, NEW n, NEW F, Kin(o, b, n, F)
    PROVE  Kin(o, Tail(b), n, F)
<1> DEFINE t == Tail(b)
<1>1. /\ Len(b) \in Nat /\ Len(t) = Len(b) - 1 /\ DOMAIN t = 1 .. Len(b) - 1 /\ DOMAIN b = 1 .. Len(b)
      /\ \A i \in 1 .. Len(b) - 1 : t[i] = b[i + 1]
  OBVIOUS
<1> HIDE DEF t
<1>2. \A i \in DOMAIN t : i + 1 \in DOMAIN b /\ t[i] = b[i + 1]
  BY <1>1
<1>3. DoneIn(t, F)
  BY <1>2 DEF Kin, DoneIn
<1>4. Tailed(t)
  <2> SUFFICES ASSUME NEW i \in DOMAIN t, t[i].kind = "init" PROVE \E k \in i + 1 .. Len(t) : Final(t[k], t[i].mid)
    BY DEF Tailed
  <2>1. PICK k \in i + 1 + 1 .. Len(b) : Final(b[k], t[i].mid)
    BY <1>2 DEF Kin, Tailed
  <2> DEFINE l == k - 1
  <2>2. l \in i + 1 .. Len(t) /\ l \in 1 .. Len(b) - 1 /\ l + 1 = k
    BY <1>1
  <2> HIDE DEF l
  <2>3. t[l] = b[k]
    BY <1>1, <2>2
  <2> QED BY <2>1, <2>2, <2>3
<1>5. Kin(o, t, n, F)
  BY <1>3, <1>4 DEF Kin
<1> QED BY <1>5 DEF t

\* Frames are fetched.
LEMMA KinFetch ==
    ASSUME NEW o, NEW b, NEW n, NEW F, Kin(o, b, n, F), NEW q, Sealed(q), DoneIn(q, F)
    PROVE  Kin(o, q, n, F)
BY DEF Kin, Sealed, Tailed

-----------------------------------------------------------------------------
(* The tracks are kept.                                                     *)

\* The author writes.
LEMMA TrackWrites ==
    ASSUME NEW o, Listed(o), NEW n \in Nat, NEW e, NEW w, NEW b, NEW on, NEW von, NEW X, NEW F,
           Track(o, n, e, w, b, on, von, X, F), NEW t, Listed(t), Ships(<<>>, t),
           NEW k \in Nat, Dates(<<>>, t, n, k)
    PROVE  Track(o \o t, k, e, w, b, on, von, X, F)
BY LaneWrites, KinWrites DEF Track

\* The reader does something else, and files may be cut.
LEMMA TrackBeside ==
    ASSUME NEW o, NEW n, NEW e, NEW w, Listed(w), NEW b, Listed(b), NEW on, NEW von, NEW X, NEW F,
           Track(o, n, e, w, b, on, von, X, F), NEW d, \A m : Str(d, m) => Str(e, m), Filed(e.hist, d.hist),
           NEW Y, X \subseteq Y
    PROVE  Track(o, n, d, w, b, on, von, Y, F)
BY LaneBeside DEF Track

\* What the two ways say of the clients and the frames.
LEMMA LaneIn ==
    ASSUME Inv, NEW u \in Users
    PROVE  LET v == Other(u) IN
           /\ Neat(client[u]) /\ client[u].tx = <<>> /\ Len(client[u].outbox) \in Nat /\ client[u].ids \in Nat
           /\ out[u] \in Seq(Frames(u)) /\ wire[v] \in Seq(Frames(u))
           /\ login[v].batch \in Seq(Frames(u)) /\ stored[v] \in Seq(Frames(u)) /\ NoHello(wire[v])
           /\ v \notin online => wire[v] = <<>> /\ login[v].batch = <<>>
           /\ ~NoHello(out[u]) => u \notin online
           /\ DOMAIN client = Users /\ DOMAIN out = Users /\ DOMAIN wire = Users /\ DOMAIN stored = Users
           /\ DOMAIN login = Users /\ DOMAIN login[v] = {"stage", "batch", "have"}
<1> DEFINE v == Other(u)
<1>0. v \in Users /\ Other(v) = u
  BY Others
<1>1. Way(u, client[u], out[u], client[v], wire[v], Kept(login[v], stored[v]), online, ghost, InitNs(files, u))
      /\ Held
  BY DEF Inv, WayOf
<1> HIDE DEF v
<1>2. Shaped(u, client[u], out[u], client[v], wire[v], Kept(login[v], stored[v]), InitNs(files, u))
      /\ Linked(u, client[u], out[u], wire[v], online)
  BY <1>1 DEF Way
<1>3. Typed(u, client[u]) /\ client[u].tx = <<>>
  BY <1>2 DEF Shaped, Sound
<1>4. /\ DOMAIN client[u] = Fields /\ client[u].hist \in Seq(Rows(u)) /\ client[u].outbox \in Seq(Items(u))
      /\ client[u].tx \in Seq(Frames(u)) /\ client[u].ids \in Nat
  BY <1>3 DEF Typed
<1>5. \A r \in Rows(u) : RowLike(r)
  BY DEF Rows, RowLike
<1>6. Neat(client[u])
  BY <1>4, <1>5 DEF Neat, Ruled, Listed
<1>7. Len(client[u].outbox) \in Nat
  BY <1>4
<1>8. Waiting(v, login[v], stored[v]) /\ (login[v].stage # "none" => v \in online)
  BY <1>0, <1>1 DEF Held
<1>9. /\ login[v].batch \in Seq(Frames(u)) /\ stored[v] \in Seq(Frames(u))
      /\ DOMAIN login[v] = {"stage", "batch", "have"} /\ (v \notin online => login[v].batch = <<>>)
  BY <1>0, <1>8 DEF Waiting
<1>10. /\ out[u] \in Seq(Frames(u)) /\ wire[v] \in Seq(Frames(u)) /\ NoHello(wire[v])
       /\ (v \notin online => wire[v] = <<>>) /\ (~NoHello(out[u]) => u \notin online)
  BY <1>2 DEF Shaped, Linked, v
<1> QED BY <1>1, <1>3, <1>4, <1>6, <1>7, <1>9, <1>10 DEF Held, v

\* The two tracks, before and after.
LEMMA Lanes ==
    ASSUME NEW u \in Users, NEW v, v = Other(u), FileInv
    PROVE  /\ Track(out[u], client[u].ids, client[v], wire[v], login[v].batch, u \in online, v \in online,
               ghost.cut, FilesOf(files, u))
           /\ Track(out[v], client[v].ids, client[u], wire[u], login[u].batch, v \in online, u \in online,
               ghost.cut, FilesOf(files, v))
           /\ Stocked(files) /\ NoFile(stored[u]) /\ NoFile(stored[v])
<1>1. v \in Users /\ Other(v) = u
  BY Others
<1> QED BY <1>1 DEF FileInv, LaneOf

LEMMA LanesKept ==
    ASSUME NEW u \in Users, NEW v, v = Other(u), Stocked(files'), NoFile(stored'[u]), NoFile(stored'[v]),
           Track(out'[u], client'[u].ids, client'[v], wire'[v], login'[v].batch, u \in online', v \in online',
                 ghost'.cut, FilesOf(files', u)),
           Track(out'[v], client'[v].ids, client'[u], wire'[u], login'[u].batch, v \in online', u \in online',
                 ghost'.cut, FilesOf(files', v))
    PROVE  FileInv'
<1>1. Other(v) = u /\ \A w \in Users : w = u \/ w = v
  BY Others
<1>2. LaneOf(u)' /\ LaneOf(v)'
  BY <1>1 DEF LaneOf, FilesOf
<1>3. NoFile(stored[u])' /\ NoFile(stored[v])'
  OBVIOUS
<1> QED BY <1>1, <1>2, <1>3 DEF FileInv

\* A method's result takes the place of the client.
LEMMA DoesLeaves ==
    ASSUME Inv, NEW u \in Users, NEW v, v = Other(u), NEW d, Neat(d), Does(u, d)
    PROVE  /\ client'[v] = client[v] /\ out'[v] = out[v] /\ out'[u] = out[u] \o d.tx
           /\ client'[u].hist = d.hist /\ client'[u].incoming = d.incoming /\ client'[u].ids = d.ids
<1>1. v \in Users /\ v # u
  BY Others
<1>2. DOMAIN client = Users /\ DOMAIN out = Users /\ DOMAIN d = Fields
  BY DEF Inv, Held, Neat
<1>3. client' = [client EXCEPT ![u] = [d EXCEPT !.tx = <<>>]] /\ out' = [out EXCEPT ![u] = @ \o d.tx]
  BY DEF Does
<1>4. client'[u] = [d EXCEPT !.tx = <<>>] /\ out'[u] = out[u] \o d.tx /\ client'[v] = client[v] /\ out'[v] = out[v]
  BY <1>1, <1>2, <1>3
<1> QED BY <1>2, <1>4 DEF Fields


\* A method that reads no frame of a file.
LEMMA WorksKept ==
    ASSUME Inv, FileInv, NEW u \in Users, NEW d, Does(u, d), Works(client[u], d),
           UNCHANGED Network, ghost'.cut = ghost.cut
    PROVE  FileInv'
<1> DEFINE v == Other(u)
<1>1. v = Other(u) /\ v \in Users /\ Other(v) = u
  BY Others
<1> HIDE DEF v
<1>2. /\ Track(out[u], client[u].ids, client[v], wire[v], login[v].batch, u \in online, v \in online,
            ghost.cut, FilesOf(files, u))
      /\ Track(out[v], client[v].ids, client[u], wire[u], login[u].batch, v \in online, u \in online,
            ghost.cut, FilesOf(files, v))
      /\ Stocked(files) /\ NoFile(stored[u]) /\ NoFile(stored[v])
  BY <1>1, Lanes, Zenon
<1>3. /\ Neat(d) /\ Ships(<<>>, d.tx) /\ Filed(client[u].hist, d.hist) /\ d.incoming = client[u].incoming
      /\ Listed(d.tx) /\ Dates(<<>>, d.tx, client[u].ids, d.ids) /\ client[u].ids \in Nat /\ d.ids \in Nat
  BY LaneIn DEF Works, Carries, Neat
<1>4. /\ client'[v] = client[v] /\ out'[v] = out[v] /\ out'[u] = out[u] \o d.tx
      /\ client'[u].hist = d.hist /\ client'[u].incoming = d.incoming /\ client'[u].ids = d.ids
  BY <1>1, <1>3, DoesLeaves, Zenon
<1>5. wire' = wire /\ files' = files /\ online' = online /\ login' = login /\ stored' = stored
  BY DEF Network
<1>6. Listed(out[u]) /\ Listed(wire[u]) /\ Listed(login[u].batch)
  <2>1. out[u] \in Seq(Frames(u)) /\ wire[u] \in Seq(Frames(v)) /\ login[u].batch \in Seq(Frames(v))
    BY <1>1, LaneIn
  <2> QED BY <2>1 DEF Listed
<1>7. Track(out'[u], client'[u].ids, client[v], wire[v], login[v].batch, u \in online, v \in online, ghost.cut,
            FilesOf(files, u))
  BY <1>2, <1>3, <1>4, <1>6, TrackWrites
<1>8. Track(out[v], client[v].ids, client'[u], wire[u], login[u].batch, v \in online, u \in online, ghost.cut,
            FilesOf(files, v))
  <2>1. /\ \A m : Str(client'[u], m) => Str(client[u], m)
        /\ Filed(client[u].hist, client'[u].hist)
    BY <1>3, <1>4 DEF Str
  <2> QED BY <1>2, <1>6, <2>1, TrackBeside
<1> QED BY <1>1, <1>2, <1>4, <1>5, <1>7, <1>8, LanesKept

\* What the user does, and what happens at the client without a frame.
LEMMA UserFiles ==
    ASSUME Inv, FileInv, NEW u \in Users,
           User(u) \/ SourceVanishes(u) \/ Verify(u) \/ Connect(u) \/ Hello(u)
    PROVE  FileInv'
<1> DEFINE c == client[u]
<1>1. Neat(c) /\ Len(c.outbox) \in Nat /\ DOMAIN ghost = GhostFields
  BY LaneIn DEF Inv, Held
<1>2. ASSUME NEW d, Works(c, d), Does(u, d), UNCHANGED Network,
             ghost' = ghost \/ \E A : ghost' = [ghost EXCEPT !.asked = A]
      PROVE  FileInv'
  <2>1. ghost'.cut = ghost.cut
    BY <1>1, <1>2 DEF GhostFields
  <2> QED BY <1>2, <2>1, WorksKept
<1> HIDE DEF c
<1>3. Works(c, sendMessage(c, u))
  BY <1>1, SendMessageWorks
<1>4. /\ Works(c, notifyTyping(c)) /\ Works(c, TypingIdle(c)) /\ Works(c, newFile(c, u))
      /\ Works(c, Verified(c, u)) /\ Works(c, completeHello(c, u))
  BY <1>1, OthersWork
<1>5. CASE Compose(u)
  BY <1>2, <1>3, <1>5 DEF Compose, c
<1>6. CASE SendFile(u)
  BY <1>2, <1>4, <1>6 DEF SendFile, c
<1>7. CASE Type(u)
  BY <1>2, <1>4, <1>7 DEF Type, c
<1>8. CASE TypingTimer(u)
  BY <1>2, <1>4, <1>8 DEF TypingTimer, c
<1>9. CASE Switch(u)
  <2>1. Works(c, setActivePeer(c))
    BY <1>1, RestWork
  <2> QED BY <1>2, <1>9, <2>1 DEF Switch, c
<1>10. ASSUME NEW mid, Resend(u, mid) PROVE FileInv'
  <2>1. UNCHANGED <<Network, ghost>> /\ (Does(u, newFile(c, u)) \/ Does(u, sendMessage(c, u)))
    BY <1>10 DEF Resend, c
  <2> QED BY <1>2, <1>3, <1>4, <2>1
<1>11. ASSUME NEW mid, Edit(u, mid) PROVE FileInv'
  <2>1. Works(c, editMessage(c, mid))
    BY <1>1, EditWorks
  <2> QED BY <1>2, <1>11, <2>1 DEF Edit, c
<1>12. ASSUME NEW mid
       PROVE  /\ Works(c, deleteForMe(c, mid)) /\ Works(c, deleteForEveryone(c, mid))
              /\ \A on \in BOOLEAN : Works(c, sendReaction(c, mid, on))
  BY <1>1, MarksWork
<1>13. ASSUME NEW mid, DeleteForMe(u, mid) PROVE FileInv'
  <2> DEFINE A == ghost.asked \cup {<<u, mid>>}
  <2>1. Does(u, deleteForMe(c, mid)) /\ UNCHANGED Network /\ ghost' = [ghost EXCEPT !.asked = A]
    BY <1>13 DEF DeleteForMe, c
  <2> HIDE DEF A
  <2> QED BY <1>2, <1>12, <2>1
<1>14. ASSUME NEW mid, DeleteForEveryone(u, mid) PROVE FileInv'
  <2> DEFINE A == ghost.asked \cup {<<u, mid>>}
  <2>1. /\ Does(u, deleteForEveryone(c, mid)) /\ UNCHANGED Network
        /\ ghost' = [ghost EXCEPT !.asked = A]
    BY <1>14 DEF DeleteForEveryone, c
  <2> HIDE DEF A
  <2> QED BY <1>2, <1>12, <2>1
<1>15. ASSUME NEW mid, NEW on \in BOOLEAN, React(u, mid, on) PROVE FileInv'
  <2>1. Does(u, sendReaction(c, mid, on)) /\ UNCHANGED <<Network, ghost>>
    BY <1>15 DEF React, c
  <2> QED BY <1>2, <1>12, <2>1
<1>16. CASE User(u)
  BY <1>5, <1>6, <1>7, <1>8, <1>9, <1>10, <1>11, <1>13, <1>14, <1>15, <1>16, Zenon DEF User
<1>17. CASE SourceVanishes(u)
  <2>1. Works(c, [c EXCEPT !.gone = TRUE])
    <3>1. DOMAIN c = Fields
      BY <1>1 DEF Neat
    <3> DEFINE d == [c EXCEPT !.gone = TRUE]
    <3>2. DOMAIN d = Fields /\ d.hist = c.hist /\ d.tx = c.tx /\ d.incoming = c.incoming /\ d.ids = c.ids
      BY <3>1 DEF Fields
    <3> HIDE DEF d
    <3>3. Works(c, d)
      BY <1>1, <3>2, WorksRest
    <3> QED BY <3>3 DEF d
  <2> QED BY <1>2, <1>17, <2>1 DEF SourceVanishes, c
<1>18. CASE Verify(u)
  BY <1>2, <1>4, <1>18 DEF Verify, c
<1>19. CASE Connect(u)
  <2>1. Works(c, [c EXCEPT !.up = TRUE])
    <3>1. DOMAIN c = Fields
      BY <1>1 DEF Neat
    <3> DEFINE d == [c EXCEPT !.up = TRUE]
    <3>2. DOMAIN d = Fields /\ d.hist = c.hist /\ d.tx = c.tx /\ d.incoming = c.incoming /\ d.ids = c.ids
      BY <3>1 DEF Fields
    <3> HIDE DEF d
    <3>3. Works(c, d)
      BY <1>1, <3>2, WorksRest
    <3> QED BY <3>3 DEF d
  <2> QED BY <1>2, <1>19, <2>1 DEF Connect, c
<1>20. CASE Hello(u)
  BY <1>2, <1>4, <1>20 DEF Hello, c
<1> QED BY <1>16, <1>17, <1>18, <1>19, <1>20

\* Sequences.
LEMMA AppendJoins ==
    ASSUME NEW S, NEW w \in Seq(S), NEW f \in S
    PROVE  Append(w, f) = w \o <<f>>
<1> DEFINE a == Append(w, f)
           q == <<f>>
           b == w \o q
<1>1. q \in Seq(S) /\ Len(q) = 1 /\ q[1] = f
  OBVIOUS
<1>2. a \in Seq(S) /\ Len(a) = Len(w) + 1 /\ \A i \in 1 .. Len(w) + 1 : a[i] = IF i = Len(w) + 1 THEN f ELSE w[i]
  OBVIOUS
<1> HIDE DEF q
<1>3. b \in Seq(S) /\ Len(b) = Len(w) + 1 /\ \A i \in 1 .. Len(w) + 1 : b[i] = IF i = Len(w) + 1 THEN f ELSE w[i]
  <2>1. b \in Seq(S) /\ Len(b) = Len(w) + Len(q) /\ Len(w) \in Nat
        /\ \A i \in 1 .. Len(w) + Len(q) : b[i] = IF i <= Len(w) THEN w[i] ELSE q[i - Len(w)]
    <3>1. w \in Seq(S) /\ q \in Seq(S)
      BY <1>1
    <3> QED BY <3>1
  <2> HIDE DEF b
  <2>2. b[Len(w) + 1] = f
    BY <1>1, <2>1
  <2> QED BY <1>1, <2>1, <2>2
<1> HIDE DEF a, b
<1>4. a = b
  BY <1>2, <1>3
<1> QED BY <1>4 DEF a, b, q

LEMMA NoFileAppend ==
    ASSUME NEW S, NEW w \in Seq(S), NoFile(w), NEW f \in S, f.kind \notin FileFrames
    PROVE  NoFile(Append(w, f))
<1> DEFINE a == Append(w, f)
<1>1. \A i \in DOMAIN a : (i \in DOMAIN w /\ a[i] = w[i]) \/ a[i] = f
  OBVIOUS
<1> HIDE DEF a
<1>2. NoFile(a)
  BY <1>1 DEF NoFile
<1> QED BY <1>2 DEF a

\* The relay refuses a frame: the others stay in their order.
Dropped(o, t) ==
    \A i \in DOMAIN t : i + 1 \in DOMAIN o /\ t[i] = o[i + 1] /\ \A j \in DOMAIN t : i < j => i + 1 < j + 1

LEMMA TailDropped ==
    ASSUME NEW S, NEW o \in Seq(S), o # <<>>
    PROVE  Dropped(o, Tail(o))
<1> DEFINE t == Tail(o)
<1>1. /\ Len(o) \in Nat /\ DOMAIN t = 1 .. Len(o) - 1 /\ DOMAIN o = 1 .. Len(o)
      /\ \A i \in 1 .. Len(o) - 1 : t[i] = o[i + 1]
  OBVIOUS
<1> HIDE DEF t
<1>2. Dropped(o, t)
  BY <1>1 DEF Dropped
<1> QED BY <1>2 DEF t

LEMMA KinDrops ==
    ASSUME NEW o, NEW b, NEW n, NEW F, Kin(o, b, n, F), NEW t, Dropped(o, t)
    PROVE  Kin(t, b, n, F)
<1>1. Dated(t, n)
  BY DEF Kin, Dated, Dropped
<1>2. Once(t)
  BY DEF Kin, Once, Dropped
<1>3. NotDone(t, F)
  BY DEF Kin, NotDone, Dropped
<1> QED BY <1>1, <1>2, <1>3 DEF Kin

\* Rows a live frame overtakes are no files.
LEMMA OvertakingCut ==
    ASSUME NEW g, DOMAIN g = GhostFields, NEW v, NEW q
    PROVE  DOMAIN Overtaking(g, v, q) = GhostFields /\ Overtaking(g, v, q).cut = g.cut
<1> DEFINE A == g.lost \cup TextItems(stored[v])
           B == g.late \cup TextItems(login[v].batch)
           C == g.unheard \cup Retractions(stored[v])
           h == [g EXCEPT !.lost = A, !.late = B, !.unheard = C]
<1>1. Overtaking(g, v, q) = IF v \notin online \/ q = <<>> THEN g ELSE h
  BY DEF Overtaking
<1> HIDE DEF A, B, C
<1>2. DOMAIN h = GhostFields /\ h.cut = g.cut
  BY DEF GhostFields
<1> HIDE DEF h
<1> QED BY <1>1, <1>2


\* A client reads the next frame.
LEMMA ReadFiles ==
    ASSUME Inv, FileInv, NEW u \in Users, Read(u)
    PROVE  FileInv'
<1> DEFINE v == Other(u)
           f == Head(wire[u])
           d == Received(client[u], u, f)
<1>1. v = Other(u) /\ v \in Users /\ Other(v) = u /\ v # u
  BY Others
<1>2. wire[u] # <<>> /\ f = Head(wire[u]) /\ d = Received(client[u], u, f) /\ Does(u, d)
  BY DEF Read
<1>3. /\ wire' = [wire EXCEPT ![u] = Tail(@)] /\ files' = files /\ online' = online
      /\ login' = login /\ stored' = stored
  BY DEF Read
<1>4. ghost'.cut = ghost.cut
  <2>1. DOMAIN ghost = GhostFields
    BY DEF Inv, Held
  <2> DEFINE L == ghost.lost \cup
                IF f.kind \in TextFrames /\ ~Decrypts(client[u], f) /\ v \in ghost.reused
                THEN {Item(f.mid)} ELSE {}
             O == IF f.kind = "init" /\ client[u].gate = "waiting" THEN ghost.opened \cup {u} ELSE ghost.opened
  <2>2. ghost' = [ghost EXCEPT !.lost = L, !.opened = O]
    BY DEF Read
  <2> HIDE DEF L, O
  <2> QED BY <2>1, <2>2 DEF GhostFields
<1> HIDE DEF v, f, d
<1>5. /\ Track(out[u], client[u].ids, client[v], wire[v], login[v].batch, u \in online, v \in online,
               ghost.cut, FilesOf(files, u))
      /\ Track(out[v], client[v].ids, client[u], wire[u], login[u].batch, v \in online, u \in online,
               ghost.cut, FilesOf(files, v))
      /\ Stocked(files) /\ NoFile(stored[u]) /\ NoFile(stored[v])
  BY <1>1, Lanes, Zenon
<1>6. /\ Neat(client[u]) /\ client[u].tx = <<>> /\ Len(client[u].outbox) \in Nat
      /\ out[u] \in Seq(Frames(u)) /\ DOMAIN wire = Users /\ client[u].ids \in Nat
  BY LaneIn
<1>7. /\ wire[u] \in Seq(Frames(v)) /\ NoHello(wire[u]) /\ (u \notin online => wire[u] = <<>>)
      /\ login[u].batch \in Seq(Frames(v))
  BY <1>1, LaneIn
<1>8. u \in online
  BY <1>2, <1>7
<1>9. f \in Frames(v) /\ 1 \in DOMAIN wire[u] /\ wire[u][1] = f
  BY <1>2, <1>7
<1>10. f.kind \in Kinds /\ f.kind # "hello" /\ Tag(f)
  <2> DEFINE y == wire[u] \o login[u].batch
  <2>1. 1 \in DOMAIN y /\ y[1] = f
    <3> DEFINE a == wire[u]
               b == login[u].batch
    <3>1. a \in Seq(Frames(v)) /\ b \in Seq(Frames(v)) /\ 1 \in DOMAIN a /\ a[1] = f
      BY <1>7, <1>9
    <3> HIDE DEF a, b
    <3>2. 1 \in DOMAIN (a \o b) /\ (a \o b)[1] = f
      BY <3>1
    <3> QED BY <3>2 DEF a, b
  <2>2. Shutting(client[u], y, ghost.cut)
    BY <1>5 DEF Track, Lane
  <2> HIDE DEF y
  <2>3. Tag(f)
    BY <2>1, <2>2 DEF Shutting
  <2> QED BY <1>7, <1>9, <2>3 DEF Frames, NoHello
<1>11. Takes(client[u], d, f)
  BY <1>2, <1>6, <1>10, ReceivedTakes
<1>12. Neat(d) /\ Ships(<<>>, d.tx) /\ Listed(d.tx) /\ Dates(<<>>, d.tx, client[u].ids, d.ids) /\ d.ids \in Nat
  BY <1>6, <1>11 DEF Takes, Neat
<1>13. /\ client'[v] = client[v] /\ out'[v] = out[v] /\ out'[u] = out[u] \o d.tx
       /\ client'[u].hist = d.hist /\ client'[u].incoming = d.incoming /\ client'[u].ids = d.ids
  BY <1>1, <1>2, <1>12, DoesLeaves, Zenon
<1>14. wire'[u] = Tail(wire[u]) /\ wire'[v] = wire[v]
  BY <1>1, <1>3, <1>6
<1>15. Track(out'[u], client'[u].ids, client[v], wire[v], login[v].batch, u \in online, v \in online, ghost.cut,
             FilesOf(files, u))
  <2>1. Listed(out[u])
    BY <1>6 DEF Listed
  <2> QED BY <1>5, <1>6, <1>12, <1>13, <2>1, TrackWrites
<1>16. Track(out[v], client[v].ids, client'[u], wire'[u], login[u].batch, v \in online, u \in online, ghost.cut,
             FilesOf(files, v))
  <2> DEFINE on == v \in online
             X == ghost.cut
             F == FilesOf(files, v)
             t == Tail(wire[u])
             b == login[u].batch
  <2>1. (u \in online) = TRUE
    BY <1>8
  <2>2. Lane(out[v], client[u], wire[u], b, on, TRUE, X, F) /\ Kin(out[v], b, client[v].ids, F)
    BY <1>5, <2>1 DEF Track
  <2>3. Takes(client[u], d, Head(wire[u]))
    BY <1>2, <1>11
  <2> HIDE DEF on, X, F, b
  <2>4. Lane(out[v], d, t, b, on, TRUE, X, F)
    BY <1>2, <1>7, <2>2, <2>3, LaneReads DEF b
  <2>5. Listed(t) /\ Listed(b)
    <3>1. t \in Seq(Frames(v))
      BY <1>2, <1>7
    <3> HIDE DEF t
    <3> QED BY <1>7, <3>1 DEF Listed, b
  <2>6. /\ \A m : Str(client'[u], m) => Str(d, m)
        /\ Filed(d.hist, client'[u].hist)
    BY <1>13, FiledSelf DEF Str
  <2> HIDE DEF t
  <2>7. Lane(out[v], client'[u], t, b, on, TRUE, X, F)
    BY <2>4, <2>5, <2>6, LaneBeside
  <2>8. Track(out[v], client[v].ids, client'[u], t, b, on, TRUE, X, F)
    BY <2>2, <2>7 DEF Track
  <2> QED BY <1>14, <2>1, <2>8 DEF on, X, F, t, b
<1> QED BY <1>1, <1>3, <1>4, <1>5, <1>13, <1>14, <1>15, <1>16, LanesKept

\* The relay handles the next frame of u.
LEMMA RelayFiles ==
    ASSUME Inv, FileInv, NEW u \in Users, RelayTakes(u)
    PROVE  FileInv'
<1> DEFINE v == Other(u)
           f == Head(out[u])
           t == Tail(out[u])
<1>1. v = Other(u) /\ v \in Users /\ Other(v) = u /\ v # u
  BY Others
<1>2. out[u] # <<>> /\ out' = [out EXCEPT ![u] = Tail(@)] /\ client' = client
  BY DEF RelayTakes
<1>3. f.kind = "hello" => RelayHello(u)
  BY DEF RelayTakes
<1>4. (f.kind # "hello" /\ u \notin online) =>
         /\ ghost' = [ghost EXCEPT !.lost = @ \cup TextItems(<<f>>)]
         /\ UNCHANGED <<wire, stored, login, files, online>>
  BY DEF RelayTakes
<1> DEFINE h == Overtaking(ghost, v, IF f.kind \in Stored THEN <<f>> ELSE <<>>)
<1>5. (f.kind # "hello" /\ u \in online) =>
         /\ Forward(u, f) /\ files' = IF f.kind \in FileFrames THEN StoreFile(files, f) ELSE files
         /\ ghost' = [h EXCEPT
               !.passed = @ \cup IF f.kind = "text" THEN {Item(f.mid)} ELSE {},
               !.recalled = @ \cup IF f.kind = "delete" /\ Item(f.mid) \in ghost.passed
                                   THEN {f.mid} ELSE {}]
         /\ UNCHANGED <<login, online>>
  BY DEF RelayTakes
<1>6. /\ DOMAIN ghost = GhostFields /\ DOMAIN out = Users /\ DOMAIN wire = Users /\ DOMAIN stored = Users
      /\ DOMAIN login = Users /\ \A x \in files : FileRow(x)
  BY DEF Inv, Held
<1>7. /\ out[u] \in Seq(Frames(u)) /\ wire[v] \in Seq(Frames(u)) /\ (~NoHello(out[u]) => u \notin online)
      /\ (v \notin online => wire[v] = <<>> /\ login[v].batch = <<>>)
      /\ login[v].batch \in Seq(Frames(u)) /\ stored[v] \in Seq(Frames(u)) /\ client[u].ids \in Nat
  BY LaneIn
<1>8. /\ wire[u] \in Seq(Frames(v)) /\ login[u].batch \in Seq(Frames(v))
      /\ (u \notin online => wire[u] = <<>> /\ login[u].batch = <<>>)
  BY <1>1, LaneIn
<1>9. /\ Track(out[u], client[u].ids, client[v], wire[v], login[v].batch, u \in online, v \in online,
               ghost.cut, FilesOf(files, u))
      /\ Track(out[v], client[v].ids, client[u], wire[u], login[u].batch, v \in online, u \in online,
               ghost.cut, FilesOf(files, v))
      /\ Stocked(files) /\ NoFile(stored[u]) /\ NoFile(stored[v])
  BY <1>1, Lanes, Zenon
<1>10. out'[u] = t /\ out'[v] = out[v] /\ f \in Frames(u) /\ out[u][1] = f /\ 1 \in DOMAIN out[u]
  BY <1>1, <1>2, <1>6, <1>7
<1> DEFINE on == u \in online
           von == v \in online
           X == ghost.cut
           F == FilesOf(files, u)
           b == login[v].batch
           n == client[u].ids
<1>11. Lane(out[u], client[v], wire[v], b, on, von, X, F) /\ Kin(out[u], b, n, F)
  BY <1>9 DEF Track
<1> HIDE DEF on, von, X, F, b, n
<1>12. /\ Lane(t, client[v], wire[v], b, FALSE, von, X, F)
       /\ f.kind = "hello" => Lane(t, client[v], wire[v], b, TRUE, von, X, F)
  BY <1>2, <1>7, <1>11, LaneTake
<1>13. f.kind \notin FileFrames => Kin(t, b, n, F)
  <2> SUFFICES ASSUME Head(out[u]).kind \notin FileFrames PROVE Kin(Tail(out[u]), b, n, F)
    OBVIOUS
  <2>1. Feeds(Head(out[u]), F, F)
    BY FeedsSame
  <2> QED BY <1>2, <1>7, <1>11, <2>1, KinTakes
<1> HIDE DEF v, f, t, h
<1>14. CASE f.kind # "hello" /\ u \notin online
  <2>1. ghost'.cut = ghost.cut /\ UNCHANGED <<client, wire, stored, login, files, online>>
    <3> DEFINE T == ghost.lost \cup TextItems(<<f>>)
    <3>1. ghost' = [ghost EXCEPT !.lost = T] /\ UNCHANGED <<wire, stored, login, files, online>>
      BY <1>4, <1>14
    <3> HIDE DEF T
    <3> QED BY <1>2, <1>6, <3>1 DEF GhostFields
  <2>2. (u \in online) = FALSE
    BY <1>14
  <2>3. Kin(t, b, n, F)
    <3>1. Dropped(out[u], t)
      BY <1>2, <1>7, TailDropped DEF t
    <3> QED BY <1>11, <3>1, KinDrops
  <2>4. Track(t, n, client[v], wire[v], b, u \in online, von, X, F)
    BY <1>12, <2>2, <2>3 DEF Track
  <2> QED BY <1>1, <1>9, <1>10, <2>1, <2>4, LanesKept DEF n, von, X, F, b
<1>15. CASE f.kind # "hello" /\ u \in online
  <2>1. ghost'.cut = ghost.cut /\ client' = client /\ online' = online /\ login' = login
    <3> DEFINE P == h.passed \cup IF f.kind = "text" THEN {Item(f.mid)} ELSE {}
               R == h.recalled \cup IF f.kind = "delete" /\ Item(f.mid) \in ghost.passed THEN {f.mid} ELSE {}
    <3>1. ghost' = [h EXCEPT !.passed = P, !.recalled = R] /\ UNCHANGED <<login, online>>
      BY <1>5, <1>15
    <3> HIDE DEF P, R
    <3>2. DOMAIN h = GhostFields /\ h.cut = ghost.cut
      BY <1>6, OvertakingCut DEF h
    <3> QED BY <1>2, <3>1, <3>2 DEF GhostFields
  <2>2. /\ wire'[u] = wire[u] /\ wire'[v] = IF v \in online THEN Append(wire[v], f) ELSE wire[v]
        /\ stored'[u] = stored[u]
        /\ stored'[v] = IF f.kind \notin Stored THEN stored[v] ELSE IF v \in online THEN <<>> ELSE Append(stored[v], f)
    BY <1>1, <1>5, <1>6, <1>15 DEF Forward
  <2>3. files' = IF f.kind \in FileFrames THEN StoreFile(files, f) ELSE files
    BY <1>5, <1>15
  <2> DEFINE G == FilesOf(files', u)
  <2>4. Feeds(f, F, G) /\ FilesOf(files', v) = FilesOf(files, v)
    <3>1. CASE f.kind \in FileFrames
      <4>1. f.mid[1] = u
        BY <1>10, <3>1 DEF Frames, Authored, FileFrames
      <4>2. /\ Feeds(f, FilesOf(files, u), FilesOf(StoreFile(files, f), u))
            /\ FilesOf(StoreFile(files, f), v) = FilesOf(files, v)
        BY <1>1, <1>6, <3>1, <4>1, StoreOwn
      <4> QED BY <2>3, <3>1, <4>2 DEF F
    <3>2. CASE f.kind \notin FileFrames
      <4>1. files' = files
        BY <2>3, <3>2
      <4>2. Feeds(f, F, F)
        BY <3>2, FeedsSame
      <4> QED BY <4>1, <4>2 DEF F
    <3> QED BY <3>1, <3>2
  <2>5. \A g \in files' : g \in G \/ g \in files
    <3>1. CASE f.kind \in FileFrames
      <4>1. f.mid[1] = u
        BY <1>10, <3>1 DEF Frames, Authored, FileFrames
      <4>2. Feeds(f, files, files')
        BY <1>6, <2>3, <3>1, StoreRows
      <4> QED BY <4>1, <4>2 DEF Feeds, FilesOf
    <3>2. CASE f.kind \notin FileFrames
      BY <2>3, <3>2
    <3> QED BY <3>1, <3>2
  <2> HIDE DEF G
  <2>6. Stocked(files')
    <3> SUFFICES ASSUME NEW g \in files', g.done PROVE Chunks - 1 \in g.chunks
      BY DEF Stocked
    <3>1. CASE f.kind = "end" /\ \E x \in F : x.init.mid = f.mid /\ g.chunks = x.chunks
      <4>1. Heading(out[u], client[v], wire[v], X, F)
        BY <1>11, <1>15 DEF Lane, on
      <4>2. \A x \in F : x.init.mid = f.mid => Chunks - 1 \in x.chunks
        BY <1>2, <1>10, <3>1, <4>1 DEF Heading
      <4> QED BY <3>1, <4>2
    <3>2. CASE g \in files
      BY <1>9, <3>2 DEF Stocked
    <3>3. CASE \E x \in F : g.done = x.done /\ g.chunks = x.chunks \cup {f.body}
      BY <1>9, <3>3 DEF Stocked, F, FilesOf
    <3>4. CASE g \in G
      <4>1. g \in F => g \in files
        BY DEF F, FilesOf
      <4> QED BY <2>4, <3>1, <3>2, <3>3, <3>4, <4>1 DEF Feeds
    <3> QED BY <2>5, <3>2, <3>4
  <2>7. Track(t, n, client[v], wire'[v], b, TRUE, von, X, G)
    <3>1. Lane(out[u], client[v], wire[v], b, TRUE, von, X, F)
      <4>1. on = TRUE
        BY <1>15 DEF on
      <4> QED BY <1>11, <4>1
    <3>2. Listed(wire[v]) /\ Listed(b)
      BY <1>7 DEF Listed, b
    <3>3. f = Head(out[u]) /\ t = Tail(out[u])
      BY DEF f, t
    <3>4. IF von THEN wire'[v] = wire[v] \o <<f>> ELSE wire[v] = <<>> /\ b = <<>> /\ wire'[v] = wire[v]
      <4>1. f \in Frames(u)
        BY <1>10
      <4>2. Append(wire[v], f) = wire[v] \o <<f>>
        BY <1>7, <4>1, AppendJoins
      <4> QED BY <1>7, <2>2, <4>2 DEF von, b
    <3>5. Fed(f, F, G)
      BY <2>4, FeedsFed
    <3>6. Lane(t, client[v], wire'[v], b, TRUE, von, X, G)
      BY <1>2, <1>7, <1>11, <3>1, <3>2, <3>3, <3>4, <3>5, LaneForward
    <3>7. Kin(t, b, n, G)
      BY <1>2, <1>7, <1>11, <2>4, <3>3, KinTakes
    <3> QED BY <3>6, <3>7 DEF Track
  <2>8. NoFile(stored'[v])
    <3>1. CASE f.kind \in Stored /\ v \notin online
      <4>1. f.kind \notin FileFrames
        BY <3>1 DEF Stored, FileFrames
      <4>2. stored'[v] = Append(stored[v], f) /\ stored[v] \in Seq(Frames(u)) /\ f \in Frames(u)
        BY <1>7, <1>10, <2>2, <3>1
      <4> QED BY <1>9, <4>1, <4>2, NoFileAppend
    <3>2. CASE f.kind \in Stored /\ v \in online
      <4>1. stored'[v] = <<>> /\ DOMAIN <<>> = {}
        BY <2>2, <3>2
      <4> QED BY <4>1 DEF NoFile
    <3>3. CASE f.kind \notin Stored
      BY <1>9, <2>2, <3>3
    <3> QED BY <3>1, <3>2, <3>3
  <2>9. (u \in online) = TRUE
    BY <1>15
  <2>10. Track(t, n, client[v], wire'[v], b, u \in online, von, X, G)
    BY <2>7, <2>9
  <2> QED BY <1>1, <1>9, <1>10, <2>1, <2>2, <2>4, <2>6, <2>8, <2>10, LanesKept DEF n, von, X, b, G
<1>16. CASE f.kind = "hello"
  <2> DEFINE k == Frame("keys", <<>>, 0, 0, FALSE)
             l == [stage |-> "drain", batch |-> <<>>, have |-> client[u].got]
  <2>1. /\ wire' = [wire EXCEPT ![u] = Append(@, k)] /\ login' = [login EXCEPT ![u] = l]
        /\ online' = online \cup {u} /\ files' = files /\ ghost' = ghost /\ stored' = stored
    BY <1>3, <1>16 DEF RelayHello
  <2>2. k.kind \notin FileFrames /\ l.batch = <<>>
    BY DEF Frame, FileFrames
  <2> HIDE DEF k, l
  <2>3. /\ wire'[u] = Append(wire[u], k) /\ wire'[v] = wire[v]
        /\ login'[u].batch = <<>> /\ login'[v] = login[v]
    BY <1>1, <1>6, <2>1, <2>2
  <2>4. u \notin online
    BY <1>7, <1>10, <1>16 DEF NoHello
  <2>5. wire[u] = <<>> /\ login[u].batch = <<>> /\ (u \in online) = FALSE
    BY <1>8, <2>4
  <2>6. Track(out[v], client[v].ids, client[u], wire'[u], <<>>, v \in online, TRUE, X, FilesOf(files, v))
    <3> DEFINE vo == v \in online
               H == FilesOf(files, v)
    <3>1. Lane(out[v], client[u], <<>>, <<>>, vo, FALSE, X, H) /\ Kin(out[v], <<>>, client[v].ids, H)
      BY <1>9, <2>5 DEF Track, X
    <3> HIDE DEF vo, H
    <3>2. Lane(out[v], client[u], <<>>, <<>>, vo, TRUE, X, H)
      BY <3>1 DEF Lane
    <3>3. Listed(<<k>>) /\ NoFile(<<k>>) /\ Listed(<<>>)
      <4>1. Listed(<<k>>) /\ DOMAIN <<k>> = 1 .. 1 /\ <<k>>[1] = k
        BY FrameAlone
      <4>2. <<>> \in Seq({})
        OBVIOUS
      <4> QED BY <2>2, <4>1, <4>2 DEF NoFile, Listed
    <3>4. Lane(out[v], client[u], <<>> \o <<k>>, <<>>, vo, TRUE, X, H)
      BY <3>2, <3>3, LaneInserts
    <3>5. wire'[u] = <<>> \o <<k>>
      <4>1. k \in {k} /\ <<>> \in Seq({k})
        OBVIOUS
      <4>2. Append(<<>>, k) = <<>> \o <<k>>
        BY <4>1, AppendJoins
      <4> QED BY <2>3, <2>5, <4>2
    <3> QED BY <3>1, <3>4, <3>5 DEF Track, vo, H
  <2>7. f.kind \notin FileFrames
    BY <1>16 DEF FileFrames
  <2>8. Track(t, n, client[v], wire'[v], login'[v].batch, TRUE, von, X, F)
    BY <1>12, <1>13, <1>16, <2>3, <2>7 DEF Track, b
  <2>9. (u \in online') = TRUE /\ (v \in online') = von
    BY <1>1, <2>1 DEF von
  <2>10. (v \in online') = (v \in online)
    BY <2>9 DEF von
  <2>11. /\ Track(t, n, client[v], wire'[v], login'[v].batch, u \in online', v \in online', X, F)
         /\ Track(out[v], client[v].ids, client[u], wire'[u], login'[u].batch, v \in online', u \in online',
                  X, FilesOf(files, v))
    BY <2>3, <2>6, <2>8, <2>9, <2>10
  <2> QED BY <1>1, <1>2, <1>9, <1>10, <2>1, <2>11, LanesKept DEF X, F, n
<1> QED BY <1>14, <1>15, <1>16

\* Rows that are fetched, and rows that are not yet.
LEMMA NoFileSplit ==
    ASSUME NEW S, NEW s \in Seq(S), NEW k \in 1 .. Len(s), NoFile(s)
    PROVE  NoFile(SubSeq(s, 1, k)) /\ NoFile(SubSeq(s, k + 1, Len(s)))
<1> DEFINE a == SubSeq(s, 1, k)
           b == SubSeq(s, k + 1, Len(s))
<1>1. DOMAIN a = 1 .. k /\ \A i \in 1 .. k : a[i] = s[i] /\ i \in DOMAIN s
  OBVIOUS
<1>2. DOMAIN b = 1 .. Len(s) - k /\ \A i \in 1 .. Len(s) - k : b[i] = s[k + i] /\ k + i \in DOMAIN s
  OBVIOUS
<1> HIDE DEF a, b
<1>3. NoFile(a) /\ NoFile(b)
  BY <1>1, <1>2 DEF NoFile
<1> QED BY <1>3 DEF a, b

LEMMA NoFileFetch ==
    ASSUME NEW q, Listed(q), NoFile(q), NEW F
    PROVE  Sealed(q) /\ DoneIn(q, F)
<1>1. \A i \in DOMAIN q : q[i].kind \notin FileFrames
  BY DEF NoFile
<1> QED BY <1>1, SealedPlain DEF DoneIn, Marks, FileFrames

\* The relay serves the login of u: it fetches, sends, and is done.
LEMMA FetchFiles ==
    ASSUME Inv, FileInv, NEW u \in Users, FetchBatch(u)
    PROVE  FileInv'
<1> DEFINE v == Other(u)
           s == stored[u]
<1>1. v = Other(u) /\ v \in Users /\ Other(v) = u /\ v # u
  BY Others
<1>2. login[u].batch = <<>> /\ UNCHANGED <<client, out, wire, files, online, ghost>>
  BY DEF FetchBatch
<1>3. /\ Track(out[u], client[u].ids, client[v], wire[v], login[v].batch, u \in online, v \in online,
               ghost.cut, FilesOf(files, u))
      /\ Track(out[v], client[v].ids, client[u], wire[u], login[u].batch, v \in online, u \in online,
               ghost.cut, FilesOf(files, v))
      /\ Stocked(files) /\ NoFile(stored[u]) /\ NoFile(stored[v])
  BY <1>1, Lanes, Zenon
<1>4. /\ DOMAIN stored = Users /\ DOMAIN login = Users /\ DOMAIN login[u] = {"stage", "batch", "have"}
      /\ s \in Seq(Frames(v)) /\ wire[u] \in Seq(Frames(v))
  BY <1>1, LaneIn
<1>5. IsFiniteSet(files) /\ \A f \in files : FileRow(f)
  BY DEF Inv, Held
<1> HIDE DEF v
<1> DEFINE F == FilesOf(files, v)
<1>6. ASSUME NEW q, Sealed(q), DoneIn(q, F), login'[u].batch = q, login'[v] = login[v],
             NoFile(stored'[u]), stored'[v] = stored[v]
      PROVE  FileInv'
  <2> DEFINE on == v \in online
             von == u \in online
             X == ghost.cut
  <2>1. Lane(out[v], client[u], wire[u], <<>>, on, von, X, F) /\ Kin(out[v], <<>>, client[v].ids, F)
    BY <1>2, <1>3 DEF Track
  <2>2. Listed(wire[u])
    BY <1>4 DEF Listed
  <2> HIDE DEF on, von, X, F
  <2>3. Lane(out[v], client[u], wire[u], q, on, von, X, F)
    BY <1>6, <2>1, <2>2, LaneFetch
  <2>4. Kin(out[v], q, client[v].ids, F)
    BY <1>6, <2>1, KinFetch
  <2>5. Track(out[v], client[v].ids, client[u], wire[u], login'[u].batch, v \in online, u \in online,
              ghost.cut, FilesOf(files, v))
    BY <1>6, <2>3, <2>4 DEF Track, on, von, X, F
  <2> QED BY <1>1, <1>2, <1>3, <1>6, <2>5, LanesKept
<1> HIDE DEF F
<1>7. ASSUME NEW k \in 1 .. Len(s), login' = [login EXCEPT ![u].batch = SubSeq(s, 1, k)],
             stored' = [stored EXCEPT ![u] = SubSeq(@, k + 1, Len(@))]
      PROVE  FileInv'
  <2> DEFINE a == SubSeq(s, 1, k)
             b == SubSeq(s, k + 1, Len(s))
  <2>1. a \in Seq(Frames(v)) /\ b \in Seq(Frames(v))
    BY <1>4, SplitRows
  <2>2. NoFile(a) /\ NoFile(b)
    BY <1>3, <1>4, NoFileSplit
  <2>3. stored' = [stored EXCEPT ![u] = b] /\ login' = [login EXCEPT ![u].batch = a]
    BY <1>7
  <2> HIDE DEF a, b, s
  <2>4. stored'[u] = b /\ stored'[v] = stored[v] /\ login'[v] = login[v] /\ login'[u].batch = a
    BY <1>1, <1>4, <2>3
  <2>5. Sealed(a) /\ DoneIn(a, F)
    BY <2>1, <2>2, NoFileFetch DEF Listed
  <2> QED BY <1>6, <2>2, <2>4, <2>5
<1>8. ASSUME stored' = stored, NEW rows \in ByTime(pending_files_for(files, u, login[u].have)),
             login' = [login EXCEPT ![u].stage = "files", ![u].batch = ReplayAll(rows)]
      PROVE  FileInv'
  <2> DEFINE z == ReplayAll(rows)
             P == pending_files_for(files, u, login[u].have)
  <2>1. Sealed(z) /\ DoneIn(z, P)
    BY <1>3, <1>5, ReplayAllSealed
  <2>2. P \subseteq F
    <3> SUFFICES ASSUME NEW f \in files, f.init.mid[1] # u PROVE f.init.mid[1] = v
      BY DEF pending_files_for, F, FilesOf
    <3>1. PICK w \in Users : f.init \in Frames(w) /\ f.init.kind = "init"
      BY <1>5 DEF FileRow
    <3>2. f.init.mid[1] = w
      BY <3>1 DEF Frames, Authored
    <3> QED BY <1>1, <3>1, <3>2, Others
  <2>3. login' = [login EXCEPT ![u].stage = "files", ![u].batch = z]
    BY <1>8
  <2> HIDE DEF z, P
  <2>4. DoneIn(z, F)
    BY <2>1, <2>2 DEF DoneIn
  <2>5. login'[v] = login[v] /\ login'[u].batch = z
    BY <1>1, <1>4, <2>3
  <2> QED BY <1>3, <1>6, <1>8, <2>1, <2>4, <2>5
<1> QED BY <1>7, <1>8 DEF FetchBatch

LEMMA BacklogFiles ==
    ASSUME Inv, FileInv, NEW u \in Users, SendBacklog(u)
    PROVE  FileInv'
<1> DEFINE v == Other(u)
           b == login[u].batch
<1>1. v = Other(u) /\ v \in Users /\ Other(v) = u /\ v # u
  BY Others
<1>2. /\ b # <<>> /\ wire' = [wire EXCEPT ![u] = Append(@, Head(b))] /\ login' = [login EXCEPT ![u].batch = Tail(@)]
      /\ UNCHANGED <<client, out, stored, files, online, ghost>>
  BY DEF SendBacklog
<1>3. /\ Track(out[u], client[u].ids, client[v], wire[v], login[v].batch, u \in online, v \in online,
               ghost.cut, FilesOf(files, u))
      /\ Track(out[v], client[v].ids, client[u], wire[u], login[u].batch, v \in online, u \in online,
               ghost.cut, FilesOf(files, v))
      /\ Stocked(files) /\ NoFile(stored[u]) /\ NoFile(stored[v])
  BY <1>1, Lanes, Zenon
<1>4. /\ DOMAIN wire = Users /\ DOMAIN login = Users /\ DOMAIN login[u] = {"stage", "batch", "have"}
      /\ b \in Seq(Frames(v)) /\ wire[u] \in Seq(Frames(v)) /\ out[v] \in Seq(Frames(v))
  BY <1>1, LaneIn
<1> HIDE DEF v
<1>5. wire'[u] = wire[u] \o <<Head(b)>> /\ wire'[v] = wire[v] /\ login'[u].batch = Tail(b) /\ login'[v] = login[v]
  <2>1. Head(b) \in Frames(v)
    BY <1>2, <1>4
  <2>2. Append(wire[u], Head(b)) = wire[u] \o <<Head(b)>>
    BY <1>4, <2>1, AppendJoins
  <2> QED BY <1>1, <1>2, <1>4, <2>2
<1> DEFINE on == v \in online
           von == u \in online
           X == ghost.cut
           F == FilesOf(files, v)
<1>6. Lane(out[v], client[u], wire[u], b, on, von, X, F) /\ Kin(out[v], b, client[v].ids, F)
  BY <1>3 DEF Track
<1>7. out[v] # <<>> => 1 \in DOMAIN out[v]
  BY <1>4
<1> HIDE DEF on, von, X, F, b
<1>8. Lane(out[v], client[u], wire[u] \o <<Head(b)>>, Tail(b), on, von, X, F)
  BY <1>2, <1>4, <1>6, <1>7, LaneServes
<1>9. Kin(out[v], Tail(b), client[v].ids, F)
  BY <1>2, <1>4, <1>6, KinServes
<1>10. Track(out[v], client[v].ids, client[u], wire'[u], login'[u].batch, v \in online, u \in online,
             ghost.cut, FilesOf(files, v))
  BY <1>5, <1>8, <1>9 DEF Track, on, von, X, F
<1> QED BY <1>1, <1>2, <1>3, <1>5, <1>10, LanesKept

\* A frame that is no part of a file is sent to the reader.
LEMMA TrackInserts ==
    ASSUME NEW o, NEW n, NEW e, NEW S, NEW w \in Seq(S), NEW b, Listed(b), NEW on, NEW von, NEW X, NEW F,
           Track(o, n, e, w, b, on, von, X, F), NEW k, k.kind \notin FileFrames
    PROVE  Track(o, n, e, Append(w, k), b, on, von, X, F)
<1>1. Listed(<<k>>) /\ NoFile(<<k>>) /\ Listed(w)
  <2>1. Listed(<<k>>) /\ DOMAIN <<k>> = 1 .. 1 /\ <<k>>[1] = k
    BY FrameAlone
  <2> QED BY <2>1 DEF NoFile, Listed
<1>2. Lane(o, e, w \o <<k>>, b, on, von, X, F)
  BY <1>1, LaneInserts DEF Track
<1>3. Append(w, k) = w \o <<k>>
  <2>1. w \in Seq(S \cup {k}) /\ k \in S \cup {k}
    OBVIOUS
  <2> QED BY <2>1, AppendJoins
<1> QED BY <1>2, <1>3 DEF Track

LEMMA DoneFiles ==
    ASSUME Inv, FileInv, NEW u \in Users, LoginDone(u)
    PROVE  FileInv'
<1> DEFINE v == Other(u)
           p == Presence(v, v \in online)
           r == Presence(u, TRUE)
<1>1. v = Other(u) /\ v \in Users /\ Other(v) = u /\ v # u
  BY Others
<1>2. /\ login[u].batch = <<>> /\ login' = [login EXCEPT ![u] = NoLogin]
      /\ wire' = [wire EXCEPT ![u] = Append(@, p), ![v] = IF v \in online THEN Append(@, r) ELSE @]
      /\ UNCHANGED <<client, out, stored, files, online, ghost>>
  BY DEF LoginDone
<1>3. /\ Track(out[u], client[u].ids, client[v], wire[v], login[v].batch, u \in online, v \in online,
               ghost.cut, FilesOf(files, u))
      /\ Track(out[v], client[v].ids, client[u], wire[u], login[u].batch, v \in online, u \in online,
               ghost.cut, FilesOf(files, v))
      /\ Stocked(files) /\ NoFile(stored[u]) /\ NoFile(stored[v])
  BY <1>1, Lanes, Zenon
<1>4. /\ DOMAIN wire = Users /\ DOMAIN login = Users
      /\ wire[u] \in Seq(Frames(v)) /\ wire[v] \in Seq(Frames(u)) /\ login[v].batch \in Seq(Frames(u))
  BY <1>1, LaneIn
<1>5. p.kind \notin FileFrames /\ r.kind \notin FileFrames /\ NoLogin.batch = <<>>
  BY DEF Presence, Frame, FileFrames, NoLogin
<1> HIDE DEF v, p, r
<1>6. /\ wire'[u] = Append(wire[u], p) /\ wire'[v] = IF v \in online THEN Append(wire[v], r) ELSE wire[v]
      /\ login'[u].batch = login[u].batch /\ login'[v] = login[v]
  BY <1>1, <1>2, <1>4, <1>5
<1>7. Listed(login[v].batch) /\ Listed(login[u].batch)
  <2>1. <<>> \in Seq({})
    OBVIOUS
  <2> QED BY <1>2, <1>4, <2>1 DEF Listed
<1>8. Track(out[v], client[v].ids, client[u], wire'[u], login[u].batch, v \in online, u \in online,
            ghost.cut, FilesOf(files, v))
  BY <1>3, <1>4, <1>5, <1>6, <1>7, TrackInserts
<1>9. Track(out[u], client[u].ids, client[v], Append(wire[v], r), login[v].batch, u \in online, v \in online,
            ghost.cut, FilesOf(files, u))
  BY <1>3, <1>4, <1>5, <1>7, TrackInserts
<1>10. Track(out[u], client[u].ids, client[v], wire'[v], login[v].batch, u \in online, v \in online,
             ghost.cut, FilesOf(files, u))
  BY <1>3, <1>6, <1>9
<1> QED BY <1>1, <1>2, <1>3, <1>6, <1>8, <1>10, LanesKept

\* The link of u ends.
LEMMA CutFiles ==
    ASSUME Inv, FileInv, NEW u \in Users, NEW T, NEW g, Cut(u, T, g), DOMAIN g = GhostFields,
           g.cut = ghost.cut, Listed(T), \A i \in DOMAIN T : T[i].kind = "text",
           NEW d, client' = [client EXCEPT ![u] = d], d.hist = client[u].hist,
           d.incoming \subseteq client[u].incoming, d.ids \in Nat, client[u].ids <= d.ids
    PROVE  FileInv'
<1> DEFINE v == Other(u)
           z == IF u \in online THEN <<Presence(u, FALSE)>> ELSE <<>>
           X == ghost.cut
           Y == ghost'.cut
<1>1. v = Other(u) /\ v \in Users /\ Other(v) = u /\ v # u
  BY Others
<1>2. /\ wire' = [wire EXCEPT ![u] = <<>>, ![v] = IF v \in online THEN @ \o T \o z ELSE @]
      /\ stored' = [stored EXCEPT ![v] = IF v \notin online THEN @ \o T
                                          ELSE IF T = <<>> THEN @ ELSE <<>>]
      /\ login' = [login EXCEPT ![u] = NoLogin]
      /\ out' = [out EXCEPT ![u] = <<>>] /\ online' = online \ {u} /\ files' = files
  BY DEF Cut
<1>3. Y = X \cup {s[1] : s \in client[u].incoming}
  <2> DEFINE h == Overtaking(g, v, T)
             A == h.lost \cup TextItems(out[u]) \cup TextItems(wire[u]) \cup TextItems(login[u].batch)
             B == h.unheard \cup Retractions(wire[u]) \cup Retractions(login[u].batch)
             P == h.passed \cup TextItems(T)
             D == h.blind \cup {u}
             C == {s[1] : s \in client[u].incoming}
             E == h.cut \cup C
  <2>1. ghost' = [h EXCEPT !.lost = A, !.unheard = B, !.cut = E, !.passed = P, !.blind = D]
    BY DEF Cut
  <2>2. DOMAIN h = GhostFields /\ h.cut = g.cut
    BY OvertakingCut
  <2> HIDE DEF h, A, B, P, D, E
  <2>3. ghost'.cut = E
    BY <2>1, <2>2 DEF GhostFields
  <2> HIDE DEF C
  <2> QED BY <2>2, <2>3 DEF E, C
<1>4. X \subseteq Y /\ \A m : Str(client[u], m) => m \in Y
  BY <1>3 DEF Str
<1>5. Listed(z) /\ NoFile(z)
  <2> DEFINE r == Presence(u, FALSE)
  <2>1. r.kind \notin FileFrames
    BY DEF Presence, Frame, FileFrames
  <2>2. CASE u \in online
    <3>1. z = <<r>>
      BY <2>2
    <3> HIDE DEF r, z
    <3>2. Listed(<<r>>) /\ DOMAIN <<r>> = 1 .. 1 /\ <<r>>[1] = r
      BY FrameAlone
    <3>3. Listed(<<r>>) /\ NoFile(<<r>>)
      BY <2>1, <3>2 DEF NoFile
    <3> QED BY <3>1, <3>3
  <2>3. CASE u \notin online
    <3>1. z = <<>>
      BY <2>3
    <3> HIDE DEF z
    <3>2. <<>> \in Seq({}) /\ DOMAIN <<>> = {}
      OBVIOUS
    <3> QED BY <3>1, <3>2 DEF Listed, NoFile
  <2> QED BY <2>2, <2>3
<1>6. NoFile(T)
  BY DEF NoFile, FileFrames
<1> HIDE DEF v, z
<1>7. /\ Track(out[u], client[u].ids, client[v], wire[v], login[v].batch, u \in online, v \in online,
               ghost.cut, FilesOf(files, u))
      /\ Track(out[v], client[v].ids, client[u], wire[u], login[u].batch, v \in online, u \in online,
               ghost.cut, FilesOf(files, v))
      /\ Stocked(files) /\ NoFile(stored[u]) /\ NoFile(stored[v])
  BY <1>1, Lanes, Zenon
<1>8. /\ DOMAIN client = Users /\ DOMAIN out = Users /\ DOMAIN wire = Users /\ DOMAIN stored = Users
      /\ DOMAIN login = Users /\ wire[v] \in Seq(Frames(u)) /\ login[v].batch \in Seq(Frames(u))
      /\ stored[v] \in Seq(Frames(u)) /\ client[u].ids \in Nat
  BY <1>1, LaneIn
<1>9. client[v].ids \in Nat /\ NoLogin.batch = <<>>
  BY <1>1, LaneIn DEF NoLogin
<1>10. /\ client'[u] = d /\ client'[v] = client[v] /\ out'[u] = <<>> /\ out'[v] = out[v]
       /\ wire'[u] = <<>> /\ wire'[v] = IF v \in online THEN (wire[v] \o T) \o z ELSE wire[v]
       /\ login'[u].batch = <<>> /\ login'[v] = login[v] /\ stored'[u] = stored[u]
       /\ stored'[v] = IF v \notin online THEN stored[v] \o T ELSE IF T = <<>> THEN stored[v] ELSE <<>>
  BY <1>1, <1>2, <1>8, <1>9
<1>11. NoFile(stored'[v])
  <2>1. NoFile(stored[v] \o T)
    <3> DEFINE q == stored[v]
               x == q \o T
    <3>1. Listed(q) /\ NoFile(q)
      BY <1>7, <1>8 DEF Listed
    <3> HIDE DEF q
    <3>2. Joint(q, T, x)
      BY <3>1, ListedJoin
    <3> HIDE DEF x
    <3>3. NoFile(x)
      BY <1>6, <3>1, <3>2 DEF NoFile, Joint
    <3> QED BY <3>3 DEF x, q
  <2>2. NoFile(<<>>)
    BY DEF NoFile
  <2> QED BY <1>7, <1>10, <2>1, <2>2
<1> DEFINE F == FilesOf(files, u)
           b == login[v].batch
           w == wire[v]
           von == v \in online
           e == client[v]
<1>12. Lane(out[u], e, w, b, u \in online, von, X, F) /\ Kin(out[u], b, client[u].ids, F)
       /\ Listed(w) /\ Listed(b)
  BY <1>7, <1>8 DEF Track, Listed
<1>13. wire'[v] = IF von THEN (w \o T) \o z ELSE w
  BY <1>10
<1> HIDE DEF X, Y, F, b, w, von, e
<1>14. Lane(<<>>, e, wire'[v], b, FALSE, von, Y, F)
  <2>1. Lane(<<>>, e, w, b, FALSE, von, X, F)
    BY <1>12, LaneCutAuthor
  <2> DEFINE a == w \o T
             y == a \o z
  <2>2. Lane(<<>>, e, a, b, FALSE, von, X, F)
    BY <1>6, <1>12, <2>1, LaneInserts
  <2>3. Joint(w, T, a)
    BY <1>12, ListedJoin
  <2> HIDE DEF a
  <2>4. Listed(a)
    BY <2>3 DEF Joint
  <2>5. Lane(<<>>, e, y, b, FALSE, von, X, F)
    BY <1>5, <1>12, <2>2, <2>4, LaneInserts
  <2>6. Joint(a, z, y)
    BY <1>5, <2>4, ListedJoin
  <2> HIDE DEF y
  <2>7. Listed(y)
    BY <2>6 DEF Joint
  <2>8. wire'[v] = y \/ wire'[v] = w
    BY <1>13 DEF y, a
  <2>9. Lane(<<>>, e, wire'[v], b, FALSE, von, X, F) /\ Listed(wire'[v])
    BY <1>12, <2>1, <2>5, <2>7, <2>8
  <2>10. Filed(e.hist, e.hist) /\ \A m : Str(e, m) => Str(e, m)
    BY FiledSelf
  <2> QED BY <1>4, <1>12, <2>9, <2>10, LaneBeside
<1>15. Track(<<>>, d.ids, e, wire'[v], b, FALSE, von, Y, F)
  BY <1>8, <1>12, <1>14, KinLoses DEF Track
<1>16. Track(out[v], client[v].ids, d, <<>>, <<>>, v \in online, FALSE, Y, FilesOf(files, v))
  <2> DEFINE H == FilesOf(files, v)
             on == v \in online
  <2>1. /\ Lane(out[v], client[u], wire[u], login[u].batch, on, u \in online, X, H)
        /\ Kin(out[v], login[u].batch, client[v].ids, H)
    BY <1>7 DEF Track, X
  <2>2. \A m : Str(d, m) => Str(client[u], m)
    BY DEF Str
  <2> HIDE DEF H, on
  <2>3. Lane(out[v], d, <<>>, <<>>, on, FALSE, Y, H)
    BY <1>4, <2>1, <2>2, LaneCutReader
  <2>4. Kin(out[v], <<>>, client[v].ids, H)
    <3> DEFINE n == client[v].ids
               c == login[u].batch
    <3>1. n \in Nat /\ Kin(out[v], c, n, H)
      BY <1>9, <2>1
    <3> HIDE DEF n, c
    <3>2. n <= n
      BY <3>1
    <3>3. Kin(out[v], <<>>, n, H)
      BY <3>1, <3>2, KinLoses
    <3> QED BY <3>3 DEF n
  <2> QED BY <2>3, <2>4 DEF Track, H, on
<1>17. (u \in online') = FALSE /\ (v \in online') = (v \in online)
  BY <1>1, <1>2
<1>18. /\ Track(out'[u], client'[u].ids, client'[v], wire'[v], login'[v].batch, u \in online', v \in online',
                ghost'.cut, FilesOf(files', u))
       /\ Track(out'[v], client'[v].ids, client'[u], wire'[u], login'[u].batch, v \in online', u \in online',
                ghost'.cut, FilesOf(files', v))
  BY <1>2, <1>10, <1>15, <1>16, <1>17 DEF Y, F, b, von, e
<1> QED BY <1>1, <1>2, <1>7, <1>10, <1>11, <1>18, LanesKept

\* A new process has the history, and no file on its way.
LEMMA RestartedFiles ==
    ASSUME NEW e
    PROVE  Restarted(e).hist = e.hist /\ Restarted(e).incoming = {} /\ Restarted(e).ids = e.ids + 1
BY DEF Restarted, restoreOutbox, Fresh

\* What may fail.
LEMMA FailureFiles ==
    ASSUME Inv, FileInv, NEW u \in Users,
           Drop(u) \/ Restart(u) \/ CrashInSend(u) \/ \E saved \in BOOLEAN : CrashInFlush(u, saved)
    PROVE  FileInv'
<1> DEFINE b == client[u]
<1>1. /\ DOMAIN b = Fields /\ b.tx = <<>> /\ DOMAIN client = Users /\ DOMAIN ghost = GhostFields
      /\ b.ids \in Nat
  BY LaneIn DEF Neat, Inv, Held
<1>2. Listed(<<>>) /\ DOMAIN <<>> = {}
  <2>1. <<>> \in Seq({}) /\ DOMAIN <<>> = {}
    OBVIOUS
  <2> QED BY <2>1 DEF Listed
<1>3. ASSUME NEW f, f.kind = "text" PROVE Listed(<<f>>) /\ \A i \in DOMAIN <<f>> : <<f>>[i].kind = "text"
  <2>1. Listed(<<f>>) /\ DOMAIN <<f>> = 1 .. 1 /\ <<f>>[1] = f
    BY FrameAlone
  <2> QED BY <1>3, <2>1
<1> DEFINE q == Ending(u, ghost)
<1>4. DOMAIN q = GhostFields /\ q.cut = ghost.cut
  <2> DEFINE N == ghost.renamed \cup {<<u, r.k>> : r \in {x \in Elements(client[u].box) : x.kind = "text"}}
  <2>1. q = [ghost EXCEPT !.renamed = N]
    BY DEF Ending
  <2> HIDE DEF N, q
  <2> QED BY <1>1, <2>1 DEF GhostFields
<1> HIDE DEF q
<1>5. CASE Drop(u)
  <2> DEFINE d == onDisconnected(b)
  <2>1. client' = [client EXCEPT ![u] = d] /\ Cut(u, <<>>, ghost)
    BY <1>1, <1>5 DEF Drop
  <2>2. d.hist = b.hist /\ d.incoming = b.incoming /\ d.ids = b.ids
    BY <1>1 DEF onDisconnected, addSystem, Fields
  <2> HIDE DEF d
  <2>3. d.ids \in Nat /\ client[u].ids <= d.ids /\ d.hist = client[u].hist
        /\ d.incoming \subseteq client[u].incoming
    BY <1>1, <2>2 DEF b
  <2> HIDE DEF b
  <2> QED BY <1>1, <1>2, <2>1, <2>3, CutFiles
<1>6. CASE Restart(u)
  <2> DEFINE d == Restarted(b)
  <2>1. client' = [client EXCEPT ![u] = d] /\ Cut(u, <<>>, q)
    BY <1>1, <1>6 DEF Restart, q
  <2>2. d.hist = b.hist /\ d.incoming = {} /\ d.ids = b.ids + 1
    BY RestartedFiles
  <2> HIDE DEF d
  <2>3. d.ids \in Nat /\ client[u].ids <= d.ids /\ d.hist = client[u].hist
        /\ d.incoming \subseteq client[u].incoming
    BY <1>1, <2>2 DEF b
  <2> HIDE DEF b
  <2> QED BY <1>2, <1>4, <2>1, <2>3, CutFiles
<1>7. CASE CrashInSend(u)
  <2> DEFINE e == [b EXCEPT !.next = @ + 1]
             d == Restarted(e)
             f == Frame("text", <<u, b.next, b.ids>>, 0, b.n, FALSE)
             h == [q EXCEPT !.reused = @ \cup {u}]
  <2>1. client' = [client EXCEPT ![u] = d] /\ Cut(u, <<f>>, h)
    BY <1>7 DEF CrashInSend, q
  <2>2. DOMAIN h = GhostFields /\ h.cut = ghost.cut
    BY <1>4 DEF GhostFields
  <2>3. e.hist = b.hist /\ e.ids = b.ids
    BY <1>1 DEF Fields
  <2> HIDE DEF e
  <2>4. d.hist = b.hist /\ d.incoming = {} /\ d.ids = b.ids + 1
    BY <2>3, RestartedFiles
  <2>5. f.kind = "text"
    BY DEF Frame
  <2> HIDE DEF d, f, h
  <2>6. Listed(<<f>>) /\ \A i \in DOMAIN <<f>> : <<f>>[i].kind = "text"
    BY <1>3, <2>5
  <2>7. d.ids \in Nat /\ client[u].ids <= d.ids /\ d.hist = client[u].hist
        /\ d.incoming \subseteq client[u].incoming
    BY <1>1, <2>4 DEF b
  <2> HIDE DEF b
  <2> QED BY <2>1, <2>2, <2>6, <2>7, CutFiles
<1>8. ASSUME NEW saved \in BOOLEAN, CrashInFlush(u, saved) PROVE FileInv'
  <2> DEFINE c == [b EXCEPT !.keyed = TRUE, !.gate = "open"]
             item == Head(c.outbox)
             s == FlushText(c, u, item)
             t == [s EXCEPT !.tx = <<>>]
             e == IF saved THEN persistSession(t) ELSE t
             d == Restarted(e)
             mid == IF item.mid = <<>> THEN <<u, item.k, c.ids>> ELSE item.mid
             f == Frame("text", mid, 0, c.n, FALSE)
             A == q.again \cup {<<u, item.k>>}
             R == IF saved THEN q.reused ELSE q.reused \cup {u}
             h == [q EXCEPT !.again = A, !.reused = R]
  <2>1. client' = [client EXCEPT ![u] = d] /\ Cut(u, s.tx, h)
    BY <1>8 DEF CrashInFlush, q
  <2> HIDE DEF A, R
  <2>2. DOMAIN h = GhostFields /\ h.cut = ghost.cut
    BY <1>4 DEF GhostFields
  <2> HIDE DEF h, item
  <2>3. DOMAIN c = Fields /\ c.hist = b.hist /\ c.tx = <<>> /\ c.ids = b.ids
    BY <1>1 DEF Fields
  <2>4. f.kind = "text"
    BY DEF Frame
  <2>5. DOMAIN s = Fields /\ s.hist = c.hist /\ s.tx = Append(c.tx, f) /\ s.ids = c.ids
    <3> HIDE DEF c, f
    <3>1. s = Write(encryptFor(c), f)
      BY DEF FlushText, f
    <3> QED BY <2>3, <3>1 DEF Write, encryptFor, Fields
  <2> HIDE DEF f, c, s
  <2>6. s.tx = <<f>>
    BY <2>3, <2>5
  <2>7. e.hist = b.hist /\ e.ids = b.ids
    <3>1. DOMAIN t = Fields /\ t.hist = b.hist /\ t.ids = b.ids
      BY <2>3, <2>5 DEF Fields
    <3> QED BY <3>1 DEF persistSession, Fields
  <2> HIDE DEF e
  <2>8. d.hist = b.hist /\ d.incoming = {} /\ d.ids = b.ids + 1
    BY <2>7, RestartedFiles
  <2> HIDE DEF d
  <2>9. Listed(s.tx) /\ \A i \in DOMAIN s.tx : s.tx[i].kind = "text"
    <3>1. Listed(<<f>>) /\ \A i \in DOMAIN <<f>> : <<f>>[i].kind = "text"
      BY <1>3, <2>4
    <3> QED BY <2>6, <3>1, Zenon
  <2>10. d.ids \in Nat /\ client[u].ids <= d.ids /\ d.hist = client[u].hist
        /\ d.incoming \subseteq client[u].incoming
    BY <1>1, <2>8 DEF b
  <2> HIDE DEF b
  <2> QED BY <2>1, <2>2, <2>9, <2>10, CutFiles
<1> QED BY <1>5, <1>6, <1>7, <1>8

LEMMA InitFileInv == Init => FileInv
<1> SUFFICES ASSUME Init PROVE FileInv
  OBVIOUS
<1>1. PICK s \in Starts :
        /\ client = [u \in Users |-> IF s.settled THEN Settled(Fresh(s.gate[u])) ELSE Fresh(s.gate[u])]
        /\ out = [u \in Users |-> <<>>] /\ wire = [u \in Users |-> <<>>] /\ files = {}
        /\ stored = [u \in Users |-> IF s.gate[u] = "waiting" /\ ~s.settled
                                      THEN <<Frame("handshake", <<>>, 0, 0, FALSE)>> ELSE <<>>]
        /\ login = [u \in Users |-> NoLogin]
  BY DEF Init
<1>2. s.settled \in BOOLEAN
  BY StartsAssumption
<1>3. ASSUME NEW u \in Users PROVE LaneOf(u)
  <2> DEFINE v == Other(u)
  <2>1. v \in Users
    BY Others
  <2> HIDE DEF v
  <2>2. Starting(client[v], s.settled)
    BY <1>1, <1>2, <2>1, FreshStarting
  <2>3. client[v].hist = <<>> /\ client[v].incoming = {}
    BY <2>2, Zenon DEF Starting
  <2>4. out[u] = <<>> /\ wire[v] = <<>> /\ DOMAIN <<>> = {} /\ login[v].batch = <<>> /\ <<>> \o <<>> = <<>>
        /\ FilesOf(files, u) = {}
    BY <1>1, <2>1 DEF NoLogin, FilesOf
  <2>5. Paired(<<>>) /\ Shutting(client[v], <<>>, ghost.cut) /\ Whole(<<>>, ghost.cut)
        /\ Heading(<<>>, client[v], <<>>, ghost.cut, {}) /\ (\A m : ~Str(client[v], m))
        /\ AllShut(client[v], <<>>, ghost.cut, {})
    BY <2>3, <2>4 DEF Paired, Shutting, Whole, Heading, Str, AllShut
  <2>6. Kin(<<>>, <<>>, client[u].ids, {})
    BY <2>4 DEF Kin, Dated, Once, NotDone, DoneIn, Tailed
  <2>7. Lane(<<>>, client[v], <<>>, <<>>, u \in online, v \in online, ghost.cut, {})
    BY <2>3, <2>4, <2>5 DEF Lane
  <2> QED BY <2>4, <2>6, <2>7 DEF LaneOf, Track, v
<1>4. ASSUME NEW u \in Users PROVE NoFile(stored[u])
  <2> DEFINE k == Frame("handshake", <<>>, 0, 0, FALSE)
  <2>1. stored[u] = <<k>> \/ stored[u] = <<>>
    BY <1>1
  <2>2. k.kind \notin FileFrames
    BY DEF Frame, FileFrames
  <2> HIDE DEF k
  <2>3. DOMAIN <<k>> = 1 .. 1 /\ <<k>>[1] = k
    BY FrameAlone
  <2>4. NoFile(<<k>>)
    BY <2>2, <2>3 DEF NoFile
  <2>5. NoFile(<<>>)
    BY DEF NoFile
  <2> QED BY <2>1, <2>4, <2>5
<1> QED BY <1>1, <1>3, <1>4 DEF FileInv, Stocked

LEMMA NextFileInv == Inv /\ FileInv /\ [Next]_vars => FileInv'
<1> SUFFICES ASSUME Inv, FileInv, [Next]_vars PROVE FileInv'
  OBVIOUS
<1>1. CASE UNCHANGED vars
  BY <1>1 DEF vars, FileInv, LaneOf, FilesOf
<1>2. ASSUME NEW u \in Users,
             \/ User(u) \/ Failure(u)
             \/ Verify(u) \/ Connect(u) \/ Hello(u) \/ Read(u)
             \/ RelayTakes(u) \/ FetchBatch(u) \/ SendBacklog(u) \/ LoginDone(u)
      PROVE  FileInv'
  <2>1. CASE User(u) \/ SourceVanishes(u) \/ Verify(u) \/ Connect(u) \/ Hello(u)
    BY <2>1, UserFiles
  <2>2. CASE Drop(u) \/ Restart(u) \/ CrashInSend(u) \/ \E saved \in BOOLEAN : CrashInFlush(u, saved)
    BY <2>2, FailureFiles
  <2>3. CASE Read(u)
    BY <2>3, ReadFiles
  <2>4. CASE RelayTakes(u)
    BY <2>4, RelayFiles
  <2>5. CASE FetchBatch(u) \/ SendBacklog(u) \/ LoginDone(u)
    BY <2>5, FetchFiles, BacklogFiles, DoneFiles
  <2> QED BY <1>2, <2>1, <2>2, <2>3, <2>4, <2>5 DEF Failure
<1> QED BY <1>1, <1>2 DEF Next

\* A received file is whole unless its receiver lost its link during the transfer:
\* every file_end that reaches a client is behind the tagged chunk of its file
\* (pumpOutgoingFile writes them together, the relay forwards in order and only
\* replays files that are complete; a live frame between the fetched ones of a
\* login is of another file, because a file has an id of its own and is replayed
\* only when its file_end is in), so OnFileEnd finds a stream open only if the link
\* it came on was lost.
THEOREM FilesWhole == Spec => []FileWhole
<1>1. FileInv => FileWhole
  <2> SUFFICES ASSUME FileInv, NEW v \in Users, NEW r \in Elements(client[v].hist), r.kind = "file"
               PROVE  r.body = Chunks \/ r.mid \in ghost.cut
    BY DEF FileWhole
  <2>1. Other(v) \in Users /\ Other(Other(v)) = v
    BY Others
  <2>2. Whole(client[v].hist, ghost.cut)
    BY <2>1 DEF FileInv, LaneOf, Track, Lane
  <2> QED BY <2>2 DEF Whole, Elements
<1>2. Inv /\ FileInv /\ [Next]_vars => FileInv'
  BY NextFileInv
<1> QED BY <1>1, <1>2, InitFileInv, Invariant, PTL DEF Spec
=============================================================================

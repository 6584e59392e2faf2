------------------------- MODULE Conversation_proofs -------------------------
(***************************************************************************)
(* Proofs about Conversation: what a user typed is accounted for, nothing  *)
(* waits that could go, the screen agrees with the history, tombstones     *)
(* were asked for and the typing indicator goes out, for any number of     *)
(* texts, edits, files, lost links, restarts and crashes.                  *)
(***************************************************************************)
EXTENDS Conversation, WellFoundedInduction, FiniteSetTheorems, TLAPS

-----------------------------------------------------------------------------
(* The inductive invariant: one client.                                     *)

Fields ==
    {"up", "hi", "keyed", "gate", "ids", "since", "gone", "active", "screen", "notices", "risen", "unread",
     "hist", "react", "box", "outbox", "nextRid", "next", "n", "savedN", "used", "incoming", "got", "told",
     "armed", "shows", "tx"}

MidSet == Users \X Nat \X Nat
Kinds ==
    {"hello", "keys", "text", "edit", "handshake", "delete", "reaction", "typing", "presence",
     "init", "chunk", "end"}
Authored == {"text", "edit", "delete", "init", "chunk", "end"}
Numbered == {"text", "edit", "handshake", "init"}

\* Rows in the history of u, items in the outbox of u, frames of w.
Rows(u) ==
    {r \in [kind : {"text", "file", "system"}, mid : MidSet, body : Nat, mine : BOOLEAN,
            edited : BOOLEAN, deleted : BOOLEAN, me : BOOLEAN, peer : BOOLEAN] :
        r.mine <=> r.mid[1] = u}
Items(u) ==
    {i \in [rid : Nat, kind : {"text", "file"}, k : Nat, mid : MidSet \cup {<<>>}] :
        i.mid # <<>> => i.mid \in MidSet /\ i.mid[1] = u /\ i.mid[2] = i.k}
Frames(w) ==
    {f \in [kind : Kinds, mid : MidSet \cup {<<>>}, body : Nat, n : Nat, on : BOOLEAN] :
        /\ f.kind \in Authored => f.mid \in MidSet /\ f.mid[1] = w
        /\ f.kind = "reaction" => f.mid \in MidSet}

Typed(u, c) ==
    /\ DOMAIN c = Fields
    /\ c.hist \in Seq(Rows(u)) /\ c.screen \in Seq(Rows(u))
    /\ c.box \in Seq(Items(u)) /\ c.outbox \in Seq(Items(u)) /\ c.tx \in Seq(Frames(u))
    /\ c.n \in Nat \ {0} /\ c.ids \in Nat /\ c.next \in Nat /\ c.nextRid \in Nat
    /\ c.used \subseteq Nat /\ c.incoming \subseteq MidSet \X Nat
    /\ c.shows \in BOOLEAN /\ c.up \in BOOLEAN /\ c.hi \in BOOLEAN

\* The items of q are about what their rows in box are about.
Agree(q, box) ==
    \A i \in DOMAIN q, j \in DOMAIN box :
        q[i].rid = box[j].rid => q[i].k = box[j].k /\ q[i].kind = box[j].kind
Below(q, m) == \A i \in DOMAIN q : q[i].rid < m

\* The outbox table has a key, and the queue in memory goes with it.
Boxed(c) ==
    /\ Below(c.box, c.nextRid) /\ Below(c.outbox, c.nextRid)
    /\ \A i, j \in DOMAIN c.box : c.box[i].rid = c.box[j].rid => i = j
    /\ Agree(c.outbox, c.box)

\* Row i of the screen shows row i of the history.
Agrees(c, i) ==
    /\ c.screen[i].body = c.hist[i].body
    /\ c.screen[i].edited = c.hist[i].edited
    /\ ~c.screen[i].deleted
    /\ c.screen[i].me => <<c.hist[i].mid, "me">> \in c.react
    /\ c.screen[i].peer => <<c.hist[i].mid, "peer">> \in c.react
Same(c, i) ==
    /\ c.screen[i].kind = c.hist[i].kind /\ c.screen[i].mid = c.hist[i].mid
    /\ Alone(c.hist, i) => Agrees(c, i)
Screened(c) ==
    c.active => Len(c.screen) = Len(c.hist) /\ \A i \in DOMAIN c.hist : Same(c, i)

\* What a method leaves behind; the ratchet is saved with every number it spends.
Sound(u, c) == Typed(u, c) /\ Boxed(c) /\ Screened(c) /\ c.savedN = c.n

\* The typing indicator after the frames s, from b.
Lights(f) == f.kind = "typing" /\ f.on
Clears(f) == f.kind \in {"typing", "presence"} /\ ~f.on
Lit(b, s) ==
    \/ \E i \in DOMAIN s : Lights(s[i]) /\ \A j \in DOMAIN s : j > i => ~Clears(s[j])
    \/ b /\ \A j \in DOMAIN s : ~Clears(s[j])

-----------------------------------------------------------------------------
(* Users, numbers and the shape of records.                                 *)

\* There are two users, each the other of the other.
LEMMA Others ==
    ASSUME NEW u \in Users
    PROVE  /\ Other(u) \in Users /\ Other(u) # u /\ Other(Other(u)) = u
           /\ \A w \in Users : w = u \/ w = Other(u)
<1>1. PICK v \in Users : Users = {u, v} /\ u # v
  BY UsersAssumption
<1>2. Other(u) = v
  BY <1>1 DEF Other
<1>3. Other(v) = u
  BY <1>1 DEF Other
<1> QED BY <1>1, <1>2, <1>3

\* A set of numbers has a least one.
LEMMA Least ==
    ASSUME NEW T, T \subseteq Nat, T # {}
    PROVE  \E m \in T : \A k \in T : m <= k
<1>1. PICK m \in T : \A k \in T : ~(<<k, m>> \in OpToRel(<, Nat))
  BY NatLessThanWellFounded, WFMin
<1>2. \A k \in T : ~(k < m)
  BY <1>1 DEF OpToRel
<1> QED BY <1>2

\* A frame of w from its parts.
LEMMA FrameIn ==
    ASSUME NEW w \in Users, NEW kind \in Kinds, NEW mid \in MidSet, NEW body \in Nat, NEW n \in Nat,
           NEW on \in BOOLEAN, kind \in Authored => mid[1] = w
    PROVE  Frame(kind, mid, body, n, on) \in Frames(w)
BY DEF Frame, Frames

\* A frame that is about no message.
LEMMA BareFrameIn ==
    ASSUME NEW w \in Users, NEW kind \in Kinds \ Authored, kind # "reaction", NEW n \in Nat,
           NEW on \in BOOLEAN
    PROVE  Frame(kind, <<>>, 0, n, on) \in Frames(w)
BY DEF Frame, Frames

\* A message id of u.
LEMMA MidIn ==
    ASSUME NEW u \in Users, NEW k \in Nat, NEW r \in Nat
    PROVE  <<u, k, r>> \in MidSet /\ <<u, k, r>>[1] = u /\ <<u, k, r>>[2] = k
BY DEF MidSet

-----------------------------------------------------------------------------
(* What the methods that queue, send and flush do to a client.              *)

\* A text of number k of u: in a history, in the outbox table, among the frames
\* of d that c had not written.
Has(h, w, k) == \E i \in DOMAIN h : h[i].kind = "text" /\ h[i].mid[1] = w /\ h[i].mid[2] = k
InBox(c, k) == \E j \in DOMAIN c.box : c.box[j].kind = "text" /\ c.box[j].k = k
New(c, d) == Len(c.tx) + 1 .. Len(d.tx)
Wrote(u, c, d, k) ==
    \E i \in New(c, d) : d.tx[i].kind = "text" /\ d.tx[i].mid[1] = u /\ d.tx[i].mid[2] = k

\* Frames are only added, of these kinds, and only on a link; each takes the next
\* number of the ratchet.
Appends(c, d) ==
    /\ Len(c.tx) <= Len(d.tx) /\ \A i \in 1 .. Len(c.tx) : d.tx[i] = c.tx[i]
    /\ \A i \in New(c, d) : d.tx[i].kind \in {"text", "init", "chunk", "end"}
    /\ c.up \/ d.tx = c.tx
    /\ c.n <= d.n
    /\ \A i \in New(c, d) : d.tx[i].kind \in Numbered => c.n <= d.tx[i].n /\ d.tx[i].n < d.n
    /\ \A i, j \in New(c, d) :
          (i < j /\ d.tx[i].kind \in Numbered /\ d.tx[j].kind \in Numbered) => d.tx[i].n < d.tx[j].n

\* Rows are only added, none of them deleted.
Keeps(c, d) ==
    /\ Len(c.hist) <= Len(d.hist)
    /\ \A i \in 1 .. Len(c.hist) : /\ d.hist[i].kind = c.hist[i].kind
                                   /\ d.hist[i].mid = c.hist[i].mid
                                   /\ d.hist[i].deleted => c.hist[i].deleted
    /\ \A i \in Len(c.hist) + 1 .. Len(d.hist) : ~d.hist[i].deleted

\* A text leaves the table when it is written, and a new row is in the table or
\* written.
Accounts(u, c, d) ==
    \A k : /\ InBox(c, k) => InBox(d, k) \/ Wrote(u, c, d, k)
           /\ Has(d.hist, u, k) => Has(c.hist, u, k) \/ InBox(d, k) \/ Wrote(u, c, d, k)

\* The rows of the outbox table are those it had, or newer.
Rekeys(c, d) ==
    /\ c.nextRid <= d.nextRid
    /\ \A j \in DOMAIN d.box :
          d.box[j].rid >= c.nextRid \/ \E i \in DOMAIN c.box : c.box[i] = d.box[j]

\* The rest stays.
Fixed(c, d) ==
    /\ d.up = c.up /\ d.hi = c.hi /\ d.keyed = c.keyed /\ d.gate = c.gate
    /\ d.gone = c.gone /\ d.active = c.active /\ d.react = c.react /\ d.used = c.used
    /\ d.incoming = c.incoming /\ d.told = c.told /\ d.armed = c.armed /\ d.shows = c.shows

Flow(u, c, d) ==
    /\ Sound(u, d) /\ Appends(c, d) /\ Keeps(c, d) /\ Accounts(u, c, d) /\ Rekeys(c, d)
    /\ Fixed(c, d)

\* The numbers of a client.
LEMMA SizesIn ==
    ASSUME NEW u, NEW c, Typed(u, c)
    PROVE  c.n \in Nat /\ Len(c.tx) \in Nat /\ c.nextRid \in Nat /\ Len(c.hist) \in Nat
BY DEF Typed

\* One after the other.
LEMMA FlowTwice ==
    ASSUME NEW u \in Users, NEW c, NEW d, NEW e, Sound(u, c), Flow(u, c, d), Flow(u, d, e)
    PROVE  Flow(u, c, e)
<1>1. /\ Len(c.tx) \in Nat /\ Len(d.tx) \in Nat /\ Len(e.tx) \in Nat
      /\ c.n \in Nat /\ d.n \in Nat /\ e.n \in Nat
      /\ c.nextRid \in Nat /\ d.nextRid \in Nat /\ e.nextRid \in Nat
      /\ Len(c.hist) \in Nat /\ Len(d.hist) \in Nat /\ Len(e.hist) \in Nat
  <2>1. Typed(u, c) /\ Typed(u, d) /\ Typed(u, e)
    BY Zenon DEF Flow, Sound
  <2>2. c.n \in Nat /\ Len(c.tx) \in Nat /\ c.nextRid \in Nat /\ Len(c.hist) \in Nat
    BY <2>1, SizesIn, Zenon
  <2>3. d.n \in Nat /\ Len(d.tx) \in Nat /\ d.nextRid \in Nat /\ Len(d.hist) \in Nat
    BY <2>1, SizesIn, Zenon
  <2>4. e.n \in Nat /\ Len(e.tx) \in Nat /\ e.nextRid \in Nat /\ Len(e.hist) \in Nat
    BY <2>1, SizesIn, Zenon
  <2> QED BY <2>2, <2>3, <2>4
<1>2. Fixed(c, e)
  BY DEF Flow, Fixed
<1>3. Keeps(c, e)
  <2>1. Keeps(c, d) /\ Keeps(d, e)
    BY Zenon DEF Flow
  <2>2. Len(c.hist) <= Len(e.hist)
    BY <1>1, <2>1 DEF Keeps
  <2>3. ASSUME NEW i \in 1 .. Len(c.hist)
        PROVE  /\ e.hist[i].kind = c.hist[i].kind /\ e.hist[i].mid = c.hist[i].mid
               /\ e.hist[i].deleted => c.hist[i].deleted
    <3>1. i \in 1 .. Len(d.hist)
      BY <1>1, <2>1 DEF Keeps
    <3> QED BY <2>1, <3>1 DEF Keeps
  <2>4. ASSUME NEW i \in Len(c.hist) + 1 .. Len(e.hist) PROVE ~e.hist[i].deleted
    <3>1. i \in Len(c.hist) + 1 .. Len(d.hist) \/ i \in Len(d.hist) + 1 .. Len(e.hist)
      BY <1>1
    <3> QED BY <2>1, <3>1 DEF Keeps
  <2> QED BY <2>2, <2>3, <2>4 DEF Keeps
<1>4. Rekeys(c, e)
  <2>1. \A j \in DOMAIN e.box : e.box[j].rid \in Nat
    <3>1. e.box \in Seq(Items(u))
      BY DEF Flow, Sound, Typed
    <3> QED BY <3>1 DEF Items
  <2> QED BY <1>1, <2>1 DEF Flow, Rekeys
<1>5. Appends(c, e)
  <2>1. \A i \in New(c, e) : i \in New(d, e) \/ (i \in New(c, d) /\ e.tx[i] = d.tx[i])
    BY <1>1 DEF Flow, Appends, New
  <2>2. \A i \in 1 .. Len(c.tx) : e.tx[i] = c.tx[i]
    BY <1>1 DEF Flow, Appends
  <2>3. c.up \/ e.tx = c.tx
    BY DEF Flow, Appends, Fixed
  <2>4. \A i \in DOMAIN e.tx : e.tx[i].n \in Nat
    BY DEF Flow, Sound, Typed, Frames
  <2>5. \A i \in New(c, e) : i \in DOMAIN e.tx
    BY <1>1 DEF New, Flow, Sound, Typed
  <2>6. \A i \in New(c, e) : e.tx[i].kind \in Numbered => c.n <= e.tx[i].n /\ e.tx[i].n < e.n
    <3> SUFFICES ASSUME NEW i \in New(c, e), e.tx[i].kind \in Numbered
                 PROVE  c.n <= e.tx[i].n /\ e.tx[i].n < e.n
      OBVIOUS
    <3>1. c.n <= d.n /\ d.n <= e.n /\ e.tx[i].n \in Nat
      BY <2>4, <2>5 DEF Flow, Appends
    <3>2. CASE i \in New(d, e)
      <4>1. d.n <= e.tx[i].n /\ e.tx[i].n < e.n
        BY <3>2 DEF Flow, Appends
      <4> QED BY <1>1, <3>1, <4>1
    <3>3. CASE i \in New(c, d) /\ e.tx[i] = d.tx[i]
      <4>1. c.n <= e.tx[i].n /\ e.tx[i].n < d.n
        BY <3>3 DEF Flow, Appends
      <4> QED BY <1>1, <3>1, <4>1
    <3> QED BY <2>1, <3>2, <3>3
  <2>7. ASSUME NEW i \in New(c, e), NEW j \in New(c, e), i < j,
               e.tx[i].kind \in Numbered, e.tx[j].kind \in Numbered
        PROVE  e.tx[i].n < e.tx[j].n
    <3>1. e.tx[i].n \in Nat /\ e.tx[j].n \in Nat
      BY <2>4, <2>5
    <3>2. CASE i \in New(d, e) /\ j \in New(d, e)
      BY <2>7, <3>2 DEF Flow, Appends
    <3>3. CASE i \in New(c, d) /\ e.tx[i] = d.tx[i] /\ j \in New(c, d) /\ e.tx[j] = d.tx[j]
      BY <2>7, <3>3 DEF Flow, Appends
    <3>4. CASE i \in New(c, d) /\ e.tx[i] = d.tx[i] /\ j \in New(d, e)
      <4>1. e.tx[i].n < d.n /\ d.n <= e.tx[j].n
        BY <2>7, <3>4 DEF Flow, Appends
      <4> QED BY <1>1, <3>1, <4>1
    <3>5. ~(i \in New(d, e) /\ j \in New(c, d))
      BY <1>1, <2>7 DEF New
    <3> QED BY <2>1, <3>2, <3>3, <3>4, <3>5
  <2>8. \A i \in New(c, e) : e.tx[i].kind \in {"text", "init", "chunk", "end"}
    BY <2>1 DEF Flow, Appends
  <2>9. c.n <= e.n /\ Len(c.tx) <= Len(e.tx)
    BY <1>1 DEF Flow, Appends
  <2> QED BY <2>2, <2>3, <2>6, <2>7, <2>8, <2>9 DEF Appends
<1>6. Accounts(u, c, e)
  <2>1. \A k : Wrote(u, c, d, k) \/ Wrote(u, d, e, k) => Wrote(u, c, e, k)
    <3>1. \A i \in New(c, d) : i \in New(c, e) /\ e.tx[i] = d.tx[i]
      BY <1>1 DEF Flow, Appends, New
    <3>2. \A i \in New(d, e) : i \in New(c, e)
      BY <1>1 DEF Flow, Appends, New
    <3> QED BY <3>1, <3>2 DEF Wrote
  <2> QED BY <2>1, Zenon DEF Flow, Accounts
<1> QED BY <1>2, <1>3, <1>4, <1>5, <1>6 DEF Flow

\* No change.
LEMMA FlowSelf ==
    ASSUME NEW u \in Users, NEW c, Sound(u, c)
    PROVE  Flow(u, c, c)
<1>1. Len(c.tx) \in Nat /\ Len(c.hist) \in Nat /\ c.n \in Nat /\ c.nextRid \in Nat
  BY DEF Sound, Typed
<1>2. New(c, c) = {}
  BY <1>1 DEF New
<1>3. Appends(c, c) /\ Keeps(c, c) /\ Rekeys(c, c) /\ Fixed(c, c)
  BY <1>1, <1>2 DEF Appends, Keeps, Rekeys, Fixed
<1>4. Accounts(u, c, c)
  BY DEF Accounts
<1> QED BY <1>3, <1>4 DEF Flow

\* A row that is added to the history and to the screen.
LEMMA BothScreened ==
    ASSUME NEW u, NEW c, NEW d, Typed(u, c), Screened(c), NEW r \in Rows(u),
           ~r.deleted, ~r.me, ~r.peer,
           d.hist = Append(c.hist, r), d.screen = Append(c.screen, r), d.react = c.react,
           d.active = c.active
    PROVE  Screened(d)
<1>1. SUFFICES ASSUME d.active
               PROVE  Len(d.screen) = Len(d.hist) /\ \A i \in DOMAIN d.hist : Same(d, i)
  BY DEF Screened
<1>2. /\ c.hist \in Seq(Rows(u)) /\ c.screen \in Seq(Rows(u)) /\ Len(c.screen) = Len(c.hist)
      /\ \A i \in DOMAIN c.hist : Same(c, i)
  BY <1>1 DEF Typed, Screened
<1>3. Len(d.screen) = Len(d.hist)
  BY <1>2
<1>4. ASSUME NEW i \in DOMAIN d.hist PROVE Same(d, i)
  <2>1. CASE i \in DOMAIN c.hist
    <3>1. d.hist[i] = c.hist[i] /\ d.screen[i] = c.screen[i]
      BY <1>2, <2>1
    <3>2. \A j \in DOMAIN c.hist : j \in DOMAIN d.hist /\ d.hist[j] = c.hist[j]
      BY <1>2
    <3>3. Alone(d.hist, i) => Alone(c.hist, i)
      BY <2>1, <3>2 DEF Alone
    <3>4. Same(c, i)
      BY <1>2, <2>1
    <3> QED BY <3>1, <3>3, <3>4 DEF Same, Agrees
  <2>2. CASE i \notin DOMAIN c.hist
    <3>1. i = Len(c.hist) + 1
      BY <1>2, <2>2
    <3>2. d.hist[i] = r /\ d.screen[i] = r
      BY <1>2, <3>1
    <3> QED BY <3>2 DEF Same, Agrees
  <2> QED BY <2>1, <2>2
<1> QED BY <1>3, <1>4

\* deleteOutboxRow takes the rows of that key out of the table.
LEMMA BoxDelete ==
    ASSUME NEW u \in Users, NEW c, DOMAIN c = Fields, c.box \in Seq(Items(u)), NEW rid,
           \A i, j \in DOMAIN c.box : c.box[i].rid = c.box[j].rid => i = j
    PROVE  LET d == deleteOutboxRow(c, rid) IN
           /\ DOMAIN d = Fields /\ \A x \in Fields : x # "box" => d[x] = c[x]
           /\ d.box \in Seq(Items(u))
           /\ \A j \in DOMAIN d.box :
                 \E i \in DOMAIN c.box : c.box[i] = d.box[j] /\ c.box[i].rid # rid
           /\ \A i \in DOMAIN c.box :
                 c.box[i].rid # rid => \E j \in DOMAIN d.box : c.box[i] = d.box[j]
           /\ \A i, j \in DOMAIN d.box : d.box[i].rid = d.box[j].rid => i = j
<1> DEFINE d == deleteOutboxRow(c, rid)
           at == {i \in DOMAIN c.box : c.box[i].rid = rid}
<1>1. CASE at = {}
  <2>1. d = c
    BY <1>1 DEF deleteOutboxRow
  <2> QED BY <1>1, <2>1
<1>2. CASE at # {}
  <2> DEFINE m == CHOOSE j \in at : TRUE
             b == [j \in 1 .. Len(c.box) - 1 |-> IF j < m THEN c.box[j] ELSE c.box[j + 1]]
  <2>1. m \in DOMAIN c.box /\ c.box[m].rid = rid
    BY <1>2
  <2>2. d = [c EXCEPT !.box = b]
    BY <1>2 DEF deleteOutboxRow
  <2>3. Len(c.box) \in Nat /\ DOMAIN c.box = 1 .. Len(c.box) /\ \A i \in DOMAIN c.box : c.box[i] \in Items(u)
    OBVIOUS
  <2> HIDE DEF m
  <2>4. b \in Seq(Items(u)) /\ DOMAIN b = 1 .. Len(c.box) - 1
    <3>1. Len(c.box) - 1 \in Nat
      BY <2>1, <2>3
    <3>2. \A j \in 1 .. Len(c.box) - 1 : b[j] \in Items(u)
      BY <2>1, <2>3
    <3> QED BY <3>1, <3>2
  <2>5. \A j \in DOMAIN b : /\ j < m => j \in DOMAIN c.box /\ b[j] = c.box[j]
                            /\ j >= m => j + 1 \in DOMAIN c.box /\ b[j] = c.box[j + 1]
    BY <2>1, <2>3, <2>4
  <2>6. \A i \in DOMAIN c.box : /\ i < m => i \in DOMAIN b
                                /\ i > m => i - 1 \in DOMAIN b /\ i - 1 >= m /\ (i - 1) + 1 = i
    BY <2>1, <2>3, <2>4
  <2> HIDE DEF b
  <2>7. d.box = b /\ DOMAIN d = Fields /\ \A x \in Fields : x # "box" => d[x] = c[x]
    BY <2>2 DEF Fields
  <2>8. \A j \in DOMAIN b : \E i \in DOMAIN c.box : c.box[i] = b[j] /\ c.box[i].rid # rid
    <3> SUFFICES ASSUME NEW j \in DOMAIN b
                 PROVE  \E i \in DOMAIN c.box : c.box[i] = b[j] /\ c.box[i].rid # rid
      OBVIOUS
    <3>1. CASE j < m
      BY <2>1, <2>3, <2>5, <3>1
    <3>2. CASE j >= m
      <4>1. j + 1 # m
        BY <2>1, <2>3, <2>4, <3>2
      <4> QED BY <2>1, <2>5, <3>2, <4>1
    <3> QED BY <2>1, <2>3, <2>4, <3>1, <3>2
  <2>9. ASSUME NEW i \in DOMAIN c.box, c.box[i].rid # rid
        PROVE  \E j \in DOMAIN b : c.box[i] = b[j]
    <3>1. i < m \/ i > m
      BY <2>1, <2>3, <2>9
    <3>2. CASE i < m
      BY <2>5, <2>6, <3>2
    <3>3. CASE i > m
      BY <2>5, <2>6, <3>3
    <3> QED BY <3>1, <3>2, <3>3
  <2>10. ASSUME NEW i \in DOMAIN b, NEW j \in DOMAIN b, b[i].rid = b[j].rid
         PROVE  i = j
    <3>1. i \in Nat /\ j \in Nat /\ m \in Nat
      BY <2>1, <2>3, <2>4
    <3>2. CASE i < m /\ j < m
      BY <2>5, <2>10, <3>2
    <3>3. CASE i >= m /\ j >= m
      <4>1. i + 1 = j + 1
        BY <2>5, <2>10, <3>3
      <4> QED BY <3>1, <4>1
    <3>4. CASE i < m /\ j >= m
      <4>1. i = j + 1
        BY <2>5, <2>10, <3>4
      <4> QED BY <3>1, <3>4, <4>1
    <3>5. CASE i >= m /\ j < m
      <4>1. i + 1 = j
        BY <2>5, <2>10, <3>5
      <4> QED BY <3>1, <3>5, <4>1
    <3> QED BY <3>1, <3>2, <3>3, <3>4, <3>5
  <2> QED BY <2>4, <2>7, <2>8, <2>9, <2>10
<1> QED BY <1>1, <1>2

\* The parts of a typed client.
LEMMA PartsIn ==
    ASSUME NEW u, NEW c, Typed(u, c)
    PROVE  /\ c.hist \in Seq(Rows(u)) /\ c.screen \in Seq(Rows(u)) /\ c.box \in Seq(Items(u))
           /\ c.outbox \in Seq(Items(u)) /\ c.tx \in Seq(Frames(u)) /\ DOMAIN c = Fields
           /\ c.n \in Nat \ {0} /\ c.ids \in Nat /\ c.next \in Nat /\ c.nextRid \in Nat
BY DEF Typed

\* One more element at the end.
Plus(q, x, p) == p = Append(q, x)

\* What that means.
LEMMA Appended ==
    ASSUME NEW S, NEW q, q \in Seq(S), NEW x, x \in S, NEW p, Plus(q, x, p)
    PROVE  /\ p \in Seq(S) /\ p # <<>> /\ Len(q) \in Nat /\ Len(p) = Len(q) + 1
           /\ DOMAIN q = 1 .. Len(q) /\ DOMAIN p = 1 .. Len(p)
           /\ \A i \in DOMAIN q : i \in DOMAIN p /\ p[i] = q[i]
           /\ \A i \in DOMAIN p : i \in DOMAIN q \/ (i = Len(q) + 1 /\ p[i] = x)
           /\ Len(q) + 1 \in DOMAIN p /\ p[Len(q) + 1] = x
BY DEF Plus

\* A new item in the table and in the queue.
LEMMA QueueBoxed ==
    ASSUME NEW u \in Users, NEW c, Typed(u, c), Boxed(c), NEW item \in Items(u), NEW row \in Items(u),
           item.rid = c.nextRid, row.rid = c.nextRid, row.k = item.k, row.kind = item.kind,
           NEW d, Plus(c.box, row, d.box), Plus(c.outbox, item, d.outbox),
           d.nextRid = c.nextRid + 1
    PROVE  /\ Boxed(d) /\ Rekeys(c, d) /\ d.box \in Seq(Items(u)) /\ d.outbox \in Seq(Items(u))
           /\ d.nextRid \in Nat /\ d.outbox # <<>>
           /\ \A k : InBox(c, k) => InBox(d, k)
           /\ row.kind = "text" => InBox(d, row.k)
<1>1. /\ c.box \in Seq(Items(u)) /\ c.outbox \in Seq(Items(u)) /\ c.nextRid \in Nat
  BY PartsIn, Zenon
<1>2. d.box \in Seq(Items(u)) /\ d.outbox \in Seq(Items(u)) /\ d.nextRid \in Nat /\ d.outbox # <<>>
  <2>1. d.nextRid \in Nat
    BY <1>1
  <2>2. d.box \in Seq(Items(u))
    BY <1>1, Appended, Zenon
  <2>3. d.outbox \in Seq(Items(u))
    BY <1>1, Appended, Zenon
  <2>4. d.outbox # <<>>
    <3>1. Len(d.outbox) = Len(c.outbox) + 1 /\ Len(c.outbox) \in Nat
      BY <1>1, Appended
    <3> QED BY <3>1
  <2> QED BY <2>1, <2>2, <2>3, <2>4
<1>3. /\ \A j \in DOMAIN c.box : j \in DOMAIN d.box /\ d.box[j] = c.box[j]
      /\ \A j \in DOMAIN d.box : j \in DOMAIN c.box \/ (j = Len(c.box) + 1 /\ d.box[j] = row)
      /\ Len(c.box) + 1 \in DOMAIN d.box /\ d.box[Len(c.box) + 1] = row
  BY <1>1, Appended
<1>4. /\ \A j \in DOMAIN c.outbox : j \in DOMAIN d.outbox /\ d.outbox[j] = c.outbox[j]
      /\ \A j \in DOMAIN d.outbox : j \in DOMAIN c.outbox \/ d.outbox[j] = item
  BY <1>1, Appended
<1>5. /\ \A j \in DOMAIN c.box : c.box[j].rid \in Nat /\ c.box[j].rid < c.nextRid
      /\ \A j \in DOMAIN c.outbox : c.outbox[j].rid \in Nat /\ c.outbox[j].rid < c.nextRid
  <2>1. \A i \in Items(u) : i.rid \in Nat
    BY DEF Items
  <2>2. /\ \A j \in DOMAIN c.box : c.box[j] \in Items(u)
        /\ \A j \in DOMAIN c.outbox : c.outbox[j] \in Items(u)
    BY <1>1
  <2>3. Below(c.box, c.nextRid) /\ Below(c.outbox, c.nextRid)
    BY DEF Boxed
  <2> QED BY <2>1, <2>2, <2>3 DEF Below
<1>6. Below(d.box, d.nextRid) /\ Below(d.outbox, d.nextRid)
  <2>1. \A j \in DOMAIN d.box : d.box[j].rid < c.nextRid + 1
    BY <1>1, <1>3, <1>5
  <2>2. \A j \in DOMAIN d.outbox : d.outbox[j].rid < c.nextRid + 1
    BY <1>1, <1>4, <1>5
  <2> QED BY <2>1, <2>2, Zenon DEF Below
<1>7. ASSUME NEW i \in DOMAIN d.box, NEW j \in DOMAIN d.box, d.box[i].rid = d.box[j].rid PROVE i = j
  <2>1. \A x \in DOMAIN c.box : c.box[x].rid # c.nextRid
    BY <1>1, <1>5
  <2>2. \A x, y \in DOMAIN c.box : c.box[x].rid = c.box[y].rid => x = y
    BY DEF Boxed
  <2> QED BY <1>3, <1>7, <2>1, <2>2
<1>8. Agree(d.outbox, d.box)
  <2>1. Agree(c.outbox, c.box)
    BY DEF Boxed
  <2>2. \A x \in DOMAIN c.box : c.box[x].rid # c.nextRid
    BY <1>1, <1>5
  <2>3. \A x \in DOMAIN c.outbox : c.outbox[x].rid # c.nextRid
    BY <1>1, <1>5
  <2>4. ASSUME NEW i \in DOMAIN d.outbox, NEW j \in DOMAIN d.box, d.outbox[i].rid = d.box[j].rid
        PROVE  d.outbox[i].k = d.box[j].k /\ d.outbox[i].kind = d.box[j].kind
    <3>1. CASE i \in DOMAIN c.outbox /\ j \in DOMAIN c.box
      BY <1>3, <1>4, <2>1, <2>4, <3>1 DEF Agree
    <3>2. CASE i \in DOMAIN c.outbox /\ d.box[j] = row
      BY <1>4, <2>3, <2>4, <3>2
    <3>3. CASE d.outbox[i] = item /\ j \in DOMAIN c.box
      BY <1>3, <2>2, <2>4, <3>3
    <3>4. CASE d.outbox[i] = item /\ d.box[j] = row
      BY <3>4
    <3> QED BY <1>3, <1>4, <3>1, <3>2, <3>3, <3>4
  <2> QED BY <2>4 DEF Agree
<1>9. Rekeys(c, d)
  BY <1>1, <1>3 DEF Rekeys
<1>10. \A k : InBox(c, k) => InBox(d, k)
  BY <1>3 DEF InBox
<1>11. row.kind = "text" => InBox(d, row.k)
  BY <1>3 DEF InBox
<1> QED BY <1>2, <1>6, <1>7, <1>8, <1>9, <1>10, <1>11 DEF Boxed

\* A file that is queued.
LEMMA QueueFileFlow ==
    ASSUME NEW u \in Users, NEW c, Sound(u, c), NEW k \in Nat
    PROVE  Flow(u, c, queueOutboxFile(c, k))
<1> DEFINE item == [rid |-> c.nextRid, kind |-> "file", k |-> k, mid |-> <<>>]
           d == [c EXCEPT !.box = Append(@, item), !.outbox = Append(@, item), !.nextRid = @ + 1]
<1>1. queueOutboxFile(c, k) = d
  BY DEF queueOutboxFile
<1>2. Typed(u, c) /\ Boxed(c) /\ Screened(c) /\ c.savedN = c.n
  BY DEF Sound
<1>3. c.nextRid \in Nat /\ DOMAIN c = Fields
  BY <1>2, PartsIn, Zenon
<1>4. item \in Items(u) /\ item.rid = c.nextRid /\ item.kind = "file"
  BY <1>3 DEF Items
<1> HIDE DEF item
<1>5. /\ Plus(c.box, item, d.box) /\ Plus(c.outbox, item, d.outbox)
      /\ d.nextRid = c.nextRid + 1 /\ DOMAIN d = Fields
      /\ \A x \in Fields : x \notin {"box", "outbox", "nextRid"} => d[x] = c[x]
  BY <1>3 DEF Fields, Plus
<1> HIDE DEF d
<1>6. /\ Boxed(d) /\ Rekeys(c, d) /\ d.box \in Seq(Items(u)) /\ d.outbox \in Seq(Items(u))
      /\ d.nextRid \in Nat /\ \A x : InBox(c, x) => InBox(d, x)
  BY <1>2, <1>4, <1>5, QueueBoxed, Zenon
<1>7. /\ Fixed(c, d) /\ d.hist = c.hist /\ d.screen = c.screen /\ d.tx = c.tx /\ d.n = c.n
      /\ d.savedN = c.savedN /\ d.next = c.next
  BY <1>5 DEF Fixed, Fields
<1>8. Typed(u, d)
  <2>1. /\ d.n = c.n /\ d.ids = c.ids /\ d.next = c.next /\ d.used = c.used
        /\ d.incoming = c.incoming /\ d.shows = c.shows /\ d.up = c.up /\ d.hi = c.hi
    BY <1>5, <1>7 DEF Fixed, Fields
  <2> QED BY <1>2, <1>5, <1>6, <1>7, <2>1, Zenon DEF Typed
<1>9. Screened(d)
  <2>1. \A i : Same(c, i) => Same(d, i)
    BY <1>7 DEF Same, Agrees, Fixed
  <2> QED BY <1>2, <1>7, <2>1 DEF Screened, Fixed
<1>10. Appends(c, d) /\ Keeps(c, d)
  <2>1. Len(c.tx) \in Nat /\ Len(c.hist) \in Nat /\ c.n \in Nat
    BY <1>2, SizesIn, Zenon
  <2>2. New(c, d) = {}
    BY <1>7, <2>1 DEF New
  <2> QED BY <1>7, <2>1, <2>2 DEF Appends, Keeps
<1>11. Accounts(u, c, d)
  BY <1>6, <1>7 DEF Accounts
<1> QED BY <1>1, <1>2, <1>6, <1>7, <1>8, <1>9, <1>10, <1>11 DEF Flow, Sound

\* One sequence behind the other.
Join(S, q, r, p) ==
    /\ p \in Seq(S) /\ Len(q) \in Nat /\ Len(r) \in Nat /\ Len(p) = Len(q) + Len(r)
    /\ DOMAIN q = 1 .. Len(q) /\ DOMAIN r = 1 .. Len(r) /\ DOMAIN p = 1 .. Len(q) + Len(r)
    /\ \A i \in DOMAIN q : i \in DOMAIN p /\ p[i] = q[i]
    /\ \A i \in DOMAIN r : Len(q) + i \in DOMAIN p /\ p[Len(q) + i] = r[i]
    /\ \A i \in DOMAIN p :
          i \in DOMAIN q \/ (i > Len(q) /\ i - Len(q) \in DOMAIN r /\ p[i] = r[i - Len(q)])

\* It is what \o gives.
LEMMA Joined ==
    ASSUME NEW S, NEW q, q \in Seq(S), NEW r, r \in Seq(S)
    PROVE  Join(S, q, r, q \o r)
BY DEF Join

\* The frames of a file behind those that were written before.
Pumped(t, f, q, e, p) == p = Append(t, f) \o q \o <<e>>

\* Where they are.
Behind(S, t, f, q, e, p) ==
    /\ p \in Seq(S) /\ Len(t) \in Nat /\ Len(p) \in Nat /\ Len(t) < Len(p)
    /\ \A i \in 1 .. Len(t) : p[i] = t[i]
    /\ p[Len(t) + 1] = f
    /\ \A i \in Len(t) + 2 .. Len(p) : p[i] = e \/ \E j \in DOMAIN q : p[i] = q[j]

\* They are there.
LEMMA PumpTx ==
    ASSUME NEW S, NEW t, t \in Seq(S), NEW f \in S, NEW q, q \in Seq(S), NEW e \in S, NEW p,
           Pumped(t, f, q, e, p)
    PROVE  Behind(S, t, f, q, e, p)
<1> DEFINE a == Append(t, f)
           b == a \o q
<1>1. /\ a \in Seq(S) /\ Len(t) \in Nat /\ Len(a) = Len(t) + 1 /\ DOMAIN a = 1 .. Len(a)
      /\ \A i \in 1 .. Len(t) : a[i] = t[i]
      /\ a[Len(t) + 1] = f
  OBVIOUS
<1> HIDE DEF a
<1>2. /\ b \in Seq(S) /\ Len(q) \in Nat /\ Len(a) \in Nat /\ Len(b) = Len(a) + Len(q)
      /\ DOMAIN b = 1 .. Len(a) + Len(q)
      /\ \A i \in DOMAIN a : b[i] = a[i]
      /\ \A i \in DOMAIN b : i \in DOMAIN a \/ (i - Len(a) \in DOMAIN q /\ b[i] = q[i - Len(a)])
  <2>1. a \in Seq(S)
    BY <1>1
  <2> HIDE DEF b
  <2>2. b = a \o q
    BY DEF b
  <2>3. Join(S, a, q, b)
    BY <2>1, <2>2, Joined, Zenon
  <2> QED BY <1>1, <2>3 DEF Join
<1> HIDE DEF b
<1>3. /\ p \in Seq(S) /\ Len(p) = Len(b) + 1
      /\ \A i \in DOMAIN b : p[i] = b[i]
      /\ p[Len(b) + 1] = e
  <2>1. p = b \o <<e>>
    BY DEF a, b, Pumped
  <2> DEFINE r == <<e>>
  <2>2. r \in Seq(S) /\ Len(r) = 1 /\ 1 \in DOMAIN r /\ r[1] = e
    OBVIOUS
  <2> HIDE DEF r
  <2>3. p = b \o r
    BY <2>1 DEF r
  <2>4. b \in Seq(S)
    BY <1>2
  <2>5. /\ p \in Seq(S) /\ Len(p) = Len(b) + Len(r)
        /\ \A i \in DOMAIN b : p[i] = b[i]
        /\ \A i \in DOMAIN r : p[Len(b) + i] = r[i]
    <3>1. Join(S, b, r, p)
      BY <2>2, <2>3, <2>4, Joined, Zenon
    <3> QED BY <3>1 DEF Join
  <2> QED BY <2>2, <2>5
<1>4. \A i \in 1 .. Len(t) : p[i] = t[i]
  <2>1. \A i \in 1 .. Len(t) : i \in DOMAIN a /\ i \in DOMAIN b
    BY <1>1, <1>2
  <2> QED BY <1>1, <1>2, <1>3, <2>1
<1>5. p[Len(t) + 1] = f
  <2>1. Len(t) + 1 \in DOMAIN a /\ Len(t) + 1 \in DOMAIN b
    BY <1>1, <1>2
  <2> QED BY <1>1, <1>2, <1>3, <2>1
<1>6. ASSUME NEW i \in Len(t) + 2 .. Len(p) PROVE p[i] = e \/ \E j \in DOMAIN q : p[i] = q[j]
  <2>1. CASE i = Len(b) + 1
    BY <1>3, <2>1
  <2>2. CASE i # Len(b) + 1
    <3>1. i \in DOMAIN b /\ i \notin DOMAIN a
      <4>0. Len(b) \in Nat /\ Len(p) = Len(b) + 1 /\ Len(t) \in Nat
        BY <1>1, <1>2, <1>3
      <4>1. i \in Nat /\ i >= Len(t) + 2 /\ i <= Len(b)
        BY <2>2, <4>0
      <4> QED BY <1>1, <1>2, <4>1
    <3> QED BY <1>2, <1>3, <3>1
  <2> QED BY <2>1, <2>2
<1>7. Len(p) \in Nat /\ Len(t) < Len(p)
  BY <1>1, <1>2, <1>3
<1> QED BY <1>1, <1>3, <1>4, <1>5, <1>6, <1>7 DEF Behind

\* The texts of the history g are those of h, and row r.
Adds(h, r, g) ==
    \A w, k : Has(g, w, k) =>
        Has(h, w, k) \/ (r.kind = "text" /\ r.mid[1] = w /\ r.mid[2] = k)

\* A row more in the history.
LEMMA KeepsMore ==
    ASSUME NEW u \in Users, NEW c, NEW d, Typed(u, c), NEW r \in Rows(u), ~r.deleted,
           Plus(c.hist, r, d.hist)
    PROVE  /\ Keeps(c, d) /\ d.hist \in Seq(Rows(u))
           /\ \A w, k : Has(c.hist, w, k) => Has(d.hist, w, k)
           /\ Adds(c.hist, r, d.hist)
           /\ r.kind = "text" => Has(d.hist, r.mid[1], r.mid[2])
<1>1. c.hist \in Seq(Rows(u))
  BY PartsIn, Zenon
<1>2. /\ d.hist \in Seq(Rows(u)) /\ Len(c.hist) \in Nat /\ Len(d.hist) = Len(c.hist) + 1
      /\ DOMAIN c.hist = 1 .. Len(c.hist) /\ DOMAIN d.hist = 1 .. Len(d.hist)
      /\ \A i \in DOMAIN c.hist : i \in DOMAIN d.hist /\ d.hist[i] = c.hist[i]
      /\ \A i \in DOMAIN d.hist : i \in DOMAIN c.hist \/ (i = Len(c.hist) + 1 /\ d.hist[i] = r)
      /\ Len(c.hist) + 1 \in DOMAIN d.hist /\ d.hist[Len(c.hist) + 1] = r
  BY <1>1, Appended
<1>3. Keeps(c, d)
  BY <1>2 DEF Keeps
<1>4. \A w, k : Has(c.hist, w, k) => Has(d.hist, w, k)
  BY <1>2 DEF Has
<1>5. Adds(c.hist, r, d.hist)
  BY <1>2 DEF Has, Adds
<1>6. r.kind = "text" => Has(d.hist, r.mid[1], r.mid[2])
  BY <1>2 DEF Has
<1> QED BY <1>2, <1>3, <1>4, <1>5, <1>6

\* A file that is sent.
LEMMA PumpFlow ==
    ASSUME NEW u \in Users, NEW c, Sound(u, c), NEW k \in Nat, c.up
    PROVE  LET mid == <<u, k, c.ids>> IN
           Flow(u, c, pumpOutgoingFile(
               persistSession(encryptFor(Write([c EXCEPT !.ids = @ + 1],
                                               Frame("init", mid, 0, c.n, FALSE)))), mid))
<1> DEFINE mid == <<u, k, c.ids>>
           row == Row("file", mid, Chunks, TRUE)
           f == Frame("init", mid, 0, c.n, FALSE)
           q == [i \in 1 .. Chunks |-> encryptChunk(mid, i)]
           e == Frame("end", mid, 0, 0, FALSE)
           d == pumpOutgoingFile(persistSession(encryptFor(Write([c EXCEPT !.ids = @ + 1], f))), mid)
<1>1. Typed(u, c) /\ Boxed(c) /\ Screened(c) /\ c.savedN = c.n
  BY DEF Sound
<1>2. DOMAIN c = Fields /\ c.n \in Nat /\ c.tx \in Seq(Frames(u)) /\ c.ids \in Nat
  BY <1>1, PartsIn
<1>3. mid \in MidSet /\ mid[1] = u
  BY <1>2, MidIn
<1> HIDE DEF mid
<1>4. row \in Rows(u) /\ row.kind = "file" /\ ~row.deleted /\ ~row.me /\ ~row.peer
  <2>1. Chunks \in Nat
    BY ChunksAssumption
  <2> QED BY <1>3, <2>1 DEF Row, Rows
<1>5. f \in Frames(u) /\ f.kind = "init" /\ f.n = c.n
  <2>1. f \in Frames(u)
    BY <1>2, <1>3, FrameIn DEF Kinds
  <2> QED BY <2>1 DEF Frame
<1>6. e \in Frames(u) /\ e.kind = "end"
  <2>1. e \in Frames(u)
    BY <1>2, <1>3, FrameIn DEF Kinds
  <2> QED BY <2>1 DEF Frame
<1>7. /\ q \in Seq(Frames(u)) /\ \A j \in DOMAIN q : q[j].kind = "chunk"
  <2>1. ASSUME NEW i \in 1 .. Chunks PROVE encryptChunk(mid, i) \in Frames(u) /\ encryptChunk(mid, i).kind = "chunk"
    <3>1. i - 1 \in Nat /\ (i = Chunks) \in BOOLEAN
      BY ChunksAssumption
    <3>2. Frame("chunk", mid, i - 1, 0, i = Chunks) \in Frames(u)
      BY <1>3, <3>1, FrameIn DEF Kinds
    <3> QED BY <3>2 DEF encryptChunk, Frame
  <2> QED BY <2>1, ChunksAssumption
<1> HIDE DEF row, f, q, e
<1>8. /\ DOMAIN d = Fields
      /\ Pumped(c.tx, f, q, e, d.tx)
      /\ d.n = c.n + 1 /\ d.savedN = c.n + 1 /\ d.ids = c.ids + 1
      /\ Plus(c.hist, row, d.hist) /\ Plus(c.screen, row, d.screen)
      /\ \A x \in Fields : x \notin {"tx", "n", "savedN", "ids", "hist", "screen"} => d[x] = c[x]
  BY <1>2 DEF pumpOutgoingFile, persistSession, encryptFor, Write, addFileRow, appendFileMessage,
              row, q, e, Fields, Plus, Pumped
<1> HIDE DEF d
<1>9. /\ Fixed(c, d) /\ d.box = c.box /\ d.outbox = c.outbox /\ d.nextRid = c.nextRid /\ d.next = c.next
  BY <1>8 DEF Fixed, Fields
<1>10. /\ Keeps(c, d) /\ d.hist \in Seq(Rows(u))
       /\ \A w, x : Has(d.hist, w, x) => Has(c.hist, w, x)
  BY <1>1, <1>4, <1>8, KeepsMore DEF Adds
<1>11. d.screen \in Seq(Rows(u))
  <2>1. c.screen \in Seq(Rows(u))
    BY <1>1, PartsIn, Zenon
  <2>2. Plus(c.screen, row, d.screen)
    BY <1>8
  <2> QED BY <1>4, <2>1, <2>2, Appended, Zenon
<1>12. /\ d.tx \in Seq(Frames(u)) /\ Len(c.tx) \in Nat /\ Len(d.tx) \in Nat /\ Len(c.tx) < Len(d.tx)
       /\ \A i \in 1 .. Len(c.tx) : d.tx[i] = c.tx[i]
       /\ d.tx[Len(c.tx) + 1] = f
       /\ \A i \in Len(c.tx) + 2 .. Len(d.tx) : d.tx[i] = e \/ \E j \in DOMAIN q : d.tx[i] = q[j]
  <2>1. Pumped(c.tx, f, q, e, d.tx)
    BY <1>8
  <2>2. /\ c.tx \in Seq(Frames(u)) /\ q \in Seq(Frames(u))
        /\ f \in Frames(u) /\ e \in Frames(u)
    BY <1>2, <1>5, <1>6, <1>7
  <2>3. Behind(Frames(u), c.tx, f, q, e, d.tx)
    BY <2>1, <2>2, PumpTx, Zenon
  <2> QED BY <2>3, Zenon DEF Behind
<1>13. \A i \in New(c, d) : (i = Len(c.tx) + 1 /\ d.tx[i] = f) \/ d.tx[i].kind \in {"chunk", "end"}
  <2>1. \A i \in New(c, d) : i = Len(c.tx) + 1 \/ i \in Len(c.tx) + 2 .. Len(d.tx)
    BY <1>12 DEF New
  <2> QED BY <1>6, <1>7, <1>12, <2>1
<1>14. Appends(c, d)
  <2>1. \A i \in New(c, d) : d.tx[i].kind \in Numbered => i = Len(c.tx) + 1 /\ d.tx[i].n = c.n
    BY <1>5, <1>13 DEF Numbered
  <2>2. \A i \in New(c, d) : d.tx[i].kind \in {"text", "init", "chunk", "end"}
    BY <1>5, <1>13
  <2>3. \A i \in New(c, d) : d.tx[i].kind \in Numbered => c.n <= d.tx[i].n /\ d.tx[i].n < d.n
    <3>1. d.n = c.n + 1
      BY <1>8
    <3> QED BY <1>2, <2>1, <3>1
  <2>4. \A i, j \in New(c, d) :
           (i < j /\ d.tx[i].kind \in Numbered /\ d.tx[j].kind \in Numbered) => d.tx[i].n < d.tx[j].n
    BY <1>12, <2>1
  <2>5. c.n <= d.n
    <3>1. d.n = c.n + 1
      BY <1>8
    <3> QED BY <1>2, <3>1
  <2>6. Len(c.tx) <= Len(d.tx)
    BY <1>12
  <2> QED BY <1>12, <2>2, <2>3, <2>4, <2>5, <2>6, Zenon DEF Appends
<1>15. Typed(u, d)
  <2>1. /\ d.used = c.used
        /\ d.incoming = c.incoming /\ d.shows = c.shows /\ d.up = c.up /\ d.hi = c.hi
    BY <1>9 DEF Fixed
  <2>2. d.n \in Nat \ {0} /\ d.ids \in Nat
    BY <1>2, <1>8
  <2> QED BY <1>1, <1>8, <1>9, <1>10, <1>11, <1>12, <2>1, <2>2, Zenon DEF Typed
<1>16. Screened(d)
  <2>1. d.react = c.react /\ d.active = c.active
    BY <1>9 DEF Fixed
  <2> QED BY <1>1, <1>4, <1>8, <2>1, BothScreened DEF Plus
<1>17. Boxed(d) /\ Rekeys(c, d)
  <2>1. c.nextRid \in Nat
    BY <1>1, PartsIn, Zenon
  <2> QED BY <1>1, <1>9, <2>1 DEF Boxed, Rekeys
<1>18. Accounts(u, c, d)
  <2>1. \A x : InBox(c, x) => InBox(d, x)
    BY <1>9 DEF InBox
  <2> QED BY <1>10, <2>1 DEF Accounts
<1>19. Flow(u, c, d)
  BY <1>8, <1>9, <1>10, <1>14, <1>15, <1>16, <1>17, <1>18 DEF Flow, Sound
<1> QED BY <1>19 DEF d, f, mid

\* sendFile.
LEMMA SendFileFlow ==
    ASSUME NEW u \in Users, NEW c, Sound(u, c), NEW k \in Nat
    PROVE  /\ Flow(u, c, sendFile(c, u, k))
           /\ (c.up /\ c.gate = "open") => sendFile(c, u, k).outbox = c.outbox
<1>1. c.up /\ c.gate = "open" => sendFile(c, u, k).outbox = c.outbox
  <2>1. DOMAIN c = Fields
    BY PartsIn DEF Sound
  <2> QED BY <2>1 DEF sendFile, pumpOutgoingFile, persistSession, encryptFor, Write, addFileRow,
                      appendFileMessage, Fields
<1>2. CASE c.gate = "blocked" \/ ~c.up
  <2>1. sendFile(c, u, k) = queueOutboxFile(c, k)
    BY <1>2 DEF sendFile
  <2> QED BY <1>1, <2>1, QueueFileFlow, Zenon
<1>3. CASE ~(c.gate = "blocked" \/ ~c.up) /\ ~c.keyed
  <2>1. sendFile(c, u, k) = c
    BY <1>3 DEF sendFile
  <2> QED BY <1>1, <2>1, FlowSelf, Zenon
<1>4. CASE ~(c.gate = "blocked" \/ ~c.up) /\ c.keyed /\ c.gate = "waiting"
  <2>1. sendFile(c, u, k) = queueOutboxFile(c, k)
    BY <1>4 DEF sendFile
  <2> QED BY <1>1, <2>1, QueueFileFlow, Zenon
<1>5. CASE ~(c.gate = "blocked" \/ ~c.up) /\ c.keyed /\ c.gate # "waiting"
  <2> DEFINE mid == <<u, k, c.ids>>
  <2>1. sendFile(c, u, k) = pumpOutgoingFile(
            persistSession(encryptFor(Write([c EXCEPT !.ids = @ + 1],
                                            Frame("init", mid, 0, c.n, FALSE)))), mid)
    BY <1>5 DEF sendFile
  <2>2. c.up
    BY <1>5
  <2> QED BY <1>1, <2>1, <2>2, PumpFlow, Zenon
<1> QED BY <1>2, <1>3, <1>4, <1>5

\* An item that agrees with the table.
Fits(u, c, item) ==
    /\ item \in Items(u) /\ item.rid < c.nextRid
    /\ \A j \in DOMAIN c.box :
          c.box[j].rid = item.rid => c.box[j].k = item.k /\ c.box[j].kind = item.kind

\* A text of the queue is written.
LEMMA TextFlow ==
    ASSUME NEW u \in Users, NEW c, Sound(u, c), c.up, NEW item, item \in Items(u)
    PROVE  LET d == persistSession(FlushText(c, u, item)) IN
           Flow(u, c, d) /\ Wrote(u, c, d, item.k) /\ d.outbox = c.outbox
<1> DEFINE mid == IF item.mid = <<>> THEN <<u, item.k, c.ids>> ELSE item.mid
           f == Frame("text", mid, 0, c.n, FALSE)
           d == persistSession(FlushText(c, u, item))
<1>1. Typed(u, c) /\ Boxed(c) /\ Screened(c) /\ c.savedN = c.n
  BY DEF Sound
<1>2. DOMAIN c = Fields /\ c.n \in Nat /\ c.tx \in Seq(Frames(u)) /\ c.ids \in Nat
  BY <1>1, PartsIn
<1>3. mid \in MidSet /\ mid[1] = u /\ mid[2] = item.k
  <2>1. item.k \in Nat /\ (item.mid # <<>> => item.mid \in MidSet /\ item.mid[1] = u /\ item.mid[2] = item.k)
    BY DEF Items
  <2> QED BY <1>2, <2>1, MidIn
<1> HIDE DEF mid
<1>4. f \in Frames(u) /\ f.kind = "text" /\ f.n = c.n /\ f.mid = mid
  <2>1. f \in Frames(u)
    BY <1>2, <1>3, FrameIn DEF Kinds
  <2> QED BY <2>1 DEF Frame
<1> HIDE DEF f
<1>5. /\ DOMAIN d = Fields /\ Plus(c.tx, f, d.tx) /\ d.n = c.n + 1 /\ d.savedN = c.n + 1
      /\ \A x \in Fields : x \notin {"tx", "n", "savedN"} => d[x] = c[x]
  BY <1>2 DEF persistSession, FlushText, encryptFor, Write, f, mid, Fields, Plus
<1> HIDE DEF d
<1>6. /\ Fixed(c, d) /\ d.box = c.box /\ d.outbox = c.outbox /\ d.nextRid = c.nextRid
      /\ d.next = c.next /\ d.hist = c.hist /\ d.screen = c.screen
  BY <1>5 DEF Fixed, Fields
<1>7. /\ d.tx \in Seq(Frames(u)) /\ Len(c.tx) \in Nat /\ Len(d.tx) = Len(c.tx) + 1
      /\ DOMAIN c.tx = 1 .. Len(c.tx)
      /\ \A i \in DOMAIN c.tx : d.tx[i] = c.tx[i]
      /\ d.tx[Len(c.tx) + 1] = f
  BY <1>2, <1>4, <1>5, Appended
<1>8. New(c, d) = {Len(c.tx) + 1}
  BY <1>7 DEF New
<1>9. Appends(c, d)
  <2>1. d.n = c.n + 1 /\ c.n <= d.n
    BY <1>2, <1>5
  <2>2. Len(c.tx) <= Len(d.tx) /\ \A i \in 1 .. Len(c.tx) : d.tx[i] = c.tx[i]
    BY <1>7
  <2>3. \A i, j \in New(c, d) : ~(i < j)
    BY <1>7, <1>8
  <2>4. \A i \in New(c, d) : d.tx[i] = f
    BY <1>7, <1>8
  <2>5. c.n <= f.n /\ f.n < d.n
    BY <1>2, <1>4, <2>1
  <2> QED BY <1>4, <2>1, <2>2, <2>3, <2>4, <2>5 DEF Appends
<1>10. Typed(u, d)
  <2>1. /\ d.ids = c.ids /\ d.used = c.used
        /\ d.incoming = c.incoming /\ d.shows = c.shows /\ d.up = c.up /\ d.hi = c.hi
    BY <1>5, <1>6 DEF Fixed, Fields
  <2>2. d.n \in Nat \ {0}
    BY <1>2, <1>5
  <2> QED BY <1>1, <1>5, <1>6, <1>7, <2>1, <2>2, Zenon DEF Typed
<1>11. Screened(d)
  <2>1. \A i : Same(c, i) => Same(d, i)
    BY <1>6 DEF Same, Agrees, Fixed
  <2> QED BY <1>1, <1>6, <2>1 DEF Screened, Fixed
<1>12. Boxed(d) /\ Rekeys(c, d) /\ Keeps(c, d)
  <2>1. c.nextRid \in Nat /\ Len(c.hist) \in Nat
    BY <1>1, SizesIn, Zenon
  <2> QED BY <1>1, <1>6, <2>1 DEF Boxed, Rekeys, Keeps
<1>13. Accounts(u, c, d)
  <2>1. \A x : InBox(c, x) => InBox(d, x)
    BY <1>6 DEF InBox
  <2> QED BY <1>6, <2>1 DEF Accounts
<1>14. Wrote(u, c, d, item.k)
  BY <1>3, <1>4, <1>7, <1>8 DEF Wrote
<1>15. Flow(u, c, d)
  <2>1. d.savedN = d.n
    BY <1>5
  <2> QED BY <1>6, <1>9, <1>10, <1>11, <1>12, <1>13, <2>1 DEF Flow, Sound
<1> QED BY <1>6, <1>14, <1>15 DEF d

\* The row of an item that has been dealt with is deleted.
LEMMA DropRowFlow ==
    ASSUME NEW u \in Users, NEW c, NEW e, Sound(u, c), Flow(u, c, e), NEW item, Fits(u, c, item),
           item.kind = "text" => Wrote(u, c, e, item.k)
    PROVE  LET d == deleteOutboxRow(e, item.rid) IN Flow(u, c, d) /\ d.outbox = e.outbox
<1> DEFINE d == deleteOutboxRow(e, item.rid)
<1>1. Typed(u, e) /\ Boxed(e) /\ Screened(e) /\ e.savedN = e.n
  BY DEF Flow, Sound
<1>2. DOMAIN e = Fields /\ e.box \in Seq(Items(u)) /\ e.nextRid \in Nat
  BY <1>1, PartsIn, Zenon
<1>3. \A i, j \in DOMAIN e.box : e.box[i].rid = e.box[j].rid => i = j
  BY <1>1 DEF Boxed
<1>4. /\ DOMAIN d = Fields /\ \A x \in Fields : x # "box" => d[x] = e[x]
      /\ d.box \in Seq(Items(u))
      /\ \A j \in DOMAIN d.box :
            \E i \in DOMAIN e.box : e.box[i] = d.box[j] /\ e.box[i].rid # item.rid
      /\ \A i \in DOMAIN e.box :
            e.box[i].rid # item.rid => \E j \in DOMAIN d.box : e.box[i] = d.box[j]
      /\ \A i, j \in DOMAIN d.box : d.box[i].rid = d.box[j].rid => i = j
  BY <1>2, <1>3, BoxDelete, Zenon
<1> HIDE DEF d
<1>5. /\ d.outbox = e.outbox /\ d.nextRid = e.nextRid /\ d.hist = e.hist /\ d.screen = e.screen
      /\ d.tx = e.tx /\ d.n = e.n /\ d.savedN = e.savedN /\ d.next = e.next
      /\ Fixed(e, d)
  BY <1>4 DEF Fixed, Fields
<1>6. Boxed(d)
  BY <1>1, <1>4, <1>5 DEF Boxed, Below, Agree
<1>7. Typed(u, d)
  <2>1. /\ d.ids = e.ids /\ d.used = e.used
        /\ d.incoming = e.incoming /\ d.shows = e.shows /\ d.up = e.up /\ d.hi = e.hi
    BY <1>4, <1>5 DEF Fixed, Fields
  <2> QED BY <1>1, <1>4, <1>5, <2>1, Zenon DEF Typed
<1>8. Screened(d)
  <2>1. \A i : Same(e, i) => Same(d, i)
    BY <1>5 DEF Same, Agrees, Fixed
  <2> QED BY <1>1, <1>5, <2>1 DEF Screened, Fixed
<1>9. Fixed(c, d)
  BY <1>5 DEF Flow, Fixed
<1>10. Appends(c, d) /\ Keeps(c, d)
  <2>1. Appends(c, e) /\ Keeps(c, e)
    BY DEF Flow
  <2>2. New(c, d) = New(c, e)
    BY <1>5 DEF New
  <2>3. Appends(c, d)
    BY <1>5, <2>1, <2>2, Zenon DEF Appends
  <2>4. Keeps(c, d)
    BY <1>5, <2>1, Zenon DEF Keeps
  <2> QED BY <2>3, <2>4
<1>11. Rekeys(c, d)
  <2>1. Rekeys(c, e)
    BY DEF Flow
  <2>2. d.nextRid = e.nextRid
    BY <1>5
  <2>3. c.nextRid <= d.nextRid
    BY <2>1, <2>2 DEF Rekeys
  <2>4. ASSUME NEW j \in DOMAIN d.box
        PROVE  d.box[j].rid >= c.nextRid \/ \E i \in DOMAIN c.box : c.box[i] = d.box[j]
    <3>1. PICK x \in DOMAIN e.box : e.box[x] = d.box[j]
      BY <1>4
    <3> QED BY <2>1, <3>1 DEF Rekeys
  <2> QED BY <2>3, <2>4 DEF Rekeys
<1>12. Accounts(u, c, d)
  <2>1. Accounts(u, c, e) /\ Rekeys(c, e)
    BY DEF Flow
  <2>2. \A k : Wrote(u, c, d, k) <=> Wrote(u, c, e, k)
    BY <1>5 DEF Wrote, New
  <2>3. ASSUME NEW k, InBox(e, k) PROVE InBox(d, k) \/ Wrote(u, c, e, k)
    <3>1. PICK j \in DOMAIN e.box : e.box[j].kind = "text" /\ e.box[j].k = k
      BY <2>3 DEF InBox
    <3>2. CASE e.box[j].rid # item.rid
      BY <1>4, <3>1, <3>2 DEF InBox
    <3>3. CASE e.box[j].rid = item.rid
      <4>1. ~(e.box[j].rid >= c.nextRid)
        <5>1. item.rid < c.nextRid /\ item.rid \in Nat
          BY DEF Fits, Items
        <5>2. c.nextRid \in Nat
          BY PartsIn DEF Sound
        <5> QED BY <3>3, <5>1, <5>2
      <4>2. PICK i \in DOMAIN c.box : c.box[i] = e.box[j]
        BY <2>1, <4>1 DEF Rekeys
      <4>3. k = item.k /\ item.kind = "text"
        BY <3>1, <3>3, <4>2 DEF Fits
      <4> QED BY <4>3
    <3> QED BY <3>2, <3>3
  <2> QED BY <1>5, <2>1, <2>2, <2>3 DEF Accounts
<1>13. d.savedN = d.n
  BY <1>1, <1>5
<1>14. Flow(u, c, d)
  BY <1>6, <1>7, <1>8, <1>9, <1>10, <1>11, <1>12, <1>13 DEF Flow, Sound
<1> QED BY <1>5, <1>14 DEF d

\* One round of flushOutbox: nothing is put back when everything can be sent.
LEMMA FlushItemFlow ==
    ASSUME NEW u \in Users, NEW c, Sound(u, c), NEW item, Fits(u, c, item)
    PROVE  /\ Flow(u, c, FlushItem(c, u, item))
           /\ (c.up /\ c.keyed /\ c.gate = "open") => FlushItem(c, u, item).outbox = c.outbox
<1>1. item \in Items(u) /\ item.k \in Nat /\ item.kind \in {"text", "file"}
  BY DEF Fits, Items
<1>2. Flow(u, c, Requeue(c, item))
  <2> DEFINE d == Requeue(c, item)
  <2>1. Typed(u, c) /\ Boxed(c) /\ Screened(c) /\ c.savedN = c.n
    BY DEF Sound
  <2>2. DOMAIN c = Fields /\ c.outbox \in Seq(Items(u)) /\ c.nextRid \in Nat
    BY <2>1, PartsIn, Zenon
  <2>3. /\ DOMAIN d = Fields /\ Plus(c.outbox, item, d.outbox)
        /\ \A x \in Fields : x # "outbox" => d[x] = c[x]
    BY <2>2 DEF Requeue, Fields, Plus
  <2> HIDE DEF d
  <2>4. /\ d.box = c.box /\ d.nextRid = c.nextRid /\ d.hist = c.hist /\ d.screen = c.screen
        /\ d.tx = c.tx /\ d.n = c.n /\ d.savedN = c.savedN /\ d.next = c.next
        /\ Fixed(c, d)
    BY <2>3 DEF Fixed, Fields
  <2>5. /\ d.outbox \in Seq(Items(u))
        /\ \A i \in DOMAIN d.outbox :
              (i \in DOMAIN c.outbox /\ d.outbox[i] = c.outbox[i]) \/ d.outbox[i] = item
    BY <1>1, <2>2, <2>3, Appended
  <2>6. Boxed(d)
    <3>1. Below(d.outbox, d.nextRid)
      BY <2>1, <2>4, <2>5 DEF Boxed, Below, Fits
    <3>2. Agree(d.outbox, d.box)
      <4>1. Agree(c.outbox, c.box)
        BY <2>1 DEF Boxed
      <4> QED BY <2>4, <2>5, <4>1 DEF Agree, Fits
    <3> QED BY <2>1, <2>4, <3>1, <3>2 DEF Boxed
  <2>7. Typed(u, d)
    <3>1. /\ d.ids = c.ids /\ d.used = c.used
          /\ d.incoming = c.incoming /\ d.shows = c.shows /\ d.up = c.up /\ d.hi = c.hi
      BY <2>3, <2>4 DEF Fixed, Fields
    <3> QED BY <2>1, <2>3, <2>4, <2>5, <3>1, Zenon DEF Typed
  <2>8. Screened(d)
    <3>1. \A i : Same(c, i) => Same(d, i)
      BY <2>4 DEF Same, Agrees, Fixed
    <3> QED BY <2>1, <2>4, <3>1 DEF Screened, Fixed
  <2>9. Appends(c, d) /\ Keeps(c, d) /\ Rekeys(c, d)
    <3>1. Len(c.tx) \in Nat /\ Len(c.hist) \in Nat /\ c.n \in Nat
      BY <2>1, SizesIn, Zenon
    <3>2. New(c, d) = {}
      BY <2>4, <3>1 DEF New
    <3> QED BY <2>2, <2>4, <3>1, <3>2 DEF Appends, Keeps, Rekeys
  <2>10. Accounts(u, c, d)
    BY <2>4 DEF Accounts, InBox
  <2>11. d.savedN = d.n
    BY <2>1, <2>4
  <2> QED BY <2>4, <2>6, <2>7, <2>8, <2>9, <2>10, <2>11 DEF Flow, Sound, d
<1>3. CASE ~c.up \/ ~c.keyed \/ c.gate = "blocked"
  <2>1. FlushItem(c, u, item) = Requeue(c, item)
    BY <1>3 DEF FlushItem
  <2> QED BY <1>2, <1>3, <2>1
<1>4. CASE ~(~c.up \/ ~c.keyed \/ c.gate = "blocked") /\ item.kind = "file"
  <2> DEFINE e == IF c.gone THEN c ELSE sendFile(c, u, item.k)
  <2>1. FlushItem(c, u, item) = deleteOutboxRow(e, item.rid)
    BY <1>4 DEF FlushItem
  <2>2. Flow(u, c, e)
    <3>1. CASE c.gone
      BY <3>1, FlowSelf
    <3>2. CASE ~c.gone
      BY <1>1, <3>2, SendFileFlow
    <3> QED BY <3>1, <3>2
  <2>3. (c.up /\ c.gate = "open") => e.outbox = c.outbox
    BY <1>1, SendFileFlow
  <2> HIDE DEF e
  <2>4. item.kind = "text" => Wrote(u, c, e, item.k)
    BY <1>4
  <2>5. Flow(u, c, deleteOutboxRow(e, item.rid)) /\ deleteOutboxRow(e, item.rid).outbox = e.outbox
    BY <2>2, <2>4, DropRowFlow
  <2> QED BY <2>1, <2>3, <2>5
<1>5. CASE ~(~c.up \/ ~c.keyed \/ c.gate = "blocked") /\ item.kind # "file" /\ c.gate = "waiting"
  <2>1. FlushItem(c, u, item) = Requeue(c, item)
    BY <1>5 DEF FlushItem
  <2> QED BY <1>2, <1>5, <2>1
<1>6. CASE ~(~c.up \/ ~c.keyed \/ c.gate = "blocked") /\ item.kind # "file" /\ c.gate # "waiting"
  <2> DEFINE e == persistSession(FlushText(c, u, item))
  <2>1. FlushItem(c, u, item) = deleteOutboxRow(e, item.rid)
    BY <1>6 DEF FlushItem
  <2>2. Flow(u, c, e) /\ Wrote(u, c, e, item.k) /\ e.outbox = c.outbox
    BY <1>1, <1>6, TextFlow, Zenon
  <2> HIDE DEF e
  <2>5. Flow(u, c, deleteOutboxRow(e, item.rid)) /\ deleteOutboxRow(e, item.rid).outbox = e.outbox
    BY <2>2, DropRowFlow
  <2> QED BY <2>1, <2>2, <2>5
<1> QED BY <1>3, <1>4, <1>5, <1>6

\* The function that flushes the items of q one after the other, from b.
Flushed(g, b, u, q, n) ==
    g = [k \in 0 .. n |-> IF k = 0 THEN b ELSE FlushItem(g[k - 1], u, q[k])]

\* It exists for every length.
LEMMA FlushedExists ==
    ASSUME NEW b, NEW u, NEW q, NEW n \in Nat
    PROVE  \E g : Flushed(g, b, u, q, n)
<1> DEFINE T == {j \in Nat : ~ \E g : Flushed(g, b, u, q, j)}
<1>1. SUFFICES ASSUME T # {} PROVE FALSE
  BY <1>1
<1>2. PICK m \in T : \A k \in T : m <= k
  BY <1>1, Least
<1>3. CASE m = 0
  <2> DEFINE g == [k \in 0..0 |-> b]
  <2>1. Flushed(g, b, u, q, 0)
    BY DEF Flushed
  <2> QED BY <1>3, <2>1
<1>4. CASE m # 0
  <2>1. m - 1 \in Nat
    BY <1>4
  <2>2. m - 1 \notin T
    <3> HIDE DEF T
    <3>1. m \in Nat
      BY DEF T
    <3> QED BY <1>2, <3>1
  <2>3. PICK g : Flushed(g, b, u, q, m - 1)
    BY <2>1, <2>2
  <2> DEFINE h == [k \in 0..m |-> IF k = m THEN FlushItem(g[m - 1], u, q[m]) ELSE g[k]]
  <2>4. \A k \in 0..m : h[k] = IF k = 0 THEN b ELSE FlushItem(h[k - 1], u, q[k])
    BY <1>4, <2>1, <2>3 DEF Flushed
  <2>5. Flushed(h, b, u, q, m)
    BY <2>4 DEF Flushed
  <2> QED BY <2>5
<1> QED BY <1>3, <1>4

\* Each item meets the client as the one before it left it.
LEMMA FlushFlow ==
    ASSUME NEW u \in Users, NEW c, Sound(u, c)
    PROVE  /\ Flow(u, c, flushOutbox(c, u))
           /\ (c.up /\ c.keyed /\ c.gate = "open") => flushOutbox(c, u).outbox = <<>>
<1> DEFINE b == [c EXCEPT !.outbox = <<>>]
           q == c.outbox
           n == Len(q)
           A == CHOOSE g : g = [k \in 0 .. n |-> IF k = 0 THEN b ELSE FlushItem(g[k - 1], u, q[k])]
<1>1. flushOutbox(c, u) = A[n]
  BY DEF flushOutbox
<1>2. Typed(u, c) /\ Boxed(c) /\ Screened(c) /\ c.savedN = c.n
  BY DEF Sound
<1>3. DOMAIN c = Fields /\ q \in Seq(Items(u)) /\ c.nextRid \in Nat
  BY <1>2, PartsIn, Zenon
<1>4. Flow(u, c, b) /\ b.outbox = <<>>
  <2>1. /\ DOMAIN b = Fields /\ b.outbox = <<>>
        /\ \A x \in Fields : x # "outbox" => b[x] = c[x]
    BY <1>3 DEF Fields
  <2> HIDE DEF b
  <2>4. /\ b.box = c.box /\ b.nextRid = c.nextRid /\ b.hist = c.hist /\ b.screen = c.screen
        /\ b.tx = c.tx /\ b.n = c.n /\ b.savedN = c.savedN /\ b.next = c.next
        /\ Fixed(c, b)
    BY <2>1 DEF Fixed, Fields
  <2>5. <<>> \in Seq(Items(u)) /\ DOMAIN <<>> = {}
    OBVIOUS
  <2>6. Boxed(b)
    BY <1>2, <2>1, <2>4, <2>5 DEF Boxed, Below, Agree
  <2>7. Typed(u, b)
    <3>1. /\ b.ids = c.ids /\ b.used = c.used
          /\ b.incoming = c.incoming /\ b.shows = c.shows /\ b.up = c.up /\ b.hi = c.hi
      BY <2>1, <2>4 DEF Fixed, Fields
    <3> QED BY <1>2, <2>1, <2>4, <2>5, <3>1, Zenon DEF Typed
  <2>8. Screened(b)
    <3>1. \A i : Same(c, i) => Same(b, i)
      BY <2>4 DEF Same, Agrees, Fixed
    <3> QED BY <1>2, <2>4, <3>1 DEF Screened, Fixed
  <2>9. Appends(c, b) /\ Keeps(c, b) /\ Rekeys(c, b)
    <3>1. Len(c.tx) \in Nat /\ Len(c.hist) \in Nat /\ c.n \in Nat
      BY <1>2, SizesIn, Zenon
    <3>2. New(c, b) = {}
      BY <2>4, <3>1 DEF New
    <3> QED BY <1>3, <2>4, <3>1, <3>2 DEF Appends, Keeps, Rekeys
  <2>10. Accounts(u, c, b)
    BY <2>4 DEF Accounts, InBox
  <2>11. b.savedN = b.n
    BY <1>2, <2>4
  <2> QED BY <2>1, <2>4, <2>6, <2>7, <2>8, <2>9, <2>10, <2>11 DEF Flow, Sound
<1> HIDE DEF b
<1>5. n \in Nat /\ \A k \in 1..n : k \in DOMAIN q /\ q[k] \in Items(u)
  BY <1>3
<1>6. Flushed(A, b, u, q, n)
  BY <1>5, FlushedExists DEF Flushed
<1>7. Below(q, c.nextRid) /\ Agree(q, c.box)
  BY <1>2 DEF Boxed
<1> HIDE DEF A, n, q
<1> DEFINE P(e) == /\ Flow(u, c, e)
                   /\ (c.up /\ c.keyed /\ c.gate = "open") => e.outbox = <<>>
           T == {j \in 0..n : ~P(A[j])}
<1>8. CASE T = {}
  BY <1>1, <1>5, <1>8
<1>9. CASE T # {}
  <2>1. T \subseteq Nat
    BY <1>5
  <2>2. PICK m \in T : \A k \in T : m <= k
    <3> HIDE DEF T
    <3> QED BY <1>9, <2>1, Least
  <2>3. m \in 0..n /\ ~P(A[m])
    OBVIOUS
  <2>4. CASE m = 0
    <3>1. A[0] = b
      BY <1>5, <1>6 DEF Flushed
    <3> QED BY <1>4, <2>3, <2>4, <3>1
  <2>5. CASE m # 0
    <3>1. m - 1 \in 0..n /\ m \in 1..n
      BY <1>5, <2>3, <2>5
    <3>2. m - 1 \notin T
      <4> HIDE DEF T
      <4> QED BY <1>5, <2>2, <2>3
    <3>3. P(A[m - 1])
      BY <3>1, <3>2
    <3>4. A[m] = FlushItem(A[m - 1], u, q[m])
      BY <1>6, <2>3, <2>5 DEF Flushed
    <3> DEFINE a == A[m - 1]
               i == q[m]
    <3>5. Flow(u, c, a) /\ ((c.up /\ c.keyed /\ c.gate = "open") => a.outbox = <<>>)
      BY <3>3
    <3>6. i \in Items(u) /\ m \in DOMAIN q
      BY <1>5, <3>1
    <3>7. Fits(u, a, i)
      <4>1. i.rid \in Nat
        BY <3>6 DEF Items
      <4>2. i.rid < c.nextRid
        BY <1>7, <3>6 DEF Below
      <4> HIDE DEF a, i
      <4>3. Rekeys(c, a) /\ Typed(u, a)
        BY <3>5 DEF Flow, Sound
      <4>4. a.nextRid \in Nat /\ c.nextRid <= a.nextRid
        BY <4>3, PartsIn DEF Rekeys
      <4>5. ASSUME NEW j \in DOMAIN a.box, a.box[j].rid = i.rid
            PROVE  a.box[j].k = i.k /\ a.box[j].kind = i.kind
        <5>1. ~(a.box[j].rid >= c.nextRid)
          BY <1>3, <4>1, <4>2, <4>5
        <5>2. PICK x \in DOMAIN c.box : c.box[x] = a.box[j]
          BY <4>3, <5>1, Zenon DEF Rekeys
        <5>3. q[m].rid = c.box[x].rid
          BY <4>5, <5>2 DEF i
        <5>4. q[m].k = c.box[x].k /\ q[m].kind = c.box[x].kind
          BY <1>7, <3>6, <5>3 DEF Agree
        <5> QED BY <5>2, <5>4 DEF i
      <4>6. i.rid < a.nextRid
        BY <1>3, <4>1, <4>2, <4>4
      <4> QED BY <3>6, <4>5, <4>6 DEF Fits
    <3> HIDE DEF a, i
    <3>8. Sound(u, a) /\ a.up = c.up /\ a.keyed = c.keyed /\ a.gate = c.gate
      BY <3>5 DEF Flow, Fixed
    <3>9. /\ Flow(u, a, FlushItem(a, u, i))
          /\ (a.up /\ a.keyed /\ a.gate = "open") => FlushItem(a, u, i).outbox = a.outbox
      BY <3>7, <3>8, FlushItemFlow
    <3>10. Flow(u, c, FlushItem(a, u, i))
      BY <3>5, <3>9, FlowTwice
    <3>11. P(FlushItem(a, u, i))
      BY <3>5, <3>8, <3>9, <3>10
    <3> QED BY <2>3, <3>4, <3>11 DEF a, i
  <2> QED BY <2>4, <2>5
<1> QED BY <1>8, <1>9

-----------------------------------------------------------------------------
(* What a method does, from a client at rest.                               *)

\* A client between two methods.
Calm(u, c) ==
    Sound(u, c) /\ c.tx = <<>> /\ (c.told = "typing" => c.armed) /\ (c.hi => c.up)

\* The frames d has written: hello is the first and only once, every number is
\* new, a retraction was asked for.
Speaks(u, c, d, A) ==
    /\ d.up \/ d.tx = <<>>
    /\ (c.up => d.up) /\ (c.hi => d.hi) /\ (d.hi => d.up)
    /\ \A i \in DOMAIN d.tx : d.tx[i].kind = "hello" => i = 1 /\ ~c.hi /\ d.hi
    /\ \A i \in DOMAIN d.tx : d.tx[i].kind = "delete" => <<u, d.tx[i].mid>> \in A
    /\ c.n <= d.n
    /\ \A i \in DOMAIN d.tx : d.tx[i].kind \in Numbered => c.n <= d.tx[i].n /\ d.tx[i].n < d.n
    /\ \A i, j \in DOMAIN d.tx :
          (i < j /\ d.tx[i].kind \in Numbered /\ d.tx[j].kind \in Numbered) => d.tx[i].n < d.tx[j].n

\* The peer is told that this user types only while that is so.
Tells(c, d) ==
    /\ d.told = "typing" => d.armed
    /\ \A b \in BOOLEAN : ((b => c.told = "typing" /\ c.up) /\ Lit(b, d.tx)) => d.told = "typing"

\* Every message of the outbox can go.
Ready(c) == c.hi /\ c.keyed /\ c.gate = "open" /\ c.outbox # <<>>

\* The texts among the frames s.
Sent(u, s, k) == \E i \in DOMAIN s : s[i].kind = "text" /\ s[i].mid[1] = u /\ s[i].mid[2] = k
Books(u, c, d) ==
    /\ \A w, k : Has(c.hist, w, k) => Has(d.hist, w, k)
    /\ \A k : InBox(c, k) => InBox(d, k) \/ Sent(u, d.tx, k)
    /\ \A k : Has(d.hist, u, k) => Has(c.hist, u, k) \/ InBox(d, k) \/ Sent(u, d.tx, k)

\* New tombstones were asked for.
Buried(u, c, d, A) ==
    \A i \in DOMAIN d.hist : d.hist[i].deleted =>
        \/ \E j \in DOMAIN c.hist : c.hist[j].deleted /\ c.hist[j].mid = d.hist[i].mid
        \/ \E w \in {u, d.hist[i].mid[1]} : <<w, d.hist[i].mid>> \in A

Step(u, c, d, A) ==
    /\ Sound(u, d) /\ Speaks(u, c, d, A) /\ Tells(c, d) /\ Books(u, c, d) /\ Buried(u, c, d, A)

\* A method of the user: it wakes nobody up, reads nothing and shows no typing.
Local(u, c, d, A) ==
    Step(u, c, d, A) /\ (Ready(d) => Ready(c)) /\ d.used = c.used /\ d.shows = c.shows

\* Nothing written.
LEMMA SpeaksNone ==
    ASSUME NEW u \in Users, NEW c, Calm(u, c), NEW d, NEW A, d.tx = <<>>, d.n = c.n,
           c.up => d.up, c.hi => d.hi, d.hi => d.up
    PROVE  Speaks(u, c, d, A)
<1>1. DOMAIN <<>> = {} /\ c.n \in Nat
  BY PartsIn DEF Calm, Sound
<1> QED BY <1>1 DEF Speaks

\* Nothing told.
LEMMA TellsNone ==
    ASSUME NEW u \in Users, NEW c, Calm(u, c), NEW d, d.tx = <<>>, d.told = c.told, d.armed = c.armed
    PROVE  Tells(c, d)
<1>1. \A b \in BOOLEAN : Lit(b, d.tx) => b
  BY DEF Lit
<1> QED BY <1>1 DEF Tells, Calm

\* One frame written.
LEMMA SpeaksOne ==
    ASSUME NEW u \in Users, NEW c, Calm(u, c), NEW d, NEW A, NEW f, d.tx = <<f>>, d.n \in Nat,
           d.up, c.hi => d.hi, f.kind = "hello" => ~c.hi /\ d.hi,
           f.kind = "delete" => <<u, f.mid>> \in A,
           c.n <= d.n, f.kind \in Numbered => c.n <= f.n /\ f.n < d.n
    PROVE  Speaks(u, c, d, A)
<1>1. DOMAIN d.tx = {1} /\ d.tx[1] = f
  OBVIOUS
<1>2. \A i, j \in DOMAIN d.tx : ~(i < j)
  BY <1>1
<1> QED BY <1>1, <1>2, Zenon DEF Speaks

\* A frame that says nothing of typing.
LEMMA TellsOne ==
    ASSUME NEW u \in Users, NEW c, Calm(u, c), NEW d, NEW f, d.tx = <<f>>,
           f.kind \notin {"typing", "presence"}, d.told = c.told, d.armed = c.armed
    PROVE  Tells(c, d)
<1>1. DOMAIN d.tx = {1} /\ d.tx[1] = f
  OBVIOUS
<1>2. \A b \in BOOLEAN : Lit(b, d.tx) => b
  BY <1>1 DEF Lit, Lights
<1> QED BY <1>2 DEF Tells, Calm

\* Changes of rows that leave their kinds and ids alone.
SameRows(h, g) ==
    /\ DOMAIN g = DOMAIN h
    /\ \A i \in DOMAIN h : g[i].kind = h[i].kind /\ g[i].mid = h[i].mid

\* They hold the same messages.
LEMMA SameRowsHas ==
    ASSUME NEW h, NEW g, SameRows(h, g)
    PROVE  \A w, k : Has(g, w, k) <=> Has(h, w, k)
BY DEF SameRows, Has

\* A method and then a flush.
LEMMA StepFlow ==
    ASSUME NEW u \in Users, NEW c, Calm(u, c), NEW e, NEW A, Step(u, c, e, A), NEW d, Flow(u, e, d)
    PROVE  Step(u, c, d, A)
<1>1. Typed(u, e) /\ Typed(u, d)
  BY DEF Step, Flow, Sound
<1>2. /\ Len(e.tx) \in Nat /\ Len(d.tx) \in Nat /\ e.n \in Nat /\ d.n \in Nat
      /\ DOMAIN e.tx = 1 .. Len(e.tx) /\ DOMAIN d.tx = 1 .. Len(d.tx)
      /\ DOMAIN e.hist = 1 .. Len(e.hist) /\ DOMAIN d.hist = 1 .. Len(d.hist)
      /\ Len(e.hist) \in Nat /\ Len(d.hist) \in Nat
  <2>1. /\ e.tx \in Seq(Frames(u)) /\ d.tx \in Seq(Frames(u)) /\ e.n \in Nat /\ d.n \in Nat
        /\ e.hist \in Seq(Rows(u)) /\ d.hist \in Seq(Rows(u))
    BY <1>1, PartsIn
  <2> QED BY <2>1
<1>3. /\ \A i \in DOMAIN e.tx : i \in DOMAIN d.tx /\ d.tx[i] = e.tx[i]
      /\ \A i \in DOMAIN d.tx : i \in DOMAIN e.tx \/ i \in New(e, d)
      /\ \A i \in New(e, d) : d.tx[i].kind \in {"text", "init", "chunk", "end"}
  BY <1>2 DEF Flow, Appends, New
<1>4. Speaks(u, c, d, A)
  <2>1. Speaks(u, c, e, A) /\ Appends(e, d) /\ Fixed(e, d)
    BY DEF Step, Flow
  <2>2. d.up \/ d.tx = <<>>
    BY <2>1 DEF Speaks, Appends, Fixed
  <2>3. (c.up => d.up) /\ (c.hi => d.hi) /\ (d.hi => d.up)
    BY <2>1 DEF Speaks, Fixed
  <2>4. \A i \in DOMAIN d.tx : d.tx[i].kind = "hello" => i = 1 /\ ~c.hi /\ d.hi
    BY <1>3, <2>1 DEF Speaks, Fixed
  <2>5. \A i \in DOMAIN d.tx : d.tx[i].kind = "delete" => <<u, d.tx[i].mid>> \in A
    BY <1>3, <2>1 DEF Speaks
  <2>6. c.n \in Nat /\ c.n <= e.n /\ e.n <= d.n /\ c.n <= d.n
    <3>1. c.n \in Nat
      BY PartsIn DEF Calm, Sound
    <3>2. c.n <= e.n /\ e.n <= d.n
      BY <2>1 DEF Speaks, Appends
    <3> QED BY <1>2, <3>1, <3>2
  <2>7. \A i \in DOMAIN d.tx : d.tx[i].n \in Nat
    <3>1. d.tx \in Seq(Frames(u))
      BY <1>1, PartsIn, Zenon
    <3>2. \A f \in Frames(u) : f.n \in Nat
      BY DEF Frames
    <3> QED BY <3>1, <3>2
  <2>8. ASSUME NEW i \in DOMAIN d.tx, d.tx[i].kind \in Numbered
        PROVE  c.n <= d.tx[i].n /\ d.tx[i].n < d.n
    <3>1. CASE i \in DOMAIN e.tx
      <4>1. c.n <= d.tx[i].n /\ d.tx[i].n < e.n
        BY <1>3, <2>1, <2>8, <3>1 DEF Speaks
      <4> QED BY <1>2, <2>6, <2>7, <4>1
    <3>2. CASE i \in New(e, d)
      <4>1. e.n <= d.tx[i].n /\ d.tx[i].n < d.n
        BY <2>1, <2>8, <3>2 DEF Appends
      <4> QED BY <1>2, <2>6, <2>7, <4>1
    <3> QED BY <1>3, <3>1, <3>2
  <2>9. ASSUME NEW i \in DOMAIN d.tx, NEW j \in DOMAIN d.tx, i < j,
               d.tx[i].kind \in Numbered, d.tx[j].kind \in Numbered
        PROVE  d.tx[i].n < d.tx[j].n
    <3>1. CASE i \in DOMAIN e.tx /\ j \in DOMAIN e.tx
      BY <1>3, <2>1, <2>9, <3>1 DEF Speaks
    <3>2. CASE i \in New(e, d) /\ j \in New(e, d)
      BY <2>1, <2>9, <3>2 DEF Appends
    <3>3. CASE i \in DOMAIN e.tx /\ j \in New(e, d)
      <4>1. d.tx[i].n < e.n
        BY <1>3, <2>1, <2>9, <3>3 DEF Speaks
      <4>2. e.n <= d.tx[j].n
        BY <2>1, <2>9, <3>3 DEF Appends
      <4> QED BY <1>2, <2>7, <4>1, <4>2
    <3>4. ~(i \in New(e, d) /\ j \in DOMAIN e.tx)
      BY <1>2, <2>9 DEF New
    <3> QED BY <1>3, <3>1, <3>2, <3>3, <3>4
  <2> QED BY <2>2, <2>3, <2>4, <2>5, <2>6, <2>8, <2>9, Zenon DEF Speaks
<1>5. Tells(c, d)
  <2>1. Tells(c, e) /\ d.told = e.told /\ d.armed = e.armed
    BY DEF Step, Flow, Fixed
  <2>2. \A i \in New(e, d) : ~Lights(d.tx[i]) /\ ~Clears(d.tx[i])
    BY <1>3 DEF Lights, Clears
  <2>3. \A b \in BOOLEAN : Lit(b, d.tx) => Lit(b, e.tx)
    BY <1>3, <2>2 DEF Lit
  <2> QED BY <2>1, <2>3 DEF Tells
<1>6. Books(u, c, d)
  <2>1. Books(u, c, e) /\ Accounts(u, e, d) /\ Keeps(e, d)
    BY DEF Step, Flow
  <2>2. \A k : Sent(u, e.tx, k) \/ Wrote(u, e, d, k) => Sent(u, d.tx, k)
    <3>1. \A i \in New(e, d) : i \in DOMAIN d.tx
      BY <1>2 DEF New
    <3> QED BY <1>3, <3>1 DEF Sent, Wrote
  <2>3. \A w, k : Has(e.hist, w, k) => Has(d.hist, w, k)
    <3>1. \A i \in DOMAIN e.hist : /\ i \in DOMAIN d.hist /\ d.hist[i].kind = e.hist[i].kind
                                   /\ d.hist[i].mid = e.hist[i].mid
      BY <1>2, <2>1 DEF Keeps
    <3> QED BY <3>1 DEF Has
  <2> QED BY <2>1, <2>2, <2>3, Zenon DEF Books, Accounts
<1>7. Buried(u, c, d, A)
  <2>1. Buried(u, c, e, A) /\ Keeps(e, d)
    BY DEF Step, Flow
  <2>2. \A i \in DOMAIN d.hist : d.hist[i].deleted =>
           i \in DOMAIN e.hist /\ e.hist[i].deleted /\ e.hist[i].mid = d.hist[i].mid
    BY <1>2, <2>1 DEF Keeps
  <2> QED BY <2>1, <2>2 DEF Buried
<1> QED BY <1>4, <1>5, <1>6, <1>7 DEF Step, Flow

-----------------------------------------------------------------------------
(* Changing rows.                                                           *)

\* Row i is the one message of that id among the rows s.
Only(s, i, mid) ==
    /\ i \in DOMAIN s /\ s[i].kind # "system" /\ s[i].mid = mid
    /\ \A j \in DOMAIN s : s[j].kind # "system" /\ s[j].mid = mid => j = i

\* indexOfMid finds a row of that id.
Indexed(c, mid, m) ==
    /\ OnScreen(c, mid) => m \in DOMAIN c.screen /\ c.screen[m].kind # "system" /\ c.screen[m].mid = mid
    /\ \A i : Only(c.screen, i, mid) => OnScreen(c, mid) /\ m = i

\* It does.
LEMMA IndexFacts ==
    ASSUME NEW u, NEW c, NEW mid, c.screen \in Seq(Rows(u))
    PROVE  Indexed(c, mid, indexOfMid(c, mid))
<1> DEFINE at == {i \in DOMAIN c.screen : c.screen[i].kind # "system" /\ c.screen[i].mid = mid}
<1>1. at \subseteq Nat /\ 0 \notin at
  OBVIOUS
<1>2. indexOfMid(c, mid) = IF at = {} THEN 0 ELSE CHOOSE i \in at : \A j \in at : i <= j
  BY DEF indexOfMid
<1>3. at # {} => indexOfMid(c, mid) \in at
  <2>1. at # {} => \E m \in at : \A k \in at : m <= k
    <3> HIDE DEF at
    <3> QED BY <1>1, Least
  <2> HIDE DEF at
  <2> QED BY <1>2, <2>1
<1>4. OnScreen(c, mid) <=> at # {}
  <2> HIDE DEF at
  <2> QED BY <1>1, <1>2, <1>3 DEF OnScreen
<1>5. \A i : Only(c.screen, i, mid) => at = {i}
  BY DEF Only
<1>6. OnScreen(c, mid) => indexOfMid(c, mid) \in at
  BY <1>3, <1>4
<1>7. \A i : Only(c.screen, i, mid) => OnScreen(c, mid) /\ indexOfMid(c, mid) = i
  <2> HIDE DEF at
  <2> QED BY <1>3, <1>4, <1>5
<1> QED BY <1>6, <1>7 DEF Indexed

\* A sequence with rows replaced.
LEMMA Remade ==
    ASSUME NEW S, NEW s, s \in Seq(S), NEW g, g = [i \in DOMAIN s |-> g[i]], \A i \in DOMAIN s : g[i] \in S
    PROVE  g \in Seq(S) /\ Len(g) = Len(s) /\ DOMAIN g = DOMAIN s
<1>1. DOMAIN s = 1 .. Len(s) /\ Len(s) \in Nat
  OBVIOUS
<1>2. DOMAIN g = 1 .. Len(s)
  BY <1>1
<1>3. g \in Seq(S)
  BY <1>1, <1>2
<1> QED BY <1>1, <1>2, <1>3

\* The screen s after the edit, and the history h.
ScreenEdited(u, s, t, mid, body) ==
    /\ t \in Seq(Rows(u)) /\ SameRows(s, t)
    /\ \A i \in DOMAIN s : t[i] = s[i] \/ (s[i].kind # "system" /\ s[i].mid = mid)
    /\ \A i : (Only(s, i, mid) /\ ~s[i].deleted) =>
          /\ t[i].me = s[i].me /\ t[i].peer = s[i].peer /\ ~t[i].deleted
          /\ s[i].kind = "text" => t[i].body = body /\ t[i].edited
          /\ s[i].kind = "file" => t[i] = s[i]
HistEdited(u, h, g, mid, body) ==
    /\ g \in Seq(Rows(u)) /\ SameRows(h, g)
    /\ \A i \in DOMAIN h :
          /\ h[i].mid # mid => g[i] = h[i]
          /\ g[i].deleted = h[i].deleted
          /\ (h[i].kind = "text" /\ h[i].mid = mid /\ ~h[i].deleted) => g[i].body = body /\ g[i].edited
          /\ h[i].kind # "text" => g[i] = h[i]

\* The screen s after a reaction, of this user or of the peer.
ScreenReacted(u, s, t, mid, mine, on) ==
    /\ t \in Seq(Rows(u)) /\ SameRows(s, t)
    /\ \A i \in DOMAIN s : t[i] = s[i] \/ (s[i].kind # "system" /\ s[i].mid = mid)
    /\ \A i : (Only(s, i, mid) /\ ~s[i].deleted) =>
          /\ t[i].body = s[i].body /\ t[i].edited = s[i].edited /\ ~t[i].deleted
          /\ t[i].me = IF mine THEN on ELSE s[i].me
          /\ t[i].peer = IF mine THEN s[i].peer ELSE on

\* Nothing but the field x changes.
Rest(c, d, x) == DOMAIN d = Fields /\ \A y \in Fields : y # x => d[y] = c[y]

\* What a change of the row of that id does to the screen.
Touches(u, c, d, mid) ==
    /\ DOMAIN d = Fields /\ \A x \in Fields : x # "screen" => d[x] = c[x]
    /\ d.screen \in Seq(Rows(u)) /\ SameRows(c.screen, d.screen)
    /\ \A i \in DOMAIN c.screen :
          d.screen[i] = c.screen[i] \/ (c.screen[i].kind # "system" /\ c.screen[i].mid = mid)

\* One row of the screen is replaced.
Put(c, i, r, d) == d = [c EXCEPT !.screen[i] = r]

Shown(c, d, mid, r) == \A i : Only(c.screen, i, mid) => d.screen[i] = r

\* The rest of the client stays.
LEMMA TouchOne ==
    ASSUME NEW u, NEW c, DOMAIN c = Fields, c.screen \in Seq(Rows(u)), NEW mid, OnScreen(c, mid),
           NEW r \in Rows(u), NEW d, Put(c, indexOfMid(c, mid), r, d),
           r.kind = c.screen[indexOfMid(c, mid)].kind, r.mid = c.screen[indexOfMid(c, mid)].mid
    PROVE  Touches(u, c, d, mid) /\ Shown(c, d, mid, r)
<1> DEFINE m == indexOfMid(c, mid)
           s == [c.screen EXCEPT ![m] = r]
<1>1. /\ m \in DOMAIN c.screen /\ c.screen[m].kind # "system" /\ c.screen[m].mid = mid
      /\ \A i : Only(c.screen, i, mid) => m = i
  <2>1. Indexed(c, mid, m)
    BY IndexFacts, Zenon
  <2> HIDE DEF m
  <2> QED BY <2>1 DEF Indexed
<1> HIDE DEF m
<1>2. /\ DOMAIN s = DOMAIN c.screen /\ s[m] = r /\ \A i \in DOMAIN c.screen : i # m => s[i] = c.screen[i]
  BY <1>1
<1>3. s \in Seq(Rows(u))
  BY <1>1
<1>4. DOMAIN d = Fields /\ d.screen = s /\ \A x \in Fields : x # "screen" => d[x] = c[x]
  <2>1. d = [c EXCEPT !.screen[m] = r]
    BY DEF Put, m
  <2> QED BY <2>1 DEF Fields
<1> HIDE DEF s
<1>5. SameRows(c.screen, d.screen)
  <2>1. r.kind = c.screen[m].kind /\ r.mid = c.screen[m].mid
    BY DEF m
  <2> QED BY <1>1, <1>2, <1>4, <2>1 DEF SameRows
<1>6. \A i \in DOMAIN c.screen :
         d.screen[i] = c.screen[i] \/ (c.screen[i].kind # "system" /\ c.screen[i].mid = mid)
  BY <1>1, <1>2, <1>4
<1>7. \A i : Only(c.screen, i, mid) => d.screen[i] = r
  BY <1>1, <1>2, <1>4
<1> QED BY <1>3, <1>4, <1>5, <1>6, <1>7, Zenon DEF Touches, Shown

\* No row is.
LEMMA TouchNone ==
    ASSUME NEW u, NEW c, DOMAIN c = Fields, c.screen \in Seq(Rows(u)), NEW mid
    PROVE  Touches(u, c, c, mid)
BY DEF Touches, SameRows

\* markDeletedByMid.
LEMMA MarkScreen ==
    ASSUME NEW u, NEW c, DOMAIN c = Fields, c.screen \in Seq(Rows(u)), NEW mid
    PROVE  Touches(u, c, markDeletedByMid(c, mid), mid)
<1>1. CASE ~OnScreen(c, mid)
  BY <1>1, TouchNone DEF markDeletedByMid
<1>2. CASE OnScreen(c, mid)
  <2> DEFINE m == indexOfMid(c, mid)
             r == [c.screen[m] EXCEPT !.deleted = TRUE, !.me = FALSE, !.peer = FALSE]
  <2>1. c.screen[m] \in Rows(u)
    <3>0. Indexed(c, mid, m)
      BY IndexFacts, Zenon
    <3>1. m \in DOMAIN c.screen
      BY <1>2, <3>0 DEF Indexed
    <3> HIDE DEF m
    <3> QED BY <3>1
  <2>2. r \in Rows(u) /\ r.kind = c.screen[m].kind /\ r.mid = c.screen[m].mid
    BY <2>1 DEF Rows
  <2>3. Put(c, m, r, markDeletedByMid(c, mid))
    BY <1>2 DEF markDeletedByMid, Fields, Put
  <2> HIDE DEF r
  <2> QED BY <1>2, <2>2, <2>3, TouchOne, Zenon
<1> QED BY <1>1, <1>2

\* editTextByMid.
LEMMA ScreenEdit ==
    ASSUME NEW u, NEW c, DOMAIN c = Fields, c.screen \in Seq(Rows(u)), NEW mid, NEW body \in Nat
    PROVE  LET d == editTextByMid(c, mid, body) IN
           ScreenEdited(u, c.screen, d.screen, mid, body) /\ Rest(c, d, "screen")
<1> DEFINE m == indexOfMid(c, mid)
           d == editTextByMid(c, mid, body)
           r == [c.screen[m] EXCEPT !.body = body, !.edited = TRUE]
<1>0. Indexed(c, mid, m)
  BY IndexFacts, Zenon
<1>1. \A i : Only(c.screen, i, mid) => OnScreen(c, mid) /\ m = i
  BY <1>0 DEF Indexed
<1>2. CASE ~OnScreen(c, mid) \/ c.screen[m].kind = "file" \/ c.screen[m].deleted
  <2>1. d = c
    BY <1>2 DEF editTextByMid
  <2>2. \A i : Only(c.screen, i, mid) /\ ~c.screen[i].deleted => c.screen[i].kind = "file"
    BY <1>1, <1>2
  <2> HIDE DEF d
  <2>3. Touches(u, c, d, mid)
    BY <2>1, TouchNone
  <2>4. \A i : (Only(c.screen, i, mid) /\ ~c.screen[i].deleted) =>
           /\ d.screen[i].me = c.screen[i].me /\ d.screen[i].peer = c.screen[i].peer
           /\ ~d.screen[i].deleted
           /\ c.screen[i].kind = "text" => d.screen[i].body = body /\ d.screen[i].edited
           /\ c.screen[i].kind = "file" => d.screen[i] = c.screen[i]
    BY <2>1, <2>2
  <2> QED BY <2>3, <2>4, Zenon DEF d, Touches, ScreenEdited, Rest
<1>3. CASE OnScreen(c, mid) /\ c.screen[m].kind # "file" /\ ~c.screen[m].deleted
  <2>1. c.screen[m] \in Rows(u)
    <3>0. Indexed(c, mid, m)
      BY IndexFacts, Zenon
    <3>1. m \in DOMAIN c.screen
      BY <1>3, <3>0 DEF Indexed
    <3> HIDE DEF m
    <3> QED BY <3>1
  <2>2. /\ r \in Rows(u) /\ r.kind = c.screen[m].kind /\ r.mid = c.screen[m].mid
        /\ r.me = c.screen[m].me /\ r.peer = c.screen[m].peer /\ r.deleted = c.screen[m].deleted
        /\ r.body = body /\ r.edited = TRUE
    BY <2>1 DEF Rows
  <2>3. Put(c, m, r, d)
    BY <1>3 DEF editTextByMid, Fields, Put
  <2> HIDE DEF d, r
  <2>4. Touches(u, c, d, mid) /\ \A i : Only(c.screen, i, mid) => d.screen[i] = r
    <3>1. OnScreen(c, mid) /\ r \in Rows(u) /\ r.kind = c.screen[m].kind /\ r.mid = c.screen[m].mid
      BY <1>3, <2>2
    <3>2. Touches(u, c, d, mid) /\ Shown(c, d, mid, r)
      BY <2>3, <3>1, TouchOne, Zenon
    <3> QED BY <3>2 DEF Shown
  <2>5. \A i : (Only(c.screen, i, mid) /\ ~c.screen[i].deleted) =>
           /\ d.screen[i].me = c.screen[i].me /\ d.screen[i].peer = c.screen[i].peer
           /\ ~d.screen[i].deleted
           /\ c.screen[i].kind = "text" => d.screen[i].body = body /\ d.screen[i].edited
           /\ c.screen[i].kind = "file" => d.screen[i] = c.screen[i]
    BY <1>1, <1>3, <2>2, <2>4
  <2> QED BY <2>4, <2>5, Zenon DEF d, Touches, ScreenEdited, Rest
<1> QED BY <1>2, <1>3

\* applyReaction.
LEMMA ScreenReact ==
    ASSUME NEW u, NEW c, DOMAIN c = Fields, c.screen \in Seq(Rows(u)), NEW mid, NEW mine \in BOOLEAN,
           NEW on \in BOOLEAN
    PROVE  LET d == applyReaction(c, mid, mine, on) IN
           ScreenReacted(u, c.screen, d.screen, mid, mine, on) /\ Rest(c, d, "screen")
<1> DEFINE m == indexOfMid(c, mid)
           d == applyReaction(c, mid, mine, on)
           r == IF mine THEN [c.screen[m] EXCEPT !.me = on] ELSE [c.screen[m] EXCEPT !.peer = on]
<1>0. Indexed(c, mid, m)
  BY IndexFacts, Zenon
<1>1. \A i : Only(c.screen, i, mid) => OnScreen(c, mid) /\ m = i
  BY <1>0 DEF Indexed
<1>2. CASE ~OnScreen(c, mid) \/ c.screen[m].deleted
  <2>1. d = c
    BY <1>2 DEF applyReaction
  <2>2. \A i : Only(c.screen, i, mid) => c.screen[i].deleted
    BY <1>1, <1>2
  <2> HIDE DEF d
  <2>3. Touches(u, c, d, mid)
    BY <2>1, TouchNone
  <2> QED BY <2>2, <2>3, Zenon DEF d, Touches, ScreenReacted, Rest
<1>3. CASE OnScreen(c, mid) /\ ~c.screen[m].deleted
  <2>1. c.screen[m] \in Rows(u)
    <3>0. Indexed(c, mid, m)
      BY IndexFacts, Zenon
    <3>1. m \in DOMAIN c.screen
      BY <1>3, <3>0 DEF Indexed
    <3> HIDE DEF m
    <3> QED BY <3>1
  <2>2. /\ r \in Rows(u) /\ r.kind = c.screen[m].kind /\ r.mid = c.screen[m].mid
        /\ r.me = (IF mine THEN on ELSE c.screen[m].me)
        /\ r.peer = (IF mine THEN c.screen[m].peer ELSE on) /\ r.deleted = c.screen[m].deleted
        /\ r.body = c.screen[m].body /\ r.edited = c.screen[m].edited
    <3>1. CASE mine
      BY <2>1, <3>1 DEF Rows
    <3>2. CASE ~mine
      BY <2>1, <3>2 DEF Rows
    <3> QED BY <3>1, <3>2
  <2>3. Put(c, m, r, d)
    BY <1>3 DEF applyReaction, Fields, Put
  <2> HIDE DEF d, r
  <2>4. Touches(u, c, d, mid) /\ \A i : Only(c.screen, i, mid) => d.screen[i] = r
    <3>1. OnScreen(c, mid) /\ r \in Rows(u) /\ r.kind = c.screen[m].kind /\ r.mid = c.screen[m].mid
      BY <1>3, <2>2
    <3>2. Touches(u, c, d, mid) /\ Shown(c, d, mid, r)
      BY <2>3, <3>1, TouchOne, Zenon
    <3> QED BY <3>2 DEF Shown
  <2>5. \A i : (Only(c.screen, i, mid) /\ ~c.screen[i].deleted) =>
           /\ d.screen[i].body = c.screen[i].body /\ d.screen[i].edited = c.screen[i].edited
           /\ ~d.screen[i].deleted
           /\ d.screen[i].me = IF mine THEN on ELSE c.screen[i].me
           /\ d.screen[i].peer = IF mine THEN c.screen[i].peer ELSE on
    BY <1>1, <1>3, <2>2, <2>4
  <2> QED BY <2>4, <2>5, Zenon DEF d, Touches, ScreenReacted, Rest
<1> QED BY <1>2, <1>3

\* A screen stays one of the history when both change at the same rows, and those
\* that are alone go on agreeing.
LEMMA Rescreened ==
    ASSUME NEW u, NEW c, NEW d, Typed(u, c), Screened(c), d.active = c.active,
           d.hist \in Seq(Rows(u)), SameRows(c.hist, d.hist),
           d.screen \in Seq(Rows(u)), SameRows(c.screen, d.screen),
           \A i \in DOMAIN c.hist : c.hist[i].deleted => d.hist[i].deleted,
           \A i \in DOMAIN c.hist :
              (/\ Only(c.screen, i, c.hist[i].mid) /\ Agrees(c, i)
               /\ c.hist[i].kind # "system" /\ ~d.hist[i].deleted
               /\ c.screen[i].kind = c.hist[i].kind) => Agrees(d, i)
    PROVE  Screened(d)
<1>1. c.hist \in Seq(Rows(u)) /\ c.screen \in Seq(Rows(u))
  BY PartsIn, Zenon
<1>2. Len(d.hist) = Len(c.hist) /\ Len(d.screen) = Len(c.screen)
  <2>1. DOMAIN d.hist = DOMAIN c.hist /\ DOMAIN d.screen = DOMAIN c.screen
    BY DEF SameRows
  <2> QED BY <1>1, <2>1
<1>3. SUFFICES ASSUME c.active, NEW i \in DOMAIN c.hist
               PROVE  Same(d, i)
  BY <1>2 DEF Screened, SameRows
<1>4. /\ DOMAIN c.screen = DOMAIN c.hist /\ Same(c, i)
      /\ \A j \in DOMAIN c.hist : c.screen[j].kind = c.hist[j].kind /\ c.screen[j].mid = c.hist[j].mid
  <2>1. Len(c.screen) = Len(c.hist)
    BY <1>3 DEF Screened
  <2>2. DOMAIN c.screen = DOMAIN c.hist
    BY <1>1, <2>1
  <2> QED BY <1>3, <2>2 DEF Screened, Same
<1>5. /\ d.screen[i].kind = d.hist[i].kind /\ d.screen[i].mid = d.hist[i].mid
      /\ d.hist[i].kind = c.hist[i].kind /\ d.hist[i].mid = c.hist[i].mid
  BY <1>4 DEF SameRows
<1>6. ASSUME Alone(d.hist, i) PROVE Agrees(d, i)
  <2>1. Alone(c.hist, i)
    BY <1>6 DEF Alone, SameRows
  <2>2. Only(c.screen, i, c.hist[i].mid)
    BY <1>4, <2>1 DEF Only, Alone
  <2>3. Agrees(c, i)
    BY <1>4, <2>1 DEF Same
  <2>4. c.hist[i].kind # "system" /\ ~d.hist[i].deleted /\ c.screen[i].kind = c.hist[i].kind
    BY <1>4, <1>6, <2>1 DEF Alone
  <2> QED BY <2>2, <2>3, <2>4
<1> QED BY <1>5, <1>6 DEF Same

\* What a change of rows does to the history.
Rewrites(u, c, d, mid) ==
    /\ DOMAIN d = Fields /\ \A x \in Fields : x # "hist" => d[x] = c[x]
    /\ d.hist \in Seq(Rows(u)) /\ SameRows(c.hist, d.hist)
    /\ \A i \in DOMAIN c.hist : c.hist[i].mid # mid => d.hist[i] = c.hist[i]

\* markDeleted.
LEMMA MarkHist ==
    ASSUME NEW u, NEW c, DOMAIN c = Fields, c.hist \in Seq(Rows(u)), NEW mid
    PROVE  LET d == markDeleted(c, mid) IN
           /\ Rewrites(u, c, d, mid)
           /\ \A i \in DOMAIN c.hist :
                 /\ c.hist[i].deleted => d.hist[i].deleted
                 /\ d.hist[i].deleted => c.hist[i].deleted \/ c.hist[i].mid = mid
                 /\ c.hist[i].kind # "system" /\ c.hist[i].mid = mid => d.hist[i].deleted
<1> DEFINE d == markDeleted(c, mid)
           h == [i \in DOMAIN c.hist |-> IF c.hist[i].kind # "system" /\ c.hist[i].mid = mid
                                         THEN [c.hist[i] EXCEPT !.deleted = TRUE] ELSE c.hist[i]]
<1>1. DOMAIN d = Fields /\ d.hist = h /\ \A x \in Fields : x # "hist" => d[x] = c[x]
  BY DEF markDeleted, Fields
<1>2. \A i \in DOMAIN c.hist :
         /\ h[i] \in Rows(u) /\ h[i].kind = c.hist[i].kind /\ h[i].mid = c.hist[i].mid
         /\ c.hist[i].deleted => h[i].deleted
         /\ h[i].deleted => c.hist[i].deleted \/ c.hist[i].mid = mid
         /\ c.hist[i].kind # "system" /\ c.hist[i].mid = mid => h[i].deleted
         /\ c.hist[i].mid # mid => h[i] = c.hist[i]
  <2> SUFFICES ASSUME NEW i \in DOMAIN c.hist
               PROVE  /\ h[i] \in Rows(u) /\ h[i].kind = c.hist[i].kind /\ h[i].mid = c.hist[i].mid
                      /\ c.hist[i].deleted => h[i].deleted
                      /\ h[i].deleted => c.hist[i].deleted \/ c.hist[i].mid = mid
                      /\ c.hist[i].kind # "system" /\ c.hist[i].mid = mid => h[i].deleted
                      /\ c.hist[i].mid # mid => h[i] = c.hist[i]
    OBVIOUS
  <2>1. c.hist[i] \in Rows(u)
    OBVIOUS
  <2> QED BY <2>1 DEF Rows
<1>3. h = [i \in DOMAIN c.hist |-> h[i]]
  OBVIOUS
<1> HIDE DEF h, d
<1>4. h \in Seq(Rows(u)) /\ DOMAIN h = DOMAIN c.hist
  BY <1>2, <1>3, Remade
<1>5. Rewrites(u, c, d, mid)
  BY <1>1, <1>2, <1>4 DEF Rewrites, SameRows
<1> QED BY <1>1, <1>2, <1>5 DEF d

\* updateTextRow.
LEMMA HistEdit ==
    ASSUME NEW u, NEW c, DOMAIN c = Fields, c.hist \in Seq(Rows(u)), NEW mid, NEW body \in Nat
    PROVE  LET d == updateTextRow(c, mid, body) IN
           HistEdited(u, c.hist, d.hist, mid, body) /\ Rest(c, d, "hist")
<1> DEFINE d == updateTextRow(c, mid, body)
           h == [i \in DOMAIN c.hist |-> IF Editable(c.hist[i], mid)
                                         THEN [c.hist[i] EXCEPT !.body = body, !.edited = TRUE]
                                         ELSE c.hist[i]]
<1>1. DOMAIN d = Fields /\ d.hist = h /\ \A x \in Fields : x # "hist" => d[x] = c[x]
  BY DEF updateTextRow, Fields
<1>2. \A i \in DOMAIN c.hist :
         /\ h[i] \in Rows(u) /\ h[i].kind = c.hist[i].kind /\ h[i].mid = c.hist[i].mid
         /\ h[i].deleted = c.hist[i].deleted
         /\ (c.hist[i].kind = "text" /\ c.hist[i].mid = mid /\ ~c.hist[i].deleted) =>
               h[i].body = body /\ h[i].edited
         /\ c.hist[i].mid # mid => h[i] = c.hist[i]
         /\ c.hist[i].kind # "text" => h[i] = c.hist[i]
  <2> SUFFICES ASSUME NEW i \in DOMAIN c.hist
               PROVE  /\ h[i] \in Rows(u) /\ h[i].kind = c.hist[i].kind /\ h[i].mid = c.hist[i].mid
                      /\ h[i].deleted = c.hist[i].deleted
                      /\ (c.hist[i].kind = "text" /\ c.hist[i].mid = mid /\ ~c.hist[i].deleted) =>
                            h[i].body = body /\ h[i].edited
                      /\ c.hist[i].mid # mid => h[i] = c.hist[i]
                      /\ c.hist[i].kind # "text" => h[i] = c.hist[i]
    OBVIOUS
  <2>1. c.hist[i] \in Rows(u)
    OBVIOUS
  <2> QED BY <2>1 DEF Rows, Editable
<1>3. h = [i \in DOMAIN c.hist |-> h[i]]
  OBVIOUS
<1> HIDE DEF h, d
<1>4. h \in Seq(Rows(u)) /\ DOMAIN h = DOMAIN c.hist
  BY <1>2, <1>3, Remade
<1>5. SameRows(c.hist, h)
  BY <1>2, <1>4 DEF SameRows
<1> QED BY <1>1, <1>2, <1>4, <1>5, Zenon DEF d, HistEdited, Rest

\* Rows that change, and the rest that stays.
Rewritten(u, c, d) ==
    /\ DOMAIN d = Fields /\ \A x \in Fields : x \notin {"hist", "screen"} => d[x] = c[x]
    /\ d.hist \in Seq(Rows(u)) /\ SameRows(c.hist, d.hist)
    /\ d.screen \in Seq(Rows(u)) /\ SameRows(c.screen, d.screen)
    /\ Screened(d)

\* editTextByMid and updateTextRow, in this order and in the other.
LEMMA EditBoth ==
    ASSUME NEW u, NEW c, Typed(u, c), Screened(c), NEW mid, NEW body \in Nat, NEW d,
           \/ d = updateTextRow(editTextByMid(c, mid, body), mid, body)
           \/ d = editTextByMid(updateTextRow(c, mid, body), mid, body)
    PROVE  Rewritten(u, c, d) /\ \A i \in DOMAIN c.hist : d.hist[i].deleted = c.hist[i].deleted
<1>1. DOMAIN c = Fields /\ c.hist \in Seq(Rows(u)) /\ c.screen \in Seq(Rows(u))
  BY PartsIn, Zenon
<1>2. /\ DOMAIN d = Fields /\ \A x \in Fields : x \notin {"hist", "screen"} => d[x] = c[x]
      /\ ScreenEdited(u, c.screen, d.screen, mid, body) /\ HistEdited(u, c.hist, d.hist, mid, body)
  <2>1. CASE d = updateTextRow(editTextByMid(c, mid, body), mid, body)
    <3> DEFINE e == editTextByMid(c, mid, body)
    <3>1. ScreenEdited(u, c.screen, e.screen, mid, body) /\ Rest(c, e, "screen")
      BY <1>1, ScreenEdit, Zenon
    <3>2. d = updateTextRow(e, mid, body)
      BY <2>1
    <3> HIDE DEF e
    <3>3. e.hist = c.hist /\ DOMAIN e = Fields
      BY <3>1 DEF Fields, Rest
    <3>4. HistEdited(u, e.hist, d.hist, mid, body) /\ Rest(e, d, "hist")
      <4>1. e.hist \in Seq(Rows(u))
        BY <1>1, <3>3
      <4> QED BY <3>2, <3>3, <4>1, HistEdit, Zenon
    <3>5. d.screen = e.screen
      BY <3>4 DEF Fields, Rest
    <3>6. DOMAIN d = Fields /\ \A x \in Fields : x \notin {"hist", "screen"} => d[x] = c[x]
      BY <3>1, <3>4 DEF Rest
    <3> QED BY <3>1, <3>3, <3>4, <3>5, <3>6
  <2>2. CASE d = editTextByMid(updateTextRow(c, mid, body), mid, body)
    <3> DEFINE e == updateTextRow(c, mid, body)
    <3>1. HistEdited(u, c.hist, e.hist, mid, body) /\ Rest(c, e, "hist")
      BY <1>1, HistEdit, Zenon
    <3>2. d = editTextByMid(e, mid, body)
      BY <2>2
    <3> HIDE DEF e
    <3>3. e.screen = c.screen /\ DOMAIN e = Fields
      BY <3>1 DEF Fields, Rest
    <3>4. ScreenEdited(u, e.screen, d.screen, mid, body) /\ Rest(e, d, "screen")
      <4>1. e.screen \in Seq(Rows(u))
        BY <1>1, <3>3
      <4> QED BY <3>2, <3>3, <4>1, ScreenEdit, Zenon
    <3>5. d.hist = e.hist
      BY <3>4 DEF Fields, Rest
    <3>6. DOMAIN d = Fields /\ \A x \in Fields : x \notin {"hist", "screen"} => d[x] = c[x]
      BY <3>1, <3>4 DEF Rest
    <3> QED BY <3>1, <3>3, <3>4, <3>5, <3>6
  <2> QED BY <2>1, <2>2
<1>3. d.active = c.active /\ d.react = c.react
  BY <1>2 DEF Fields
<1>4. ASSUME NEW i \in DOMAIN c.hist, Only(c.screen, i, c.hist[i].mid), Agrees(c, i),
             c.hist[i].kind # "system", ~d.hist[i].deleted, c.screen[i].kind = c.hist[i].kind
      PROVE  Agrees(d, i)
  <2>1. c.hist[i] \in Rows(u) /\ d.hist[i].mid = c.hist[i].mid /\ i \in DOMAIN c.screen
    BY <1>1, <1>2, <1>4 DEF SameRows, Only, HistEdited
  <2>2. c.hist[i].kind \in {"text", "file"}
    BY <1>4, <2>1 DEF Rows
  <2>3. CASE c.hist[i].mid = mid
    <3>1. ~c.screen[i].deleted /\ ~c.hist[i].deleted
      BY <1>2, <1>4 DEF Agrees, HistEdited
    <3>2. CASE c.hist[i].kind = "text"
      <4>1. d.hist[i].body = body /\ d.hist[i].edited
        BY <1>2, <2>3, <3>1, <3>2 DEF HistEdited
      <4>2. /\ d.screen[i].me = c.screen[i].me /\ d.screen[i].peer = c.screen[i].peer
            /\ ~d.screen[i].deleted /\ d.screen[i].body = body /\ d.screen[i].edited
        BY <1>2, <1>4, <2>3, <3>1, <3>2 DEF ScreenEdited
      <4>3. d.hist[i].edited = TRUE /\ d.screen[i].edited = TRUE
        <5>1. d.hist[i] \in Rows(u) /\ d.screen[i] \in Rows(u)
          BY <1>2, <2>1 DEF SameRows, HistEdited, ScreenEdited
        <5> QED BY <4>1, <4>2, <5>1 DEF Rows
      <4> QED BY <1>3, <1>4, <2>1, <4>1, <4>2, <4>3 DEF Agrees
    <3>3. CASE c.hist[i].kind = "file"
      <4>1. d.hist[i] = c.hist[i] /\ d.screen[i] = c.screen[i]
        BY <1>2, <1>4, <2>3, <3>1, <3>3 DEF HistEdited, ScreenEdited
      <4> QED BY <1>3, <1>4, <4>1 DEF Agrees
    <3> QED BY <2>2, <3>2, <3>3
  <2>4. CASE c.hist[i].mid # mid
    <3>1. d.hist[i] = c.hist[i]
      BY <1>2, <2>4 DEF HistEdited
    <3>2. d.screen[i] = c.screen[i]
      BY <1>2, <1>4, <2>1, <2>4 DEF Only, ScreenEdited
    <3> QED BY <1>3, <1>4, <3>1, <3>2 DEF Agrees
  <2> QED BY <2>3, <2>4
<1>5. /\ d.hist \in Seq(Rows(u)) /\ SameRows(c.hist, d.hist)
      /\ d.screen \in Seq(Rows(u)) /\ SameRows(c.screen, d.screen)
      /\ \A i \in DOMAIN c.hist : d.hist[i].deleted = c.hist[i].deleted
  BY <1>2 DEF HistEdited, ScreenEdited
<1>6. Screened(d)
  <2>1. \A i \in DOMAIN c.hist : c.hist[i].deleted => d.hist[i].deleted
    BY <1>5
  <2> QED BY <1>3, <1>4, <1>5, <2>1, Rescreened
<1> QED BY <1>2, <1>5, <1>6 DEF Rewritten

\* markDeletedByMid and markDeleted, in one or both tables.
LEMMA DeleteBoth ==
    ASSUME NEW u, NEW c, Typed(u, c), Screened(c), NEW mid, NEW d,
           \/ d = markDeleted(markDeletedByMid(c, mid), mid)
           \/ d = markDeleted(c, mid)
    PROVE  /\ Rewritten(u, c, d)
           /\ \A i \in DOMAIN c.hist :
                 d.hist[i].deleted => c.hist[i].deleted \/ c.hist[i].mid = mid
<1>1. DOMAIN c = Fields /\ c.hist \in Seq(Rows(u)) /\ c.screen \in Seq(Rows(u))
  BY PartsIn, Zenon
<1>2. PICK e : Touches(u, c, e, mid) /\ d = markDeleted(e, mid)
  BY <1>1, MarkScreen, TouchNone
<1>3. /\ DOMAIN e = Fields /\ e.hist = c.hist /\ e.active = c.active /\ e.react = c.react
      /\ \A x \in Fields : x # "screen" => e[x] = c[x]
  BY <1>2 DEF Touches, Fields
<1>4. /\ Rewrites(u, e, d, mid)
      /\ \A i \in DOMAIN e.hist :
            /\ e.hist[i].deleted => d.hist[i].deleted
            /\ d.hist[i].deleted => e.hist[i].deleted \/ e.hist[i].mid = mid
            /\ e.hist[i].kind # "system" /\ e.hist[i].mid = mid => d.hist[i].deleted
  BY <1>1, <1>2, <1>3, MarkHist
<1>5. /\ DOMAIN d = Fields /\ d.screen = e.screen /\ d.active = c.active /\ d.react = c.react
      /\ \A x \in Fields : x # "hist" => d[x] = e[x]
  BY <1>3, <1>4 DEF Rewrites, Fields
<1>6. ASSUME NEW i \in DOMAIN c.hist, Only(c.screen, i, c.hist[i].mid), Agrees(c, i),
             c.hist[i].kind # "system", ~d.hist[i].deleted, c.screen[i].kind = c.hist[i].kind
      PROVE  Agrees(d, i)
  <2>1. c.hist[i].mid # mid
    BY <1>3, <1>4, <1>6
  <2>2. d.hist[i] = c.hist[i]
    BY <1>3, <1>4, <2>1 DEF Rewrites
  <2>3. d.screen[i] = c.screen[i]
    BY <1>2, <1>5, <1>6, <2>1 DEF Touches, Only
  <2> QED BY <1>5, <1>6, <2>2, <2>3 DEF Agrees
<1>7. /\ d.hist \in Seq(Rows(u)) /\ SameRows(c.hist, d.hist)
      /\ d.screen \in Seq(Rows(u)) /\ SameRows(c.screen, d.screen)
      /\ \A i \in DOMAIN c.hist : c.hist[i].deleted => d.hist[i].deleted
  BY <1>2, <1>3, <1>4, <1>5 DEF Rewrites, Touches
<1>8. Screened(d)
  BY <1>5, <1>6, <1>7, Rescreened
<1> QED BY <1>3, <1>4, <1>5, <1>7, <1>8 DEF Rewritten

\* A reaction that is shown and stored, in either order.
Reacted(c, mid, mine, on, d) ==
    \/ d = setReaction(applyReaction(c, mid, mine, on), mid, IF mine THEN "me" ELSE "peer", on)
    \/ d = applyReaction(setReaction(c, mid, IF mine THEN "me" ELSE "peer", on), mid, mine, on)

\* The screen still shows the history.
LEMMA ReactBoth ==
    ASSUME NEW u, NEW c, Typed(u, c), Screened(c), NEW mid, NEW mine, mine \in BOOLEAN,
           NEW on, on \in BOOLEAN, NEW d, Reacted(c, mid, mine, on, d)
    PROVE  /\ DOMAIN d = Fields /\ \A x \in Fields : x \notin {"screen", "react"} => d[x] = c[x]
           /\ d.screen \in Seq(Rows(u)) /\ Screened(d)
<1> DEFINE who == IF mine THEN "me" ELSE "peer"
<1>0. \/ d = setReaction(applyReaction(c, mid, mine, on), mid, who, on)
      \/ d = applyReaction(setReaction(c, mid, who, on), mid, mine, on)
  BY DEF Reacted
<1>1. DOMAIN c = Fields /\ c.hist \in Seq(Rows(u)) /\ c.screen \in Seq(Rows(u))
  BY PartsIn, Zenon
<1>2. /\ DOMAIN d = Fields /\ \A x \in Fields : x \notin {"screen", "react"} => d[x] = c[x]
      /\ ScreenReacted(u, c.screen, d.screen, mid, mine, on)
      /\ d.react = IF on THEN c.react \cup {<<mid, who>>} ELSE c.react \ {<<mid, who>>}
  <2>1. CASE d = setReaction(applyReaction(c, mid, mine, on), mid, who, on)
    <3> DEFINE e == applyReaction(c, mid, mine, on)
    <3>1. ScreenReacted(u, c.screen, e.screen, mid, mine, on) /\ Rest(c, e, "screen")
      BY <1>1, ScreenReact, Zenon
    <3>2. d = setReaction(e, mid, who, on)
      BY <2>1
    <3> HIDE DEF e
    <3>3. e.react = c.react /\ DOMAIN e = Fields
      BY <3>1 DEF Rest, Fields
    <3>4. Rest(e, d, "react")
      BY <3>2, <3>3 DEF Rest, setReaction, Fields
    <3>5. d.react = IF on THEN c.react \cup {<<mid, who>>} ELSE c.react \ {<<mid, who>>}
      BY <3>2, <3>3 DEF setReaction, Fields
    <3>6. d.screen = e.screen /\ \A x \in Fields : x \notin {"screen", "react"} => d[x] = c[x]
      BY <3>1, <3>4 DEF Rest, Fields
    <3>7. DOMAIN d = Fields
      BY <3>4 DEF Rest
    <3> QED BY <3>1, <3>5, <3>6, <3>7
  <2>2. CASE d = applyReaction(setReaction(c, mid, who, on), mid, mine, on)
    <3> DEFINE e == setReaction(c, mid, who, on)
    <3>1. Rest(c, e, "react")
      BY <1>1 DEF Rest, setReaction, Fields
    <3>2. e.react = IF on THEN c.react \cup {<<mid, who>>} ELSE c.react \ {<<mid, who>>}
      BY <1>1 DEF setReaction, Fields
    <3>3. d = applyReaction(e, mid, mine, on)
      BY <2>2
    <3> HIDE DEF e
    <3>4. e.screen = c.screen /\ DOMAIN e = Fields
      BY <3>1 DEF Rest, Fields
    <3>5. e.screen \in Seq(Rows(u))
      BY <1>1, <3>4
    <3>6. ScreenReacted(u, e.screen, d.screen, mid, mine, on) /\ Rest(e, d, "screen")
      BY <3>3, <3>4, <3>5, ScreenReact, Zenon
    <3>7. d.react = e.react /\ \A x \in Fields : x \notin {"screen", "react"} => d[x] = c[x]
      BY <3>1, <3>6 DEF Rest, Fields
    <3>8. DOMAIN d = Fields
      BY <3>6 DEF Rest
    <3> QED BY <3>2, <3>4, <3>6, <3>7, <3>8
  <2> QED BY <1>0, <2>1, <2>2
<1>3. d.active = c.active /\ d.hist = c.hist
  BY <1>2 DEF Fields
<1>4. ASSUME NEW i \in DOMAIN c.hist, Only(c.screen, i, c.hist[i].mid), Agrees(c, i),
             c.hist[i].kind # "system", ~d.hist[i].deleted, c.screen[i].kind = c.hist[i].kind
      PROVE  Agrees(d, i)
  <2>1. i \in DOMAIN c.screen /\ ~c.screen[i].deleted
    BY <1>4 DEF Only, Agrees
  <2>2. CASE c.hist[i].mid = mid
    <3>1. /\ d.screen[i].body = c.screen[i].body /\ d.screen[i].edited = c.screen[i].edited
          /\ ~d.screen[i].deleted
          /\ d.screen[i].me = IF mine THEN on ELSE c.screen[i].me
          /\ d.screen[i].peer = IF mine THEN c.screen[i].peer ELSE on
      BY <1>2, <1>4, <2>1, <2>2 DEF ScreenReacted
    <3>2. d.screen[i].me => <<d.hist[i].mid, "me">> \in d.react
      BY <1>2, <1>3, <1>4, <2>2, <3>1 DEF Agrees
    <3>3. d.screen[i].peer => <<d.hist[i].mid, "peer">> \in d.react
      BY <1>2, <1>3, <1>4, <2>2, <3>1 DEF Agrees
    <3> QED BY <1>3, <1>4, <3>1, <3>2, <3>3 DEF Agrees
  <2>3. CASE c.hist[i].mid # mid
    <3>1. d.screen[i] = c.screen[i]
      BY <1>2, <1>4, <2>1, <2>3 DEF Only, ScreenReacted
    <3>2. \A w : <<c.hist[i].mid, w>> \in c.react => <<c.hist[i].mid, w>> \in d.react
      BY <1>2, <2>3
    <3> QED BY <1>3, <1>4, <3>1, <3>2 DEF Agrees
  <2> QED BY <2>2, <2>3
<1>5. d.screen \in Seq(Rows(u)) /\ SameRows(c.screen, d.screen)
  BY <1>2 DEF ScreenReacted
<1>6. /\ d.hist \in Seq(Rows(u)) /\ SameRows(c.hist, d.hist)
      /\ \A i \in DOMAIN c.hist : c.hist[i].deleted => d.hist[i].deleted
  BY <1>1, <1>3 DEF SameRows
<1>7. Screened(d)
  BY <1>3, <1>4, <1>5, <1>6, Rescreened
<1> QED BY <1>2, <1>5, <1>7

\* setActivePeer.
LEMMA SwitchScreened ==
    ASSUME NEW u, NEW c, Typed(u, c)
    PROVE  LET d == setActivePeer(c) IN
           /\ DOMAIN d = Fields
           /\ \A x \in Fields : x \notin {"screen", "notices", "risen", "active", "unread"} => d[x] = c[x]
           /\ d.screen \in Seq(Rows(u)) /\ Screened(d)
<1>1. DOMAIN c = Fields /\ c.hist \in Seq(Rows(u)) /\ c.screen \in Seq(Rows(u))
  BY PartsIn, Zenon
<1> DEFINE d == setActivePeer(c)
<1>2. CASE c.active
  <2>1. /\ DOMAIN d = Fields /\ d.screen = <<>> /\ ~d.active
        /\ \A x \in Fields : x \notin {"screen", "notices", "risen", "active", "unread"} => d[x] = c[x]
    BY <1>1, <1>2 DEF setActivePeer, Fields
  <2> QED BY <2>1 DEF Screened
<1>3. CASE ~c.active
  <2> DEFINE a == [c EXCEPT !.active = TRUE, !.unread = 0]
             s == [i \in DOMAIN a.hist |-> [a.hist[i] EXCEPT !.deleted = FALSE]]
             b == [a EXCEPT !.notices = <<>>, !.risen = {r.mid : r \in {x \in Elements(a.hist) : x.deleted}},
                            !.screen = s]
             badge(i, who) == /\ <<b.screen[i].mid, who>> \in a.react
                              /\ indexOfMid(b, b.screen[i].mid) = i
             t == [i \in DOMAIN b.screen |->
                      [b.screen[i] EXCEPT !.me = badge(i, "me"), !.peer = badge(i, "peer")]]
  <2>1. d = [b EXCEPT !.screen = t]
    <3>1. d = loadConversation(a)
      BY <1>3 DEF setActivePeer
    <3>2. loadConversation(a) = [b EXCEPT !.screen = t]
      <4> HIDE DEF a
      <4> QED BY Zenon DEF loadConversation
    <3> HIDE DEF d, a, s, b, badge, t
    <3> QED BY <3>1, <3>2
  <2>2. /\ DOMAIN a = Fields /\ a.hist = c.hist /\ a.react = c.react /\ a.active
        /\ \A x \in Fields : x \notin {"active", "unread"} => a[x] = c[x]
    BY <1>1 DEF Fields
  <2> HIDE DEF a
  <2>3. \A i \in DOMAIN c.hist :
           /\ s[i] \in Rows(u) /\ s[i].kind = c.hist[i].kind /\ s[i].mid = c.hist[i].mid
           /\ s[i].body = c.hist[i].body /\ s[i].edited = c.hist[i].edited /\ ~s[i].deleted
    <3> SUFFICES ASSUME NEW i \in DOMAIN c.hist
                 PROVE  /\ s[i] \in Rows(u) /\ s[i].kind = c.hist[i].kind /\ s[i].mid = c.hist[i].mid
                        /\ s[i].body = c.hist[i].body /\ s[i].edited = c.hist[i].edited /\ ~s[i].deleted
      OBVIOUS
    <3>1. c.hist[i] \in Rows(u) /\ s[i] = [c.hist[i] EXCEPT !.deleted = FALSE]
      BY <1>1, <2>2
    <3> HIDE DEF s
    <3> QED BY <3>1 DEF Rows
  <2>4. DOMAIN s = DOMAIN c.hist
    BY <2>2
  <2> HIDE DEF s
  <2>5. DOMAIN b = Fields /\ b.screen = s /\ \A x \in Fields : x \notin {"screen", "notices", "risen"} => b[x] = a[x]
    BY <2>2 DEF Fields
  <2> HIDE DEF b
  <2>6. \A i \in DOMAIN c.hist :
           /\ t[i] \in Rows(u) /\ t[i].kind = c.hist[i].kind /\ t[i].mid = c.hist[i].mid
           /\ t[i].body = c.hist[i].body /\ t[i].edited = c.hist[i].edited /\ ~t[i].deleted
           /\ t[i].me => <<c.hist[i].mid, "me">> \in c.react
           /\ t[i].peer => <<c.hist[i].mid, "peer">> \in c.react
    <3> SUFFICES ASSUME NEW i \in DOMAIN c.hist
                 PROVE  /\ t[i] \in Rows(u) /\ t[i].kind = c.hist[i].kind /\ t[i].mid = c.hist[i].mid
                        /\ t[i].body = c.hist[i].body /\ t[i].edited = c.hist[i].edited /\ ~t[i].deleted
                        /\ t[i].me => <<c.hist[i].mid, "me">> \in c.react
                        /\ t[i].peer => <<c.hist[i].mid, "peer">> \in c.react
      OBVIOUS
    <3>1. t[i] = [s[i] EXCEPT !.me = badge(i, "me"), !.peer = badge(i, "peer")]
      BY <2>4, <2>5
    <3>2. badge(i, "me") => <<c.hist[i].mid, "me">> \in c.react
      BY <2>2, <2>3, <2>5
    <3>3. badge(i, "peer") => <<c.hist[i].mid, "peer">> \in c.react
      BY <2>2, <2>3, <2>5
    <3>4. badge(i, "me") \in BOOLEAN /\ badge(i, "peer") \in BOOLEAN
      OBVIOUS
    <3> HIDE DEF t, badge
    <3>5. s[i] \in Rows(u)
      BY <2>3
    <3>6. /\ t[i] \in Rows(u) /\ t[i].kind = s[i].kind /\ t[i].mid = s[i].mid
          /\ t[i].body = s[i].body /\ t[i].edited = s[i].edited /\ t[i].deleted = s[i].deleted
          /\ t[i].me = badge(i, "me") /\ t[i].peer = badge(i, "peer")
      BY <3>1, <3>4, <3>5 DEF Rows
    <3> QED BY <2>3, <3>2, <3>3, <3>6
  <2>7. DOMAIN t = DOMAIN c.hist /\ t = [i \in DOMAIN c.hist |-> t[i]]
    BY <2>4, <2>5
  <2> HIDE DEF t, badge
  <2>8. t \in Seq(Rows(u)) /\ Len(t) = Len(c.hist)
    <3>1. \A i \in DOMAIN c.hist : t[i] \in Rows(u)
      BY <2>6
    <3>2. c.hist \in Seq(Rows(u))
      BY <1>1
    <3> QED BY <2>7, <3>1, <3>2, Remade
  <2>9. /\ DOMAIN d = Fields /\ d.screen = t /\ d.hist = c.hist /\ d.react = c.react
        /\ \A x \in Fields : x \notin {"screen", "notices", "risen", "active", "unread"} => d[x] = c[x]
    BY <2>1, <2>2, <2>5 DEF Fields
  <2> HIDE DEF d
  <2>10. Screened(d)
    BY <2>6, <2>8, <2>9 DEF Screened, Same, Agrees
  <2> QED BY <2>8, <2>9, <2>10 DEF d
<1> QED BY <1>2, <1>3

-----------------------------------------------------------------------------
(* The methods of the user.                                                 *)

\* A client with the outbox of a sound one.
LEMMA SoundFrom ==
    ASSUME NEW u, NEW c, Sound(u, c), NEW d, DOMAIN d = Fields,
           d.hist \in Seq(Rows(u)), d.screen \in Seq(Rows(u)), d.tx \in Seq(Frames(u)),
           d.box = c.box, d.outbox = c.outbox, d.nextRid = c.nextRid,
           d.n \in Nat \ {0}, d.savedN = d.n, d.ids = c.ids, d.next \in Nat, d.used \subseteq Nat,
           d.incoming \subseteq MidSet \X Nat, d.shows \in BOOLEAN, d.up \in BOOLEAN,
           d.hi \in BOOLEAN, Screened(d)
    PROVE  Sound(u, d)
<1>1. Typed(u, d)
  BY DEF Sound, Typed
<1>2. Boxed(d)
  BY DEF Sound, Boxed
<1> QED BY <1>1, <1>2 DEF Sound

\* The rest of a sound client.
LEMMA MoreIn ==
    ASSUME NEW u, NEW c, Sound(u, c)
    PROVE  /\ Typed(u, c) /\ Screened(c) /\ Boxed(c) /\ c.savedN = c.n /\ c.used \subseteq Nat
           /\ c.incoming \subseteq MidSet \X Nat
           /\ c.shows \in BOOLEAN /\ c.up \in BOOLEAN /\ c.hi \in BOOLEAN
BY DEF Sound, Typed

\* Nothing is written, and no text of this user is new or leaves the outbox.
LEMMA StepQuiet ==
    ASSUME NEW u \in Users, NEW c, Calm(u, c), NEW d, NEW A, Sound(u, d), d.tx = <<>>, d.n = c.n,
           d.box = c.box, d.told = c.told, d.armed = c.armed, c.up => d.up, c.hi => d.hi, d.hi => d.up,
           \A w, k : Has(c.hist, w, k) => Has(d.hist, w, k),
           \A k : Has(d.hist, u, k) => Has(c.hist, u, k), Buried(u, c, d, A)
    PROVE  Step(u, c, d, A)
<1>1. Speaks(u, c, d, A)
  BY SpeaksNone
<1>2. Tells(c, d)
  BY TellsNone
<1>3. Books(u, c, d)
  BY DEF Books, InBox
<1> QED BY <1>1, <1>2, <1>3 DEF Step

\* One frame is written that is no text, and no text of this user is new.
LEMMA StepSays ==
    ASSUME NEW u \in Users, NEW c, Calm(u, c), NEW d, NEW A, Sound(u, d), NEW f, d.tx = <<f>>,
           f.kind \notin {"typing", "presence"}, d.up, c.hi => d.hi,
           f.kind = "hello" => ~c.hi /\ d.hi, f.kind = "delete" => <<u, f.mid>> \in A,
           c.n <= d.n, f.kind \in Numbered => c.n <= f.n /\ f.n < d.n,
           d.box = c.box, d.told = c.told, d.armed = c.armed,
           \A w, k : Has(c.hist, w, k) => Has(d.hist, w, k),
           \A k : Has(d.hist, u, k) => Has(c.hist, u, k), Buried(u, c, d, A)
    PROVE  Step(u, c, d, A)
<1>1. Speaks(u, c, d, A)
  <2>1. d.n \in Nat
    BY MoreIn, PartsIn
  <2> QED BY <2>1, SpeaksOne
<1>2. Tells(c, d)
  BY TellsOne
<1>3. Books(u, c, d)
  BY DEF Books, InBox
<1> QED BY <1>1, <1>2, <1>3 DEF Step

\* The same tombstones.
LEMMA BuriedSame ==
    ASSUME NEW u, NEW c, NEW d, NEW A, SameRows(c.hist, d.hist),
           \A i \in DOMAIN c.hist : d.hist[i].deleted => c.hist[i].deleted
    PROVE  Buried(u, c, d, A)
BY DEF Buried, SameRows

\* Tombstones of a message that was to be deleted.
LEMMA BuriedMid ==
    ASSUME NEW u, NEW c, NEW d, NEW A, NEW mid, SameRows(c.hist, d.hist),
           \A i \in DOMAIN c.hist : d.hist[i].deleted => c.hist[i].deleted \/ c.hist[i].mid = mid,
           \E w \in {u, mid[1]} : <<w, mid>> \in A
    PROVE  Buried(u, c, d, A)
BY DEF Buried, SameRows

\* A new row that is no tombstone.
LEMMA BuriedMore ==
    ASSUME NEW u \in Users, NEW c, NEW d, NEW A, c.hist \in Seq(Rows(u)), NEW r \in Rows(u), ~r.deleted,
           Plus(c.hist, r, d.hist)
    PROVE  Buried(u, c, d, A)
<1>1. \A i \in DOMAIN d.hist : (i \in DOMAIN c.hist /\ d.hist[i] = c.hist[i]) \/ d.hist[i] = r
  BY Appended
<1> QED BY <1>1 DEF Buried

\* A row that is changed where it is.
LEMMA RewrittenSound ==
    ASSUME NEW u \in Users, NEW c, Sound(u, c), NEW d, Rewritten(u, c, d)
    PROVE  /\ Sound(u, d) /\ d.box = c.box /\ d.outbox = c.outbox /\ d.tx = c.tx /\ d.n = c.n
           /\ d.told = c.told /\ d.armed = c.armed /\ d.up = c.up /\ d.hi = c.hi
           /\ d.keyed = c.keyed /\ d.gate = c.gate /\ d.used = c.used /\ d.shows = c.shows
           /\ d.active = c.active /\ d.incoming = c.incoming /\ d.ids = c.ids
           /\ d.savedN = c.savedN /\ d.nextRid = c.nextRid /\ d.next = c.next
           /\ SameRows(c.hist, d.hist) /\ \A w, k : Has(d.hist, w, k) <=> Has(c.hist, w, k)
<1>1. /\ d.box = c.box /\ d.outbox = c.outbox /\ d.tx = c.tx /\ d.n = c.n
      /\ d.told = c.told /\ d.armed = c.armed /\ d.up = c.up /\ d.hi = c.hi
      /\ d.keyed = c.keyed /\ d.gate = c.gate /\ d.used = c.used /\ d.shows = c.shows
      /\ d.active = c.active /\ d.incoming = c.incoming /\ d.ids = c.ids
      /\ d.savedN = c.savedN /\ d.nextRid = c.nextRid /\ d.next = c.next
  BY DEF Rewritten, Fields
<1>2. DOMAIN d = Fields /\ d.hist \in Seq(Rows(u)) /\ d.screen \in Seq(Rows(u)) /\ Screened(d)
      /\ SameRows(c.hist, d.hist)
  BY DEF Rewritten
<1>3. Typed(u, c) /\ Boxed(c) /\ c.savedN = c.n
  BY DEF Sound
<1>4. Typed(u, d)
  BY <1>1, <1>2, <1>3, Zenon DEF Typed
<1>5. Boxed(d)
  BY <1>1, <1>3, Zenon DEF Boxed
<1> QED BY <1>1, <1>2, <1>3, <1>4, <1>5, SameRowsHas DEF Sound

\* editMessage.
LEMMA EditStep ==
    ASSUME NEW u \in Users, NEW c, Calm(u, c), NEW mid, MayEdit(c, mid), NEW A
    PROVE  Local(u, c, editMessage(c, mid), A)
<1> DEFINE body == c.screen[indexOfMid(c, mid)].body + 1
           f == Frame("edit", mid, body, c.n, FALSE)
           a == Write(encryptFor(c), f)
           e == updateTextRow(editTextByMid(a, mid, body), mid, body)
           d == editMessage(c, mid)
<1>6. d = persistSession(e)
  BY DEF editMessage
<1>1. Sound(u, c) /\ c.tx = <<>>
  BY DEF Calm
<1>2. Typed(u, c) /\ Screened(c) /\ c.savedN = c.n
  BY <1>1, MoreIn, Zenon
<1>3. /\ DOMAIN c = Fields /\ c.n \in Nat \ {0} /\ c.screen \in Seq(Rows(u)) /\ c.hist \in Seq(Rows(u))
  BY <1>2, PartsIn, Zenon
<1>4. body \in Nat /\ mid \in MidSet /\ mid[1] = u
  <2> DEFINE m == indexOfMid(c, mid)
             r == c.screen[m]
  <2>1. OnScreen(c, mid) /\ r.mine
    BY DEF MayEdit
  <2>2. Indexed(c, mid, m)
    BY <1>3, IndexFacts, Zenon
  <2>3. m \in DOMAIN c.screen /\ c.screen[m].mid = mid
    BY <2>1, <2>2 DEF Indexed
  <2> HIDE DEF m
  <2>4. r \in Rows(u) /\ r.mid = mid
    BY <1>3, <2>3
  <2> HIDE DEF r
  <2>5. r.body \in Nat /\ r.mid \in MidSet /\ r.mid[1] = u
    BY <2>1, <2>4 DEF Rows
  <2> QED BY <2>4, <2>5 DEF r, m
<1> HIDE DEF body
<1>5. f \in Frames(u) /\ f.kind = "edit" /\ f.n = c.n
  <2>1. f \in Frames(u)
    BY <1>3, <1>4, FrameIn DEF Kinds
  <2> QED BY <2>1 DEF Frame
<1> HIDE DEF f
<1>7. /\ DOMAIN a = Fields /\ a.tx = <<f>> /\ a.n = c.n + 1
      /\ \A x \in Fields : x \notin {"tx", "n"} => a[x] = c[x]
  <2>1. /\ DOMAIN a = Fields /\ a.tx = Append(c.tx, f) /\ a.n = c.n + 1
        /\ \A x \in Fields : x \notin {"tx", "n"} => a[x] = c[x]
    BY <1>3 DEF Write, encryptFor, Fields
  <2>2. Append(<<>>, f) = <<f>>
    OBVIOUS
  <2> HIDE DEF a
  <2> QED BY <1>1, <2>1, <2>2
<1> HIDE DEF a
<1>8. /\ a.box = c.box /\ a.outbox = c.outbox /\ a.nextRid = c.nextRid /\ a.ids = c.ids
      /\ a.next = c.next /\ a.used = c.used /\ a.incoming = c.incoming /\ a.shows = c.shows
      /\ a.up = c.up /\ a.hi = c.hi /\ a.told = c.told /\ a.armed = c.armed /\ a.keyed = c.keyed
      /\ a.gate = c.gate /\ a.hist = c.hist /\ a.screen = c.screen /\ a.active = c.active
      /\ a.react = c.react
  BY <1>7 DEF Fields
<1>9. Typed(u, a) /\ Screened(a)
  <2>1. a.n \in Nat \ {0} /\ a.tx \in Seq(Frames(u))
    BY <1>3, <1>5, <1>7
  <2>2. \A i : Same(c, i) => Same(a, i)
    BY <1>8 DEF Same, Agrees
  <2>3. Typed(u, a)
    BY <1>2, <1>7, <1>8, <2>1, Zenon DEF Typed
  <2>4. Screened(a)
    BY <1>2, <1>8, <2>2 DEF Screened
  <2> QED BY <2>3, <2>4
<1>10. Rewritten(u, a, e) /\ \A i \in DOMAIN a.hist : e.hist[i].deleted = a.hist[i].deleted
  <2>1. e = updateTextRow(editTextByMid(a, mid, body), mid, body)
    OBVIOUS
  <2> HIDE DEF e
  <2> QED BY <1>4, <1>9, <2>1, EditBoth
<1> HIDE DEF e
<1>11. /\ DOMAIN d = Fields /\ d.savedN = e.n
       /\ \A x \in Fields : x # "savedN" => d[x] = e[x]
  <2>1. DOMAIN e = Fields
    BY <1>10 DEF Rewritten
  <2> QED BY <1>6, <2>1 DEF persistSession, Fields
<1> HIDE DEF d
<1>12. /\ d.box = c.box /\ d.outbox = c.outbox /\ d.nextRid = c.nextRid /\ d.ids = c.ids
       /\ d.next = c.next /\ d.used = c.used /\ d.incoming = c.incoming /\ d.shows = c.shows
       /\ d.up = c.up /\ d.hi = c.hi /\ d.told = c.told /\ d.armed = c.armed /\ d.keyed = c.keyed
       /\ d.gate = c.gate /\ d.tx = <<f>> /\ d.n = c.n + 1 /\ d.savedN = d.n
       /\ d.hist = e.hist /\ d.screen = e.screen /\ d.active = e.active /\ d.react = e.react
  <2>1. \A x \in Fields : x \notin {"hist", "screen"} => e[x] = a[x]
    BY <1>10 DEF Rewritten
  <2> QED BY <1>7, <1>8, <1>11, <2>1 DEF Fields
<1>13. Sound(u, d)
  <2>1. d.n \in Nat \ {0} /\ d.tx \in Seq(Frames(u)) /\ d.next \in Nat
    <3>1. c.next \in Nat
      BY <1>2, PartsIn, Zenon
    <3> QED BY <1>3, <1>5, <1>12, <3>1
  <2>2. \A i : Same(e, i) => Same(d, i)
    BY <1>12 DEF Same, Agrees
  <2>3. Screened(d) /\ d.hist \in Seq(Rows(u)) /\ d.screen \in Seq(Rows(u))
    BY <1>10, <1>12, <2>2 DEF Rewritten, Screened
  <2>4. /\ d.used \subseteq Nat /\ d.incoming \subseteq MidSet \X Nat
        /\ d.shows \in BOOLEAN /\ d.up \in BOOLEAN /\ d.hi \in BOOLEAN
    BY <1>1, <1>12, MoreIn
  <2> QED BY <1>1, <1>11, <1>12, <2>1, <2>3, <2>4, SoundFrom, Zenon
<1>14. SameRows(c.hist, d.hist) /\ \A i \in DOMAIN c.hist : d.hist[i].deleted => c.hist[i].deleted
  BY <1>8, <1>10, <1>12 DEF Rewritten
<1>15. \A w, k : Has(d.hist, w, k) <=> Has(c.hist, w, k)
  BY <1>14, SameRowsHas
<1>16. Buried(u, c, d, A)
  BY <1>14, BuriedSame
<1>17. d.up /\ (c.hi => d.hi)
  BY <1>12 DEF MayEdit
<1>18. c.n <= d.n /\ c.n <= f.n /\ f.n < d.n
  BY <1>3, <1>5, <1>12
<1>19. Ready(d) => Ready(c)
  BY <1>12 DEF Ready
<1>20. f.kind \notin {"typing", "presence", "hello", "delete"}
  BY <1>5
<1>21. Step(u, c, d, A)
  BY <1>12, <1>13, <1>15, <1>16, <1>17, <1>18, <1>20, StepSays
<1>22. Local(u, c, d, A)
  BY <1>12, <1>19, <1>21 DEF Local
<1> QED BY <1>22 DEF d

\* A row on the screen.
LEMMA ScreenMid ==
    ASSUME NEW u \in Users, NEW c, Sound(u, c), NEW mid, OnScreen(c, mid)
    PROVE  /\ mid \in MidSet
           /\ c.screen[indexOfMid(c, mid)].mine => mid[1] = u
<1> DEFINE m == indexOfMid(c, mid)
           r == c.screen[m]
<1>1. c.screen \in Seq(Rows(u))
  BY MoreIn, PartsIn
<1>2. Indexed(c, mid, m)
  BY <1>1, IndexFacts, Zenon
<1>3. m \in DOMAIN c.screen /\ c.screen[m].mid = mid
  BY <1>2 DEF Indexed
<1> HIDE DEF m
<1>4. r \in Rows(u) /\ r.mid = mid
  BY <1>1, <1>3
<1> HIDE DEF r
<1>5. r.mid \in MidSet /\ (r.mine => r.mid[1] = u)
  BY <1>4 DEF Rows
<1> QED BY <1>4, <1>5 DEF r, m

\* deleteForMe and deleteForEveryone.
LEMMA DeleteStep ==
    ASSUME NEW u \in Users, NEW c, Calm(u, c), NEW mid, NEW A, <<u, mid>> \in A
    PROVE  Local(u, c, deleteForMe(c, mid), A) /\ Local(u, c, deleteForEveryone(c, mid), A)
<1>1. Sound(u, c) /\ c.tx = <<>> /\ (c.hi => c.up)
  BY DEF Calm
<1>2. Typed(u, c) /\ Screened(c)
  BY <1>1, MoreIn, Zenon
<1> DEFINE Gone(e) == /\ Rewritten(u, c, e)
                      /\ \A i \in DOMAIN c.hist :
                            e.hist[i].deleted => c.hist[i].deleted \/ c.hist[i].mid = mid
<1>3. ASSUME NEW e, Gone(e) PROVE Local(u, c, e, A) /\ Sound(u, e) /\ e.tx = <<>> /\ e.up = c.up
  <2>1. /\ Sound(u, e) /\ e.box = c.box /\ e.outbox = c.outbox /\ e.tx = c.tx /\ e.n = c.n
        /\ e.told = c.told /\ e.armed = c.armed /\ e.up = c.up /\ e.hi = c.hi
        /\ e.keyed = c.keyed /\ e.gate = c.gate /\ e.used = c.used /\ e.shows = c.shows
        /\ SameRows(c.hist, e.hist) /\ \A w, k : Has(e.hist, w, k) <=> Has(c.hist, w, k)
    BY <1>1, <1>3, RewrittenSound
  <2>2. Buried(u, c, e, A)
    BY <1>3, <2>1, BuriedMid
  <2>3. Ready(e) => Ready(c)
    BY <2>1 DEF Ready
  <2>4. Step(u, c, e, A)
    BY <1>1, <2>1, <2>2, StepQuiet
  <2> QED BY <1>1, <2>1, <2>3, <2>4 DEF Local
<1>4. Gone(markDeleted(c, mid)) /\ Gone(deleteForMe(c, mid))
  BY <1>2, DeleteBoth DEF deleteForMe
<1>5. ASSUME OnScreen(c, mid), c.screen[indexOfMid(c, mid)].mine, c.up
      PROVE  Local(u, c, Write(deleteForMe(c, mid), Frame("delete", mid, 0, 0, FALSE)), A)
  <2> DEFINE e == deleteForMe(c, mid)
             f == Frame("delete", mid, 0, 0, FALSE)
             d == Write(e, f)
  <2>1. Local(u, c, e, A) /\ Sound(u, e) /\ e.tx = <<>> /\ e.up = c.up
    BY <1>3, <1>4, Zenon
  <2> HIDE DEF e
  <2>2. Typed(u, e) /\ DOMAIN e = Fields
    BY <2>1, MoreIn, PartsIn
  <2>3. f \in Frames(u) /\ f.kind = "delete" /\ f.mid = mid
    <3>1. mid \in MidSet /\ mid[1] = u
      BY <1>1, <1>5, ScreenMid
    <3>2. f \in Frames(u)
      BY <3>1, FrameIn DEF Kinds
    <3> QED BY <3>2 DEF Frame
  <2> HIDE DEF f
  <2>4. DOMAIN d = Fields /\ d.tx = Append(e.tx, f) /\ \A x \in Fields : x # "tx" => d[x] = e[x]
    BY <2>2 DEF Write, Fields
  <2>5. Append(<<>>, f) = <<f>>
    OBVIOUS
  <2> HIDE DEF d
  <2>6. /\ d.box = e.box /\ d.outbox = e.outbox /\ d.nextRid = e.nextRid /\ d.ids = e.ids
        /\ d.next = e.next /\ d.used = e.used /\ d.incoming = e.incoming /\ d.shows = e.shows
        /\ d.up = e.up /\ d.hi = e.hi /\ d.told = e.told /\ d.armed = e.armed /\ d.keyed = e.keyed
        /\ d.gate = e.gate /\ d.n = e.n /\ d.savedN = e.savedN
        /\ d.hist = e.hist /\ d.screen = e.screen /\ d.active = e.active /\ d.react = e.react
    BY <2>4 DEF Fields
  <2>7. d.tx = <<f>>
    BY <2>1, <2>4, <2>5
  <2>8. Sound(u, d)
    <3>1. \A i : Same(e, i) => Same(d, i)
      BY <2>6 DEF Same, Agrees
    <3>2. Screened(d)
      BY <2>1, <2>6, <3>1, MoreIn DEF Screened
    <3>3. /\ e.hist \in Seq(Rows(u)) /\ e.screen \in Seq(Rows(u)) /\ e.next \in Nat /\ e.n \in Nat \ {0}
      BY <2>2, PartsIn, Zenon
    <3>4. /\ e.used \subseteq Nat /\ e.incoming \subseteq MidSet \X Nat
          /\ e.shows \in BOOLEAN /\ e.up \in BOOLEAN /\ e.hi \in BOOLEAN /\ e.savedN = e.n
      BY <2>1, MoreIn, Zenon
    <3>5. d.tx \in Seq(Frames(u))
      BY <2>3, <2>7
    <3> QED BY <2>1, <2>4, <2>6, <3>2, <3>3, <3>4, <3>5, SoundFrom, Zenon
  <2>9. Step(u, c, e, A)
    BY <2>1 DEF Local
  <2>10. Speaks(u, c, d, A)
    <3>1. c.n <= e.n /\ (c.hi => e.hi)
      BY <2>9 DEF Step, Speaks
    <3>2. d.n \in Nat /\ c.n <= d.n
      BY <2>2, <2>6, <3>1, PartsIn
    <3>3. f.kind # "hello" /\ f.kind \notin Numbered
      BY <2>3 DEF Numbered
    <3> QED BY <1>5, <2>1, <2>3, <2>6, <2>7, <3>1, <3>2, <3>3, SpeaksOne
  <2>11. Tells(c, d)
    <3>1. d.told = c.told /\ d.armed = c.armed
      BY <1>3, <1>4, <1>1, <2>6, RewrittenSound DEF e
    <3> QED BY <2>3, <2>7, <3>1, TellsOne
  <2>12. Books(u, c, d)
    <3>1. DOMAIN <<>> = {}
      OBVIOUS
    <3>2. Books(u, c, e)
      BY <2>9 DEF Step
    <3>3. \A k : InBox(d, k) <=> InBox(e, k)
      BY <2>6 DEF InBox
    <3>4. \A k : ~Sent(u, e.tx, k)
      BY <2>1, <3>1 DEF Sent
    <3> QED BY <2>6, <3>2, <3>3, <3>4 DEF Books
  <2>13. Buried(u, c, d, A) /\ (Ready(d) => Ready(c))
    BY <2>1, <2>6, <2>9 DEF Local, Step, Buried, Ready
  <2>14. Local(u, c, d, A)
    BY <2>1, <2>6, <2>8, <2>10, <2>11, <2>12, <2>13 DEF Local, Step
  <2> QED BY <2>14 DEF d, e, f
<1>6. Local(u, c, deleteForMe(c, mid), A)
  BY <1>3, <1>4
<1>7. Local(u, c, deleteForEveryone(c, mid), A)
  BY <1>3, <1>4, <1>5 DEF deleteForEveryone
<1> QED BY <1>6, <1>7

\* Rows, numbers, the outbox and the typing state stay as they are.
LEMMA Aside ==
    ASSUME NEW u \in Users, NEW c, Calm(u, c), NEW d, NEW A, DOMAIN d = Fields,
           \A x \in {"ids", "hist", "box", "outbox", "nextRid", "n", "savedN", "told",
                     "armed", "tx", "hi"} : d[x] = c[x],
           d.screen \in Seq(Rows(u)), Screened(d), d.used \subseteq Nat,
           d.incoming \subseteq MidSet \X Nat, d.shows \in BOOLEAN, d.up \in BOOLEAN, c.up => d.up,
           d.next \in Nat
    PROVE  Step(u, c, d, A)
<1>1. /\ d.ids = c.ids /\ d.hist = c.hist /\ d.box = c.box /\ d.outbox = c.outbox
      /\ d.nextRid = c.nextRid /\ d.n = c.n /\ d.savedN = c.savedN
      /\ d.told = c.told /\ d.armed = c.armed /\ d.tx = c.tx /\ d.hi = c.hi
  OBVIOUS
<1>2. Sound(u, c) /\ c.tx = <<>> /\ (c.hi => c.up)
  BY DEF Calm
<1>3. Typed(u, c) /\ c.savedN = c.n /\ c.hi \in BOOLEAN
  BY <1>2, MoreIn, Zenon
<1>4. /\ c.hist \in Seq(Rows(u)) /\ c.n \in Nat \ {0} /\ c.tx \in Seq(Frames(u))
  BY <1>3, PartsIn, Zenon
<1>5. /\ d.hist \in Seq(Rows(u)) /\ d.n \in Nat \ {0} /\ d.tx \in Seq(Frames(u))
      /\ d.savedN = d.n /\ d.hi \in BOOLEAN /\ d.tx = <<>>
  BY <1>1, <1>2, <1>3, <1>4
<1>6. Sound(u, d)
  BY <1>1, <1>2, <1>5, SoundFrom, Zenon
<1>7. SameRows(c.hist, d.hist)
  BY <1>1 DEF SameRows
<1>8. Buried(u, c, d, A)
  BY <1>1, <1>7, BuriedSame
<1>9. \A w, k : Has(d.hist, w, k) <=> Has(c.hist, w, k)
  BY <1>1
<1> QED BY <1>1, <1>2, <1>5, <1>6, <1>8, <1>9, StepQuiet

\* One frame behind another client's changes.
LEMMA WriteOne ==
    ASSUME NEW u \in Users, NEW e, Sound(u, e), e.tx = <<>>, NEW f \in Frames(u), NEW d, d = Write(e, f)
    PROVE  Sound(u, d) /\ d.tx = <<f>> /\ Rest(e, d, "tx")
<1>1. Typed(u, e) /\ Screened(e)
  BY MoreIn, Zenon
<1>2. DOMAIN e = Fields
  BY <1>1, PartsIn, Zenon
<1>3. DOMAIN d = Fields /\ d.tx = Append(e.tx, f) /\ \A x \in Fields : x # "tx" => d[x] = e[x]
  BY <1>2 DEF Write, Fields
<1>4. Append(<<>>, f) = <<f>>
  OBVIOUS
<1>5. d.tx = <<f>>
  BY <1>3, <1>4
<1>6. /\ d.box = e.box /\ d.outbox = e.outbox /\ d.nextRid = e.nextRid /\ d.ids = e.ids
      /\ d.next = e.next /\ d.used = e.used /\ d.incoming = e.incoming /\ d.shows = e.shows
      /\ d.up = e.up /\ d.hi = e.hi /\ d.n = e.n /\ d.savedN = e.savedN
      /\ d.hist = e.hist /\ d.screen = e.screen /\ d.active = e.active /\ d.react = e.react
  BY <1>3 DEF Fields
<1>7. \A i : Same(e, i) => Same(d, i)
  BY <1>6 DEF Same, Agrees
<1>8. Screened(d)
  BY <1>1, <1>6, <1>7 DEF Screened
<1>9. /\ e.hist \in Seq(Rows(u)) /\ e.screen \in Seq(Rows(u)) /\ e.next \in Nat /\ e.n \in Nat \ {0}
  BY <1>1, PartsIn, Zenon
<1>10. /\ e.used \subseteq Nat /\ e.incoming \subseteq MidSet \X Nat
       /\ e.shows \in BOOLEAN /\ e.up \in BOOLEAN /\ e.hi \in BOOLEAN /\ e.savedN = e.n
  BY MoreIn, Zenon
<1>11. d.tx \in Seq(Frames(u))
  BY <1>5
<1>12. Sound(u, d)
  BY <1>3, <1>6, <1>8, <1>9, <1>10, <1>11, SoundFrom, Zenon
<1> QED BY <1>3, <1>5, <1>12 DEF Rest

\* sendReaction.
LEMMA ReactStep ==
    ASSUME NEW u \in Users, NEW c, Calm(u, c), NEW mid, OnScreen(c, mid), NEW on \in BOOLEAN, NEW A
    PROVE  Local(u, c, sendReaction(c, mid, on), A)
<1> DEFINE e == setReaction(applyReaction(c, mid, TRUE, on), mid, "me", on)
           f == Frame("reaction", mid, 0, 0, on)
           d == Write(e, f)
<1>1. Sound(u, c) /\ c.tx = <<>> /\ (c.hi => c.up)
  BY DEF Calm
<1>2. Typed(u, c) /\ Screened(c) /\ c.savedN = c.n /\ c.used \subseteq Nat /\ c.incoming \subseteq MidSet \X Nat
      /\ c.shows \in BOOLEAN /\ c.up \in BOOLEAN
  BY <1>1, MoreIn, Zenon
<1>3. /\ DOMAIN e = Fields /\ \A x \in Fields : x \notin {"screen", "react"} => e[x] = c[x]
      /\ e.screen \in Seq(Rows(u)) /\ Screened(e)
  <2>1. Reacted(c, mid, TRUE, on, e)
    BY DEF Reacted
  <2>2. TRUE \in BOOLEAN
    OBVIOUS
  <2> HIDE DEF e
  <2> QED BY <1>2, <2>1, <2>2, ReactBoth, Zenon
<1>4. sendReaction(c, mid, on) = IF c.up THEN d ELSE e
  BY DEF sendReaction
<1> HIDE DEF e
<1>5. /\ e.ids = c.ids /\ e.hist = c.hist /\ e.box = c.box /\ e.outbox = c.outbox
      /\ e.nextRid = c.nextRid /\ e.next = c.next /\ e.n = c.n /\ e.savedN = c.savedN
      /\ e.told = c.told /\ e.armed = c.armed /\ e.tx = c.tx /\ e.hi = c.hi
      /\ e.used = c.used /\ e.incoming = c.incoming /\ e.shows = c.shows /\ e.up = c.up
      /\ e.keyed = c.keyed /\ e.gate = c.gate
  BY <1>3 DEF Fields
<1>6. Step(u, c, e, A)
  <2>1. e.next \in Nat
    BY <1>2, <1>5, PartsIn
  <2> QED BY <1>2, <1>3, <1>5, <2>1, Aside
<1>7. Sound(u, e) /\ e.tx = <<>>
  BY <1>1, <1>5, <1>6 DEF Step
<1>8. Local(u, c, e, A)
  BY <1>5, <1>6 DEF Local, Ready
<1>9. ASSUME c.up PROVE Local(u, c, d, A)
  <2>1. f \in Frames(u) /\ f.kind = "reaction"
    <3>1. mid \in MidSet
      BY <1>1, ScreenMid
    <3>2. f \in Frames(u)
      BY <3>1, FrameIn DEF Kinds, Authored
    <3> QED BY <3>2 DEF Frame
  <2> HIDE DEF f
  <2>2. d = Write(e, f)
    OBVIOUS
  <2> HIDE DEF d
  <2>3. Sound(u, d) /\ d.tx = <<f>> /\ Rest(e, d, "tx")
    BY <1>7, <2>1, <2>2, WriteOne
  <2>4. /\ d.hist = c.hist /\ d.box = c.box /\ d.outbox = c.outbox /\ d.n = c.n
        /\ d.told = c.told /\ d.armed = c.armed /\ d.hi = c.hi
        /\ d.used = c.used /\ d.shows = c.shows /\ d.up = c.up
        /\ d.keyed = c.keyed /\ d.gate = c.gate
    BY <1>5, <2>3 DEF Rest, Fields
  <2>5. SameRows(c.hist, d.hist) /\ \A w, k : Has(d.hist, w, k) <=> Has(c.hist, w, k)
    BY <2>4 DEF SameRows
  <2>6. Buried(u, c, d, A)
    BY <2>4, <2>5, BuriedSame
  <2>7. c.n <= d.n
    <3>1. c.n \in Nat
      BY <1>2, PartsIn
    <3> QED BY <2>4, <3>1
  <2>8. f.kind \notin {"typing", "presence", "hello", "delete"} /\ f.kind \notin Numbered
    BY <2>1 DEF Numbered
  <2>9. Step(u, c, d, A)
    BY <1>9, <2>3, <2>4, <2>5, <2>6, <2>7, <2>8, StepSays
  <2> QED BY <2>4, <2>9 DEF Local, Ready
<1> QED BY <1>4, <1>8, <1>9

\* setActivePeer, a source that vanishes, a connection.
LEMMA AsideSteps ==
    ASSUME NEW u \in Users, NEW c, Calm(u, c), NEW A
    PROVE  /\ Local(u, c, setActivePeer(c), A)
           /\ Local(u, c, [c EXCEPT !.gone = TRUE], A)
           /\ Local(u, c, [c EXCEPT !.up = TRUE], A)
<1>1. Sound(u, c) /\ c.tx = <<>> /\ (c.hi => c.up)
  BY DEF Calm
<1>2. Typed(u, c) /\ Screened(c) /\ c.used \subseteq Nat /\ c.incoming \subseteq MidSet \X Nat
      /\ c.shows \in BOOLEAN /\ c.up \in BOOLEAN
  BY <1>1, MoreIn, Zenon
<1>3. DOMAIN c = Fields /\ c.screen \in Seq(Rows(u))
  BY <1>2, PartsIn, Zenon
<1>4. ASSUME NEW d, DOMAIN d = Fields,
             \A x \in Fields : x \notin {"screen", "notices", "risen", "active", "unread", "gone", "up"} => d[x] = c[x],
             d.screen \in Seq(Rows(u)), Screened(d), d.up \in BOOLEAN, c.up => d.up
      PROVE  Local(u, c, d, A)
  <2>1. /\ d.ids = c.ids /\ d.hist = c.hist /\ d.box = c.box /\ d.outbox = c.outbox
        /\ d.nextRid = c.nextRid /\ d.next = c.next /\ d.n = c.n /\ d.savedN = c.savedN
        /\ d.told = c.told /\ d.armed = c.armed /\ d.tx = c.tx /\ d.hi = c.hi
        /\ d.used = c.used /\ d.incoming = c.incoming /\ d.shows = c.shows
        /\ d.keyed = c.keyed /\ d.gate = c.gate
    BY <1>4 DEF Fields
  <2>2. d.next \in Nat
    BY <1>2, <2>1, PartsIn
  <2>3. Step(u, c, d, A)
    BY <1>2, <1>4, <2>1, <2>2, Aside
  <2> QED BY <2>1, <2>3 DEF Local, Ready
<1>5. Local(u, c, setActivePeer(c), A)
  <2> DEFINE d == setActivePeer(c)
  <2>1. /\ DOMAIN d = Fields
        /\ \A x \in Fields : x \notin {"screen", "notices", "risen", "active", "unread"} => d[x] = c[x]
        /\ d.screen \in Seq(Rows(u)) /\ Screened(d)
    BY <1>2, SwitchScreened
  <2> HIDE DEF d
  <2>2. d.up = c.up
    BY <2>1 DEF Fields
  <2>3. Local(u, c, d, A)
    BY <1>2, <1>4, <2>1, <2>2
  <2> QED BY <2>3 DEF d
<1>6. ASSUME NEW d, d = [c EXCEPT !.gone = TRUE] \/ d = [c EXCEPT !.up = TRUE]
      PROVE  Local(u, c, d, A)
  <2>1. /\ DOMAIN d = Fields /\ \A x \in Fields : x \notin {"gone", "up"} => d[x] = c[x]
        /\ (d.up = c.up \/ d.up = TRUE)
    BY <1>3, <1>6 DEF Fields
  <2>2. d.screen = c.screen /\ d.hist = c.hist /\ d.react = c.react /\ d.active = c.active
    BY <2>1 DEF Fields
  <2>3. \A i : Same(c, i) => Same(d, i)
    BY <2>2 DEF Same, Agrees
  <2>4. Screened(d) /\ d.screen \in Seq(Rows(u)) /\ d.up \in BOOLEAN /\ (c.up => d.up)
    BY <1>2, <1>3, <2>1, <2>2, <2>3 DEF Screened
  <2> QED BY <1>4, <2>1, <2>4
<1> QED BY <1>5, <1>6

\* Typing states.
LEMMA Talks ==
    ASSUME NEW u \in Users, NEW c, Calm(u, c), NEW d, NEW A, DOMAIN d = Fields,
           \A x \in Fields : x \notin {"tx", "told", "armed"} => d[x] = c[x], Tells(c, d),
           d.tx = <<>> \/ \E f \in Frames(u) : d.tx = <<f>> /\ f.kind = "typing" /\ c.up
    PROVE  Local(u, c, d, A)
<1>1. Sound(u, c) /\ c.tx = <<>> /\ (c.hi => c.up)
  BY DEF Calm
<1>2. /\ d.ids = c.ids /\ d.hist = c.hist /\ d.box = c.box /\ d.outbox = c.outbox
      /\ d.nextRid = c.nextRid /\ d.next = c.next /\ d.n = c.n /\ d.savedN = c.savedN
      /\ d.hi = c.hi /\ d.used = c.used /\ d.incoming = c.incoming /\ d.shows = c.shows
      /\ d.up = c.up /\ d.keyed = c.keyed /\ d.gate = c.gate /\ d.screen = c.screen
      /\ d.react = c.react /\ d.active = c.active
  BY DEF Fields
<1>3. Typed(u, c) /\ Screened(c) /\ c.savedN = c.n /\ c.used \subseteq Nat /\ c.incoming \subseteq MidSet \X Nat
      /\ c.shows \in BOOLEAN /\ c.up \in BOOLEAN /\ c.hi \in BOOLEAN
  BY <1>1, MoreIn, Zenon
<1>4. /\ c.hist \in Seq(Rows(u)) /\ c.screen \in Seq(Rows(u)) /\ c.n \in Nat \ {0} /\ c.next \in Nat
  BY <1>3, PartsIn, Zenon
<1>5. d.tx \in Seq(Frames(u))
  <2>1. <<>> \in Seq(Frames(u))
    OBVIOUS
  <2>2. ASSUME NEW f \in Frames(u) PROVE <<f>> \in Seq(Frames(u))
    OBVIOUS
  <2> QED BY <2>1, <2>2
<1>6. Sound(u, d)
  <2>1. \A i : Same(c, i) => Same(d, i)
    BY <1>2 DEF Same, Agrees
  <2>2. Screened(d)
    BY <1>2, <1>3, <2>1 DEF Screened
  <2> QED BY <1>1, <1>2, <1>3, <1>4, <1>5, <2>2, SoundFrom, Zenon
<1>7. Speaks(u, c, d, A)
  <2>1. CASE d.tx = <<>>
    BY <1>1, <1>2, <2>1, SpeaksNone
  <2>2. CASE \E f \in Frames(u) : d.tx = <<f>> /\ f.kind = "typing" /\ c.up
    <3>1. PICK f \in Frames(u) : d.tx = <<f>> /\ f.kind = "typing" /\ c.up
      BY <2>2
    <3>2. f.kind # "hello" /\ f.kind # "delete" /\ f.kind \notin Numbered
      BY <3>1 DEF Numbered
    <3>3. d.n \in Nat /\ c.n <= d.n
      BY <1>2, <1>4
    <3> QED BY <1>2, <3>1, <3>2, <3>3, SpeaksOne
  <2> QED BY <2>1, <2>2
<1>8. Books(u, c, d)
  BY <1>2 DEF Books, InBox
<1>9. Buried(u, c, d, A)
  <2>1. SameRows(c.hist, d.hist)
    BY <1>2 DEF SameRows
  <2> QED BY <1>2, <2>1, BuriedSame
<1> QED BY <1>2, <1>6, <1>7, <1>8, <1>9 DEF Local, Step, Ready

\* notifyTyping, and the timer that ends it.
LEMMA TypeSteps ==
    ASSUME NEW u \in Users, NEW c, Calm(u, c), NEW A
    PROVE  (c.up => Local(u, c, notifyTyping(c), A)) /\ Local(u, c, TypingIdle(c), A)
<1>1. c.tx = <<>> /\ DOMAIN c = Fields /\ (c.told = "typing" => c.armed)
  BY PartsIn DEF Calm, Sound
<1>2. ASSUME NEW on \in BOOLEAN
      PROVE  Frame("typing", <<>>, 0, 0, on) \in Frames(u)
  BY BareFrameIn DEF Kinds, Authored
<1>3. ASSUME c.up PROVE Local(u, c, notifyTyping(c), A)
  <2> DEFINE f == Frame("typing", <<>>, 0, 0, TRUE)
             d == notifyTyping(c)
  <2>1. f \in Frames(u)
    BY <1>2 DEF Frame
  <2>2. f.kind = "typing"
    BY DEF Frame
  <2> HIDE DEF f
  <2>3. Append(<<>>, f) = <<f>>
    OBVIOUS
  <2>4. /\ DOMAIN d = Fields /\ \A x \in Fields : x \notin {"tx", "told", "armed"} => d[x] = c[x]
        /\ d.told = "typing" /\ d.armed = TRUE /\ (d.tx = c.tx \/ d.tx = Append(c.tx, f))
    BY <1>1, <1>3 DEF notifyTyping, sendTypingState, Write, Fields, f
  <2> HIDE DEF d
  <2>5. Tells(c, d)
    BY <2>4 DEF Tells
  <2>6. d.tx = <<>> \/ \E g \in Frames(u) : d.tx = <<g>> /\ g.kind = "typing" /\ c.up
    BY <1>1, <1>3, <2>1, <2>2, <2>3, <2>4
  <2>7. Local(u, c, d, A)
    BY <2>4, <2>5, <2>6, Talks
  <2> QED BY <2>7 DEF d
<1>4. Local(u, c, TypingIdle(c), A)
  <2> DEFINE f == Frame("typing", <<>>, 0, 0, FALSE)
             d == TypingIdle(c)
  <2>1. f \in Frames(u)
    BY <1>2
  <2>2. f.kind = "typing" /\ ~f.on
    BY DEF Frame
  <2>3. "idle" # "typing"
    OBVIOUS
  <2> HIDE DEF f
  <2>4. Append(<<>>, f) = <<f>>
    OBVIOUS
  <2>5. /\ DOMAIN d = Fields /\ \A x \in Fields : x \notin {"tx", "told", "armed"} => d[x] = c[x]
        /\ d.told = "idle" /\ (d.tx = c.tx \/ (d.tx = Append(c.tx, f) /\ c.up))
        /\ (c.told # "idle" /\ c.up) => d.tx = Append(c.tx, f)
    BY <1>1 DEF TypingIdle, sendTypingState, Write, Fields, f
  <2> HIDE DEF d
  <2>6. d.tx = <<>> \/ \E g \in Frames(u) : d.tx = <<g>> /\ g.kind = "typing" /\ c.up
    BY <1>1, <2>1, <2>2, <2>4, <2>5
  <2>7. Tells(c, d)
    <3> SUFFICES ASSUME NEW b \in BOOLEAN, b => c.told = "typing" /\ c.up, Lit(b, d.tx) PROVE FALSE
      BY <2>5 DEF Tells
    <3>1. CASE d.tx = <<f>>
      <4>1. DOMAIN <<f>> = {1} /\ <<f>>[1] = f
        OBVIOUS
      <4>2. Clears(f) /\ ~Lights(f)
        BY <2>2 DEF Clears, Lights
      <4> QED BY <3>1, <4>1, <4>2 DEF Lit
    <3>2. CASE d.tx = <<>> /\ ~(c.told = "typing" /\ c.up)
      <4>1. DOMAIN <<>> = {}
        OBVIOUS
      <4> QED BY <3>2, <4>1 DEF Lit
    <3> QED BY <1>1, <2>4, <2>5, <3>1, <3>2
  <2>8. Local(u, c, d, A)
    BY <2>5, <2>6, <2>7, Talks
  <2> QED BY <2>8 DEF d
<1> QED BY <1>3, <1>4

\* Nothing.
LEMMA StepSelf ==
    ASSUME NEW u \in Users, NEW c, Calm(u, c), NEW A
    PROVE  Step(u, c, c, A)
<1>1. Sound(u, c)
  BY DEF Calm
<1>2. /\ c.savedN = c.n /\ c.used \subseteq Nat /\ c.incoming \subseteq MidSet \X Nat
      /\ c.shows \in BOOLEAN /\ c.up \in BOOLEAN /\ Typed(u, c) /\ Screened(c)
  BY <1>1, MoreIn, Zenon
<1>3. DOMAIN c = Fields /\ c.screen \in Seq(Rows(u)) /\ c.next \in Nat
  BY <1>2, PartsIn, Zenon
<1> QED BY <1>2, <1>3, Aside

\* sendFile for a new item.
LEMMA NewFileStep ==
    ASSUME NEW u \in Users, NEW c, Calm(u, c), NEW A
    PROVE  Local(u, c, newFile(c, u), A)
<1> DEFINE e == [c EXCEPT !.next = @ + 1]
           d == sendFile(e, u, c.next)
<1>1. Sound(u, c) /\ (c.hi => c.up)
  BY DEF Calm
<1>2. /\ c.savedN = c.n /\ c.used \subseteq Nat /\ c.incoming \subseteq MidSet \X Nat
      /\ c.shows \in BOOLEAN /\ c.up \in BOOLEAN /\ Typed(u, c) /\ Screened(c)
  BY <1>1, MoreIn, Zenon
<1>3. DOMAIN c = Fields /\ c.screen \in Seq(Rows(u)) /\ c.next \in Nat
  BY <1>2, PartsIn, Zenon
<1>4. /\ DOMAIN e = Fields /\ e.next = c.next + 1 /\ \A x \in Fields : x # "next" => e[x] = c[x]
  BY <1>3 DEF Fields
<1>5. newFile(c, u) = d
  BY DEF newFile
<1> HIDE DEF e
<1>6. /\ e.screen = c.screen /\ e.hist = c.hist /\ e.react = c.react /\ e.active = c.active
      /\ e.used = c.used /\ e.incoming = c.incoming /\ e.shows = c.shows /\ e.up = c.up
      /\ e.hi = c.hi /\ e.keyed = c.keyed /\ e.gate = c.gate /\ e.outbox = c.outbox
  BY <1>4 DEF Fields
<1>7. \A i : Same(c, i) => Same(e, i)
  BY <1>6 DEF Same, Agrees
<1>8. Screened(e)
  BY <1>2, <1>6, <1>7 DEF Screened
<1>9. e.next \in Nat
  BY <1>3, <1>4
<1>10. \A x \in {"ids", "hist", "box", "outbox", "nextRid", "n", "savedN", "told", "armed", "tx", "hi"} :
          e[x] = c[x]
  BY <1>4 DEF Fields
<1>11. Step(u, c, e, A)
  BY <1>2, <1>3, <1>4, <1>6, <1>8, <1>9, <1>10, Aside
<1>12. Sound(u, e)
  BY <1>11 DEF Step
<1>13. Flow(u, e, d) /\ ((e.up /\ e.gate = "open") => d.outbox = e.outbox)
  BY <1>3, <1>12, SendFileFlow
<1> HIDE DEF d
<1>14. Step(u, c, d, A)
  BY <1>11, <1>13, StepFlow
<1>15. Fixed(e, d)
  BY <1>13 DEF Flow
<1>16. Local(u, c, d, A)
  BY <1>1, <1>6, <1>13, <1>14, <1>15 DEF Local, Ready, Fixed
<1> QED BY <1>5, <1>16

\* sendMessage while the text has to wait.
LEMMA QueueStep ==
    ASSUME NEW u \in Users, NEW c, Calm(u, c), NEW A, c.gate # "open" \/ ~c.up
    PROVE  Local(u, c, sendMessage(c, u), A)
<1> DEFINE mid == <<u, c.next, c.ids>>
           row == Row("text", mid, 0, TRUE)
           item == [rid |-> c.nextRid, kind |-> "text", k |-> c.next, mid |-> mid]
           bare == [item EXCEPT !.mid = <<>>]
           d == sendMessage(c, u)
<1>1. Sound(u, c) /\ c.tx = <<>> /\ (c.hi => c.up)
  BY DEF Calm
<1>2. /\ c.savedN = c.n /\ c.used \subseteq Nat /\ c.incoming \subseteq MidSet \X Nat /\ Boxed(c)
      /\ c.shows \in BOOLEAN /\ c.up \in BOOLEAN /\ c.hi \in BOOLEAN /\ Typed(u, c) /\ Screened(c)
  BY <1>1, MoreIn, Zenon
<1>3. /\ DOMAIN c = Fields /\ c.screen \in Seq(Rows(u)) /\ c.hist \in Seq(Rows(u))
      /\ c.next \in Nat /\ c.ids \in Nat /\ c.nextRid \in Nat /\ c.n \in Nat \ {0}
  BY <1>2, PartsIn, Zenon
<1>4. mid \in MidSet /\ mid[1] = u /\ mid[2] = c.next
  BY <1>3, MidIn
<1>5. /\ DOMAIN d = Fields
      /\ \A x \in Fields : x \notin {"box", "outbox", "nextRid", "hist", "screen", "next"} => d[x] = c[x]
      /\ d.box = Append(c.box, bare) /\ d.outbox = Append(c.outbox, item) /\ d.nextRid = c.nextRid + 1
      /\ d.hist = Append(c.hist, row) /\ d.screen = Append(c.screen, row) /\ d.next = c.next + 1
  <2> HIDE DEF row
  <2> DEFINE e == [c EXCEPT !.next = @ + 1]
             q == [addTextRow(e, row) EXCEPT !.box = Append(@, [[rid |-> e.nextRid, kind |-> "text", k |-> mid[2], mid |-> mid] EXCEPT !.mid = <<>>]),
                     !.outbox = Append(@, [rid |-> e.nextRid, kind |-> "text", k |-> mid[2], mid |-> mid]),
                     !.nextRid = @ + 1]
  <2>1. d = addMessage(q, row)
    BY DEF sendMessage, queueOutbox, row
  <2>2. DOMAIN e = Fields /\ e.next = c.next + 1 /\ \A x \in Fields : x # "next" => e[x] = c[x]
    BY <1>3 DEF Fields
  <2> HIDE DEF e, mid
  <2>3. e.nextRid = c.nextRid /\ e.box = c.box /\ e.outbox = c.outbox /\ e.hist = c.hist /\ e.screen = c.screen
    BY <2>2 DEF Fields
  <2>4. /\ DOMAIN q = Fields /\ q.box = Append(c.box, bare) /\ q.outbox = Append(c.outbox, item)
        /\ q.nextRid = c.nextRid + 1 /\ q.hist = Append(c.hist, row)
        /\ \A x \in Fields : x \notin {"box", "outbox", "nextRid", "hist"} => q[x] = e[x]
    BY <1>4, <2>2, <2>3 DEF addTextRow, Fields
  <2> HIDE DEF q, item, bare
  <2>5. /\ DOMAIN d = Fields /\ d.screen = Append(q.screen, row)
        /\ \A x \in Fields : x # "screen" => d[x] = q[x]
    BY <2>1, <2>4 DEF addMessage, Fields
  <2> HIDE DEF d
  <2> QED BY <2>2, <2>3, <2>4, <2>5 DEF Fields
<1> HIDE DEF d
<1>6. row \in Rows(u) /\ row.kind = "text" /\ row.mid = mid /\ ~row.deleted /\ ~row.me /\ ~row.peer
  <2> HIDE DEF mid
  <2> QED BY <1>4 DEF Row, Rows
<1>7. /\ item \in Items(u) /\ bare \in Items(u) /\ item.rid = c.nextRid /\ bare.rid = c.nextRid
      /\ item.k = c.next /\ bare.k = c.next /\ item.kind = "text" /\ bare.kind = "text"
  <2> HIDE DEF mid
  <2> QED BY <1>3, <1>4 DEF Items
<1> HIDE DEF mid, row, item, bare
<1>8. Plus(c.box, bare, d.box) /\ Plus(c.outbox, item, d.outbox) /\ Plus(c.hist, row, d.hist)
  BY <1>5 DEF Plus
<1>9. /\ Boxed(d) /\ d.box \in Seq(Items(u)) /\ d.outbox \in Seq(Items(u)) /\ d.nextRid \in Nat
      /\ \A k : InBox(c, k) => InBox(d, k)
      /\ InBox(d, c.next)
  BY <1>2, <1>5, <1>7, <1>8, QueueBoxed
<1>10. /\ d.ids = c.ids /\ d.n = c.n /\ d.savedN = c.savedN /\ d.tx = c.tx
       /\ d.hi = c.hi /\ d.used = c.used /\ d.incoming = c.incoming /\ d.shows = c.shows
       /\ d.up = c.up /\ d.keyed = c.keyed /\ d.gate = c.gate /\ d.told = c.told /\ d.armed = c.armed
       /\ d.react = c.react /\ d.active = c.active
  BY <1>5 DEF Fields
<1>11. /\ d.hist \in Seq(Rows(u)) /\ \A w, k : Has(c.hist, w, k) => Has(d.hist, w, k)
       /\ \A w, k : Has(d.hist, w, k) => Has(c.hist, w, k) \/ (row.mid[1] = w /\ row.mid[2] = k)
  <2>1. d.hist \in Seq(Rows(u))
    BY <1>2, <1>6, <1>8, KeepsMore
  <2>2. \A w, k : Has(c.hist, w, k) => Has(d.hist, w, k)
    BY <1>2, <1>6, <1>8, KeepsMore
  <2>3. Adds(c.hist, row, d.hist)
    BY <1>2, <1>6, <1>8, KeepsMore
  <2> QED BY <2>1, <2>2, <2>3 DEF Adds
<1>12. Screened(d)
  BY <1>2, <1>5, <1>6, <1>10, BothScreened
<1>13. d.screen \in Seq(Rows(u)) /\ d.next \in Nat
  BY <1>3, <1>5, <1>6
<1>14. Typed(u, d)
  <2>1. d.tx \in Seq(Frames(u)) /\ c.n \in Nat \ {0} /\ c.ids \in Nat
    BY <1>2, <1>10, PartsIn
  <2> QED BY <1>2, <1>5, <1>9, <1>10, <1>11, <1>13, <2>1, Zenon DEF Typed
<1>15. Sound(u, d)
  BY <1>2, <1>9, <1>10, <1>12, <1>14 DEF Sound
<1>16. Speaks(u, c, d, A) /\ Tells(c, d)
  BY <1>1, <1>10, SpeaksNone, TellsNone
<1>17. Buried(u, c, d, A)
  BY <1>3, <1>6, <1>8, BuriedMore
<1>18. Books(u, c, d)
  BY <1>4, <1>6, <1>9, <1>11 DEF Books
<1>19. Local(u, c, d, A)
  BY <1>1, <1>10, <1>15, <1>16, <1>17, <1>18 DEF Local, Step, Ready
<1> QED BY <1>19 DEF d

\* sendMessage while the text can go.
LEMMA SendStep ==
    ASSUME NEW u \in Users, NEW c, Calm(u, c), NEW A, c.gate = "open", c.up
    PROVE  Local(u, c, sendMessage(c, u), A)
<1> DEFINE mid == <<u, c.next, c.ids>>
           row == Row("text", mid, 0, TRUE)
           f == Frame("text", mid, 0, c.n, FALSE)
           g == Frame("typing", <<>>, 0, 0, FALSE)
           d == sendMessage(c, u)
<1>1. Sound(u, c) /\ c.tx = <<>> /\ (c.hi => c.up) /\ (c.told = "typing" => c.armed)
  BY DEF Calm
<1>2. /\ c.savedN = c.n /\ c.used \subseteq Nat /\ c.incoming \subseteq MidSet \X Nat
      /\ c.shows \in BOOLEAN /\ c.up \in BOOLEAN /\ c.hi \in BOOLEAN /\ Typed(u, c) /\ Screened(c)
  BY <1>1, MoreIn, Zenon
<1>3. /\ DOMAIN c = Fields /\ c.screen \in Seq(Rows(u)) /\ c.hist \in Seq(Rows(u))
      /\ c.next \in Nat /\ c.ids \in Nat /\ c.n \in Nat \ {0}
  BY <1>2, PartsIn, Zenon
<1>4. mid \in MidSet /\ mid[1] = u /\ mid[2] = c.next
  BY <1>3, MidIn
<1>5. row \in Rows(u) /\ row.kind = "text" /\ row.mid = mid /\ ~row.deleted /\ ~row.me /\ ~row.peer
  <2> HIDE DEF mid
  <2> QED BY <1>4 DEF Row, Rows
<1>6. f \in Frames(u) /\ f.kind = "text" /\ f.n = c.n /\ f.mid = mid
  <2> HIDE DEF mid
  <2>1. f \in Frames(u)
    BY <1>3, <1>4, FrameIn DEF Kinds
  <2> QED BY <2>1 DEF Frame
<1>7. g \in Frames(u) /\ g.kind = "typing" /\ ~g.on
  <2>1. g \in Frames(u)
    BY BareFrameIn DEF Kinds, Authored
  <2> QED BY <2>1 DEF Frame
<1>8. /\ DOMAIN d = Fields
      /\ \A x \in Fields : x \notin {"hist", "screen", "next", "n", "savedN", "told", "tx"} => d[x] = c[x]
      /\ d.hist = Append(c.hist, row) /\ d.screen = Append(c.screen, row) /\ d.next = c.next + 1
      /\ d.n = c.n + 1 /\ d.savedN = d.n /\ d.told = "idle"
      /\ d.tx = IF c.told = "idle" THEN Append(c.tx, f) ELSE Append(Append(c.tx, f), g)
  <2> HIDE DEF row, f, g, mid
  <2> DEFINE e == [c EXCEPT !.next = @ + 1]
             w == Write(encryptFor(e), f)
             t == sendTypingState(w, "idle")
             p == addTextRow(addMessage(t, row), row)
  <2>1. d = persistSession(p)
    BY DEF sendMessage, row, f, mid
  <2>2. DOMAIN e = Fields /\ e.next = c.next + 1 /\ \A x \in Fields : x # "next" => e[x] = c[x]
    BY <1>3 DEF Fields
  <2> HIDE DEF e
  <2>3. e.n = c.n /\ e.tx = c.tx
    BY <2>2 DEF Fields
  <2>4. /\ DOMAIN w = Fields /\ w.n = c.n + 1 /\ w.tx = Append(c.tx, f)
        /\ \A x \in Fields : x \notin {"n", "tx"} => w[x] = e[x]
    BY <2>2, <2>3 DEF Write, encryptFor, Fields
  <2> HIDE DEF w
  <2>5. w.up /\ w.told = c.told
    BY <2>2, <2>4 DEF Fields
  <2>6. /\ DOMAIN t = Fields /\ t.told = "idle" /\ t.tx = IF c.told = "idle" THEN w.tx ELSE Append(w.tx, g)
        /\ \A x \in Fields : x \notin {"told", "tx"} => t[x] = w[x]
    <3>1. Frame("typing", <<>>, 0, 0, "idle" = "typing") = g
      <4>1. ("idle" = "typing") = FALSE
        OBVIOUS
      <4> QED BY <4>1 DEF g
    <3>2. CASE c.told = "idle"
      BY <2>4, <2>5, <3>2 DEF sendTypingState, Fields
    <3>3. CASE c.told # "idle"
      <4>1. t = Write([w EXCEPT !.told = "idle"], g)
        BY <2>5, <3>1, <3>3 DEF sendTypingState
      <4> HIDE DEF t
      <4> QED BY <2>4, <3>3, <4>1 DEF Write, Fields
    <3> QED BY <3>2, <3>3
  <2> HIDE DEF t
  <2>7. t.hist = c.hist /\ t.screen = c.screen /\ t.n = c.n + 1
    BY <2>2, <2>4, <2>6 DEF Fields
  <2>8. /\ DOMAIN p = Fields /\ p.hist = Append(c.hist, row) /\ p.screen = Append(c.screen, row)
        /\ \A x \in Fields : x \notin {"hist", "screen"} => p[x] = t[x]
    BY <2>6, <2>7 DEF addTextRow, addMessage, Fields
  <2> HIDE DEF p
  <2>9. /\ DOMAIN d = Fields /\ d.savedN = p.n /\ \A x \in Fields : x # "savedN" => d[x] = p[x]
    BY <2>1, <2>8 DEF persistSession, Fields
  <2> HIDE DEF d
  <2>10. d.n = p.n /\ d.tx = t.tx /\ d.told = t.told /\ d.hist = p.hist /\ d.screen = p.screen /\ d.next = e.next
    BY <2>4, <2>6, <2>8, <2>9 DEF Fields
  <2>11. \A x \in Fields : x \notin {"hist", "screen", "next", "n", "savedN", "told", "tx"} => d[x] = c[x]
    BY <2>2, <2>4, <2>6, <2>8, <2>9 DEF Fields
  <2>12. p.n = c.n + 1
    BY <2>7, <2>8 DEF Fields
  <2> QED BY <2>2, <2>4, <2>6, <2>8, <2>9, <2>10, <2>11, <2>12
<1> HIDE DEF d, row, f, g, mid
<1>9. \/ c.told = "idle" /\ d.tx = <<f>>
      \/ Plus(<<f>>, g, d.tx)
  <2>1. Append(<<>>, f) = <<f>>
    OBVIOUS
  <2> QED BY <1>1, <1>8, <2>1 DEF Plus
<1>23. ASSUME Plus(<<f>>, g, d.tx)
       PROVE  /\ d.tx \in Seq(Frames(u)) /\ DOMAIN d.tx = {1, 2} /\ d.tx[1] = f /\ d.tx[2] = g
  <2>1. <<f>> \in Seq(Frames(u)) /\ Len(<<f>>) = 1 /\ <<f>>[1] = f /\ DOMAIN <<f>> = {1}
    BY <1>6
  <2> DEFINE q == <<f>>
  <2>4. q \in Seq(Frames(u)) /\ Len(q) = 1 /\ q[1] = f /\ DOMAIN q = {1} /\ Plus(q, g, d.tx)
    BY <1>23, <2>1
  <2> HIDE DEF q
  <2> DEFINE t == d.tx
  <2>5. Plus(q, g, t)
    BY <2>4
  <2> HIDE DEF t
  <2>2. /\ t \in Seq(Frames(u)) /\ Len(t) = Len(q) + 1 /\ DOMAIN t = 1 .. Len(t)
        /\ \A i \in DOMAIN q : t[i] = q[i]
        /\ t[Len(q) + 1] = g
    <3>1. q \in Seq(Frames(u)) /\ g \in Frames(u)
      BY <1>7, <2>4
    <3> QED BY <2>5, <3>1, Appended
  <2>3. 1 .. 2 = {1, 2} /\ 1 + 1 = 2
    OBVIOUS
  <2> QED BY <2>2, <2>3, <2>4 DEF t
<1>10. /\ d.ids = c.ids /\ d.box = c.box /\ d.outbox = c.outbox /\ d.nextRid = c.nextRid
       /\ d.hi = c.hi /\ d.used = c.used /\ d.incoming = c.incoming /\ d.shows = c.shows
       /\ d.up = c.up /\ d.keyed = c.keyed /\ d.gate = c.gate /\ d.armed = c.armed
       /\ d.react = c.react /\ d.active = c.active
  BY <1>8 DEF Fields
<1>11. Plus(c.hist, row, d.hist)
  BY <1>8 DEF Plus
<1>12. /\ d.hist \in Seq(Rows(u)) /\ \A w, k : Has(c.hist, w, k) => Has(d.hist, w, k)
       /\ \A w, k : Has(d.hist, w, k) => Has(c.hist, w, k) \/ (row.mid[1] = w /\ row.mid[2] = k)
  <2>1. d.hist \in Seq(Rows(u))
    BY <1>2, <1>5, <1>11, KeepsMore
  <2>2. \A w, k : Has(c.hist, w, k) => Has(d.hist, w, k)
    BY <1>2, <1>5, <1>11, KeepsMore
  <2>3. Adds(c.hist, row, d.hist)
    BY <1>2, <1>5, <1>11, KeepsMore
  <2> QED BY <2>1, <2>2, <2>3 DEF Adds
<1>13. Screened(d)
  BY <1>2, <1>5, <1>8, <1>10, BothScreened
<1>14. d.screen \in Seq(Rows(u)) /\ d.next \in Nat /\ d.n \in Nat \ {0}
  BY <1>3, <1>5, <1>8
<1>15. d.tx \in Seq(Frames(u))
  <2>1. <<f>> \in Seq(Frames(u))
    BY <1>6
  <2> QED BY <1>9, <1>23, <2>1
<1>16. Sound(u, d)
  BY <1>1, <1>2, <1>8, <1>10, <1>12, <1>13, <1>14, <1>15, SoundFrom, Zenon
<1>17. /\ 1 \in DOMAIN d.tx /\ d.tx[1] = f
       /\ \A i \in DOMAIN d.tx : i = 1 \/ (i = 2 /\ d.tx[i] = g)
  <2>1. /\ 1 \in DOMAIN <<f>> /\ <<f>>[1] = f /\ \A i \in DOMAIN <<f>> : i = 1
    OBVIOUS
  <2> QED BY <1>9, <1>23, <2>1
<1>18. Speaks(u, c, d, A)
  <2>1. c.n <= d.n /\ c.n <= f.n /\ f.n < d.n
    BY <1>3, <1>6, <1>8
  <2>2. \A i \in DOMAIN d.tx : d.tx[i].kind \in Numbered => i = 1
    BY <1>7, <1>17 DEF Numbered
  <2>3. \A i \in DOMAIN d.tx : d.tx[i].kind \notin {"hello", "delete"}
    BY <1>6, <1>7, <1>17
  <2>4. ~(1 < 1)
    OBVIOUS
  <2> QED BY <1>1, <1>10, <1>17, <2>1, <2>2, <2>3, <2>4 DEF Speaks
<1>19. Tells(c, d)
  <2> SUFFICES ASSUME NEW b \in BOOLEAN, b => c.told = "typing" /\ c.up, Lit(b, d.tx) PROVE FALSE
    <3>1. d.told # "typing"
      BY <1>8
    <3> QED BY <3>1 DEF Tells
  <2>1. ~Lights(f) /\ ~Lights(g) /\ Clears(g)
    BY <1>6, <1>7 DEF Lights, Clears
  <2>2. CASE c.told = "idle" /\ d.tx = <<f>>
    <3>1. ~b
      BY <2>2
    <3>2. \A i \in DOMAIN <<f>> : <<f>>[i] = f
      OBVIOUS
    <3> QED BY <2>1, <2>2, <3>1, <3>2 DEF Lit
  <2>3. CASE Plus(<<f>>, g, d.tx)
    <3>1. DOMAIN d.tx = {1, 2} /\ d.tx[1] = f /\ d.tx[2] = g
      BY <1>23, <2>3
    <3> QED BY <2>1, <3>1 DEF Lit
  <2> QED BY <1>9, <2>2, <2>3
<1>20. Books(u, c, d)
  <2>1. Sent(u, d.tx, c.next)
    BY <1>4, <1>6, <1>17 DEF Sent
  <2> QED BY <1>4, <1>5, <1>10, <1>12, <2>1 DEF Books, InBox
<1>21. Buried(u, c, d, A)
  BY <1>3, <1>5, <1>11, BuriedMore
<1>22. Local(u, c, d, A)
  BY <1>10, <1>16, <1>18, <1>19, <1>20, <1>21 DEF Local, Step, Ready
<1> QED BY <1>22 DEF d

\* sendMessage.
LEMMA MessageStep ==
    ASSUME NEW u \in Users, NEW c, Calm(u, c), NEW A
    PROVE  Local(u, c, sendMessage(c, u), A)
BY QueueStep, SendStep

-----------------------------------------------------------------------------
(* What drains the outbox, and what a frame does.                           *)

\* Keys, gate, chain and transfers change; the screen is the history's.
LEMMA AsideMore ==
    ASSUME NEW u \in Users, NEW c, Calm(u, c), NEW d, NEW A, DOMAIN d = Fields,
           \A x \in Fields : x \notin {"keyed", "gate", "used", "incoming", "shows", "got"} => d[x] = c[x],
           d.used \subseteq Nat, d.incoming \subseteq MidSet \X Nat, d.shows \in BOOLEAN
    PROVE  Step(u, c, d, A)
<1>1. Sound(u, c)
  BY DEF Calm
<1>2. c.up \in BOOLEAN /\ Typed(u, c) /\ Screened(c)
  BY <1>1, MoreIn, Zenon
<1>3. c.screen \in Seq(Rows(u)) /\ c.next \in Nat
  BY <1>2, PartsIn, Zenon
<1>4. /\ d.screen = c.screen /\ d.hist = c.hist /\ d.react = c.react /\ d.active = c.active
      /\ d.up = c.up /\ d.next = c.next
  BY DEF Fields
<1>5. \A i : Same(c, i) => Same(d, i)
  BY <1>4 DEF Same, Agrees
<1>6. Screened(d) /\ d.screen \in Seq(Rows(u)) /\ d.up \in BOOLEAN /\ (c.up => d.up) /\ d.next \in Nat
  BY <1>2, <1>3, <1>4, <1>5 DEF Screened
<1>7. \A x \in {"ids", "hist", "box", "outbox", "nextRid", "n", "savedN", "told", "armed", "tx", "hi"} :
          d[x] = c[x]
  BY DEF Fields
<1> QED BY <1>6, <1>7, Aside

\* The outbox drains at the end of a method: nothing can go any more.
LEMMA DrainStep ==
    ASSUME NEW u \in Users, NEW c, Calm(u, c), NEW e, NEW A, Step(u, c, e, A)
    PROVE  LET d == flushOutbox(e, u) IN
           Step(u, c, d, A) /\ ~Ready(d) /\ d.used = e.used /\ d.shows = e.shows
<1> DEFINE d == flushOutbox(e, u)
<1>1. Sound(u, e) /\ (e.hi => e.up)
  BY DEF Step, Speaks
<1>2. Flow(u, e, d) /\ ((e.up /\ e.keyed /\ e.gate = "open") => d.outbox = <<>>)
  BY <1>1, FlushFlow
<1> HIDE DEF d
<1>3. Fixed(e, d)
  BY <1>2 DEF Flow
<1>4. Step(u, c, d, A)
  BY <1>2, StepFlow
<1> QED BY <1>1, <1>2, <1>3, <1>4 DEF Ready, Fixed, d

\* The user verifies the key.
LEMMA VerifiedStep ==
    ASSUME NEW u \in Users, NEW c, Calm(u, c), NEW A
    PROVE  Local(u, c, Verified(c, u), A)
<1> DEFINE e == [c EXCEPT !.gate = "open"]
<1>1. Sound(u, c) /\ (c.hi => c.up)
  BY DEF Calm
<1>2. c.used \subseteq Nat /\ c.incoming \subseteq MidSet \X Nat /\ c.shows \in BOOLEAN /\ Typed(u, c)
  BY <1>1, MoreIn, Zenon
<1>3. DOMAIN c = Fields
  BY <1>2, PartsIn, Zenon
<1>4. DOMAIN e = Fields /\ \A x \in Fields : x # "gate" => e[x] = c[x]
  BY <1>3 DEF Fields
<1>5. Verified(c, u) = IF e.up THEN flushOutbox(e, u) ELSE e
  BY DEF Verified
<1> HIDE DEF e
<1>6. /\ e.used = c.used /\ e.incoming = c.incoming /\ e.shows = c.shows /\ e.savedN = c.savedN
      /\ e.up = c.up /\ e.hi = c.hi
  BY <1>4 DEF Fields
<1>7. Step(u, c, e, A)
  BY <1>2, <1>4, <1>6, AsideMore
<1> DEFINE d == flushOutbox(e, u)
<1>8. Step(u, c, d, A) /\ ~Ready(d) /\ d.used = e.used /\ d.shows = e.shows
  BY <1>7, DrainStep
<1> HIDE DEF d
<1>9. Local(u, c, d, A)
  BY <1>6, <1>8 DEF Local
<1>10. ~e.up => Local(u, c, e, A)
  BY <1>1, <1>6, <1>7 DEF Local, Ready
<1> QED BY <1>5, <1>9, <1>10 DEF d

\* completeHello.
LEMMA HelloStep ==
    ASSUME NEW u \in Users, NEW c, Calm(u, c), c.up, ~c.hi, NEW A
    PROVE  Local(u, c, completeHello(c, u), A)
<1> DEFINE f == Frame("hello", <<>>, 0, 0, FALSE)
           w == Write(c, f)
           e == [w EXCEPT !.hi = TRUE]
           d == flushOutbox(e, u)
<1>1. Sound(u, c) /\ c.tx = <<>>
  BY DEF Calm
<1>2. /\ c.savedN = c.n /\ c.used \subseteq Nat /\ c.incoming \subseteq MidSet \X Nat
      /\ c.shows \in BOOLEAN /\ c.up \in BOOLEAN /\ Typed(u, c) /\ Screened(c)
  BY <1>1, MoreIn, Zenon
<1>3. /\ DOMAIN c = Fields /\ c.screen \in Seq(Rows(u)) /\ c.hist \in Seq(Rows(u))
      /\ c.next \in Nat /\ c.n \in Nat \ {0}
  BY <1>2, PartsIn, Zenon
<1>4. f \in Frames(u) /\ f.kind = "hello"
  <2>1. f \in Frames(u)
    BY BareFrameIn DEF Kinds, Authored
  <2> QED BY <2>1 DEF Frame
<1>5. completeHello(c, u) = d
  BY DEF completeHello
<1> HIDE DEF f
<1>6. w.tx = <<f>> /\ Rest(c, w, "tx")
  <2>1. w = Write(c, f)
    OBVIOUS
  <2> HIDE DEF w
  <2> QED BY <1>1, <1>4, <2>1, WriteOne
<1> HIDE DEF w
<1>7. /\ DOMAIN e = Fields /\ e.tx = <<f>> /\ e.hi = TRUE
      /\ \A x \in Fields : x \notin {"tx", "hi"} => e[x] = c[x]
  BY <1>6 DEF Rest, Fields
<1> HIDE DEF e
<1>8. /\ e.box = c.box /\ e.outbox = c.outbox /\ e.nextRid = c.nextRid /\ e.ids = c.ids
      /\ e.next = c.next /\ e.used = c.used /\ e.incoming = c.incoming /\ e.shows = c.shows
      /\ e.up = c.up /\ e.n = c.n /\ e.savedN = c.savedN /\ e.told = c.told /\ e.armed = c.armed
      /\ e.hist = c.hist /\ e.screen = c.screen /\ e.active = c.active /\ e.react = c.react
  BY <1>7 DEF Fields
<1>9. Sound(u, e)
  <2>1. \A i : Same(c, i) => Same(e, i)
    BY <1>8 DEF Same, Agrees
  <2>2. Screened(e)
    BY <1>2, <1>8, <2>1 DEF Screened
  <2>3. e.tx \in Seq(Frames(u)) /\ e.hi \in BOOLEAN
    <3>1. <<f>> \in Seq(Frames(u))
      BY <1>4
    <3> QED BY <1>7, <3>1
  <2> QED BY <1>1, <1>2, <1>3, <1>7, <1>8, <2>2, <2>3, SoundFrom, Zenon
<1>10. Step(u, c, e, A)
  <2>1. SameRows(c.hist, e.hist) /\ \A ww, k : Has(e.hist, ww, k) <=> Has(c.hist, ww, k)
    BY <1>8 DEF SameRows
  <2>2. Buried(u, c, e, A)
    BY <1>8, <2>1, BuriedSame
  <2>3. f.kind \notin {"typing", "presence", "delete"} /\ f.kind \notin Numbered /\ c.n <= e.n
    BY <1>3, <1>4, <1>8 DEF Numbered
  <2> QED BY <1>7, <1>8, <1>9, <2>1, <2>2, <2>3, StepSays
<1>11. Step(u, c, d, A) /\ ~Ready(d) /\ d.used = e.used /\ d.shows = e.shows
  BY <1>10, DrainStep
<1> HIDE DEF d
<1>12. Local(u, c, d, A)
  BY <1>8, <1>11 DEF Local
<1> QED BY <1>5, <1>12

\* A message of the peer is added to the history, and to the screen.
LEMMA GrowFlow ==
    ASSUME NEW u \in Users, NEW c, Sound(u, c), NEW d, DOMAIN d = Fields,
           \A x \in Fields : x \notin {"unread", "hist", "screen"} => d[x] = c[x],
           NEW row \in Rows(u), ~row.deleted, ~row.me, ~row.peer, row.mid[1] # u,
           Plus(c.hist, row, d.hist),
           c.active => d.screen = Append(c.screen, row), ~c.active => d.screen = c.screen
    PROVE  Flow(u, c, d) /\ (row.kind = "text" => Has(d.hist, row.mid[1], row.mid[2]))
<1>1. /\ c.savedN = c.n /\ c.used \subseteq Nat /\ c.incoming \subseteq MidSet \X Nat
      /\ c.shows \in BOOLEAN /\ c.up \in BOOLEAN /\ c.hi \in BOOLEAN /\ Typed(u, c) /\ Screened(c)
  BY MoreIn, Zenon
<1>2. /\ DOMAIN c = Fields /\ c.screen \in Seq(Rows(u)) /\ c.hist \in Seq(Rows(u))
      /\ c.next \in Nat /\ c.n \in Nat \ {0} /\ c.tx \in Seq(Frames(u)) /\ c.nextRid \in Nat
  BY <1>1, PartsIn, Zenon
<1>3. /\ d.box = c.box /\ d.outbox = c.outbox /\ d.nextRid = c.nextRid /\ d.ids = c.ids
      /\ d.next = c.next /\ d.used = c.used /\ d.incoming = c.incoming /\ d.shows = c.shows
      /\ d.up = c.up /\ d.hi = c.hi /\ d.n = c.n /\ d.savedN = c.savedN /\ d.told = c.told
      /\ d.armed = c.armed /\ d.active = c.active /\ d.react = c.react /\ d.tx = c.tx
      /\ Fixed(c, d)
  BY DEF Fields, Fixed
<1>4. d.hist \in Seq(Rows(u)) /\ Keeps(c, d) /\ Adds(c.hist, row, d.hist)
  BY <1>1, KeepsMore
<1>5. row.kind = "text" => Has(d.hist, row.mid[1], row.mid[2])
  BY <1>1, KeepsMore
<1>6. d.screen \in Seq(Rows(u))
  <2>1. Append(c.screen, row) \in Seq(Rows(u))
    BY <1>2
  <2>2. c.active \/ ~c.active
    OBVIOUS
  <2> QED BY <1>2, <2>1, <2>2
<1>7. Screened(d)
  <2>1. CASE c.active
    BY <1>1, <1>3, <2>1, BothScreened DEF Plus
  <2>2. CASE ~c.active
    BY <1>3, <2>2 DEF Screened
  <2> QED BY <2>1, <2>2
<1>8. Sound(u, d)
  BY <1>1, <1>2, <1>3, <1>4, <1>6, <1>7, SoundFrom, Zenon
<1>9. New(c, d) = {} /\ Len(c.tx) \in Nat
  BY <1>2, <1>3 DEF New
<1>10. Appends(c, d) /\ Rekeys(c, d)
  BY <1>2, <1>3, <1>9 DEF Appends, Rekeys
<1>11. Accounts(u, c, d)
  <2>1. \A k : InBox(c, k) <=> InBox(d, k)
    BY <1>3 DEF InBox
  <2>2. \A k : Has(d.hist, u, k) => Has(c.hist, u, k)
    BY <1>4 DEF Adds
  <2> QED BY <2>1, <2>2 DEF Accounts
<1> QED BY <1>3, <1>4, <1>5, <1>8, <1>10, <1>11 DEF Flow

\* What reading the frame fr of the peer does.
Reads(u, c, d, fr, A) ==
    /\ Step(u, c, d, A)
    /\ d.used \subseteq c.used \cup (IF fr.kind \in Numbered THEN {fr.n} ELSE {})
    /\ d.shows => Lights(fr) \/ (c.shows /\ ~Clears(fr))
    /\ Ready(d) => Ready(c) \/ (fr.kind = "init" /\ c.gate = "waiting")
    /\ (fr.kind = "text" /\ Decrypts(c, fr)) => Has(d.hist, fr.mid[1], fr.mid[2])

\* decryptFrom.
LEMMA DecryptStep ==
    ASSUME NEW u \in Users, NEW c, Calm(u, c), NEW fr, fr.n \in Nat, NEW A
    PROVE  LET d == decryptFrom(c, fr) IN
           /\ Step(u, c, d, A) /\ DOMAIN d = Fields /\ d.used = c.used \cup {fr.n}
           /\ \A x \in Fields : x \notin {"used", "gate"} => d[x] = c[x]
           /\ c.gate # "waiting" => d.gate = c.gate
<1> DEFINE d == decryptFrom(c, fr)
<1>1. Sound(u, c)
  BY DEF Calm
<1>2. c.used \subseteq Nat /\ c.incoming \subseteq MidSet \X Nat /\ c.shows \in BOOLEAN /\ Typed(u, c)
  BY <1>1, MoreIn, Zenon
<1>3. DOMAIN c = Fields
  BY <1>2, PartsIn, Zenon
<1>4. /\ DOMAIN d = Fields /\ d.used = c.used \cup {fr.n}
      /\ \A x \in Fields : x \notin {"used", "gate"} => d[x] = c[x]
      /\ c.gate # "waiting" => d.gate = c.gate
  BY <1>3 DEF decryptFrom, Fields
<1> HIDE DEF d
<1>5. d.used \subseteq Nat /\ d.incoming = c.incoming /\ d.shows = c.shows
  BY <1>2, <1>4 DEF Fields
<1>6. Step(u, c, d, A)
  BY <1>2, <1>4, <1>5, AsideMore
<1> QED BY <1>4, <1>6 DEF d

\* A flush keeps the texts.
LEMMA FlowHas ==
    ASSUME NEW u \in Users, NEW c, Sound(u, c), NEW d, Flow(u, c, d), NEW w, NEW k, Has(c.hist, w, k)
    PROVE  Has(d.hist, w, k)
<1>1. Keeps(c, d) /\ Typed(u, c) /\ Typed(u, d)
  BY DEF Flow, Sound
<1>2. c.hist \in Seq(Rows(u)) /\ d.hist \in Seq(Rows(u))
  BY <1>1, PartsIn
<1>3. /\ Len(c.hist) \in Nat /\ Len(d.hist) \in Nat
      /\ DOMAIN c.hist = 1 .. Len(c.hist) /\ DOMAIN d.hist = 1 .. Len(d.hist)
  BY <1>2
<1>4. \A i \in DOMAIN c.hist :
         i \in DOMAIN d.hist /\ d.hist[i].kind = c.hist[i].kind /\ d.hist[i].mid = c.hist[i].mid
  BY <1>1, <1>3 DEF Keeps
<1> QED BY <1>4 DEF Has

\* A text of the peer is shown, or counted as unread.
LEMMA AddFlow ==
    ASSUME NEW u \in Users, NEW b, Sound(u, b), NEW row \in Rows(u), ~row.deleted, ~row.me, ~row.peer,
           row.mid[1] # u, NEW e,
           e = LET p == persistSession(addTextRow(b, row))
               IN IF b.active THEN addMessage(p, row) ELSE incrementUnread(p)
    PROVE  Flow(u, b, e) /\ (row.kind = "text" => Has(e.hist, row.mid[1], row.mid[2]))
<1>1. b.savedN = b.n /\ DOMAIN b = Fields
  BY MoreIn, PartsIn
<1>2. /\ DOMAIN e = Fields /\ \A x \in Fields : x \notin {"unread", "hist", "screen"} => e[x] = b[x]
      /\ Plus(b.hist, row, e.hist)
      /\ b.active => e.screen = Append(b.screen, row)
      /\ ~b.active => e.screen = b.screen
  <2> DEFINE p == persistSession(addTextRow(b, row))
  <2>1. e = IF b.active THEN addMessage(p, row) ELSE incrementUnread(p)
    OBVIOUS
  <2>3. /\ DOMAIN p = Fields /\ p.hist = Append(b.hist, row) /\ \A x \in Fields : x # "hist" => p[x] = b[x]
    BY <1>1 DEF persistSession, addTextRow, Fields
  <2> HIDE DEF p
  <2>4. p.screen = b.screen
    BY <2>3 DEF Fields
  <2>5. CASE b.active
    <3>1. e = [p EXCEPT !.screen = Append(@, row)]
      BY <2>1, <2>5 DEF addMessage
    <3>2. DOMAIN e = Fields /\ e.screen = Append(p.screen, row) /\ \A x \in Fields : x # "screen" => e[x] = p[x]
      BY <2>3, <3>1 DEF Fields
    <3>3. e.hist = p.hist
      BY <3>2 DEF Fields
    <3> QED BY <2>3, <2>4, <2>5, <3>2, <3>3 DEF Plus
  <2>6. CASE ~b.active
    <3>1. e = [p EXCEPT !.unread = @ + 1]
      BY <2>1, <2>6 DEF incrementUnread
    <3>2. DOMAIN e = Fields /\ \A x \in Fields : x # "unread" => e[x] = p[x]
      BY <2>3, <3>1 DEF Fields
    <3>3. e.hist = p.hist /\ e.screen = p.screen
      BY <3>2 DEF Fields
    <3> QED BY <2>3, <2>4, <2>6, <3>2, <3>3 DEF Plus
  <2> QED BY <2>5, <2>6
<1> QED BY <1>2, GrowFlow

\* A text.
LEMMA OnTextReads ==
    ASSUME NEW u \in Users, NEW c, Calm(u, c), NEW fr \in Frames(Other(u)), fr.kind = "text", NEW A,
           Decrypts(c, fr)
    PROVE  Reads(u, c, flushOutbox(OnText(decryptFrom(c, fr), fr), u), fr, A)
<1> DEFINE row == Row("text", fr.mid, fr.body, FALSE)
           a == decryptFrom(c, fr)
           b == setPeerTyping(a, FALSE)
           e == OnText(a, fr)
           d == flushOutbox(e, u)
<1>1. fr.n \in Nat /\ fr.body \in Nat /\ fr.mid \in MidSet /\ fr.mid[1] = Other(u) /\ fr.mid[1] # u
  BY Others DEF Frames, Authored
<1>2. /\ DOMAIN a = Fields /\ a.used = c.used \cup {fr.n}
      /\ \A x \in Fields : x \notin {"used", "gate"} => a[x] = c[x]
      /\ Step(u, c, a, A)
  BY <1>1, DecryptStep
<1> HIDE DEF a
<1>3. Sound(u, c) /\ Sound(u, a)
  BY <1>2 DEF Calm, Step
<1>4. /\ DOMAIN b = Fields /\ b.shows = FALSE /\ \A x \in Fields : x # "shows" => b[x] = a[x]
  BY <1>2 DEF setPeerTyping, Fields
<1> HIDE DEF b
<1>5. Step(u, c, b, A)
  <2>1. \A x \in Fields : x \notin {"keyed", "gate", "used", "incoming", "shows"} => b[x] = c[x]
    BY <1>2, <1>4
  <2>2. b.used = a.used /\ b.incoming = a.incoming
    BY <1>4 DEF Fields
  <2>3. a.used \subseteq Nat /\ a.incoming \subseteq MidSet \X Nat
    BY <1>3, MoreIn, Zenon
  <2>4. b.shows \in BOOLEAN
    BY <1>4
  <2> QED BY <1>4, <2>1, <2>2, <2>3, <2>4, AsideMore
<1>6. Sound(u, b)
  BY <1>5 DEF Step
<1>7. row \in Rows(u) /\ ~row.deleted /\ ~row.me /\ ~row.peer /\ row.mid = fr.mid /\ row.kind = "text"
  BY <1>1 DEF Row, Rows
<1> HIDE DEF row
<1>8. e = LET p == persistSession(addTextRow(b, row))
          IN IF b.active THEN addMessage(p, row) ELSE incrementUnread(p)
  <2>1. a.active = b.active
    BY <1>4 DEF Fields
  <2> QED BY <2>1 DEF OnText, b, row
<1> HIDE DEF e
<1>9. Flow(u, b, e) /\ Has(e.hist, row.mid[1], row.mid[2])
  BY <1>1, <1>6, <1>7, <1>8, AddFlow
<1>10. Step(u, c, e, A)
  BY <1>5, <1>9, StepFlow
<1>11. Step(u, c, d, A) /\ ~Ready(d) /\ d.used = e.used /\ d.shows = e.shows
  BY <1>10, DrainStep
<1>12. Flow(u, e, d)
  BY <1>10, FlushFlow DEF Step
<1> HIDE DEF d
<1>13. Has(d.hist, fr.mid[1], fr.mid[2])
  BY <1>7, <1>9, <1>10, <1>12, FlowHas DEF Step
<1>14. d.used = c.used \cup {fr.n} /\ ~d.shows
  <2>1. e.used = b.used /\ e.shows = b.shows
    BY <1>9 DEF Flow, Fixed
  <2> QED BY <1>2, <1>4, <1>11, <2>1 DEF Fields
<1>15. fr.kind \in Numbered
  BY DEF Numbered
<1>16. Reads(u, c, d, fr, A)
  BY <1>11, <1>13, <1>14, <1>15 DEF Reads
<1> QED BY <1>16 DEF d, e, a

\* persistSession once more.
LEMMA PersistSame ==
    ASSUME NEW u \in Users, NEW b, Sound(u, b), NEW e, e = persistSession(b)
    PROVE  Sound(u, e) /\ DOMAIN e = Fields /\ \A x \in Fields : e[x] = b[x]
<1>1. /\ b.savedN = b.n /\ b.used \subseteq Nat /\ b.incoming \subseteq MidSet \X Nat
      /\ b.shows \in BOOLEAN /\ b.up \in BOOLEAN /\ b.hi \in BOOLEAN /\ Typed(u, b) /\ Screened(b)
  BY MoreIn, Zenon
<1>2. /\ DOMAIN b = Fields /\ b.screen \in Seq(Rows(u)) /\ b.hist \in Seq(Rows(u))
      /\ b.next \in Nat /\ b.n \in Nat \ {0} /\ b.tx \in Seq(Frames(u))
  BY <1>1, PartsIn, Zenon
<1>3. DOMAIN e = Fields /\ \A x \in Fields : e[x] = b[x]
  BY <1>1, <1>2 DEF persistSession, Fields
<1>4. /\ e.box = b.box /\ e.outbox = b.outbox /\ e.nextRid = b.nextRid /\ e.ids = b.ids
      /\ e.next = b.next /\ e.used = b.used /\ e.incoming = b.incoming /\ e.shows = b.shows
      /\ e.up = b.up /\ e.hi = b.hi /\ e.n = b.n /\ e.savedN = b.savedN /\ e.tx = b.tx
      /\ e.hist = b.hist /\ e.screen = b.screen /\ e.active = b.active /\ e.react = b.react
  BY <1>3 DEF Fields
<1>5. \A i : Same(b, i) => Same(e, i)
  BY <1>4 DEF Same, Agrees
<1>6. Screened(e)
  BY <1>1, <1>4, <1>5 DEF Screened
<1>7. Sound(u, e)
  BY <1>1, <1>2, <1>3, <1>4, <1>6, SoundFrom, Zenon
<1> QED BY <1>3, <1>7

\* An edit.
LEMMA OnEditReads ==
    ASSUME NEW u \in Users, NEW c, Calm(u, c), NEW fr \in Frames(Other(u)), fr.kind = "edit", NEW A
    PROVE  Reads(u, c, flushOutbox(OnEdit(decryptFrom(c, fr), fr), u), fr, A)
<1> DEFINE row == Row("text", fr.mid, fr.body, FALSE)
           a == decryptFrom(c, fr)
           e == OnEdit(a, fr)
           d == flushOutbox(e, u)
<1>1. fr.n \in Nat /\ fr.body \in Nat /\ fr.mid \in MidSet /\ fr.mid[1] = Other(u) /\ fr.mid[1] # u
  BY Others DEF Frames, Authored
<1>2. /\ DOMAIN a = Fields /\ a.used = c.used \cup {fr.n}
      /\ \A x \in Fields : x \notin {"used", "gate"} => a[x] = c[x]
      /\ Step(u, c, a, A)
  BY <1>1, DecryptStep
<1> HIDE DEF a
<1>3. Sound(u, a)
  BY <1>2 DEF Step
<1>4. a.savedN = a.n /\ Typed(u, a) /\ Screened(a)
  BY <1>3, MoreIn, Zenon
<1>5. row \in Rows(u) /\ ~row.deleted /\ ~row.me /\ ~row.peer /\ row.mid = fr.mid
  BY <1>1 DEF Row, Rows
<1>6. /\ a.box = c.box /\ a.tx = c.tx /\ a.n = c.n /\ a.told = c.told /\ a.armed = c.armed
      /\ a.up = c.up /\ a.hi = c.hi /\ a.shows = c.shows /\ a.hist = c.hist
  BY <1>2 DEF Fields
<1>7. Step(u, c, e, A) /\ e.used = a.used /\ e.shows = a.shows
  <2>1. CASE Updates(a, fr.mid)
    <3> DEFINE b == editTextByMid(updateTextRow(a, fr.mid, fr.body), fr.mid, fr.body)
    <3>1. Rewritten(u, a, b) /\ \A i \in DOMAIN a.hist : b.hist[i].deleted = a.hist[i].deleted
      <4>1. b = editTextByMid(updateTextRow(a, fr.mid, fr.body), fr.mid, fr.body)
        OBVIOUS
      <4> HIDE DEF b
      <4> QED BY <1>1, <1>4, <4>1, EditBoth
    <3>2. e = persistSession(b)
      BY <2>1 DEF OnEdit
    <3> HIDE DEF b, e
    <3>3. /\ Sound(u, b) /\ b.box = a.box /\ b.tx = a.tx /\ b.n = a.n
          /\ b.told = a.told /\ b.armed = a.armed /\ b.up = a.up /\ b.hi = a.hi
          /\ b.used = a.used /\ b.shows = a.shows
          /\ SameRows(a.hist, b.hist) /\ \A w, k : Has(b.hist, w, k) <=> Has(a.hist, w, k)
      BY <1>3, <3>1, RewrittenSound
    <3>4. Sound(u, e) /\ \A x \in Fields : e[x] = b[x]
      BY <3>2, <3>3, PersistSame
    <3>5. /\ e.box = b.box /\ e.tx = b.tx /\ e.n = b.n /\ e.told = b.told /\ e.armed = b.armed
          /\ e.up = b.up /\ e.hi = b.hi /\ e.used = b.used /\ e.shows = b.shows /\ e.hist = b.hist
      BY <3>4 DEF Fields
    <3>6. Buried(u, c, e, A)
      BY <1>6, <3>1, <3>3, <3>5, BuriedSame
    <3>7. c.tx = <<>> /\ (c.hi => c.up)
      BY DEF Calm
    <3>8. Step(u, c, e, A)
      BY <1>6, <3>3, <3>4, <3>5, <3>6, <3>7, StepQuiet
    <3> QED BY <3>3, <3>5, <3>8
  <2>2. CASE ~Updates(a, fr.mid)
    <3>1. e = LET p == persistSession(addTextRow(a, row))
              IN IF a.active THEN addMessage(p, row) ELSE incrementUnread(p)
      BY <2>2 DEF OnEdit
    <3> HIDE DEF row, e
    <3>2. Flow(u, a, e)
      BY <1>1, <1>3, <1>5, <3>1, AddFlow
    <3> QED BY <1>2, <3>2, StepFlow DEF Flow, Fixed
  <2> QED BY <2>1, <2>2
<1> HIDE DEF e
<1>8. Step(u, c, d, A) /\ ~Ready(d) /\ d.used = e.used /\ d.shows = e.shows
  BY <1>7, DrainStep
<1> HIDE DEF d
<1>9. fr.kind \in Numbered /\ ~Clears(fr)
  BY DEF Numbered, Clears
<1>10. Reads(u, c, d, fr, A)
  BY <1>2, <1>6, <1>7, <1>8, <1>9 DEF Reads
<1> QED BY <1>10 DEF d, e, a

\* Nothing of a frame that is dropped.
LEMMA DropReads ==
    ASSUME NEW u \in Users, NEW c, Calm(u, c), NEW fr, ~Clears(fr),
           fr.kind = "text" => ~Decrypts(c, fr), NEW A
    PROVE  Reads(u, c, c, fr, A)
<1>1. Step(u, c, c, A)
  BY StepSelf
<1> QED BY <1>1 DEF Reads

\* The messages of the ratchet.
LEMMA OnMsgReads ==
    ASSUME NEW u \in Users, NEW c, Calm(u, c), NEW fr \in Frames(Other(u)),
           fr.kind \in {"text", "edit", "handshake"}, NEW A
    PROVE  Reads(u, c, OnMsg(c, u, fr), fr, A)
<1>1. ~Clears(fr) /\ fr.kind \in Numbered
  BY DEF Clears, Numbered
<1>2. CASE ~Decrypts(c, fr)
  <2>1. OnMsg(c, u, fr) = c
    BY <1>2 DEF OnMsg
  <2> QED BY <1>1, <1>2, <2>1, DropReads
<1>3. CASE Decrypts(c, fr) /\ fr.kind = "text"
  <2>1. OnMsg(c, u, fr) = flushOutbox(OnText(decryptFrom(c, fr), fr), u)
    BY <1>3 DEF OnMsg, Drained
  <2> QED BY <1>3, <2>1, OnTextReads
<1>4. CASE Decrypts(c, fr) /\ fr.kind = "edit"
  <2>1. OnMsg(c, u, fr) = flushOutbox(OnEdit(decryptFrom(c, fr), fr), u)
    BY <1>4 DEF OnMsg, Drained
  <2> QED BY <1>4, <2>1, OnEditReads
<1>5. CASE Decrypts(c, fr) /\ fr.kind = "handshake"
  <2> DEFINE a == decryptFrom(c, fr)
             e == persistSession(a)
             d == flushOutbox(e, u)
  <2>1. OnMsg(c, u, fr) = d
    BY <1>5 DEF OnMsg, Drained
  <2>2. fr.n \in Nat
    BY DEF Frames
  <2>3. /\ DOMAIN a = Fields /\ a.used = c.used \cup {fr.n}
        /\ \A x \in Fields : x \notin {"used", "gate"} => a[x] = c[x]
        /\ Step(u, c, a, A)
    BY <2>2, DecryptStep
  <2> HIDE DEF a
  <2>4. Sound(u, a)
    BY <2>3 DEF Step
  <2>5. Sound(u, e) /\ DOMAIN e = Fields /\ \A x \in Fields : e[x] = a[x]
    <3>1. e = persistSession(a)
      OBVIOUS
    <3> HIDE DEF e
    <3> QED BY <2>4, <3>1, PersistSame
  <2> HIDE DEF e
  <2>6. Step(u, c, e, A) /\ e.used = a.used /\ e.shows = c.shows
    <3>1. e.used = a.used /\ e.shows = a.shows /\ a.shows = c.shows
      BY <2>3, <2>5 DEF Fields
    <3>2. /\ e.used \subseteq Nat /\ e.incoming \subseteq MidSet \X Nat /\ e.shows \in BOOLEAN
      BY <2>5, MoreIn, Zenon
    <3>3. \A x \in Fields : x \notin {"keyed", "gate", "used", "incoming", "shows"} => e[x] = c[x]
      BY <2>3, <2>5
    <3>4. Step(u, c, e, A)
      BY <2>5, <3>2, <3>3, AsideMore
    <3> QED BY <3>1, <3>4
  <2>7. Step(u, c, d, A) /\ ~Ready(d) /\ d.used = e.used /\ d.shows = e.shows
    BY <2>6, DrainStep
  <2> HIDE DEF d
  <2>8. Reads(u, c, d, fr, A)
    BY <1>1, <1>5, <2>3, <2>6, <2>7 DEF Reads
  <2> QED BY <2>1, <2>8
<1> QED BY <1>2, <1>3, <1>4, <1>5

\* The peer's keys, its typing state, its presence.
LEMMA AsideReads ==
    ASSUME NEW u \in Users, NEW c, Calm(u, c), NEW fr \in Frames(Other(u)), NEW A
    PROVE  /\ fr.kind = "keys" => Reads(u, c, OnKeys(c, u), fr, A)
           /\ fr.kind = "typing" => Reads(u, c, OnTyping(c, fr), fr, A)
           /\ fr.kind = "presence" => Reads(u, c, OnPresence(c, fr), fr, A)
<1>1. Sound(u, c)
  BY DEF Calm
<1>2. c.used \subseteq Nat /\ c.incoming \subseteq MidSet \X Nat /\ c.shows \in BOOLEAN /\ Typed(u, c)
  BY <1>1, MoreIn, Zenon
<1>3. DOMAIN c = Fields
  BY <1>2, PartsIn, Zenon
<1>4. fr.on \in BOOLEAN
  BY DEF Frames
<1>5. ASSUME fr.kind = "keys" PROVE Reads(u, c, OnKeys(c, u), fr, A)
  <2> DEFINE e == [c EXCEPT !.keyed = TRUE]
             d == flushOutbox(e, u)
  <2>1. OnKeys(c, u) = d
    BY DEF OnKeys
  <2>2. DOMAIN e = Fields /\ \A x \in Fields : x # "keyed" => e[x] = c[x]
    BY <1>3 DEF Fields
  <2> HIDE DEF e
  <2>3. e.used = c.used /\ e.incoming = c.incoming /\ e.shows = c.shows
    BY <2>2 DEF Fields
  <2>4. Step(u, c, e, A)
    BY <1>2, <2>2, <2>3, AsideMore
  <2>5. Step(u, c, d, A) /\ ~Ready(d) /\ d.used = e.used /\ d.shows = e.shows
    BY <2>4, DrainStep
  <2> HIDE DEF d
  <2>6. ~Clears(fr) /\ fr.kind # "text"
    BY <1>5 DEF Clears
  <2>7. Reads(u, c, d, fr, A)
    BY <2>3, <2>5, <2>6 DEF Reads
  <2> QED BY <2>1, <2>7
<1>6. ASSUME NEW on \in BOOLEAN, fr.kind \in {"typing", "presence"},
             on => Lights(fr) \/ (c.shows /\ ~Clears(fr))
      PROVE  Reads(u, c, setPeerTyping(c, on), fr, A)
  <2> DEFINE d == setPeerTyping(c, on)
  <2>1. DOMAIN d = Fields /\ d.shows = on /\ \A x \in Fields : x # "shows" => d[x] = c[x]
    BY <1>3 DEF setPeerTyping, Fields
  <2> HIDE DEF d
  <2>2. /\ d.used = c.used /\ d.incoming = c.incoming /\ d.hi = c.hi /\ d.keyed = c.keyed
        /\ d.gate = c.gate /\ d.outbox = c.outbox
    BY <2>1 DEF Fields
  <2>3. Step(u, c, d, A)
    BY <1>2, <2>1, <2>2, AsideMore
  <2>4. Reads(u, c, d, fr, A)
    BY <1>6, <2>1, <2>2, <2>3 DEF Reads, Ready
  <2> QED BY <2>4 DEF d
<1>7. ASSUME fr.kind = "typing" PROVE Reads(u, c, OnTyping(c, fr), fr, A)
  BY <1>4, <1>6, <1>7 DEF OnTyping, Lights
<1>8. ASSUME fr.kind = "presence" PROVE Reads(u, c, OnPresence(c, fr), fr, A)
  <2>1. CASE fr.on
    <3>1. ~Clears(fr) /\ fr.kind # "text"
      BY <1>8, <2>1 DEF Clears
    <3> QED BY <2>1, <3>1, DropReads DEF OnPresence
  <2>2. CASE ~fr.on
    BY <1>6, <1>8, <2>2 DEF OnPresence
  <2> QED BY <2>1, <2>2
<1> QED BY <1>5, <1>7, <1>8

\* A retraction, and a reaction.
LEMMA RowReads ==
    ASSUME NEW u \in Users, NEW c, Calm(u, c), NEW fr \in Frames(Other(u)), NEW A,
           fr.kind = "delete" => <<Other(u), fr.mid>> \in A
    PROVE  /\ fr.kind = "delete" => Reads(u, c, OnDelete(c, fr), fr, A)
           /\ fr.kind = "reaction" => Reads(u, c, OnReaction(c, fr), fr, A)
<1>1. Sound(u, c) /\ c.tx = <<>> /\ (c.hi => c.up)
  BY DEF Calm
<1>2. /\ c.used \subseteq Nat /\ c.incoming \subseteq MidSet \X Nat /\ c.shows \in BOOLEAN /\ Typed(u, c)
      /\ Screened(c) /\ c.up \in BOOLEAN
  BY <1>1, MoreIn, Zenon
<1>3. ASSUME fr.kind = "delete" PROVE Reads(u, c, OnDelete(c, fr), fr, A)
  <2> DEFINE d == OnDelete(c, fr)
  <2>1. fr.mid[1] = Other(u)
    BY <1>3 DEF Frames, Authored
  <2>2. /\ Rewritten(u, c, d)
        /\ \A i \in DOMAIN c.hist : d.hist[i].deleted => c.hist[i].deleted \/ c.hist[i].mid = fr.mid
    BY <1>2, DeleteBoth DEF OnDelete
  <2> HIDE DEF d
  <2>3. /\ Sound(u, d) /\ d.box = c.box /\ d.outbox = c.outbox /\ d.tx = c.tx /\ d.n = c.n
        /\ d.told = c.told /\ d.armed = c.armed /\ d.up = c.up /\ d.hi = c.hi
        /\ d.keyed = c.keyed /\ d.gate = c.gate /\ d.used = c.used /\ d.shows = c.shows
        /\ SameRows(c.hist, d.hist) /\ \A w, k : Has(d.hist, w, k) <=> Has(c.hist, w, k)
    BY <1>1, <2>2, RewrittenSound
  <2>4. Buried(u, c, d, A)
    BY <1>3, <2>1, <2>2, <2>3, BuriedMid
  <2>5. Step(u, c, d, A)
    BY <1>1, <2>3, <2>4, StepQuiet
  <2>6. ~Clears(fr) /\ fr.kind # "text"
    BY <1>3 DEF Clears
  <2>7. Reads(u, c, d, fr, A)
    BY <2>3, <2>5, <2>6 DEF Reads, Ready
  <2> QED BY <2>7 DEF d
<1>4. ASSUME fr.kind = "reaction" PROVE Reads(u, c, OnReaction(c, fr), fr, A)
  <2> DEFINE d == OnReaction(c, fr)
  <2>1. fr.on \in BOOLEAN
    BY DEF Frames
  <2>2. /\ DOMAIN d = Fields /\ \A x \in Fields : x \notin {"screen", "react"} => d[x] = c[x]
        /\ d.screen \in Seq(Rows(u)) /\ Screened(d)
    <3>1. Reacted(c, fr.mid, FALSE, fr.on, d)
      BY DEF Reacted, OnReaction
    <3>2. FALSE \in BOOLEAN
      OBVIOUS
    <3> HIDE DEF d
    <3> QED BY <1>2, <2>1, <3>1, <3>2, ReactBoth, Zenon
  <2> HIDE DEF d
  <2>3. /\ d.ids = c.ids /\ d.hist = c.hist /\ d.box = c.box /\ d.outbox = c.outbox
        /\ d.nextRid = c.nextRid /\ d.next = c.next /\ d.n = c.n /\ d.savedN = c.savedN
        /\ d.told = c.told /\ d.armed = c.armed /\ d.tx = c.tx /\ d.hi = c.hi
        /\ d.used = c.used /\ d.incoming = c.incoming /\ d.shows = c.shows /\ d.up = c.up
        /\ d.keyed = c.keyed /\ d.gate = c.gate
    BY <2>2 DEF Fields
  <2>4. d.next \in Nat
    BY <1>2, <2>3, PartsIn
  <2>5. Step(u, c, d, A)
    BY <1>2, <2>2, <2>3, <2>4, Aside
  <2>6. ~Clears(fr) /\ fr.kind # "text"
    BY <1>4 DEF Clears
  <2>7. Reads(u, c, d, fr, A)
    BY <2>3, <2>5, <2>6 DEF Reads, Ready
  <2> QED BY <2>7 DEF d
<1> QED BY <1>3, <1>4

\* Finalise.
LEMMA FinaliseStep ==
    ASSUME NEW u \in Users, NEW c, Calm(u, c), NEW mid \in MidSet, mid[1] # u, NEW got \in Nat, NEW A
    PROVE  LET d == Finalise(c, mid, got) IN
           /\ Step(u, c, d, A) /\ d.used = c.used /\ d.shows = c.shows /\ (Ready(d) => Ready(c))
<1> DEFINE row == Row("file", mid, got, FALSE)
           sys == Row("system", mid, 0, FALSE)
           e == [NoStream(c, mid) EXCEPT !.got = @ \cup {mid}]
           kept == addFileRow(e, row)
           f == incrementUnread(kept)
           d == Finalise(c, mid, got)
<1>1. Sound(u, c)
  BY DEF Calm
<1>2. c.used \subseteq Nat /\ c.incoming \subseteq MidSet \X Nat /\ c.shows \in BOOLEAN /\ Typed(u, c)
  BY <1>1, MoreIn, Zenon
<1>3. DOMAIN c = Fields
  BY <1>2, PartsIn, Zenon
<1>4. row \in Rows(u) /\ ~row.deleted /\ ~row.me /\ ~row.peer /\ row.mid = mid
  BY DEF Row, Rows
<1>5. sys \in Rows(u) /\ ~sys.deleted /\ ~sys.me /\ ~sys.peer /\ sys.mid = mid
  BY DEF Row, Rows
<1>6. d = IF c.active THEN appendFileMessage(kept, row) ELSE addSystemRow(f, sys)
  BY DEF Finalise
<1>7. /\ DOMAIN e = Fields /\ \A x \in Fields : x \notin {"incoming", "got"} => e[x] = c[x]
      /\ e.incoming = c.incoming \ Streams(c, mid)
  BY <1>3 DEF NoStream, Fields
<1> HIDE DEF e, row, sys
<1>8. Step(u, c, e, A) /\ Sound(u, e)
  <2>1. e.used = c.used /\ e.shows = c.shows /\ e.incoming \subseteq MidSet \X Nat
    BY <1>2, <1>7 DEF Fields
  <2>2. Step(u, c, e, A)
    BY <1>2, <1>7, <2>1, AsideMore
  <2> QED BY <2>2 DEF Step
<1>9. /\ DOMAIN kept = Fields /\ kept.hist = Append(e.hist, row)
      /\ \A x \in Fields : x # "hist" => kept[x] = e[x]
  BY <1>7 DEF addFileRow, Fields
<1> HIDE DEF kept
<1>10. e.active = c.active /\ kept.screen = e.screen
  BY <1>7, <1>9 DEF Fields
<1>11. Flow(u, e, d)
  <2>1. CASE c.active
    <3>1. d = [kept EXCEPT !.screen = Append(@, row)]
      BY <1>6, <2>1 DEF appendFileMessage
    <3> HIDE DEF d
    <3>2. /\ DOMAIN d = Fields /\ d.screen = Append(kept.screen, row)
          /\ \A x \in Fields : x # "screen" => d[x] = kept[x]
      BY <1>9, <3>1 DEF Fields
    <3>3. /\ Plus(e.hist, row, d.hist) /\ d.screen = Append(e.screen, row)
          /\ \A x \in Fields : x \notin {"unread", "hist", "screen"} => d[x] = e[x]
      BY <1>9, <1>10, <3>2 DEF Plus, Fields
    <3> QED BY <1>4, <1>8, <1>10, <2>1, <3>2, <3>3, GrowFlow
  <2>2. CASE ~c.active
    <3>1. /\ DOMAIN f = Fields /\ \A x \in Fields : x # "unread" => f[x] = kept[x]
      BY <1>9 DEF incrementUnread, Fields
    <3>2. d = addSystemRow(f, sys)
      BY <1>6, <2>2
    <3> HIDE DEF f, d
    <3>3. /\ Plus(e.hist, row, f.hist) /\ f.screen = e.screen /\ f.active = e.active
          /\ \A x \in Fields : x \notin {"unread", "hist", "screen"} => f[x] = e[x]
      BY <1>9, <1>10, <3>1 DEF Plus, Fields
    <3>4. Flow(u, e, f)
      BY <1>4, <1>8, <1>10, <2>2, <3>1, <3>3, GrowFlow
    <3>5. Sound(u, f)
      BY <3>4 DEF Flow
    <3>6. CASE d = f
      BY <3>4, <3>6
    <3>7. CASE d = [f EXCEPT !.hist = Append(@, sys)]
      <4>1. /\ DOMAIN d = Fields /\ Plus(f.hist, sys, d.hist)
            /\ \A x \in Fields : x # "hist" => d[x] = f[x]
        BY <3>1, <3>7 DEF Plus, Fields
      <4>2. d.screen = f.screen
        BY <4>1 DEF Fields
      <4>3. Flow(u, f, d)
        BY <1>5, <1>10, <2>2, <3>3, <3>5, <4>1, <4>2, GrowFlow
      <4> QED BY <1>8, <3>4, <4>3, FlowTwice
    <3> QED BY <3>2, <3>6, <3>7 DEF addSystemRow
  <2> QED BY <2>1, <2>2
<1> HIDE DEF d
<1>12. Step(u, c, d, A)
  BY <1>8, <1>11, StepFlow
<1>13. d.outbox = c.outbox
  <2>1. e.outbox = c.outbox /\ kept.outbox = c.outbox
    BY <1>7, <1>9 DEF Fields
  <2>2. DOMAIN kept = Fields
    BY <1>9
  <2>3. appendFileMessage(kept, row).outbox = kept.outbox
    BY <2>2 DEF appendFileMessage, Fields
  <2>4. DOMAIN f = Fields /\ f.outbox = kept.outbox
    BY <2>2 DEF incrementUnread, Fields
  <2> HIDE DEF f
  <2>5. addSystemRow(f, sys).outbox = f.outbox
    BY <2>4 DEF addSystemRow, Fields
  <2> QED BY <1>6, <2>1, <2>3, <2>4, <2>5
<1>14. /\ d.used = c.used /\ d.shows = c.shows /\ d.hi = c.hi /\ d.keyed = c.keyed /\ d.gate = c.gate
  <2>1. Fixed(e, d)
    BY <1>11 DEF Flow
  <2> QED BY <1>7, <2>1 DEF Fixed, Fields
<1> QED BY <1>12, <1>13, <1>14 DEF Ready, d

\* The frames of a file.
LEMMA FileReads ==
    ASSUME NEW u \in Users, NEW c, Calm(u, c), NEW fr \in Frames(Other(u)), NEW A
    PROVE  /\ fr.kind = "init" => Reads(u, c, OnFileInit(c, fr), fr, A)
           /\ fr.kind = "chunk" => Reads(u, c, OnChunk(c, fr), fr, A)
           /\ fr.kind = "end" => Reads(u, c, OnFileEnd(c, fr), fr, A)
<1>1. Sound(u, c)
  BY DEF Calm
<1>2. c.used \subseteq Nat /\ c.incoming \subseteq MidSet \X Nat /\ c.shows \in BOOLEAN /\ Typed(u, c)
  BY <1>1, MoreIn, Zenon
<1>3. DOMAIN c = Fields
  BY <1>2, PartsIn, Zenon
<1> SUFFICES ASSUME fr.kind \in {"init", "chunk", "end"}
             PROVE  /\ fr.kind = "init" => Reads(u, c, OnFileInit(c, fr), fr, A)
                    /\ fr.kind = "chunk" => Reads(u, c, OnChunk(c, fr), fr, A)
                    /\ fr.kind = "end" => Reads(u, c, OnFileEnd(c, fr), fr, A)
  OBVIOUS
<1>4. /\ fr.n \in Nat /\ fr.body \in Nat /\ fr.mid \in MidSet /\ fr.mid[1] # u
      /\ ~Clears(fr) /\ fr.kind # "text"
  BY Others DEF Frames, Authored, Clears
<1>5. Reads(u, c, c, fr, A)
  BY <1>4, DropReads
<1>6. ASSUME NEW k \in Nat PROVE Reads(u, c, Finalise(c, fr.mid, k), fr, A)
  <2> DEFINE d == Finalise(c, fr.mid, k)
  <2>1. Step(u, c, d, A) /\ d.used = c.used /\ d.shows = c.shows /\ (Ready(d) => Ready(c))
    BY <1>4, FinaliseStep
  <2> HIDE DEF d
  <2>2. Reads(u, c, d, fr, A)
    BY <1>4, <2>1 DEF Reads
  <2> QED BY <2>2 DEF d
<1>7. ASSUME fr.kind = "init" PROVE Reads(u, c, OnFileInit(c, fr), fr, A)
  <2>1. CASE ~Decrypts(c, fr)
    BY <1>5, <2>1 DEF OnFileInit
  <2>2. CASE Decrypts(c, fr)
    <3> DEFINE e == decryptFrom(c, fr)
               d == [NoStream(e, fr.mid) EXCEPT !.incoming = @ \cup {initPull(fr.mid)}]
    <3>1. OnFileInit(c, fr) = d
      BY <2>2 DEF OnFileInit
    <3>2. /\ DOMAIN e = Fields /\ e.used = c.used \cup {fr.n}
          /\ \A x \in Fields : x \notin {"used", "gate"} => e[x] = c[x]
          /\ c.gate # "waiting" => e.gate = c.gate
      BY <1>4, DecryptStep
    <3> HIDE DEF e
    <3>3. /\ DOMAIN d = Fields /\ d.incoming = (e.incoming \ Streams(e, fr.mid)) \cup {<<fr.mid, 0>>}
          /\ \A x \in Fields : x # "incoming" => d[x] = e[x]
      BY <3>2 DEF NoStream, initPull, Fields
    <3> HIDE DEF d
    <3>4. /\ d.used = c.used \cup {fr.n} /\ d.shows = c.shows /\ d.hi = c.hi /\ d.keyed = c.keyed
          /\ d.outbox = c.outbox /\ d.gate = e.gate /\ e.incoming = c.incoming
      BY <3>2, <3>3 DEF Fields
    <3>5. d.incoming \subseteq MidSet \X Nat
      BY <1>2, <1>4, <3>3, <3>4
    <3>6. d.used \subseteq Nat
      BY <1>2, <1>4, <3>4
    <3>7. \A x \in Fields : x \notin {"keyed", "gate", "used", "incoming", "shows", "got"} => d[x] = c[x]
      BY <3>2, <3>3
    <3>8. Step(u, c, d, A)
      BY <1>2, <3>3, <3>4, <3>5, <3>6, <3>7, AsideMore
    <3>9. fr.kind \in Numbered
      BY <1>7 DEF Numbered
    <3>10. Ready(d) => Ready(c) \/ c.gate = "waiting"
      BY <3>2, <3>4 DEF Ready
    <3>11. Reads(u, c, d, fr, A)
      BY <1>4, <1>7, <3>4, <3>8, <3>9, <3>10 DEF Reads
    <3> QED BY <3>1, <3>11
  <2> QED BY <2>1, <2>2
<1>8. ASSUME NEW d, DOMAIN d = Fields, \A x \in Fields : x # "incoming" => d[x] = c[x],
             d.incoming \subseteq MidSet \X Nat
      PROVE  Reads(u, c, d, fr, A)
  <2>1. /\ d.used = c.used /\ d.shows = c.shows /\ d.hi = c.hi /\ d.keyed = c.keyed
        /\ d.outbox = c.outbox /\ d.gate = c.gate
    BY <1>8 DEF Fields
  <2>2. Step(u, c, d, A)
    BY <1>2, <1>8, <2>1, AsideMore
  <2> QED BY <1>4, <2>1, <2>2 DEF Reads, Ready
<1>9. ASSUME fr.kind = "chunk" PROVE Reads(u, c, OnChunk(c, fr), fr, A)
  <2>1. Reads(u, c, NoStream(c, fr.mid), fr, A)
    <3> DEFINE d == NoStream(c, fr.mid)
    <3>1. /\ DOMAIN d = Fields /\ d.incoming \subseteq c.incoming
          /\ \A x \in Fields : x # "incoming" => d[x] = c[x]
      BY <1>3 DEF NoStream, Fields
    <3> HIDE DEF d
    <3>2. Reads(u, c, d, fr, A)
      BY <1>2, <1>8, <3>1
    <3> QED BY <3>2 DEF d
  <2>2. Reads(u, c, [NoStream(c, fr.mid) EXCEPT !.incoming = @ \cup {<<fr.mid, fr.body + 1>>}], fr, A)
    <3> DEFINE d == [NoStream(c, fr.mid) EXCEPT !.incoming = @ \cup {<<fr.mid, fr.body + 1>>}]
    <3>1. /\ DOMAIN d = Fields /\ d.incoming \subseteq c.incoming \cup {<<fr.mid, fr.body + 1>>}
          /\ \A x \in Fields : x # "incoming" => d[x] = c[x]
      BY <1>3 DEF NoStream, Fields
    <3> HIDE DEF d
    <3>2. d.incoming \subseteq MidSet \X Nat
      BY <1>2, <1>4, <3>1
    <3>3. Reads(u, c, d, fr, A)
      BY <1>8, <3>1, <3>2
    <3> QED BY <3>3 DEF d
  <2>3. fr.body + 1 \in Nat
    BY <1>4
  <2>4. Reads(u, c, Finalise(c, fr.mid, fr.body + 1), fr, A)
    BY <1>6, <2>3
  <2> QED BY <1>5, <2>1, <2>2, <2>4 DEF OnChunk
<1>10. ASSUME fr.kind = "end" PROVE Reads(u, c, OnFileEnd(c, fr), fr, A)
  <2>1. CASE Streams(c, fr.mid) = {}
    BY <1>5, <2>1 DEF OnFileEnd
  <2>2. CASE Streams(c, fr.mid) # {}
    <3> DEFINE s == CHOOSE x \in Streams(c, fr.mid) : TRUE
    <3>1. OnFileEnd(c, fr) = Finalise(c, fr.mid, s[2])
      BY <2>2 DEF OnFileEnd
    <3>2. s \in Streams(c, fr.mid)
      BY <2>2
    <3> HIDE DEF s
    <3>3. s[2] \in Nat
      BY <1>2, <3>2 DEF Streams
    <3> QED BY <1>6, <3>1, <3>3
  <2> QED BY <2>1, <2>2
<1> QED BY <1>7, <1>9, <1>10

\* A frame of the peer.
LEMMA ReceivedReads ==
    ASSUME NEW u \in Users, NEW c, Calm(u, c), NEW fr \in Frames(Other(u)), fr.kind # "hello", NEW A,
           fr.kind = "delete" => <<Other(u), fr.mid>> \in A
    PROVE  Reads(u, c, Received(c, u, fr), fr, A)
<1>1. fr.kind \in Kinds
  BY DEF Frames
<1>2. CASE fr.kind \in {"text", "edit", "handshake"}
  <2>1. Received(c, u, fr) = OnMsg(c, u, fr)
    BY <1>2 DEF Received
  <2> QED BY <1>2, <2>1, OnMsgReads
<1>3. CASE fr.kind \in {"keys", "typing", "presence"}
  <2>1. /\ fr.kind = "keys" => Received(c, u, fr) = OnKeys(c, u)
        /\ fr.kind = "typing" => Received(c, u, fr) = OnTyping(c, fr)
        /\ fr.kind = "presence" => Received(c, u, fr) = OnPresence(c, fr)
    BY <1>3 DEF Received
  <2> QED BY <1>3, <2>1, AsideReads
<1>4. CASE fr.kind \in {"delete", "reaction"}
  <2>1. /\ fr.kind = "delete" => Received(c, u, fr) = OnDelete(c, fr)
        /\ fr.kind = "reaction" => Received(c, u, fr) = OnReaction(c, fr)
    BY <1>4 DEF Received
  <2> QED BY <1>4, <2>1, RowReads
<1>5. CASE fr.kind \in {"init", "chunk", "end"}
  <2>1. /\ fr.kind = "init" => Received(c, u, fr) = OnFileInit(c, fr)
        /\ fr.kind = "chunk" => Received(c, u, fr) = OnChunk(c, fr)
        /\ fr.kind = "end" => Received(c, u, fr) = OnFileEnd(c, fr)
    BY <1>5 DEF Received
  <2> QED BY <1>5, <2>1, FileReads
<1> QED BY <1>1, <1>2, <1>3, <1>4, <1>5 DEF Kinds
-----------------------------------------------------------------------------
(* The inductive invariant: the two clients, their links and the relay.     *)

GhostFields ==
    {"lost", "late", "renamed", "again", "reused", "cut", "asked", "passed", "recalled",
     "unheard", "opened", "blind"}
FileRow(f) ==
    /\ DOMAIN f = {"init", "chunks", "done"} /\ f.init.kind = "init"
    /\ \E w \in Users : f.init \in Frames(w)

\* The frames of u on their way: c is the client of u, o what it has written, e the
\* client of the peer, w and s what the relay has sent it and holds for it (fetched
\* in its login, or stored), X the numbers of the files of u that the relay keeps.
NoHello(s) == \A i \in DOMAIN s : s[i].kind # "hello"
Shaped(u, c, o, e, w, s, X) ==
    /\ Sound(u, c) /\ c.tx = <<>>
    /\ o \in Seq(Frames(u)) /\ w \in Seq(Frames(u)) /\ NoHello(w)
    /\ s \in Seq(Frames(u)) /\ \A i \in DOMAIN s : s[i].kind \notin {"hello", "typing"}
    /\ e.shows \in BOOLEAN /\ e.used \subseteq Nat /\ X \subseteq Nat

\* A hello on its way is the only one, of a client the relay does not know yet.
OneHello(s) == \A i, j \in DOMAIN s : s[i].kind = "hello" /\ s[j].kind = "hello" => i = j
Linked(u, c, o, w, on) ==
    /\ c.hi => c.up
    /\ u \in on => c.hi
    /\ ~c.up => o = <<>>
    /\ Other(u) \notin on => w = <<>>
    /\ OneHello(o)
    /\ ~NoHello(o) => c.hi /\ u \notin on

\* Message keys: the number of a text on its way is nobody else's.
Under(s, m) == \A i \in DOMAIN s : s[i].kind \in Numbered => s[i].n < m
Clash(f, g) ==
    /\ f.kind \in Numbered /\ g.kind \in Numbered /\ f.n = g.n
    /\ f.kind \in TextFrames \/ g.kind \in TextFrames
Distinct(s) == \A i, j \in DOMAIN s : Clash(s[i], s[j]) => i = j
Apart(s, t) == \A i \in DOMAIN s, j \in DOMAIN t : ~Clash(s[i], t[j])
Unused(s, U) == \A i \in DOMAIN s : s[i].kind \in TextFrames => s[i].n \notin U
Fine(s, m, U) == Under(s, m) /\ Distinct(s) /\ Unused(s, U)

\* The author's next number is m; the reader has used, or the relay keeps with a
\* file, the numbers U.
Keyed(m, o, w, s, U) ==
    /\ Fine(o, m, U) /\ Fine(w, m, U) /\ Fine(s, m, U)
    /\ Apart(o, w) /\ Apart(o, s) /\ Apart(w, s)
    /\ \A x \in U : x < m
InitNs(fs, u) == {f.init.n : f \in {g \in fs : g.init.mid[1] = u}}

\* Where a text can be: Accounted, for any number.
Booked(u, c, o, e, w, s, lost) ==
    \A k : Has(c.hist, u, k) =>
        \/ InBox(c, k) \/ Sent(u, o, k) \/ Sent(u, w, k) \/ Sent(u, s, k)
        \/ Has(e.hist, u, k) \/ <<u, k>> \in lost

\* What the peer is told of the typing of u is so, or will be.
Honest(u, c, o, e, w, on) ==
    /\ Lit(Lit(e.shows, w), o) => c.told = "typing"
    /\ u \notin on => ~Lit(e.shows, w)
    /\ Other(u) \notin on => ~e.shows

\* A tombstone, and a retraction on its way, was asked for.
Asks(s, w, A) == \A i \in DOMAIN s : s[i].kind = "delete" => <<w, s[i].mid>> \in A
Graves(u, h, A) ==
    \A i \in DOMAIN h : h[i].deleted => \E w \in {u, h[i].mid[1]} : <<w, h[i].mid>> \in A

Way(u, c, o, e, w, s, on, g, X) ==
    /\ Shaped(u, c, o, e, w, s, X)
    /\ Linked(u, c, o, w, on)
    /\ Ready(c) => u \in g.opened
    /\ u \notin g.reused => Keyed(c.n, o, w, s, e.used \cup X)
    /\ Booked(u, c, o, e, w, s, g.lost)
    /\ c.told = "typing" => c.armed
    /\ Other(u) \notin g.blind => Honest(u, c, o, e, w, on)
    /\ Graves(u, c.hist, g.asked)
    /\ Asks(o, u, g.asked) /\ Asks(w, u, g.asked) /\ Asks(s, u, g.asked)

\* What the relay holds for a user: fetched in its login, or stored.
Kept(l, s) == l.batch \o s

WayOf(u) ==
    LET v == Other(u)
    IN Way(u, client[u], out[u], client[v], wire[v], Kept(login[v], stored[v]), online, ghost,
           InitNs(files, u))

\* A login of u and the rows stored for it.
Waiting(u, l, s) ==
    /\ DOMAIN l = {"stage", "batch", "have"}
    /\ l.batch \in Seq(Frames(Other(u))) /\ s \in Seq(Frames(Other(u)))
    /\ l.stage = "none" => l.batch = <<>>
Held ==
    /\ DOMAIN client = Users /\ DOMAIN out = Users /\ DOMAIN wire = Users /\ DOMAIN stored = Users
    /\ DOMAIN login = Users /\ \A u \in Users : Waiting(u, login[u], stored[u])
    /\ \A u \in Users : login[u].stage # "none" => u \in online
    /\ DOMAIN ghost = GhostFields
    /\ IsFiniteSet(files) /\ \A f \in files : FileRow(f)
Inv == Held /\ \A u \in Users : WayOf(u)

-----------------------------------------------------------------------------
(* Frames in a row.                                                         *)

\* Frames s, then t.
LEMMA JoinFine ==
    ASSUME NEW S, NEW s, NEW t, NEW p, Join(S, s, t, p), NEW m, NEW U
    PROVE  Fine(p, m, U) <=> Fine(s, m, U) /\ Fine(t, m, U) /\ Apart(s, t)
<1>1. /\ Len(s) \in Nat /\ Len(t) \in Nat /\ DOMAIN s = 1 .. Len(s) /\ DOMAIN t = 1 .. Len(t)
      /\ DOMAIN p = 1 .. Len(s) + Len(t)
  BY DEF Join
<1>2. \A i \in DOMAIN s : i \in DOMAIN p /\ p[i] = s[i]
  BY DEF Join
<1>3. \A i \in DOMAIN t : Len(s) + i \in DOMAIN p /\ p[Len(s) + i] = t[i]
  BY DEF Join
<1>4. \A i \in DOMAIN p :
         i \in DOMAIN s \/ (i > Len(s) /\ i - Len(s) \in DOMAIN t /\ p[i] = t[i - Len(s)])
  BY DEF Join
<1>5. Under(p, m) <=> Under(s, m) /\ Under(t, m)
  BY <1>2, <1>3, <1>4 DEF Under
<1>6. Unused(p, U) <=> Unused(s, U) /\ Unused(t, U)
  BY <1>2, <1>3, <1>4 DEF Unused
<1>7. ASSUME Distinct(p) PROVE Distinct(s) /\ Distinct(t) /\ Apart(s, t)
  <2>1. Distinct(s)
    BY <1>2, <1>7 DEF Distinct
  <2>2. ASSUME NEW i \in DOMAIN t, NEW j \in DOMAIN t, Clash(t[i], t[j]) PROVE i = j
    <3>1. Len(s) + i = Len(s) + j
      BY <1>3, <1>7, <2>2 DEF Distinct
    <3> QED BY <1>1, <3>1
  <2>3. ASSUME NEW i \in DOMAIN s, NEW j \in DOMAIN t, Clash(s[i], t[j]) PROVE FALSE
    <3>1. i = Len(s) + j
      BY <1>2, <1>3, <1>7, <2>3 DEF Distinct
    <3> QED BY <1>1, <3>1
  <2> QED BY <2>1, <2>2, <2>3 DEF Distinct, Apart
<1>8. ASSUME Distinct(s), Distinct(t), Apart(s, t) PROVE Distinct(p)
  <2> SUFFICES ASSUME NEW i \in DOMAIN p, NEW j \in DOMAIN p, Clash(p[i], p[j]) PROVE i = j
    BY DEF Distinct
  <2>1. Clash(p[j], p[i])
    BY DEF Clash
  <2>2. CASE i \in DOMAIN s /\ j \in DOMAIN s
    BY <1>2, <1>8, <2>2 DEF Distinct
  <2>3. CASE i \in DOMAIN s /\ j \notin DOMAIN s
    <3>1. j - Len(s) \in DOMAIN t /\ p[j] = t[j - Len(s)] /\ p[i] = s[i]
      BY <1>2, <1>4, <2>3
    <3> QED BY <1>8, <2>3, <3>1 DEF Apart
  <2>4. CASE i \notin DOMAIN s /\ j \in DOMAIN s
    <3>1. i - Len(s) \in DOMAIN t /\ p[i] = t[i - Len(s)] /\ p[j] = s[j]
      BY <1>2, <1>4, <2>4
    <3> QED BY <1>8, <2>1, <2>4, <3>1 DEF Apart
  <2>5. CASE i \notin DOMAIN s /\ j \notin DOMAIN s
    <3>1. /\ j - Len(s) \in DOMAIN t /\ p[j] = t[j - Len(s)]
          /\ i - Len(s) \in DOMAIN t /\ p[i] = t[i - Len(s)]
      BY <1>4, <2>5
    <3>2. i - Len(s) = j - Len(s)
      BY <1>8, <3>1 DEF Distinct
    <3> QED BY <1>1, <3>2
  <2> QED BY <2>2, <2>3, <2>4, <2>5
<1> QED BY <1>5, <1>6, <1>7, <1>8 DEF Fine

\* No clash with a third row of frames.
LEMMA JoinApart ==
    ASSUME NEW S, NEW s, NEW t, NEW p, Join(S, s, t, p), NEW r
    PROVE  (Apart(p, r) <=> Apart(s, r) /\ Apart(t, r)) /\ (Apart(r, p) <=> Apart(r, s) /\ Apart(r, t))
<1>2. \A i \in DOMAIN s : i \in DOMAIN p /\ p[i] = s[i]
  BY DEF Join
<1>3. \A i \in DOMAIN t : Len(s) + i \in DOMAIN p /\ p[Len(s) + i] = t[i]
  BY DEF Join
<1>4. \A i \in DOMAIN p : i \in DOMAIN s \/ (i - Len(s) \in DOMAIN t /\ p[i] = t[i - Len(s)])
  BY DEF Join
<1> QED BY <1>2, <1>3, <1>4 DEF Apart

\* Whose clash it is does not matter.
LEMMA ApartTurned ==
    ASSUME NEW s, NEW t, Apart(s, t)
    PROVE  Apart(t, s)
BY DEF Apart, Clash

\* What holds of each frame of a row.
LEMMA JoinEach ==
    ASSUME NEW S, NEW s, NEW t, NEW p, Join(S, s, t, p)
    PROVE  /\ NoHello(p) <=> NoHello(s) /\ NoHello(t)
           /\ \A w, A : Asks(p, w, A) <=> Asks(s, w, A) /\ Asks(t, w, A)
           /\ \A u, k : Sent(u, p, k) <=> Sent(u, s, k) \/ Sent(u, t, k)
<1>2. \A i \in DOMAIN s : i \in DOMAIN p /\ p[i] = s[i]
  BY DEF Join
<1>3. \A i \in DOMAIN t : Len(s) + i \in DOMAIN p /\ p[Len(s) + i] = t[i]
  BY DEF Join
<1>4. \A i \in DOMAIN p : i \in DOMAIN s \/ (i - Len(s) \in DOMAIN t /\ p[i] = t[i - Len(s)])
  BY DEF Join
<1>5. NoHello(p) <=> NoHello(s) /\ NoHello(t)
  BY <1>2, <1>3, <1>4 DEF NoHello
<1>6. \A w, A : Asks(p, w, A) <=> Asks(s, w, A) /\ Asks(t, w, A)
  BY <1>2, <1>3, <1>4 DEF Asks
<1>7. ASSUME NEW u, NEW k PROVE Sent(u, p, k) <=> Sent(u, s, k) \/ Sent(u, t, k)
  BY <1>2, <1>3, <1>4 DEF Sent
<1> QED BY <1>5, <1>6, <1>7

\* The indicator after frames s, then t.
LEMMA JoinLit ==
    ASSUME NEW S, NEW s, NEW t, NEW p, Join(S, s, t, p), NEW b \in BOOLEAN
    PROVE  Lit(b, p) <=> Lit(Lit(b, s), t)
<1>1. /\ Len(s) \in Nat /\ Len(t) \in Nat /\ DOMAIN s = 1 .. Len(s) /\ DOMAIN t = 1 .. Len(t)
      /\ DOMAIN p = 1 .. Len(s) + Len(t)
  BY DEF Join
<1>2. \A i \in DOMAIN s : i \in DOMAIN p /\ p[i] = s[i]
  BY DEF Join
<1>3. \A i \in DOMAIN t : Len(s) + i \in DOMAIN p /\ p[Len(s) + i] = t[i]
  BY DEF Join
<1>4. \A i \in DOMAIN p :
         i \in DOMAIN s \/ (i > Len(s) /\ i - Len(s) \in DOMAIN t /\ p[i] = t[i - Len(s)])
  BY DEF Join
<1>5. (\A j \in DOMAIN p : ~Clears(p[j])) <=> (\A j \in DOMAIN s : ~Clears(s[j])) /\ (\A j \in DOMAIN t : ~Clears(t[j]))
  BY <1>2, <1>3, <1>4
<1>6. ASSUME Lit(b, p) PROVE Lit(Lit(b, s), t)
  <2>1. CASE b /\ \A j \in DOMAIN p : ~Clears(p[j])
    BY <1>5, <2>1 DEF Lit
  <2>2. CASE \E i \in DOMAIN p : Lights(p[i]) /\ \A j \in DOMAIN p : j > i => ~Clears(p[j])
    <3>1. PICK i \in DOMAIN p : Lights(p[i]) /\ \A j \in DOMAIN p : j > i => ~Clears(p[j])
      BY <2>2
    <3>2. CASE i \in DOMAIN s
      <4>1. \A j \in DOMAIN s : j > i => ~Clears(s[j])
        BY <1>2, <3>1
      <4>2. \A j \in DOMAIN t : Len(s) + j > i
        BY <1>1, <3>2
      <4>3. \A j \in DOMAIN t : ~Clears(t[j])
        BY <1>3, <3>1, <4>2
      <4>4. Lit(b, s)
        BY <1>2, <3>1, <3>2, <4>1 DEF Lit
      <4> QED BY <4>3, <4>4 DEF Lit
    <3>3. CASE i \notin DOMAIN s
      <4>1. i - Len(s) \in DOMAIN t /\ p[i] = t[i - Len(s)]
        BY <1>4, <3>3
      <4>2. \A j \in DOMAIN t : j > i - Len(s) => Len(s) + j > i
        BY <1>1
      <4>3. \A j \in DOMAIN t : j > i - Len(s) => ~Clears(t[j])
        BY <1>3, <3>1, <4>2
      <4> QED BY <3>1, <4>1, <4>3 DEF Lit
    <3> QED BY <3>2, <3>3
  <2> QED BY <1>6, <2>1, <2>2 DEF Lit
<1>7. ASSUME Lit(Lit(b, s), t) PROVE Lit(b, p)
  <2>1. CASE \E i \in DOMAIN t : Lights(t[i]) /\ \A j \in DOMAIN t : j > i => ~Clears(t[j])
    <3>1. PICK i \in DOMAIN t : Lights(t[i]) /\ \A j \in DOMAIN t : j > i => ~Clears(t[j])
      BY <2>1
    <3>2. Len(s) + i \in DOMAIN p /\ Lights(p[Len(s) + i])
      BY <1>3, <3>1
    <3>3. ASSUME NEW j \in DOMAIN p, j > Len(s) + i PROVE ~Clears(p[j])
      <4>1. j \notin DOMAIN s /\ j - Len(s) > i
        BY <1>1, <3>3
      <4> QED BY <1>4, <3>1, <4>1
    <3> QED BY <3>2, <3>3 DEF Lit
  <2>2. CASE Lit(b, s) /\ \A j \in DOMAIN t : ~Clears(t[j])
    <3>1. CASE b /\ \A j \in DOMAIN s : ~Clears(s[j])
      BY <1>5, <2>2, <3>1 DEF Lit
    <3>2. CASE \E i \in DOMAIN s : Lights(s[i]) /\ \A j \in DOMAIN s : j > i => ~Clears(s[j])
      <4>1. PICK i \in DOMAIN s : Lights(s[i]) /\ \A j \in DOMAIN s : j > i => ~Clears(s[j])
        BY <3>2
      <4>2. i \in DOMAIN p /\ Lights(p[i])
        BY <1>2, <4>1
      <4>3. \A j \in DOMAIN p : j > i => ~Clears(p[j])
        BY <1>2, <1>4, <2>2, <4>1
      <4> QED BY <4>2, <4>3 DEF Lit
    <3> QED BY <2>2, <3>1, <3>2 DEF Lit
  <2> QED BY <1>7, <2>1, <2>2 DEF Lit
<1> QED BY <1>6, <1>7

\* The next frame, and the others.
LEMMA HeadTail ==
    ASSUME NEW S, NEW s, s \in Seq(S), s # <<>>
    PROVE  Head(s) \in S /\ Tail(s) \in Seq(S) /\ <<Head(s)>> \in Seq(S) /\ Join(S, <<Head(s)>>, Tail(s), s)
<1>1. Head(s) \in S /\ Tail(s) \in Seq(S)
  OBVIOUS
<1>2. <<Head(s)>> \in Seq(S) /\ Len(<<Head(s)>>) = 1 /\ DOMAIN <<Head(s)>> = 1 .. 1 /\ <<Head(s)>>[1] = Head(s)
  BY <1>1
<1>3. Len(s) \in Nat /\ Len(s) > 0 /\ DOMAIN s = 1 .. Len(s) /\ s[1] = Head(s)
  OBVIOUS
<1>4. Len(Tail(s)) = Len(s) - 1 /\ \A i \in 1 .. Len(s) - 1 : Tail(s)[i] = s[i + 1]
  OBVIOUS
<1>5. DOMAIN Tail(s) = 1 .. Len(s) - 1 /\ Len(s) - 1 \in Nat
  BY <1>1, <1>3, <1>4
<1> DEFINE q == <<Head(s)>>
           t == Tail(s)
<1>6. /\ Len(q) = 1 /\ DOMAIN q = 1 .. 1 /\ q[1] = s[1] /\ Len(t) = Len(s) - 1 /\ DOMAIN t = 1 .. Len(s) - 1
      /\ \A i \in 1 .. Len(s) - 1 : t[i] = s[i + 1]
  BY <1>2, <1>3, <1>4, <1>5
<1> HIDE DEF q, t
<1>7. Join(S, q, t, s)
  <2>1. \A i \in DOMAIN q : i \in DOMAIN s /\ s[i] = q[i]
    BY <1>3, <1>6
  <2>2. \A i \in DOMAIN t : Len(q) + i \in DOMAIN s /\ s[Len(q) + i] = t[i]
    <3> SUFFICES ASSUME NEW i \in DOMAIN t PROVE Len(q) + i \in DOMAIN s /\ s[Len(q) + i] = t[i]
      OBVIOUS
    <3>1. i \in 1 .. Len(s) - 1 /\ 1 + i = i + 1 /\ i + 1 \in DOMAIN s
      BY <1>3, <1>6
    <3> QED BY <1>6, <3>1
  <2>3. ASSUME NEW i \in DOMAIN s, i \notin DOMAIN q
        PROVE  i > Len(q) /\ i - Len(q) \in DOMAIN t /\ s[i] = t[i - Len(q)]
    <3>1. i - 1 \in 1 .. Len(s) - 1 /\ (i - 1) + 1 = i /\ i > 1
      BY <1>3, <1>6, <2>3
    <3> QED BY <1>6, <3>1
  <2> QED BY <1>3, <1>5, <1>6, <2>1, <2>2, <2>3 DEF Join
<1> QED BY <1>1, <1>2, <1>7 DEF q, t

-----------------------------------------------------------------------------
(* A way, and what changes it.                                              *)

\* What is in a way.
LEMMA WayIn ==
    ASSUME NEW u \in Users, NEW c, NEW o, NEW e, NEW w, NEW s, NEW on, NEW g, NEW X,
           Way(u, c, o, e, w, s, on, g, X)
    PROVE  /\ Calm(u, c) /\ c.n \in Nat /\ e.shows \in BOOLEAN /\ e.used \subseteq Nat /\ X \subseteq Nat
           /\ o \in Seq(Frames(u)) /\ w \in Seq(Frames(u)) /\ s \in Seq(Frames(u))
<1>1. Sound(u, c) /\ c.tx = <<>> /\ (c.told = "typing" => c.armed) /\ (c.hi => c.up)
  BY Zenon DEF Way, Shaped, Linked
<1>2. Typed(u, c)
  BY <1>1 DEF Sound
<1>3. c.n \in Nat
  BY <1>2, SizesIn
<1> QED BY <1>1, <1>3, Zenon DEF Way, Shaped, Calm

\* The ghosts only grow.
Grows(g, h) ==
    /\ g.lost \subseteq h.lost /\ g.reused \subseteq h.reused /\ g.opened \subseteq h.opened
    /\ g.blind \subseteq h.blind /\ g.asked \subseteq h.asked

\* Then a way is still one.
LEMMA WayGrows ==
    ASSUME NEW u \in Users, NEW c, NEW o, NEW e, NEW w, NEW s, NEW on, NEW g, NEW X, NEW h,
           Way(u, c, o, e, w, s, on, g, X), Grows(g, h)
    PROVE  Way(u, c, o, e, w, s, on, h, X)
<1>1. Booked(u, c, o, e, w, s, h.lost)
  BY DEF Way, Booked, Grows
<1>2. Graves(u, c.hist, h.asked)
  BY DEF Way, Graves, Grows
<1>3. Asks(o, u, h.asked) /\ Asks(w, u, h.asked) /\ Asks(s, u, h.asked)
  BY DEF Way, Asks, Grows
<1>4. /\ Ready(c) => u \in h.opened
      /\ u \notin h.reused => Keyed(c.n, o, w, s, e.used \cup X)
      /\ Other(u) \notin h.blind => Honest(u, c, o, e, w, on)
  BY DEF Way, Grows
<1> QED BY <1>1, <1>2, <1>3, <1>4, Zenon DEF Way

\* A higher next number, fewer used ones.
LEMMA FineMore ==
    ASSUME NEW u \in Users, NEW s, s \in Seq(Frames(u)), NEW m \in Nat, NEW n \in Nat, m <= n,
           NEW U, NEW V, V \subseteq U, Fine(s, m, U)
    PROVE  Fine(s, n, V)
<1>1. \A i \in DOMAIN s : s[i].n \in Nat
  BY DEF Frames
<1>2. Under(s, n)
  BY <1>1 DEF Fine, Under
<1>3. Unused(s, V)
  BY DEF Fine, Unused
<1> QED BY <1>2, <1>3 DEF Fine
LEMMA KeyedMore ==
    ASSUME NEW u \in Users, NEW o, NEW w, NEW s, o \in Seq(Frames(u)), w \in Seq(Frames(u)),
           s \in Seq(Frames(u)), NEW m \in Nat, NEW n \in Nat, m <= n,
           NEW U, U \subseteq Nat, NEW V, V \subseteq U, Keyed(m, o, w, s, U)
    PROVE  Keyed(n, o, w, s, V)
<1>1. Fine(o, n, V) /\ Fine(w, n, V) /\ Fine(s, n, V)
  BY FineMore DEF Keyed
<1>2. \A x \in V : x < n
  BY DEF Keyed
<1> QED BY <1>1, <1>2 DEF Keyed

\* The frames a method writes have numbers of their own.
LEMMA FreshFrames ==
    ASSUME NEW u \in Users, NEW c, NEW d, NEW A, Speaks(u, c, d, A), d.tx \in Seq(Frames(u)),
           c.n \in Nat, d.n \in Nat, NEW U, U \subseteq Nat, \A x \in U : x < c.n
    PROVE  /\ Fine(d.tx, d.n, U)
           /\ \A t \in Seq(Frames(u)) : Under(t, c.n) => Apart(t, d.tx)
<1>1. \A i \in DOMAIN d.tx : d.tx[i].n \in Nat /\ i \in Nat
  BY DEF Frames
<1>2. /\ c.n <= d.n
      /\ \A i \in DOMAIN d.tx : d.tx[i].kind \in Numbered => c.n <= d.tx[i].n /\ d.tx[i].n < d.n
      /\ \A i, j \in DOMAIN d.tx :
          (i < j /\ d.tx[i].kind \in Numbered /\ d.tx[j].kind \in Numbered) => d.tx[i].n < d.tx[j].n
  BY DEF Speaks
<1>3. Under(d.tx, d.n)
  BY <1>2 DEF Under
<1>4. Unused(d.tx, U)
  BY <1>1, <1>2 DEF Unused, TextFrames, Numbered
<1>5. Distinct(d.tx)
  <2> SUFFICES ASSUME NEW i \in DOMAIN d.tx, NEW j \in DOMAIN d.tx, Clash(d.tx[i], d.tx[j]) PROVE i = j
    BY DEF Distinct
  <2>1. d.tx[i].kind \in Numbered /\ d.tx[j].kind \in Numbered /\ d.tx[i].n = d.tx[j].n
    BY DEF Clash
  <2>2. ~(i < j) /\ ~(j < i)
    BY <1>1, <1>2, <2>1
  <2> QED BY <1>1, <2>2
<1>6. ASSUME NEW t \in Seq(Frames(u)), Under(t, c.n) PROVE Apart(t, d.tx)
  <2>1. \A i \in DOMAIN t : t[i].n \in Nat
    BY DEF Frames
  <2> SUFFICES ASSUME NEW i \in DOMAIN t, NEW j \in DOMAIN d.tx, Clash(t[i], d.tx[j]) PROVE FALSE
    BY DEF Apart
  <2>2. t[i].n < c.n /\ c.n <= d.tx[j].n /\ t[i].n = d.tx[j].n
    BY <1>2, <1>6 DEF Clash, Under
  <2> QED BY <1>1, <2>1, <2>2
<1> QED BY <1>3, <1>4, <1>5, <1>6 DEF Fine

\* A client after its method, with all it wrote handed to the socket.
Rested(d, e) == DOMAIN e = Fields /\ e.tx = <<>> /\ \A x \in Fields : x # "tx" => e[x] = d[x]

LEMMA RestedFacts ==
    ASSUME NEW u \in Users, NEW d, Sound(u, d), NEW e, Rested(d, e)
    PROVE  /\ Sound(u, e) /\ e.hist = d.hist /\ e.n = d.n /\ e.used = d.used /\ e.shows = d.shows
           /\ e.told = d.told /\ e.armed = d.armed /\ e.up = d.up /\ e.hi = d.hi
           /\ (Ready(e) <=> Ready(d)) /\ \A k : InBox(e, k) <=> InBox(d, k)
<1>1. /\ e.screen = d.screen /\ e.react = d.react /\ e.active = d.active /\ e.box = d.box
      /\ e.outbox = d.outbox /\ e.nextRid = d.nextRid /\ e.ids = d.ids /\ e.next = d.next
      /\ e.savedN = d.savedN /\ e.incoming = d.incoming /\ e.keyed = d.keyed /\ e.gate = d.gate
      /\ e.hist = d.hist /\ e.n = d.n /\ e.used = d.used /\ e.shows = d.shows
      /\ e.told = d.told /\ e.armed = d.armed /\ e.up = d.up /\ e.hi = d.hi /\ e.tx = <<>>
      /\ DOMAIN e = Fields
  BY DEF Rested, Fields
<1>2. e.tx \in Seq(Frames(u))
  BY <1>1
<1>3. Typed(u, e)
  BY <1>1, <1>2 DEF Sound, Typed
<1>4. Boxed(e)
  BY <1>1 DEF Sound, Boxed
<1>5. Screened(e)
  <2>1. Screened(d)
    BY DEF Sound
  <2>2. \A i : Same(d, i) => Same(e, i)
    BY <1>1 DEF Same, Agrees
  <2> QED BY <1>1, <2>1, <2>2 DEF Screened
<1>6. e.savedN = e.n
  BY <1>1 DEF Sound
<1>7. (Ready(e) <=> Ready(d)) /\ \A k : InBox(e, k) <=> InBox(d, k)
  BY <1>1 DEF Ready, InBox
<1> QED BY <1>1, <1>3, <1>4, <1>5, <1>6, <1>7, Zenon DEF Sound

\* A method of the author.
LEMMA AuthorWay ==
    ASSUME NEW u \in Users, NEW c, NEW o, NEW e, NEW w, NEW s, NEW on, NEW g, NEW X,
           Way(u, c, o, e, w, s, on, g, X), NEW d, Step(u, c, d, g.asked), Ready(d) => u \in g.opened,
           NEW r, Rested(d, r), NEW p, Join(Frames(u), o, d.tx, p)
    PROVE  Way(u, r, p, e, w, s, on, g, X)
<1>1. /\ Calm(u, c) /\ c.n \in Nat /\ e.shows \in BOOLEAN /\ e.used \subseteq Nat /\ X \subseteq Nat
      /\ o \in Seq(Frames(u)) /\ w \in Seq(Frames(u)) /\ s \in Seq(Frames(u))
  BY WayIn, Zenon
<1>2. /\ Sound(u, d) /\ Speaks(u, c, d, g.asked) /\ Tells(c, d) /\ Books(u, c, d)
      /\ Buried(u, c, d, g.asked)
  BY DEF Step
<1>3. /\ Sound(u, r) /\ r.hist = d.hist /\ r.n = d.n /\ r.used = d.used /\ r.shows = d.shows
      /\ r.told = d.told /\ r.armed = d.armed /\ r.up = d.up /\ r.hi = d.hi
      /\ (Ready(r) <=> Ready(d)) /\ \A k : InBox(r, k) <=> InBox(d, k)
  BY <1>2, RestedFacts
<1>4. r.tx = <<>>
  BY DEF Rested
<1>5. /\ Typed(u, d) /\ d.tx \in Seq(Frames(u)) /\ d.n \in Nat
  <2>1. Typed(u, d)
    BY <1>2 DEF Sound
  <2> QED BY <2>1 DEF Typed
<1>6. Shaped(u, r, p, e, w, s, X)
  <2>1. p \in Seq(Frames(u))
    BY DEF Join
  <2> QED BY <1>3, <1>4, <2>1, Zenon DEF Way, Shaped
<1>7. Linked(u, r, p, w, on)
  <2>1. Linked(u, c, o, w, on)
    BY DEF Way
  <2>2. (r.hi => r.up) /\ (c.hi => r.hi) /\ (c.up => r.up) /\ (r.up \/ d.tx = <<>>)
    BY <1>2, <1>3 DEF Speaks
  <2>3. ~r.up => p = <<>>
    <3> HAVE ~r.up
    <3>1. o = <<>> /\ d.tx = <<>>
      BY <2>1, <2>2 DEF Linked
    <3>2. Len(o) = 0 /\ Len(d.tx) = 0
      BY <3>1
    <3> QED BY <3>2 DEF Join
  <2>4. \A i \in DOMAIN d.tx : d.tx[i].kind = "hello" => i = 1 /\ ~c.hi /\ r.hi
    BY <1>2, <1>3 DEF Speaks
  <2>5. ASSUME NEW i \in DOMAIN p, p[i].kind = "hello"
        PROVE  \/ (i \in DOMAIN o /\ o[i].kind = "hello" /\ c.hi)
               \/ (i = Len(o) + 1 /\ ~c.hi /\ r.hi)
    <3>1. CASE i \in DOMAIN o
      <4>1. o[i].kind = "hello"
        BY <2>5, <3>1 DEF Join
      <4> QED BY <2>1, <3>1, <4>1 DEF Linked, NoHello
    <3>2. CASE i \notin DOMAIN o
      <4>1. i - Len(o) \in DOMAIN d.tx /\ d.tx[i - Len(o)].kind = "hello"
        BY <2>5, <3>2 DEF Join
      <4>2. i - Len(o) = 1 /\ Len(o) \in Nat /\ i \in Nat
        BY <2>4, <4>1 DEF Join
      <4>3. i = Len(o) + 1
        BY <4>2
      <4> QED BY <2>4, <4>1, <4>3
    <3> QED BY <3>1, <3>2
  <2>6. OneHello(p)
    BY <2>1, <2>5 DEF OneHello, Linked
  <2>7. ~NoHello(p) => r.hi /\ u \notin on
    <3>1. ASSUME NEW i \in DOMAIN p, p[i].kind = "hello" PROVE r.hi /\ u \notin on
      <4>1. CASE i \in DOMAIN o /\ o[i].kind = "hello" /\ c.hi
        BY <2>1, <2>2, <4>1 DEF Linked, NoHello
      <4>2. CASE i = Len(o) + 1 /\ ~c.hi /\ r.hi
        BY <2>1, <4>2 DEF Linked
      <4> QED BY <2>5, <3>1, <4>1, <4>2
    <3> QED BY <3>1 DEF NoHello
  <2>8. (u \in on => r.hi) /\ (Other(u) \notin on => w = <<>>)
    BY <2>1, <2>2 DEF Linked
  <2> QED BY <2>2, <2>3, <2>6, <2>7, <2>8 DEF Linked
<1>8. u \notin g.reused => Keyed(r.n, p, w, s, e.used \cup X)
  <2> HAVE u \notin g.reused
  <2> DEFINE U == e.used \cup X
  <2>1. Keyed(c.n, o, w, s, U)
    BY DEF Way
  <2>2. U \subseteq Nat
    BY <1>1
  <2> HIDE DEF U
  <2>3. c.n <= d.n
    BY <1>2 DEF Speaks
  <2>4. Keyed(d.n, o, w, s, U)
    BY <1>1, <1>5, <2>1, <2>2, <2>3, KeyedMore
  <2>5. Under(o, c.n) /\ Under(w, c.n) /\ Under(s, c.n) /\ \A x \in U : x < c.n
    BY <2>1 DEF Keyed, Fine
  <2>6. Fine(d.tx, d.n, U) /\ Apart(o, d.tx) /\ Apart(w, d.tx) /\ Apart(s, d.tx)
    BY <1>1, <1>2, <1>5, <2>2, <2>5, FreshFrames
  <2>7. Apart(d.tx, w) /\ Apart(d.tx, s)
    BY <2>6, ApartTurned, Zenon
  <2>8. Fine(p, d.n, U)
    BY <2>4, <2>6, JoinFine, Zenon DEF Keyed
  <2>9. Apart(p, w) /\ Apart(p, s)
    <3>1. Apart(o, w) /\ Apart(o, s)
      BY <2>4 DEF Keyed
    <3>2. Apart(p, w)
      BY <2>7, <3>1, JoinApart
    <3>3. Apart(p, s)
      BY <2>7, <3>1, JoinApart
    <3> QED BY <3>2, <3>3
  <2>10. Keyed(d.n, p, w, s, U)
    BY <2>4, <2>8, <2>9, Zenon DEF Keyed
  <2> QED BY <1>3, <2>10 DEF U
<1>9. Booked(u, r, p, e, w, s, g.lost)
  <2> SUFFICES ASSUME NEW k, Has(r.hist, u, k)
               PROVE  \/ InBox(r, k) \/ Sent(u, p, k) \/ Sent(u, w, k) \/ Sent(u, s, k)
                      \/ Has(e.hist, u, k) \/ <<u, k>> \in g.lost
    BY DEF Booked
  <2>1. Has(c.hist, u, k) => \/ InBox(c, k) \/ Sent(u, o, k) \/ Sent(u, w, k) \/ Sent(u, s, k)
                             \/ Has(e.hist, u, k) \/ <<u, k>> \in g.lost
    BY Zenon DEF Way, Booked
  <2>2. Sent(u, p, k) <=> Sent(u, o, k) \/ Sent(u, d.tx, k)
    BY JoinEach, Zenon
  <2>3. Has(c.hist, u, k) \/ InBox(d, k) \/ Sent(u, d.tx, k)
    BY <1>2, <1>3, Zenon DEF Books
  <2>4. InBox(c, k) => InBox(d, k) \/ Sent(u, d.tx, k)
    BY <1>2, Zenon DEF Books
  <2> QED BY <1>3, <2>1, <2>2, <2>3, <2>4, Zenon
<1>10. r.told = "typing" => r.armed
  BY <1>2, <1>3 DEF Tells
<1>11. Other(u) \notin g.blind => Honest(u, r, p, e, w, on)
  <2> HAVE Other(u) \notin g.blind
  <2>1. Honest(u, c, o, e, w, on) /\ Linked(u, c, o, w, on)
    BY DEF Way
  <2> DEFINE a == Lit(e.shows, w)
             b == Lit(a, o)
  <2>2. a \in BOOLEAN /\ b \in BOOLEAN
    BY DEF Lit
  <2>3. b => c.told = "typing"
    BY <2>1 DEF Honest
  <2>4. b => c.up
    <3> SUFFICES ASSUME ~c.up PROVE ~b
      OBVIOUS
    <3>1. o = <<>> /\ u \notin on
      BY <2>1 DEF Linked
    <3>2. ~a
      BY <2>1, <3>1 DEF Honest
    <3> HIDE DEF a
    <3> QED BY <3>1, <3>2 DEF Lit
  <2> HIDE DEF a, b
  <2>5. Lit(a, p) <=> Lit(b, d.tx)
    <3>1. Lit(a, p) <=> Lit(Lit(a, o), d.tx)
      BY <2>2, JoinLit
    <3> QED BY <3>1 DEF b
  <2>6. Lit(b, d.tx) => d.told = "typing"
    BY <1>2, <2>2, <2>3, <2>4 DEF Tells
  <2>7. Lit(a, p) => r.told = "typing"
    BY <1>3, <2>5, <2>6
  <2> QED BY <2>1, <2>7 DEF Honest, a
<1>12. Graves(u, r.hist, g.asked)
  <2>1. Graves(u, c.hist, g.asked)
    BY DEF Way
  <2> QED BY <1>2, <1>3, <2>1 DEF Graves, Buried
<1>13. Asks(p, u, g.asked)
  <2>1. Asks(d.tx, u, g.asked)
    BY <1>2 DEF Speaks, Asks
  <2>2. Asks(o, u, g.asked)
    BY DEF Way
  <2> QED BY <2>1, <2>2, JoinEach, Zenon
<1>14. Ready(r) => u \in g.opened
  BY <1>3
<1> QED BY <1>6, <1>7, <1>8, <1>9, <1>10, <1>11, <1>12, <1>13, <1>14, Zenon DEF Way

\* A method of the reader.
LEMMA ReaderWay ==
    ASSUME NEW u \in Users, NEW c, NEW o, NEW e, NEW w, NEW s, NEW on, NEW g, NEW X,
           Way(u, c, o, e, w, s, on, g, X), NEW d, Local(Other(u), e, d, g.asked),
           NEW r, Rested(d, r)
    PROVE  Way(u, c, o, r, w, s, on, g, X)
<1>1. Sound(Other(u), d) /\ Books(Other(u), e, d) /\ d.used = e.used /\ d.shows = e.shows
  BY DEF Local, Step
<1>2. r.hist = d.hist /\ r.used = d.used /\ r.shows = d.shows
  BY <1>1, Others, RestedFacts
<1>3. r.used = e.used /\ r.shows = e.shows
  BY <1>1, <1>2
<1>4. \A k : Has(e.hist, u, k) => Has(r.hist, u, k)
  BY <1>1, <1>2 DEF Books
<1>5. Booked(u, c, o, r, w, s, g.lost)
  BY <1>4, Zenon DEF Way, Booked
<1>6. Shaped(u, c, o, r, w, s, X)
  BY <1>3 DEF Way, Shaped
<1>7. Other(u) \notin g.blind => Honest(u, c, o, r, w, on)
  BY <1>3 DEF Way, Honest
<1>8. u \notin g.reused => Keyed(c.n, o, w, s, r.used \cup X)
  BY <1>3 DEF Way
<1> QED BY <1>5, <1>6, <1>7, <1>8, Zenon DEF Way

\* One frame.
LEMMA OneFrame ==
    ASSUME NEW f, NEW q, q = <<f>>
    PROVE  /\ DOMAIN q = {1} /\ q[1] = f
           /\ NoHello(q) <=> f.kind # "hello"
           /\ \A w, A : Asks(q, w, A) <=> (f.kind = "delete" => <<w, f.mid>> \in A)
           /\ \A u, k : Sent(u, q, k) <=> f.kind = "text" /\ f.mid[1] = u /\ f.mid[2] = k
           /\ \A b \in BOOLEAN : Lit(b, q) <=> Lights(f) \/ (b /\ ~Clears(f))
<1>1. DOMAIN q = {1} /\ q[1] = f
  OBVIOUS
<1>2. ~(1 > 1)
  OBVIOUS
<1>3. NoHello(q) <=> f.kind # "hello"
  BY <1>1 DEF NoHello
<1>4. \A w, A : Asks(q, w, A) <=> (f.kind = "delete" => <<w, f.mid>> \in A)
  BY <1>1 DEF Asks
<1>5. \A u, k : Sent(u, q, k) <=> f.kind = "text" /\ f.mid[1] = u /\ f.mid[2] = k
  BY <1>1 DEF Sent
<1>6. \A b \in BOOLEAN : Lit(b, q) <=> Lights(f) \/ (b /\ ~Clears(f))
  BY <1>1, <1>2 DEF Lit
<1> QED BY <1>1, <1>3, <1>4, <1>5, <1>6

\* An indicator that was off is not off longer.
LEMMA LitMore ==
    ASSUME NEW a \in BOOLEAN, NEW b \in BOOLEAN, a => b, NEW s, Lit(a, s)
    PROVE  Lit(b, s)
BY DEF Lit

\* The number of one frame becomes a used one.
LEMMA FineUsed ==
    ASSUME NEW s, NEW m, NEW U, NEW V, NEW f, Fine(s, m, U), Apart(<<f>>, s),
           V \subseteq U \cup (IF f.kind \in Numbered THEN {f.n} ELSE {})
    PROVE  Fine(s, m, V)
<1>1. DOMAIN <<f>> = {1} /\ <<f>>[1] = f
  OBVIOUS
<1>2. \A i \in DOMAIN s : ~Clash(f, s[i])
  BY <1>1 DEF Apart
<1>3. Unused(s, V)
  <2> SUFFICES ASSUME NEW i \in DOMAIN s, s[i].kind \in TextFrames, s[i].n \in V PROVE FALSE
    BY DEF Unused
  <2>1. s[i].n \notin U
    BY DEF Fine, Unused
  <2>2. f.kind \in Numbered /\ s[i].n = f.n
    BY <2>1
  <2> QED BY <1>2, <2>2 DEF Clash, TextFrames, Numbered
<1> QED BY <1>3 DEF Fine

\* A text whose key was used before is known to be lost.
Missed(u, e, f, g) ==
    (f.kind \in TextFrames /\ ~Decrypts(e, f) /\ u \in g.reused) => Item(f.mid) \in g.lost

\* The reader takes the next frame.
LEMMA ReadWay ==
    ASSUME NEW u \in Users, NEW c, NEW o, NEW e, NEW w, NEW s, NEW on, NEW g, NEW X,
           Way(u, c, o, e, w, s, on, g, X), w # <<>>, NEW f, f = Head(w), NEW t, t = Tail(w),
           NEW d, Reads(Other(u), e, d, f, g.asked), NEW r, Rested(d, r),
           Missed(u, e, f, g)
    PROVE  Way(u, c, o, r, t, s, on, g, X)
<1>1. /\ Calm(u, c) /\ c.n \in Nat /\ e.shows \in BOOLEAN /\ e.used \subseteq Nat /\ X \subseteq Nat
      /\ o \in Seq(Frames(u)) /\ w \in Seq(Frames(u)) /\ s \in Seq(Frames(u))
  BY WayIn, Zenon
<1> DEFINE q == <<f>>
<1>2. f \in Frames(u) /\ t \in Seq(Frames(u)) /\ Join(Frames(u), q, t, w)
  BY <1>1, HeadTail
<1>3. /\ NoHello(q) <=> f.kind # "hello"
      /\ \A a, A : Asks(q, a, A) <=> (f.kind = "delete" => <<a, f.mid>> \in A)
      /\ \A a, k : Sent(a, q, k) <=> f.kind = "text" /\ f.mid[1] = a /\ f.mid[2] = k
      /\ \A b \in BOOLEAN : Lit(b, q) <=> Lights(f) \/ (b /\ ~Clears(f))
  BY OneFrame
<1>4. q = <<f>>
  OBVIOUS
<1> HIDE DEF q
<1>5. /\ NoHello(w) <=> NoHello(q) /\ NoHello(t)
      /\ Asks(w, u, g.asked) <=> Asks(q, u, g.asked) /\ Asks(t, u, g.asked)
      /\ \A k : Sent(u, w, k) <=> Sent(u, q, k) \/ Sent(u, t, k)
  BY <1>2, JoinEach
<1>6. /\ Sound(Other(u), d) /\ Books(Other(u), e, d)
      /\ d.used \subseteq e.used \cup (IF f.kind \in Numbered THEN {f.n} ELSE {})
      /\ d.shows => Lights(f) \/ (e.shows /\ ~Clears(f))
      /\ (f.kind = "text" /\ Decrypts(e, f)) => Has(d.hist, f.mid[1], f.mid[2])
  BY DEF Reads, Step
<1>7. Other(u) \in Users
  BY Others
<1>8. r.hist = d.hist /\ r.used = d.used /\ r.shows = d.shows /\ Sound(Other(u), r)
  BY <1>6, <1>7, RestedFacts
<1>9. r.used \subseteq Nat /\ r.shows \in BOOLEAN
  <2>1. Typed(Other(u), r)
    BY <1>8 DEF Sound
  <2> QED BY <2>1 DEF Typed
<1>10. Shaped(u, c, o, r, t, s, X)
  <2>1. Shaped(u, c, o, e, w, s, X)
    BY DEF Way
  <2>2. NoHello(t)
    BY <1>5, <2>1, Zenon DEF Shaped
  <2> QED BY <1>2, <1>9, <2>1, <2>2, Zenon DEF Shaped
<1>11. Other(u) \in on /\ Linked(u, c, o, t, on)
  BY DEF Way, Linked
<1>12. u \notin g.reused => Keyed(c.n, o, t, s, r.used \cup X)
  <2> HAVE u \notin g.reused
  <2> DEFINE U == e.used \cup X
             V == r.used \cup X
  <2>1. Keyed(c.n, o, w, s, U)
    BY DEF Way
  <2>2. U \subseteq Nat /\ V \subseteq U \cup (IF f.kind \in Numbered THEN {f.n} ELSE {})
    BY <1>1, <1>6, <1>8
  <2> HIDE DEF U, V
  <2>3. Fine(q, c.n, U) /\ Fine(t, c.n, U) /\ Apart(q, t)
    <3>1. Fine(w, c.n, U)
      BY <2>1 DEF Keyed
    <3> QED BY <1>2, <3>1, JoinFine, Zenon
  <2>4. Apart(o, q) /\ Apart(o, t) /\ Apart(q, s) /\ Apart(t, s)
    <3>1. Apart(o, w) /\ Apart(w, s)
      BY <2>1 DEF Keyed
    <3>2. Apart(o, q) /\ Apart(o, t)
      BY <1>2, <3>1, JoinApart
    <3>3. Apart(q, s) /\ Apart(t, s)
      BY <1>2, <3>1, JoinApart
    <3> QED BY <3>2, <3>3
  <2>5. Apart(q, o)
    BY <2>4, ApartTurned, Zenon
  <2>6. Fine(o, c.n, U) /\ Fine(s, c.n, U) /\ Apart(o, s)
    BY <2>1 DEF Keyed
  <2>7. Fine(o, c.n, V) /\ Fine(s, c.n, V) /\ Fine(t, c.n, V)
    <3>1. Fine(o, c.n, V)
      BY <1>4, <2>2, <2>5, <2>6, FineUsed
    <3>2. Fine(s, c.n, V)
      BY <1>4, <2>2, <2>4, <2>6, FineUsed
    <3>3. Fine(t, c.n, V)
      BY <1>4, <2>2, <2>3, FineUsed
    <3> QED BY <3>1, <3>2, <3>3
  <2>8. \A x \in V : x < c.n
    <3>1. f.kind \in Numbered => f.n < c.n
      <4>1. DOMAIN q = {1} /\ q[1] = f
        BY <1>4
      <4> QED BY <2>3, <4>1 DEF Fine, Under
    <3>2. \A x \in U : x < c.n
      BY <2>1 DEF Keyed
    <3> QED BY <2>2, <3>1, <3>2
  <2>9. Keyed(c.n, o, t, s, V)
    BY <2>4, <2>6, <2>7, <2>8 DEF Keyed
  <2> QED BY <2>9 DEF V
<1>13. Booked(u, c, o, r, t, s, g.lost)
  <2> SUFFICES ASSUME NEW k, Has(c.hist, u, k)
               PROVE  \/ InBox(c, k) \/ Sent(u, o, k) \/ Sent(u, t, k) \/ Sent(u, s, k)
                      \/ Has(r.hist, u, k) \/ <<u, k>> \in g.lost
    BY DEF Booked
  <2>1. \/ InBox(c, k) \/ Sent(u, o, k) \/ Sent(u, w, k) \/ Sent(u, s, k)
        \/ Has(e.hist, u, k) \/ <<u, k>> \in g.lost
    BY Zenon DEF Way, Booked
  <2>2. Has(e.hist, u, k) => Has(r.hist, u, k)
    BY <1>6, <1>8, Zenon DEF Books
  <2>3. ASSUME Sent(u, q, k) PROVE Has(r.hist, u, k) \/ <<u, k>> \in g.lost
    <3>1. f.kind = "text" /\ f.mid[1] = u /\ f.mid[2] = k
      BY <1>3, <2>3
    <3>2. CASE Decrypts(e, f)
      BY <1>6, <1>8, <3>1, <3>2
    <3>3. CASE ~Decrypts(e, f)
      <4>1. u \in g.reused
        <5> SUFFICES ASSUME u \notin g.reused PROVE FALSE
          OBVIOUS
        <5>1. Unused(w, e.used \cup X)
          BY DEF Way, Keyed, Fine
        <5>2. 1 \in DOMAIN w /\ w[1] = f
          BY <1>1
        <5>3. f.n \notin e.used
          BY <3>1, <5>1, <5>2 DEF Unused, TextFrames
        <5> QED BY <3>3, <5>3 DEF Decrypts
      <4>2. Item(f.mid) \in g.lost
        BY <3>1, <3>3, <4>1 DEF TextFrames, Missed
      <4> QED BY <3>1, <4>2 DEF Item
    <3> QED BY <3>2, <3>3
  <2>4. Sent(u, w, k) => Sent(u, q, k) \/ Sent(u, t, k)
    BY <1>5
  <2> QED BY <2>1, <2>2, <2>3, <2>4, Zenon
<1>14. Other(u) \notin g.blind => Honest(u, c, o, r, t, on)
  <2> HAVE Other(u) \notin g.blind
  <2>1. Honest(u, c, o, e, w, on)
    BY DEF Way
  <2> DEFINE a == Lit(e.shows, w)
             b == Lit(r.shows, t)
             h == Lit(e.shows, q)
  <2>2. a \in BOOLEAN /\ b \in BOOLEAN /\ h \in BOOLEAN
    BY DEF Lit
  <2>3. r.shows => h
    BY <1>1, <1>3, <1>6, <1>8
  <2>4. a <=> Lit(h, t)
    BY <1>1, <1>2, JoinLit
  <2> HIDE DEF h
  <2>5. b => Lit(h, t)
    BY <1>9, <2>2, <2>3, LitMore
  <2>6. b => a
    BY <2>4, <2>5
  <2> HIDE DEF a, b
  <2>7. Lit(b, o) => Lit(a, o)
    BY <2>2, <2>6, LitMore
  <2>8. Lit(b, o) => c.told = "typing"
    BY <2>1, <2>7 DEF Honest, a
  <2>9. u \notin on => ~b
    BY <2>1, <2>6 DEF Honest, a
  <2> QED BY <1>11, <2>8, <2>9 DEF Honest, b
<1>15. Asks(t, u, g.asked)
  BY <1>5 DEF Way
<1> QED BY <1>10, <1>11, <1>12, <1>13, <1>14, <1>15, Zenon DEF Way

\* No frame.
LEMMA NoFrame ==
    ASSUME NEW q, q = <<>>
    PROVE  /\ NoHello(q) /\ OneHello(q) /\ \A w, A : Asks(q, w, A)
           /\ \A u, k : ~Sent(u, q, k)
           /\ \A b \in BOOLEAN : Lit(b, q) <=> b
           /\ \A m, U : Fine(q, m, U)
           /\ \A t : Apart(q, t) /\ Apart(t, q)
<1>1. DOMAIN q = {}
  OBVIOUS
<1>2. NoHello(q) /\ OneHello(q) /\ \A w, A : Asks(q, w, A)
  BY <1>1 DEF NoHello, OneHello, Asks
<1>3. (\A u, k : ~Sent(u, q, k)) /\ \A b \in BOOLEAN : Lit(b, q) <=> b
  BY <1>1 DEF Sent, Lit
<1>4. \A m, U : Fine(q, m, U)
  BY <1>1 DEF Fine, Under, Distinct, Unused
<1>5. \A t : Apart(q, t) /\ Apart(t, q)
  BY <1>1 DEF Apart
<1> QED BY <1>2, <1>3, <1>4, <1>5

\* The first frame of o and the others, and what is known of them.
Cut1(u, o, f, q, t) ==
    /\ q = <<f>> /\ f \in Frames(u) /\ q \in Seq(Frames(u)) /\ t \in Seq(Frames(u))
    /\ Join(Frames(u), q, t, o)

LEMMA TakeOne ==
    ASSUME NEW u \in Users, NEW o, o \in Seq(Frames(u)), o # <<>>
    PROVE  Cut1(u, o, Head(o), <<Head(o)>>, Tail(o))
BY HeadTail DEF Cut1

\* The relay keeps a file of u, or knows less of its files.
LEMMA FileWay ==
    ASSUME NEW u \in Users, NEW c, NEW o, NEW e, NEW w, NEW s, NEW on, NEW g, NEW X,
           Way(u, c, o, e, w, s, on, g, X), NEW f, NEW q, NEW t, Cut1(u, o, f, q, t),
           NEW Y, Y \subseteq X \cup (IF f.kind = "init" THEN {f.n} ELSE {})
    PROVE  Way(u, c, o, e, w, s, on, g, Y)
<1>1. /\ Calm(u, c) /\ c.n \in Nat /\ e.shows \in BOOLEAN /\ e.used \subseteq Nat /\ X \subseteq Nat
      /\ o \in Seq(Frames(u)) /\ w \in Seq(Frames(u)) /\ s \in Seq(Frames(u))
  BY WayIn, Zenon
<1>2. q = <<f>> /\ f \in Frames(u) /\ Join(Frames(u), q, t, o)
  BY DEF Cut1
<1>3. f.n \in Nat
  BY <1>2 DEF Frames
<1>4. u \notin g.reused => Keyed(c.n, o, w, s, e.used \cup Y)
  <2> HAVE u \notin g.reused
  <2> DEFINE U == e.used \cup X
             V == e.used \cup Y
  <2>1. Keyed(c.n, o, w, s, U)
    BY DEF Way
  <2>2. V \subseteq U \cup (IF f.kind \in Numbered THEN {f.n} ELSE {}) /\ (f.kind # "init" => V \subseteq U)
    BY DEF Numbered
  <2> HIDE DEF U, V
  <2>3. Fine(q, c.n, U) /\ Fine(t, c.n, U) /\ Apart(q, t)
    <3>1. Fine(o, c.n, U)
      BY <2>1 DEF Keyed
    <3> QED BY <1>2, <3>1, JoinFine, Zenon
  <2>4. Apart(q, w) /\ Apart(q, s)
    <3>1. Apart(o, w) /\ Apart(o, s)
      BY <2>1 DEF Keyed
    <3>2. Apart(q, w)
      BY <1>2, <3>1, JoinApart
    <3>3. Apart(q, s)
      BY <1>2, <3>1, JoinApart
    <3> QED BY <3>2, <3>3
  <2>5. Fine(w, c.n, U) /\ Fine(s, c.n, U)
    BY <2>1 DEF Keyed
  <2>6. Fine(w, c.n, V) /\ Fine(s, c.n, V) /\ Fine(t, c.n, V)
    <3>1. Fine(w, c.n, V)
      BY <1>2, <2>2, <2>4, <2>5, FineUsed
    <3>2. Fine(s, c.n, V)
      BY <1>2, <2>2, <2>4, <2>5, FineUsed
    <3>3. Fine(t, c.n, V)
      BY <1>2, <2>2, <2>3, FineUsed
    <3> QED BY <3>1, <3>2, <3>3
  <2>7. DOMAIN q = {1} /\ q[1] = f
    BY <1>2
  <2>8. Fine(q, c.n, V)
    <3>1. Unused(q, V)
      BY <2>2, <2>3, <2>7 DEF Unused, Fine, TextFrames
    <3> QED BY <2>3, <3>1 DEF Fine
  <2>9. Fine(o, c.n, V)
    BY <1>2, <2>3, <2>6, <2>8, JoinFine, Zenon
  <2>10. \A x \in V : x < c.n
    <3>1. f.kind \in Numbered => f.n < c.n
      BY <2>3, <2>7 DEF Fine, Under
    <3>2. \A x \in U : x < c.n
      BY <2>1 DEF Keyed
    <3> QED BY <2>2, <3>1, <3>2
  <2>11. Keyed(c.n, o, w, s, V)
    BY <2>1, <2>6, <2>9, <2>10 DEF Keyed
  <2> QED BY <2>11 DEF V
<1>5. Y \subseteq Nat
  BY <1>1, <1>3
<1>6. Shaped(u, c, o, e, w, s, Y)
  BY <1>5, Zenon DEF Way, Shaped
<1> QED BY <1>4, <1>6, Zenon DEF Way

\* Fewer files of u.
LEMMA ShrinkWay ==
    ASSUME NEW u \in Users, NEW c, NEW o, NEW e, NEW w, NEW s, NEW on, NEW g, NEW X,
           Way(u, c, o, e, w, s, on, g, X), NEW Y, Y \subseteq X
    PROVE  Way(u, c, o, e, w, s, on, g, Y)
<1>1. /\ c.n \in Nat /\ e.used \subseteq Nat /\ X \subseteq Nat
      /\ o \in Seq(Frames(u)) /\ w \in Seq(Frames(u)) /\ s \in Seq(Frames(u))
  BY WayIn, Zenon
<1>2. u \notin g.reused => Keyed(c.n, o, w, s, e.used \cup Y)
  <2> HAVE u \notin g.reused
  <2> DEFINE U == e.used \cup X
             V == e.used \cup Y
  <2>1. Keyed(c.n, o, w, s, U)
    BY DEF Way
  <2>2. U \subseteq Nat /\ V \subseteq U
    BY <1>1
  <2>4. c.n <= c.n
    BY <1>1
  <2> HIDE DEF U, V
  <2>3. Keyed(c.n, o, w, s, V)
    BY <1>1, <2>1, <2>2, <2>4, KeyedMore
  <2> QED BY <2>3 DEF V
<1>3. Y \subseteq Nat
  BY <1>1
<1>4. Shaped(u, c, o, e, w, s, Y)
  BY <1>3, Zenon DEF Way, Shaped
<1> QED BY <1>2, <1>4, Zenon DEF Way

\* The relay takes a frame of u and hands it to nobody.
LEMMA TakeWay ==
    ASSUME NEW u \in Users, NEW c, NEW o, NEW e, NEW w, NEW s, NEW on, NEW g, NEW X,
           Way(u, c, o, e, w, s, on, g, X), NEW f, NEW q, NEW t, Cut1(u, o, f, q, t),
           f.kind = "text" => Item(f.mid) \in g.lost,
           u \notin on \/ Other(u) \notin on
    PROVE  /\ Way(u, c, t, e, w, s, on, g, X)
           /\ f.kind = "hello" => c.hi /\ u \notin on /\ NoHello(t)
<1>1. /\ Calm(u, c) /\ c.n \in Nat /\ e.shows \in BOOLEAN /\ e.used \subseteq Nat /\ X \subseteq Nat
      /\ o \in Seq(Frames(u)) /\ w \in Seq(Frames(u)) /\ s \in Seq(Frames(u))
  BY WayIn, Zenon
<1>2. q = <<f>> /\ f \in Frames(u) /\ Join(Frames(u), q, t, o) /\ t \in Seq(Frames(u))
  BY DEF Cut1
<1>3. /\ DOMAIN q = {1} /\ q[1] = f
      /\ \A a, k : Sent(a, q, k) <=> f.kind = "text" /\ f.mid[1] = a /\ f.mid[2] = k
  BY <1>2, OneFrame
<1>4. /\ Asks(o, u, g.asked) => Asks(t, u, g.asked)
      /\ \A k : Sent(u, o, k) <=> Sent(u, q, k) \/ Sent(u, t, k)
  BY <1>2, JoinEach
<1>5. Shaped(u, c, t, e, w, s, X)
  BY <1>2, Zenon DEF Way, Shaped
<1>6. Linked(u, c, t, w, on) /\ (f.kind = "hello" => c.hi /\ u \notin on /\ NoHello(t))
  <2>1. Linked(u, c, o, w, on)
    BY DEF Way
  <2>2. Len(q) = 1
    BY <1>2
  <2>3. 1 \in DOMAIN o /\ o[1] = f /\ \A i \in DOMAIN t : 1 + i \in DOMAIN o /\ o[1 + i] = t[i] /\ i \in Nat
    BY <1>2, <1>3, <2>2 DEF Join
  <2>4. o # <<>>
    BY <2>3
  <2>5. OneHello(t)
    <3> SUFFICES ASSUME NEW i \in DOMAIN t, NEW j \in DOMAIN t, t[i].kind = "hello", t[j].kind = "hello"
                 PROVE  i = j
      BY DEF OneHello
    <3>1. 1 + i = 1 + j
      BY <2>1, <2>3 DEF Linked, OneHello
    <3> QED BY <2>3, <3>1
  <2>6. ~NoHello(t) => ~NoHello(o)
    BY <2>3 DEF NoHello
  <2>7. ASSUME f.kind = "hello" PROVE c.hi /\ u \notin on /\ NoHello(t)
    <3>1. ~NoHello(o)
      BY <2>3, <2>7 DEF NoHello
    <3>2. ASSUME NEW i \in DOMAIN t, t[i].kind = "hello" PROVE FALSE
      <4>1. 1 + i = 1
        BY <2>1, <2>3, <2>7, <3>2 DEF Linked, OneHello
      <4>2. i \in Nat /\ i # 0
        BY <1>2, <3>2
      <4> QED BY <4>1, <4>2
    <3> QED BY <2>1, <3>1, <3>2 DEF Linked, NoHello
  <2> QED BY <2>1, <2>4, <2>5, <2>6, <2>7 DEF Linked
<1>7. u \notin g.reused => Keyed(c.n, t, w, s, e.used \cup X)
  <2> HAVE u \notin g.reused
  <2> DEFINE U == e.used \cup X
  <2>1. Keyed(c.n, o, w, s, U)
    BY DEF Way
  <2> HIDE DEF U
  <2>2. Fine(t, c.n, U)
    <3>1. Fine(o, c.n, U)
      BY <2>1 DEF Keyed
    <3> QED BY <1>2, <3>1, JoinFine, Zenon
  <2>3. Apart(o, w) /\ Apart(o, s)
    BY <2>1 DEF Keyed
  <2>4. Apart(t, w)
    BY <1>2, <2>3, JoinApart
  <2>5. Apart(t, s)
    BY <1>2, <2>3, JoinApart
  <2>6. Keyed(c.n, t, w, s, U)
    BY <2>1, <2>2, <2>4, <2>5 DEF Keyed
  <2> QED BY <2>6 DEF U
<1>8. Booked(u, c, t, e, w, s, g.lost)
  <2> SUFFICES ASSUME NEW k, Has(c.hist, u, k)
               PROVE  \/ InBox(c, k) \/ Sent(u, t, k) \/ Sent(u, w, k) \/ Sent(u, s, k)
                      \/ Has(e.hist, u, k) \/ <<u, k>> \in g.lost
    BY DEF Booked
  <2>1. \/ InBox(c, k) \/ Sent(u, o, k) \/ Sent(u, w, k) \/ Sent(u, s, k)
        \/ Has(e.hist, u, k) \/ <<u, k>> \in g.lost
    BY Zenon DEF Way, Booked
  <2>2. Sent(u, q, k) => <<u, k>> \in g.lost
    BY <1>3 DEF Item
  <2>3. Sent(u, o, k) => Sent(u, q, k) \/ Sent(u, t, k)
    BY <1>4
  <2> QED BY <2>1, <2>2, <2>3, Zenon
<1>9. Other(u) \notin g.blind => Honest(u, c, t, e, w, on)
  <2> HAVE Other(u) \notin g.blind
  <2>1. Honest(u, c, o, e, w, on) /\ Linked(u, c, o, w, on)
    BY DEF Way
  <2> DEFINE a == Lit(e.shows, w)
             h == Lit(a, q)
  <2>2. a \in BOOLEAN /\ h \in BOOLEAN
    BY DEF Lit
  <2>3. ~a
    <3>1. CASE u \notin on
      BY <2>1, <3>1 DEF Honest
    <3>2. CASE Other(u) \notin on
      <4>1. w = <<>> /\ ~e.shows
        BY <2>1, <3>2 DEF Honest, Linked
      <4> QED BY <4>1 DEF Lit
    <3> QED BY <3>1, <3>2
  <2> HIDE DEF a
  <2>4. Lit(a, o) <=> Lit(h, t)
    BY <1>2, <2>2, JoinLit
  <2> HIDE DEF h
  <2>5. Lit(a, t) => Lit(h, t)
    BY <2>2, <2>3, LitMore
  <2>6. Lit(a, t) => c.told = "typing"
    BY <2>1, <2>4, <2>5 DEF Honest, a
  <2> QED BY <2>1, <2>6 DEF Honest, a
<1>10. Asks(t, u, g.asked)
  BY <1>4 DEF Way
<1> QED BY <1>5, <1>6, <1>7, <1>8, <1>9, <1>10, Zenon DEF Way

\* The relay hands a frame of u over, or stores it: w becomes x, or s does.
LEMMA HandWay ==
    ASSUME NEW u \in Users, NEW c, NEW o, NEW e, NEW w, NEW s, NEW on, NEW g, NEW X,
           Way(u, c, o, e, w, s, on, g, X), NEW f, NEW q, NEW t, Cut1(u, o, f, q, t),
           f.kind # "hello", u \in on, NEW x
    PROVE  /\ (Other(u) \in on /\ Join(Frames(u), w, q, x)) => Way(u, c, t, e, x, s, on, g, X)
           /\ (Other(u) \notin on /\ f.kind \in Stored /\ Join(Frames(u), s, q, x)) =>
                  Way(u, c, t, e, w, x, on, g, X)
<1>1. /\ Calm(u, c) /\ c.n \in Nat /\ e.shows \in BOOLEAN /\ e.used \subseteq Nat /\ X \subseteq Nat
      /\ o \in Seq(Frames(u)) /\ w \in Seq(Frames(u)) /\ s \in Seq(Frames(u))
  BY WayIn, Zenon
<1>2. q = <<f>> /\ f \in Frames(u) /\ Join(Frames(u), q, t, o) /\ t \in Seq(Frames(u))
  BY DEF Cut1
<1>3. /\ DOMAIN q = {1} /\ q[1] = f /\ NoHello(q)
  BY <1>2, OneFrame
<1>4. /\ Asks(o, u, g.asked) <=> Asks(q, u, g.asked) /\ Asks(t, u, g.asked)
      /\ \A k : Sent(u, o, k) <=> Sent(u, q, k) \/ Sent(u, t, k)
  BY <1>2, JoinEach
<1>5. Asks(q, u, g.asked) /\ Asks(t, u, g.asked) /\ Asks(w, u, g.asked) /\ Asks(s, u, g.asked)
  BY <1>4 DEF Way
<1>6. ASSUME NEW y, Other(u) \notin on => y = <<>> PROVE Linked(u, c, t, y, on)
  <2>1. Linked(u, c, o, w, on)
    BY DEF Way
  <2>2. Len(q) = 1
    BY <1>2
  <2>3. 1 \in DOMAIN o /\ \A i \in DOMAIN t : 1 + i \in DOMAIN o /\ o[1 + i] = t[i] /\ i \in Nat
    BY <1>2, <1>3, <2>2 DEF Join
  <2>4. o # <<>>
    BY <2>3
  <2>5. OneHello(t)
    <3> SUFFICES ASSUME NEW i \in DOMAIN t, NEW j \in DOMAIN t, t[i].kind = "hello", t[j].kind = "hello"
                 PROVE  i = j
      BY DEF OneHello
    <3>1. 1 + i = 1 + j
      BY <2>1, <2>3 DEF Linked, OneHello
    <3> QED BY <2>3, <3>1
  <2>6. ~NoHello(t) => ~NoHello(o)
    BY <2>3 DEF NoHello
  <2> QED BY <1>6, <2>1, <2>4, <2>5, <2>6 DEF Linked
<1> DEFINE U == e.used \cup X
<1>7. u \notin g.reused =>
         /\ Keyed(c.n, o, w, s, U) /\ Fine(t, c.n, U) /\ Fine(q, c.n, U)
         /\ Apart(t, w) /\ Apart(t, s) /\ Apart(t, q) /\ Apart(w, q) /\ Apart(q, s) /\ Apart(s, q)
  <2> HAVE u \notin g.reused
  <2>1. Keyed(c.n, o, w, s, U)
    BY DEF Way
  <2> HIDE DEF U
  <2>2. Fine(t, c.n, U) /\ Fine(q, c.n, U) /\ Apart(q, t)
    <3>1. Fine(o, c.n, U)
      BY <2>1 DEF Keyed
    <3> QED BY <1>2, <3>1, JoinFine, Zenon
  <2>3. Apart(o, w) /\ Apart(o, s)
    BY <2>1 DEF Keyed
  <2>4. Apart(t, w) /\ Apart(q, w)
    BY <1>2, <2>3, JoinApart
  <2>5. Apart(t, s) /\ Apart(q, s)
    BY <1>2, <2>3, JoinApart
  <2>6. Apart(w, q) /\ Apart(s, q) /\ Apart(t, q)
    BY <2>2, <2>4, <2>5, ApartTurned, Zenon
  <2> QED BY <2>1, <2>2, <2>4, <2>5, <2>6
<1>8. \A k : Has(c.hist, u, k) =>
         \/ InBox(c, k) \/ Sent(u, t, k) \/ Sent(u, q, k) \/ Sent(u, w, k) \/ Sent(u, s, k)
         \/ Has(e.hist, u, k) \/ <<u, k>> \in g.lost
  <2> TAKE k
  <2>1. Has(c.hist, u, k) => 
          \/ InBox(c, k) \/ Sent(u, o, k) \/ Sent(u, w, k) \/ Sent(u, s, k)
          \/ Has(e.hist, u, k) \/ <<u, k>> \in g.lost
    BY Zenon DEF Way, Booked
  <2> QED BY <1>4, <2>1
<1> DEFINE a == Lit(e.shows, w)
           h == Lit(a, q)
<1>9. a \in BOOLEAN /\ h \in BOOLEAN
  BY DEF Lit
<1>10. Other(u) \notin g.blind => (Lit(h, t) => c.told = "typing")
  <2> SUFFICES ASSUME Other(u) \notin g.blind, Lit(h, t) PROVE c.told = "typing"
    OBVIOUS
  <2>1. Honest(u, c, o, e, w, on)
    BY DEF Way
  <2> HIDE DEF a
  <2>2. Lit(a, o) <=> Lit(h, t)
    BY <1>2, <1>9, JoinLit
  <2> HIDE DEF h
  <2> QED BY <2>1, <2>2 DEF Honest, a
<1> HIDE DEF U
<1>11. ASSUME Other(u) \in on, Join(Frames(u), w, q, x) PROVE Way(u, c, t, e, x, s, on, g, X)
  <2>1. /\ NoHello(x) <=> NoHello(w) /\ NoHello(q)
        /\ Asks(x, u, g.asked) <=> Asks(w, u, g.asked) /\ Asks(q, u, g.asked)
        /\ \A k : Sent(u, x, k) <=> Sent(u, w, k) \/ Sent(u, q, k)
    BY <1>11, JoinEach
  <2>2. Shaped(u, c, t, e, x, s, X)
    <3>1. Shaped(u, c, o, e, w, s, X)
      BY DEF Way
    <3>2. x \in Seq(Frames(u)) /\ NoHello(x)
      BY <1>3, <1>11, <2>1, <3>1 DEF Join, Shaped
    <3> QED BY <1>2, <3>1, <3>2, Zenon DEF Shaped
  <2>3. Linked(u, c, t, x, on)
    BY <1>6, <1>11
  <2>4. u \notin g.reused => Keyed(c.n, t, x, s, U)
    <3> HAVE u \notin g.reused
    <3>1. Fine(x, c.n, U)
      <4>1. Fine(w, c.n, U) /\ Fine(q, c.n, U) /\ Apart(w, q)
        BY <1>7 DEF Keyed
      <4> QED BY <1>11, <4>1, JoinFine, Zenon
    <3>2. Apart(t, x)
      BY <1>7, <1>11, JoinApart
    <3>3. Apart(w, s) /\ Apart(q, s)
      BY <1>7 DEF Keyed
    <3>4. Apart(x, s)
      BY <1>11, <3>3, JoinApart
    <3> QED BY <1>7, <3>1, <3>2, <3>4 DEF Keyed
  <2>5. Booked(u, c, t, e, x, s, g.lost)
    BY <1>8, <2>1 DEF Booked
  <2>6. Other(u) \notin g.blind => Honest(u, c, t, e, x, on)
    <3> HAVE Other(u) \notin g.blind
    <3>1. Lit(e.shows, x) <=> h
      BY <1>1, <1>11, JoinLit
    <3>2. Honest(u, c, o, e, w, on)
      BY DEF Way
    <3> DEFINE b == Lit(e.shows, x)
    <3>4. b \in BOOLEAN /\ (b => h)
      BY <3>1 DEF Lit
    <3> HIDE DEF b, a, h
    <3>5. Lit(b, t) => Lit(h, t)
      BY <1>9, <3>4, LitMore
    <3>6. Lit(b, t) => c.told = "typing"
      BY <1>10, <3>5
    <3> QED BY <1>11, <3>2, <3>6 DEF Honest, b
  <2> QED BY <1>5, <2>1, <2>2, <2>3, <2>4, <2>5, <2>6, Zenon DEF Way, U
<1>12. ASSUME Other(u) \notin on, f.kind \in Stored, Join(Frames(u), s, q, x)
       PROVE  Way(u, c, t, e, w, x, on, g, X)
  <2>1. /\ Asks(x, u, g.asked) <=> Asks(s, u, g.asked) /\ Asks(q, u, g.asked)
        /\ \A k : Sent(u, x, k) <=> Sent(u, s, k) \/ Sent(u, q, k)
    BY <1>12, JoinEach
  <2>2. Shaped(u, c, t, e, w, x, X)
    <3>1. Shaped(u, c, o, e, w, s, X)
      BY DEF Way
    <3>2. x \in Seq(Frames(u)) /\ \A i \in DOMAIN x : x[i].kind \notin {"hello", "typing"}
      <4>1. \A i \in DOMAIN q : q[i].kind \notin {"hello", "typing"}
        BY <1>3, <1>12 DEF Stored
      <4>2. \A i \in DOMAIN s : s[i].kind \notin {"hello", "typing"}
        BY <3>1 DEF Shaped
      <4> QED BY <1>12, <4>1, <4>2 DEF Join
    <3> QED BY <1>2, <3>1, <3>2, Zenon DEF Shaped
  <2>3. Linked(u, c, t, w, on)
    <3>1. Other(u) \notin on => w = <<>>
      BY DEF Way, Linked
    <3> QED BY <1>6, <3>1
  <2>4. u \notin g.reused => Keyed(c.n, t, w, x, U)
    <3> HAVE u \notin g.reused
    <3>1. Fine(x, c.n, U)
      <4>1. Fine(s, c.n, U) /\ Fine(q, c.n, U) /\ Apart(s, q)
        BY <1>7 DEF Keyed
      <4> QED BY <1>12, <4>1, JoinFine, Zenon
    <3>2. Apart(t, x)
      BY <1>7, <1>12, JoinApart
    <3>3. Apart(w, s) /\ Apart(w, q)
      BY <1>7 DEF Keyed
    <3>4. Apart(w, x)
      BY <1>12, <3>3, JoinApart
    <3> QED BY <1>7, <3>1, <3>2, <3>4 DEF Keyed
  <2>5. Booked(u, c, t, e, w, x, g.lost)
    BY <1>8, <2>1 DEF Booked
  <2>6. Other(u) \notin g.blind => Honest(u, c, t, e, w, on)
    <3> HAVE Other(u) \notin g.blind
    <3>1. Honest(u, c, o, e, w, on) /\ Linked(u, c, o, w, on)
      BY DEF Way
    <3>2. ~a
      <4>1. w = <<>> /\ ~e.shows
        BY <1>12, <3>1 DEF Honest, Linked
      <4> QED BY <4>1 DEF Lit
    <3> HIDE DEF a, h
    <3>3. Lit(a, t) => Lit(h, t)
      BY <1>9, <3>2, LitMore
    <3>4. Lit(a, t) => c.told = "typing"
      BY <1>10, <3>3
    <3> QED BY <3>1, <3>4 DEF Honest, a
  <2> QED BY <1>5, <2>1, <2>2, <2>3, <2>4, <2>5, <2>6, Zenon DEF Way, U
<1> QED BY <1>11, <1>12

\* Frames the relay makes: keys, presence, and the files it keeps.
Plain(u, z, X) ==
    /\ z \in Seq(Frames(u))
    /\ \A i \in DOMAIN z : /\ z[i].kind \in {"keys", "presence", "init", "chunk", "end"}
                           /\ z[i].kind = "init" => z[i].n \in X

\* They say nothing of texts, retractions and typing, and clash with no text.
LEMMA PlainFacts ==
    ASSUME NEW u \in Users, NEW X, NEW z, Plain(u, z, X)
    PROVE  /\ NoHello(z) /\ \A w, A : Asks(z, w, A)
           /\ \A w, k : ~Sent(w, z, k)
           /\ \A b \in BOOLEAN : Lit(b, z) => b
           /\ \A m, U : (X \subseteq U /\ \A x \in U : x < m) => Fine(z, m, U)
           /\ \A t, U : (X \subseteq U /\ Unused(t, U)) => Apart(t, z)
<1>1. \A i \in DOMAIN z : /\ z[i].kind \in {"keys", "presence", "init", "chunk", "end"}
                          /\ z[i].kind \in Numbered => z[i].kind = "init" /\ z[i].n \in X
                          /\ z[i].kind \notin TextFrames
  BY DEF Plain, Numbered, TextFrames
<1>2. NoHello(z) /\ \A w, A : Asks(z, w, A)
  BY <1>1 DEF NoHello, Asks
<1>3. (\A w, k : ~Sent(w, z, k)) /\ \A b \in BOOLEAN : Lit(b, z) => b
  BY <1>1 DEF Sent, Lit, Lights
<1>4. ASSUME NEW m, NEW U, X \subseteq U, \A x \in U : x < m PROVE Fine(z, m, U)
  BY <1>1, <1>4 DEF Fine, Under, Distinct, Unused, Clash
<1>5. ASSUME NEW t, NEW U, X \subseteq U, Unused(t, U) PROVE Apart(t, z)
  <2> SUFFICES ASSUME NEW i \in DOMAIN t, NEW j \in DOMAIN z, Clash(t[i], z[j]) PROVE FALSE
    BY DEF Apart
  <2>1. z[j].n \in U /\ t[i].kind \in TextFrames /\ t[i].n = z[j].n
    BY <1>1, <1>5 DEF Clash
  <2> QED BY <1>5, <2>1 DEF Unused
<1> QED BY <1>2, <1>3, <1>4, <1>5

\* The relay adds frames of its own to what it sends the reader.
LEMMA PlainWay ==
    ASSUME NEW u \in Users, NEW c, NEW o, NEW e, NEW w, NEW s, NEW on, NEW g, NEW X,
           Way(u, c, o, e, w, s, on, g, X), NEW z, Plain(u, z, X), Other(u) \in on,
           NEW x, Join(Frames(u), w, z, x)
    PROVE  Way(u, c, o, e, x, s, on, g, X)
<1>1. /\ Calm(u, c) /\ c.n \in Nat /\ e.shows \in BOOLEAN /\ e.used \subseteq Nat /\ X \subseteq Nat
      /\ o \in Seq(Frames(u)) /\ w \in Seq(Frames(u)) /\ s \in Seq(Frames(u))
  BY WayIn, Zenon
<1>2. /\ NoHello(z) /\ \A r, A : Asks(z, r, A)
      /\ \A r, k : ~Sent(r, z, k)
      /\ \A b \in BOOLEAN : Lit(b, z) => b
      /\ \A m, U : (X \subseteq U /\ \A n \in U : n < m) => Fine(z, m, U)
      /\ \A t, U : (X \subseteq U /\ Unused(t, U)) => Apart(t, z)
  BY PlainFacts
<1>3. /\ NoHello(x) <=> NoHello(w) /\ NoHello(z)
      /\ Asks(x, u, g.asked) <=> Asks(w, u, g.asked) /\ Asks(z, u, g.asked)
      /\ \A k : Sent(u, x, k) <=> Sent(u, w, k) \/ Sent(u, z, k)
  BY JoinEach
<1>4. Shaped(u, c, o, e, x, s, X)
  <2>1. Shaped(u, c, o, e, w, s, X)
    BY DEF Way
  <2>2. x \in Seq(Frames(u)) /\ NoHello(x)
    BY <1>2, <1>3, <2>1 DEF Join, Shaped
  <2> QED BY <2>1, <2>2, Zenon DEF Shaped
<1>5. Linked(u, c, o, x, on)
  BY DEF Way, Linked
<1>6. u \notin g.reused => Keyed(c.n, o, x, s, e.used \cup X)
  <2> HAVE u \notin g.reused
  <2> DEFINE U == e.used \cup X
  <2>1. Keyed(c.n, o, w, s, U)
    BY DEF Way
  <2>2. X \subseteq U
    OBVIOUS
  <2> HIDE DEF U
  <2>3. /\ Fine(w, c.n, U) /\ Unused(o, U) /\ Unused(w, U) /\ Unused(s, U) /\ \A n \in U : n < c.n
        /\ Apart(o, w) /\ Apart(w, s)
    BY <2>1 DEF Keyed, Fine
  <2>4. Fine(z, c.n, U) /\ Apart(o, z) /\ Apart(w, z) /\ Apart(s, z)
    BY <1>2, <2>2, <2>3
  <2>5. Apart(z, s)
    BY <2>4, ApartTurned, Zenon
  <2>6. Fine(x, c.n, U)
    BY <2>3, <2>4, JoinFine, Zenon
  <2>7. Apart(o, x)
    BY <2>3, <2>4, JoinApart
  <2>8. Apart(x, s)
    BY <2>3, <2>5, JoinApart
  <2>9. Keyed(c.n, o, x, s, U)
    BY <2>1, <2>6, <2>7, <2>8 DEF Keyed
  <2> QED BY <2>9 DEF U
<1>7. Booked(u, c, o, e, x, s, g.lost)
  <2>1. Booked(u, c, o, e, w, s, g.lost)
    BY DEF Way
  <2> QED BY <1>2, <1>3, <2>1 DEF Booked
<1>8. Other(u) \notin g.blind => Honest(u, c, o, e, x, on)
  <2> HAVE Other(u) \notin g.blind
  <2>1. Honest(u, c, o, e, w, on)
    BY DEF Way
  <2> DEFINE a == Lit(e.shows, w)
             b == Lit(e.shows, x)
  <2>2. a \in BOOLEAN /\ b \in BOOLEAN
    BY DEF Lit
  <2>3. b <=> Lit(a, z)
    BY <1>1, JoinLit
  <2> HIDE DEF a, b
  <2>4. b => a
    BY <1>2, <2>2, <2>3
  <2>5. Lit(b, o) => Lit(a, o)
    BY <2>2, <2>4, LitMore
  <2>6. Lit(b, o) => c.told = "typing"
    BY <2>1, <2>5 DEF Honest, a
  <2>7. u \notin on => ~b
    BY <2>1, <2>4 DEF Honest, a
  <2> QED BY <2>6, <2>7 DEF Honest, b
<1>9. Asks(x, u, g.asked)
  BY <1>2, <1>3 DEF Way
<1> QED BY <1>4, <1>5, <1>6, <1>7, <1>8, <1>9, Zenon DEF Way

\* The relay knows the author.
LEMMA KnownWay ==
    ASSUME NEW u \in Users, NEW c, NEW o, NEW e, NEW w, NEW s, NEW on, NEW g, NEW X,
           Way(u, c, o, e, w, s, on, g, X), c.hi, NoHello(o)
    PROVE  Way(u, c, o, e, w, s, on \cup {u}, g, X)
<1>1. Other(u) \in on \cup {u} <=> Other(u) \in on
  BY Others
<1>2. Linked(u, c, o, w, on \cup {u})
  BY <1>1 DEF Way, Linked
<1>3. Other(u) \notin g.blind => Honest(u, c, o, e, w, on \cup {u})
  BY <1>1 DEF Way, Honest
<1> QED BY <1>2, <1>3, Zenon DEF Way

\* The relay knows the reader.
LEMMA LoginWay ==
    ASSUME NEW u \in Users, NEW c, NEW o, NEW e, NEW w, NEW s, NEW on, NEW g, NEW X,
           Way(u, c, o, e, w, s, on, g, X)
    PROVE  Way(u, c, o, e, w, s, on \cup {Other(u)}, g, X)
<1> DEFINE on2 == on \cup {Other(u)}
<1>1. Other(u) \in on2 /\ (u \in on2 <=> u \in on)
  BY Others
<1> HIDE DEF on2
<1>2. Linked(u, c, o, w, on2)
  BY <1>1 DEF Way, Linked
<1>3. Other(u) \notin g.blind => Honest(u, c, o, e, w, on2)
  BY <1>1 DEF Way, Honest
<1>4. Way(u, c, o, e, w, s, on2, g, X)
  BY <1>2, <1>3, Zenon DEF Way
<1> QED BY <1>4 DEF on2

\* The texts among the frames s have frames that are lost.
Gone(s, L) == \A i \in DOMAIN s : s[i].kind \in TextFrames => Item(s[i].mid) \in L

\* Of what the relay holds, the first or the last part is gone.
LEMMA SkipWay ==
    ASSUME NEW u \in Users, NEW c, NEW o, NEW e, NEW w, NEW s, NEW on, NEW g, NEW X,
           Way(u, c, o, e, w, s, on, g, X), NEW a \in Seq(Frames(u)), NEW b \in Seq(Frames(u)),
           Join(Frames(u), a, b, s), NEW t, (t = a /\ Gone(b, g.lost)) \/ (t = b /\ Gone(a, g.lost))
    PROVE  Way(u, c, o, e, w, t, on, g, X)
<1>1. /\ Asks(s, u, g.asked) <=> Asks(a, u, g.asked) /\ Asks(b, u, g.asked)
      /\ \A k : Sent(u, s, k) <=> Sent(u, a, k) \/ Sent(u, b, k)
  BY JoinEach
<1>2. \A r : Gone(r, g.lost) => \A k : Sent(u, r, k) => <<u, k>> \in g.lost
  BY DEF Gone, Sent, Item, TextFrames
<1>3. Shaped(u, c, o, e, w, t, X)
  <2>1. Shaped(u, c, o, e, w, s, X)
    BY DEF Way
  <2>2. \A i \in DOMAIN t : \E j \in DOMAIN s : t[i] = s[j]
    BY DEF Join
  <2>3. t \in Seq(Frames(u)) /\ \A i \in DOMAIN t : t[i].kind \notin {"hello", "typing"}
    BY <2>1, <2>2 DEF Shaped
  <2> QED BY <2>1, <2>3, Zenon DEF Shaped
<1>4. u \notin g.reused => Keyed(c.n, o, w, t, e.used \cup X)
  <2> HAVE u \notin g.reused
  <2> DEFINE U == e.used \cup X
  <2>1. Keyed(c.n, o, w, s, U)
    BY DEF Way
  <2> HIDE DEF U
  <2>2. Fine(s, c.n, U) /\ Apart(o, s) /\ Apart(w, s)
    BY <2>1 DEF Keyed
  <2>3. Fine(a, c.n, U) /\ Fine(b, c.n, U)
    BY <2>2, JoinFine, Zenon
  <2>4. Apart(o, a) /\ Apart(o, b)
    BY <2>2, JoinApart
  <2>5. Apart(w, a) /\ Apart(w, b)
    BY <2>2, JoinApart
  <2>6. Keyed(c.n, o, w, t, U)
    BY <2>1, <2>3, <2>4, <2>5 DEF Keyed
  <2> QED BY <2>6 DEF U
<1>5. Booked(u, c, o, e, w, t, g.lost)
  <2>1. Booked(u, c, o, e, w, s, g.lost)
    BY DEF Way
  <2>2. \A k : Sent(u, s, k) => Sent(u, t, k) \/ <<u, k>> \in g.lost
    BY <1>1, <1>2
  <2> QED BY <2>1, <2>2 DEF Booked
<1>6. Asks(t, u, g.asked)
  BY <1>1 DEF Way
<1> QED BY <1>3, <1>4, <1>5, <1>6, Zenon DEF Way

\* The next frame the relay holds is sent.
LEMMA MoveWay ==
    ASSUME NEW u \in Users, NEW c, NEW o, NEW e, NEW w, NEW s, NEW on, NEW g, NEW X,
           Way(u, c, o, e, w, s, on, g, X), NEW f, NEW q, NEW t, Cut1(u, s, f, q, t),
           Other(u) \in on, NEW x, Join(Frames(u), w, q, x)
    PROVE  Way(u, c, o, e, x, t, on, g, X)
<1>1. /\ Calm(u, c) /\ c.n \in Nat /\ e.shows \in BOOLEAN /\ e.used \subseteq Nat /\ X \subseteq Nat
      /\ o \in Seq(Frames(u)) /\ w \in Seq(Frames(u)) /\ s \in Seq(Frames(u))
  BY WayIn, Zenon
<1>2. q = <<f>> /\ f \in Frames(u) /\ Join(Frames(u), q, t, s) /\ t \in Seq(Frames(u))
  BY DEF Cut1
<1>3. Shaped(u, c, o, e, w, s, X)
  BY DEF Way
<1>4. f.kind \notin {"hello", "typing"} /\ \A i \in DOMAIN t : t[i].kind \notin {"hello", "typing"}
  <2>1. 1 \in DOMAIN q /\ q[1] = f
    BY <1>2
  <2>2. (\A i \in DOMAIN q : \E j \in DOMAIN s : q[i] = s[j]) /\ \A i \in DOMAIN t : \E j \in DOMAIN s : t[i] = s[j]
    BY <1>2 DEF Join
  <2> QED BY <1>3, <2>1, <2>2 DEF Shaped
<1>5. /\ NoHello(q)
      /\ \A b \in BOOLEAN : Lit(b, q) => b
  <2>1. ~Lights(f) /\ f.kind # "hello"
    BY <1>4 DEF Lights
  <2> QED BY <1>2, <2>1, OneFrame
<1>6. /\ Asks(s, u, g.asked) <=> Asks(q, u, g.asked) /\ Asks(t, u, g.asked)
      /\ \A k : Sent(u, s, k) <=> Sent(u, q, k) \/ Sent(u, t, k)
  BY <1>2, JoinEach
<1>7. /\ NoHello(x) <=> NoHello(w) /\ NoHello(q)
      /\ Asks(x, u, g.asked) <=> Asks(w, u, g.asked) /\ Asks(q, u, g.asked)
      /\ \A k : Sent(u, x, k) <=> Sent(u, w, k) \/ Sent(u, q, k)
  BY JoinEach
<1>8. Shaped(u, c, o, e, x, t, X)
  <2>1. x \in Seq(Frames(u)) /\ NoHello(x)
    BY <1>3, <1>5, <1>7 DEF Join, Shaped
  <2> QED BY <1>2, <1>3, <1>4, <2>1, Zenon DEF Shaped
<1>9. Linked(u, c, o, x, on)
  BY DEF Way, Linked
<1>10. u \notin g.reused => Keyed(c.n, o, x, t, e.used \cup X)
  <2> HAVE u \notin g.reused
  <2> DEFINE U == e.used \cup X
  <2>1. Keyed(c.n, o, w, s, U)
    BY DEF Way
  <2> HIDE DEF U
  <2>2. Fine(s, c.n, U) /\ Fine(w, c.n, U) /\ Apart(o, s) /\ Apart(o, w) /\ Apart(w, s)
    BY <2>1 DEF Keyed
  <2>3. Fine(q, c.n, U) /\ Fine(t, c.n, U) /\ Apart(q, t)
    BY <1>2, <2>2, JoinFine, Zenon
  <2>4. Apart(o, q) /\ Apart(o, t)
    BY <1>2, <2>2, JoinApart
  <2>5. Apart(w, q) /\ Apart(w, t)
    BY <1>2, <2>2, JoinApart
  <2>6. Fine(x, c.n, U)
    BY <2>2, <2>3, <2>5, JoinFine, Zenon
  <2>7. Apart(o, x)
    BY <2>2, <2>4, JoinApart
  <2>8. Apart(x, t)
    BY <2>3, <2>5, JoinApart
  <2>9. Keyed(c.n, o, x, t, U)
    BY <2>1, <2>3, <2>4, <2>6, <2>7, <2>8 DEF Keyed
  <2> QED BY <2>9 DEF U
<1>11. Booked(u, c, o, e, x, t, g.lost)
  <2>1. Booked(u, c, o, e, w, s, g.lost)
    BY DEF Way
  <2> QED BY <1>6, <1>7, <2>1 DEF Booked
<1>12. Other(u) \notin g.blind => Honest(u, c, o, e, x, on)
  <2> HAVE Other(u) \notin g.blind
  <2>1. Honest(u, c, o, e, w, on)
    BY DEF Way
  <2> DEFINE a == Lit(e.shows, w)
             b == Lit(e.shows, x)
  <2>2. a \in BOOLEAN /\ b \in BOOLEAN
    BY DEF Lit
  <2>3. b <=> Lit(a, q)
    BY <1>1, JoinLit
  <2> HIDE DEF a, b
  <2>4. b => a
    BY <1>5, <2>2, <2>3
  <2>5. Lit(b, o) => Lit(a, o)
    BY <2>2, <2>4, LitMore
  <2>6. Lit(b, o) => c.told = "typing"
    BY <2>1, <2>5 DEF Honest, a
  <2>7. u \notin on => ~b
    BY <2>1, <2>4 DEF Honest, a
  <2> QED BY <2>6, <2>7 DEF Honest, b
<1>13. Asks(x, u, g.asked) /\ Asks(t, u, g.asked)
  BY <1>6, <1>7 DEF Way
<1> QED BY <1>8, <1>9, <1>10, <1>11, <1>12, <1>13, Zenon DEF Way

\* The relay fetches the files z when it holds nothing else.
LEMMA FetchWay ==
    ASSUME NEW u \in Users, NEW c, NEW o, NEW e, NEW w, NEW s, NEW on, NEW g, NEW X,
           Way(u, c, o, e, w, s, on, g, X), s = <<>>, NEW z, Plain(u, z, X)
    PROVE  Way(u, c, o, e, w, z, on, g, X)
<1>1. z \in Seq(Frames(u))
  BY DEF Plain
<1>2. /\ \A r, A : Asks(z, r, A)
      /\ \A m, U : (X \subseteq U /\ \A n \in U : n < m) => Fine(z, m, U)
      /\ \A t, U : (X \subseteq U /\ Unused(t, U)) => Apart(t, z)
  BY PlainFacts
<1>3. Shaped(u, c, o, e, w, z, X)
  <2>1. \A i \in DOMAIN z : z[i].kind \notin {"hello", "typing"}
    BY DEF Plain
  <2> QED BY <1>1, <2>1, Zenon DEF Way, Shaped
<1>4. u \notin g.reused => Keyed(c.n, o, w, z, e.used \cup X)
  <2> HAVE u \notin g.reused
  <2> DEFINE U == e.used \cup X
  <2>1. Keyed(c.n, o, w, s, U)
    BY DEF Way
  <2>2. X \subseteq U
    OBVIOUS
  <2> HIDE DEF U
  <2>3. Unused(o, U) /\ Unused(w, U) /\ \A n \in U : n < c.n
    BY <2>1 DEF Keyed, Fine
  <2>4. Fine(z, c.n, U) /\ Apart(o, z) /\ Apart(w, z)
    BY <1>2, <2>2, <2>3
  <2>5. Keyed(c.n, o, w, z, U)
    BY <2>1, <2>4 DEF Keyed
  <2> QED BY <2>5 DEF U
<1>5. Booked(u, c, o, e, w, z, g.lost)
  <2>1. Booked(u, c, o, e, w, s, g.lost)
    BY DEF Way
  <2>2. \A k : ~Sent(u, s, k)
    BY NoFrame
  <2> QED BY <2>1, <2>2 DEF Booked
<1> QED BY <1>2, <1>3, <1>4, <1>5, Zenon DEF Way

\* The link of the reader ends.
LEMMA CutReaderWay ==
    ASSUME NEW u \in Users, NEW c, NEW o, NEW e, NEW w, NEW s, NEW on, NEW g, NEW X,
           Way(u, c, o, e, w, s, on, g, X), Other(u) \in g.blind,
           Gone(w, g.lost),
           NEW r, r.hist = e.hist, r.used = e.used, r.shows \in BOOLEAN
    PROVE  Way(u, c, o, r, <<>>, s, on \ {Other(u)}, g, X)
<1> DEFINE n == <<>>
<1>1. /\ n \in Seq(Frames(u)) /\ NoHello(n) /\ Asks(n, u, g.asked)
      /\ \A m, U : Fine(n, m, U)
      /\ \A t : Apart(n, t) /\ Apart(t, n)
  <2>1. n \in Seq(Frames(u))
    OBVIOUS
  <2> QED BY <2>1, NoFrame
<1>2. n = <<>>
  OBVIOUS
<1> HIDE DEF n
<1> DEFINE on2 == on \ {Other(u)}
<1>3. u \in on2 <=> u \in on
  BY Others
<1> HIDE DEF on2
<1>4. Shaped(u, c, o, r, n, s, X)
  BY <1>1 DEF Way, Shaped
<1>5. Linked(u, c, o, n, on2)
  BY <1>2, <1>3 DEF Way, Linked
<1>6. u \notin g.reused => Keyed(c.n, o, n, s, r.used \cup X)
  BY <1>1 DEF Way, Keyed
<1>7. Booked(u, c, o, r, n, s, g.lost)
  <2> SUFFICES ASSUME NEW k, Has(c.hist, u, k)
               PROVE  \/ InBox(c, k) \/ Sent(u, o, k) \/ Sent(u, n, k) \/ Sent(u, s, k)
                      \/ Has(r.hist, u, k) \/ <<u, k>> \in g.lost
    BY DEF Booked
  <2>1. \/ InBox(c, k) \/ Sent(u, o, k) \/ Sent(u, w, k) \/ Sent(u, s, k)
        \/ Has(e.hist, u, k) \/ <<u, k>> \in g.lost
    BY Zenon DEF Way, Booked
  <2>2. Sent(u, w, k) => <<u, k>> \in g.lost
    BY DEF Gone, Sent, Item, TextFrames
  <2> QED BY <2>1, <2>2
<1>8. Way(u, c, o, r, n, s, on2, g, X)
  BY <1>1, <1>4, <1>5, <1>6, <1>7, Zenon DEF Way
<1> QED BY <1>8 DEF n, on2

\* The last text F of a client c that d is left of: its number is spent, or used again.
Last(u, c, d, F, g) ==
    \/ F = <<>> /\ d.n = c.n
    \/ \E f \in Frames(u) : /\ F = <<f>> /\ f.kind = "text"
                            /\ u \notin g.reused => f.n = c.n /\ d.n = c.n + 1

LEMMA LastFacts ==
    ASSUME NEW u \in Users, NEW c, c.n \in Nat, NEW d, NEW F, NEW g, Last(u, c, d, F, g)
    PROVE  /\ F \in Seq(Frames(u)) /\ NoHello(F) /\ \A w, A : Asks(F, w, A)
           /\ \A i \in DOMAIN F : F[i].kind \in Stored
           /\ \A b \in BOOLEAN : Lit(b, F) <=> b
           /\ u \notin g.reused =>
                 /\ d.n \in Nat /\ c.n <= d.n
                 /\ \A U : (\A x \in U : x < c.n) => Fine(F, d.n, U)
                 /\ \A t \in Seq(Frames(u)) : Under(t, c.n) => Apart(t, F)
<1>1. CASE F = <<>> /\ d.n = c.n
  <2>1. F \in Seq(Frames(u)) /\ DOMAIN F = {}
    BY <1>1
  <2>2. /\ NoHello(F) /\ \A w, A : Asks(F, w, A)
        /\ \A b \in BOOLEAN : Lit(b, F) <=> b
        /\ \A m, U : Fine(F, m, U)
        /\ \A t : Apart(F, t) /\ Apart(t, F)
    BY <1>1, NoFrame
  <2> QED BY <1>1, <2>1, <2>2
<1>2. CASE F # <<>>
  <2>1. PICK f \in Frames(u) : /\ F = <<f>> /\ f.kind = "text"
                               /\ u \notin g.reused => f.n = c.n /\ d.n = c.n + 1
    BY <1>2 DEF Last
  <2>2. F \in Seq(Frames(u))
    BY <2>1
  <2>7. /\ DOMAIN F = {1} /\ F[1] = f
        /\ \A b \in BOOLEAN : Lit(b, F) <=> Lights(f) \/ (b /\ ~Clears(f))
    <3>1. F = <<f>>
      BY <2>1
    <3> QED BY <3>1, OneFrame
  <2>3. /\ DOMAIN F = {1} /\ F[1] = f
        /\ NoHello(F) /\ \A w, A : Asks(F, w, A)
        /\ \A b \in BOOLEAN : Lit(b, F) <=> Lights(f) \/ (b /\ ~Clears(f))
    BY <2>1, <2>7 DEF NoHello, Asks
  <2>4. \A b \in BOOLEAN : Lit(b, F) <=> b
    BY <2>1, <2>3 DEF Lights, Clears
  <2>5. \A i \in DOMAIN F : F[i].kind \in Stored
    BY <2>1, <2>3 DEF Stored
  <2>6. ASSUME u \notin g.reused
        PROVE  /\ d.n \in Nat /\ c.n <= d.n
               /\ \A U : (\A x \in U : x < c.n) => Fine(F, d.n, U)
               /\ \A t \in Seq(Frames(u)) : Under(t, c.n) => Apart(t, F)
    <3>1. f.n = c.n /\ d.n = c.n + 1
      BY <2>1, <2>6
    <3>2. d.n \in Nat /\ c.n <= d.n /\ c.n < d.n /\ ~(c.n < c.n)
      BY <3>1
    <3>3. ASSUME NEW U, \A x \in U : x < c.n PROVE Fine(F, d.n, U)
      BY <2>3, <3>1, <3>2, <3>3 DEF Fine, Under, Distinct, Unused
    <3>4. ASSUME NEW t \in Seq(Frames(u)), Under(t, c.n) PROVE Apart(t, F)
      BY <2>3, <3>1, <3>2, <3>4 DEF Apart, Clash, Under
    <3> QED BY <3>2, <3>3, <3>4
  <2> QED BY <2>2, <2>3, <2>4, <2>5, <2>6
<1> QED BY <1>1, <1>2 DEF Last

\* The link of the author ends, d is what is left of it.  The relay had taken F; z
\* tells the peer that u is gone.
LEMMA CutAuthorWay ==
    ASSUME NEW u \in Users, NEW c, NEW o, NEW e, NEW w, NEW s, NEW on, NEW g, NEW X,
           Way(u, c, o, e, w, s, on, g, X),
           Gone(o, g.lost),
           NEW d, Sound(u, d), d.tx = <<>>, ~d.up, ~d.hi, d.hist = c.hist, d.box = c.box,
           d.told = "typing" => d.armed,
           NEW F, Last(u, c, d, F, g), u \notin on => F = <<>>,
           NEW z, Plain(u, z, X), u \in on => \E p : z = <<p>> /\ Clears(p),
           NEW x, NEW y
    PROVE  /\ (Other(u) \in on /\ Join(Frames(u), w, F, y) /\ Join(Frames(u), y, z, x)) =>
                  Way(u, d, <<>>, e, x, s, on \ {u}, g, X)
           /\ (Other(u) \notin on /\ Join(Frames(u), s, F, x)) =>
                  Way(u, d, <<>>, e, w, x, on \ {u}, g, X)
<1>1. /\ Calm(u, c) /\ c.n \in Nat /\ e.shows \in BOOLEAN /\ e.used \subseteq Nat /\ X \subseteq Nat
      /\ o \in Seq(Frames(u)) /\ w \in Seq(Frames(u)) /\ s \in Seq(Frames(u))
  BY WayIn, Zenon
<1>2. /\ F \in Seq(Frames(u)) /\ NoHello(F) /\ \A r, A : Asks(F, r, A)
      /\ \A i \in DOMAIN F : F[i].kind \in Stored
      /\ \A b \in BOOLEAN : Lit(b, F) <=> b
      /\ u \notin g.reused =>
            /\ d.n \in Nat /\ c.n <= d.n
            /\ \A U : (\A n \in U : n < c.n) => Fine(F, d.n, U)
            /\ \A t \in Seq(Frames(u)) : Under(t, c.n) => Apart(t, F)
  BY <1>1, LastFacts
<1> DEFINE n == <<>>
           on2 == on \ {u}
           U == e.used \cup X
<1>3. /\ n \in Seq(Frames(u)) /\ NoHello(n) /\ OneHello(n) /\ Asks(n, u, g.asked)
      /\ \A b \in BOOLEAN : Lit(b, n) <=> b
      /\ \A m, V : Fine(n, m, V)
      /\ \A t : Apart(n, t) /\ Apart(t, n)
  <2>1. n \in Seq(Frames(u))
    OBVIOUS
  <2> QED BY <2>1, NoFrame
<1>4. n = <<>>
  OBVIOUS
<1>5. u \notin on2 /\ (Other(u) \in on2 <=> Other(u) \in on) /\ X \subseteq U
  BY Others
<1> HIDE DEF n, on2
<1>6. ~Ready(d)
  BY DEF Ready
<1>7. \A k : Has(d.hist, u, k) =>
         \/ InBox(d, k) \/ Sent(u, w, k) \/ Sent(u, s, k) \/ Has(e.hist, u, k) \/ <<u, k>> \in g.lost
  <2> SUFFICES ASSUME NEW k, Has(d.hist, u, k)
               PROVE  \/ InBox(d, k) \/ Sent(u, w, k) \/ Sent(u, s, k)
                      \/ Has(e.hist, u, k) \/ <<u, k>> \in g.lost
    OBVIOUS
  <2>1. \/ InBox(c, k) \/ Sent(u, o, k) \/ Sent(u, w, k) \/ Sent(u, s, k)
        \/ Has(e.hist, u, k) \/ <<u, k>> \in g.lost
    BY Zenon DEF Way, Booked
  <2>2. Sent(u, o, k) => <<u, k>> \in g.lost
    BY DEF Gone, Sent, Item, TextFrames
  <2>3. InBox(c, k) <=> InBox(d, k)
    BY DEF InBox
  <2> QED BY <2>1, <2>2, <2>3
<1>8. ASSUME NEW t, Other(u) \notin on => t = <<>> PROVE Linked(u, d, n, t, on2)
  BY <1>3, <1>4, <1>5, <1>8 DEF Linked
<1>9. Graves(u, d.hist, g.asked) /\ Asks(w, u, g.asked) /\ Asks(s, u, g.asked)
  BY DEF Way
<1>10. u \notin g.reused =>
          /\ Keyed(d.n, o, w, s, U) /\ Fine(F, d.n, U) /\ Apart(w, F) /\ Apart(s, F) /\ Apart(F, s)
  <2> HAVE u \notin g.reused
  <2>1. Keyed(c.n, o, w, s, U) /\ U \subseteq Nat
    BY <1>1 DEF Way
  <2> HIDE DEF U
  <2>2. U \subseteq U /\ d.n \in Nat /\ c.n <= d.n
    BY <1>2
  <2>3. Keyed(d.n, o, w, s, U)
    BY <1>1, <2>1, <2>2, KeyedMore
  <2>4. Under(w, c.n) /\ Under(s, c.n) /\ \A m \in U : m < c.n
    BY <2>1 DEF Keyed, Fine
  <2>5. Fine(F, d.n, U) /\ Apart(w, F) /\ Apart(s, F)
    BY <1>1, <1>2, <2>4
  <2>6. Apart(F, s)
    BY <2>5, ApartTurned, Zenon
  <2> QED BY <2>3, <2>5, <2>6
<1> HIDE DEF U
<1>11. ASSUME Other(u) \in on, Join(Frames(u), w, F, y), Join(Frames(u), y, z, x)
       PROVE  Way(u, d, n, e, x, s, on2, g, X)
  <2>1. /\ NoHello(z) /\ \A r, A : Asks(z, r, A)
        /\ \A b \in BOOLEAN : Lit(b, z) => b
        /\ \A m, V : (X \subseteq V /\ \A a \in V : a < m) => Fine(z, m, V)
        /\ \A t, V : (X \subseteq V /\ Unused(t, V)) => Apart(t, z)
    BY PlainFacts
  <2>2. /\ NoHello(y) <=> NoHello(w) /\ NoHello(F)
        /\ Asks(y, u, g.asked) <=> Asks(w, u, g.asked) /\ Asks(F, u, g.asked)
        /\ \A k : Sent(u, y, k) <=> Sent(u, w, k) \/ Sent(u, F, k)
    BY <1>11, JoinEach
  <2>3. /\ NoHello(x) <=> NoHello(y) /\ NoHello(z)
        /\ Asks(x, u, g.asked) <=> Asks(y, u, g.asked) /\ Asks(z, u, g.asked)
        /\ \A k : Sent(u, x, k) <=> Sent(u, y, k) \/ Sent(u, z, k)
    BY <1>11, JoinEach
  <2>4. Shaped(u, d, n, e, x, s, X)
    <3>1. Shaped(u, c, o, e, w, s, X)
      BY DEF Way
    <3>2. x \in Seq(Frames(u)) /\ NoHello(x)
      BY <1>2, <1>11, <2>1, <2>2, <2>3, <3>1 DEF Join, Shaped
    <3> QED BY <1>3, <3>1, <3>2, Zenon DEF Shaped
  <2>5. Linked(u, d, n, x, on2)
    BY <1>8, <1>11
  <2>6. u \notin g.reused => Keyed(d.n, n, x, s, U)
    <3> HAVE u \notin g.reused
    <3>1. /\ Fine(w, d.n, U) /\ Fine(s, d.n, U) /\ Apart(w, s) /\ Unused(s, U) /\ \A m \in U : m < d.n
          /\ Fine(F, d.n, U) /\ Apart(w, F) /\ Apart(F, s)
      BY <1>10 DEF Keyed, Fine
    <3>2. Fine(y, d.n, U)
      BY <1>11, <3>1, JoinFine, Zenon
    <3>3. Apart(y, s)
      BY <1>11, <3>1, JoinApart
    <3>4. Unused(y, U)
      BY <3>2 DEF Fine
    <3>5. Fine(z, d.n, U) /\ Apart(y, z) /\ Apart(s, z)
      BY <1>5, <2>1, <3>1, <3>4
    <3>6. Apart(z, s)
      BY <3>5, ApartTurned, Zenon
    <3>7. Fine(x, d.n, U)
      BY <1>11, <3>2, <3>5, JoinFine, Zenon
    <3>8. Apart(x, s)
      BY <1>11, <3>3, <3>6, JoinApart
    <3>9. Fine(n, d.n, U) /\ Apart(n, x) /\ Apart(n, s)
      BY <1>3
    <3> QED BY <3>1, <3>7, <3>8, <3>9 DEF Keyed
  <2>7. Booked(u, d, n, e, x, s, g.lost)
    BY <1>7, <2>2, <2>3 DEF Booked
  <2>8. Other(u) \notin g.blind => Honest(u, d, n, e, x, on2)
    <3> HAVE Other(u) \notin g.blind
    <3> DEFINE a == Lit(e.shows, w)
               b == Lit(e.shows, y)
               h == Lit(e.shows, x)
    <3>1. a \in BOOLEAN /\ b \in BOOLEAN /\ h \in BOOLEAN
      BY DEF Lit
    <3>2. b <=> Lit(a, F)
      BY <1>1, <1>11, JoinLit
    <3>3. h <=> Lit(b, z)
      BY <1>1, <1>11, JoinLit
    <3>4. Honest(u, c, o, e, w, on)
      BY DEF Way
    <3>5. u \notin on => ~a
      BY <3>4 DEF Honest
    <3> HIDE DEF a, b, h
    <3>6. b <=> a
      BY <1>2, <3>1, <3>2
    <3>7. ~h
      <4>1. CASE u \notin on
        BY <2>1, <3>1, <3>3, <3>5, <3>6, <4>1
      <4>2. CASE u \in on
        <5>1. PICK p : z = <<p>> /\ Clears(p)
          BY <4>2
        <5>2. Lit(b, z) <=> Lights(p) \/ (b /\ ~Clears(p))
          BY <3>1, <5>1, OneFrame
        <5>3. ~Lights(p)
          BY <5>1 DEF Lights, Clears
        <5> QED BY <3>3, <5>1, <5>2, <5>3
      <4> QED BY <4>1, <4>2
    <3>8. ~Lit(h, n)
      BY <1>3, <3>1, <3>7
    <3> QED BY <1>5, <1>11, <3>7, <3>8 DEF Honest, h
  <2>9. Asks(x, u, g.asked)
    BY <1>2, <1>9, <2>1, <2>2, <2>3
  <2> QED BY <1>3, <1>6, <1>9, <2>4, <2>5, <2>6, <2>7, <2>8, <2>9, Zenon DEF Way, U
<1>12. ASSUME Other(u) \notin on, Join(Frames(u), s, F, x)
       PROVE  Way(u, d, n, e, w, x, on2, g, X)
  <2>2. /\ Asks(x, u, g.asked) <=> Asks(s, u, g.asked) /\ Asks(F, u, g.asked)
        /\ \A k : Sent(u, x, k) <=> Sent(u, s, k) \/ Sent(u, F, k)
    BY <1>12, JoinEach
  <2>3. w = <<>>
    BY <1>12 DEF Way, Linked
  <2>4. Shaped(u, d, n, e, w, x, X)
    <3>1. Shaped(u, c, o, e, w, s, X)
      BY DEF Way
    <3>2. x \in Seq(Frames(u)) /\ \A i \in DOMAIN x : x[i].kind \notin {"hello", "typing"}
      <4>1. \A i \in DOMAIN s : s[i].kind \notin {"hello", "typing"}
        BY <3>1 DEF Shaped
      <4>2. \A i \in DOMAIN F : F[i].kind \notin {"hello", "typing"}
        BY <1>2 DEF Stored
      <4> QED BY <1>2, <1>12, <4>1, <4>2 DEF Join
    <3> QED BY <1>3, <3>1, <3>2, Zenon DEF Shaped
  <2>5. Linked(u, d, n, w, on2)
    BY <1>8, <2>3
  <2>6. u \notin g.reused => Keyed(d.n, n, w, x, U)
    <3> HAVE u \notin g.reused
    <3>1. /\ Fine(w, d.n, U) /\ Fine(s, d.n, U) /\ Apart(w, s) /\ \A m \in U : m < d.n
          /\ Fine(F, d.n, U) /\ Apart(w, F) /\ Apart(s, F)
      BY <1>10 DEF Keyed
    <3>2. Fine(x, d.n, U)
      BY <1>12, <3>1, JoinFine, Zenon
    <3>3. Apart(w, x)
      BY <1>12, <3>1, JoinApart
    <3>4. Fine(n, d.n, U) /\ Apart(n, w) /\ Apart(n, x)
      BY <1>3
    <3> QED BY <3>1, <3>2, <3>3, <3>4 DEF Keyed
  <2>7. Booked(u, d, n, e, w, x, g.lost)
    BY <1>7, <2>2 DEF Booked
  <2>8. Other(u) \notin g.blind => Honest(u, d, n, e, w, on2)
    <3> HAVE Other(u) \notin g.blind
    <3>1. ~e.shows
      BY <1>12 DEF Way, Honest
    <3> DEFINE a == Lit(e.shows, w)
    <3>2. a \in BOOLEAN
      BY DEF Lit
    <3>3. ~a
      BY <2>3, <3>1 DEF Lit
    <3> HIDE DEF a
    <3>4. ~Lit(a, n)
      BY <1>3, <3>2, <3>3
    <3> QED BY <1>5, <3>1, <3>3, <3>4 DEF Honest, a
  <2>9. Asks(x, u, g.asked)
    BY <1>2, <1>9, <2>2
  <2> QED BY <1>3, <1>6, <1>9, <2>4, <2>5, <2>6, <2>7, <2>8, <2>9, Zenon DEF Way, U
<1> QED BY <1>11, <1>12 DEF n, on2

-----------------------------------------------------------------------------
(* The inductive invariant is kept: the actions of a client.                *)

\* The two ways.
LEMMA Ways ==
    ASSUME NEW u \in Users, NEW v, v = Other(u), Inv
    PROVE  /\ Way(u, client[u], out[u], client[v], wire[v], Kept(login[v], stored[v]), online, ghost, InitNs(files, u))
           /\ Way(v, client[v], out[v], client[u], wire[u], Kept(login[u], stored[u]), online, ghost, InitNs(files, v))
<1>1. WayOf(u) /\ WayOf(v) /\ Other(v) = u
  BY Others DEF Inv
<1> QED BY <1>1 DEF WayOf

\* What is to be shown of a step.
LEMMA WaysKept ==
    ASSUME NEW u \in Users, NEW v, v = Other(u), Held',
           Way(u, client'[u], out'[u], client'[v], wire'[v], Kept(login'[v], stored'[v]), online', ghost', InitNs(files', u)),
           Way(v, client'[v], out'[v], client'[u], wire'[u], Kept(login'[u], stored'[u]), online', ghost', InitNs(files', v))
    PROVE  Inv'
<1>1. \A w \in Users : w = u \/ w = v
  BY Others
<1>2. Other(v) = u
  BY Others
<1>3. WayOf(u)' /\ WayOf(v)'
  BY <1>2 DEF WayOf
<1> QED BY <1>1, <1>3 DEF Inv

\* A method's result takes the place of the client.
LEMMA DoesFacts ==
    ASSUME NEW u \in Users, NEW v, v = Other(u), Held, NEW d, Sound(u, d), Does(u, d),
           out[u] \in Seq(Frames(u))
    PROVE  /\ DOMAIN client' = Users /\ DOMAIN out' = Users
           /\ client'[v] = client[v] /\ out'[v] = out[v]
           /\ Rested(d, client'[u]) /\ Join(Frames(u), out[u], d.tx, out'[u])
<1>1. v \in Users /\ v # u
  BY Others
<1>2. DOMAIN d = Fields /\ d.tx \in Seq(Frames(u))
  <2>1. Typed(u, d)
    BY DEF Sound
  <2> QED BY <2>1 DEF Typed
<1>3. DOMAIN client = Users /\ DOMAIN out = Users
  BY DEF Held
<1>4. client' = [client EXCEPT ![u] = [d EXCEPT !.tx = <<>>]] /\ out' = [out EXCEPT ![u] = @ \o d.tx]
  BY DEF Does
<1>5. client'[u] = [d EXCEPT !.tx = <<>>] /\ out'[u] = out[u] \o d.tx
  BY <1>3, <1>4
<1>6. Rested(d, client'[u])
  BY <1>2, <1>5 DEF Rested, Fields
<1>7. Join(Frames(u), out[u], d.tx, out'[u])
  BY <1>2, <1>5, Joined
<1> QED BY <1>1, <1>3, <1>4, <1>6, <1>7

\* A method of the user.
LEMMA ClientKeeps ==
    ASSUME Inv, NEW u \in Users, NEW d, Does(u, d), Local(u, client[u], d, ghost'.asked),
           UNCHANGED Network, DOMAIN ghost' = GhostFields, Grows(ghost, ghost')
    PROVE  Inv'
<1> DEFINE v == Other(u)
<1>1. v = Other(u) /\ v \in Users /\ Other(v) = u
  BY Others
<1> HIDE DEF v
<1>2. /\ Way(u, client[u], out[u], client[v], wire[v], Kept(login[v], stored[v]), online, ghost, InitNs(files, u))
      /\ Way(v, client[v], out[v], client[u], wire[u], Kept(login[u], stored[u]), online, ghost, InitNs(files, v))
  BY <1>1, Ways, Zenon
<1>3. /\ Way(u, client[u], out[u], client[v], wire[v], Kept(login[v], stored[v]), online, ghost', InitNs(files, u))
      /\ Way(v, client[v], out[v], client[u], wire[u], Kept(login[u], stored[u]), online, ghost', InitNs(files, v))
  BY <1>1, <1>2, WayGrows, Zenon
<1>4. out[u] \in Seq(Frames(u))
  BY <1>2, WayIn, Zenon
<1>5. Sound(u, d) /\ Step(u, client[u], d, ghost'.asked) /\ (Ready(d) => Ready(client[u]))
  BY DEF Local, Step
<1>6. Held
  BY DEF Inv
<1>7. /\ DOMAIN client' = Users /\ DOMAIN out' = Users
      /\ client'[v] = client[v] /\ out'[v] = out[v]
      /\ Rested(d, client'[u]) /\ Join(Frames(u), out[u], d.tx, out'[u])
  BY <1>1, <1>4, <1>5, <1>6, DoesFacts, Zenon
<1>8. wire' = wire /\ stored' = stored /\ login' = login /\ files' = files /\ online' = online
  BY DEF Network
<1>9. Ready(d) => u \in ghost'.opened
  BY <1>3, <1>5 DEF Way
<1>10. Way(u, client'[u], out'[u], client[v], wire[v], Kept(login[v], stored[v]), online, ghost', InitNs(files, u))
  BY <1>3, <1>5, <1>7, <1>9, AuthorWay, Zenon
<1>11. Way(v, client[v], out[v], client'[u], wire[u], Kept(login[u], stored[u]), online, ghost', InitNs(files, v))
  BY <1>1, <1>3, <1>7, ReaderWay, Zenon
<1>12. Held'
  BY <1>6, <1>7, <1>8 DEF Held
<1> QED BY <1>1, <1>7, <1>8, <1>10, <1>11, <1>12, WaysKept

\* A method that concerns no ghost.
LEMMA PlainlyKeeps ==
    ASSUME Inv, NEW u \in Users, NEW d, Does(u, d),
           \A A : Local(u, client[u], d, A), UNCHANGED <<Network, ghost>>
    PROVE  Inv'
<1>1. DOMAIN ghost' = GhostFields /\ Grows(ghost, ghost')
  BY DEF Inv, Held, Grows
<1> QED BY <1>1, ClientKeeps, Zenon

\* What the user does, and what happens at the client without a frame.
LEMMA UserKeeps ==
    ASSUME Inv, NEW u \in Users,
           User(u) \/ SourceVanishes(u) \/ Verify(u) \/ Connect(u) \/ Hello(u)
    PROVE  Inv'
<1> DEFINE c == client[u]
<1>1. Calm(u, c)
  <2>1. /\ Other(u) = Other(u)
        /\ Way(u, client[u], out[u], client[Other(u)], wire[Other(u)], Kept(login[Other(u)], stored[Other(u)]), online, ghost, InitNs(files, u))
    BY Ways
  <2> QED BY <2>1, WayIn, Zenon
<1> HIDE DEF c
<1>2. ASSUME Does(u, sendMessage(c, u)), UNCHANGED <<Network, ghost>> PROVE Inv'
  <2>1. \A A : Local(u, client[u], sendMessage(c, u), A)
    BY <1>1, MessageStep DEF c
  <2> QED BY <1>2, <2>1, PlainlyKeeps
<1>3. ASSUME Does(u, newFile(c, u)), UNCHANGED <<Network, ghost>> PROVE Inv'
  <2>1. \A A : Local(u, client[u], newFile(c, u), A)
    BY <1>1, NewFileStep DEF c
  <2> QED BY <1>3, <2>1, PlainlyKeeps
<1>4. CASE Compose(u)
  BY <1>2, <1>4 DEF Compose, c
<1>5. CASE SendFile(u)
  BY <1>3, <1>5 DEF SendFile, c
<1>6. CASE Type(u)
  <2>1. c.up /\ Does(u, notifyTyping(c)) /\ UNCHANGED <<Network, ghost>>
    BY <1>6 DEF Type, c
  <2>2. \A A : Local(u, client[u], notifyTyping(c), A)
    BY <1>1, <2>1, TypeSteps DEF c
  <2> QED BY <2>1, <2>2, PlainlyKeeps
<1>7. CASE TypingTimer(u)
  <2>1. Does(u, TypingIdle(c)) /\ UNCHANGED <<Network, ghost>>
    BY <1>7 DEF TypingTimer, c
  <2>2. \A A : Local(u, client[u], TypingIdle(c), A)
    BY <1>1, TypeSteps DEF c
  <2> QED BY <2>1, <2>2, PlainlyKeeps
<1>8. CASE Switch(u)
  <2>1. Does(u, setActivePeer(c)) /\ UNCHANGED <<Network, ghost>>
    BY <1>8 DEF Switch, c
  <2>2. \A A : Local(u, client[u], setActivePeer(c), A)
    BY <1>1, AsideSteps DEF c
  <2> QED BY <2>1, <2>2, PlainlyKeeps
<1>9. ASSUME NEW mid \in ScreenMids(u) PROVE OnScreen(c, mid)
  BY DEF ScreenMids, c
<1>10. ASSUME NEW mid, Resend(u, mid) PROVE Inv'
  BY <1>2, <1>3, <1>10 DEF Resend, c
<1>11. ASSUME NEW mid, Edit(u, mid) PROVE Inv'
  <2>1. MayEdit(c, mid) /\ Does(u, editMessage(c, mid)) /\ UNCHANGED <<Network, ghost>>
    BY <1>11 DEF Edit, c
  <2>2. \A A : Local(u, client[u], editMessage(c, mid), A)
    BY <1>1, <2>1, EditStep DEF c
  <2> QED BY <2>1, <2>2, PlainlyKeeps
<1>12. ASSUME NEW mid, ghost' = [ghost EXCEPT !.asked = @ \cup {<<u, mid>>}]
       PROVE  DOMAIN ghost' = GhostFields /\ Grows(ghost, ghost') /\ <<u, mid>> \in ghost'.asked
  BY <1>12 DEF Inv, Held, GhostFields, Grows
<1>13. ASSUME NEW mid, DeleteForMe(u, mid) PROVE Inv'
  <2>1. Does(u, deleteForMe(c, mid)) /\ UNCHANGED Network
    BY <1>13 DEF DeleteForMe, c
  <2>2. DOMAIN ghost' = GhostFields /\ Grows(ghost, ghost') /\ <<u, mid>> \in ghost'.asked
    BY <1>12, <1>13 DEF DeleteForMe
  <2>3. Local(u, client[u], deleteForMe(c, mid), ghost'.asked)
    BY <1>1, <2>2, DeleteStep DEF c
  <2> QED BY <2>1, <2>2, <2>3, ClientKeeps
<1>14. ASSUME NEW mid, DeleteForEveryone(u, mid) PROVE Inv'
  <2>1. Does(u, deleteForEveryone(c, mid)) /\ UNCHANGED Network
    BY <1>14 DEF DeleteForEveryone, c
  <2>2. DOMAIN ghost' = GhostFields /\ Grows(ghost, ghost') /\ <<u, mid>> \in ghost'.asked
    BY <1>12, <1>14 DEF DeleteForEveryone
  <2>3. Local(u, client[u], deleteForEveryone(c, mid), ghost'.asked)
    BY <1>1, <2>2, DeleteStep DEF c
  <2> QED BY <2>1, <2>2, <2>3, ClientKeeps
<1>15. ASSUME NEW mid \in ScreenMids(u), NEW on \in BOOLEAN, React(u, mid, on) PROVE Inv'
  <2>1. Does(u, sendReaction(c, mid, on)) /\ UNCHANGED <<Network, ghost>>
    BY <1>15 DEF React, c
  <2>2. \A A : Local(u, client[u], sendReaction(c, mid, on), A)
    BY <1>1, <1>9, ReactStep DEF c
  <2> QED BY <2>1, <2>2, PlainlyKeeps
<1>16. CASE User(u)
  BY <1>4, <1>5, <1>6, <1>7, <1>8, <1>10, <1>11, <1>13, <1>14, <1>15, <1>16, Zenon DEF User
<1>17. CASE SourceVanishes(u)
  <2>1. Does(u, [c EXCEPT !.gone = TRUE]) /\ UNCHANGED <<Network, ghost>>
    BY <1>17 DEF SourceVanishes, c
  <2>2. \A A : Local(u, client[u], [c EXCEPT !.gone = TRUE], A)
    BY <1>1, AsideSteps DEF c
  <2> QED BY <2>1, <2>2, PlainlyKeeps
<1>18. CASE Verify(u)
  <2>1. Does(u, Verified(c, u)) /\ UNCHANGED <<Network, ghost>>
    BY <1>18 DEF Verify, c
  <2>2. \A A : Local(u, client[u], Verified(c, u), A)
    BY <1>1, VerifiedStep DEF c
  <2> QED BY <2>1, <2>2, PlainlyKeeps
<1>19. CASE Connect(u)
  <2>1. Does(u, [c EXCEPT !.up = TRUE]) /\ UNCHANGED <<Network, ghost>>
    BY <1>19 DEF Connect, c
  <2>2. \A A : Local(u, client[u], [c EXCEPT !.up = TRUE], A)
    BY <1>1, AsideSteps DEF c
  <2> QED BY <2>1, <2>2, PlainlyKeeps
<1>20. CASE Hello(u)
  <2>1. c.up /\ ~c.hi /\ Does(u, completeHello(c, u)) /\ UNCHANGED <<Network, ghost>>
    BY <1>20 DEF Hello, c
  <2>2. \A A : Local(u, client[u], completeHello(c, u), A)
    BY <1>1, <2>1, HelloStep DEF c
  <2> QED BY <2>1, <2>2, PlainlyKeeps
<1> QED BY <1>16, <1>17, <1>18, <1>19, <1>20

\* A client reads the next frame.
LEMMA ReadKeeps ==
    ASSUME Inv, NEW u \in Users, Read(u)
    PROVE  Inv'
<1> DEFINE v == Other(u)
           f == Head(wire[u])
           d == Received(client[u], u, f)
<1>1. v = Other(u) /\ v \in Users /\ Other(v) = u
  BY Others
<1>2. wire[u] # <<>> /\ f = Head(wire[u]) /\ d = Received(client[u], u, f) /\ Does(u, d)
  BY DEF Read
<1>3. /\ wire' = [wire EXCEPT ![u] = Tail(@)]
      /\ ghost' = [ghost EXCEPT !.lost = @ \cup
           IF f.kind \in TextFrames /\ ~Decrypts(client[u], f) /\ v \in ghost.reused
           THEN {Item(f.mid)} ELSE {},
           !.opened = IF f.kind = "init" /\ client[u].gate = "waiting" THEN @ \cup {u} ELSE @]
      /\ stored' = stored /\ login' = login /\ files' = files /\ online' = online
  BY DEF Read
<1> HIDE DEF v, f, d
<1>4. Held
  BY DEF Inv
<1>5. /\ DOMAIN ghost' = GhostFields /\ Grows(ghost, ghost') /\ ghost'.reused = ghost.reused
      /\ ghost'.asked = ghost.asked
      /\ (f.kind \in TextFrames /\ ~Decrypts(client[u], f) /\ v \in ghost.reused) => Item(f.mid) \in ghost'.lost
      /\ (f.kind = "init" /\ client[u].gate = "waiting") => u \in ghost'.opened
  BY <1>3, <1>4 DEF Held, GhostFields, Grows
<1>6. /\ Way(u, client[u], out[u], client[v], wire[v], Kept(login[v], stored[v]), online, ghost, InitNs(files, u))
      /\ Way(v, client[v], out[v], client[u], wire[u], Kept(login[u], stored[u]), online, ghost, InitNs(files, v))
  BY <1>1, Ways, Zenon
<1>7. /\ Way(u, client[u], out[u], client[v], wire[v], Kept(login[v], stored[v]), online, ghost', InitNs(files, u))
      /\ Way(v, client[v], out[v], client[u], wire[u], Kept(login[u], stored[u]), online, ghost', InitNs(files, v))
  BY <1>1, <1>5, <1>6, WayGrows, Zenon
<1>8. out[u] \in Seq(Frames(u)) /\ Calm(u, client[u])
  BY <1>6, WayIn, Zenon
<1>9. wire[u] \in Seq(Frames(v)) /\ NoHello(wire[u]) /\ Asks(wire[u], v, ghost'.asked)
  BY <1>7, Zenon DEF Way, Shaped
<1>10. f \in Frames(v) /\ f.kind # "hello" /\ (f.kind = "delete" => <<v, f.mid>> \in ghost'.asked)
  <2>1. 1 \in DOMAIN wire[u] /\ wire[u][1] = f
    BY <1>2, <1>9
  <2> QED BY <1>9, <2>1 DEF NoHello, Asks
<1>11. Reads(u, client[u], d, f, ghost'.asked)
  BY <1>1, <1>2, <1>8, <1>10, ReceivedReads
<1>12. /\ Step(u, client[u], d, ghost'.asked) /\ Sound(u, d)
       /\ Ready(d) => Ready(client[u]) \/ (f.kind = "init" /\ client[u].gate = "waiting")
  BY <1>11 DEF Reads, Step
<1>13. Ready(d) => u \in ghost'.opened
  <2>1. Ready(client[u]) => u \in ghost'.opened
    BY <1>7 DEF Way
  <2> QED BY <1>5, <1>12, <2>1
<1>14. /\ DOMAIN client' = Users /\ DOMAIN out' = Users
       /\ client'[v] = client[v] /\ out'[v] = out[v]
       /\ Rested(d, client'[u]) /\ Join(Frames(u), out[u], d.tx, out'[u])
  BY <1>1, <1>2, <1>4, <1>8, <1>12, DoesFacts, Zenon
<1>15. DOMAIN wire' = Users /\ wire'[u] = Tail(wire[u]) /\ wire'[v] = wire[v]
  BY <1>1, <1>3, <1>4, Others DEF Held
<1>16. Way(u, client'[u], out'[u], client[v], wire[v], Kept(login[v], stored[v]), online, ghost', InitNs(files, u))
  BY <1>7, <1>12, <1>13, <1>14, AuthorWay, Zenon
<1>17. Way(v, client[v], out[v], client'[u], wire'[u], Kept(login[u], stored[u]), online, ghost', InitNs(files, v))
  <2>1. Missed(v, client[u], f, ghost')
    BY <1>5 DEF Missed
  <2>2. Reads(Other(v), client[u], d, f, ghost'.asked)
    BY <1>1, <1>11
  <2> QED BY <1>1, <1>2, <1>7, <1>14, <1>15, <2>1, <2>2, ReadWay, Zenon
<1>18. Held'
  BY <1>3, <1>4, <1>5, <1>14, <1>15 DEF Held
<1> QED BY <1>1, <1>3, <1>14, <1>15, <1>16, <1>17, <1>18, WaysKept

-----------------------------------------------------------------------------
(* The relay: its file tables and what it replays.                          *)

\* What a file frame makes of the tables.
LEMMA StoreFacts ==
    ASSUME NEW F, IsFiniteSet(F), \A f \in F : FileRow(f), NEW u \in Users, NEW fr \in Frames(u),
           fr.kind \in FileFrames
    PROVE  LET G == StoreFile(F, fr) IN
           /\ IsFiniteSet(G) /\ \A f \in G : FileRow(f)
           /\ InitNs(G, u) \subseteq InitNs(F, u) \cup (IF fr.kind = "init" THEN {fr.n} ELSE {})
           /\ \A v : v # u => InitNs(G, v) \subseteq InitNs(F, v)
<1> DEFINE G == StoreFile(F, fr)
           M == Meta(F, fr.mid)
           a == [init |-> fr, chunks |-> {}, done |-> FALSE]
           B == {[f EXCEPT !.chunks = @ \cup {fr.body}] : f \in M}
           C == {[f EXCEPT !.done = TRUE] : f \in M}
<1>1. M \subseteq F
  BY DEF Meta
<1>2. /\ fr.kind = "init" => G = (F \ M) \cup {a}
      /\ fr.kind = "chunk" => G = (F \ M) \cup B
      /\ fr.kind = "end" => G = (F \ M) \cup C
  BY DEF StoreFile, save_file_init, save_file_chunk, mark_file_complete
<1>3. fr.kind = "init" => FileRow(a) /\ a.init = fr /\ fr.mid[1] = u
  BY DEF FileRow, Frames, Authored
<1>4. ASSUME NEW f \in M
      PROVE  /\ FileRow([f EXCEPT !.chunks = @ \cup {fr.body}])
             /\ [f EXCEPT !.chunks = @ \cup {fr.body}].init = f.init
             /\ FileRow([f EXCEPT !.done = TRUE]) /\ [f EXCEPT !.done = TRUE].init = f.init
  <2>1. FileRow(f)
    BY <1>1
  <2>2. DOMAIN f = {"init", "chunks", "done"}
    BY <2>1 DEF FileRow
  <2> DEFINE x == [f EXCEPT !.chunks = @ \cup {fr.body}]
             y == [f EXCEPT !.done = TRUE]
  <2>3. DOMAIN x = {"init", "chunks", "done"} /\ x.init = f.init
    BY <2>2
  <2>4. DOMAIN y = {"init", "chunks", "done"} /\ y.init = f.init
    BY <2>2
  <2> HIDE DEF x, y
  <2>5. FileRow(x) /\ FileRow(y)
    BY <2>1, <2>3, <2>4 DEF FileRow
  <2> QED BY <2>3, <2>4, <2>5 DEF x, y
<1>5. \A f \in B : FileRow(f) /\ \E h \in F : h.init = f.init
  <2> SUFFICES ASSUME NEW f \in B PROVE FileRow(f) /\ \E h \in F : h.init = f.init
    OBVIOUS
  <2>1. PICK h \in M : f = [h EXCEPT !.chunks = @ \cup {fr.body}]
    OBVIOUS
  <2>2. FileRow(f) /\ f.init = h.init
    BY <1>4, <2>1
  <2> QED BY <1>1, <2>2
<1>6. \A f \in C : FileRow(f) /\ \E h \in F : h.init = f.init
  <2> SUFFICES ASSUME NEW f \in C PROVE FileRow(f) /\ \E h \in F : h.init = f.init
    OBVIOUS
  <2>1. PICK h \in M : f = [h EXCEPT !.done = TRUE]
    OBVIOUS
  <2>2. FileRow(f) /\ f.init = h.init
    BY <1>4, <2>1
  <2> QED BY <1>1, <2>2
<1>7. IsFiniteSet(M) /\ IsFiniteSet(F \ M)
  BY <1>1, FS_Subset
<1>8. IsFiniteSet(B)
  <2> DEFINE k == [f \in M |-> [f EXCEPT !.chunks = @ \cup {fr.body}]]
  <2>1. k \in Surjection(M, B)
    BY DEF Surjection
  <2> QED BY <1>7, <2>1, FS_Surjection
<1>9. IsFiniteSet(C)
  <2> DEFINE k == [f \in M |-> [f EXCEPT !.done = TRUE]]
  <2>1. k \in Surjection(M, C)
    BY DEF Surjection
  <2> QED BY <1>7, <2>1, FS_Surjection
<1> HIDE DEF a, B, C, M, G
<1>10. IsFiniteSet(G)
  <2>1. IsFiniteSet((F \ M) \cup {a})
    BY <1>7, FS_AddElement
  <2>2. IsFiniteSet((F \ M) \cup B)
    BY <1>7, <1>8, FS_Union
  <2>3. IsFiniteSet((F \ M) \cup C)
    BY <1>7, <1>9, FS_Union
  <2> QED BY <1>2, <2>1, <2>2, <2>3 DEF FileFrames
<1>11. \A f \in G : FileRow(f) /\ ((\E h \in F : h.init = f.init) \/ (fr.kind = "init" /\ f.init = fr))
  <2>1. CASE fr.kind = "init"
    BY <1>2, <1>3, <2>1
  <2>2. CASE fr.kind = "chunk"
    BY <1>2, <1>5, <2>2
  <2>3. CASE fr.kind = "end"
    BY <1>2, <1>6, <2>3
  <2> QED BY <2>1, <2>2, <2>3 DEF FileFrames
<1>12. InitNs(G, u) \subseteq InitNs(F, u) \cup (IF fr.kind = "init" THEN {fr.n} ELSE {})
  BY <1>11 DEF InitNs
<1>13. ASSUME NEW v, v # u PROVE InitNs(G, v) \subseteq InitNs(F, v)
  <2>1. fr.kind = "init" => fr.mid[1] = u
    BY <1>3
  <2> QED BY <1>11, <1>13, <2>1 DEF InitNs
<1> QED BY <1>10, <1>11, <1>12, <1>13 DEF G

\* One frame, and one row behind the other.
LEMMA PlainOne ==
    ASSUME NEW u, NEW X, NEW f \in Frames(u), f.kind \in {"keys", "presence", "init", "chunk", "end"},
           f.kind = "init" => f.n \in X
    PROVE  Plain(u, <<f>>, X)
<1>1. <<f>> \in Seq(Frames(u)) /\ DOMAIN <<f>> = {1} /\ <<f>>[1] = f
  OBVIOUS
<1> QED BY <1>1 DEF Plain
LEMMA PlainNone ==
    ASSUME NEW u, NEW X
    PROVE  Plain(u, <<>>, X)
<1>1. <<>> \in Seq(Frames(u)) /\ DOMAIN <<>> = {}
  OBVIOUS
<1> QED BY <1>1 DEF Plain
LEMMA PlainJoin ==
    ASSUME NEW u, NEW X, NEW q, Plain(u, q, X), NEW r, Plain(u, r, X)
    PROVE  Plain(u, q \o r, X)
<1> DEFINE p == q \o r
<1>1. q \in Seq(Frames(u)) /\ r \in Seq(Frames(u))
  BY DEF Plain
<1>2. Join(Frames(u), q, r, p)
  BY <1>1, Joined
<1> HIDE DEF p
<1>3. Plain(u, p, X)
  BY <1>2 DEF Plain, Join
<1> QED BY <1>3 DEF p
LEMMA PlainPlus ==
    ASSUME NEW u, NEW X, NEW q, Plain(u, q, X), NEW f \in Frames(u), f.kind = "chunk"
    PROVE  Plain(u, Append(q, f), X)
<1> DEFINE p == Append(q, f)
<1>1. q \in Seq(Frames(u)) /\ Plus(q, f, p)
  BY DEF Plain, Plus
<1> HIDE DEF p
<1>2. /\ p \in Seq(Frames(u))
      /\ \A i \in DOMAIN q : i \in DOMAIN p /\ p[i] = q[i]
      /\ \A i \in DOMAIN p : i \in DOMAIN q \/ (i = Len(q) + 1 /\ p[i] = f)
  BY <1>1, Appended
<1>3. Plain(u, p, X)
  BY <1>2 DEF Plain
<1> QED BY <1>3 DEF p

\* The chunks of a replayed file.
Chunked(g, f, n) ==
    g = [k \in 0 .. n |->
            IF k = 0 THEN <<>>
            ELSE IF k - 1 \in f.chunks
                 THEN Append(g[k - 1], Frame("chunk", f.init.mid, k - 1, 0, k = Chunks))
                 ELSE g[k - 1]]

LEMMA ChunkedExists ==
    ASSUME NEW f, NEW n \in Nat
    PROVE  \E g : Chunked(g, f, n)
<1> DEFINE S(x, k) == IF k - 1 \in f.chunks
                      THEN Append(x, Frame("chunk", f.init.mid, k - 1, 0, k = Chunks)) ELSE x
           T == {j \in Nat : ~ \E g : Chunked(g, f, j)}
<1>0. \A g, m : Chunked(g, f, m) <=> g = [k \in 0 .. m |-> IF k = 0 THEN <<>> ELSE S(g[k - 1], k)]
  BY DEF Chunked
<1>1. SUFFICES ASSUME T # {} PROVE FALSE
  BY <1>1
<1>2. PICK m \in T : \A k \in T : m <= k
  BY <1>1, Least
<1> HIDE DEF S
<1>3. CASE m = 0
  <2> DEFINE g == [k \in 0..0 |-> <<>>]
  <2>1. g = [k \in 0..0 |-> IF k = 0 THEN <<>> ELSE S(g[k - 1], k)]
    OBVIOUS
  <2>2. Chunked(g, f, 0)
    BY <1>0, <2>1
  <2> QED BY <1>3, <2>2
<1>4. CASE m # 0
  <2>1. m - 1 \in Nat
    BY <1>4
  <2>2. m - 1 \notin T
    <3> HIDE DEF T
    <3>1. m \in Nat
      BY DEF T
    <3> QED BY <1>2, <3>1
  <2>3. PICK g : Chunked(g, f, m - 1)
    BY <2>1, <2>2
  <2>4. g = [k \in 0..m - 1 |-> IF k = 0 THEN <<>> ELSE S(g[k - 1], k)]
    BY <1>0, <2>3
  <2> DEFINE h == [k \in 0..m |-> IF k = m THEN S(g[m - 1], m) ELSE g[k]]
  <2>5. \A k \in 0..m : h[k] = IF k = 0 THEN <<>> ELSE S(h[k - 1], k)
    BY <1>4, <2>1, <2>4
  <2>6. h = [k \in 0..m |-> IF k = 0 THEN <<>> ELSE S(h[k - 1], k)]
    BY <2>5
  <2>7. Chunked(h, f, m)
    BY <1>0, <2>6
  <2> QED BY <2>7
<1> QED BY <1>3, <1>4

\* A replayed file is made of frames of its owner, under the number it came with.
LEMMA ReplayPlain ==
    ASSUME NEW u \in Users, NEW X, NEW f, FileRow(f), f.init \in Frames(u), f.init.n \in X
    PROVE  Plain(u, Replay(f), X)
<1> DEFINE g == CHOOSE h : h = [k \in 0 .. Chunks |->
                   IF k = 0 THEN <<>>
                   ELSE IF k - 1 \in f.chunks
                        THEN Append(h[k - 1], Frame("chunk", f.init.mid, k - 1, 0, k = Chunks))
                        ELSE h[k - 1]]
           i == [f.init EXCEPT !.on = TRUE]
           e == Frame("end", f.init.mid, 0, 0, FALSE)
<1>1. Replay(f) = <<i>> \o g[Chunks] \o <<e>>
  BY DEF Replay
<1>2. Chunks \in Nat
  BY ChunksAssumption
<1>3. Chunked(g, f, Chunks)
  <2>1. \E h : Chunked(h, f, Chunks)
    BY <1>2, ChunkedExists
  <2>2. g = CHOOSE h : Chunked(h, f, Chunks)
    BY DEF Chunked
  <2> HIDE DEF g
  <2> QED BY <2>1, <2>2
<1> HIDE DEF g
<1>4. f.init.kind = "init" /\ f.init.mid \in MidSet /\ f.init.mid[1] = u
  BY DEF FileRow, Frames, Authored
<1>5. i \in Frames(u) /\ i.kind = "init" /\ i.n \in X
  BY <1>4 DEF Frames
<1>6. e \in Frames(u) /\ e.kind = "end"
  BY <1>4 DEF Frame, Frames, Kinds, Authored
<1>7. ASSUME NEW k \in Nat, k # 0
      PROVE  LET x == Frame("chunk", f.init.mid, k - 1, 0, k = Chunks) IN x \in Frames(u) /\ x.kind = "chunk"
  BY <1>4, <1>7 DEF Frame, Frames, Kinds, Authored
<1>8. \A k \in 0 .. Chunks : Plain(u, g[k], X)
  <2> DEFINE T == {k \in 0 .. Chunks : ~Plain(u, g[k], X)}
  <2> SUFFICES ASSUME T # {} PROVE FALSE
    OBVIOUS
  <2>1. T \subseteq Nat
    BY <1>2
  <2>2. PICK m \in T : \A k \in T : m <= k
    BY <2>1, Least
  <2>3. m \in 0 .. Chunks /\ ~Plain(u, g[m], X)
    OBVIOUS
  <2>4. \A k \in 0 .. Chunks : k < m => Plain(u, g[k], X)
    BY <1>2, <2>2
  <2> HIDE DEF T
  <2>5. g[0] = <<>>
    BY <1>2, <1>3 DEF Chunked
  <2>6. m # 0
    BY <2>3, <2>5, PlainNone
  <2>7. m \in Nat /\ m - 1 \in 0 .. Chunks /\ m - 1 < m
    BY <1>2, <2>3, <2>6
  <2>8. Plain(u, g[m - 1], X)
    BY <2>4, <2>7
  <2> DEFINE x == Frame("chunk", f.init.mid, m - 1, 0, m = Chunks)
  <2>9. x \in Frames(u) /\ x.kind = "chunk"
    BY <1>7, <2>6, <2>7
  <2>10. g[m] = IF m - 1 \in f.chunks THEN Append(g[m - 1], x) ELSE g[m - 1]
    BY <1>3, <2>3, <2>6 DEF Chunked
  <2> HIDE DEF x
  <2>11. Plain(u, Append(g[m - 1], x), X)
    BY <2>8, <2>9, PlainPlus
  <2> QED BY <2>3, <2>8, <2>10, <2>11
<1> HIDE DEF i, e
<1>9. Plain(u, g[Chunks], X)
  BY <1>2, <1>8
<1>10. Plain(u, <<i>>, X)
  BY <1>5, PlainOne
<1>11. Plain(u, <<e>>, X)
  BY <1>6, PlainOne
<1>12. Plain(u, <<i>> \o g[Chunks], X)
  BY <1>9, <1>10, PlainJoin
<1>13. Plain(u, (<<i>> \o g[Chunks]) \o <<e>>, X)
  BY <1>11, <1>12, PlainJoin
<1> QED BY <1>1, <1>13

\* One file after the other.
Replayed(g, rows, n) ==
    g = [k \in 0 .. n |-> IF k = 0 THEN <<>> ELSE g[k - 1] \o Replay(rows[k])]

LEMMA ReplayedExists ==
    ASSUME NEW rows, NEW n \in Nat
    PROVE  \E g : Replayed(g, rows, n)
<1> DEFINE T == {j \in Nat : ~ \E g : Replayed(g, rows, j)}
<1>1. SUFFICES ASSUME T # {} PROVE FALSE
  BY <1>1
<1>2. PICK m \in T : \A k \in T : m <= k
  BY <1>1, Least
<1>3. CASE m = 0
  <2> DEFINE g == [k \in 0..0 |-> <<>>]
  <2>1. Replayed(g, rows, 0)
    BY DEF Replayed
  <2> QED BY <1>3, <2>1
<1>4. CASE m # 0
  <2>1. m - 1 \in Nat
    BY <1>4
  <2>2. m - 1 \notin T
    <3> HIDE DEF T
    <3>1. m \in Nat
      BY DEF T
    <3> QED BY <1>2, <3>1
  <2>3. PICK g : Replayed(g, rows, m - 1)
    BY <2>1, <2>2
  <2> DEFINE h == [k \in 0..m |-> IF k = m THEN g[m - 1] \o Replay(rows[m]) ELSE g[k]]
  <2>4. \A k \in 0..m : h[k] = IF k = 0 THEN <<>> ELSE h[k - 1] \o Replay(rows[k])
    BY <1>4, <2>1, <2>3 DEF Replayed
  <2>5. Replayed(h, rows, m)
    BY <2>4 DEF Replayed
  <2> QED BY <2>5
<1> QED BY <1>3, <1>4

\* All files the relay has for u are of its peer.
LEMMA ReplayAllPlain ==
    ASSUME NEW u \in Users, NEW v, v = Other(u), NEW F, IsFiniteSet(F), \A f \in F : FileRow(f),
           NEW have, NEW rows \in ByTime(pending_files_for(F, u, have))
    PROVE  Plain(v, ReplayAll(rows), InitNs(F, v))
<1> DEFINE P == pending_files_for(F, u, have)
           N == Cardinality(P)
           X == InitNs(F, v)
           n == Len(rows)
           g == CHOOSE h : h = [k \in 0 .. n |-> IF k = 0 THEN <<>> ELSE h[k - 1] \o Replay(rows[k])]
<1>1. P \subseteq F /\ \A f \in P : f.init.mid[1] # u
  BY DEF pending_files_for
<1>2. IsFiniteSet(P)
  BY <1>1, FS_Subset
<1>3. N \in Nat
  BY <1>2, FS_CardinalityType
<1>4. rows \in [1 .. N -> P]
  BY DEF ByTime
<1>5. ReplayAll(rows) = g[n]
  BY DEF ReplayAll
<1> HIDE DEF P, N
<1>6. n \in Nat /\ \A k \in 1 .. n : rows[k] \in P
  <2>1. rows \in Seq(P)
    BY <1>3, <1>4
  <2> QED BY <2>1
<1>7. Replayed(g, rows, n)
  <2>1. \E h : Replayed(h, rows, n)
    BY <1>6, ReplayedExists
  <2>2. g = CHOOSE h : Replayed(h, rows, n)
    BY DEF Replayed
  <2> HIDE DEF g
  <2> QED BY <2>1, <2>2
<1> HIDE DEF g, n
<1>8. v \in Users /\ \A w \in Users : w = u \/ w = v
  BY Others
<1>9. ASSUME NEW f \in P PROVE Plain(v, Replay(f), X)
  <2>1. f \in F /\ FileRow(f) /\ f.init.mid[1] # u
    BY <1>1, <1>9
  <2>2. PICK w \in Users : f.init \in Frames(w)
    BY <2>1 DEF FileRow
  <2>3. f.init.kind = "init" /\ f.init.mid[1] = w
    BY <2>1, <2>2 DEF FileRow, Frames, Authored
  <2>4. w = v
    BY <1>8, <2>1, <2>3
  <2>5. f.init.n \in X
    BY <2>1, <2>3, <2>4 DEF InitNs
  <2> HIDE DEF X
  <2> QED BY <1>8, <2>1, <2>2, <2>4, <2>5, ReplayPlain
<1> HIDE DEF X
<1>10. \A k \in 0 .. n : Plain(v, g[k], X)
  <2> DEFINE T == {k \in 0 .. n : ~Plain(v, g[k], X)}
  <2> SUFFICES ASSUME T # {} PROVE FALSE
    OBVIOUS
  <2>1. T \subseteq Nat
    BY <1>6
  <2>2. PICK m \in T : \A k \in T : m <= k
    BY <2>1, Least
  <2>3. m \in 0 .. n /\ ~Plain(v, g[m], X)
    OBVIOUS
  <2>4. \A k \in 0 .. n : k < m => Plain(v, g[k], X)
    BY <1>6, <2>2
  <2> HIDE DEF T
  <2>5. g[0] = <<>>
    BY <1>6, <1>7 DEF Replayed
  <2>6. m # 0
    BY <2>3, <2>5, PlainNone
  <2>7. m \in 1 .. n /\ m - 1 \in 0 .. n /\ m - 1 < m
    BY <1>6, <2>3, <2>6
  <2>8. Plain(v, g[m - 1], X) /\ Plain(v, Replay(rows[m]), X)
    BY <1>6, <1>9, <2>4, <2>7
  <2>9. g[m] = g[m - 1] \o Replay(rows[m])
    BY <1>7, <2>3, <2>6 DEF Replayed
  <2> QED BY <2>3, <2>8, <2>9, PlainJoin
<1> QED BY <1>5, <1>6, <1>10 DEF X

\* The relay takes a frame of u.
LEMMA TakesFacts ==
    ASSUME Inv, NEW u \in Users, NEW v, v = Other(u), out[u] # <<>>, NEW f, f = Head(out[u]),
           out' = [out EXCEPT ![u] = Tail(@)]
    PROVE  /\ DOMAIN out' = Users /\ out'[v] = out[v]
           /\ Cut1(u, out[u], f, <<f>>, out'[u])
<1>1. v \in Users /\ v # u
  BY Others
<1>2. DOMAIN out = Users
  BY DEF Inv, Held
<1>3. out'[v] = out[v] /\ out'[u] = Tail(out[u]) /\ DOMAIN out' = Users
  BY <1>1, <1>2
<1>4. Way(u, client[u], out[u], client[v], wire[v], Kept(login[v], stored[v]), online, ghost, InitNs(files, u))
  BY Ways, Zenon
<1>5. out[u] \in Seq(Frames(u))
  BY <1>4, WayIn, Zenon
<1> QED BY <1>3, <1>5, TakeOne

\* The items of the texts in a row of frames.
LEMMA TextItemIn ==
    ASSUME NEW s, NEW i \in DOMAIN s, s[i].kind \in TextFrames
    PROVE  Item(s[i].mid) \in TextItems(s)
BY DEF TextItems, Elements

\* The rows stored for v are passed over: their texts are lost.
LEMMA TextsGone ==
    ASSUME NEW s, NEW L, TextItems(s) \subseteq L
    PROVE  Gone(s, L)
BY TextItemIn DEF Gone

\* What the relay holds when no row is stored, or nothing is fetched.
LEMMA KeptRows ==
    ASSUME NEW S, NEW b \in Seq(S)
    PROVE  b \o <<>> = b /\ <<>> \o b = b
OBVIOUS

\* What it holds when a row is stored behind what is fetched and stored.
Assoc(b, s, t) == b \o (s \o t) = (b \o s) \o t
LEMMA KeptJoin ==
    ASSUME NEW S, NEW b \in Seq(S), NEW s \in Seq(S), NEW t \in Seq(S)
    PROVE  Assoc(b, s, t)
<1> DEFINE x == b \o (s \o t)
           y == (b \o s) \o t
<1>2. /\ x \in Seq(S) /\ y \in Seq(S) /\ Len(x) = Len(b) + Len(s) + Len(t)
      /\ Len(y) = Len(b) + Len(s) + Len(t)
  OBVIOUS
<1>3. \A i \in 1 .. Len(x) : x[i] = y[i]
  OBVIOUS
<1>4. x = y
  <2> HIDE DEF x, y
  <2> QED BY <1>2, <1>3
<1> QED BY <1>4 DEF Assoc

\* A frame before hello.
LEMMA RefuseKeeps ==
    ASSUME Inv, NEW u \in Users, NEW f, NEW v, v = Other(u), u \notin online,
           Cut1(u, out[u], f, <<f>>, out'[u]), DOMAIN out' = Users, out'[v] = out[v],
           ghost' = [ghost EXCEPT !.lost = @ \cup TextItems(<<f>>)],
           UNCHANGED <<client, wire, stored, login, files, online>>
    PROVE  Inv'
<1>1. DOMAIN ghost = GhostFields /\ Held /\ v \in Users
  BY Others DEF Inv, Held
<1>2. /\ DOMAIN ghost' = GhostFields /\ Grows(ghost, ghost')
      /\ f.kind = "text" => Item(f.mid) \in ghost'.lost
  <2>1. 1 \in DOMAIN <<f>> /\ <<f>>[1] = f
    OBVIOUS
  <2>2. f.kind = "text" => Item(f.mid) \in TextItems(<<f>>)
    BY <2>1, TextItemIn, Zenon DEF TextFrames
  <2> QED BY <1>1, <2>2 DEF GhostFields, Grows
<1>3. /\ Way(u, client[u], out[u], client[v], wire[v], Kept(login[v], stored[v]), online, ghost, InitNs(files, u))
      /\ Way(v, client[v], out[v], client[u], wire[u], Kept(login[u], stored[u]), online, ghost, InitNs(files, v))
  BY Ways, Zenon
<1>4. /\ Way(u, client[u], out[u], client[v], wire[v], Kept(login[v], stored[v]), online, ghost', InitNs(files, u))
      /\ Way(v, client[v], out[v], client[u], wire[u], Kept(login[u], stored[u]), online, ghost', InitNs(files, v))
  BY <1>1, <1>2, <1>3, WayGrows, Zenon
<1>5. Way(u, client[u], out'[u], client[v], wire[v], Kept(login[v], stored[v]), online, ghost', InitNs(files, u))
  BY <1>2, <1>4, TakeWay
<1>6. Held'
  BY <1>1, <1>2 DEF Held
<1> QED BY <1>4, <1>5, <1>6, WaysKept

\* A frame for the other user.
LEMMA ForwardKeeps ==
    ASSUME Inv, NEW u \in Users, NEW f, NEW v, v = Other(u), u \in online, f.kind # "hello",
           Cut1(u, out[u], f, <<f>>, out'[u]), DOMAIN out' = Users, out'[v] = out[v],
           Forward(u, f), files' = IF f.kind \in FileFrames THEN StoreFile(files, f) ELSE files,
           Grows(ghost, ghost'), DOMAIN ghost' = GhostFields,
           (v \in online /\ f.kind \in Stored) => TextItems(stored[v]) \subseteq ghost'.lost,
           UNCHANGED <<client, login, online>>
    PROVE  Inv'
<1>1. Held /\ v \in Users /\ v # u /\ Other(v) = u
  BY Others DEF Inv
<1>2. f \in Frames(u)
  BY DEF Cut1
<1>3. /\ IsFiniteSet(files') /\ \A x \in files' : FileRow(x)
      /\ InitNs(files', u) \subseteq InitNs(files, u) \cup (IF f.kind = "init" THEN {f.n} ELSE {})
      /\ InitNs(files', v) \subseteq InitNs(files, v)
  <2>1. IsFiniteSet(files) /\ \A x \in files : FileRow(x)
    BY <1>1 DEF Held
  <2>2. CASE f.kind \in FileFrames
    BY <1>1, <1>2, <2>1, <2>2, StoreFacts
  <2>3. CASE f.kind \notin FileFrames
    BY <2>1, <2>3
  <2> QED BY <2>2, <2>3
<1> DEFINE r == Kept(login[v], stored[v])
           r2 == Kept(login[v], stored'[v])
           p == Kept(login[u], stored[u])
<1>4. /\ Way(u, client[u], out[u], client[v], wire[v], r, online, ghost, InitNs(files, u))
      /\ Way(v, client[v], out[v], client[u], wire[u], p, online, ghost, InitNs(files, v))
  BY Ways, Zenon
<1> HIDE DEF p
<1>5. /\ Way(u, client[u], out[u], client[v], wire[v], r, online, ghost', InitNs(files, u))
      /\ Way(v, client[v], out[v], client[u], wire[u], p, online, ghost', InitNs(files, v))
  BY <1>1, <1>4, WayGrows, Zenon
<1>6. Way(v, client[v], out[v], client[u], wire[u], p, online, ghost', InitNs(files', v))
  BY <1>1, <1>3, <1>5, ShrinkWay
<1>7. Way(u, client[u], out[u], client[v], wire[v], r, online, ghost', InitNs(files', u))
  BY <1>3, <1>5, FileWay
<1>8. /\ DOMAIN wire = Users /\ DOMAIN stored = Users
      /\ Waiting(u, login[u], stored[u]) /\ Waiting(v, login[v], stored[v])
  BY <1>1 DEF Held
<1>9. /\ DOMAIN wire' = Users /\ DOMAIN stored' = Users
      /\ wire'[u] = wire[u] /\ stored'[u] = stored[u]
      /\ wire'[v] = IF v \in online THEN Append(wire[v], f) ELSE wire[v]
      /\ stored'[v] = IF f.kind \notin Stored THEN stored[v]
                      ELSE IF v \in online THEN <<>> ELSE Append(stored[v], f)
  BY <1>1, <1>8 DEF Forward
<1>10. ASSUME NEW q, q \in Seq(Frames(u)) PROVE Join(Frames(u), q, <<f>>, Append(q, f))
  <2>1. <<f>> \in Seq(Frames(u)) /\ Append(q, f) = q \o <<f>>
    BY <1>2, <1>10
  <2> QED BY <1>10, <2>1, Joined
<1>11. /\ wire[v] \in Seq(Frames(u)) /\ stored[v] \in Seq(Frames(u))
       /\ login[v].batch \in Seq(Frames(u)) /\ r \in Seq(Frames(u))
  <2>1. stored[v] \in Seq(Frames(u)) /\ login[v].batch \in Seq(Frames(u))
    BY <1>1, <1>8 DEF Waiting
  <2>2. wire[v] \in Seq(Frames(u)) /\ r \in Seq(Frames(u))
    BY <1>4, WayIn, Zenon
  <2> QED BY <2>1, <2>2
<1>12. Way(u, client[u], out'[u], client[v], wire'[v], r2, online, ghost', InitNs(files', u))
  <2>1. CASE v \in online
    <3>1. Join(Frames(u), wire[v], <<f>>, wire'[v])
      BY <1>9, <1>10, <1>11, <2>1
    <3> HIDE DEF r, r2
    <3>2. Way(u, client[u], out'[u], client[v], wire'[v], r, online, ghost', InitNs(files', u))
      BY <1>7, <2>1, <3>1, HandWay
    <3>3. CASE f.kind \notin Stored
      <4>1. r2 = r
        BY <1>9, <3>3 DEF r, r2
      <4> QED BY <3>2, <4>1
    <3>4. CASE f.kind \in Stored
      <4>1. Gone(stored[v], ghost'.lost)
        BY <2>1, <3>4, TextsGone
      <4>2. Join(Frames(u), login[v].batch, stored[v], r)
        BY <1>11, Joined DEF r, Kept
      <4>3. r2 = login[v].batch
        <5>1. stored'[v] = <<>>
          BY <1>9, <2>1, <3>4
        <5>2. r2 = login[v].batch \o <<>>
          BY <5>1 DEF r2, Kept
        <5> QED BY <1>11, <5>2, KeptRows, Zenon
      <4> QED BY <1>11, <3>2, <4>1, <4>2, <4>3, SkipWay
    <3> QED BY <3>3, <3>4
  <2>2. CASE v \notin online /\ f.kind \in Stored
    <3>1. stored'[v] = Append(stored[v], f) /\ wire'[v] = wire[v]
      BY <1>9, <2>2
    <3>2. r2 = r \o <<f>>
      <4> DEFINE t == <<f>>
      <4>1. Append(stored[v], f) = stored[v] \o t /\ t \in Seq(Frames(u))
        BY <1>2, <1>11
      <4> HIDE DEF t
      <4>2. r2 = login[v].batch \o (stored[v] \o t) /\ r = login[v].batch \o stored[v]
        BY <3>1, <4>1, Zenon DEF Kept
      <4> HIDE DEF r, r2
      <4>3. Assoc(login[v].batch, stored[v], t)
        BY <1>11, <4>1, KeptJoin, Zenon
      <4>4. r2 = r \o t
        BY <4>2, <4>3, Zenon DEF Assoc
      <4> QED BY <4>4 DEF t
    <3> HIDE DEF r, r2
    <3>3. Join(Frames(u), r, <<f>>, r2)
      <4>1. <<f>> \in Seq(Frames(u))
        BY <1>2
      <4> QED BY <1>11, <3>2, <4>1, Joined
    <3> QED BY <1>7, <2>2, <3>1, <3>3, HandWay
  <2>3. CASE v \notin online /\ f.kind \notin Stored
    <3>1. wire'[v] = wire[v] /\ r2 = r /\ f.kind # "text"
      BY <1>9, <2>3 DEF Stored
    <3> HIDE DEF r, r2
    <3> QED BY <1>7, <2>3, <3>1, TakeWay
  <2> QED BY <2>1, <2>2, <2>3
<1>13. Held'
  <2>1. stored'[v] \in Seq(Frames(u))
    BY <1>2, <1>9, <1>11
  <2>2. Waiting(v, login[v], stored'[v]) /\ Waiting(u, login[u], stored'[u])
    BY <1>1, <1>8, <1>9, <2>1 DEF Waiting
  <2>3. \A w \in Users : Waiting(w, login[w], stored'[w])
    BY <2>2, Others
  <2> QED BY <1>1, <1>3, <1>9, <2>3 DEF Held
<1>14. Way(v, client[v], out[v], client[u], wire'[u], Kept(login[u], stored'[u]), online, ghost', InitNs(files', v))
  BY <1>6, <1>9 DEF p
<1> QED BY <1>12, <1>13, <1>14, WaysKept

\* A login begins.
LEMMA HelloKeeps ==
    ASSUME Inv, NEW u \in Users, NEW f, NEW v, v = Other(u), f.kind = "hello",
           Cut1(u, out[u], f, <<f>>, out'[u]), DOMAIN out' = Users, out'[v] = out[v],
           login[u].stage = "none", RelayHello(u), UNCHANGED client
    PROVE  Inv'
<1>1. Held /\ v \in Users /\ v # u /\ Other(v) = u
  BY Others DEF Inv
<1> DEFINE X == InitNs(files, u)
           Y == InitNs(files, v)
           k == Frame("keys", <<>>, 0, 0, FALSE)
           r == Kept(login[v], stored[v])
           p == Kept(login[u], stored[u])
           on2 == online \cup {u}
<1>2. /\ Way(u, client[u], out[u], client[v], wire[v], r, online, ghost, X)
      /\ Way(v, client[v], out[v], client[u], wire[u], p, online, ghost, Y)
  BY Ways, Zenon
<1>3. /\ wire' = [wire EXCEPT ![u] = Append(@, k)] /\ online' = on2
      /\ login' = [login EXCEPT ![u] = [stage |-> "drain", batch |-> <<>>, have |-> client[u].got]]
      /\ stored' = stored /\ files' = files /\ ghost' = ghost
  BY DEF RelayHello
<1>4. Plain(v, <<k>>, Y) /\ k \in Frames(v)
  <2>1. k \in Frames(v) /\ k.kind = "keys"
    BY DEF Frame, Frames, Kinds, Authored
  <2> HIDE DEF k
  <2> QED BY <2>1, PlainOne
<1> HIDE DEF X, Y, k
<1>5. /\ DOMAIN wire = Users /\ DOMAIN login = Users /\ login[u].batch = <<>>
      /\ Waiting(u, login[u], stored[u]) /\ Waiting(v, login[v], stored[v])
  BY <1>1 DEF Held, Waiting
<1>6. /\ DOMAIN wire' = Users /\ wire'[u] = Append(wire[u], k) /\ wire'[v] = wire[v]
      /\ DOMAIN login' = Users /\ login'[v] = login[v]
      /\ login'[u] = [stage |-> "drain", batch |-> <<>>, have |-> client[u].got]
  BY <1>1, <1>3, <1>5
<1>7. Kept(login'[u], stored'[u]) = p /\ Kept(login'[v], stored'[v]) = r
  BY <1>3, <1>5, <1>6 DEF Kept
<1> HIDE DEF r, p
<1>8. u \notin online
  <2>1. 1 \in DOMAIN out[u] /\ out[u][1] = f
    <3>1. Join(Frames(u), <<f>>, out'[u], out[u]) /\ 1 \in DOMAIN <<f>> /\ <<f>>[1] = f
      BY DEF Cut1
    <3> QED BY <3>1 DEF Join
  <2>2. ~NoHello(out[u])
    BY <2>1 DEF NoHello
  <2> QED BY <1>2, <2>2 DEF Way, Linked
<1>9. Way(u, client[u], out'[u], client[v], wire[v], r, on2, ghost, X)
  <2>1. /\ Way(u, client[u], out'[u], client[v], wire[v], r, online, ghost, X)
        /\ client[u].hi /\ NoHello(out'[u])
    BY <1>2, <1>8, TakeWay
  <2> QED BY <2>1, KnownWay, Zenon
<1>10. Way(v, client[v], out[v], client[u], wire'[u], p, on2, ghost, Y)
  <2>1. wire[u] \in Seq(Frames(v))
    BY <1>1, <1>2, WayIn, Zenon
  <2>2. <<k>> \in Seq(Frames(v)) /\ wire'[u] = wire[u] \o <<k>>
    BY <1>4, <1>6, <2>1
  <2>3. Join(Frames(v), wire[u], <<k>>, wire'[u]) /\ Other(v) \in on2
    BY <1>1, <2>1, <2>2, Joined
  <2>4. Way(v, client[v], out[v], client[u], wire[u], p, on2, ghost, Y)
    BY <1>1, <1>2, LoginWay
  <2> HIDE DEF on2
  <2> QED BY <1>1, <1>4, <2>3, <2>4, PlainWay
<1>11. Held'
  <2>1. Waiting(u, login'[u], stored[u]) /\ Waiting(v, login'[v], stored[v])
    <3>1. <<>> \in Seq(Frames(Other(u)))
      OBVIOUS
    <3> QED BY <1>5, <1>6, <3>1 DEF Waiting
  <2>2. \A w \in Users : Waiting(w, login'[w], stored[w])
    BY <2>1, Others
  <2> QED BY <1>1, <1>3, <1>6, <2>2 DEF Held
<1> QED BY <1>3, <1>6, <1>7, <1>9, <1>10, <1>11, WaysKept DEF X, Y

\* The relay handles the next frame of u.
LEMMA RelayKeeps ==
    ASSUME Inv, NEW u \in Users, RelayTakes(u)
    PROVE  Inv'
<1> DEFINE v == Other(u)
           f == Head(out[u])
           P == ghost.passed \cup (IF f.kind = "text" THEN {Item(f.mid)} ELSE {})
           R == ghost.recalled \cup (IF f.kind = "delete" /\ Item(f.mid) \in ghost.passed THEN {f.mid} ELSE {})
           o == Overtaking(ghost, v, IF f.kind \in Stored THEN <<f>> ELSE <<>>)
<1>1. v = Other(u) /\ f = Head(out[u])
  OBVIOUS
<1>2. out[u] # <<>> /\ out' = [out EXCEPT ![u] = Tail(@)] /\ client' = client /\ login[u].stage = "none"
  BY DEF RelayTakes
<1>3. f.kind = "hello" => RelayHello(u)
  BY DEF RelayTakes
<1>4. (f.kind # "hello" /\ u \notin online) =>
         /\ ghost' = [ghost EXCEPT !.lost = @ \cup TextItems(<<f>>)]
         /\ UNCHANGED <<client, wire, stored, login, files, online>>
  BY DEF RelayTakes
<1>5. DOMAIN ghost = GhostFields
  BY DEF Inv, Held
<1>6. o = IF v \notin online \/ f.kind \notin Stored THEN ghost
          ELSE [ghost EXCEPT !.lost = @ \cup TextItems(stored[v]), !.late = @ \cup TextItems(login[v].batch),
                             !.unheard = @ \cup Retractions(stored[v])]
  <2> HIDE DEF f, v
  <2> QED BY DEF Overtaking
<1>7. (f.kind # "hello" /\ u \in online) =>
         /\ Forward(u, f) /\ files' = IF f.kind \in FileFrames THEN StoreFile(files, f) ELSE files
         /\ \E P2, R2 : ghost' = [o EXCEPT !.passed = P2, !.recalled = R2]
         /\ UNCHANGED <<client, login, online>>
  BY DEF RelayTakes
<1> HIDE DEF v, f, o, P, R
<1>8. /\ DOMAIN out' = Users /\ out'[v] = out[v]
      /\ Cut1(u, out[u], f, <<f>>, out'[u])
  BY <1>1, <1>2, TakesFacts
<1>9. CASE f.kind = "hello"
  BY <1>1, <1>2, <1>3, <1>8, <1>9, HelloKeeps
<1>10. CASE f.kind # "hello" /\ u \notin online
  BY <1>1, <1>4, <1>8, <1>10, RefuseKeeps
<1>11. CASE f.kind # "hello" /\ u \in online
  <2>1. PICK P2, R2 : ghost' = [o EXCEPT !.passed = P2, !.recalled = R2]
    BY <1>7, <1>11
  <2>2. /\ DOMAIN o = GhostFields /\ Grows(ghost, o)
        /\ (v \in online /\ f.kind \in Stored) => TextItems(stored[v]) \subseteq o.lost
    BY <1>5, <1>6 DEF GhostFields, Grows
  <2>3. /\ DOMAIN ghost' = GhostFields /\ Grows(ghost, ghost')
        /\ (v \in online /\ f.kind \in Stored) => TextItems(stored[v]) \subseteq ghost'.lost
    BY <2>1, <2>2 DEF GhostFields, Grows
  <2> QED BY <1>1, <1>7, <1>8, <1>11, <2>3, ForwardKeeps
<1> QED BY <1>9, <1>10, <1>11
\* Rows are fetched.
LEMMA SplitRows ==
    ASSUME NEW S, NEW s \in Seq(S), NEW k \in 1 .. Len(s)
    PROVE  LET a == SubSeq(s, 1, k)
               b == SubSeq(s, k + 1, Len(s))
           IN a \in Seq(S) /\ b \in Seq(S) /\ a \o b = s
<1> DEFINE a == SubSeq(s, 1, k)
           b == SubSeq(s, k + 1, Len(s))
<1>1. /\ a \in Seq(S) /\ Len(a) = k /\ \A i \in 1 .. k : a[i] = s[i]
  OBVIOUS
<1>2. /\ b \in Seq(S) /\ Len(b) = Len(s) - k /\ \A i \in 1 .. Len(s) - k : b[i] = s[k + i]
  OBVIOUS
<1> HIDE DEF a, b
<1> DEFINE t == a \o b
<1>3. t \in Seq(S) /\ Len(t) = Len(s) /\ \A i \in 1 .. Len(s) : t[i] = s[i]
  <2>1. Join(S, a, b, t)
    BY <1>1, <1>2, Joined
  <2> HIDE DEF t
  <2>2. t \in Seq(S) /\ Len(t) = Len(s)
    BY <1>1, <1>2, <2>1 DEF Join
  <2>3. ASSUME NEW i \in 1 .. Len(s) PROVE t[i] = s[i]
    <3>1. CASE i <= k
      <4>1. i \in DOMAIN a
        BY <1>1, <3>1
      <4> QED BY <1>1, <2>1, <3>1, <4>1 DEF Join
    <3>2. CASE i > k
      <4>1. i - k \in DOMAIN b /\ i = Len(a) + (i - k) /\ k + (i - k) = i
        BY <1>1, <1>2, <3>2
      <4>2. t[i] = b[i - k]
        BY <2>1, <4>1 DEF Join
      <4> QED BY <1>2, <3>2, <4>1, <4>2
    <3> QED BY <3>1, <3>2
  <2> QED BY <2>2, <2>3
<1>4. t = s
  <2> HIDE DEF t
  <2> QED BY <1>3
<1> QED BY <1>1, <1>2, <1>4 DEF a, b

\* A step of the login of u that leaves what is held for the other user, and
\* hands u the frames that make its wire w and what is held for it l, s.
LEMMA ServeKeeps ==
    ASSUME Inv, NEW u \in Users, NEW v, v = Other(u), UNCHANGED <<client, out, files, online, ghost>>,
           NEW l, login' = [login EXCEPT ![u] = l],
           DOMAIN stored' = Users, stored'[v] = stored[v], Waiting(u, l, stored'[u]), u \in online,
           DOMAIN wire' = Users,
           Way(v, client[v], out[v], client[u], wire'[u], Kept(l, stored'[u]), online, ghost, InitNs(files, v)),
           Way(u, client[u], out[u], client[v], wire'[v], Kept(login[v], stored[v]), online, ghost, InitNs(files, u))
    PROVE  Inv'
<1>1. Held /\ v \in Users /\ v # u
  BY Others DEF Inv
<1>2. DOMAIN login' = Users /\ login'[u] = l /\ login'[v] = login[v]
  BY <1>1 DEF Held
<1>3. Held'
  <2>1. Waiting(u, login'[u], stored'[u]) /\ Waiting(v, login'[v], stored'[v])
    BY <1>1, <1>2 DEF Held
  <2>2. \A w \in Users : Waiting(w, login'[w], stored'[w])
    BY <2>1, Others
  <2>3. login'[v].stage # "none" => v \in online
    BY <1>1, <1>2 DEF Held
  <2>4. \A w \in Users : login'[w].stage # "none" => w \in online
    BY <2>3, Others
  <2> QED BY <1>1, <1>2, <2>2, <2>4 DEF Held
<1> QED BY <1>2, <1>3, WaysKept

\* The login of u: a batch is fetched, or the files.
LEMMA FetchKeeps ==
    ASSUME Inv, NEW u \in Users, FetchBatch(u)
    PROVE  Inv'
<1> DEFINE v == Other(u)
           s == stored[u]
           Y == InitNs(files, v)
<1>1. /\ Held /\ v \in Users /\ v # u /\ Other(v) = u /\ v = Other(u)
      /\ login[u].stage = "drain" /\ login[u].batch = <<>>
      /\ UNCHANGED <<client, out, wire, files, online, ghost>>
  BY Others DEF Inv, FetchBatch
<1>2. /\ Way(u, client[u], out[u], client[v], wire[v], Kept(login[v], stored[v]), online, ghost, InitNs(files, u))
      /\ Way(v, client[v], out[v], client[u], wire[u], Kept(login[u], s), online, ghost, Y)
  BY Ways, Zenon
<1>3. /\ Waiting(u, login[u], s) /\ u \in online /\ DOMAIN wire = Users /\ DOMAIN stored = Users
      /\ DOMAIN login = Users /\ IsFiniteSet(files) /\ \A f \in files : FileRow(f)
  BY <1>1 DEF Held
<1>4. s \in Seq(Frames(v)) /\ DOMAIN login[u] = {"stage", "batch", "have"}
  BY <1>3 DEF Waiting
<1>5. Kept(login[u], s) = s
  <2>1. Kept(login[u], s) = <<>> \o s
    BY <1>1 DEF Kept
  <2> QED BY <1>4, <2>1, KeptRows, Zenon
<1> HIDE DEF v, Y
<1>6. ASSUME NEW k \in 1 .. Len(s), login' = [login EXCEPT ![u].batch = SubSeq(s, 1, k)],
             stored' = [stored EXCEPT ![u] = SubSeq(@, k + 1, Len(@))]
      PROVE  Inv'
  <2> DEFINE a == SubSeq(s, 1, k)
             b == SubSeq(s, k + 1, Len(s))
             l == [login[u] EXCEPT !.batch = a]
  <2>1. a \in Seq(Frames(v)) /\ b \in Seq(Frames(v)) /\ a \o b = s
    BY <1>4, SplitRows
  <2>2. stored' = [stored EXCEPT ![u] = b] /\ login' = [login EXCEPT ![u] = l]
    BY <1>6
  <2> HIDE DEF a, b
  <2>3. DOMAIN l = {"stage", "batch", "have"} /\ l.batch = a /\ l.stage = "drain"
    BY <1>1, <1>4
  <2>4. DOMAIN stored' = Users /\ stored'[u] = b /\ stored'[v] = stored[v]
    BY <1>1, <1>3, <2>2
  <2> HIDE DEF l, s
  <2>5. Waiting(u, l, stored'[u])
    BY <1>1, <2>1, <2>3, <2>4 DEF Waiting
  <2>6. Kept(l, stored'[u]) = s
    BY <2>1, <2>3, <2>4 DEF Kept
  <2>7. /\ Way(v, client[v], out[v], client[u], wire'[u], Kept(l, stored'[u]), online, ghost, InitNs(files, v))
        /\ Way(u, client[u], out[u], client[v], wire'[v], Kept(login[v], stored[v]), online, ghost, InitNs(files, u))
        /\ DOMAIN wire' = Users
    BY <1>1, <1>2, <1>3, <1>5, <2>6 DEF Y
  <2> QED BY <1>1, <1>3, <2>2, <2>4, <2>5, <2>7, ServeKeeps
<1>7. ASSUME s = <<>>, stored' = stored, NEW rows \in ByTime(pending_files_for(files, u, login[u].have)),
             login' = [login EXCEPT ![u].stage = "files", ![u].batch = ReplayAll(rows)]
      PROVE  Inv'
  <2> DEFINE z == ReplayAll(rows)
             l == [login[u] EXCEPT !.stage = "files", !.batch = z]
  <2>1. Plain(v, z, Y)
    BY <1>1, <1>3, ReplayAllPlain DEF Y
  <2>2. login' = [login EXCEPT ![u] = l]
    BY <1>3, <1>7
  <2> HIDE DEF z
  <2>3. DOMAIN l = {"stage", "batch", "have"} /\ l.batch = z /\ l.stage = "files"
    BY <1>4
  <2>4. z \in Seq(Frames(v))
    BY <2>1 DEF Plain
  <2> HIDE DEF l
  <2>5. Waiting(u, l, stored'[u])
    BY <1>1, <1>4, <1>7, <2>3, <2>4 DEF Waiting
  <2>6. Kept(l, stored'[u]) = z
    <3>1. Kept(l, stored'[u]) = z \o <<>>
      BY <1>7, <2>3 DEF Kept
    <3> QED BY <2>4, <3>1, KeptRows, Zenon
  <2>7. Way(v, client[v], out[v], client[u], wire[u], z, online, ghost, Y)
    BY <1>1, <1>2, <1>5, <1>7, <2>1, FetchWay
  <2>8. /\ Way(v, client[v], out[v], client[u], wire'[u], Kept(l, stored'[u]), online, ghost, InitNs(files, v))
        /\ Way(u, client[u], out[u], client[v], wire'[v], Kept(login[v], stored[v]), online, ghost, InitNs(files, u))
        /\ DOMAIN wire' = Users /\ DOMAIN stored' = Users /\ stored'[v] = stored[v]
    BY <1>1, <1>2, <1>3, <1>7, <2>6, <2>7 DEF Y
  <2> QED BY <1>1, <1>3, <2>2, <2>5, <2>8, ServeKeeps
<1> QED BY <1>6, <1>7 DEF FetchBatch

\* The next frame of the batch is sent.
LEMMA BacklogKeeps ==
    ASSUME Inv, NEW u \in Users, SendBacklog(u)
    PROVE  Inv'
<1> DEFINE v == Other(u)
           s == stored[u]
           b == login[u].batch
           f == Head(b)
           t == Tail(b)
           l == [login[u] EXCEPT !.batch = t]
           Y == InitNs(files, v)
<1>1. /\ Held /\ v \in Users /\ v # u /\ Other(v) = u /\ v = Other(u) /\ b # <<>>
      /\ UNCHANGED <<client, out, stored, files, online, ghost>>
      /\ wire' = [wire EXCEPT ![u] = Append(@, f)]
  BY Others DEF Inv, SendBacklog
<1>2. /\ Way(u, client[u], out[u], client[v], wire[v], Kept(login[v], stored[v]), online, ghost, InitNs(files, u))
      /\ Way(v, client[v], out[v], client[u], wire[u], Kept(login[u], s), online, ghost, Y)
  BY Ways, Zenon
<1>3. /\ Waiting(u, login[u], s) /\ DOMAIN wire = Users /\ DOMAIN stored = Users /\ DOMAIN login = Users
  BY <1>1 DEF Held
<1>4. /\ s \in Seq(Frames(v)) /\ b \in Seq(Frames(v)) /\ DOMAIN login[u] = {"stage", "batch", "have"}
      /\ login[u].stage # "none" /\ u \in online
  <2>1. /\ s \in Seq(Frames(v)) /\ b \in Seq(Frames(v)) /\ DOMAIN login[u] = {"stage", "batch", "have"}
        /\ login[u].stage # "none"
    BY <1>1, <1>3 DEF Waiting
  <2> QED BY <1>1, <2>1 DEF Held
<1>5. login' = [login EXCEPT ![u] = l]
  BY DEF SendBacklog
<1> HIDE DEF v, Y, s
<1>6. Cut1(v, b, f, <<f>>, t)
  BY <1>1, <1>4, TakeOne
<1>7. f \in Frames(v) /\ <<f>> \in Seq(Frames(v)) /\ t \in Seq(Frames(v))
  BY <1>6 DEF Cut1
<1>8. b = <<f>> \o t
  BY <1>1, <1>4
<1>9. DOMAIN l = {"stage", "batch", "have"} /\ l.batch = t /\ l.stage # "none"
  BY <1>4
<1> HIDE DEF l
<1> DEFINE q == <<f>>
           r == Kept(l, s)
<1>10. r = t \o s /\ r \in Seq(Frames(v))
  <2>1. r = t \o s
    BY <1>9 DEF Kept
  <2>2. t \o s \in Seq(Frames(v))
    BY <1>4, <1>7
  <2> QED BY <2>1, <2>2
<1>11. Cut1(v, Kept(login[u], s), f, q, r)
  <2>1. Kept(login[u], s) = (q \o t) \o s
    BY <1>8 DEF Kept
  <2>2. q \in Seq(Frames(v)) /\ q = <<f>>
    BY <1>7
  <2> HIDE DEF q, r, t, f
  <2>3. Assoc(q, t, s)
    BY <1>4, <1>7, <2>2, KeptJoin, Zenon
  <2>4. Kept(login[u], s) = q \o r
    BY <1>10, <2>1, <2>3, Zenon DEF Assoc
  <2>5. Join(Frames(v), q, r, q \o r)
    BY <1>10, <2>2, Joined
  <2> QED BY <1>7, <1>10, <2>2, <2>4, <2>5 DEF Cut1
<1>12. /\ DOMAIN wire' = Users /\ wire'[v] = wire[v] /\ Join(Frames(v), wire[u], q, wire'[u])
  <2>1. wire'[u] = Append(wire[u], f) /\ DOMAIN wire' = Users /\ wire'[v] = wire[v]
    BY <1>1, <1>3
  <2>2. wire[u] \in Seq(Frames(v))
    BY <1>1, <1>2, WayIn, Zenon
  <2>3. Append(wire[u], f) = wire[u] \o q
    BY <1>7, <2>2
  <2> QED BY <1>7, <2>1, <2>2, <2>3, Joined
<1> HIDE DEF q, r, f, b, t
<1>13. Way(v, client[v], out[v], client[u], wire'[u], r, online, ghost, Y)
  BY <1>1, <1>2, <1>4, <1>11, <1>12, MoveWay
<1>14. Waiting(u, l, stored'[u])
  BY <1>1, <1>4, <1>7, <1>9 DEF Waiting, s
<1>15. /\ Way(v, client[v], out[v], client[u], wire'[u], Kept(l, stored'[u]), online, ghost, InitNs(files, v))
       /\ Way(u, client[u], out[u], client[v], wire'[v], Kept(login[v], stored[v]), online, ghost, InitNs(files, u))
       /\ DOMAIN stored' = Users /\ stored'[v] = stored[v]
  BY <1>1, <1>2, <1>3, <1>12, <1>13 DEF r, s, Y
<1> QED BY <1>1, <1>4, <1>5, <1>12, <1>14, <1>15, ServeKeeps

\* The login of u has been served.
LEMMA DoneKeeps ==
    ASSUME Inv, NEW u \in Users, LoginDone(u)
    PROVE  Inv'
<1> DEFINE v == Other(u)
           X == InitNs(files, u)
           Y == InitNs(files, v)
           f == Presence(v, v \in online)
           h == Presence(u, TRUE)
<1>1. /\ Held /\ v \in Users /\ v # u /\ Other(v) = u /\ v = Other(u)
      /\ login[u].stage = "files" /\ login[u].batch = <<>> /\ login' = [login EXCEPT ![u] = NoLogin]
      /\ UNCHANGED <<client, out, stored, files, online, ghost>>
      /\ wire' = [wire EXCEPT ![u] = Append(@, f), ![v] = IF v \in online THEN Append(@, h) ELSE @]
  BY Others DEF Inv, LoginDone
<1>2. /\ Way(u, client[u], out[u], client[v], wire[v], Kept(login[v], stored[v]), online, ghost, X)
      /\ Way(v, client[v], out[v], client[u], wire[u], Kept(login[u], stored[u]), online, ghost, Y)
  BY Ways, Zenon
<1>3. /\ Waiting(u, login[u], stored[u]) /\ u \in online /\ DOMAIN wire = Users /\ DOMAIN stored = Users
      /\ DOMAIN login = Users
  BY <1>1 DEF Held
<1>4. f \in Frames(v) /\ f.kind = "presence" /\ h \in Frames(u) /\ h.kind = "presence"
  BY DEF Presence, Frame, Frames, Kinds, Authored
<1> HIDE DEF v, X, Y, f, h
<1>5. Plain(v, <<f>>, Y) /\ Plain(u, <<h>>, X)
  BY <1>1, <1>4, PlainOne
<1>6. /\ DOMAIN wire' = Users /\ wire'[u] = Append(wire[u], f)
      /\ wire'[v] = IF v \in online THEN Append(wire[v], h) ELSE wire[v]
  BY <1>1, <1>3
<1>7. wire[u] \in Seq(Frames(v)) /\ wire[v] \in Seq(Frames(u))
  BY <1>1, <1>2, WayIn, Zenon
<1>8. Way(v, client[v], out[v], client[u], wire'[u], Kept(login[u], stored[u]), online, ghost, Y)
  <2>1. Append(wire[u], f) = wire[u] \o <<f>> /\ <<f>> \in Seq(Frames(v))
    BY <1>4, <1>7
  <2>2. Join(Frames(v), wire[u], <<f>>, wire'[u])
    BY <1>6, <1>7, <2>1, Joined
  <2> QED BY <1>1, <1>2, <1>3, <1>5, <2>2, PlainWay
<1>9. Way(u, client[u], out[u], client[v], wire'[v], Kept(login[v], stored[v]), online, ghost, X)
  <2>1. CASE v \in online
    <3>1. <<h>> \in Seq(Frames(u)) /\ wire'[v] = Append(wire[v], h)
      BY <1>4, <1>6, <2>1
    <3>2. wire'[v] = wire[v] \o <<h>>
      <4> DEFINE x == wire[v]
      <4>1. x \in Seq(Frames(u))
        BY <1>7
      <4> HIDE DEF x
      <4>2. Append(x, h) = x \o <<h>>
        BY <1>4, <4>1
      <4> QED BY <3>1, <4>2 DEF x
    <3>3. Join(Frames(u), wire[v], <<h>>, wire'[v])
      BY <1>7, <3>1, <3>2, Joined
    <3> QED BY <1>1, <1>2, <1>5, <2>1, <3>3, PlainWay
  <2>2. CASE v \notin online
    BY <1>2, <1>6, <2>2
  <2> QED BY <2>1, <2>2
<1>10. Waiting(u, NoLogin, stored'[u]) /\ Kept(NoLogin, stored'[u]) = Kept(login[u], stored[u])
  <2>1. <<>> \in Seq(Frames(v))
    OBVIOUS
  <2> QED BY <1>1, <1>3, <2>1 DEF Waiting, NoLogin, Kept
<1>11. Way(v, client[v], out[v], client[u], wire'[u], Kept(NoLogin, stored'[u]), online, ghost, InitNs(files, v))
  BY <1>8, <1>10 DEF Y
<1> QED BY <1>1, <1>3, <1>6, <1>9, <1>10, <1>11, ServeKeeps DEF X
-----------------------------------------------------------------------------
(* The inductive invariant is kept: failures.                               *)

\* What a lost link or a crash leaves of a client.
Remains(u, c, d) ==
    /\ Sound(u, d) /\ d.tx = <<>> /\ ~d.up /\ ~d.hi
    /\ d.hist = c.hist /\ d.box = c.box /\ d.used = c.used
    /\ d.shows \in BOOLEAN
    /\ d.told = "typing" => d.armed

\* The link of u ends.
LEMMA CutKeeps ==
    ASSUME Inv, NEW u \in Users, NEW F, NEW g, Cut(u, F, g), DOMAIN g = GhostFields, Grows(ghost, g),
           NEW d, Remains(u, client[u], d), client' = [client EXCEPT ![u] = d],
           Last(u, client[u], d, F, g), u \notin online => F = <<>>
    PROVE  Inv'
<1> DEFINE v == Other(u)
           X == InitNs(files, u)
           Y == InitNs(files, v)
           z == IF u \in online THEN <<Presence(u, FALSE)>> ELSE <<>>
           b == login[v].batch
           p == login[u].batch
           S == stored[v]
           r == Kept(login[v], S)
           t == stored[u]
<1>1. Held /\ v \in Users /\ v # u /\ Other(v) = u /\ v = Other(u)
  BY Others DEF Inv
<1>2. /\ Way(u, client[u], out[u], client[v], wire[v], r, online, ghost, X)
      /\ Way(v, client[v], out[v], client[u], wire[u], Kept(login[u], t), online, ghost, Y)
  BY Ways, Zenon
<1>3. /\ DOMAIN ghost' = GhostFields /\ Grows(g, ghost') /\ ghost'.reused = g.reused /\ u \in ghost'.blind
      /\ Gone(out[u], ghost'.lost) /\ Gone(wire[u], ghost'.lost) /\ Gone(p, ghost'.lost)
      /\ (v \in online /\ F # <<>>) => Gone(S, ghost'.lost)
  <2> DEFINE o == Overtaking(g, v, F)
             L == o.lost \cup TextItems(out[u]) \cup TextItems(wire[u]) \cup TextItems(p)
  <2>1. \E U2, C2, P2 : ghost' = [o EXCEPT !.lost = L, !.unheard = U2, !.cut = C2, !.passed = P2,
                                           !.blind = @ \cup {u}]
    BY DEF Cut
  <2>2. o = IF v \notin online \/ F = <<>> THEN g
            ELSE [g EXCEPT !.lost = @ \cup TextItems(S), !.late = @ \cup TextItems(b),
                           !.unheard = @ \cup Retractions(S)]
    BY DEF Overtaking
  <2>3. /\ DOMAIN o = GhostFields /\ Grows(g, o) /\ o.reused = g.reused
        /\ (v \in online /\ F # <<>>) => TextItems(S) \subseteq o.lost
    <3> HIDE DEF o
    <3> QED BY <2>2 DEF GhostFields, Grows
  <2> HIDE DEF o
  <2>4. PICK U2, C2, P2 : ghost' = [o EXCEPT !.lost = L, !.unheard = U2, !.cut = C2, !.passed = P2,
                                             !.blind = @ \cup {u}]
    BY <2>1
  <2>5. /\ o.lost \subseteq L /\ TextItems(out[u]) \subseteq L /\ TextItems(wire[u]) \subseteq L
        /\ TextItems(p) \subseteq L
    OBVIOUS
  <2> HIDE DEF L
  <2>6. /\ DOMAIN ghost' = GhostFields /\ ghost'.lost = L /\ ghost'.reused = o.reused
        /\ ghost'.opened = o.opened /\ ghost'.asked = o.asked /\ ghost'.blind = o.blind \cup {u}
    BY <2>3, <2>4 DEF GhostFields
  <2>7. Grows(g, ghost')
    BY <2>3, <2>5, <2>6 DEF Grows
  <2>8. Gone(out[u], L) /\ Gone(wire[u], L) /\ Gone(p, L)
    BY <2>5, TextsGone
  <2>9. (v \in online /\ F # <<>>) => Gone(S, L)
    BY <2>3, <2>5, TextsGone
  <2> QED BY <2>3, <2>6, <2>7, <2>8, <2>9
<1>4. /\ Way(u, client[u], out[u], client[v], wire[v], r, online, ghost', X)
      /\ Way(v, client[v], out[v], client[u], wire[u], Kept(login[u], t), online, ghost', Y)
  <2>1. Grows(ghost, ghost')
    BY <1>3 DEF Grows
  <2> QED BY <1>1, <1>2, <2>1, WayGrows, Zenon
<1>5. /\ wire' = [wire EXCEPT ![u] = <<>>, ![v] = IF v \in online THEN @ \o F \o z ELSE @]
      /\ stored' = [stored EXCEPT ![v] = IF v \notin online THEN @ \o F ELSE IF F = <<>> THEN @ ELSE <<>>]
      /\ login' = [login EXCEPT ![u] = NoLogin]
      /\ out' = [out EXCEPT ![u] = <<>>] /\ online' = online \ {u} /\ files' = files
  BY DEF Cut
<1>6. Plain(u, z, X) /\ (u \in online => \E q : z = <<q>> /\ Clears(q))
  <2> DEFINE h == Presence(u, FALSE)
  <2>1. h \in Frames(u) /\ h.kind = "presence" /\ Clears(h)
    BY DEF Presence, Frame, Frames, Kinds, Authored, Clears
  <2>2. CASE u \in online
    <3>1. z = <<h>>
      BY <2>2
    <3> HIDE DEF h
    <3>2. Plain(u, <<h>>, X)
      BY <2>1, PlainOne
    <3> QED BY <2>1, <3>1, <3>2
  <2>3. CASE u \notin online
    BY <2>3, PlainNone
  <2> QED BY <2>2, <2>3
<1> HIDE DEF v, X, Y, z
<1>7. /\ DOMAIN wire' = Users /\ DOMAIN stored' = Users /\ DOMAIN out' = Users /\ DOMAIN client' = Users
      /\ DOMAIN login' = Users /\ login'[u] = NoLogin /\ login'[v] = login[v]
      /\ wire'[u] = <<>> /\ stored'[u] = t /\ out'[u] = <<>> /\ out'[v] = out[v]
      /\ client'[u] = d /\ client'[v] = client[v]
      /\ wire'[v] = IF v \in online THEN (wire[v] \o F) \o z ELSE wire[v]
      /\ stored'[v] = IF v \notin online THEN S \o F ELSE IF F = <<>> THEN S ELSE <<>>
  <2>1. /\ DOMAIN wire = Users /\ DOMAIN stored = Users /\ DOMAIN out = Users /\ DOMAIN client = Users
        /\ DOMAIN login = Users
    BY <1>1 DEF Held
  <2> QED BY <1>1, <1>5, <2>1
<1>8. Last(u, client[u], d, F, ghost')
  BY <1>3 DEF Last
<1>9. /\ F \in Seq(Frames(u)) /\ z \in Seq(Frames(u)) /\ wire[v] \in Seq(Frames(u))
      /\ S \in Seq(Frames(u)) /\ b \in Seq(Frames(u)) /\ r \in Seq(Frames(u))
      /\ t \in Seq(Frames(v)) /\ p \in Seq(Frames(v))
  <2>1. client[u].n \in Nat /\ wire[v] \in Seq(Frames(u)) /\ r \in Seq(Frames(u))
    BY <1>2, WayIn, Zenon
  <2>2. Waiting(u, login[u], t) /\ Waiting(v, login[v], S)
    BY <1>1 DEF Held
  <2>3. /\ S \in Seq(Frames(u)) /\ b \in Seq(Frames(u)) /\ t \in Seq(Frames(v)) /\ p \in Seq(Frames(v))
    BY <1>1, <2>2 DEF Waiting
  <2> QED BY <1>6, <1>8, <2>1, <2>3, LastFacts DEF Plain
<1>10. /\ Sound(u, d) /\ d.tx = <<>> /\ ~d.up /\ ~d.hi /\ d.hist = client[u].hist
       /\ d.box = client[u].box /\ d.used = client[u].used /\ d.shows \in BOOLEAN
       /\ d.told = "typing" => d.armed
  BY DEF Remains
<1>11. Way(u, d, <<>>, client[v], wire'[v], Kept(login'[v], stored'[v]), online \ {u}, ghost', X)
  <2>1. CASE v \in online
    <3> DEFINE y == wire[v] \o F
    <3>1. Join(Frames(u), wire[v], F, y)
      BY <1>9, Joined
    <3>2. y \in Seq(Frames(u)) /\ wire'[v] = y \o z
      BY <1>7, <2>1, <3>1 DEF Join
    <3> HIDE DEF y, r
    <3>3. Join(Frames(u), y, z, wire'[v]) /\ Other(u) \in online
      BY <1>1, <1>9, <2>1, <3>2, Joined
    <3>4. Way(u, d, <<>>, client[v], wire'[v], r, online \ {u}, ghost', X)
      BY <1>3, <1>4, <1>6, <1>8, <1>10, <3>1, <3>2, <3>3, CutAuthorWay
    <3>5. CASE F = <<>>
      <4>1. Kept(login'[v], stored'[v]) = r
        BY <1>7, <2>1, <3>5 DEF r
      <4> QED BY <3>4, <4>1
    <3>6. CASE F # <<>>
      <4>1. Join(Frames(u), b, S, r)
        BY <1>9, Joined DEF r, Kept
      <4>2. stored'[v] = <<>> /\ login'[v] = login[v]
        BY <1>7, <2>1, <3>6
      <4>3. Kept(login'[v], stored'[v]) = b \o <<>>
        BY <4>2 DEF Kept
      <4>4. Kept(login'[v], stored'[v]) = b
        BY <1>9, <4>3, KeptRows, Zenon
      <4>5. Gone(S, ghost'.lost)
        BY <1>3, <2>1, <3>6 DEF v
      <4> QED BY <1>9, <3>4, <4>1, <4>4, <4>5, SkipWay
    <3> QED BY <3>5, <3>6
  <2>2. CASE v \notin online
    <3>1. Kept(login'[v], stored'[v]) = r \o F
      <4>1. stored'[v] = S \o F /\ login'[v] = login[v]
        BY <1>7, <2>2
      <4>2. Kept(login'[v], stored'[v]) = b \o (S \o F)
        BY <4>1 DEF Kept
      <4>3. Assoc(b, S, F)
        BY <1>9, KeptJoin, Zenon
      <4> QED BY <4>2, <4>3, Zenon DEF Assoc, Kept
    <3> HIDE DEF r
    <3>2. Join(Frames(u), r, F, Kept(login'[v], stored'[v]))
      BY <1>9, <3>1, Joined
    <3>3. Other(u) \notin online /\ wire'[v] = wire[v]
      BY <1>1, <1>7, <2>2
    <3> QED BY <1>3, <1>4, <1>6, <1>8, <1>10, <3>2, <3>3, CutAuthorWay
  <2> QED BY <2>1, <2>2
<1>12. Way(v, client[v], out[v], d, <<>>, Kept(login'[u], stored'[u]), online \ {u}, ghost', Y)
  <2>1. Other(v) \in ghost'.blind /\ Gone(wire[u], ghost'.lost) /\ Gone(p, ghost'.lost)
    BY <1>1, <1>3
  <2> DEFINE q == Kept(login[u], t)
  <2>2. Join(Frames(v), p, t, q)
    BY <1>9, Joined DEF Kept
  <2>3. Kept(login'[u], stored'[u]) = t
    <3>1. Kept(login'[u], stored'[u]) = <<>> \o t
      BY <1>7 DEF Kept, NoLogin
    <3> QED BY <1>9, <3>1, KeptRows, Zenon
  <2> HIDE DEF q, t, p
  <2>4. Way(v, client[v], out[v], d, <<>>, q, online \ {Other(v)}, ghost', Y)
    BY <1>1, <1>4, <1>10, <2>1, CutReaderWay DEF q
  <2>5. Way(v, client[v], out[v], d, <<>>, t, online \ {Other(v)}, ghost', Y)
    BY <1>1, <1>9, <2>1, <2>2, <2>4, SkipWay
  <2> QED BY <1>1, <2>3, <2>5
<1>13. Held'
  <2>1. Waiting(u, login'[u], stored'[u])
    <3>1. <<>> \in Seq(Frames(v))
      OBVIOUS
    <3> QED BY <1>1, <1>7, <1>9, <3>1 DEF Waiting, NoLogin
  <2>2. stored'[v] \in Seq(Frames(u))
    <3>1. S \o F \in Seq(Frames(u)) /\ <<>> \in Seq(Frames(u))
      BY <1>9
    <3> QED BY <1>7, <1>9, <3>1
  <2>3. Waiting(v, login'[v], stored'[v])
    <3>1. Waiting(v, login[v], S)
      BY <1>1 DEF Held
    <3> QED BY <1>1, <1>7, <2>2, <3>1 DEF Waiting
  <2>4. \A w \in Users : Waiting(w, login'[w], stored'[w])
    BY <2>1, <2>3, Others DEF v
  <2>5. \A w \in Users : login'[w].stage # "none" => w \in online'
    <3>1. login'[u].stage = "none"
      BY <1>7 DEF NoLogin
    <3>2. login'[v].stage # "none" => v \in online'
      BY <1>1, <1>5, <1>7 DEF Held
    <3> QED BY <3>1, <3>2, Others DEF v
  <2> QED BY <1>1, <1>3, <1>5, <1>7, <2>4, <2>5 DEF Held
<1> QED BY <1>1, <1>5, <1>7, <1>11, <1>12, <1>13, WaysKept DEF X, Y

\* What is on disk makes a sound client.
LEMMA RestartRemains ==
    ASSUME NEW u \in Users, NEW c, Calm(u, c), NEW e, e.ids = c.ids, e.hist = c.hist, e.box = c.box,
           e.nextRid = c.nextRid, e.next \in Nat, e.savedN \in Nat \ {0}, e.used = c.used
    PROVE  Remains(u, c, Restarted(e)) /\ Restarted(e).n = e.savedN
<1> DEFINE d == Restarted(e)
<1>1. Typed(u, c) /\ Boxed(c)
  BY DEF Calm, Sound
<1>2. /\ c.hist \in Seq(Rows(u)) /\ c.box \in Seq(Items(u)) /\ c.ids \in Nat /\ c.nextRid \in Nat
      /\ c.used \subseteq Nat
  BY <1>1 DEF Typed
<1>3. <<>> \o c.box = c.box
  BY <1>2
<1>4. DOMAIN d = Fields
  BY DEF Restarted, restoreOutbox, Fresh, Fields
<1>5. /\ d.up = FALSE /\ d.hi = FALSE /\ d.ids = e.ids + 1 /\ d.active = FALSE /\ d.screen = <<>>
      /\ d.hist = c.hist /\ d.box = c.box /\ d.outbox = <<>> \o c.box /\ d.nextRid = c.nextRid
      /\ d.next = e.next /\ d.n = e.savedN /\ d.savedN = e.savedN /\ d.used = c.used /\ d.incoming = {}
      /\ d.told = "none" /\ d.shows = FALSE /\ d.tx = <<>>
  BY DEF Restarted, restoreOutbox, Fresh
<1> HIDE DEF d
<1>6. d.outbox = c.box
  BY <1>3, <1>5
<1>7. d.screen \in Seq(Rows(u)) /\ d.tx \in Seq(Frames(u)) /\ d.ids \in Nat
  BY <1>2, <1>5
<1>8. Typed(u, d)
  BY <1>2, <1>4, <1>5, <1>6, <1>7 DEF Typed
<1>9. Boxed(d)
  <2>1. /\ Below(c.box, c.nextRid)
        /\ \A i, j \in DOMAIN c.box : c.box[i].rid = c.box[j].rid => i = j
    BY <1>1 DEF Boxed
  <2>2. Agree(c.box, c.box)
    BY <2>1 DEF Agree
  <2> QED BY <1>5, <1>6, <2>1, <2>2 DEF Boxed
<1>10. Screened(d)
  BY <1>5 DEF Screened
<1>11. Sound(u, d)
  BY <1>5, <1>8, <1>9, <1>10 DEF Sound
<1>12. Remains(u, c, d)
  BY <1>5, <1>11 DEF Remains
<1> QED BY <1>5, <1>12 DEF d

\* A lost link leaves everything in memory.
LEMMA DropRemains ==
    ASSUME NEW u \in Users, NEW c, Calm(u, c)
    PROVE  Remains(u, c, onDisconnected(c)) /\ onDisconnected(c).n = c.n
<1> DEFINE d == onDisconnected(c)
<1>1. Sound(u, c) /\ c.tx = <<>> /\ (c.told = "typing" => c.armed)
  BY DEF Calm
<1>2. Typed(u, c) /\ Screened(c) /\ c.savedN = c.n
  BY <1>1 DEF Sound
<1>3. DOMAIN c = Fields
  BY <1>2 DEF Typed
<1>4. /\ DOMAIN d = Fields /\ d.up = FALSE /\ d.hi = FALSE
      /\ \A x \in Fields : x \notin {"up", "hi", "notices"} => d[x] = c[x]
  BY <1>3 DEF onDisconnected, addSystem, Fields
<1> HIDE DEF d
<1>5. /\ d.hist = c.hist /\ d.screen = c.screen /\ d.tx = c.tx /\ d.box = c.box /\ d.outbox = c.outbox
      /\ d.nextRid = c.nextRid /\ d.n = c.n /\ d.savedN = c.savedN /\ d.ids = c.ids /\ d.next = c.next
      /\ d.used = c.used /\ d.incoming = c.incoming /\ d.shows = c.shows /\ d.active = c.active
      /\ d.react = c.react /\ d.told = c.told /\ d.armed = c.armed
  BY <1>4 DEF Fields
<1>6. Screened(d)
  <2>1. \A i : Same(c, i) => Same(d, i)
    BY <1>5 DEF Same, Agrees
  <2> QED BY <1>2, <1>5, <2>1 DEF Screened
<1>7. /\ c.hist \in Seq(Rows(u)) /\ c.screen \in Seq(Rows(u)) /\ c.tx \in Seq(Frames(u))
      /\ c.n \in Nat \ {0} /\ c.next \in Nat /\ c.used \subseteq Nat
      /\ c.incoming \subseteq MidSet \X Nat /\ c.shows \in BOOLEAN
  BY <1>2 DEF Typed
<1>8. Sound(u, d)
  BY <1>1, <1>2, <1>4, <1>5, <1>6, <1>7, SoundFrom
<1> QED BY <1>1, <1>4, <1>5, <1>7, <1>8 DEF Remains, d

\* A client of the invariant.
LEMMA ClientCalm ==
    ASSUME Inv, NEW u \in Users
    PROVE  Calm(u, client[u]) /\ client[u].n \in Nat \ {0} /\ client[u].savedN = client[u].n
           /\ client[u].next \in Nat /\ client[u].ids \in Nat
<1>1. Way(u, client[u], out[u], client[Other(u)], wire[Other(u)], Kept(login[Other(u)], stored[Other(u)]), online, ghost,
          InitNs(files, u))
  BY DEF Inv, WayOf
<1>2. Calm(u, client[u])
  BY <1>1, WayIn, Zenon
<1>3. Typed(u, client[u]) /\ client[u].savedN = client[u].n
  BY <1>2 DEF Calm, Sound
<1> QED BY <1>2, <1>3 DEF Typed

\* The last text before a crash.
LEMMA LastText ==
    ASSUME NEW u \in Users, NEW c, NEW d, NEW g, NEW mid \in MidSet, mid[1] = u, c.n \in Nat,
           u \notin g.reused => d.n = c.n + 1
    PROVE  Last(u, c, d, <<Frame("text", mid, 0, c.n, FALSE)>>, g)
<1> DEFINE f == Frame("text", mid, 0, c.n, FALSE)
<1>1. f \in Frames(u)
  BY FrameIn DEF Kinds
<1>2. f.kind = "text" /\ f.n = c.n
  BY DEF Frame
<1> HIDE DEF f
<1>3. Last(u, c, d, <<f>>, g)
  BY <1>1, <1>2 DEF Last
<1> QED BY <1>3 DEF f

\* The ghosts of the end of a process.
LEMMA Ends ==
    ASSUME DOMAIN ghost = GhostFields, NEW u
    PROVE  DOMAIN Ending(u, ghost) = GhostFields /\ Grows(ghost, Ending(u, ghost))
<1> DEFINE R == {<<u, r.k>> : r \in {x \in Elements(client[u].box) : x.kind = "text"}}
           g == [ghost EXCEPT !.renamed = @ \cup R]
<1>1. g = Ending(u, ghost)
  BY DEF Ending
<1> HIDE DEF R
<1>2. DOMAIN g = GhostFields /\ Grows(ghost, g)
  BY DEF GhostFields, Grows
<1> QED BY <1>1, <1>2

\* The ghosts of a crash that sends a text again (A), or before the ratchet is saved.
LEMMA Reuses ==
    ASSUME NEW g, DOMAIN g = GhostFields, Grows(ghost, g), NEW u, NEW A, NEW saved \in BOOLEAN
    PROVE  LET h == [g EXCEPT !.reused = @ \cup {u}]
               k == [g EXCEPT !.again = @ \cup A, !.reused = IF saved THEN @ ELSE @ \cup {u}]
           IN /\ DOMAIN h = GhostFields /\ Grows(ghost, h) /\ u \in h.reused
              /\ DOMAIN k = GhostFields /\ Grows(ghost, k) /\ (~saved => u \in k.reused)
BY DEF GhostFields, Grows

\* The first text of the outbox, and what is left when flushOutbox dies behind it.
LEMMA FlushDies ==
    ASSUME NEW u \in Users, NEW b, Calm(u, b), b.outbox # <<>>, NEW saved \in BOOLEAN, NEW c,
           c = [b EXCEPT !.keyed = TRUE, !.gate = "open"], NEW item, item = Head(c.outbox), NEW g,
           ~saved => u \in g.reused
    PROVE  LET t == [FlushText(c, u, item) EXCEPT !.tx = <<>>]
               d == Restarted(IF saved THEN persistSession(t) ELSE t)
           IN Remains(u, b, d) /\ Last(u, b, d, FlushText(c, u, item).tx, g)
<1> DEFINE t == [FlushText(c, u, item) EXCEPT !.tx = <<>>]
           e == IF saved THEN persistSession(t) ELSE t
           d == Restarted(e)
           F == FlushText(c, u, item).tx
           mid == IF item.mid = <<>> THEN <<u, item.k, c.ids>> ELSE item.mid
           f == Frame("text", mid, 0, c.n, FALSE)
<1>1. Typed(u, b) /\ b.savedN = b.n /\ b.tx = <<>>
  BY DEF Calm, Sound
<1>2. /\ DOMAIN b = Fields /\ b.n \in Nat \ {0} /\ b.next \in Nat /\ b.ids \in Nat
      /\ b.outbox \in Seq(Items(u))
  BY <1>1 DEF Typed
<1>3. DOMAIN c = Fields /\ \A x \in Fields : x \notin {"keyed", "gate"} => c[x] = b[x]
  BY <1>2 DEF Fields
<1>4. /\ c.hist = b.hist /\ c.box = b.box /\ c.nextRid = b.nextRid /\ c.next = b.next /\ c.n = b.n
      /\ c.savedN = b.savedN /\ c.used = b.used /\ c.ids = b.ids /\ c.outbox = b.outbox /\ c.tx = b.tx
  BY <1>3 DEF Fields
<1>5. item \in Items(u)
  BY <1>2, <1>4
<1>6. mid \in MidSet /\ mid[1] = u
  <2>1. item.k \in Nat /\ (item.mid # <<>> => item.mid \in MidSet /\ item.mid[1] = u)
    BY <1>5 DEF Items
  <2> QED BY <1>2, <1>4, <2>1, MidIn
<1>7. F = Append(c.tx, f)
  BY <1>3 DEF FlushText, Write, encryptFor, Fields
<1> HIDE DEF f
<1>8. F = <<f>>
  BY <1>1, <1>4, <1>7
<1>9. /\ DOMAIN t = Fields /\ t.n = c.n + 1
      /\ \A x \in Fields : x \notin {"tx", "n"} => t[x] = c[x]
  BY <1>3 DEF FlushText, Write, encryptFor, Fields
<1> HIDE DEF t, F
<1>10. /\ t.hist = b.hist /\ t.box = b.box /\ t.nextRid = b.nextRid /\ t.next = b.next
       /\ t.savedN = b.savedN /\ t.used = b.used /\ t.ids = b.ids
  BY <1>4, <1>9 DEF Fields
<1>11. /\ e.hist = b.hist /\ e.box = b.box /\ e.nextRid = b.nextRid /\ e.next = b.next
       /\ e.used = b.used /\ e.ids = b.ids
       /\ e.savedN = IF saved THEN t.n ELSE b.savedN
  BY <1>9, <1>10 DEF persistSession, Fields
<1>12. t.n \in Nat \ {0} /\ t.n = b.n + 1 /\ b.savedN \in Nat \ {0}
  BY <1>1, <1>2, <1>4, <1>9
<1>13. e.savedN \in Nat \ {0} /\ (u \notin g.reused => e.savedN = b.n + 1)
  BY <1>11, <1>12
<1> HIDE DEF e
<1>14. Remains(u, b, d) /\ d.n = e.savedN
  BY <1>2, <1>11, <1>13, RestartRemains
<1> HIDE DEF d
<1>15. f = Frame("text", mid, 0, b.n, FALSE)
  BY <1>4 DEF f
<1> HIDE DEF mid
<1>16. Last(u, b, d, <<Frame("text", mid, 0, b.n, FALSE)>>, g)
  BY <1>2, <1>6, <1>13, <1>14, LastText
<1>17. Last(u, b, d, F, g)
  BY <1>8, <1>15, <1>16
<1> QED BY <1>14, <1>17 DEF d, e, t, F

\* What may fail.
LEMMA FailureKeeps ==
    ASSUME Inv, NEW u \in Users,
           Drop(u) \/ Restart(u) \/ CrashInSend(u) \/ \E saved \in BOOLEAN : CrashInFlush(u, saved)
    PROVE  Inv'
<1> DEFINE b == client[u]
           E == Ending(u, ghost)
<1>1. /\ Calm(u, b) /\ b.n \in Nat \ {0} /\ b.savedN = b.n /\ b.next \in Nat /\ b.ids \in Nat
      /\ DOMAIN client = Users /\ DOMAIN ghost = GhostFields
  BY ClientCalm DEF Inv, Held
<1>2. Grows(ghost, ghost) /\ DOMAIN E = GhostFields /\ Grows(ghost, E)
  BY <1>1, Ends DEF Grows
<1> HIDE DEF E
<1>3. CASE Drop(u)
  <2> DEFINE d == onDisconnected(b)
  <2>1. client' = [client EXCEPT ![u] = d] /\ Cut(u, <<>>, ghost)
    BY <1>1, <1>3 DEF Drop
  <2>2. Remains(u, b, d) /\ d.n = b.n
    BY <1>1, DropRemains
  <2> HIDE DEF d
  <2>3. Last(u, b, d, <<>>, ghost)
    BY <2>2 DEF Last
  <2> QED BY <1>1, <1>2, <2>1, <2>2, <2>3, CutKeeps
<1>4. CASE Restart(u)
  <2> DEFINE d == Restarted(b)
  <2>1. client' = [client EXCEPT ![u] = d] /\ Cut(u, <<>>, E)
    BY <1>1, <1>4 DEF Restart, E
  <2>2. Remains(u, b, d) /\ d.n = b.n
    BY <1>1, RestartRemains
  <2> HIDE DEF d
  <2>3. Last(u, b, d, <<>>, E)
    BY <2>2 DEF Last
  <2> QED BY <1>1, <1>2, <2>1, <2>2, <2>3, CutKeeps
<1>5. CASE CrashInSend(u)
  <2> DEFINE e == [b EXCEPT !.next = @ + 1]
             d == Restarted(e)
             mid == <<u, b.next, b.ids>>
             F == <<Frame("text", mid, 0, b.n, FALSE)>>
             g == [E EXCEPT !.reused = @ \cup {u}]
  <2>1. client' = [client EXCEPT ![u] = d] /\ Cut(u, F, g) /\ u \in online
    BY <1>5 DEF CrashInSend, Serving, E
  <2>2. DOMAIN b = Fields
    BY <1>1 DEF Calm, Sound, Typed
  <2>3. /\ e.hist = b.hist /\ e.box = b.box /\ e.nextRid = b.nextRid /\ e.next = b.next + 1
        /\ e.savedN = b.savedN /\ e.used = b.used /\ e.ids = b.ids
    BY <2>2 DEF Fields
  <2>4. e.next \in Nat
    BY <1>1, <2>3
  <2>5. DOMAIN g = GhostFields /\ Grows(ghost, g) /\ u \in g.reused
    BY <1>2, Reuses
  <2>6. mid \in MidSet /\ mid[1] = u
    BY <1>1, MidIn
  <2> HIDE DEF e, g, mid
  <2>7. Remains(u, b, d)
    BY <1>1, <2>3, <2>4, RestartRemains
  <2> HIDE DEF d
  <2>8. Last(u, b, d, F, g)
    BY <1>1, <2>5, <2>6, LastText
  <2> HIDE DEF F
  <2> QED BY <2>1, <2>5, <2>7, <2>8, CutKeeps
<1>6. ASSUME NEW saved \in BOOLEAN, CrashInFlush(u, saved) PROVE Inv'
  <2> DEFINE c == [b EXCEPT !.keyed = TRUE, !.gate = "open"]
             item == Head(c.outbox)
             t == [FlushText(c, u, item) EXCEPT !.tx = <<>>]
             d == Restarted(IF saved THEN persistSession(t) ELSE t)
             F == FlushText(c, u, item).tx
             A == {<<u, item.k>>}
             g == [E EXCEPT !.again = @ \cup A, !.reused = IF saved THEN @ ELSE @ \cup {u}]
  <2>1. client' = [client EXCEPT ![u] = d] /\ Cut(u, F, g) /\ u \in online /\ c.outbox # <<>>
    BY <1>6 DEF CrashInFlush, Serving, E
  <2>2. b.outbox # <<>>
    <3>1. DOMAIN b = Fields
      BY <1>1 DEF Calm, Sound, Typed
    <3> QED BY <2>1, <3>1 DEF Fields
  <2>3. DOMAIN g = GhostFields /\ Grows(ghost, g) /\ (~saved => u \in g.reused)
    <3> HIDE DEF A
    <3> QED BY <1>2, Reuses
  <2> HIDE DEF g
  <2>4. Remains(u, b, d) /\ Last(u, b, d, F, g)
    BY <1>1, <2>2, <2>3, FlushDies
  <2> HIDE DEF d, F
  <2> QED BY <2>1, <2>3, <2>4, CutKeeps
<1> QED BY <1>3, <1>4, <1>5, <1>6
-----------------------------------------------------------------------------
(* The inductive invariant holds.                                           *)

\* A client of an initial state.
Starting(c, settled) ==
    /\ DOMAIN c = Fields /\ c.up = settled /\ c.hi = settled /\ c.ids = 0
    /\ c.hist = <<>> /\ c.screen = <<>> /\ c.box = <<>> /\ c.outbox = <<>> /\ c.tx = <<>>
    /\ c.nextRid = 1 /\ c.next = 1 /\ c.n = 1 /\ c.savedN = 1 /\ c.used = {} /\ c.incoming = {}
    /\ c.told = "none" /\ c.shows = FALSE

LEMMA FreshStarting ==
    ASSUME NEW gate, NEW settled \in BOOLEAN
    PROVE  Starting(IF settled THEN Settled(Fresh(gate)) ELSE Fresh(gate), settled)
<1>1. Starting(Fresh(gate), FALSE)
  BY DEF Starting, Fresh, Fields
<1> DEFINE c == Fresh(gate)
           d == Settled(c)
<1>2. DOMAIN c = Fields
  BY <1>1 DEF Starting
<1> HIDE DEF c
<1>3. /\ DOMAIN d = Fields /\ d.up = TRUE /\ d.hi = TRUE
      /\ \A x \in Fields : x \notin {"up", "hi", "keyed", "active"} => d[x] = c[x]
  BY <1>2 DEF Settled, Fields
<1> HIDE DEF d
<1>4. /\ d.hist = c.hist /\ d.screen = c.screen /\ d.tx = c.tx /\ d.box = c.box /\ d.outbox = c.outbox
      /\ d.nextRid = c.nextRid /\ d.n = c.n /\ d.savedN = c.savedN /\ d.ids = c.ids /\ d.next = c.next
      /\ d.used = c.used /\ d.incoming = c.incoming /\ d.shows = c.shows /\ d.told = c.told
  BY <1>3 DEF Fields
<1>5. Starting(c, FALSE)
  BY <1>1 DEF c
<1>6. Starting(d, TRUE)
  BY <1>3, <1>4, <1>5 DEF Starting
<1> QED BY <1>1, <1>6 DEF d, c

\* Its way: at most the opening frame of the chain is kept for the peer.
LEMMA StartWay ==
    ASSUME NEW u \in Users, NEW settled \in BOOLEAN, NEW c, Starting(c, settled),
           NEW e, Starting(e, settled), NEW s,
           s = <<>> \/ s = <<Frame("handshake", <<>>, 0, 0, FALSE)>>
    PROVE  Way(u, c, <<>>, e, <<>>, s, IF settled THEN Users ELSE {}, Ghosts, {})
<1> DEFINE n == <<>>
           on == IF settled THEN Users ELSE {}
           h == Frame("handshake", <<>>, 0, 0, FALSE)
<1>1. h \in Frames(u) /\ h.kind = "handshake" /\ h.n = 0
  BY DEF Frame, Frames, Kinds, Authored
<1> HIDE DEF h
<1>2. /\ s \in Seq(Frames(u)) /\ \A i \in DOMAIN s : s[i].kind = "handshake" /\ s[i].n = 0 /\ i = 1
  <2>1. CASE s = <<>>
    BY <2>1
  <2>2. CASE s = <<h>>
    <3>1. s \in Seq(Frames(u)) /\ DOMAIN s = {1} /\ s[1] = h
      <4>1. <<h>> \in Seq(Frames(u)) /\ DOMAIN <<h>> = {1} /\ <<h>>[1] = h
        BY <1>1
      <4> QED BY <2>2, <4>1, Zenon
    <3> QED BY <1>1, <3>1
  <2> QED BY <2>1, <2>2 DEF h
<1>3. /\ n \in Seq(Frames(u)) /\ n = <<>> /\ DOMAIN n = {}
      /\ NoHello(n) /\ OneHello(n) /\ \A w, A : Asks(n, w, A)
      /\ \A b \in BOOLEAN : Lit(b, n) <=> b
      /\ \A m, U : Fine(n, m, U)
      /\ \A t : Apart(n, t) /\ Apart(t, n)
  BY NoFrame
<1>4. n \in Seq(Rows(u)) /\ n \in Seq(Items(u))
  OBVIOUS
<1> HIDE DEF n
<1>5. /\ DOMAIN c = Fields /\ c.up = settled /\ c.hi = settled /\ c.ids = 0
      /\ c.hist = n /\ c.screen = n /\ c.box = n /\ c.outbox = n /\ c.tx = n
      /\ c.nextRid = 1 /\ c.next = 1 /\ c.n = 1 /\ c.savedN = 1 /\ c.used = {} /\ c.incoming = {}
      /\ c.told = "none" /\ c.shows = FALSE /\ e.used = {} /\ e.shows = FALSE
  BY <1>3, Zenon DEF Starting
<1>6. Sound(u, c)
  <2>1. Typed(u, c)
    <3>1. c.up \in BOOLEAN /\ c.hi \in BOOLEAN /\ c.shows \in BOOLEAN
      BY <1>5, Zenon
    <3>2. /\ c.n \in Nat \ {0} /\ c.ids \in Nat /\ c.next \in Nat /\ c.nextRid \in Nat
          /\ c.used \subseteq Nat /\ c.incoming \subseteq MidSet \X Nat
      BY <1>5
    <3> QED BY <1>3, <1>4, <1>5, <3>1, <3>2, Zenon DEF Typed
  <2>2. Boxed(c)
    BY <1>3, <1>5 DEF Boxed, Below, Agree
  <2>3. Screened(c)
    BY <1>3, <1>5 DEF Screened
  <2> QED BY <1>5, <2>1, <2>2, <2>3 DEF Sound
<1>7. Shaped(u, c, n, e, n, s, {})
  BY <1>2, <1>3, <1>5, <1>6 DEF Shaped, Stored
<1>8. Linked(u, c, n, n, on)
  BY <1>3, <1>5 DEF Linked
<1>9. ~Ready(c)
  BY <1>3, <1>5 DEF Ready
<1>10. Keyed(c.n, n, n, s, e.used \cup {})
  <2>1. Fine(s, 1, {})
    BY <1>2 DEF Fine, Under, Distinct, Unused
  <2>2. c.n = 1 /\ e.used \cup {} = {}
    BY <1>5
  <2> QED BY <1>3, <2>1, <2>2 DEF Keyed
<1>11. Booked(u, c, n, e, n, s, Ghosts.lost) /\ Graves(u, c.hist, Ghosts.asked)
  BY <1>3, <1>5 DEF Booked, Has, Graves
<1>12. Honest(u, c, n, e, n, on)
  <2>1. ~Lit(e.shows, n) /\ ~Lit(Lit(e.shows, n), n)
    BY <1>3, <1>5 DEF Lit
  <2> QED BY <1>5, <2>1, Zenon DEF Honest
<1>13. Asks(s, u, Ghosts.asked)
  BY <1>2 DEF Asks
<1>14. c.told # "typing"
  BY <1>5
<1>15. Way(u, c, n, e, n, s, on, Ghosts, {})
  BY <1>3, <1>7, <1>8, <1>9, <1>10, <1>11, <1>12, <1>13, <1>14 DEF Way
<1> QED BY <1>15 DEF n, on

LEMMA InitInv == Init => Inv
<1> SUFFICES ASSUME Init PROVE Inv
  OBVIOUS
<1>1. PICK s \in Starts :
        /\ client = [u \in Users |-> IF s.settled THEN Settled(Fresh(s.gate[u])) ELSE Fresh(s.gate[u])]
        /\ out = [u \in Users |-> <<>>]
        /\ wire = [u \in Users |-> <<>>]
        /\ stored = [u \in Users |->
               IF s.gate[u] = "waiting" /\ ~s.settled
               THEN <<Frame("handshake", <<>>, 0, 0, FALSE)>> ELSE <<>>]
        /\ login = [u \in Users |-> NoLogin]
        /\ files = {}
        /\ online = IF s.settled THEN Users ELSE {}
        /\ ghost = Ghosts
  BY DEF Init
<1>2. s.settled \in BOOLEAN
  BY StartsAssumption
<1>3. Held
  <2>1. DOMAIN ghost = GhostFields
    BY <1>1 DEF Ghosts, GhostFields
  <2>2. ASSUME NEW u \in Users PROVE Waiting(u, login[u], stored[u]) /\ login[u].stage = "none"
    <3> DEFINE h == Frame("handshake", <<>>, 0, 0, FALSE)
               W == Frames(Other(u))
    <3>1. h \in W
      BY DEF Frame, Frames, Kinds, Authored
    <3>2. login[u] = NoLogin /\ (stored[u] = <<>> \/ stored[u] = <<h>>)
      BY <1>1
    <3> HIDE DEF h, W
    <3>3. <<>> \in Seq(W) /\ <<h>> \in Seq(W)
      BY <3>1
    <3>4. stored[u] \in Seq(W)
      BY <3>2, <3>3, Zenon
    <3>5. /\ DOMAIN login[u] = {"stage", "batch", "have"} /\ login[u].batch = <<>>
          /\ login[u].stage = "none"
      BY <3>2 DEF NoLogin
    <3> QED BY <3>3, <3>4, <3>5, Zenon DEF Waiting, W
  <2> QED BY <1>1, <2>1, <2>2, FS_EmptySet DEF Held
<1>4. ASSUME NEW u \in Users PROVE WayOf(u)
  <2> DEFINE v == Other(u)
  <2>1. v \in Users
    BY Others
  <2> HIDE DEF v
  <2>2. Starting(client[u], s.settled) /\ Starting(client[v], s.settled)
    BY <1>1, <1>2, <2>1, FreshStarting
  <2>3. stored[v] = <<>> \/ stored[v] = <<Frame("handshake", <<>>, 0, 0, FALSE)>>
    BY <1>1, <2>1
  <2>7. Kept(login[v], stored[v]) = stored[v]
    <3>1. Kept(login[v], stored[v]) = <<>> \o stored[v]
      BY <1>1, <2>1 DEF Kept, NoLogin
    <3>2. stored[v] \in Seq(Frames(Other(v)))
      BY <1>3, <2>1 DEF Held, Waiting
    <3> QED BY <3>1, <3>2, KeptRows, Zenon
  <2>4. Way(u, client[u], <<>>, client[v], <<>>, Kept(login[v], stored[v]), IF s.settled THEN Users ELSE {}, Ghosts, {})
    BY <1>2, <2>2, <2>3, <2>7, StartWay
  <2>5. InitNs(files, u) = {}
    BY <1>1 DEF InitNs
  <2>6. out[u] = <<>> /\ wire[v] = <<>>
    BY <1>1, <2>1
  <2> QED BY <1>1, <2>4, <2>5, <2>6 DEF WayOf, v
<1> QED BY <1>3, <1>4 DEF Inv

LEMMA NextInv == Inv /\ [Next]_vars => Inv'
<1> SUFFICES ASSUME Inv, [Next]_vars PROVE Inv'
  OBVIOUS
<1>1. CASE UNCHANGED vars
  BY <1>1 DEF vars, Inv, Held, WayOf
<1>2. ASSUME NEW u \in Users,
             \/ User(u) \/ Failure(u)
             \/ Verify(u) \/ Connect(u) \/ Hello(u) \/ Read(u)
             \/ RelayTakes(u) \/ FetchBatch(u) \/ SendBacklog(u) \/ LoginDone(u)
      PROVE  Inv'
  <2>1. CASE User(u) \/ SourceVanishes(u) \/ Verify(u) \/ Connect(u) \/ Hello(u)
    BY <2>1, UserKeeps
  <2>2. CASE Drop(u) \/ Restart(u) \/ CrashInSend(u) \/ \E saved \in BOOLEAN : CrashInFlush(u, saved)
    BY <2>2, FailureKeeps
  <2>3. CASE Read(u)
    BY <2>3, ReadKeeps
  <2>4. CASE RelayTakes(u)
    BY <2>4, RelayKeeps
  <2>5. CASE FetchBatch(u) \/ SendBacklog(u) \/ LoginDone(u)
    BY <2>5, FetchKeeps, BacklogKeeps, DoneKeeps
  <2> QED BY <1>2, <2>1, <2>2, <2>3, <2>4, <2>5 DEF Failure
<1> QED BY <1>1, <1>2 DEF Next

\* The inductive invariant holds in every run: each client is consistent with its
\* database (Sound), and what each has written agrees with what the other holds
\* (Way), whatever is composed, lost, read or restarted.
THEOREM Invariant == Spec => []Inv
BY InitInv, NextInv, PTL DEF Spec
-----------------------------------------------------------------------------
(* What follows from it.                                                    *)

\* Nothing typed is lost, in any number of sends, flushes, lost links, restarts
\* and crashes: a text in its author's history is in the outbox table
\* (queueOutbox), on its way, in the peer's history, or had a frame that was
\* refused before hello, on a failed link, skipped by the cursor during a login of
\* the peer, or under a key used again.
THEOREM TextsAccounted == Spec => []Accounted
<1>1. Inv => Accounted
  <2> SUFFICES ASSUME Inv, NEW u \in Users, NEW k \in 1 .. client[u].next - 1, TextRows(u, <<u, k>>) # {}
               PROVE  \/ \E r \in Elements(client[u].box) : r.kind = "text" /\ r.k = k
                      \/ Underway(u, <<u, k>>)
                      \/ TextRows(Other(u), <<u, k>>) # {}
                      \/ <<u, k>> \in ghost.lost
    BY DEF Accounted
  <2> DEFINE v == Other(u)
  <2>1. Way(u, client[u], out[u], client[v], wire[v], Kept(login[v], stored[v]), online, ghost, InitNs(files, u))
    BY DEF Inv, WayOf
  <2>2. \A x, y : Item(x) = <<u, y>> <=> x[1] = u /\ x[2] = y
    BY DEF Item
  <2> HIDE DEF v
  <2>3. Has(client[u].hist, u, k)
    BY <2>2 DEF TextRows, IsText, Has
  <2>4. \/ InBox(client[u], k) \/ Sent(u, out[u], k) \/ Sent(u, wire[v], k)
        \/ Sent(u, login[v].batch, k) \/ Sent(u, stored[v], k)
        \/ Has(client[v].hist, u, k) \/ <<u, k>> \in ghost.lost
    <3> DEFINE s == Kept(login[v], stored[v])
    <3>1. login[v].batch \in Seq(Frames(u)) /\ stored[v] \in Seq(Frames(u))
      <4>1. v \in Users /\ Other(v) = u
        BY Others DEF v
      <4> QED BY <4>1 DEF Inv, Held, Waiting
    <3>2. Join(Frames(u), login[v].batch, stored[v], s)
      BY <3>1, Joined DEF Kept
    <3> HIDE DEF s
    <3>3. Sent(u, s, k) => Sent(u, login[v].batch, k) \/ Sent(u, stored[v], k)
      BY <3>2, JoinEach
    <3>4. \/ InBox(client[u], k) \/ Sent(u, out[u], k) \/ Sent(u, wire[v], k) \/ Sent(u, s, k)
          \/ Has(client[v].hist, u, k) \/ <<u, k>> \in ghost.lost
      BY <2>1, <2>3 DEF Way, Booked, s
    <3> QED BY <3>3, <3>4
  <2>5. InBox(client[u], k) => \E r \in Elements(client[u].box) : r.kind = "text" /\ r.k = k
    BY DEF InBox, Elements
  <2>6. Sent(u, out[u], k) \/ Sent(u, wire[v], k) \/ Sent(u, login[v].batch, k) \/ Sent(u, stored[v], k)
           => Underway(u, <<u, k>>)
    <3>1. ASSUME NEW s, Sent(u, s, k)
          PROVE  \E x \in Elements(s) : x.kind = "text" /\ Item(x.mid) = <<u, k>>
      <4>1. PICK i \in DOMAIN s : s[i].kind = "text" /\ s[i].mid[1] = u /\ s[i].mid[2] = k
        BY <3>1 DEF Sent
      <4>2. s[i] \in Elements(s) /\ Item(s[i].mid) = <<u, k>>
        BY <2>2, <4>1 DEF Elements
      <4> QED BY <4>1, <4>2
    <3> QED BY <3>1 DEF Underway, v
  <2>7. Has(client[v].hist, u, k) => TextRows(v, <<u, k>>) # {}
    <3> SUFFICES ASSUME Has(client[v].hist, u, k) PROVE TextRows(v, <<u, k>>) # {}
      OBVIOUS
    <3>1. PICK i \in DOMAIN client[v].hist :
             /\ client[v].hist[i].kind = "text"
             /\ client[v].hist[i].mid[1] = u /\ client[v].hist[i].mid[2] = k
      BY DEF Has
    <3>2. Item(client[v].hist[i].mid) = <<u, k>>
      BY <2>2, <3>1
    <3> QED BY <3>1, <3>2 DEF TextRows, IsText
  <2> QED BY <2>4, <2>5, <2>6, <2>7 DEF v
<1> QED BY <1>1, Invariant, PTL

\* A wakeup is never missed: the handlers of hello, of the keys frame, of a first
\* message and of a verification drain the outbox, and no item is queued or put
\* back while it could be sent; only a file_init opens the gate without a flush.
THEOREM NothingWaits == Spec => []NothingStranded
<1>1. Inv => NothingStranded
  <2> SUFFICES ASSUME Inv, NEW u \in Users, client[u].hi, client[u].keyed, client[u].gate = "open",
                      client[u].outbox # <<>>
               PROVE  u \in ghost.opened
    BY DEF NothingStranded
  <2>1. Ready(client[u])
    BY DEF Ready
  <2> QED BY <2>1 DEF Inv, WayOf, Way
<1> QED BY <1>1, Invariant, PTL

\* The screen, but for the notices of lost links, agrees with the history after every
\* method: the message model and the history table are changed in the same places by
\* sends, edits, deletions, reactions, reads and reloads.
THEOREM ScreenAgrees == Spec => []ScreenIsHistory
<1>1. Inv => ScreenIsHistory
  <2> SUFFICES ASSUME Inv, NEW u \in Users, client[u].active
               PROVE  LET c == client[u] IN
                      /\ Len(c.screen) = Len(c.hist)
                      /\ \A i \in DOMAIN c.hist :
                            /\ c.screen[i].kind = c.hist[i].kind /\ c.screen[i].mid = c.hist[i].mid
                            /\ Alone(c.hist, i) =>
                                  /\ c.screen[i].body = c.hist[i].body
                                  /\ c.screen[i].edited = c.hist[i].edited
                                  /\ c.screen[i].me => <<c.hist[i].mid, "me">> \in c.react
                                  /\ c.screen[i].peer => <<c.hist[i].mid, "peer">> \in c.react
    BY DEF ScreenIsHistory
  <2>1. Screened(client[u])
    BY ClientCalm DEF Calm, Sound
  <2> QED BY <2>1 DEF Screened, Same, Agrees
<1> QED BY <1>1, Invariant, PTL

\* The typing indicator goes out: the idle frame, the message itself or the
\* presence of a peer that left clears it, unless this user lost the link.
THEOREM IndicatorGoesOut == Spec => []IndicatorHonest
<1>1. Inv => IndicatorHonest
  <2> SUFFICES ASSUME Inv, NEW v \in Users, client[v].shows, wire[v] = <<>>, out[Other(v)] = <<>>,
                      v \notin ghost.blind
               PROVE  client[Other(v)].armed
    BY DEF IndicatorHonest
  <2> DEFINE u == Other(v)
  <2>1. u \in Users /\ Other(u) = v
    BY Others
  <2>2. Way(u, client[u], out[u], client[v], wire[v], Kept(login[v], stored[v]), online, ghost, InitNs(files, u))
    BY <2>1 DEF Inv, WayOf
  <2> HIDE DEF u
  <2>3. Lit(Lit(client[v].shows, wire[v]), out[u]) => client[u].told = "typing"
    BY <2>1, <2>2 DEF Way, Honest
  <2>4. DOMAIN wire[v] = {} /\ DOMAIN out[u] = {}
    BY DEF u
  <2>5. Lit(Lit(client[v].shows, wire[v]), out[u])
    BY <2>4 DEF Lit
  <2>6. client[u].armed
    BY <2>2, <2>3, <2>5 DEF Way
  <2> QED BY <2>6 DEF u
<1> QED BY <1>1, Invariant, PTL

\* A tombstone was asked for: deleteForMe and deleteForEveryone of the device's
\* owner, or the author's retraction, make it, and no relayed frame does otherwise.
THEOREM GravesAsked == Spec => []TombstonesAsked
<1>1. Inv => TombstonesAsked
  <2> SUFFICES ASSUME Inv, NEW u \in Users, NEW r \in Elements(client[u].hist), r.deleted
               PROVE  \E w \in {u, r.mid[1]} : <<w, r.mid>> \in ghost.asked
    BY DEF TombstonesAsked
  <2>1. Graves(u, client[u].hist, ghost.asked)
    BY DEF Inv, WayOf, Way
  <2> QED BY <2>1 DEF Graves, Elements
<1> QED BY <1>1, Invariant, PTL
=============================================================================

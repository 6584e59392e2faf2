----------------------- MODULE RelayDelivery_proofs -----------------------
(***************************************************************************)
(* Proofs about RelayDelivery, and that it implements Mailbox, for every   *)
(* set of users and sockets, every batch size, and histories of any length *)
(* and any number of failures.                                             *)
(***************************************************************************)
EXTENDS RelayDelivery, FiniteSetTheorems, SequenceTheorems, TLAPS

USE NickAssumption, AccountsAssumption, LimitAssumption, BoundAssumption

\* What the finally clause and the closing of the socket do to the types.
LEMMA ExitType ==
    ASSUME TypeOK, NEW s \in Socks, Exit(s)
    PROVE  TypeOK'
  BY DEF TypeOK, Exit, finally_online, NoRelay, Frame

\* The rows of a batch are ids of the messages table.
LEMMA BatchRows ==
    ASSUME TypeOK, NEW n
    PROVE  history_for(n) \subseteq 1 .. Len(messages)
  BY DEF history_for, Backlog, Ids

\* A frame written to a socket is a row id and a user, whatever the socket's state.
LEMMA PutType ==
    ASSUME TypeOK, NEW t, NEW n \in Nicks, NEW id \in 1 .. MaxMessages, Put(t, n, id)
    PROVE  wire' \in [Socks -> Seq(Sent)]
<1> DEFINE S == Seq(Sent)
           w == IF link[t] = "open" THEN Append(wire[t], <<n, id>>) ELSE wire[t]
<1>1. wire \in [Socks -> S]
  BY DEF TypeOK
<1>2. wire' = [wire EXCEPT ![t] = w]
  BY DEF Put
<1>3. CASE t \in Socks
  <2>1. wire[t] \in S /\ <<n, id>> \in Sent
    BY <1>1, <1>3 DEF Sent
  <2>2. Append(wire[t], <<n, id>>) \in S
    BY <2>1, AppendProperties
  <2>3. w \in S
    BY <2>1, <2>2
  <2> HIDE DEF S, w
  <2> QED BY <1>1, <1>2, <2>3 DEF S
<1>4. CASE t \notin Socks
  <2> HIDE DEF S, w
  <2> QED BY <1>1, <1>2, <1>4 DEF S
<1> QED BY <1>3, <1>4

\* The cursor of a user stays within the ids, whichever one it is moved to.
LEMMA CursorType ==
    ASSUME TypeOK, NEW n, NEW id \in 1 .. MaxMessages, advance_cursor(n, id)
    PROVE  cursor' \in [Nicks -> 0 .. MaxMessages]
<1> DEFINE c == IF id > cursor[n] THEN id ELSE cursor[n]
<1>1. cursor \in [Nicks -> 0 .. MaxMessages] /\ cursor' = [cursor EXCEPT ![n] = c]
  BY DEF TypeOK, advance_cursor
<1>2. n \in Nicks => c \in 0 .. MaxMessages
  BY <1>1
<1> HIDE DEF c
<1> QED BY <1>1, <1>2

\* What a login does to the types, under whatever nick.
LEMMA BindType ==
    ASSUME TypeOK, NEW s \in Socks, NEW n \in Nicks \cup {None}, Bind(s, n)
    PROVE  /\ nick' \in [Socks -> Nicks \cup {None}] /\ online' \in [Nicks -> Socks \cup {None}]
           /\ pc' \in [Socks -> {"off", "serve", "evict", "login", "drain", "relay", "done"}]
           /\ round' \in [Socks -> 0 .. DrainCap] /\ former' \in [Socks -> SUBSET Nicks]
<1>1. former' = [former EXCEPT ![s] = (former[s] \cup {nick[s]}) \ {n, None}]
  BY DEF Bind
<1>2. (former[s] \cup {nick[s]}) \ {n, None} \subseteq Nicks
  BY DEF TypeOK
<1>3. former' \in [Socks -> SUBSET Nicks]
  BY <1>1, <1>2 DEF TypeOK
<1>4. nick' \in [Socks -> Nicks \cup {None}] /\ online' \in [Nicks -> Socks \cup {None}]
  BY DEF Bind, TypeOK
<1>5. pc' \in [Socks -> {"off", "serve", "evict", "login", "drain", "relay", "done"}]
  BY DEF Bind, TypeOK
<1>6. round' \in [Socks -> 0 .. DrainCap]
  BY DEF Bind, TypeOK
<1> QED BY <1>3, <1>4, <1>5, <1>6

\* A coroutine that logs in, drains or relays does so under a nick, and a live send
\* is to one.
NickTaken ==
    \A s \in Socks :
        /\ pc[s] = "evict" => new_nick[s] \in Nicks
        /\ pc[s] \in {"login", "drain", "relay"} => nick[s] \in Nicks
        /\ relay[s].id # 0 => relay[s].to \in Nicks

\* Every step keeps the types of the tables, of the locals of the coroutines and
\* of the wire.
LEMMA TypeStep == TypeOK /\ NickTaken /\ [Next]_vars => TypeOK'
<1> SUFFICES ASSUME TypeOK, NickTaken, [Next]_vars PROVE TypeOK'
  OBVIOUS
<1> USE DEF TypeOK
<1>0. \A s \in Socks : /\ pc[s] = "drain" => nick[s] \in Nicks
                       /\ relay[s].id # 0 => relay[s].to \in Nicks
  BY DEF NickTaken
<1>1. CASE UNCHANGED vars
  BY <1>1 DEF vars, Frame
<1>2. ASSUME NEW s \in Socks, EvictDone(s) PROVE TypeOK'
  <2>1. /\ nick' \in [Socks -> Nicks \cup {None}] /\ online' \in [Nicks -> Socks \cup {None}]
        /\ pc' \in [Socks -> {"off", "serve", "evict", "login", "drain", "relay", "done"}]
        /\ round' \in [Socks -> 0 .. DrainCap] /\ former' \in [Socks -> SUBSET Nicks]
    BY <1>2, BindType DEF EvictDone
  <2>2. new_nick' \in [Socks -> Nicks \cup {None}]
    BY <1>2 DEF EvictDone
  <2> QED BY <1>2, <2>1, <2>2 DEF EvictDone
<1>3. ASSUME NEW s \in Socks, LoginSend(s) PROVE TypeOK'
  <2>1. CASE Exit(s)
    BY <2>1, ExitType
  <2>2. CASE ~Exit(s)
    BY <1>3, <2>2 DEF LoginSend, Frame
  <2> QED BY <2>1, <2>2
<1>4. ASSUME NEW s \in Socks, FetchBatch(s) PROVE TypeOK'
  <2> DEFINE rows == history_for(nick[s])
  <2>1. rows \subseteq 1 .. MaxMessages
    BY BatchRows
  <2> HIDE DEF rows
  <2>2. CASE UNCHANGED <<cursor, batch, round, taken>>
    BY <1>4, <2>2 DEF FetchBatch, Frame
  <2>3. CASE ~UNCHANGED <<cursor, batch, round, taken>>
    <3>1. /\ round[s] < DrainCap
          /\ batch' = [batch EXCEPT ![s] = rows]
          /\ round' = [round EXCEPT ![s] = @ + 1]
          /\ taken' = [taken EXCEPT ![s] = @ \cup ({nick[s]} \X rows)]
          /\ \E top \in rows : advance_cursor(nick[s], top)
          /\ UNCHANGED <<pc, messages, online, nick, new_nick, link, relay, wire, received,
                         former, again, failures>>
      BY <1>4, <2>3 DEF FetchBatch, rows
    <3>2. cursor' \in [Nicks -> 0 .. MaxMessages]
      BY <2>1, <3>1, CursorType
    <3>3. batch' \in [Socks -> SUBSET (1 .. MaxMessages)]
      BY <2>1, <3>1
    <3>4. taken' \in [Socks -> SUBSET Sent]
      <4>1. nick[s] \in Nicks
        BY <1>4, <1>0 DEF FetchBatch
      <4>2. {nick[s]} \X rows \subseteq Sent
        BY <2>1, <4>1 DEF Sent
      <4> QED BY <3>1, <4>2
    <3>5. round' \in [Socks -> 0 .. DrainCap]
      BY <3>1
    <3> QED BY <3>1, <3>2, <3>3, <3>4, <3>5 DEF Frame
  <2> QED BY <2>2, <2>3
<1>5. ASSUME NEW s \in Socks, SendBacklog(s) PROVE TypeOK'
  <2>1. CASE Exit(s)
    BY <2>1, ExitType
  <2>2. CASE ~Exit(s)
    <3>1. PICK id \in batch[s] : /\ batch' = [batch EXCEPT ![s] = rest_of_batch(s, id)]
                                 /\ Put(s, nick[s], id)
      BY <1>5, <2>2 DEF SendBacklog
    <3>2. wire' \in [Socks -> Seq(Sent)]
      <4>1. nick[s] \in Nicks
        BY <1>5, <1>0 DEF SendBacklog
      <4> QED BY <3>1, <4>1, PutType
    <3>3. batch' \in [Socks -> SUBSET (1 .. MaxMessages)]
      BY <3>1 DEF rest_of_batch
    <3> QED BY <1>5, <2>2, <3>2, <3>3 DEF SendBacklog, Frame
  <2> QED BY <2>1, <2>2
<1>6. ASSUME NEW s \in Socks, RelaySent(s) PROVE TypeOK'
  <2>1. /\ pc' \in [Socks -> {"off", "serve", "evict", "login", "drain", "relay", "done"}]
        /\ relay' \in [Socks -> [id : 0 .. MaxMessages, to : Nicks \cup {None},
                                target : Socks \cup {None}]]
    BY <1>6 DEF RelaySent, NoRelay
  <2>2. /\ wire' \in [Socks -> Seq(Sent)]
        /\ cursor' \in [Nicks -> 0 .. MaxMessages]
    <3>1. CASE relay[s].id = 0
      BY <1>6, <3>1 DEF RelaySent
    <3>2. CASE relay[s].id # 0
      <4>1. relay[s].id \in 1 .. MaxMessages /\ relay[s].to \in Nicks
        BY <1>0, <3>2
      <4> QED BY <1>6, <3>2, <4>1, PutType, CursorType DEF RelaySent
    <3> QED BY <3>1, <3>2
  <2> QED BY <1>6, <2>1, <2>2 DEF RelaySent, Frame
<1>7. ASSUME NEW s \in Socks, RelayRaise(s) \/ HandlerEnds(s) PROVE TypeOK'
  BY <1>7, ExitType DEF RelayRaise, HandlerEnds
<1>8. ASSUME NEW s \in Socks, Connect(s) PROVE TypeOK'
  BY <1>8 DEF Connect, Frame
<1>9. ASSUME NEW s \in Socks, NEW n \in Nicks, Hello(s, n) PROVE TypeOK'
  <2>0. again' \in 0 .. MaxAgain
    BY <1>9 DEF Hello
  <2>1. CASE online[n] \in {None, s}
    <3>1. /\ nick' \in [Socks -> Nicks \cup {None}] /\ online' \in [Nicks -> Socks \cup {None}]
          /\ pc' \in [Socks -> {"off", "serve", "evict", "login", "drain", "relay", "done"}]
          /\ round' \in [Socks -> 0 .. DrainCap] /\ former' \in [Socks -> SUBSET Nicks]
      BY <1>9, <2>1, BindType DEF Hello
    <3> QED BY <1>9, <2>0, <2>1, <3>1 DEF Hello, Frame
  <2>2. CASE online[n] \notin {None, s}
    <3>1. /\ link' = [link EXCEPT ![online[n]] = "closed"]
          /\ new_nick' = [new_nick EXCEPT ![s] = n]
          /\ pc' = [pc EXCEPT ![s] = "evict"]
          /\ UNCHANGED <<nick, online, round, former, messages, cursor, batch, relay, wire,
                         received, taken, failures>>
      BY <1>9, <2>2 DEF Hello
    <3>2. /\ new_nick' \in [Socks -> Nicks \cup {None}]
          /\ pc' \in [Socks -> {"off", "serve", "evict", "login", "drain", "relay", "done"}]
      BY <3>1
    <3>3. link' \in [Socks -> {"new", "open", "dead", "closed"}]
      BY <3>1
    <3> QED BY <2>0, <3>1, <3>2, <3>3 DEF Frame
  <2> QED BY <2>1, <2>2
<1>10. ASSUME NEW s \in Socks, NEW r \in Nicks, RelayStored(s, r) PROVE TypeOK'
  <2>1. messages' \in Seq(Frame) /\ Len(messages') <= MaxMessages
    BY <1>10 DEF RelayStored, Frame
  <2>2. CASE online[r] = None
    BY <1>10, <2>1, <2>2 DEF RelayStored, Frame
  <2>3. CASE online[r] # None
    <3> DEFINE id == Len(messages) + 1
               t == online[r]
    <3>1. id \in 1 .. MaxMessages /\ t \in Socks
      BY <1>10, <2>3 DEF RelayStored
    <3>a. /\ taken' = [taken EXCEPT ![t] = taken[t] \cup {<<r, id>>}]
          /\ relay' = [relay EXCEPT ![s] = [id |-> id, to |-> r, target |-> t]]
      BY <1>10, <2>3 DEF RelayStored, live_send
    <3> HIDE DEF id, t
    <3>2. taken' \in [Socks -> SUBSET Sent]
      <4>1. <<r, id>> \in Sent
        BY <3>1 DEF Sent
      <4> QED BY <3>1, <3>a, <4>1
    <3>3. relay' \in [Socks -> [id : 0 .. MaxMessages, to : Nicks \cup {None},
                                target : Socks \cup {None}]]
      BY <3>1, <3>a
    <3> QED BY <1>10, <2>1, <2>3, <3>2, <3>3 DEF RelayStored, Frame
  <2> QED BY <2>2, <2>3
<1>11. ASSUME NEW s \in Socks, NEW r \in Nicks, RelayEphemeral(s, r) PROVE TypeOK'
  BY <1>11 DEF RelayEphemeral, live_send, Frame
<1>12. ASSUME NEW s \in Socks, ClientRead(s) PROVE TypeOK'
  <2>1. wire[s] \in Seq(Sent) /\ wire[s] # <<>>
    BY <1>12 DEF ClientRead
  <2>2. Head(wire[s]) \in Sent /\ Tail(wire[s]) \in Seq(Sent)
    BY <2>1, HeadTailProperties
  <2>3. wire' \in [Socks -> Seq(Sent)]
    BY <1>12, <2>2 DEF ClientRead
  <2>4. Head(wire[s])[1] \in Nicks /\ Head(wire[s])[2] \in 1 .. MaxMessages
    BY <2>2 DEF Sent
  <2>5. received' \in [Nicks -> SUBSET (1 .. MaxMessages)]
    <3>1. received' = [received EXCEPT ![Head(wire[s])[1]] = @ \cup {Head(wire[s])[2]}]
      BY <1>12 DEF ClientRead
    <3> QED BY <2>4, <3>1
  <2> QED BY <1>12, <2>3, <2>5 DEF ClientRead, Frame
<1>13. ASSUME NEW s \in Socks, KeepaliveTimeout(s) PROVE TypeOK'
  BY <1>13 DEF KeepaliveTimeout, Frame
<1>14. ASSUME NEW s \in Socks, NEW new \in {"dead", "closed"}, LinkFails(s, new)
       PROVE TypeOK'
  <2>1. wire' \in [Socks -> Seq(Sent)]
    BY <1>14 DEF LinkFails
  <2> QED BY <1>14, <2>1 DEF LinkFails, Frame
<1> QED
  BY <1>1, <1>2, <1>3, <1>4, <1>5, <1>6, <1>7, <1>8, <1>9, <1>10, <1>11, <1>12,
     <1>13, <1>14
  DEF Next, Server, Client, Network

\* The nicks that coroutines work under stay nicks.
LEMMA TakenStep == TypeOK /\ NickTaken /\ [Next]_vars => NickTaken'
<1> SUFFICES ASSUME TypeOK, NickTaken, [Next]_vars PROVE NickTaken'
  OBVIOUS
<1>1. ASSUME \A q \in Socks :
               /\ nick'[q] = nick[q] /\ new_nick'[q] = new_nick[q]
               /\ pc'[q] \in {"evict", "login", "drain", "relay"} =>
                     pc'[q] = pc[q] \/ (pc'[q] # "evict" /\ nick[q] \in Nicks)
               /\ relay'[q] = relay[q] \/ relay'[q].id = 0 \/ relay'[q].to \in Nicks
      PROVE  NickTaken'
  BY <1>1 DEF NickTaken
<1>2. ASSUME NEW s \in Socks, Exit(s) PROVE NickTaken'
  <2>1. \A q \in Socks :
               /\ nick'[q] = nick[q] /\ new_nick'[q] = new_nick[q]
               /\ pc'[q] = pc[q] \/ pc'[q] = "done"
               /\ relay'[q] = relay[q] \/ relay'[q].id = 0
    BY <1>2 DEF Exit, TypeOK, NoRelay
  <2> QED BY <1>1, <2>1
<1>3. ASSUME NEW s \in Socks, EvictDone(s) PROVE NickTaken'
  BY <1>3 DEF EvictDone, Bind, TypeOK, NickTaken
<1>4. ASSUME NEW s \in Socks, NEW n \in Nicks, Hello(s, n) PROVE NickTaken'
  <2>1. CASE online[n] \in {None, s}
    BY <1>4, <2>1 DEF Hello, Bind, TypeOK, NickTaken
  <2>2. CASE online[n] \notin {None, s}
    BY <1>4, <2>2 DEF Hello, TypeOK, NickTaken
  <2> QED BY <2>1, <2>2
<1>5. ASSUME NEW s \in Socks, LoginSend(s), ~Exit(s) PROVE NickTaken'
  BY <1>5 DEF LoginSend, TypeOK, NickTaken
<1>6. ASSUME NEW s \in Socks, FetchBatch(s) PROVE NickTaken'
  <2>1. /\ UNCHANGED <<nick, new_nick, relay>>
        /\ UNCHANGED pc \/ pc' = [pc EXCEPT ![s] = "serve"]
    BY <1>6 DEF FetchBatch
  <2> QED BY <2>1 DEF TypeOK, NickTaken
<1>7. ASSUME NEW s \in Socks, SendBacklog(s), ~Exit(s) PROVE NickTaken'
  BY <1>7 DEF SendBacklog, NickTaken
<1>8. ASSUME NEW s \in Socks, RelaySent(s) PROVE NickTaken'
  BY <1>8 DEF RelaySent, TypeOK, NickTaken, NoRelay
<1>9. ASSUME NEW s \in Socks, Connect(s) \/ Network(s) PROVE NickTaken'
  BY <1>9 DEF Connect, Network, ClientRead, KeepaliveTimeout, LinkFails, TypeOK, NickTaken
<1>10. ASSUME NEW s \in Socks, NEW r \in Nicks, RelayStored(s, r) PROVE NickTaken'
  <2>1. /\ UNCHANGED <<nick, new_nick>> /\ nick[s] \in Nicks
        /\ \A q \in Socks : q # s => pc'[q] = pc[q] /\ relay'[q] = relay[q]
        /\ pc'[s] \in {"serve", "relay"} /\ (relay'[s] = relay[s] \/ relay'[s].to = r)
    BY <1>10 DEF RelayStored, live_send, TypeOK
  <2> QED BY <1>1, <2>1
<1>11. ASSUME NEW s \in Socks, NEW r \in Nicks, RelayEphemeral(s, r) PROVE NickTaken'
  <2>1. /\ UNCHANGED <<nick, new_nick>> /\ nick[s] \in Nicks
        /\ \A q \in Socks : q # s => pc'[q] = pc[q] /\ relay'[q] = relay[q]
        /\ pc'[s] = "relay" /\ relay'[s].id = 0
    BY <1>11 DEF RelayEphemeral, live_send, TypeOK
  <2> QED BY <1>1, <2>1
<1>12. CASE UNCHANGED vars
  BY <1>12 DEF vars, NickTaken
<1>13. ASSUME NEW s \in Socks, RelayRaise(s) \/ HandlerEnds(s) PROVE NickTaken'
  BY <1>2, <1>13 DEF RelayRaise, HandlerEnds
<1> QED BY <1>2, <1>3, <1>4, <1>5, <1>6, <1>7, <1>8, <1>9, <1>10, <1>11, <1>12, <1>13
        DEF Next, Server, Client


\* The tables, the locals and the wire keep their types in every behaviour of the
\* relay, whatever fails and however the coroutines interleave.
THEOREM TypeCorrect == Spec => []TypeOK
<1>1. Init => TypeOK /\ NickTaken
  BY DEF Init, TypeOK, NickTaken, NoRelay, Frame
<1>2. TypeOK /\ NickTaken /\ [Next]_vars => TypeOK' /\ NickTaken'
  BY TypeStep, TakenStep
<1> QED
  BY <1>1, <1>2, PTL DEF Spec

---------------------------------------------------------------------------
\* What the finally clause leaves behind: entries that name the ended coroutine only
\* under nicks that its socket had left.
LEMMA ExitServing ==
    ASSUME TypeOK, OnlineServing, NEW s \in Socks, Exit(s)
    PROVE  OnlineServing'
  BY DEF TypeOK, OnlineServing, Running, Exit, finally_online

\* A login enters the socket under the new nick; an entry under the nick it had
\* before becomes one of a nick it has left.
LEMMA BindServing ==
    ASSUME TypeOK, OnlineServing, NEW s \in Socks, NEW b \in Nicks, Bind(s, b)
    PROVE  OnlineServing'
<1> SUFFICES ASSUME NEW n \in Nicks, NEW t, t = online'[n], t # None
             PROVE  (Running(t)' /\ nick'[t] = n) \/ n \in former'[t]
  BY DEF OnlineServing, Running
<1>0. former' = [former EXCEPT ![s] = (former[s] \cup {nick[s]}) \ {b, None}]
  BY DEF Bind
<1>1. CASE n = b
  <2>1. t = s /\ nick'[s] = n /\ pc'[s] = "login"
    BY <1>1 DEF Bind, TypeOK
  <2> QED BY <2>1 DEF Running
<1>2. CASE n # b
  <2>1. t = online[n] /\ t \in Socks
    BY <1>2 DEF Bind, TypeOK
  <2>2. (Running(t) /\ nick[t] = n) \/ n \in former[t]
    BY <2>1 DEF OnlineServing
  <2>3. CASE t = s
    <3>1. n \in former[s] \cup {nick[s]}
      BY <2>2, <2>3
    <3>2. n \in former'[s]
      BY <1>0, <1>2, <3>1 DEF TypeOK
    <3> QED BY <2>3, <3>2
  <2>4. CASE t # s
    <3>1. former'[t] = former[t]
      BY <1>0, <2>1, <2>4 DEF TypeOK
    <3>2. nick'[t] = nick[t] /\ pc'[t] = pc[t]
      BY <2>1, <2>4 DEF Bind, TypeOK
    <3> QED BY <2>2, <3>1, <3>2 DEF Running
  <2> QED BY <2>3, <2>4
<1> QED BY <1>1, <1>2

\* Every step keeps the presence table truthful.
LEMMA ServingStep == TypeOK /\ NickTaken /\ OnlineServing /\ [Next]_vars => OnlineServing'
<1> SUFFICES ASSUME TypeOK, NickTaken, OnlineServing, [Next]_vars PROVE OnlineServing'
  OBVIOUS
<1>0. ASSUME UNCHANGED <<nick, online, former>>,
             \A q \in Socks : pc'[q] = pc[q] \/ Running(q)'
      PROVE  OnlineServing'
  <2>1. \A n \in Nicks : online[n] # None => online[n] \in Socks
    BY DEF TypeOK
  <2> QED BY <1>0, <2>1 DEF OnlineServing, Running
<1>1. CASE UNCHANGED vars
  BY <1>0, <1>1 DEF vars
<1>2. ASSUME NEW s \in Socks, EvictDone(s) PROVE OnlineServing'
  <2>1. Bind(s, new_nick[s]) /\ new_nick[s] \in Nicks
    BY <1>2 DEF EvictDone, NickTaken
  <2> QED BY <2>1, BindServing
<1>3. ASSUME NEW s \in Socks, LoginSend(s) \/ FetchBatch(s) \/ SendBacklog(s) \/ RelaySent(s),
             ~Exit(s)
      PROVE  OnlineServing'
  <2>1. /\ UNCHANGED <<nick, online, former>>
        /\ UNCHANGED pc \/ \E new \in {"serve", "drain"} : pc' = [pc EXCEPT ![s] = new]
    BY <1>3 DEF LoginSend, FetchBatch, SendBacklog, RelaySent
  <2>2. \A q \in Socks : pc'[q] = pc[q] \/ Running(q)'
    BY <2>1 DEF Running, TypeOK
  <2> QED BY <1>0, <2>1, <2>2
<1>4. ASSUME NEW s \in Socks, RelayRaise(s) \/ HandlerEnds(s) PROVE OnlineServing'
  BY <1>4, ExitServing DEF RelayRaise, HandlerEnds
<1>5. ASSUME NEW s \in Socks, Connect(s) PROVE OnlineServing'
  <2>1. \A q \in Socks : pc'[q] = pc[q] \/ Running(q)'
    BY <1>5 DEF Connect, Running, TypeOK
  <2> QED BY <1>0, <1>5, <2>1 DEF Connect
<1>6. ASSUME NEW s \in Socks, NEW n \in Nicks, Hello(s, n) PROVE OnlineServing'
  <2>1. CASE Bind(s, n)
    BY <2>1, BindServing
  <2>2. CASE ~Bind(s, n)
    <3>1. UNCHANGED <<nick, online, former>> /\ pc' = [pc EXCEPT ![s] = "evict"]
      BY <1>6, <2>2 DEF Hello
    <3>2. \A q \in Socks : pc'[q] = pc[q] \/ Running(q)'
      BY <3>1 DEF Running, TypeOK
    <3> QED BY <1>0, <3>1, <3>2
  <2> QED BY <2>1, <2>2
<1>7. ASSUME NEW s \in Socks, NEW r \in Nicks, RelayStored(s, r) \/ RelayEphemeral(s, r)
      PROVE  OnlineServing'
  <2>1. /\ UNCHANGED <<nick, online, former>>
        /\ UNCHANGED pc \/ pc' = [pc EXCEPT ![s] = "relay"]
    BY <1>7 DEF RelayStored, RelayEphemeral
  <2>2. \A q \in Socks : pc'[q] = pc[q] \/ Running(q)'
    BY <2>1 DEF Running, TypeOK
  <2> QED BY <1>0, <2>1, <2>2
<1>8. ASSUME NEW s \in Socks, Network(s) PROVE OnlineServing'
  BY <1>0, <1>8 DEF Network, ClientRead, KeepaliveTimeout, LinkFails
<1> QED
  BY <1>1, <1>2, <1>3, <1>4, <1>5, <1>6, <1>7, <1>8, ExitServing DEF Next, Server, Client

\* The nicks that coroutines work under are nicks in every behaviour.
LEMMA NickTakenHolds == Spec => []NickTaken
<1>1. Init => NickTaken
  BY DEF Init, NickTaken, NoRelay
<1> QED BY <1>1, TakenStep, TypeCorrect, PTL DEF Spec

\* self.online names a coroutine that runs under that nick, or a socket that said
\* hello under it and then under another: the finally clause and the identity test
\* in it are enough for every other entry, although a second login closes the first
\* socket and does not wait for its coroutine.
THEOREM OnlineServingHolds == Spec => []OnlineServing
<1>1. Init => OnlineServing
  BY DEF Init, OnlineServing
<1> QED
  BY <1>1, ServingStep, TypeCorrect, NickTakenHolds, PTL DEF Spec

\* No step of any coroutine moves a delivery cursor backward.
THEOREM CursorMonotonicHolds == Spec => CursorMonotonic
<1>1. TypeOK /\ [Next]_vars => [\A n \in Nicks : cursor'[n] >= cursor[n]]_vars
  <2> SUFFICES ASSUME TypeOK, Next PROVE \A n \in Nicks : cursor'[n] >= cursor[n]
    OBVIOUS
  <2>1. CASE UNCHANGED cursor
    BY <2>1 DEF TypeOK
  <2>2. ASSUME NEW n, NEW id \in 1 .. MaxMessages, advance_cursor(n, id)
        PROVE  \A m \in Nicks : cursor'[m] >= cursor[m]
    BY <2>2 DEF TypeOK, advance_cursor
  <2>3. ASSUME NEW s \in Socks, FetchBatch(s), ~UNCHANGED cursor
        PROVE  \E n : \E id \in 1 .. MaxMessages : advance_cursor(n, id)
    <3>1. history_for(nick[s]) \subseteq 1 .. MaxMessages
      BY BatchRows DEF TypeOK
    <3> QED BY <2>3, <3>1 DEF FetchBatch
  <2>4. ASSUME NEW s \in Socks, RelaySent(s), ~UNCHANGED cursor
        PROVE  \E n : \E id \in 1 .. MaxMessages : advance_cursor(n, id)
    <3>1. relay[s].id # 0 /\ relay[s].id \in 0 .. MaxMessages
      BY <2>4 DEF RelaySent, TypeOK
    <3>2. relay[s].id \in 1 .. MaxMessages
      BY <3>1
    <3>3. advance_cursor(relay[s].to, relay[s].id)
      BY <2>4, <3>1 DEF RelaySent
    <3> QED BY <3>2, <3>3
  <2>5. UNCHANGED cursor \/ \E s \in Socks : FetchBatch(s) \/ RelaySent(s)
    BY DEF Next, Server, Client, Network, EvictDone, LoginSend, SendBacklog,
           RelayRaise, HandlerEnds, Exit, Connect, Hello, RelayStored, RelayEphemeral,
           ClientRead, KeepaliveTimeout, LinkFails
  <2> QED BY <2>1, <2>2, <2>3, <2>4, <2>5
<1> QED
  BY <1>1, TypeCorrect, PTL DEF Spec, CursorMonotonic

---------------------------------------------------------------------------
\* TakenAccounted is not inductive: a coroutine that is not relaying must hold no
\* live send (or a new one could overwrite it), an id that is not stored yet must
\* be taken by nobody, and a socket must come up with nothing taken for it; and a
\* coroutine that changes its nick must have no batch left that it fetched before.
Bookkeeping ==
    \A s \in Socks :
        /\ pc[s] # "relay" => relay[s] = NoRelay
        /\ pc[s] # "drain" => batch[s] = {}
        /\ \A f \in taken[s] : f[2] \in Ids
        /\ link[s] = "new" => pc[s] = "off" /\ taken[s] = {} /\ former[s] = {}

\* What the exit of a coroutine leaves of the bookkeeping.
LEMMA ExitBooks ==
    ASSUME TypeOK, Bookkeeping, NEW s \in Socks, Exit(s)
    PROVE  Bookkeeping'
  BY DEF TypeOK, Bookkeeping, Exit, Ids

\* Every step keeps the bookkeeping.
LEMMA BooksStep == TypeOK /\ OnlineServing /\ Bookkeeping /\ [Next]_vars => Bookkeeping'
<1> SUFFICES ASSUME TypeOK, OnlineServing, Bookkeeping, [Next]_vars PROVE Bookkeeping'
  OBVIOUS
<1> USE DEF TypeOK, Bookkeeping, Ids
<1>1. CASE UNCHANGED vars
  BY <1>1 DEF vars, NoRelay
<1>2. ASSUME NEW s \in Socks, EvictDone(s) PROVE Bookkeeping'
  BY <1>2 DEF EvictDone, Bind, NoRelay
<1>3. ASSUME NEW s \in Socks, LoginSend(s) PROVE Bookkeeping'
  <2>1. CASE Exit(s)
    BY <2>1, ExitBooks
  <2>2. CASE ~Exit(s)
    BY <1>3, <2>2 DEF LoginSend, NoRelay
  <2> QED BY <2>1, <2>2
<1>4. ASSUME NEW s \in Socks, FetchBatch(s) PROVE Bookkeeping'
  <2>1. history_for(nick[s]) \subseteq 1 .. Len(messages)
    BY BatchRows
  <2>2. /\ pc[s] = "drain" /\ UNCHANGED <<messages, link, relay, former>>
        /\ (UNCHANGED pc /\ \A q \in Socks : q # s => batch'[q] = batch[q])
             \/ (pc' = [pc EXCEPT ![s] = "serve"] /\ UNCHANGED batch /\ batch[s] = {})
        /\ UNCHANGED taken \/
           taken' = [taken EXCEPT ![s] = @ \cup ({nick[s]} \X history_for(nick[s]))]
    BY <1>4 DEF FetchBatch
  <2>3. \A q \in Socks : q # s => taken'[q] = taken[q]
    BY <2>2
  <2>4. \A f \in taken'[s] : f[2] \in Ids
    <3>1. \A f \in {nick[s]} \X history_for(nick[s]) : f[2] \in Ids
      BY <2>1
    <3> QED BY <2>2, <3>1
  <2> QED BY <2>2, <2>3, <2>4 DEF NoRelay
<1>5. ASSUME NEW s \in Socks, SendBacklog(s) PROVE Bookkeeping'
  <2>1. CASE Exit(s)
    BY <2>1, ExitBooks
  <2>2. CASE ~Exit(s)
    <3>1. /\ pc[s] = "drain" /\ UNCHANGED <<messages, taken, link, relay, former, pc>>
          /\ \A q \in Socks : q # s => batch'[q] = batch[q]
      BY <1>5, <2>2 DEF SendBacklog
    <3> QED BY <3>1 DEF NoRelay
  <2> QED BY <2>1, <2>2
<1>6. ASSUME NEW s \in Socks, RelaySent(s) PROVE Bookkeeping'
  BY <1>6 DEF RelaySent, NoRelay
<1>7. ASSUME NEW s \in Socks, RelayRaise(s) \/ HandlerEnds(s) PROVE Bookkeeping'
  BY <1>7, ExitBooks DEF RelayRaise, HandlerEnds
<1>8. ASSUME NEW s \in Socks, Connect(s) PROVE Bookkeeping'
  BY <1>8 DEF Connect, NoRelay
<1>9. ASSUME NEW s \in Socks, NEW n \in Nicks, Hello(s, n) PROVE Bookkeeping'
  <2>1. CASE online[n] \in {None, s}
    <3>1. /\ UNCHANGED <<messages, batch, relay, taken, link>> /\ pc[s] = "serve"
          /\ link[s] = "open"
          /\ pc' = [pc EXCEPT ![s] = "login"]
          /\ \A q \in Socks : q # s => former'[q] = former[q]
      BY <1>9, <2>1 DEF Hello, Bind
    <3> QED BY <3>1 DEF NoRelay
  <2>2. CASE online[n] \notin {None, s}
    BY <1>9, <2>2 DEF Hello, NoRelay
  <2> QED BY <2>1, <2>2
<1>10. ASSUME NEW s \in Socks, NEW r \in Nicks, RelayStored(s, r) PROVE Bookkeeping'
  <2>1. messages' \in Seq(Frame) /\ Len(messages') = Len(messages) + 1
    BY <1>10 DEF RelayStored, Frame
  <2>2. CASE online[r] = None
    BY <1>10, <2>1, <2>2 DEF RelayStored, NoRelay
  <2>3. CASE online[r] # None
    <3> DEFINE id == Len(messages) + 1
               t == online[r]
    <3>1. t \in Socks /\ link[t] # "new"
      <4>1. t \in Socks /\ (Running(t) \/ r \in former[t])
        BY <2>3 DEF OnlineServing
      <4> HIDE DEF t
      <4> QED BY <4>1 DEF Running
    <3>2. /\ taken' = [taken EXCEPT ![t] = taken[t] \cup {<<r, id>>}]
          /\ \A q \in Socks : q # s => relay'[q] = relay[q] /\ pc'[q] = pc[q]
          /\ pc[s] = "serve" /\ pc'[s] = "relay"
          /\ UNCHANGED <<link, batch, former>>
      BY <1>10, <2>3 DEF RelayStored
    <3>4. <<r, id>>[2] = id
      OBVIOUS
    <3>5. id \in 1 .. Len(messages')
      BY <2>1
    <3> HIDE DEF t, id
    <3>3. \A q \in Socks : \A f \in taken'[q] : f[2] \in 1 .. Len(messages')
      <4> SUFFICES ASSUME NEW q \in Socks, NEW f \in taken'[q] PROVE f[2] \in 1 .. Len(messages')
        OBVIOUS
      <4>1. f \in taken[q] \/ f = <<r, id>>
        BY <3>1, <3>2
      <4>2. CASE f \in taken[q]
        BY <2>1, <4>2
      <4> QED BY <3>4, <3>5, <4>1, <4>2
    <3> QED BY <3>1, <3>2, <3>3 DEF NoRelay
  <2> QED BY <2>2, <2>3
<1>11. ASSUME NEW s \in Socks, NEW r \in Nicks, RelayEphemeral(s, r) PROVE Bookkeeping'
  BY <1>11 DEF RelayEphemeral, NoRelay
<1>12. ASSUME NEW s \in Socks, Network(s) PROVE Bookkeeping'
  BY <1>12 DEF Network, ClientRead, KeepaliveTimeout, LinkFails, NoRelay
<1> QED
  BY <1>1, <1>2, <1>3, <1>4, <1>5, <1>6, <1>7, <1>8, <1>9, <1>10, <1>11, <1>12
  DEF Next, Server, Client

\* A step that takes nothing and opens no link keeps TakenAccounted when what is on
\* its way over an open link stays so or is read.
LEMMA AccountedKept ==
    ASSUME TakenAccounted,
           UNCHANGED taken,
           \A s \in Socks : link'[s] = "open" => link[s] = "open",
           \A n \in Nicks : received[n] \subseteq received'[n],
           \A s \in Socks, n \in Nicks, id \in 1 .. MaxMessages :
               OnItsWay(s, n, id) /\ link'[s] = "open"
                   => OnItsWay(s, n, id)' \/ id \in received'[n]
    PROVE  TakenAccounted'
<1> SUFFICES ASSUME NEW s \in Socks, NEW f \in Sent, f \in taken[s], link'[s] = "open"
             PROVE  f[2] \in received'[f[1]] \/ OnItsWay(s, f[1], f[2])'
  BY DEF TakenAccounted
<1>1. f[2] \in received[f[1]] \/ OnItsWay(s, f[1], f[2])
  BY DEF TakenAccounted
<1>2. f[1] \in Nicks /\ f[2] \in 1 .. MaxMessages
  BY DEF Sent
<1> QED BY <1>1, <1>2

\* A live send of an ended coroutine is one that its recipient's link has failed.
LEMMA ExitAccounted ==
    ASSUME TypeOK, TakenAccounted, NEW s \in Socks, Exit(s),
           relay[s] = NoRelay \/ link[relay[s].target] = "closed"
    PROVE  TakenAccounted'
<1>1. /\ UNCHANGED <<taken, received, wire, nick>>
      /\ \A q \in Socks : link'[q] = "open" => link[q] = "open" /\ q # s
      /\ \A q \in Socks : q # s => batch'[q] = batch[q] /\ relay'[q] = relay[q]
  BY DEF Exit, TypeOK
<1>2. ASSUME NEW q \in Socks, NEW n \in Nicks, NEW id \in 1 .. MaxMessages,
             OnItsWay(q, n, id), link'[q] = "open"
      PROVE  OnItsWay(q, n, id)'
  <2>1. link[q] = "open" /\ q # s
    BY <1>1, <1>2
  <2>2. ~(relay[s].id = id /\ relay[s].target = q)
    BY <2>1 DEF NoRelay
  <2> QED BY <1>1, <1>2, <2>1, <2>2 DEF OnItsWay
<1> QED BY <1>1, <1>2, AccountedKept

\* The frame for n with this id is among those written to s and not yet read.
OnWire(s, n, id) == \E k \in 1 .. Len(wire[s]) : wire[s][k] = <<n, id>>

\* Put on an open link adds the frame to what is on its way and drops nothing.
LEMMA PutOnItsWay ==
    ASSUME TypeOK, NEW t, NEW b \in Nicks, NEW new \in 1 .. MaxMessages, Put(t, b, new),
           NEW s \in Socks
    PROVE  /\ \A n, id : OnWire(s, n, id) => OnWire(s, n, id)'
           /\ s = t /\ link[t] = "open" => OnWire(s, b, new)'
<1> DEFINE w == wire[s]
           e == <<b, new>>
<1>1. w \in Seq(Sent) /\ e \in Sent
  BY DEF TypeOK, Sent
<1>2. CASE s = t /\ link[t] = "open"
  <2>1. wire'[s] = Append(w, e)
    BY <1>2 DEF Put, TypeOK
  <2> HIDE DEF e, w
  <2>2. /\ Len(Append(w, e)) = Len(w) + 1 /\ Append(w, e)[Len(w) + 1] = e
        /\ \A k \in 1 .. Len(w) : Append(w, e)[k] = w[k]
        /\ Len(w) \in Nat
    BY <1>1, AppendProperties, LenProperties
  <2>5. OnWire(s, b, new)'
    <3>1. Len(w) + 1 \in 1 .. Len(wire'[s])
      BY <2>1, <2>2
    <3> QED BY <2>1, <2>2, <3>1 DEF OnWire, e
  <2>6. ASSUME NEW n, NEW id, NEW k \in 1 .. Len(w), w[k] = <<n, id>>
        PROVE  OnWire(s, n, id)'
    <3>1. k \in 1 .. Len(wire'[s]) /\ wire'[s][k] = <<n, id>>
      BY <2>1, <2>2, <2>6
    <3> QED BY <3>1 DEF OnWire
  <2> QED BY <2>5, <2>6 DEF OnWire, w
<1>3. CASE ~(s = t /\ link[t] = "open")
  <2>1. wire'[s] = wire[s]
    BY <1>3 DEF Put, TypeOK
  <2> QED BY <1>3, <2>1 DEF OnWire
<1> QED BY <1>2, <1>3

\* The client takes the first frame off its socket.
LEMMA ReadOnly ==
    ASSUME TypeOK, NEW s \in Socks, ClientRead(s)
    PROVE  \E n \in Nicks, id \in 1 .. MaxMessages :
           /\ OnWire(s, n, id)
           /\ received' = [received EXCEPT ![n] = @ \cup {id}]
           /\ \A q \in Socks : \A m, i : OnWire(q, m, i)' => OnWire(q, m, i)
           /\ \A q \in Socks : \A m, i :
                 OnWire(q, m, i) => OnWire(q, m, i)' \/ (q = s /\ m = n /\ i = id)
<1> DEFINE w == wire[s]
           h == Head(w)
<1>1. w \in Seq(Sent) /\ w # <<>> /\ wire' = [wire EXCEPT ![s] = Tail(w)]
  BY DEF TypeOK, ClientRead
<1>2. \A q \in Socks : q # s => wire'[q] = wire[q]
  BY <1>1
<1>3. wire'[s] = Tail(w)
  BY <1>1 DEF TypeOK
<1>r. received' = [received EXCEPT ![h[1]] = received[h[1]] \cup {h[2]}]
  BY DEF ClientRead
<1> HIDE DEF w
<1>4. /\ Len(w) \in Nat /\ Len(w) >= 1 /\ Len(Tail(w)) = Len(w) - 1 /\ Head(w) = w[1]
      /\ \A k \in 1 .. Len(Tail(w)) : Tail(w)[k] = w[k + 1]
      /\ Head(w) \in Sent
  <2>1. Len(w) \in Nat /\ Len(w) # 0
    BY <1>1, EmptySeq, LenProperties
  <2> QED BY <1>1, <2>1, HeadTailProperties
<1>h. /\ h[1] \in Nicks /\ h[2] \in 1 .. MaxMessages /\ h = <<h[1], h[2]>>
  BY <1>4 DEF Sent
<1>5. OnWire(s, h[1], h[2])
  <2>1. 1 \in 1 .. Len(w) /\ w[1] = <<h[1], h[2]>>
    BY <1>4, <1>h
  <2> QED BY <2>1 DEF OnWire, w
<1>6. ASSUME NEW m, NEW i, OnWire(s, m, i)' PROVE OnWire(s, m, i)
  <2>1. PICK k \in 1 .. Len(Tail(w)) : Tail(w)[k] = <<m, i>>
    BY <1>3, <1>6 DEF OnWire
  <2>2. k + 1 \in 1 .. Len(w) /\ w[k + 1] = <<m, i>>
    BY <1>4, <2>1
  <2> QED BY <2>2 DEF OnWire, w
<1>7. ASSUME NEW m, NEW i, OnWire(s, m, i), ~(m = h[1] /\ i = h[2]) PROVE OnWire(s, m, i)'
  <2>1. PICK k \in 1 .. Len(w) : w[k] = <<m, i>>
    BY <1>7 DEF OnWire, w
  <2>2. k - 1 \in 1 .. Len(Tail(w)) /\ Tail(w)[k - 1] = w[(k - 1) + 1] /\ (k - 1) + 1 = k
    <3>0. <<m, i>> # h
      <4>1. <<m, i>>[1] = m /\ <<m, i>>[2] = i
        OBVIOUS
      <4> QED BY <1>7, <4>1
    <3>1. k # 1
      BY <1>4, <2>1, <3>0
    <3>2. k - 1 \in 1 .. Len(Tail(w)) /\ (k - 1) + 1 = k
      BY <1>4, <3>1
    <3> QED BY <1>4, <3>2
  <2>3. Tail(w)[k - 1] = <<m, i>>
    BY <2>1, <2>2
  <2> QED BY <1>3, <2>2, <2>3 DEF OnWire
<1>8. ASSUME NEW q \in Socks, q # s, NEW m, NEW i PROVE OnWire(q, m, i)' <=> OnWire(q, m, i)
  BY <1>2, <1>8 DEF OnWire
<1>9. /\ OnWire(s, h[1], h[2])
      /\ \A q \in Socks : \A m, i : OnWire(q, m, i)' => OnWire(q, m, i)
      /\ \A q \in Socks : \A m, i :
            OnWire(q, m, i) => OnWire(q, m, i)' \/ (q = s /\ m = h[1] /\ i = h[2])
  <2> HIDE DEF h
  <2> QED BY <1>5, <1>6, <1>7, <1>8
<1>10. \E n \in Nicks, id \in 1 .. MaxMessages : n = h[1] /\ id = h[2]
  BY <1>h
<1>11. PICK n \in Nicks, id \in 1 .. MaxMessages : n = h[1] /\ id = h[2]
  BY <1>10
<1> HIDE DEF h
<1>12. received' = [received EXCEPT ![n] = received[n] \cup {id}]
  BY <1>r, <1>11
<1>13. OnWire(s, n, id)
  BY <1>9, <1>11
<1>14. \A q \in Socks : \A m, i :
           OnWire(q, m, i) => OnWire(q, m, i)' \/ (q = s /\ m = n /\ i = id)
  BY <1>9, <1>11
<1> DEFINE P(m, i) == /\ OnWire(s, m, i)
                      /\ received' = [received EXCEPT ![m] = received[m] \cup {i}]
                      /\ \A q \in Socks : \A x, y : OnWire(q, x, y)' => OnWire(q, x, y)
                      /\ \A q \in Socks : \A x, y :
                            OnWire(q, x, y) => OnWire(q, x, y)' \/ (q = s /\ x = m /\ y = i)
<1>15. P(n, id)
  BY <1>9, <1>12, <1>13, <1>14
<1>16. \E m \in Nicks, i \in 1 .. MaxMessages : P(m, i)
  <2> HIDE DEF P
  <2> QED BY <1>15
<1> QED BY <1>16

\* Every step keeps account of the frames that were taken on.
LEMMA AccountedStep ==
    TypeOK /\ NickTaken /\ OnlineServing /\ Bookkeeping /\ TakenAccounted /\ [Next]_vars
        => TakenAccounted'
<1> SUFFICES ASSUME TypeOK, NickTaken, OnlineServing, Bookkeeping, TakenAccounted, [Next]_vars
             PROVE  TakenAccounted'
  OBVIOUS
<1>a. ASSUME UNCHANGED <<taken, received, wire, batch, relay>>,
             \A s \in Socks : nick'[s] = nick[s] \/ batch[s] = {},
             \A s \in Socks : link'[s] = "open" => link[s] = "open"
      PROVE  TakenAccounted'
  <2>1. \A s \in Socks, n \in Nicks, id \in 1 .. MaxMessages :
            OnItsWay(s, n, id) => OnItsWay(s, n, id)'
    BY <1>a DEF OnItsWay
  <2> QED BY <1>a, <2>1, AccountedKept
<1>1. CASE UNCHANGED vars
  BY <1>1, <1>a DEF vars
<1>2. ASSUME NEW s \in Socks, EvictDone(s) PROVE TakenAccounted'
  <2>1. /\ UNCHANGED <<taken, received, wire, batch, relay, link>> /\ batch[s] = {}
        /\ \A q \in Socks : q # s => nick'[q] = nick[q]
    BY <1>2 DEF EvictDone, Bind, Bookkeeping, TypeOK
  <2> QED BY <2>1, <1>a
<1>3. ASSUME NEW s \in Socks, LoginSend(s) PROVE TakenAccounted'
  <2>1. pc[s] = "login" /\ relay[s] = NoRelay
    BY <1>3 DEF LoginSend, Bookkeeping
  <2>2. CASE Exit(s)
    BY <2>1, <2>2, ExitAccounted
  <2>3. CASE ~Exit(s)
    BY <1>3, <2>3, <1>a DEF LoginSend
  <2> QED BY <2>2, <2>3
<1>4. ASSUME NEW s \in Socks, FetchBatch(s) PROVE TakenAccounted'
  <2> DEFINE rows == history_for(nick[s])
  <2>1. UNCHANGED <<received, wire, relay, link, nick>> /\ batch[s] = {}
    BY <1>4 DEF FetchBatch
  <2>2. CASE UNCHANGED <<batch, taken>>
    BY <2>1, <2>2, <1>a
  <2>3. CASE ~UNCHANGED <<batch, taken>>
    <3>1. /\ batch' = [batch EXCEPT ![s] = rows]
          /\ taken' = [taken EXCEPT ![s] = taken[s] \cup ({nick[s]} \X rows)]
      BY <1>4, <2>3 DEF FetchBatch
    <3> HIDE DEF rows
    <3>2. ASSUME NEW q \in Socks, NEW f \in Sent, f \in taken'[q]
          PROVE  f[2] \in received[f[1]] \/ OnItsWay(q, f[1], f[2])' \/ link[q] # "open"
      <4>1. CASE f \in taken[q]
        <5>1. f[2] \in received[f[1]] \/ OnItsWay(q, f[1], f[2]) \/ link[q] # "open"
          BY <3>2, <4>1 DEF TakenAccounted
        <5>2. OnItsWay(q, f[1], f[2]) => OnItsWay(q, f[1], f[2])'
          BY <2>1, <3>1 DEF OnItsWay, TypeOK
        <5> QED BY <5>1, <5>2
      <4>2. CASE f \notin taken[q]
        <5>1. q = s /\ f \in {nick[s]} \X rows
          BY <3>1, <3>2, <4>2 DEF TypeOK
        <5>2. f[1] = nick[s] /\ f[2] \in rows /\ batch'[s] = rows
          BY <3>1, <5>1 DEF TypeOK
        <5> QED BY <2>1, <5>1, <5>2 DEF OnItsWay
      <4> QED BY <4>1, <4>2
    <3> QED BY <2>1, <3>2 DEF TakenAccounted
  <2> QED BY <2>2, <2>3
<1>5. ASSUME NEW s \in Socks, SendBacklog(s) PROVE TakenAccounted'
  <2>1. relay[s] = NoRelay /\ nick[s] \in Nicks
    BY <1>5 DEF SendBacklog, Bookkeeping, NickTaken
  <2>2. CASE Exit(s)
    BY <2>1, <2>2, ExitAccounted
  <2>3. CASE ~Exit(s)
    <3>1. PICK sent \in batch[s] :
              batch' = [batch EXCEPT ![s] = batch[s] \ {sent}] /\ Put(s, nick[s], sent)
      BY <1>5, <2>3 DEF SendBacklog, rest_of_batch
    <3>2. UNCHANGED <<taken, received, relay, link, nick>>
      BY <1>5, <2>3 DEF SendBacklog
    <3>3. sent \in 1 .. MaxMessages
      BY DEF TypeOK
    <3>4. ASSUME NEW q \in Socks, NEW n \in Nicks, NEW id \in 1 .. MaxMessages,
                 OnItsWay(q, n, id), link'[q] = "open"
          PROVE  OnItsWay(q, n, id)'
      <4>1. CASE q = s /\ n = nick[s] /\ id = sent
        <5>1. OnWire(q, n, id)'
          BY <2>1, <3>1, <3>2, <3>3, <3>4, <4>1, PutOnItsWay
        <5> QED BY <5>1 DEF OnItsWay, OnWire
      <4>2. CASE ~(q = s /\ n = nick[s] /\ id = sent)
        <5>1. nick[q] = n /\ id \in batch[q] => id \in batch'[q]
          BY <3>1, <4>2 DEF TypeOK
        <5>2. OnWire(q, n, id) => OnWire(q, n, id)'
          BY <2>1, <3>1, <3>3, PutOnItsWay
        <5> QED BY <3>2, <3>4, <5>1, <5>2 DEF OnItsWay, OnWire
      <4> QED BY <4>1, <4>2
    <3> QED BY <3>2, <3>4, AccountedKept
  <2> QED BY <2>2, <2>3
<1>6. ASSUME NEW s \in Socks, RelaySent(s) PROVE TakenAccounted'
  <2>1. /\ relay' = [relay EXCEPT ![s] = NoRelay]
        /\ UNCHANGED <<taken, received, batch, link, nick>>
    BY <1>6 DEF RelaySent
  <2>2. ASSUME NEW q \in Socks, NEW n \in Nicks, NEW id \in 1 .. MaxMessages,
               OnItsWay(q, n, id), link'[q] = "open"
        PROVE  OnItsWay(q, n, id)'
    <3>1. \/ relay[s].id = 0 /\ UNCHANGED wire
          \/ /\ relay[s].id \in 1 .. MaxMessages /\ relay[s].to \in Nicks
             /\ Put(relay[s].target, relay[s].to, relay[s].id)
      <4>1. relay[s].id \in 0 .. MaxMessages
        BY DEF TypeOK
      <4>2. \/ relay[s].id = 0 /\ UNCHANGED wire
            \/ relay[s].id # 0 /\ Put(relay[s].target, relay[s].to, relay[s].id)
        BY <1>6 DEF RelaySent, send_target
      <4>3. relay[s].id # 0 => relay[s].id \in 1 .. MaxMessages /\ relay[s].to \in Nicks
        BY <4>1 DEF NickTaken
      <4> QED BY <4>2, <4>3
    <3>2. OnWire(q, n, id) => OnWire(q, n, id)'
      <4>1. CASE UNCHANGED wire
        BY <4>1 DEF OnWire
      <4> QED BY <3>1, <4>1, PutOnItsWay
    <3>3. CASE relay[s].id = id /\ relay[s].to = n /\ relay[s].target = q
      <4>1. Put(q, n, id) /\ link[q] = "open"
        BY <2>1, <2>2, <3>1, <3>3
      <4>2. OnWire(q, n, id)'
        BY <4>1, PutOnItsWay
      <4> QED BY <4>2 DEF OnItsWay, OnWire
    <3>4. CASE ~(relay[s].id = id /\ relay[s].to = n /\ relay[s].target = q)
      <4>1. (\E p \in Socks : relay[p].id = id /\ relay[p].to = n /\ relay[p].target = q)
               => \E p \in Socks : relay'[p].id = id /\ relay'[p].to = n /\ relay'[p].target = q
        BY <2>1, <3>4 DEF TypeOK
      <4> QED BY <2>1, <2>2, <3>2, <4>1 DEF OnItsWay, OnWire
    <3> QED BY <3>3, <3>4
  <2> QED BY <2>1, <2>2, AccountedKept
<1>7. ASSUME NEW s \in Socks, RelayRaise(s) PROVE TakenAccounted'
  BY <1>7, ExitAccounted DEF RelayRaise
<1>8. ASSUME NEW s \in Socks, HandlerEnds(s) PROVE TakenAccounted'
  <2>1. relay[s] = NoRelay /\ Exit(s)
    BY <1>8 DEF HandlerEnds, Bookkeeping
  <2> QED BY <2>1, ExitAccounted
<1>9. ASSUME NEW s \in Socks, Connect(s) PROVE TakenAccounted'
  <2>1. taken[s] = {}
    BY <1>9 DEF Connect, Bookkeeping
  <2>2. /\ UNCHANGED <<taken, received, wire, batch, relay, nick>>
        /\ \A q \in Socks : q # s => link'[q] = link[q]
    BY <1>9 DEF Connect, TypeOK
  <2>3. \A q \in Socks : \A n, id : OnItsWay(q, n, id) => OnItsWay(q, n, id)'
    BY <2>2 DEF OnItsWay
  <2>4. ASSUME NEW q \in Socks, NEW f \in Sent, f \in taken[q]
        PROVE  f[2] \in received[f[1]] \/ OnItsWay(q, f[1], f[2]) \/ link'[q] # "open"
    BY <2>1, <2>2, <2>4 DEF TakenAccounted
  <2> QED BY <2>2, <2>3, <2>4 DEF TakenAccounted
<1>10. ASSUME NEW s \in Socks, NEW n \in Nicks, Hello(s, n) PROVE TakenAccounted'
  <2>1. \A q \in Socks : link'[q] = "open" => link[q] = "open"
    <3>1. UNCHANGED link \/ \E e : link' = [link EXCEPT ![e] = "closed"]
      BY <1>10 DEF Hello
    <3> QED BY <3>1 DEF TypeOK
  <2>2. batch[s] = {} /\ \A q \in Socks : q # s => nick'[q] = nick[q]
    BY <1>10 DEF Hello, Bind, Bookkeeping, TypeOK
  <2> QED BY <1>10, <2>1, <2>2, <1>a DEF Hello
<1>11. ASSUME NEW s \in Socks, NEW r \in Nicks, RelayStored(s, r) PROVE TakenAccounted'
  <2> DEFINE new == Len(messages) + 1
             t == online[r]
  <2>1. /\ UNCHANGED <<received, wire, batch, link, nick>>
        /\ relay[s] = NoRelay
    BY <1>11 DEF RelayStored, Bookkeeping
  <2>2. relay[s].id = 0
    BY <2>1 DEF NoRelay
  <2>3. /\ \A q \in Socks : q # s => relay'[q] = relay[q]
        /\ \A q \in Socks : taken'[q] = taken[q] \/
              (/\ taken'[q] = taken[q] \cup {<<r, new>>}
               /\ relay'[s].id = new /\ relay'[s].to = r /\ relay'[s].target = q)
    <3>1. CASE t = None
      BY <1>11, <3>1 DEF RelayStored
    <3>2. CASE t # None
      <4>1. /\ relay' = [relay EXCEPT ![s] = [id |-> new, to |-> r, target |-> t]]
            /\ taken' = [taken EXCEPT ![t] = taken[t] \cup {<<r, new>>}]
        BY <1>11, <3>2 DEF RelayStored, live_send
      <4> HIDE DEF new, t
      <4>2. relay \in [Socks -> [id : 0 .. MaxMessages, to : Nicks \cup {None},
                                 target : Socks \cup {None}]]
            /\ taken \in [Socks -> SUBSET Sent]
        BY DEF TypeOK
      <4> QED BY <4>1, <4>2
    <3> QED BY <3>1, <3>2
  <2>4. <<r, new>>[1] = r /\ <<r, new>>[2] = new
    OBVIOUS
  <2> HIDE DEF new, t
  <2>5. ASSUME NEW q \in Socks, NEW f \in Sent, f \in taken'[q], link[q] = "open"
        PROVE  f[2] \in received[f[1]] \/ OnItsWay(q, f[1], f[2])'
    <3>1. CASE f \notin taken[q]
      <4>1. f = <<r, new>> /\ relay'[s].id = new /\ relay'[s].to = r /\ relay'[s].target = q
        BY <2>3, <2>5, <3>1
      <4>2. relay'[s].id = f[2] /\ relay'[s].to = f[1] /\ relay'[s].target = q
        BY <2>4, <4>1
      <4> QED BY <4>2 DEF OnItsWay
    <3>2. CASE f \in taken[q]
      <4>2. f[2] \in received[f[1]] \/ OnItsWay(q, f[1], f[2])
        BY <2>5, <3>2 DEF TakenAccounted
      <4>3. relay[s].id # f[2]
        BY <2>2 DEF Sent
      <4>4. OnItsWay(q, f[1], f[2]) => OnItsWay(q, f[1], f[2])'
        BY <2>1, <2>3, <4>3 DEF OnItsWay
      <4> QED BY <4>2, <4>4
    <3> QED BY <3>1, <3>2
  <2> QED BY <2>1, <2>5 DEF TakenAccounted
<1>12. ASSUME NEW s \in Socks, NEW r \in Nicks, RelayEphemeral(s, r) PROVE TakenAccounted'
  <2>1. /\ UNCHANGED <<taken, received, wire, batch, link, nick>>
        /\ relay[s] = NoRelay
        /\ \A q \in Socks : q # s => relay'[q] = relay[q]
    BY <1>12 DEF RelayEphemeral, Bookkeeping, TypeOK
  <2>2. \A id \in 1 .. MaxMessages : relay[s].id # id
    BY <2>1 DEF NoRelay
  <2>3. \A q \in Socks, n \in Nicks, id \in 1 .. MaxMessages :
            OnItsWay(q, n, id) => OnItsWay(q, n, id)'
    BY <2>1, <2>2 DEF OnItsWay
  <2> QED BY <2>1, <2>3, AccountedKept
<1>13. ASSUME NEW s \in Socks, ClientRead(s) PROVE TakenAccounted'
  <2>1. UNCHANGED <<taken, batch, relay, link, nick>>
    BY <1>13 DEF ClientRead
  <2>2. PICK b \in Nicks, i \in 1 .. MaxMessages :
           /\ received' = [received EXCEPT ![b] = @ \cup {i}]
           /\ \A q \in Socks : \A m, j :
                 OnWire(q, m, j) => OnWire(q, m, j)' \/ (q = s /\ m = b /\ j = i)
    BY <1>13, ReadOnly
  <2>3. i \in received'[b] /\ \A n \in Nicks : received[n] \subseteq received'[n]
    BY <2>2 DEF TypeOK
  <2>4. ASSUME NEW q \in Socks, NEW n \in Nicks, NEW id \in 1 .. MaxMessages, OnItsWay(q, n, id)
        PROVE  OnItsWay(q, n, id)' \/ id \in received'[n]
    <3>1. OnWire(q, n, id) => OnWire(q, n, id)' \/ (n = b /\ id = i)
      BY <2>2
    <3> QED BY <2>1, <2>3, <2>4, <3>1 DEF OnItsWay, OnWire
  <2> QED BY <2>1, <2>3, <2>4, AccountedKept
<1>14. ASSUME NEW s \in Socks, KeepaliveTimeout(s) PROVE TakenAccounted'
  <2>1. \A q \in Socks : link'[q] = "open" => link[q] = "open"
    BY <1>14 DEF KeepaliveTimeout, TypeOK
  <2> QED BY <1>14, <2>1, <1>a DEF KeepaliveTimeout
<1>15. ASSUME NEW s \in Socks, NEW new \in {"dead", "closed"}, LinkFails(s, new)
       PROVE  TakenAccounted'
  <2>1. /\ UNCHANGED <<taken, received, batch, relay, nick>>
        /\ \A q \in Socks : q # s => wire'[q] = wire[q] /\ link'[q] = link[q]
        /\ link'[s] # "open"
    BY <1>15 DEF LinkFails, TypeOK
  <2>2. \A q \in Socks : \A n, id : OnItsWay(q, n, id) /\ link'[q] = "open" => OnItsWay(q, n, id)'
    BY <2>1 DEF OnItsWay
  <2> QED BY <2>1, <2>2, AccountedKept
<1> QED
  BY <1>1, <1>2, <1>3, <1>4, <1>5, <1>6, <1>7, <1>8, <1>9, <1>10, <1>11, <1>12,
     <1>13, <1>14, <1>15
  DEF Next, Server, Client, Network

\* No frame is dropped on a healthy link, for any number of users, sockets and
\* messages: what the relay took on for a socket of the recipient, by a live send
\* or in a batch of the drain, has been read or is on its way there.
THEOREM TakenAccountedHolds == Spec => []TakenAccounted
<1>1. Init => Bookkeeping /\ TakenAccounted
  BY DEF Init, Bookkeeping, TakenAccounted, Ids
<1>2. /\ TypeOK /\ NickTaken /\ OnlineServing /\ Bookkeeping /\ TakenAccounted /\ [Next]_vars
      => Bookkeeping' /\ TakenAccounted'
  BY BooksStep, AccountedStep
<1> QED
  BY <1>1, <1>2, TypeCorrect, NickTakenHolds, OnlineServingHolds, PTL DEF Spec

-----------------------------------------------------------------------------
(* The relay implements the abstract mailbox, for every set of users and      *)
(* sockets, every batch size and histories of any length.                     *)

Offered(id) == \E s \in Socks : OnItsWay(s, messages[id].to, id)
Disturbed == \E s \in Socks : link[s] \in {"dead", "closed"}

\* A step that stores nothing handles the frames as the mailbox allows when it
\* forgets none that was read, offers none that the cursor has passed, reads only
\* what was offered, drops what was offered only with a link that failed, and
\* moves the cursor only over frames a later one has overtaken.
Handles ==
    /\ UNCHANGED messages
    /\ Disturbed => Disturbed'
    /\ \A n \in Nicks : received[n] \subseteq received'[n]
    /\ \A id \in Ids : LET r == messages[id].to IN
        /\ id \in received'[r] => id \in received[r] \/ Offered(id)
        /\ Offered(id)' => Offered(id) \/ id > cursor[r]
        /\ Offered(id) => Offered(id)' \/ id \in received'[r] \/ Disturbed'
        /\ cursor[r] <= cursor'[r]
        /\ id > cursor[r] /\ id <= cursor'[r] =>
              \/ Offered(id) \/ Offered(id)'
              \/ \E j \in Ids : j > id /\ messages[j].to = r /\ Offered(j)

\* The recipients of the stored frames are a sequence as long as the table.
LEMMA Recipients ==
    ASSUME TypeOK
    PROVE  /\ [id \in Ids |-> messages[id].to] \in Seq(Nicks)
           /\ Len([id \in Ids |-> messages[id].to]) = Len(messages)
           /\ Len(messages) \in Nat /\ \A id \in Ids : messages[id].to \in Nicks
<1>1. messages \in Seq(Frame) /\ Len(messages) \in Nat
  BY LenProperties DEF TypeOK
<1>2. \A id \in Ids : messages[id].to \in Nicks
  <2>1. \A id \in 1 .. Len(messages) : messages[id] \in Frame
    BY <1>1, ElementOfSeq
  <2> QED BY <2>1 DEF Ids, Frame
<1> DEFINE f == [id \in 1 .. Len(messages) |-> messages[id].to]
<1>3. f \in [1 .. Len(messages) -> Nicks]
  BY <1>2 DEF Ids
<1>4. f \in Seq(Nicks) /\ DOMAIN f = 1 .. Len(messages)
  BY <1>1, <1>3, IsASeq
<1>5. Len(f) = Len(messages)
  <2> HIDE DEF f
  <2> QED BY <1>1, <1>4, LenProperties
<1> QED BY <1>1, <1>2, <1>4, <1>5 DEF Ids

\* Such a step is the mailbox's Handle.
LEMMA HandleMaps ==
    ASSUME TypeOK, TypeOK', Handles
    PROVE  Abstract!Handle
<1>1. messages' = messages /\ Ids' = Ids /\ Ids \subseteq 1 .. MaxMessages
  BY DEF Handles, Ids, TypeOK
<1>2. UNCHANGED [id \in Ids |-> messages[id].to]
  BY <1>1
<1>3. Disturbed => Disturbed'
  BY DEF Handles
<1>4. ASSUME NEW id \in 1 .. MaxMessages
      PROVE  Abstract!Fares(id)
  <2> DEFINE a == PhaseOf(id)
             b == PhaseOf(id)'
  <2>1. SUFFICES \/ b = a
                 \/ a = "kept" /\ b = "offered"
                 \/ a = "offered" /\ b = "read"
                 \/ a = "offered" /\ b \in {"kept", "gone"} /\ Disturbed'
                 \/ a = "kept" /\ b = "gone" /\ Abstract!Overtaken(id)
    BY <2>1 DEF Abstract!Fares, Disturbed
  <2>2. CASE id \notin Ids
    BY <1>1, <2>2 DEF PhaseOf
  <2>3. CASE id \in Ids
    <3> DEFINE r == messages[id].to
    <3>1. /\ id \in received[r] => id \in received'[r]
          /\ id \in received'[r] => id \in received[r] \/ Offered(id)
          /\ Offered(id)' => Offered(id) \/ id > cursor[r]
          /\ Offered(id) => Offered(id)' \/ id \in received'[r] \/ Disturbed'
          /\ cursor[r] <= cursor'[r]
          /\ id > cursor[r] /\ id <= cursor'[r] =>
              \/ Offered(id) \/ Offered(id)'
              \/ \E j \in Ids : j > id /\ messages[j].to = r /\ Offered(j)
      BY <2>3, Recipients DEF Handles
    <3>2. /\ a = IF id \in received[r] THEN "read"
                 ELSE IF Offered(id) THEN "offered"
                 ELSE IF id > cursor[r] THEN "kept" ELSE "gone"
          /\ b = IF id \in received'[r] THEN "read"
                 ELSE IF Offered(id)' THEN "offered"
                 ELSE IF id > cursor'[r] THEN "kept" ELSE "gone"
      BY <1>1, <2>3 DEF PhaseOf, Offered
    <3>3. cursor[r] \in Nat /\ cursor'[r] \in Nat /\ id \in Nat
      <4>1. r \in Nicks
        BY <2>3, Recipients
      <4>2. cursor \in [Nicks -> 0 .. MaxMessages] /\ cursor' \in [Nicks -> 0 .. MaxMessages]
        BY DEF TypeOK
      <4> HIDE DEF r
      <4> QED BY <4>1, <4>2
    <3>4. (\E j \in Ids : j > id /\ messages[j].to = r /\ Offered(j)) => Abstract!Overtaken(id)
      <4> SUFFICES ASSUME NEW j \in Ids, j > id, messages[j].to = r, Offered(j)
                   PROVE  Abstract!Overtaken(id)
        OBVIOUS
      <4>1. j \in 1 .. Len([i \in Ids |-> messages[i].to])
        BY Recipients DEF Ids
      <4>2. PhaseOf(j) \in {"offered", "read"}
        BY DEF PhaseOf, Offered
      <4>3. [i \in 1 .. MaxMessages |-> PhaseOf(i)][j] \in {"offered", "read"}
        BY <1>1, <4>2
      <4> QED BY <2>3, <4>1, <4>3 DEF Abstract!Overtaken
    <3> HIDE DEF a, b, r
    <3> QED BY <3>1, <3>2, <3>3, <3>4
  <2> QED BY <2>2, <2>3
<1> QED BY <1>2, <1>3, <1>4 DEF Abstract!Handle, Disturbed

---------------------------------------------------------------------------
(* The refinement rests on more than TakenAccounted did: a live send is of *)
(* a stored row to its recipient, over a socket that has come up, and      *)
(* every id in flight is that of a row.                                    *)

SendAimed ==
    \A s \in Socks : relay[s].id # 0 =>
        /\ relay[s].id \in Ids /\ messages[relay[s].id].to = relay[s].to
        /\ relay[s].target \in Socks /\ link[relay[s].target] # "new"

RowsOnly ==
    /\ \A s \in Socks : batch[s] \subseteq Ids /\ \A n, id : OnWire(s, n, id) => id \in Ids
    /\ \A n \in Nicks : cursor[n] <= Len(messages) /\ received[n] \subseteq Ids

\* A socket that presence names has come up.
LEMMA TargetUp ==
    ASSUME TypeOK, OnlineServing, Bookkeeping, NEW r \in Nicks, online[r] # None
    PROVE  online[r] \in Socks /\ link[online[r]] # "new"
<1>1. online[r] \in Socks
  BY DEF TypeOK
<1>2. Running(online[r]) \/ r \in former[online[r]]
  BY DEF OnlineServing
<1> QED BY <1>1, <1>2 DEF Bookkeeping, Running

\* A live send stays aimed at the recipient of its row until it returns.
LEMMA AimedStep ==
    TypeOK /\ OnlineServing /\ Bookkeeping /\ SendAimed /\ [Next]_vars => SendAimed'
<1> SUFFICES ASSUME TypeOK, OnlineServing, Bookkeeping, SendAimed, [Next]_vars
             PROVE  SendAimed'
  OBVIOUS
<1>1. ASSUME UNCHANGED messages, \A q \in Socks : link'[q] = "new" => link[q] = "new",
             \A q \in Socks : relay'[q] = relay[q] \/ relay'[q].id = 0
      PROVE  SendAimed'
  BY <1>1 DEF SendAimed, Ids
<1>2. ASSUME NEW s \in Socks, Exit(s) PROVE SendAimed'
  <2>1. /\ UNCHANGED messages /\ \A q \in Socks : link'[q] = "new" => link[q] = "new"
        /\ \A q \in Socks : relay'[q] = relay[q] \/ relay'[q].id = 0
    BY <1>2 DEF Exit, NoRelay, TypeOK
  <2> QED BY <1>1, <2>1
<1>3. ASSUME NEW s \in Socks, Server(s) PROVE SendAimed'
  <2>1. CASE Exit(s)
    BY <1>2, <2>1
  <2>2. CASE ~Exit(s)
    <3>1. UNCHANGED <<messages, link>> /\ (UNCHANGED relay \/ relay' = [relay EXCEPT ![s] = NoRelay])
      BY <1>3, <2>2 DEF Server, EvictDone, LoginSend, FetchBatch, SendBacklog, RelaySent,
                        RelayRaise, HandlerEnds
    <3>2. \A q \in Socks : relay'[q] = relay[q] \/ relay'[q].id = 0
      BY <3>1 DEF NoRelay, TypeOK
    <3> QED BY <1>1, <3>1, <3>2
  <2> QED BY <2>1, <2>2
<1>4. ASSUME NEW s \in Socks, Connect(s) \/ (\E n \in Nicks : Hello(s, n)) \/ Network(s)
      PROVE  SendAimed'
  <2>1. UNCHANGED <<messages, relay>>
    BY <1>4 DEF Connect, Hello, Network, ClientRead, KeepaliveTimeout, LinkFails
  <2>2. \A q \in Socks : link'[q] = "new" => link[q] = "new"
    <3>1. \/ UNCHANGED link
          \/ \E e, new : new # "new" /\ link' = [link EXCEPT ![e] = new]
      BY <1>4 DEF Connect, Hello, Network, ClientRead, KeepaliveTimeout, LinkFails
    <3> QED BY <3>1 DEF TypeOK
  <2> QED BY <1>1, <2>1, <2>2
<1>5. ASSUME NEW s \in Socks, NEW r \in Nicks, RelayEphemeral(s, r) PROVE SendAimed'
  <2>1. /\ UNCHANGED <<messages, link>>
        /\ relay' = [relay EXCEPT ![s] = [id |-> 0, to |-> r, target |-> online[r]]]
    BY <1>5 DEF RelayEphemeral, live_send
  <2>2. \A q \in Socks : relay'[q] = relay[q] \/ relay'[q].id = 0
    BY <2>1 DEF TypeOK
  <2> QED BY <1>1, <2>1, <2>2
<1>6. ASSUME NEW s \in Socks, NEW r \in Nicks, RelayStored(s, r) PROVE SendAimed'
  <2> DEFINE new == Len(messages) + 1
             row == [from |-> nick[s], to |-> r]
  <2>1. /\ messages' = Append(messages, row) /\ UNCHANGED link
        /\ \/ UNCHANGED relay
           \/ /\ online[r] # None
              /\ relay' = [relay EXCEPT ![s] = [id |-> new, to |-> r, target |-> online[r]]]
    BY <1>6 DEF RelayStored, live_send
  <2>2. messages \in Seq(Frame) /\ row \in Frame
    BY <1>6 DEF RelayStored, TypeOK, Frame
  <2>3. row.to = r
    OBVIOUS
  <2> HIDE DEF row
  <2>4. /\ new \in Ids' /\ Ids \subseteq Ids' /\ messages'[new].to = r
        /\ \A id \in Ids : messages'[id] = messages[id]
    <3>1. /\ Len(messages') = Len(messages) + 1 /\ messages'[Len(messages) + 1] = row
          /\ \A id \in 1 .. Len(messages) : messages'[id] = messages[id]
      BY <2>1, <2>2, AppendProperties
    <3>2. Len(messages) \in Nat
      BY <2>2, LenProperties
    <3> QED BY <2>3, <3>1, <3>2 DEF Ids
  <2> HIDE DEF new
  <2>5. ASSUME NEW q \in Socks, relay'[q].id # 0
        PROVE  /\ relay'[q].id \in Ids' /\ messages'[relay'[q].id].to = relay'[q].to
               /\ relay'[q].target \in Socks
               /\ link'[relay'[q].target] # "new"
    <3>1. CASE relay'[q] = relay[q]
      <4>1. /\ relay[q].id \in Ids /\ messages[relay[q].id].to = relay[q].to
            /\ relay[q].target \in Socks
            /\ link[relay[q].target] # "new"
        BY <2>5, <3>1 DEF SendAimed
      <4>2. messages'[relay[q].id] = messages[relay[q].id] /\ relay[q].id \in Ids'
        BY <2>4, <4>1
      <4>3. link' = link
        BY <2>1
      <4> QED BY <3>1, <4>1, <4>2, <4>3
    <3>2. CASE relay'[q] # relay[q]
      <4>1. /\ relay'[q] = [id |-> new, to |-> r, target |-> online[r]] /\ online[r] # None
        BY <2>1, <3>2 DEF TypeOK
      <4>2. online[r] \in Socks /\ link[online[r]] # "new"
        BY <4>1, TargetUp
      <4>3. relay'[q].id = new /\ relay'[q].to = r /\ relay'[q].target = online[r]
        BY <4>1
      <4>4. link' = link
        BY <2>1
      <4> QED BY <2>4, <4>2, <4>3, <4>4
    <3> QED BY <3>1, <3>2
  <2> QED BY <2>5 DEF SendAimed
<1>7. CASE UNCHANGED vars
  BY <1>1, <1>7 DEF vars
<1> QED BY <1>3, <1>4, <1>5, <1>6, <1>7 DEF Next, Client

\* ws.send writes the one frame to the one socket, if to any.
LEMMA PutOnly ==
    ASSUME TypeOK, NEW t, NEW b \in Nicks, NEW new \in 1 .. MaxMessages, Put(t, b, new),
           NEW s \in Socks, NEW n, NEW id, OnWire(s, n, id)'
    PROVE  OnWire(s, n, id) \/ (n = b /\ id = new /\ s = t)
<1> DEFINE w == wire[s]
           e == <<b, new>>
<1>1. w \in Seq(Sent) /\ e \in Sent
  BY DEF TypeOK, Sent
<1>2. CASE wire'[s] = w
  BY <1>2 DEF OnWire
<1>3. CASE wire'[s] # w
  <2>1. s = t /\ wire'[s] = Append(w, e)
    BY <1>3 DEF Put, TypeOK
  <2> HIDE DEF w, e
  <2>2. /\ Len(wire'[s]) = Len(w) + 1 /\ wire'[s][Len(w) + 1] = e /\ Len(w) \in Nat
        /\ \A k \in 1 .. Len(w) : wire'[s][k] = w[k]
    BY <1>1, <2>1, AppendProperties, LenProperties
  <2>3. PICK k \in 1 .. Len(wire'[s]) : wire'[s][k] = <<n, id>>
    BY DEF OnWire
  <2>4. CASE k = Len(w) + 1
    <3>1. e = <<n, id>>
      BY <2>2, <2>3, <2>4
    <3>2. n = b /\ id = new
      BY <3>1 DEF e
    <3> QED BY <2>1, <3>2
  <2>5. CASE k # Len(w) + 1
    <3>1. k \in 1 .. Len(w)
      BY <2>2, <2>5
    <3> QED BY <2>2, <2>3, <3>1 DEF OnWire, w
  <2> QED BY <2>4, <2>5
<1> QED BY <1>2, <1>3

\* Nothing but ids of rows is ever in flight, read or under a cursor.
LEMMA RowsStep ==
    TypeOK /\ NickTaken /\ SendAimed /\ RowsOnly /\ [Next]_vars => RowsOnly'
<1> SUFFICES ASSUME TypeOK, NickTaken, SendAimed, RowsOnly, [Next]_vars PROVE RowsOnly'
  OBVIOUS
<1>0. Len(messages) \in Nat /\ cursor \in [Nicks -> 0 .. MaxMessages]
      /\ Ids = 1 .. Len(messages) /\ \A n \in Nicks : cursor[n] <= Len(messages)
  BY LenProperties DEF TypeOK, Ids, RowsOnly
<1>1. ASSUME Ids \subseteq Ids', Len(messages) <= Len(messages'), Len(messages') \in Nat,
             \A q \in Socks : batch'[q] \subseteq batch[q] \cup Ids,
             \A q \in Socks : \A n, id : OnWire(q, n, id)' => OnWire(q, n, id) \/ id \in Ids,
             \A n \in Nicks : cursor'[n] = cursor[n] \/ cursor'[n] \in Ids,
             \A n \in Nicks : received'[n] \subseteq received[n] \cup Ids
      PROVE  RowsOnly'
  <2>1. \A n \in Nicks : cursor'[n] <= Len(messages')
    BY <1>0, <1>1
  <2>2. \A q \in Socks : batch'[q] \subseteq Ids'
    BY <1>1 DEF RowsOnly
  <2>3. \A q \in Socks : \A n, id : OnWire(q, n, id)' => id \in Ids'
    BY <1>1 DEF RowsOnly
  <2>4. \A n \in Nicks : received'[n] \subseteq Ids'
    BY <1>1 DEF RowsOnly
  <2> QED BY <2>1, <2>2, <2>3, <2>4 DEF RowsOnly
<1>2. ASSUME UNCHANGED messages,
             \A q \in Socks : batch'[q] \subseteq batch[q] \cup Ids,
             \A q \in Socks : \A n, id : OnWire(q, n, id)' => OnWire(q, n, id) \/ id \in Ids,
             \A n \in Nicks : cursor'[n] = cursor[n] \/ cursor'[n] \in Ids,
             \A n \in Nicks : received'[n] \subseteq received[n] \cup Ids
      PROVE  RowsOnly'
  <2>1. Ids \subseteq Ids' /\ Len(messages) <= Len(messages') /\ Len(messages') \in Nat
    BY <1>0, <1>2 DEF Ids
  <2> QED BY <1>1, <1>2, <2>1
<1>3. ASSUME NEW s \in Socks, Exit(s) PROVE RowsOnly'
  <2>1. UNCHANGED <<messages, wire, cursor, received>>
    BY <1>3 DEF Exit
  <2>2. \A q \in Socks : batch'[q] \subseteq batch[q]
    BY <1>3 DEF Exit, TypeOK
  <2>3. \A q \in Socks : \A n, id : OnWire(q, n, id)' => OnWire(q, n, id)
    BY <2>1 DEF OnWire
  <2> QED BY <1>2, <2>1, <2>2, <2>3
<1>4. ASSUME UNCHANGED <<messages, wire, cursor, received, batch>> PROVE RowsOnly'
  <2>1. \A q \in Socks : \A n, id : OnWire(q, n, id)' => OnWire(q, n, id)
    BY <1>4 DEF OnWire
  <2> QED BY <1>2, <1>4, <2>1
<1>5. ASSUME NEW s \in Socks, EvictDone(s) \/ LoginSend(s) \/ RelayRaise(s) \/ HandlerEnds(s)
             \/ Connect(s) \/ (\E n \in Nicks : Hello(s, n)) \/ KeepaliveTimeout(s)
      PROVE  RowsOnly'
  BY <1>3, <1>4, <1>5 DEF EvictDone, LoginSend, RelayRaise, HandlerEnds, Connect, Hello,
                          KeepaliveTimeout
<1>6. ASSUME NEW s \in Socks, FetchBatch(s) PROVE RowsOnly'
  <2> DEFINE rows == history_for(nick[s])
  <2>1. rows \subseteq Ids
    BY BatchRows DEF Ids
  <2>2. /\ UNCHANGED <<messages, wire, received>>
        /\ UNCHANGED batch \/ batch' = [batch EXCEPT ![s] = rows]
        /\ UNCHANGED cursor \/ \E top \in rows : advance_cursor(nick[s], top)
    BY <1>6 DEF FetchBatch
  <2> HIDE DEF rows
  <2>3. \A q \in Socks : batch'[q] \subseteq batch[q] \cup Ids
    BY <2>1, <2>2 DEF TypeOK
  <2>4. \A n \in Nicks : cursor'[n] = cursor[n] \/ cursor'[n] \in Ids
    BY <1>0, <2>1, <2>2 DEF advance_cursor
  <2>5. \A q \in Socks : \A n, id : OnWire(q, n, id)' => OnWire(q, n, id)
    BY <2>2 DEF OnWire
  <2> QED BY <1>2, <2>2, <2>3, <2>4, <2>5
<1>7. ASSUME NEW s \in Socks, SendBacklog(s) PROVE RowsOnly'
  <2>1. CASE Exit(s)
    BY <1>3, <2>1
  <2>2. CASE ~Exit(s)
    <3>1. PICK sent \in batch[s] :
              batch' = [batch EXCEPT ![s] = batch[s] \ {sent}] /\ Put(s, nick[s], sent)
      BY <1>7, <2>2 DEF SendBacklog, rest_of_batch
    <3>2. UNCHANGED <<messages, cursor, received>>
      BY <1>7, <2>2 DEF SendBacklog
    <3>3. sent \in 1 .. MaxMessages /\ sent \in Ids /\ nick[s] \in Nicks
      BY <1>7 DEF TypeOK, RowsOnly, NickTaken, SendBacklog
    <3>4. \A q \in Socks : \A n, id : OnWire(q, n, id)' => OnWire(q, n, id) \/ id \in Ids
      BY <3>1, <3>3, PutOnly
    <3>5. \A q \in Socks : batch'[q] \subseteq batch[q] \cup Ids
      BY <3>1 DEF TypeOK
    <3> QED BY <1>2, <3>2, <3>4, <3>5
  <2> QED BY <2>1, <2>2
<1>8. ASSUME NEW s \in Socks, RelaySent(s) PROVE RowsOnly'
  <2> DEFINE m == relay[s].id
  <2>1. UNCHANGED <<messages, batch, received>>
    BY <1>8 DEF RelaySent
  <2>2. CASE m = 0
    BY <1>4, <1>8, <2>1, <2>2 DEF RelaySent
  <2>3. CASE m # 0
    <3>1. Put(relay[s].target, relay[s].to, m) /\ advance_cursor(relay[s].to, m)
      BY <1>8, <2>3 DEF RelaySent, send_target
    <3>2. m \in Ids /\ m \in 1 .. MaxMessages /\ relay[s].to \in Nicks
      BY <2>3 DEF SendAimed, NickTaken, Ids, TypeOK
    <3> HIDE DEF m
    <3>3. \A q \in Socks : \A n, id : OnWire(q, n, id)' => OnWire(q, n, id) \/ id \in Ids
      BY <3>1, <3>2, PutOnly
    <3>4. \A n \in Nicks : cursor'[n] = cursor[n] \/ cursor'[n] \in Ids
      BY <1>0, <3>1, <3>2 DEF advance_cursor
    <3> QED BY <1>2, <2>1, <3>3, <3>4
  <2> QED BY <2>2, <2>3
<1>9. ASSUME NEW s \in Socks, NEW r \in Nicks, RelayStored(s, r) \/ RelayEphemeral(s, r)
      PROVE  RowsOnly'
  <2>1. /\ UNCHANGED <<cursor, batch, wire, received>>
        /\ messages' = messages \/ messages' = Append(messages, [from |-> nick[s], to |-> r])
    BY <1>9 DEF RelayStored, RelayEphemeral
  <2>2. messages \in Seq(Frame) /\ [from |-> nick[s], to |-> r] \in Frame
    BY <1>9 DEF RelayStored, RelayEphemeral, TypeOK, Frame
  <2>3. Len(messages') \in {Len(messages), Len(messages) + 1}
    BY <2>1, <2>2, AppendProperties
  <2>4. Ids \subseteq Ids' /\ Len(messages) <= Len(messages') /\ Len(messages') \in Nat
    BY <1>0, <2>3 DEF Ids
  <2>5. \A q \in Socks : \A n, id : OnWire(q, n, id)' => OnWire(q, n, id)
    BY <2>1 DEF OnWire
  <2> QED BY <1>1, <2>1, <2>4, <2>5
<1>10. ASSUME NEW s \in Socks, ClientRead(s) PROVE RowsOnly'
  <2>1. UNCHANGED <<messages, cursor, batch>>
    BY <1>10 DEF ClientRead
  <2>2. PICK b \in Nicks, i \in 1 .. MaxMessages :
           /\ OnWire(s, b, i)
           /\ received' = [received EXCEPT ![b] = @ \cup {i}]
           /\ \A q \in Socks : \A n, id : OnWire(q, n, id)' => OnWire(q, n, id)
    BY <1>10, ReadOnly
  <2>3. i \in Ids
    BY <2>2 DEF RowsOnly
  <2>4. \A n \in Nicks : received'[n] \subseteq received[n] \cup Ids
    BY <2>2, <2>3 DEF TypeOK
  <2> QED BY <1>2, <2>1, <2>2, <2>4
<1>11. ASSUME NEW s \in Socks, NEW new \in {"dead", "closed"}, LinkFails(s, new) PROVE RowsOnly'
  <2>1. /\ UNCHANGED <<messages, cursor, batch, received>> /\ wire' = [wire EXCEPT ![s] = <<>>]
    BY <1>11 DEF LinkFails
  <2>2. \A q \in Socks : \A n, id : OnWire(q, n, id)' => OnWire(q, n, id)
    BY <2>1 DEF OnWire, TypeOK
  <2> QED BY <1>2, <2>1, <2>2
<1>12. CASE UNCHANGED vars
  BY <1>4, <1>12 DEF vars
<1> QED BY <1>5, <1>6, <1>7, <1>8, <1>9, <1>10, <1>11, <1>12 DEF Next, Server, Client, Network

---------------------------------------------------------------------------
(* Every step of a coroutine, the network or a client is a step of the     *)
(* mailbox.                                                                *)

RInv ==
    TypeOK /\ NickTaken /\ OnlineServing /\ Bookkeeping /\ SendAimed /\ RowsOnly

\* A step that stores and reads nothing, moves no cursor and puts nothing new on
\* its way: what is on its way stays, or a link has failed.
LEMMA Quiet ==
    ASSUME RInv, UNCHANGED <<messages, cursor, received>>, Disturbed => Disturbed',
           \A q \in Socks, n \in Nicks, id \in Ids : OnItsWay(q, n, id)' => OnItsWay(q, n, id),
           \/ Disturbed'
           \/ \A q \in Socks, n \in Nicks, id \in Ids : OnItsWay(q, n, id) => OnItsWay(q, n, id)'
    PROVE  Handles
<1>3. \A id \in Ids : messages[id].to \in Nicks /\ id \in Nat
  BY Recipients DEF RInv, Ids
<1>1. \A id \in Ids : Offered(id)' => Offered(id)
  BY <1>3 DEF Offered
<1>2. \A id \in Ids : Offered(id) => Offered(id)' \/ Disturbed'
  BY <1>3 DEF Offered
<1>4. \A n \in Nicks : cursor[n] \in Nat
  BY DEF RInv, TypeOK
<1>5. \A id \in Ids : /\ cursor[messages[id].to] <= cursor'[messages[id].to]
                     /\ ~(id > cursor[messages[id].to] /\ id <= cursor'[messages[id].to])
  BY <1>3, <1>4
<1> QED BY <1>1, <1>2, <1>5 DEF Handles

\* The exit of a coroutine closes its socket: what it was sending is not accounted
\* for any more.
LEMMA ExitHandles ==
    ASSUME RInv, NEW s \in Socks, Exit(s)
    PROVE  Handles
<1>1. UNCHANGED <<messages, cursor, received, wire, nick>>
  BY DEF Exit
<1>2. Disturbed'
  BY DEF Exit, Disturbed, RInv, TypeOK
<1>3. \A q \in Socks : batch'[q] \subseteq batch[q] /\ (relay'[q] = relay[q] \/ relay'[q].id = 0)
  BY DEF Exit, RInv, TypeOK, NoRelay
<1>4. \A q \in Socks, n \in Nicks, id \in Ids : OnItsWay(q, n, id)' => OnItsWay(q, n, id)
  BY <1>1, <1>3 DEF OnItsWay, Ids
<1> QED BY <1>1, <1>2, <1>4, Quiet

\* Steps of login, presence and the network that touch no frame.
LEMMA IdleHandles ==
    ASSUME RInv, UNCHANGED <<messages, cursor, received, wire, batch, relay>>,
           \A q \in Socks : nick'[q] = nick[q] \/ batch[q] = {},
           \A q \in Socks : link[q] \in {"dead", "closed"} => link'[q] \in {"dead", "closed"}
    PROVE  Handles
<1>1. Disturbed => Disturbed'
  BY DEF Disturbed
<1>2. \A q \in Socks, n \in Nicks, id \in Ids : OnItsWay(q, n, id)' <=> OnItsWay(q, n, id)
  BY DEF OnItsWay
<1> QED BY <1>1, <1>2, Quiet

\* A batch takes the oldest rows past the cursor, so the cursor passes no frame of
\* the user that the batch does not hold.
LEMMA BatchIsPrefix ==
    ASSUME TypeOK, NEW n \in Nicks, NEW top \in history_for(n), NEW id \in Backlog(n), id <= top
    PROVE  id \in history_for(n)
<1> DEFINE B == Backlog(n)
           below(i) == {j \in B : j < i}
<1>1. B \subseteq 1 .. Len(messages) /\ Len(messages) \in Nat
  BY LenProperties DEF Backlog, Ids, TypeOK
<1>2. IsFiniteSet(1 .. Len(messages))
  BY <1>1, FS_Interval
<1>3. IsFiniteSet(below(top)) /\ below(id) \subseteq below(top)
  <2>1. top \in B /\ below(top) \subseteq 1 .. Len(messages)
    BY <1>1 DEF history_for
  <2>2. IsFiniteSet(below(top))
    BY <1>2, <2>1, FS_Subset
  <2>3. id \in Nat /\ top \in Nat /\ \A j \in B : j \in Nat
    BY <1>1, <2>1
  <2>4. \A j \in B : j < id => j < top
    BY <2>3
  <2> HIDE DEF B
  <2> QED BY <2>2, <2>4
<1>4. /\ Cardinality(below(id)) <= Cardinality(below(top))
      /\ Cardinality(below(id)) \in Nat /\ Cardinality(below(top)) \in Nat
  <2> HIDE DEF below
  <2> QED BY <1>3, FS_Subset, FS_CardinalityType
<1>5. Cardinality(below(top)) < HistoryLimit
  BY DEF history_for
<1>6. Cardinality(below(id)) < HistoryLimit
  <2> HIDE DEF below
  <2> QED BY <1>4, <1>5
<1> QED BY <1>6 DEF history_for

\* A batch of the drain offers rows and moves the cursor over no other.
LEMMA FetchHandles ==
    ASSUME RInv, NEW s \in Socks, FetchBatch(s)
    PROVE  Handles
<1> DEFINE n == nick[s]
           rows == history_for(n)
<1>1. /\ UNCHANGED <<messages, received, wire, relay, link, nick>> /\ batch[s] = {} /\ pc[s] = "drain"
  BY DEF FetchBatch
<1>2. n \in Nicks
  BY <1>1 DEF RInv, NickTaken
<1>3. CASE UNCHANGED <<cursor, batch>>
  BY <1>1, <1>3, IdleHandles
<1>4. CASE ~UNCHANGED <<cursor, batch>>
  <2>1. PICK top \in rows : /\ batch' = [batch EXCEPT ![s] = rows]
                           /\ advance_cursor(n, top)
    BY <1>4 DEF FetchBatch
  <2>2. batch'[s] = rows /\ \A q \in Socks : q # s => batch'[q] = batch[q]
    BY <2>1 DEF RInv, TypeOK
  <2>3. \A q \in Socks, m \in Nicks, id \in Ids :
            /\ OnItsWay(q, m, id) => OnItsWay(q, m, id)'
            /\ OnItsWay(q, m, id)' => OnItsWay(q, m, id) \/ (m = n /\ id \in rows)
    <3> HIDE DEF rows
    <3> QED BY <1>1, <2>2 DEF OnItsWay
  <2>4. \A id \in rows : id \in Backlog(n)
    BY DEF history_for
  <2>5. \A id \in Ids : messages[id].to \in Nicks /\ id \in Nat
    BY Recipients DEF RInv, Ids
  <2>6. /\ \A m \in Nicks : cursor[m] \in Nat /\ cursor[m] <= cursor'[m]
        /\ \A m \in Nicks : m # n => cursor'[m] = cursor[m]
        /\ cursor'[n] = cursor[n] \/ cursor'[n] = top
    <3>1. cursor \in [Nicks -> 0 .. MaxMessages]
      BY DEF RInv, TypeOK
    <3>2. top \in Nat
      BY <2>4 DEF Backlog, Ids
    <3> HIDE DEF rows, n
    <3> QED BY <2>1, <3>1, <3>2 DEF advance_cursor
  <2>7. ASSUME NEW id \in Ids, Offered(id)' PROVE Offered(id) \/ id > cursor[messages[id].to]
    <3>0. PICK r \in Nicks : r = messages[id].to
      BY <2>5
    <3>1. PICK q \in Socks : OnItsWay(q, r, id)'
      BY <1>1, <2>7, <3>0 DEF Offered
    <3>2. CASE OnItsWay(q, r, id)
      BY <3>0, <3>2 DEF Offered
    <3>3. CASE r = n /\ id \in rows
      <4>1. id > cursor[n]
        BY <2>4, <3>3 DEF Backlog
      <4> QED BY <3>0, <3>3, <4>1
    <3> QED BY <2>3, <3>1, <3>2, <3>3
  <2>8. ASSUME NEW id \in Ids, id > cursor[messages[id].to], id <= cursor'[messages[id].to]
        PROVE  Offered(id)'
    <3>1. messages[id].to = n /\ cursor'[n] = top /\ id <= top
      BY <2>5, <2>6, <2>8
    <3>2. id \in Backlog(n)
      BY <2>8, <3>1 DEF Backlog
    <3>3. id \in rows
      BY <1>2, <3>1, <3>2, BatchIsPrefix DEF RInv
    <3>4. OnItsWay(s, n, id)'
      BY <1>1, <2>2, <3>3 DEF OnItsWay
    <3> QED BY <1>1, <3>1, <3>4 DEF Offered
  <2>9. \A id \in Ids : Offered(id) => Offered(id)'
    BY <1>1, <2>3, <2>5 DEF Offered
  <2>10. Disturbed => Disturbed'
    BY <1>1 DEF Disturbed
  <2> QED BY <1>1, <2>5, <2>6, <2>7, <2>8, <2>9, <2>10 DEF Handles
<1> QED BY <1>3, <1>4

\* A row goes from the batch to the wire, or is lost with a link that is dead.
LEMMA BacklogHandles ==
    ASSUME RInv, NEW s \in Socks, SendBacklog(s)
    PROVE  Handles
<1>1. CASE Exit(s)
  BY <1>1, ExitHandles
<1>2. CASE ~Exit(s)
  <2>1. PICK sent \in batch[s] :
            batch' = [batch EXCEPT ![s] = batch[s] \ {sent}] /\ Put(s, nick[s], sent)
    BY <1>2 DEF SendBacklog, rest_of_batch
  <2>2. /\ UNCHANGED <<messages, cursor, received, relay, link, nick>> /\ link[s] # "closed"
        /\ pc[s] = "drain"
    BY <1>2 DEF SendBacklog
  <2>3. sent \in 1 .. MaxMessages /\ TypeOK /\ nick[s] \in Nicks
    BY <2>2 DEF RInv, TypeOK, NickTaken
  <2>4. /\ batch'[s] = batch[s] \ {sent} /\ \A q \in Socks : q # s => batch'[q] = batch[q]
    BY <2>1 DEF RInv, TypeOK
  <2>5. ASSUME NEW q \in Socks, NEW n \in Nicks, NEW id \in Ids, OnItsWay(q, n, id)'
        PROVE  OnItsWay(q, n, id)
    <3>1. CASE OnWire(q, n, id)'
      <4>1. OnWire(q, n, id) \/ (n = nick[s] /\ id = sent /\ q = s)
        BY <2>1, <2>3, <3>1, PutOnly
      <4> QED BY <4>1 DEF OnItsWay, OnWire
    <3>2. CASE ~OnWire(q, n, id)'
      BY <2>2, <2>4, <2>5, <3>2 DEF OnItsWay, OnWire
    <3> QED BY <3>1, <3>2
  <2>6. CASE link[s] = "open"
    <3>1. ASSUME NEW q \in Socks, NEW n \in Nicks, NEW id \in Ids, OnItsWay(q, n, id)
          PROVE  OnItsWay(q, n, id)'
      <4>1. /\ OnWire(q, n, id) => OnWire(q, n, id)'
            /\ OnWire(s, nick[s], sent)'
        BY <2>1, <2>2, <2>3, <2>6, PutOnItsWay
      <4>2. id \in batch[q] => id \in batch'[q] \/ (q = s /\ id = sent)
        BY <2>4
      <4> QED BY <2>2, <3>1, <4>1, <4>2 DEF OnItsWay, OnWire
    <3>2. Disturbed => Disturbed'
      BY <2>2 DEF Disturbed
    <3> QED BY <2>2, <2>5, <3>1, <3>2, Quiet
  <2>7. CASE link[s] # "open"
    <3>1. link[s] = "dead"
      BY <2>2, <2>7 DEF RInv, Bookkeeping, TypeOK
    <3>2. Disturbed'
      BY <2>2, <3>1 DEF Disturbed
    <3> QED BY <2>2, <2>5, <3>2, Quiet
  <2> QED BY <2>6, <2>7
<1> QED BY <1>1, <1>2

\* A live send returns: its frame was offered, and it is the later frame that
\* overtakes whatever the cursor now passes.
LEMMA SentHandles ==
    ASSUME RInv, NEW s \in Socks, RelaySent(s)
    PROVE  Handles
<1> DEFINE m == relay[s].id
           t == relay[s].target
           n == relay[s].to
<1>1. /\ relay' = [relay EXCEPT ![s] = NoRelay] /\ UNCHANGED <<messages, received, batch, link, nick>>
      /\ link[t] # "closed"
  BY DEF RelaySent, send_target
<1>2. relay'[s] = NoRelay /\ \A q \in Socks : q # s => relay'[q] = relay[q]
  BY <1>1 DEF RInv, TypeOK
<1>3. Disturbed => Disturbed'
  BY <1>1 DEF Disturbed
<1>4. CASE m = 0
  <2>1. UNCHANGED <<wire, cursor>>
    BY <1>4 DEF RelaySent
  <2>2. \A q \in Socks, k \in Nicks, id \in Ids : OnItsWay(q, k, id)' <=> OnItsWay(q, k, id)
    BY <1>1, <1>2, <1>4, <2>1 DEF OnItsWay, Ids, NoRelay
  <2> QED BY <1>1, <1>3, <2>1, <2>2, Quiet
<1>5. CASE m # 0
  <2>1. Put(t, n, m) /\ advance_cursor(n, m)
    BY <1>5 DEF RelaySent, send_target
  <2>2. /\ m \in Ids /\ messages[m].to = n /\ t \in Socks /\ link[t] # "new"
        /\ n \in Nicks
    BY <1>5 DEF RInv, SendAimed, NickTaken
  <2>3. m \in 1 .. MaxMessages /\ TypeOK
    BY <2>2 DEF RInv, TypeOK, Ids
  <2>4. OnItsWay(t, n, m)
    BY DEF OnItsWay
  <2> HIDE DEF m, t, n
  <2>5. ASSUME NEW q \in Socks, NEW k \in Nicks, NEW id \in Ids, OnItsWay(q, k, id)'
        PROVE  OnItsWay(q, k, id)
    <3>1. CASE OnWire(q, k, id)'
      <4>1. OnWire(q, k, id) \/ (k = n /\ id = m /\ q = t)
        BY <2>1, <2>2, <2>3, <3>1, PutOnly
      <4> QED BY <2>4, <4>1 DEF OnItsWay, OnWire
    <3>2. CASE ~OnWire(q, k, id)'
      <4>1. \/ nick[q] = k /\ id \in batch[q]
            \/ \E p \in Socks : relay'[p].id = id /\ relay'[p].to = k /\ relay'[p].target = q
        BY <1>1, <2>5, <3>2 DEF OnItsWay, OnWire
      <4>2. NoRelay.id = 0 /\ id # 0
        BY DEF NoRelay, Ids
      <4> QED BY <1>2, <4>1, <4>2 DEF OnItsWay
    <3> QED BY <3>1, <3>2
  <2>6. ASSUME NEW q \in Socks, NEW k \in Nicks, NEW id \in Ids, OnItsWay(q, k, id)
        PROVE  OnItsWay(q, k, id)' \/ Disturbed'
    <3>1. OnWire(q, k, id) => OnWire(q, k, id)'
      BY <2>1, <2>2, <2>3, PutOnItsWay
    <3>2. CASE OnWire(q, k, id) \/ (nick[q] = k /\ id \in batch[q])
      BY <1>1, <3>1, <3>2 DEF OnItsWay, OnWire
    <3>3. ASSUME NEW p \in Socks, relay[p].id = id, relay[p].to = k, relay[p].target = q
          PROVE  OnItsWay(q, k, id)' \/ Disturbed'
      <4>1. CASE p # s
        BY <1>2, <3>3, <4>1 DEF OnItsWay
      <4>2. CASE p = s
        <5>1. id = m /\ q = t /\ k = n
          BY <3>3, <4>2 DEF m, t, n
        <5>2. CASE link[t] = "open"
          <6>1. Put(q, k, id) /\ id \in 1 .. MaxMessages /\ link[q] = "open"
            BY <2>1, <2>3, <5>1, <5>2
          <6>2. OnWire(q, k, id)'
            BY <2>3, <6>1, PutOnItsWay
          <6> QED BY <6>2 DEF OnItsWay, OnWire
        <5>3. CASE link[t] # "open"
          <6>1. link \in [Socks -> {"new", "open", "dead", "closed"}] /\ link' = link
            BY <1>1, <2>3 DEF TypeOK
          <6>2. link[t] = "dead"
            BY <1>1, <2>2, <5>3, <6>1
          <6> QED BY <2>2, <6>1, <6>2 DEF Disturbed
        <5> QED BY <5>2, <5>3
      <4> QED BY <4>1, <4>2
    <3> QED BY <2>6, <3>2, <3>3 DEF OnItsWay, OnWire
  <2>7. \A id \in Ids : messages[id].to \in Nicks /\ id \in Nat
    BY Recipients DEF RInv, Ids
  <2>8. /\ \A k \in Nicks : cursor[k] \in Nat /\ cursor[k] <= cursor'[k]
        /\ \A k \in Nicks : k # n => cursor'[k] = cursor[k]
        /\ cursor'[n] = cursor[n] \/ cursor'[n] = m
    <3>1. cursor \in [Nicks -> 0 .. MaxMessages] /\ m \in Nat
      BY <2>3 DEF TypeOK
    <3> QED BY <2>1, <2>2, <3>1 DEF advance_cursor
  <2>9. ASSUME NEW id \in Ids, id > cursor[messages[id].to], id <= cursor'[messages[id].to],
               ~Offered(id)
        PROVE  \E j \in Ids : j > id /\ messages[j].to = messages[id].to /\ Offered(j)
    <3>1. messages[id].to = n /\ id <= m
      BY <2>7, <2>8, <2>9
    <3>2. Offered(m)
      BY <2>2, <2>4 DEF Offered
    <3>3. id # m
      BY <2>9, <3>2
    <3>4. m > id
      BY <2>2, <2>7, <3>1, <3>3
    <3> QED BY <2>2, <3>1, <3>2, <3>4
  <2>10. \A id \in Ids : Offered(id)' => Offered(id)
    BY <1>1, <2>5, <2>7 DEF Offered
  <2>11. \A id \in Ids : Offered(id) => Offered(id)' \/ Disturbed'
    BY <1>1, <2>6, <2>7 DEF Offered
  <2> QED BY <1>1, <1>3, <2>7, <2>8, <2>9, <2>10, <2>11 DEF Handles
<1> QED BY <1>4, <1>5

\* A frame that is relayed live only is none of the mailbox's.
LEMMA EphemeralHandles ==
    ASSUME RInv, NEW s \in Socks, NEW r \in Nicks, RelayEphemeral(s, r)
    PROVE  Handles
<1>1. /\ UNCHANGED <<messages, cursor, received, wire, batch, link, nick>>
      /\ relay' = [relay EXCEPT ![s] = [id |-> 0, to |-> r, target |-> online[r]]]
      /\ relay[s] = NoRelay
  BY DEF RelayEphemeral, live_send, RInv, Bookkeeping
<1>2. relay'[s].id = 0 /\ relay[s].id = 0 /\ \A q \in Socks : q # s => relay'[q] = relay[q]
  BY <1>1 DEF RInv, TypeOK, NoRelay
<1>3. \A q \in Socks, n \in Nicks, id \in Ids : OnItsWay(q, n, id)' <=> OnItsWay(q, n, id)
  BY <1>1, <1>2 DEF OnItsWay, Ids
<1>4. Disturbed => Disturbed'
  BY <1>1 DEF Disturbed
<1> QED BY <1>1, <1>3, <1>4, Quiet

\* The client reads a frame that was offered to it.
LEMMA ReadHandles ==
    ASSUME RInv, NEW s \in Socks, ClientRead(s)
    PROVE  Handles
<1>1. UNCHANGED <<messages, cursor, batch, relay, link, nick>> /\ TypeOK
  BY DEF ClientRead, RInv
<1>2. PICK b \in Nicks, i \in 1 .. MaxMessages :
      /\ OnWire(s, b, i)
      /\ received' = [received EXCEPT ![b] = @ \cup {i}]
      /\ \A q \in Socks : \A m, j : OnWire(q, m, j)' => OnWire(q, m, j)
      /\ \A q \in Socks : \A m, j :
            OnWire(q, m, j) => OnWire(q, m, j)' \/ (q = s /\ m = b /\ j = i)
  BY <1>1, ReadOnly
<1>3. /\ \A n \in Nicks : received[n] \subseteq received'[n]
      /\ \A n \in Nicks : n # b => received'[n] = received[n]
      /\ received'[b] = received[b] \cup {i}
  BY <1>1, <1>2 DEF TypeOK
<1>4. \A id \in Ids : messages[id].to \in Nicks /\ id \in Nat
  BY <1>1, Recipients DEF Ids
<1>5. ASSUME NEW id \in Ids, id \in received'[messages[id].to]
      PROVE  id \in received[messages[id].to] \/ Offered(id)
  <2>1. SUFFICES ASSUME messages[id].to = b, id = i PROVE Offered(id)
    BY <1>3, <1>4, <1>5
  <2> QED BY <1>2, <2>1 DEF Offered, OnItsWay, OnWire
<1>6. ASSUME NEW id \in Ids, Offered(id)' PROVE Offered(id)
  <2>0. PICK r \in Nicks : r = messages[id].to
    BY <1>4
  <2>1. PICK q \in Socks : OnItsWay(q, r, id)'
    BY <1>1, <1>6, <2>0 DEF Offered
  <2>2. OnItsWay(q, r, id)
    <3>1. OnWire(q, r, id)' => OnWire(q, r, id)
      BY <1>2
    <3> QED BY <1>1, <2>1, <3>1 DEF OnItsWay, OnWire
  <2> QED BY <2>0, <2>2 DEF Offered
<1>7. ASSUME NEW id \in Ids, Offered(id) PROVE Offered(id)' \/ id \in received'[messages[id].to]
  <2>0. PICK r \in Nicks : r = messages[id].to
    BY <1>4
  <2>1. PICK q \in Socks : OnItsWay(q, r, id)
    BY <1>7, <2>0 DEF Offered
  <2>2. OnItsWay(q, r, id)' \/ (r = b /\ id = i)
    <3>1. OnWire(q, r, id) => OnWire(q, r, id)' \/ (r = b /\ id = i)
      BY <1>2
    <3> QED BY <1>1, <2>1, <3>1 DEF OnItsWay, OnWire
  <2>3. CASE r = b /\ id = i
    BY <1>3, <2>0, <2>3
  <2>4. CASE OnItsWay(q, r, id)'
    BY <1>1, <2>0, <2>4 DEF Offered
  <2> QED BY <2>2, <2>3, <2>4
<1>8. \A n \in Nicks : cursor[n] \in Nat
  BY <1>1 DEF TypeOK
<1>9. \A id \in Ids : /\ cursor[messages[id].to] <= cursor'[messages[id].to]
                     /\ ~(id > cursor[messages[id].to] /\ id <= cursor'[messages[id].to])
  BY <1>1, <1>4, <1>8
<1>10. Disturbed => Disturbed'
  BY <1>1 DEF Disturbed
<1> QED BY <1>1, <1>3, <1>5, <1>6, <1>7, <1>9, <1>10 DEF Handles

\* A failing link takes what was on its way with it.
LEMMA FailHandles ==
    ASSUME RInv, NEW s \in Socks, NEW new \in {"dead", "closed"}, LinkFails(s, new)
    PROVE  Handles
<1>1. /\ UNCHANGED <<messages, cursor, received, batch, relay, nick>>
      /\ wire' = [wire EXCEPT ![s] = <<>>] /\ link' = [link EXCEPT ![s] = new]
  BY DEF LinkFails
<1>2. Disturbed'
  BY <1>1 DEF Disturbed, RInv, TypeOK
<1>3. \A q \in Socks, n \in Nicks, id \in Ids : OnWire(q, n, id)' => OnWire(q, n, id)
  <2> SUFFICES ASSUME NEW q \in Socks, NEW n, NEW id, OnWire(q, n, id)' PROVE OnWire(q, n, id)
    OBVIOUS
  <2>1. CASE q = s
    <3>1. wire'[s] = <<>>
      BY <1>1 DEF RInv, TypeOK
    <3> QED BY <2>1, <3>1 DEF OnWire
  <2>2. CASE q # s
    <3>1. wire'[q] = wire[q]
      BY <1>1, <2>2 DEF RInv, TypeOK
    <3> QED BY <3>1 DEF OnWire
  <2> QED BY <2>1, <2>2
<1>4. \A q \in Socks, n \in Nicks, id \in Ids : OnItsWay(q, n, id)' => OnItsWay(q, n, id)
  BY <1>1, <1>3 DEF OnItsWay, OnWire
<1> QED BY <1>1, <1>2, <1>4, Quiet

\* save_message adds a row that nobody has read and no cursor has passed, and the
\* fate of every other frame is what it was.
LEMMA StoreMaps ==
    ASSUME RInv, NEW s \in Socks, NEW r \in Nicks, RelayStored(s, r)
    PROVE  Abstract!Post(r)
<1> DEFINE new == Len(messages) + 1
           row == [from |-> nick[s], to |-> r]
<1>1. /\ messages' = Append(messages, row) /\ Len(messages) < MaxMessages
      /\ UNCHANGED <<cursor, received, wire, batch, link, nick>> /\ relay[s] = NoRelay
      /\ \/ UNCHANGED relay
         \/ relay' = [relay EXCEPT ![s] = [id |-> new, to |-> r, target |-> online[r]]]
  BY DEF RelayStored, live_send, RInv, Bookkeeping
<1>2. /\ messages \in Seq(Frame) /\ row \in Frame /\ row.to = r /\ Len(messages) \in Nat
  BY LenProperties DEF RelayStored, RInv, TypeOK, Frame
<1> HIDE DEF row
<1>3. /\ Len(messages') = new /\ messages'[new] = row
      /\ \A id \in 1 .. Len(messages) : messages'[id] = messages[id]
  BY <1>1, <1>2, AppendProperties
<1>4. Ids' = Ids \cup {new} /\ new \notin Ids /\ new \in 1 .. MaxMessages
  BY <1>1, <1>2, <1>3 DEF Ids
<1>5. \A q \in Socks : relay'[q] = relay[q] \/ (relay[q].id = 0 /\ relay'[q].id = new)
  BY <1>1 DEF NoRelay, RInv, TypeOK
<1>6. ASSUME NEW q \in Socks, NEW n, NEW id \in Ids PROVE OnItsWay(q, n, id)' <=> OnItsWay(q, n, id)
  <2>1. id # new /\ id # 0
    BY <1>2, <1>4 DEF Ids
  <2> HIDE DEF new
  <2> QED BY <1>1, <1>5, <2>1 DEF OnItsWay
<1>7. ASSUME NEW id \in (1 .. MaxMessages) \ {new} PROVE PhaseOf(id)' = PhaseOf(id)
  <2>1. CASE id \notin Ids
    <3>1. id \notin Ids'
      BY <1>4, <2>1
    <3> QED BY <2>1, <3>1 DEF PhaseOf
  <2>2. CASE id \in Ids
    <3>1. id \in Ids' /\ messages'[id].to = messages[id].to
      BY <1>3, <1>4, <2>2 DEF Ids
    <3>2. (\E q \in Socks : OnItsWay(q, messages[id].to, id)')
                <=> (\E q \in Socks : OnItsWay(q, messages[id].to, id))
      BY <1>6, <2>2, <3>1
    <3>3. cursor' = cursor /\ received' = received
      BY <1>1
    <3> QED BY <2>2, <3>1, <3>2, <3>3 DEF PhaseOf
  <2> QED BY <2>1, <2>2
<1>8. ASSUME NEW id, id = new PROVE PhaseOf(id)' \in {"kept", "offered"}
  <2>1. id \in Ids' /\ messages'[id].to = r
    BY <1>2, <1>3, <1>4, <1>8
  <2>2. id \notin received'[r]
    BY <1>1, <1>4, <1>8 DEF RInv, RowsOnly
  <2>3. id > cursor'[r]
    <3>1. cursor'[r] <= Len(messages) /\ cursor'[r] \in Nat
      BY <1>1 DEF RInv, RowsOnly, TypeOK
    <3> QED BY <1>2, <1>8, <3>1
  <2> QED BY <2>1, <2>2, <2>3 DEF PhaseOf
<1> DEFINE to == [id \in Ids |-> messages[id].to]
<1>9. Len(to) = Len(messages) /\ to \in Seq(Nicks)
  BY Recipients DEF RInv
<1>10. to' = Append(to, r)
  <2>1. /\ to' = [id \in Ids' |-> messages'[id].to]
    OBVIOUS
  <2>2. DOMAIN Append(to, r) = 1 .. Len(to) + 1
    <3> HIDE DEF to
    <3> QED BY <1>9, AppendProperties, LenProperties
  <2>3. /\ Append(to, r)[new] = r /\ \A id \in 1 .. Len(messages) : Append(to, r)[id] = to[id]
    <3> HIDE DEF to
    <3> QED BY <1>9, AppendProperties
  <2>4. Append(to, r) = [id \in 1 .. Len(to) + 1 |-> Append(to, r)[id]]
    <3>1. Append(to, r) \in Seq(Nicks)
      <4> HIDE DEF to
      <4> QED BY <1>9, AppendProperties
    <3> HIDE DEF to
    <3> QED BY <2>2, <3>1, LenProperties, IsASeq
  <2>5. Ids' = 1 .. Len(to) + 1
    BY <1>3, <1>9 DEF Ids
  <2>6. ASSUME NEW id \in Ids' PROVE messages'[id].to = Append(to, r)[id]
    <3>1. CASE id = new
      BY <1>2, <1>3, <2>3, <3>1
    <3>2. CASE id # new
      <4>1. id \in Ids /\ id \in 1 .. Len(messages)
        BY <1>4, <3>2 DEF Ids
      <4> QED BY <1>3, <2>3, <4>1
    <3> QED BY <3>1, <3>2
  <2> QED BY <2>1, <2>4, <2>5, <2>6
<1>11. UNCHANGED Disturbed
  BY <1>1 DEF Disturbed
<1>12. \A id \in (1 .. MaxMessages) \ {Len(to) + 1} : PhaseOf(id)' = PhaseOf(id)
  BY <1>7, <1>9
<1>13. /\ Len(to) + 1 \in 1 .. MaxMessages
       /\ [id \in 1 .. MaxMessages |-> PhaseOf(id)]'[Len(to) + 1] \in {"kept", "offered"}
  <2>1. PICK id \in 1 .. MaxMessages : id = new
    BY <1>4
  <2>2. [i \in 1 .. MaxMessages |-> PhaseOf(i)]'[id] = PhaseOf(id)'
    OBVIOUS
  <2> QED BY <1>8, <1>9, <2>1, <2>2
<1> QED BY <1>10, <1>11, <1>12, <1>13 DEF Abstract!Post, Disturbed

\* Every step of the relay is a step of the mailbox.
LEMMA StepMaps ==
    ASSUME RInv, TypeOK', [Next]_vars
    PROVE  Abstract!Next
<1>0. TypeOK
  BY DEF RInv
<1>1. SUFFICES Handles \/ \E s \in Socks, r \in Nicks : RelayStored(s, r)
  BY <1>0, <1>1, HandleMaps, StoreMaps DEF Abstract!Next
<1>2. CASE UNCHANGED vars
  BY <1>2, IdleHandles DEF vars
<1>3. ASSUME NEW s \in Socks, Server(s) PROVE Handles
  <2>0. ASSUME EvictDone(s) PROVE Handles
    <3>1. /\ UNCHANGED <<messages, cursor, received, wire, batch, relay, link>> /\ batch[s] = {}
          /\ \A q \in Socks : q # s => nick'[q] = nick[q]
      BY <1>0, <2>0 DEF EvictDone, Bind, TypeOK, RInv, Bookkeeping
    <3> QED BY <3>1, IdleHandles
  <2>1. ASSUME LoginSend(s), ~Exit(s) PROVE Handles
    BY <2>1, IdleHandles DEF LoginSend
  <2>2. RelayRaise(s) \/ HandlerEnds(s) => Exit(s)
    BY DEF RelayRaise, HandlerEnds
  <2> QED BY <1>3, <2>0, <2>1, <2>2, ExitHandles, FetchHandles, BacklogHandles, SentHandles DEF Server
<1>4. ASSUME NEW s \in Socks, Connect(s) \/ (\E n \in Nicks : Hello(s, n)) \/ KeepaliveTimeout(s)
      PROVE  Handles
  <2>1. UNCHANGED <<messages, cursor, received, wire, batch, relay>>
    BY <1>4 DEF Connect, Hello, KeepaliveTimeout
  <2>2. \A q \in Socks : link[q] \in {"dead", "closed"} => link'[q] \in {"dead", "closed"}
    <3>1. \/ UNCHANGED link
          \/ link[s] = "new" /\ link' = [link EXCEPT ![s] = "open"]
          \/ \E e : link' = [link EXCEPT ![e] = "closed"]
      BY <1>4 DEF Connect, Hello, KeepaliveTimeout
    <3> QED BY <1>0, <3>1 DEF TypeOK
  <2>3. \A q \in Socks : nick'[q] = nick[q] \/ batch[q] = {}
    <3>1. UNCHANGED nick \/ (pc[s] = "serve" /\ \A q \in Socks : q # s => nick'[q] = nick[q])
      BY <1>0, <1>4 DEF Connect, Hello, Bind, KeepaliveTimeout, TypeOK
    <3> QED BY <3>1 DEF RInv, Bookkeeping
  <2> QED BY <2>1, <2>2, <2>3, IdleHandles
<1>5. ASSUME NEW s \in Socks, Client(s), ~\E r \in Nicks : RelayStored(s, r) PROVE Handles
  BY <1>4, <1>5, EphemeralHandles DEF Client
<1>6. ASSUME NEW s \in Socks, Network(s) PROVE Handles
  BY <1>4, <1>6, ReadHandles, FailHandles DEF Network
<1> QED BY <1>2, <1>3, <1>5, <1>6 DEF Next

\* The relay starts as an empty mailbox.
LEMMA InitMaps == Init => Abstract!Init /\ RInv
<1> SUFFICES ASSUME Init PROVE Abstract!Init /\ RInv
  OBVIOUS
<1>1. Ids = {}
  BY DEF Init, Ids
<1>2. [id \in Ids |-> messages[id].to] = <<>>
  BY <1>1
<1>3. [id \in 1 .. MaxMessages |-> PhaseOf(id)] = [id \in 1 .. MaxMessages |-> "absent"]
  BY <1>1 DEF PhaseOf
<1>4. ~Disturbed
  BY DEF Init, Disturbed
<1>5. Disturbed = FALSE
  BY <1>4 DEF Disturbed
<1>6. Abstract!Init
  BY <1>2, <1>3, <1>5 DEF Abstract!Init, Disturbed
<1>7. TypeOK
  BY DEF Init, TypeOK, NoRelay, Frame
<1>8. NickTaken /\ OnlineServing /\ Bookkeeping /\ SendAimed
  BY DEF Init, NickTaken, OnlineServing, Bookkeeping, SendAimed, NoRelay, Ids
<1>9. RowsOnly
  <2>1. \A s \in Socks : \A n, id : ~OnWire(s, n, id)
    BY DEF Init, OnWire
  <2> QED BY <2>1 DEF Init, RowsOnly
<1> QED BY <1>6, <1>7, <1>8, <1>9 DEF RInv

\* The relay implements the mailbox for any users, sockets and history: a stored
\* frame is kept until it is offered and offered until it is read, and it is lost
\* only with a connection that failed or to a later frame that was sent live.
THEOREM MailboxImplemented == Spec => ImplementsMailbox
<1>1. RInv /\ [Next]_vars => RInv'
  BY TypeStep, TakenStep, ServingStep, BooksStep, AimedStep, RowsStep DEF RInv
<1>2. RInv /\ RInv' /\ [Next]_vars => [Abstract!Next]_(Abstract!vars)
  BY StepMaps DEF RInv
<1>3. Spec => []RInv
  BY <1>1, InitMaps, PTL DEF Spec
<1>4. Spec => Abstract!Spec
  BY <1>2, <1>3, InitMaps, PTL DEF Spec, Abstract!Spec
<1> QED BY <1>4 DEF ImplementsMailbox
=============================================================================

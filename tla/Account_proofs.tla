--------------------------- MODULE Account_proofs ---------------------------
(***************************************************************************)
(* Proofs about Account and AppLock: the lock, the recovery and the names, *)
(* for any devices, nicks, passwords and scenarios.                        *)
(***************************************************************************)
EXTENDS Account, TLAPS

-----------------------------------------------------------------------------
(* The inductive invariant.  Its first part is about one client at a time. *)

\* On a desktop a lock has a PIN, and only a live session with the lock on is
\* locked.
LockSound(c) ==
    /\ c.platform \in {"windows", "android"}
    /\ c.lock /\ c.platform = "windows" => c.pin # None
    /\ c.locked => c.session /\ c.lock

\* While dates may be tried, the wrong ones of this pause-free stretch are the
\* ones that are counted; each earlier unit of time had at most RecoveryTries.
CountSound(c, t) ==
    /\ c.wrong \in [Nicks -> Nat]
    /\ c.fails \in [Nicks -> 0..(RecoveryTries - 1)]
    /\ c.until \in [Nicks -> Nat]
    /\ \A n \in Nicks :
        /\ c.until[n] <= t => c.wrong[n] <= RecoveryTries * t + c.fails[n]
        /\ c.wrong[n] <= RecoveryTries * (t + 1)

ClientOK(c, t) == IsClient(c) /\ LockSound(c) /\ CountSound(c, t)

DevicesInv ==
    /\ now \in Nat
    /\ dev = [d \in Devices |-> dev[d]]
    /\ \A d \in Devices : ClientOK(dev[d], now)

(* Its second part is about names: a device says hello with a key of its   *)
(* own, and who is online under a name holds the key of the name.          *)

Elements(s) == {s[i] : i \in DOMAIN s}
FramesOf(d, s) ==
    /\ s \in Seq(Elements(s))
    /\ \A i \in DOMAIN s : s[i].type = "hello" => s[i].key[1] = d

NamesInv ==
    /\ row = [n \in Nicks |-> row[n]]
    /\ online = [n \in Nicks |-> online[n]]
    /\ up = [d \in Devices |-> up[d]]
    /\ \A d \in Devices : FramesOf(d, up[d])
    /\ \A n \in Nicks : online[n] # None => row[n].key[1] = online[n]

IInv == DevicesInv /\ NamesInv
-----------------------------------------------------------------------------
(* Clients that differ only in fields the first part does not read.         *)

Watched == {"platform", "lock", "pin", "session", "locked", "wrong", "fails", "until"}
Kept(c, e) == IsClient(e) /\ \A f \in Watched : e[f] = c[f]

\* One field is set: the others stay as they are.
LEMMA Put ==
    ASSUME NEW c, IsClient(c), NEW f \in ClientFields, NEW v
    PROVE  /\ IsClient([c EXCEPT ![f] = v])
           /\ [c EXCEPT ![f] = v][f] = v
           /\ \A g \in ClientFields \ {f} : [c EXCEPT ![f] = v][g] = c[g]
BY DEF IsClient

\* A field that is not watched is set.
LEMMA PutKept ==
    ASSUME NEW c, IsClient(c), NEW f \in ClientFields \ Watched, NEW v
    PROVE  Kept(c, [c EXCEPT ![f] = v])
<1>1. Watched \subseteq ClientFields
  BY DEF Watched, ClientFields
<1>2. \A g \in Watched : g \in ClientFields \ {f}
  BY <1>1
<1> QED
  BY <1>2, Put DEF Kept

\* Nothing is set.
LEMMA KeptSelf == ASSUME NEW c, IsClient(c) PROVE Kept(c, c)
BY DEF Kept

\* What two changes one after the other keep is kept.
LEMMA KeptTwice ==
    ASSUME NEW c, NEW e, NEW g, Kept(c, e), Kept(e, g)
    PROVE  Kept(c, g)
BY DEF Kept

\* The fields of a client that the first part does not read.
LEMMA Unwatched ==
    \A f \in {"hardware", "file", "salt", "vault", "dob", "queued", "nick", "ident", "url", "sock",
              "retry", "intent", "pw", "ver", "dobP", "reg", "saltT", "tls", "enroll", "prompts",
              "outbox", "revealed"} : f \in ClientFields \ Watched
BY DEF ClientFields, Watched

\* The same for every field by name, as the operators set them.
LEMMA SetKept ==
    ASSUME NEW c, IsClient(c), NEW v
    PROVE  /\ Kept(c, [c EXCEPT !.file = v]) /\ Kept(c, [c EXCEPT !.salt = v])
           /\ Kept(c, [c EXCEPT !.vault = v]) /\ Kept(c, [c EXCEPT !.dob = v])
           /\ Kept(c, [c EXCEPT !.queued = v]) /\ Kept(c, [c EXCEPT !.nick = v])
           /\ Kept(c, [c EXCEPT !.ident = v]) /\ Kept(c, [c EXCEPT !.url = v])
           /\ Kept(c, [c EXCEPT !.sock = v]) /\ Kept(c, [c EXCEPT !.retry = v])
           /\ Kept(c, [c EXCEPT !.intent = v]) /\ Kept(c, [c EXCEPT !.pw = v])
           /\ Kept(c, [c EXCEPT !.ver = v]) /\ Kept(c, [c EXCEPT !.dobP = v])
           /\ Kept(c, [c EXCEPT !.reg = v]) /\ Kept(c, [c EXCEPT !.saltT = v])
           /\ Kept(c, [c EXCEPT !.tls = v]) /\ Kept(c, [c EXCEPT !.enroll = v])
           /\ Kept(c, [c EXCEPT !.prompts = v]) /\ Kept(c, [c EXCEPT !.outbox = v])
           /\ Kept(c, [c EXCEPT !.revealed = v])
BY PutKept, Unwatched

\* Another field is set after that.
LEMMA ThenKept ==
    ASSUME NEW c, NEW e, Kept(c, e), NEW v
    PROVE  /\ Kept(c, [e EXCEPT !.file = v]) /\ Kept(c, [e EXCEPT !.salt = v])
           /\ Kept(c, [e EXCEPT !.vault = v]) /\ Kept(c, [e EXCEPT !.dob = v])
           /\ Kept(c, [e EXCEPT !.queued = v]) /\ Kept(c, [e EXCEPT !.nick = v])
           /\ Kept(c, [e EXCEPT !.ident = v]) /\ Kept(c, [e EXCEPT !.url = v])
           /\ Kept(c, [e EXCEPT !.sock = v]) /\ Kept(c, [e EXCEPT !.retry = v])
           /\ Kept(c, [e EXCEPT !.intent = v]) /\ Kept(c, [e EXCEPT !.pw = v])
           /\ Kept(c, [e EXCEPT !.ver = v]) /\ Kept(c, [e EXCEPT !.dobP = v])
           /\ Kept(c, [e EXCEPT !.reg = v]) /\ Kept(c, [e EXCEPT !.saltT = v])
           /\ Kept(c, [e EXCEPT !.tls = v]) /\ Kept(c, [e EXCEPT !.enroll = v])
           /\ Kept(c, [e EXCEPT !.prompts = v]) /\ Kept(c, [e EXCEPT !.outbox = v])
           /\ Kept(c, [e EXCEPT !.revealed = v])
<1>1. IsClient(e)
  BY DEF Kept
<1>2. /\ Kept(e, [e EXCEPT !.file = v]) /\ Kept(e, [e EXCEPT !.salt = v])
      /\ Kept(e, [e EXCEPT !.vault = v]) /\ Kept(e, [e EXCEPT !.dob = v])
      /\ Kept(e, [e EXCEPT !.queued = v]) /\ Kept(e, [e EXCEPT !.nick = v])
      /\ Kept(e, [e EXCEPT !.ident = v]) /\ Kept(e, [e EXCEPT !.url = v])
      /\ Kept(e, [e EXCEPT !.sock = v]) /\ Kept(e, [e EXCEPT !.retry = v])
      /\ Kept(e, [e EXCEPT !.intent = v]) /\ Kept(e, [e EXCEPT !.pw = v])
      /\ Kept(e, [e EXCEPT !.ver = v]) /\ Kept(e, [e EXCEPT !.dobP = v])
      /\ Kept(e, [e EXCEPT !.reg = v]) /\ Kept(e, [e EXCEPT !.saltT = v])
      /\ Kept(e, [e EXCEPT !.tls = v]) /\ Kept(e, [e EXCEPT !.enroll = v])
      /\ Kept(e, [e EXCEPT !.prompts = v]) /\ Kept(e, [e EXCEPT !.outbox = v])
      /\ Kept(e, [e EXCEPT !.revealed = v])
  BY <1>1, SetKept
<1> QED
  BY <1>2, KeptTwice

\* What is kept keeps the client sound.
LEMMA KeptSound ==
    ASSUME NEW c, NEW e, NEW t, ClientOK(c, t), Kept(c, e)
    PROVE  ClientOK(e, t)
<1>1. /\ e.platform = c.platform /\ e.lock = c.lock /\ e.pin = c.pin /\ e.session = c.session
      /\ e.locked = c.locked /\ e.wrong = c.wrong /\ e.fails = c.fails /\ e.until = c.until
  BY DEF Kept, Watched
<1>2. IsClient(e)
  BY DEF Kept
<1>3. LockSound(e)
  BY <1>1 DEF ClientOK, LockSound
<1>4. CountSound(e, t)
  BY <1>1, Zenon DEF ClientOK, CountSound
<1> QED
  BY <1>2, <1>3, <1>4 DEF ClientOK
-----------------------------------------------------------------------------
(* The operators of the client that leave the watched fields alone.         *)

\* TLS, the prompts and the socket.
LEMMA SmallKept ==
    ASSUME NEW c, IsClient(c)
    PROVE  /\ Kept(c, onSslErrors(c)) /\ Kept(c, TlsEnded(c)) /\ Kept(c, describeTlsSession(c))
           /\ Kept(c, openSocketWithTls(c)) /\ Kept(c, restoreOutbox(c))
           /\ \A p : Kept(c, Show(c, p)) /\ Kept(c, Dismiss(c, p))
           /\ \A pw : Kept(c, requestBiometricLoginEnroll(c, pw))
BY SetKept DEF onSslErrors, TlsEnded, describeTlsSession, openSocketWithTls, restoreOutbox, Show,
               Dismiss, requestBiometricLoginEnroll

\* The vault and the birthday on disk.
LEMMA VaultKept ==
    ASSUME NEW c, IsClient(c), NEW n, NEW x
    PROVE  /\ Kept(c, [c EXCEPT !.vault[n] = x])
           /\ Kept(c, storeBirthdayVerifier(c, n, x))
           /\ Kept(c, disableBiometricLogin(c, n))
           /\ \A kind : Kept(c, loginWithBiometric(c, n, kind))
           /\ Kept(c, biometricLogin(c, n))
           /\ \A wraps \in BOOLEAN : Kept(c, enrollLogin(c, n, x, wraps))
<1>1. \A v : Kept(c, [c EXCEPT !.vault = v]) /\ Kept(c, [c EXCEPT !.dob = v])
  BY SetKept
<1>2. Kept(c, c) /\ \A p : Kept(c, Show(c, p))
  BY KeptSelf, SmallKept
<1>3. \A y : Kept(c, [c EXCEPT !.vault[n] = y]) /\ Kept(c, [c EXCEPT !.dob[n] = y])
  BY <1>1
<1> QED
  BY <1>2, <1>3 DEF storeBirthdayVerifier, disableBiometricLogin, loginWithBiometric,
                    biometricLogin, enrollLogin

\* keys: a pending enrolment.
LEMMA EnrolKept ==
    ASSUME NEW c, IsClient(c), NEW wraps \in BOOLEAN
    PROVE  Kept(c, EnrolOnKeys(c, wraps))
<1> DEFINE e == enrollLogin(c, c.nick, c.enroll, wraps)
<1>1. Kept(c, e)
  BY VaultKept
<1> HIDE DEF e
<1>2. Kept(c, [e EXCEPT !.enroll = None])
  BY <1>1, ThenKept
<1> QED
  BY <1>2, KeptSelf DEF EnrolOnKeys, e

\* The identity of the nick.
LEMMA IdentityKept ==
    ASSUME NEW c, IsClient(c), NEW n, NEW pw, NEW reg \in BOOLEAN, NEW saves \in BOOLEAN
    PROVE  Kept(c, establishIdentity(c, n, pw, reg, saves).c)
<1>1. Kept(c, c)
  BY KeptSelf
<1> DEFINE a == [c EXCEPT !.ident = n]
<1>2. Kept(c, a)
  BY SetKept
<1>3. \A v : Kept(c, [a EXCEPT !.file = v])
  <2> HIDE DEF a
  <2> QED
    BY <1>2, ThenKept
<1>4. \A v : Kept(c, [a EXCEPT !.file[n] = v]) /\ Kept(c, [c EXCEPT !.ident = n, !.file[n] = v])
  BY <1>3
<1>5. Kept(c, CreateIdentity(c, n, pw, saves).c)
  BY <1>1, <1>2, <1>4 DEF CreateIdentity
<1>6. Kept(c, OpenIdentity(c, n, pw, saves).c)
  BY <1>1, <1>2, <1>4 DEF OpenIdentity
<1> QED
  BY <1>5, <1>6 DEF establishIdentity
\* login and registerAccount: whatever they do, the lock and the counters stay.
LEMMA LoginKept ==
    ASSUME NEW c, IsClient(c), NEW url, NEW n, NEW pw, NEW saves \in BOOLEAN
    PROVE  Kept(c, login(c, url, n, pw, saves))
<1> DEFINE a1 == [c EXCEPT !.nick = n]
           a2 == [a1 EXCEPT !.url = url]
           named == [a2 EXCEPT !.reg = FALSE]
           id == establishIdentity(named, n, pw, FALSE, saves)
           i == id.c
           b1 == [i EXCEPT !.pw = pw]
           b2 == [b1 EXCEPT !.ver = None]
           b3 == restoreOutbox(b2)
           b4 == [b3 EXCEPT !.intent = FALSE]
           b5 == openSocketWithTls(b4)
<1>1. Kept(c, a1)
  BY SetKept
<1>2. Kept(c, a2)
  <2> HIDE DEF a1
  <2> QED BY <1>1, ThenKept
<1>3. Kept(c, named)
  <2> HIDE DEF a2
  <2> QED BY <1>2, ThenKept
<1>4. login(c, url, n, pw, saves) = IF ~id.ok THEN i ELSE b5
  BY DEF login
<1> HIDE DEF named
<1>5. Kept(named, i)
  <2>1. IsClient(named)
    BY <1>3 DEF Kept
  <2> QED
    BY <2>1, IdentityKept
<1> HIDE DEF id, i
<1>6. Kept(c, i)
  BY <1>3, <1>5, KeptTwice
<1>7. Kept(c, b1)
  BY <1>6, ThenKept
<1> HIDE DEF b1
<1>8. Kept(c, b2)
  BY <1>7, ThenKept
<1> HIDE DEF b2
<1>9. Kept(c, b3)
  <2>1. IsClient(b2)
    BY <1>8 DEF Kept
  <2>2. Kept(b2, b3)
    BY <2>1, SmallKept
  <2> QED
    BY <1>8, <2>2, KeptTwice
<1> HIDE DEF b3
<1>10. Kept(c, b4)
  BY <1>9, ThenKept
<1> HIDE DEF b4
<1>11. Kept(c, b5)
  <2>1. IsClient(b4)
    BY <1>10 DEF Kept
  <2>2. Kept(b4, b5)
    BY <2>1, SmallKept
  <2> QED
    BY <1>10, <2>2, KeptTwice
<1> HIDE DEF b5
<1> QED
  BY <1>4, <1>6, <1>11

\* So does registering.
LEMMA RegisterKept ==
    ASSUME NEW c, IsClient(c), NEW d, NEW url, NEW n, NEW pw, NEW date, NEW saves \in BOOLEAN
    PROVE  Kept(c, registerAccount(d, c, url, n, pw, date, saves))
<1> DEFINE a0 == storeBirthdayVerifier(c, n, date)
           a1 == [a0 EXCEPT !.nick = n]
           a2 == [a1 EXCEPT !.url = url]
           a3 == [a2 EXCEPT !.reg = TRUE]
           named == [a3 EXCEPT !.dobP = date]
           id == establishIdentity(named, n, pw, TRUE, saves)
           i == id.c
           b1 == [i EXCEPT !.pw = pw]
           s == [i.salt EXCEPT ![n] = d]
           b2 == [b1 EXCEPT !.salt[n] = d]
           b3 == [b2 EXCEPT !.ver = [pw |-> pw, salt |-> d]]
           b4 == restoreOutbox(b3)
           b5 == [b4 EXCEPT !.intent = FALSE]
           b6 == openSocketWithTls(b5)
<1>4. registerAccount(d, c, url, n, pw, date, saves) = IF ~id.ok THEN i ELSE b6
  BY DEF registerAccount
<1>0. Kept(c, a0)
  BY VaultKept
<1> HIDE DEF a0
<1>1. Kept(c, a1)
  BY <1>0, ThenKept
<1> HIDE DEF a1
<1>2. Kept(c, a2)
  BY <1>1, ThenKept
<1> HIDE DEF a2
<1>3. Kept(c, a3)
  BY <1>2, ThenKept
<1> HIDE DEF a3
<1>3a. Kept(c, named)
  BY <1>3, ThenKept
<1> HIDE DEF named
<1>5. Kept(named, i)
  <2>1. IsClient(named)
    BY <1>3a DEF Kept
  <2> QED
    BY <2>1, IdentityKept
<1> HIDE DEF id, i
<1>6. Kept(c, i)
  BY <1>3a, <1>5, KeptTwice
<1>7. Kept(c, b1)
  BY <1>6, ThenKept
<1> HIDE DEF b1
<1>8. Kept(c, b2)
  <2>1. \A v : Kept(c, [b1 EXCEPT !.salt = v])
    BY <1>7, ThenKept
  <2> QED
    BY <2>1
<1> HIDE DEF b2
<1>8a. Kept(c, b3)
  <2>1. \A v : Kept(c, [b2 EXCEPT !.ver = v])
    BY <1>8, ThenKept
  <2> QED
    BY <2>1
<1> HIDE DEF b3
<1>9. Kept(c, b4)
  <2>1. IsClient(b3)
    BY <1>8a DEF Kept
  <2>2. Kept(b3, b4)
    BY <2>1, SmallKept
  <2> QED
    BY <1>8a, <2>2, KeptTwice
<1> HIDE DEF b4
<1>10. Kept(c, b5)
  BY <1>9, ThenKept
<1> HIDE DEF b5
<1>11. Kept(c, b6)
  <2>1. IsClient(b5)
    BY <1>10 DEF Kept
  <2>2. Kept(b5, b6)
    BY <2>1, SmallKept
  <2> QED
    BY <1>10, <2>2, KeptTwice
<1> HIDE DEF b6
<1> QED
  BY <1>4, <1>6, <1>11

\* The verifier, and the hello with the outbox after it.
LEMMA HelloKept ==
    ASSUME NEW c, IsClient(c), NEW d, NEW salt
    PROVE  /\ Kept(c, deriveVerifierLocally(d, c))
           /\ Kept(c, [c EXCEPT !.salt[c.nick] = salt, !.ver = [pw |-> c.pw, salt |-> salt]])
           /\ Kept(c, completeHello(c))
<1>1. ASSUME NEW x, NEW n, NEW v
      PROVE  Kept(c, [c EXCEPT !.salt[n] = x, !.ver = v])
  <2> DEFINE a == [c EXCEPT !.salt[n] = x]
  <2>1. Kept(c, a)
    <3>1. \A y : Kept(c, [c EXCEPT !.salt = y])
      BY SetKept
    <3> QED
      BY <3>1
  <2>2. Kept(c, [a EXCEPT !.ver = v])
    <3> HIDE DEF a
    <3> QED
      BY <2>1, ThenKept
  <2> QED
    BY <2>2
<1>2. Kept(c, deriveVerifierLocally(d, c))
  BY <1>1, KeptSelf DEF deriveVerifierLocally
<1>3. Kept(c, completeHello(c))
  <2> DEFINE a == [c EXCEPT !.saltT = FALSE]
             b == [a EXCEPT !.ver = None]
             e == [b EXCEPT !.reg = FALSE]
             f == [e EXCEPT !.outbox = <<>>]
             g == [f EXCEPT !.queued[e.nick] = FALSE]
  <2>1. completeHello(c) = IF e.outbox = <<>> THEN e ELSE g
    <3>1. uploadPublicKey(a) = e
      BY DEF uploadPublicKey
    <3> HIDE DEF e
    <3>2. flushOutbox(e) = IF e.outbox = <<>> THEN e ELSE g
      BY DEF flushOutbox
    <3> QED
      BY <3>1, <3>2 DEF completeHello
  <2>2. Kept(c, a)
    BY SetKept
  <2> HIDE DEF a
  <2>3. Kept(c, b)
    BY <2>2, ThenKept
  <2> HIDE DEF b
  <2>4. Kept(c, e)
    BY <2>3, ThenKept
  <2> HIDE DEF e
  <2>5. Kept(c, f)
    BY <2>4, ThenKept
  <2> HIDE DEF f
  <2>6. Kept(c, g)
    <3>1. \A v : Kept(c, [f EXCEPT !.queued = v])
      BY <2>5, ThenKept
    <3> QED
      BY <3>1
  <2> HIDE DEF g
  <2> QED
    BY <2>1, <2>4, <2>6
<1> QED
  BY <1>1, <1>2, <1>3

\* A text that waits.
LEMMA ComposeKept ==
    ASSUME NEW c, IsClient(c)
    PROVE  Kept(c, [c EXCEPT !.outbox = Append(@, c.nick), !.queued[c.nick] = TRUE])
<1> DEFINE a == [c EXCEPT !.outbox = Append(@, c.nick)]
<1>1. Kept(c, a)
  BY SetKept
<1>2. \A v : Kept(c, [a EXCEPT !.queued = v])
  <2> HIDE DEF a
  <2> QED
    BY <1>1, ThenKept
<1> QED
  BY <1>2
-----------------------------------------------------------------------------
(* The operators that change the watched fields keep the client sound.      *)

\* A session ends: the screen opens with it; a restart also forgets a reveal.
LEMMA EndedSound ==
    ASSUME NEW c, NEW e, NEW t, ClientOK(c, t), Kept(c, e)
    PROVE  /\ ClientOK([e EXCEPT !.session = FALSE, !.locked = FALSE], t)
           /\ ClientOK([e EXCEPT !.session = FALSE, !.locked = FALSE, !.reveal = FALSE], t)
<1>1. ClientOK(e, t)
  BY KeptSound
<1> DEFINE x == [e EXCEPT !.session = FALSE, !.locked = FALSE]
           y == [x EXCEPT !.reveal = FALSE]
<1>2. /\ IsClient(x) /\ x.session = FALSE /\ x.locked = FALSE /\ x.platform = e.platform
      /\ x.lock = e.lock /\ x.pin = e.pin /\ x.wrong = e.wrong /\ x.fails = e.fails
      /\ x.until = e.until
  BY <1>1 DEF ClientOK, IsClient, ClientFields
<1> HIDE DEF x
<1>3. ClientOK(x, t)
  BY <1>1, <1>2, Zenon DEF ClientOK, LockSound, CountSound
<1>4. /\ IsClient(y) /\ y.session = FALSE /\ y.locked = FALSE /\ y.platform = x.platform
      /\ y.lock = x.lock /\ y.pin = x.pin /\ y.wrong = x.wrong /\ y.fails = x.fails
      /\ y.until = x.until
  BY <1>2 DEF IsClient, ClientFields
<1> HIDE DEF y
<1>5. ClientOK(y, t)
  BY <1>3, <1>4, Zenon DEF ClientOK, LockSound, CountSound
<1> QED
  BY <1>3, <1>5 DEF x, y

\* A process that has just started.
LEMMA FreshSound ==
    ASSUME NEW c, NEW t, ClientOK(c, t)
    PROVE  ClientOK(Fresh(c), t)
<1> DEFINE a1 == [c EXCEPT !.nick = None]
           a2 == [a1 EXCEPT !.ident = None]
           a3 == [a2 EXCEPT !.url = None]
           a4 == [a3 EXCEPT !.sock = "closed"]
           a5 == [a4 EXCEPT !.retry = FALSE]
           a6 == [a5 EXCEPT !.intent = FALSE]
           a7 == [a6 EXCEPT !.pw = None]
           a8 == [a7 EXCEPT !.ver = None]
           a9 == [a8 EXCEPT !.dobP = None]
           a10 == [a9 EXCEPT !.reg = FALSE]
           a11 == [a10 EXCEPT !.saltT = FALSE]
           a12 == [a11 EXCEPT !.tls = "none"]
           a13 == [a12 EXCEPT !.enroll = None]
           a14 == [a13 EXCEPT !.prompts = {}]
           a15 == [a14 EXCEPT !.outbox = <<>>]
           a16 == [a15 EXCEPT !.revealed = @ \ {"left"}]
           z == [a16 EXCEPT !.session = FALSE, !.locked = FALSE, !.reveal = FALSE]
<1>1. Fresh(c) = z
  BY DEF Fresh
<1>0. Kept(c, c)
  BY KeptSelf DEF ClientOK
<1>2. Kept(c, a1)
  BY <1>0, ThenKept
<1> HIDE DEF a1
<1>3. Kept(c, a2)
  BY <1>2, ThenKept
<1> HIDE DEF a2
<1>4. Kept(c, a3)
  BY <1>3, ThenKept
<1> HIDE DEF a3
<1>5. Kept(c, a4)
  BY <1>4, ThenKept
<1> HIDE DEF a4
<1>6. Kept(c, a5)
  BY <1>5, ThenKept
<1> HIDE DEF a5
<1>7. Kept(c, a6)
  BY <1>6, ThenKept
<1> HIDE DEF a6
<1>8. Kept(c, a7)
  BY <1>7, ThenKept
<1> HIDE DEF a7
<1>9. Kept(c, a8)
  BY <1>8, ThenKept
<1> HIDE DEF a8
<1>10. Kept(c, a9)
  BY <1>9, ThenKept
<1> HIDE DEF a9
<1>11. Kept(c, a10)
  BY <1>10, ThenKept
<1> HIDE DEF a10
<1>12. Kept(c, a11)
  BY <1>11, ThenKept
<1> HIDE DEF a11
<1>13. Kept(c, a12)
  BY <1>12, ThenKept
<1> HIDE DEF a12
<1>14. Kept(c, a13)
  BY <1>13, ThenKept
<1> HIDE DEF a13
<1>15. Kept(c, a14)
  BY <1>14, ThenKept
<1> HIDE DEF a14
<1>16. Kept(c, a15)
  BY <1>15, ThenKept
<1> HIDE DEF a15
<1>17. Kept(c, a16)
  BY <1>16, ThenKept
<1> HIDE DEF a16
<1>E. ClientOK(z, t)
  BY <1>17, EndedSound
<1> QED
  BY <1>1, <1>E

\* logout opens the screen it leaves.
LEMMA LogoutSound ==
    ASSUME NEW c, NEW t, ClientOK(c, t)
    PROVE  ClientOK(logout(c), t)
<1> DEFINE a1 == [TlsEnded(c) EXCEPT !.intent = TRUE]
           a2 == [a1 EXCEPT !.retry = FALSE]
           a3 == [a2 EXCEPT !.sock = "closed"]
           a4 == [a3 EXCEPT !.ident = None]
           a5 == [a4 EXCEPT !.outbox = <<>>]
           a6 == [a5 EXCEPT !.pw = None]
           a7 == [a6 EXCEPT !.ver = None]
           a8 == [a7 EXCEPT !.saltT = FALSE]
           a9 == [a8 EXCEPT !.enroll = None]
           z == [a9 EXCEPT !.session = FALSE, !.locked = FALSE]
<1>1. logout(c) = z
  BY DEF logout
<1>0. Kept(c, TlsEnded(c))
  BY SmallKept DEF ClientOK
<1>2. Kept(c, a1)
  BY <1>0, ThenKept
<1> HIDE DEF a1
<1>3. Kept(c, a2)
  BY <1>2, ThenKept
<1> HIDE DEF a2
<1>4. Kept(c, a3)
  BY <1>3, ThenKept
<1> HIDE DEF a3
<1>5. Kept(c, a4)
  BY <1>4, ThenKept
<1> HIDE DEF a4
<1>6. Kept(c, a5)
  BY <1>5, ThenKept
<1> HIDE DEF a5
<1>7. Kept(c, a6)
  BY <1>6, ThenKept
<1> HIDE DEF a6
<1>8. Kept(c, a7)
  BY <1>7, ThenKept
<1> HIDE DEF a7
<1>9. Kept(c, a8)
  BY <1>8, ThenKept
<1> HIDE DEF a8
<1>10. Kept(c, a9)
  BY <1>9, ThenKept
<1> HIDE DEF a9
<1>E. ClientOK(z, t)
  BY <1>10, EndedSound
<1> QED
  BY <1>1, <1>E

\* onDisconnected: a final code logs out, another one may arm the back-off timer.
LEMMA DisconnectedSound ==
    ASSUME NEW c, NEW t, ClientOK(c, t), NEW code
    PROVE  ClientOK(onDisconnected(c, code), t)
<1> DEFINE a0 == TlsEnded(c)
           a1 == [a0 EXCEPT !.sock = "closed"]
           gone == [a1 EXCEPT !.saltT = FALSE]
           armed == [gone EXCEPT !.retry = TRUE]
<1>1. onDisconnected(c, code) = IF FinalCode(code) THEN logout(gone)
                                ELSE IF ~c.intent THEN armed ELSE gone
  BY DEF onDisconnected
<1>2. Kept(c, a0)
  BY SmallKept DEF ClientOK
<1> HIDE DEF a0
<1>3. Kept(c, a1)
  BY <1>2, ThenKept
<1> HIDE DEF a1
<1>4. Kept(c, gone)
  BY <1>3, ThenKept
<1> HIDE DEF gone
<1>5. Kept(c, armed)
  BY <1>4, ThenKept
<1> HIDE DEF armed
<1>6. ClientOK(gone, t) /\ ClientOK(armed, t)
  BY <1>4, <1>5, KeptSound
<1>7. ClientOK(logout(gone), t)
  BY <1>6, LogoutSound
<1> QED
  BY <1>1, <1>6, <1>7

\* onConnected: a session is live.
LEMMA ConnectedSound ==
    ASSUME NEW c, NEW t, ClientOK(c, t)
    PROVE  ClientOK([onConnected(c) EXCEPT !.saltT = TRUE], t)
<1> DEFINE a == describeTlsSession(c)
           b == [a EXCEPT !.sock = "open"]
           x == [b EXCEPT !.session = TRUE]
<1>1. onConnected(c) = x
  BY DEF onConnected
<1>2. Kept(c, a)
  BY SmallKept DEF ClientOK
<1> HIDE DEF a
<1>3. Kept(c, b)
  BY <1>2, ThenKept
<1> HIDE DEF b
<1>4. ClientOK(b, t)
  BY <1>3, KeptSound
<1>5. /\ IsClient(x) /\ x.session = TRUE /\ x.locked = b.locked /\ x.platform = b.platform
      /\ x.lock = b.lock /\ x.pin = b.pin /\ x.wrong = b.wrong /\ x.fails = b.fails
      /\ x.until = b.until
  BY <1>4 DEF ClientOK, IsClient, ClientFields
<1> HIDE DEF x
<1>6. ClientOK(x, t)
  BY <1>4, <1>5, Zenon DEF ClientOK, LockSound, CountSound
<1>7. Kept(x, [x EXCEPT !.saltT = TRUE])
  BY <1>5, SetKept
<1> QED
  BY <1>1, <1>6, <1>7, KeptSound

\* What the lock operators may set.
LEMMA LockFieldsSound ==
    ASSUME NEW c, NEW t, ClientOK(c, t), NEW e, IsClient(e),
           \A f \in Watched \ {"lock", "pin", "locked"} : e[f] = c[f],
           e.lock /\ e.platform = "windows" => e.pin # None,
           e.locked => e.session /\ e.lock
    PROVE  ClientOK(e, t)
<1>1. /\ e.platform = c.platform /\ e.session = c.session
      /\ e.wrong = c.wrong /\ e.fails = c.fails /\ e.until = c.until
  BY DEF Watched
<1>2. LockSound(e)
  BY <1>1 DEF ClientOK, LockSound
<1>3. CountSound(e, t)
  BY <1>1, Zenon DEF ClientOK, CountSound
<1> QED
  BY <1>2, <1>3 DEF ClientOK

\* The lock is switched on or off, locks, and is opened by PIN, password or prompt.
LEMMA LockSounds ==
    ASSUME NEW c, NEW t, ClientOK(c, t)
    PROVE  /\ ClientOK(LockOff(c), t)
           /\ ClientOK(lockNow(c), t)
           /\ ClientOK(onBiometricSucceeded(c), t)
           /\ ClientOK(requestBiometricUnlock(c), t)
           /\ \A pin : ClientOK(verifyPin(c, pin), t)
           /\ \A pw : ClientOK(resetLockWithPassword(c, pw), t)
           /\ \A enabled \in BOOLEAN : \A pin : ClientOK(setLockEnabled(c, enabled, pin), t)
<1>0. /\ IsClient(c) /\ c.platform \in {"windows", "android"}
      /\ c.lock /\ c.platform = "windows" => c.pin # None
      /\ c.locked => c.session /\ c.lock
  BY DEF ClientOK, LockSound
<1>1. ASSUME NEW lock, NEW pin, NEW locked,
             lock /\ c.platform = "windows" => pin # None, locked => c.session /\ lock
      PROVE  ClientOK([c EXCEPT !.lock = lock, !.pin = pin, !.locked = locked], t)
  <2> DEFINE e == [c EXCEPT !.lock = lock, !.pin = pin, !.locked = locked]
  <2>1. /\ IsClient(e) /\ e.lock = lock /\ e.pin = pin /\ e.locked = locked
        /\ e.platform = c.platform /\ e.session = c.session
        /\ \A f \in Watched \ {"lock", "pin", "locked"} : e[f] = c[f]
    BY <1>0 DEF IsClient, ClientFields, Watched
  <2> HIDE DEF e
  <2>2. (e.lock /\ e.platform = "windows" => e.pin # None) /\ (e.locked => e.session /\ e.lock)
    BY <1>1, <2>1
  <2>3. ClientOK(e, t)
    BY <2>1, <2>2, LockFieldsSound
  <2> QED
    BY <2>3 DEF e
<1>2. ClientOK(LockOff(c), t)
  BY <1>1 DEF LockOff
<1>3. ASSUME NEW locked, locked => c.session /\ c.lock
      PROVE  ClientOK([c EXCEPT !.locked = locked], t)
  <2> DEFINE e == [c EXCEPT !.locked = locked]
  <2>1. /\ IsClient(e) /\ e.lock = c.lock /\ e.pin = c.pin /\ e.locked = locked
        /\ e.platform = c.platform /\ e.session = c.session
        /\ \A f \in Watched \ {"lock", "pin", "locked"} : e[f] = c[f]
    BY <1>0 DEF IsClient, ClientFields, Watched
  <2> HIDE DEF e
  <2>2. (e.lock /\ e.platform = "windows" => e.pin # None) /\ (e.locked => e.session /\ e.lock)
    BY <1>0, <1>3, <2>1
  <2>3. ClientOK(e, t)
    BY <2>1, <2>2, LockFieldsSound
  <2> QED
    BY <2>3 DEF e
<1>4. ASSUME NEW pin, c.platform = "windows" => pin # None
      PROVE  ClientOK([c EXCEPT !.lock = TRUE, !.pin = pin], t)
  <2> DEFINE e == [c EXCEPT !.lock = TRUE, !.pin = pin]
  <2>1. /\ IsClient(e) /\ e.lock = TRUE /\ e.pin = pin /\ e.locked = c.locked
        /\ e.platform = c.platform /\ e.session = c.session
        /\ \A f \in Watched \ {"lock", "pin", "locked"} : e[f] = c[f]
    BY <1>0 DEF IsClient, ClientFields, Watched
  <2> HIDE DEF e
  <2>2. (e.lock /\ e.platform = "windows" => e.pin # None) /\ (e.locked => e.session /\ e.lock)
    BY <1>0, <1>4, <2>1
  <2>3. ClientOK(e, t)
    BY <2>1, <2>2, LockFieldsSound
  <2> QED
    BY <2>3 DEF e
<1>5. ClientOK(lockNow(c), t) /\ ClientOK(onBiometricSucceeded(c), t)
  BY <1>3 DEF lockNow, onBiometricSucceeded
<1>6. \A pin : ClientOK(verifyPin(c, pin), t)
  BY <1>3 DEF verifyPin
<1>7. \A pw : ClientOK(resetLockWithPassword(c, pw), t)
  BY <1>2 DEF resetLockWithPassword
<1>8. ClientOK(requestBiometricUnlock(c), t)
  <2>1. \A p : ClientOK(Show(c, p), t)
    BY <1>0, SmallKept, KeptSound
  <2> QED
    BY <2>1 DEF requestBiometricUnlock
<1>9. \A enabled \in BOOLEAN : \A pin : ClientOK(setLockEnabled(c, enabled, pin), t)
  <2>1. c.platform = "android" => ClientOK([c EXCEPT !.lock = TRUE, !.pin = None], t)
    BY <1>4
  <2>2. \A pin : pin # None => ClientOK([c EXCEPT !.lock = TRUE, !.pin = pin], t)
    BY <1>4
  <2> QED
    BY <1>2, <2>1, <2>2 DEF setLockEnabled
<1> QED
  BY <1>2, <1>5, <1>6, <1>7, <1>8, <1>9
\* What the recovery operators may set.
LEMMA CountersSound ==
    ASSUME NEW c, NEW t, ClientOK(c, t), NEW e, IsClient(e),
           \A f \in {"platform", "lock", "pin", "session", "locked"} : e[f] = c[f],
           CountSound(e, t)
    PROVE  ClientOK(e, t)
<1>1. /\ e.platform = c.platform /\ e.session = c.session
      /\ e.lock = c.lock /\ e.pin = c.pin /\ e.locked = c.locked
  OBVIOUS
<1>2. LockSound(e)
  BY <1>1 DEF ClientOK, LockSound
<1> QED
  BY <1>2 DEF ClientOK

\* One more unit of time allows RecoveryTries more.
LEMMA Budgets ==
    ASSUME NEW t \in Nat
    PROVE  /\ RecoveryTries * t \in Nat
           /\ RecoveryTries * (t + 1) = RecoveryTries * t + RecoveryTries
<1>1. RecoveryTries \in Nat
  BY TriesAssumption
<1> QED
  BY <1>1

\* A wrong birthday is counted; the one that reaches the limit starts the pause.
LEMMA WrongCounted ==
    ASSUME NEW c, NEW t \in Nat, ClientOK(c, t), NEW n \in Nicks, c.until[n] <= t
    PROVE  ClientOK(WrongBirthday(c, n, t), t)
<1>0. RecoveryTries \in Nat /\ RecoveryTries > 0
  BY TriesAssumption
<1> DEFINE P == RecoveryTries * t
<1>1. P \in Nat /\ RecoveryTries * (t + 1) = P + RecoveryTries
  BY Budgets
<1>2. /\ IsClient(c) /\ CountSound(c, t)
      /\ c.wrong \in [Nicks -> Nat] /\ c.fails \in [Nicks -> 0..(RecoveryTries - 1)]
      /\ c.until \in [Nicks -> Nat]
  BY DEF ClientOK, CountSound
<1>3. \A m \in Nicks : /\ c.until[m] <= t => c.wrong[m] <= P + c.fails[m]
                       /\ c.wrong[m] <= P + RecoveryTries
  BY <1>1, <1>2 DEF CountSound
<1> HIDE DEF P
<1>4. CASE c.fails[n] + 1 >= RecoveryTries
  <2> DEFINE w == [c.wrong EXCEPT ![n] = @ + 1]
             f == [c.fails EXCEPT ![n] = 0]
             u == [c.until EXCEPT ![n] = t + 1]
             e == [c EXCEPT !.wrong = w, !.fails = f, !.until = u]
  <2>1. WrongBirthday(c, n, t) = e
    BY <1>4 DEF WrongBirthday
  <2>2. /\ w \in [Nicks -> Nat] /\ f \in [Nicks -> 0..(RecoveryTries - 1)] /\ u \in [Nicks -> Nat]
        /\ \A m \in Nicks : /\ w[m] = IF m = n THEN c.wrong[n] + 1 ELSE c.wrong[m]
                            /\ f[m] = IF m = n THEN 0 ELSE c.fails[m]
                            /\ u[m] = IF m = n THEN t + 1 ELSE c.until[m]
    BY <1>0, <1>2
  <2>3. \A m \in Nicks : /\ u[m] <= t => w[m] <= P + f[m]
                         /\ w[m] <= P + RecoveryTries
    <3> SUFFICES ASSUME NEW m \in Nicks
                 PROVE  (u[m] <= t => w[m] <= P + f[m]) /\ w[m] <= P + RecoveryTries
      OBVIOUS
    <3>1. CASE m # n
      BY <1>3, <2>2, <3>1
    <3>2. CASE m = n
      <4>1. PICK k \in 0..(RecoveryTries - 1) : k = c.fails[n]
        BY <1>2
      <4>2. PICK x \in Nat : x = c.wrong[n]
        BY <1>2
      <4>3. x <= P + k /\ k + 1 >= RecoveryTries
        BY <1>3, <1>4, <4>1, <4>2
      <4>4. x + 1 <= P + RecoveryTries
        BY <1>0, <1>1, <4>3
      <4>5. ~(t + 1 <= t)
        OBVIOUS
      <4> QED
        BY <2>2, <3>2, <4>2, <4>4, <4>5
    <3> QED
      BY <3>1, <3>2
  <2> HIDE DEF w, f, u
  <2>4. /\ IsClient(e) /\ e.wrong = w /\ e.fails = f /\ e.until = u
        /\ \A g \in {"platform", "lock", "pin", "session", "locked"} : e[g] = c[g]
    BY <1>2 DEF IsClient, ClientFields
  <2> HIDE DEF e
  <2>6. CountSound(e, t)
    BY <1>1, <2>2, <2>3, <2>4 DEF CountSound, P
  <2>7. ClientOK(e, t)
    BY <2>4, <2>6, CountersSound
  <2> QED
    BY <2>1, <2>7
<1>5. CASE ~(c.fails[n] + 1 >= RecoveryTries)
  <2> DEFINE w == [c.wrong EXCEPT ![n] = @ + 1]
             f == [c.fails EXCEPT ![n] = @ + 1]
             e == [c EXCEPT !.wrong = w, !.fails = f]
  <2>1. WrongBirthday(c, n, t) = e
    BY <1>5 DEF WrongBirthday
  <2>2. /\ w \in [Nicks -> Nat] /\ f \in [Nicks -> 0..(RecoveryTries - 1)]
        /\ \A m \in Nicks : /\ w[m] = IF m = n THEN c.wrong[n] + 1 ELSE c.wrong[m]
                            /\ f[m] = IF m = n THEN c.fails[n] + 1 ELSE c.fails[m]
    <3>1. c.fails[n] + 1 \in 0..(RecoveryTries - 1)
      <4>1. PICK k \in 0..(RecoveryTries - 1) : k = c.fails[n]
        BY <1>2
      <4>2. k + 1 \in 0..(RecoveryTries - 1)
        BY <1>0, <1>5, <4>1
      <4> QED
        BY <4>1, <4>2
    <3> QED
      BY <1>2, <3>1
  <2>3. \A m \in Nicks : /\ c.until[m] <= t => w[m] <= P + f[m]
                         /\ w[m] <= P + RecoveryTries
    <3> SUFFICES ASSUME NEW m \in Nicks
                 PROVE  (c.until[m] <= t => w[m] <= P + f[m]) /\ w[m] <= P + RecoveryTries
      OBVIOUS
    <3>1. CASE m # n
      BY <1>3, <2>2, <3>1
    <3>2. CASE m = n
      <4>1. PICK k \in 0..(RecoveryTries - 1) : k = c.fails[n]
        BY <1>2
      <4>2. PICK x \in Nat : x = c.wrong[n]
        BY <1>2
      <4>3. x <= P + k /\ ~(k + 1 >= RecoveryTries)
        BY <1>3, <1>5, <4>1, <4>2
      <4>4. x + 1 <= P + (k + 1) /\ x + 1 <= P + RecoveryTries
        BY <1>0, <1>1, <4>3
      <4> QED
        BY <2>2, <3>2, <4>1, <4>2, <4>4
    <3> QED
      BY <3>1, <3>2
  <2> HIDE DEF w, f
  <2>4. /\ IsClient(e) /\ e.wrong = w /\ e.fails = f /\ e.until = c.until
        /\ \A g \in {"platform", "lock", "pin", "session", "locked"} : e[g] = c[g]
    BY <1>2 DEF IsClient, ClientFields
  <2> HIDE DEF e
  <2>6. CountSound(e, t)
    BY <1>1, <1>2, <2>2, <2>3, <2>4 DEF CountSound, P
  <2>7. ClientOK(e, t)
    BY <2>4, <2>6, CountersSound
  <2> QED
    BY <2>1, <2>7
<1> QED
  BY <1>4, <1>5
\* A name that no account has counts nothing.
LEMMA WrongElsewhere ==
    ASSUME NEW c, NEW t, ClientOK(c, t), NEW n, n \notin Nicks
    PROVE  ClientOK(WrongBirthday(c, n, t), t)
<1>1. /\ IsClient(c) /\ CountSound(c, t)
      /\ c.wrong \in [Nicks -> Nat] /\ c.fails \in [Nicks -> 0..(RecoveryTries - 1)]
      /\ c.until \in [Nicks -> Nat]
  BY DEF ClientOK, CountSound
<1>2. \A x : /\ [c.wrong EXCEPT ![n] = x] = c.wrong
             /\ [c.fails EXCEPT ![n] = x] = c.fails
             /\ [c.until EXCEPT ![n] = x] = c.until
  BY <1>1
<1>3. ASSUME NEW w, NEW f, NEW u, w = c.wrong, f = c.fails, u = c.until
      PROVE  /\ ClientOK([c EXCEPT !.wrong = w, !.fails = f, !.until = u], t)
             /\ ClientOK([c EXCEPT !.wrong = w, !.fails = f], t)
  <2> DEFINE e == [c EXCEPT !.wrong = w, !.fails = f, !.until = u]
             g == [c EXCEPT !.wrong = w, !.fails = f]
  <2>1. IsClient(e) /\ \A x \in Watched : e[x] = c[x]
    BY <1>1, <1>3 DEF IsClient, ClientFields, Watched
  <2>2. IsClient(g) /\ \A x \in Watched : g[x] = c[x]
    BY <1>1, <1>3 DEF IsClient, ClientFields, Watched
  <2>3. Kept(c, e) /\ Kept(c, g)
    BY <2>1, <2>2 DEF Kept
  <2> QED
    BY <2>3, KeptSound
<1> DEFINE w == [c.wrong EXCEPT ![n] = @ + 1]
           f0 == [c.fails EXCEPT ![n] = 0]
           f1 == [c.fails EXCEPT ![n] = @ + 1]
           u == [c.until EXCEPT ![n] = t + 1]
<1>4. w = c.wrong /\ f0 = c.fails /\ f1 = c.fails /\ u = c.until
  BY <1>2
<1>5. WrongBirthday(c, n, t) = IF c.fails[n] + 1 >= RecoveryTries
                               THEN [c EXCEPT !.wrong = w, !.fails = f0, !.until = u]
                               ELSE [c EXCEPT !.wrong = w, !.fails = f1]
  BY DEF WrongBirthday
<1> HIDE DEF w, f0, f1, u
<1>6. /\ ClientOK([c EXCEPT !.wrong = w, !.fails = f0, !.until = u], t)
      /\ ClientOK([c EXCEPT !.wrong = w, !.fails = f1], t)
  BY <1>3, <1>4
<1> QED
  BY <1>5, <1>6

\* recoverPassword: nothing during the pause, a count of the wrong date, or a
\* prompt that will show the password once.
LEMMA RecoverSound ==
    ASSUME NEW c, NEW t \in Nat, ClientOK(c, t), NEW n, NEW date
    PROVE  ClientOK(recoverPassword(c, n, date, t), t)
<1>1. /\ IsClient(c) /\ CountSound(c, t)
      /\ c.wrong \in [Nicks -> Nat] /\ c.fails \in [Nicks -> 0..(RecoveryTries - 1)]
      /\ c.until \in [Nicks -> Nat]
  BY DEF ClientOK, CountSound
<1>2. ~(t < c.until[n]) => ClientOK(WrongBirthday(c, n, t), t)
  <2>1. CASE n \in Nicks
    <3>1. c.until[n] \in Nat
      BY <1>1, <2>1
    <3>2. ~(t < c.until[n]) => c.until[n] <= t
      BY <3>1
    <3> QED
      BY <2>1, <3>2, WrongCounted
  <2>2. CASE n \notin Nicks
    BY <2>2, WrongElsewhere
  <2> QED
    BY <2>1, <2>2
<1> DEFINE f == [c.fails EXCEPT ![n] = 0]
           u == [c.until EXCEPT ![n] = 0]
           w == [c.wrong EXCEPT ![n] = 0]
           a == [c EXCEPT !.fails = f, !.until = u]
           e == [a EXCEPT !.reveal = TRUE, !.wrong = w]
<1>3. ClientOK(e, t)
  <2>0. RecoveryTries \in Nat /\ RecoveryTries > 0
    BY TriesAssumption
  <2>1. /\ w \in [Nicks -> Nat] /\ f \in [Nicks -> 0..(RecoveryTries - 1)] /\ u \in [Nicks -> Nat]
        /\ \A m \in Nicks : /\ w[m] = IF m = n THEN 0 ELSE c.wrong[m]
                            /\ f[m] = IF m = n THEN 0 ELSE c.fails[m]
                            /\ u[m] = IF m = n THEN 0 ELSE c.until[m]
    <3>1. 0 \in Nat /\ 0 \in 0..(RecoveryTries - 1)
      BY <2>0
    <3>2. w \in [Nicks -> Nat] /\ u \in [Nicks -> Nat]
      BY <1>1, <3>1
    <3>3. f \in [Nicks -> 0..(RecoveryTries - 1)]
      <4> DEFINE T == 0..(RecoveryTries - 1)
      <4>1. c.fails \in [Nicks -> T] /\ 0 \in T
        BY <1>1, <3>1
      <4> HIDE DEF T
      <4>2. f \in [Nicks -> T]
        BY <4>1
      <4> QED
        BY <4>2 DEF T
    <3>4. \A m \in Nicks : w[m] = IF m = n THEN 0 ELSE c.wrong[m]
      BY <1>1
    <3>5. \A m \in Nicks : f[m] = IF m = n THEN 0 ELSE c.fails[m]
      BY <1>1
    <3>6. \A m \in Nicks : u[m] = IF m = n THEN 0 ELSE c.until[m]
      BY <1>1
    <3> QED
      BY <3>2, <3>3, <3>4, <3>5, <3>6
  <2> DEFINE P == RecoveryTries * t
             Q == RecoveryTries * (t + 1)
  <2>3. P \in Nat /\ Q \in Nat
    BY <2>0, Budgets
  <2>4. \A m \in Nicks : (c.until[m] <= t => c.wrong[m] <= P + c.fails[m]) /\ c.wrong[m] <= Q
    BY <1>1 DEF CountSound
  <2> HIDE DEF P, Q, w, f, u
  <2>5. \A m \in Nicks : (u[m] <= t => w[m] <= P + f[m]) /\ w[m] <= Q
    BY <2>1, <2>3, <2>4
  <2>6. /\ IsClient(a) /\ a.fails = f /\ a.until = u
        /\ \A g \in {"platform", "lock", "pin", "session", "locked"} : a[g] = c[g]
    BY <1>1 DEF IsClient, ClientFields
  <2> HIDE DEF a
  <2>7. /\ IsClient(e) /\ e.wrong = w /\ e.fails = a.fails /\ e.until = a.until
        /\ \A g \in {"platform", "lock", "pin", "session", "locked"} : e[g] = a[g]
    BY <2>6 DEF IsClient, ClientFields
  <2> HIDE DEF e
  <2>9. CountSound(e, t)
    BY <2>1, <2>5, <2>6, <2>7 DEF CountSound, P, Q
  <2>10. \A g \in {"platform", "lock", "pin", "session", "locked"} : e[g] = c[g]
    BY <2>6, <2>7
  <2> QED
    BY <2>7, <2>9, <2>10, CountersSound
<1>4. [c EXCEPT !.fails[n] = 0, !.until[n] = 0, !.reveal = TRUE, !.wrong[n] = 0] = e
  BY <1>1 DEF IsClient, ClientFields
<1> HIDE DEF e
<1>5. ClientOK(loginWithBiometric(e, n, "recover"), t)
  <2>1. IsClient(e)
    BY <1>3 DEF ClientOK
  <2>2. Kept(e, loginWithBiometric(e, n, "recover"))
    BY <2>1, VaultKept
  <2> QED
    BY <1>3, <2>2, KeptSound
<1> QED
  BY <1>2, <1>4, <1>5 DEF recoverPassword

\* Reveal: the password is shown, and the flag that allowed it is gone.
LEMMA RevealSounds ==
    ASSUME NEW c, NEW t, ClientOK(c, t), NEW kind
    PROVE  ClientOK(Reveal(c, kind), t)
<1> DEFINE k == Shown(c, kind)
           e == [c EXCEPT !.reveal = FALSE, !.revealed = k]
<1>1. IsClient(c) /\ CountSound(c, t)
  BY DEF ClientOK
<1>2. Reveal(c, kind) = e
  BY <1>1 DEF Reveal, IsClient, ClientFields
<1> HIDE DEF k
<1>3. /\ IsClient(e) /\ e.wrong = c.wrong /\ e.fails = c.fails /\ e.until = c.until
      /\ \A g \in {"platform", "lock", "pin", "session", "locked"} : e[g] = c[g]
  BY <1>1 DEF IsClient, ClientFields
<1> HIDE DEF e
<1>4. CountSound(e, t)
  BY <1>1, <1>3, Zenon DEF CountSound
<1> QED
  BY <1>2, <1>3, <1>4, CountersSound
-----------------------------------------------------------------------------
(* The first part of the invariant, action by action.                       *)

\* One client becomes another sound one.
LEMMA DevicesMoved ==
    ASSUME DevicesInv, NEW d \in Devices, NEW c, ClientOK(c, now),
           dev' = [dev EXCEPT ![d] = c], now' = now
    PROVE  DevicesInv'
<1>1. now \in Nat /\ dev = [x \in Devices |-> dev[x]] /\ \A x \in Devices : ClientOK(dev[x], now)
  BY DEF DevicesInv
<1>2. dev' = [x \in Devices |-> IF x = d THEN c ELSE dev[x]]
  BY <1>1
<1>3. /\ \A x \in Devices : ClientOK(dev'[x], now)
      /\ dev' = [x \in Devices |-> dev'[x]]
  BY <1>1, <1>2
<1> QED
  BY <1>1, <1>3 DEF DevicesInv

\* The clients of a scenario are sound when they start.
LEMMA DevicesInit == Init => DevicesInv
<1> SUFFICES ASSUME NEW s \in Starts,
                    dev = [d \in Devices |-> Fresh(s.disk[d])], now = 0
             PROVE  DevicesInv
  BY DEF Init
<1>1. ASSUME NEW d \in Devices PROVE ClientOK(Fresh(s.disk[d]), 0)
  <2> DEFINE c == s.disk[d]
  <2>1. /\ IsClient(c) /\ c.platform \in {"windows", "android"}
        /\ c.lock /\ c.platform = "windows" => c.pin # None
        /\ ~c.locked /\ ~c.reveal
        /\ c.fails \in [Nicks -> 0..(RecoveryTries - 1)] /\ c.until \in [Nicks -> Nat]
        /\ c.wrong = [n \in Nicks |-> 0]
    BY StartsAssumption
  <2> HIDE DEF c
  <2>2. LockSound(c)
    BY <2>1 DEF LockSound
  <2>3. CountSound(c, 0)
    <3>1. c.wrong \in [Nicks -> Nat] /\ \A n \in Nicks : c.wrong[n] = 0
      BY <2>1
    <3>2. RecoveryTries \in Nat
      BY TriesAssumption
    <3>3. RecoveryTries * 0 \in Nat /\ RecoveryTries * (0 + 1) \in Nat
      BY <3>2
    <3>4. \A n \in Nicks : c.fails[n] \in Nat
      BY <2>1, <3>2
    <3>5. \A n \in Nicks : /\ c.until[n] <= 0 => c.wrong[n] <= RecoveryTries * 0 + c.fails[n]
                           /\ c.wrong[n] <= RecoveryTries * (0 + 1)
      BY <3>1, <3>3, <3>4
    <3> QED
      BY <2>1, <3>1, <3>5 DEF CountSound
  <2>4. ClientOK(c, 0)
    BY <2>1, <2>2, <2>3 DEF ClientOK
  <2> QED
    BY <2>4, FreshSound DEF c
<1>2. \A d \in Devices : dev[d] = Fresh(s.disk[d])
  OBVIOUS
<1> QED
  BY <1>1, <1>2 DEF DevicesInv
\* A client that becomes another sound one, with what its socket loses.
LEMMA BecomesSound ==
    ASSUME DevicesInv, NEW d \in Devices, NEW c, NEW frames, ClientOK(c, now),
           Becomes(d, c, frames), now' = now
    PROVE  DevicesInv'
BY DevicesMoved DEF Becomes

\* The socket, the relay's answers and the timers.
LEMMA DevicesNetwork ==
    ASSUME DevicesInv, NEW d \in Devices,
           \/ Network(d) \/ SaltTimeout(d) \/ LinkLost(d) \/ Restart(d)
    PROVE  DevicesInv'
<1> DEFINE c == dev[d]
<1>0. ClientOK(c, now) /\ IsClient(c)
  BY DEF DevicesInv, ClientOK
<1>1. CASE Connected(d)
  <2>1. dev' = [dev EXCEPT ![d] = [onConnected(c) EXCEPT !.saltT = TRUE]] /\ now' = now
    BY <1>1 DEF Connected
  <2>2. ClientOK([onConnected(c) EXCEPT !.saltT = TRUE], now)
    BY <1>0, ConnectedSound
  <2> QED
    BY <2>1, <2>2, DevicesMoved
<1>2. CASE TlsFails(d)
  <2>1. Kept(c, onSslErrors(c))
    BY <1>0, SmallKept
  <2>2. ClientOK(onSslErrors(c), now)
    BY <1>0, <2>1, KeptSound
  <2>3. ClientOK(onDisconnected(onSslErrors(c), 1006), now)
    BY <2>2, DisconnectedSound
  <2>4. Becomes(d, onDisconnected(onSslErrors(c), 1006), <<>>) /\ now' = now
    BY <1>2 DEF TlsFails
  <2> QED
    BY <2>3, <2>4, BecomesSound
<1>3. CASE LinkLost(d)
  <2>1. ClientOK(onDisconnected(c, 1006), now)
    BY <1>0, DisconnectedSound
  <2>2. Becomes(d, onDisconnected(c, 1006), <<>>) /\ now' = now
    BY <1>3 DEF LinkLost
  <2> QED
    BY <2>1, <2>2, BecomesSound
<1>4. CASE tryReconnect(d)
  <2> DEFINE a == [c EXCEPT !.retry = FALSE]
             e == openSocketWithTls(a)
  <2>1. Becomes(d, e, <<>>) /\ now' = now
    BY <1>4 DEF tryReconnect
  <2>2. Kept(c, a)
    BY <1>0, SetKept
  <2> HIDE DEF a
  <2>3. ClientOK(a, now) /\ IsClient(a)
    BY <1>0, <2>2, KeptSound DEF ClientOK
  <2>4. Kept(a, e)
    BY <2>3, SmallKept
  <2>5. ClientOK(e, now)
    BY <2>3, <2>4, KeptSound
  <2> HIDE DEF e
  <2> QED
    BY <2>1, <2>5, BecomesSound
<1>5. CASE OnAuthSalt(d)
  <2> DEFINE salt == Head(down[d]).salt
             a == IF salt = None THEN deriveVerifierLocally(d, c)
                  ELSE [c EXCEPT !.salt[c.nick] = salt, !.ver = [pw |-> c.pw, salt |-> salt]]
             e == IF c.pw = None THEN c ELSE completeHello(a)
  <2>1. dev' = [dev EXCEPT ![d] = e] /\ now' = now
    BY <1>5 DEF OnAuthSalt
  <2>2. Kept(c, a)
    BY <1>0, HelloKept
  <2> HIDE DEF a
  <2>3. ClientOK(a, now) /\ IsClient(a)
    BY <1>0, <2>2, KeptSound DEF ClientOK
  <2>4. Kept(a, completeHello(a))
    BY <2>3, HelloKept
  <2>5. ClientOK(e, now)
    BY <1>0, <2>3, <2>4, KeptSound
  <2> HIDE DEF e
  <2> QED
    BY <2>1, <2>5, DevicesMoved
<1>6. CASE SaltTimeout(d)
  <2> DEFINE a == deriveVerifierLocally(d, c)
             e == completeHello(a)
  <2>1. Becomes(d, e, <<Hello(d, a)>>) /\ now' = now
    BY <1>6 DEF SaltTimeout, SendHello
  <2>2. Kept(c, a)
    BY <1>0, HelloKept
  <2> HIDE DEF a
  <2>3. ClientOK(a, now) /\ IsClient(a)
    BY <1>0, <2>2, KeptSound DEF ClientOK
  <2>4. Kept(a, e)
    BY <2>3, HelloKept
  <2>5. ClientOK(e, now)
    BY <2>3, <2>4, KeptSound
  <2> HIDE DEF e
  <2> QED
    BY <2>1, <2>5, BecomesSound
<1>7. CASE OnKeys(d)
  <2>1. PICK wraps \in BOOLEAN : dev' = [dev EXCEPT ![d] = EnrolOnKeys(c, wraps)] /\ now' = now
    BY <1>7 DEF OnKeys
  <2>2. Kept(c, EnrolOnKeys(c, wraps))
    BY <1>0, EnrolKept
  <2>3. ClientOK(EnrolOnKeys(c, wraps), now)
    BY <1>0, <2>2, KeptSound
  <2> QED
    BY <2>1, <2>3, DevicesMoved
<1>8. CASE OnClose(d)
  <2> DEFINE e == onDisconnected(c, Head(down[d]).code)
  <2>1. ClientOK(e, now)
    BY <1>0, DisconnectedSound
  <2>2. Becomes(d, e, <<>>) /\ now' = now
    BY <1>8 DEF OnClose
  <2> HIDE DEF e
  <2> QED
    BY <2>1, <2>2, BecomesSound
<1>9. CASE RelayAuthBegin(d) \/ RelayHello(d)
  BY <1>9 DEF RelayAuthBegin, RelayHello, DevicesInv
<1>10. CASE Restart(d)
  <2>1. ClientOK(Fresh(c), now)
    BY <1>0, FreshSound
  <2>2. Becomes(d, Fresh(c), <<>>) /\ now' = now
    BY <1>10 DEF Restart
  <2> QED
    BY <2>1, <2>2, BecomesSound
<1> QED
  BY <1>1, <1>2, <1>3, <1>4, <1>5, <1>6, <1>7, <1>8, <1>9, <1>10 DEF Network
\* An operation of the user that leaves the client sound.
LEMMA UserSound ==
    ASSUME DevicesInv, NEW d \in Devices, NEW c, ClientOK(c, now), User(d, c)
    PROVE  DevicesInv'
<1>1. Becomes(d, c, <<>>) /\ now' = now
  BY DEF User
<1> QED
  BY <1>1, BecomesSound

\* The forms, the chat and the settings.
LEMMA DevicesUser ==
    ASSUME DevicesInv, NEW d \in Devices,
           \/ Login(d) \/ Register(d) \/ Logout(d) \/ Compose(d) \/ Settings(d)
           \/ onApplicationStateChanged(d) \/ LockScreen(d) \/ LoginPage(d)
    PROVE  DevicesInv'
<1> DEFINE c == dev[d]
<1>0. ClientOK(c, now) /\ IsClient(c) /\ now \in Nat
  BY DEF DevicesInv, ClientOK
<1>1. CASE Login(d)
  <2>1. PICK url \in left.urls, n \in left.nicks, pw \in Passwords, saves \in BOOLEAN, enrol \in BOOLEAN :
           User(d, login(IF enrol THEN requestBiometricLoginEnroll(c, pw) ELSE c, url, n, pw, saves))
    BY <1>1, Zenon DEF Login
  <2> DEFINE a == IF enrol THEN requestBiometricLoginEnroll(c, pw) ELSE c
             e == login(a, url, n, pw, saves)
  <2>2. Kept(c, requestBiometricLoginEnroll(c, pw)) /\ Kept(c, c)
    BY <1>0, SmallKept, KeptSelf
  <2>3. Kept(c, a)
    BY <2>2
  <2>4. User(d, e)
    BY <2>1
  <2> HIDE DEF a
  <2>5. ClientOK(a, now) /\ IsClient(a)
    BY <1>0, <2>3, KeptSound DEF ClientOK
  <2>6. Kept(a, e)
    BY <2>5, LoginKept
  <2> HIDE DEF e
  <2>7. ClientOK(e, now)
    BY <2>5, <2>6, KeptSound
  <2> QED
    BY <2>4, <2>7, UserSound
<1>2. CASE Register(d)
  <2>1. PICK url \in left.urls, n \in left.nicks, pw \in Passwords, date \in Birthdays, saves \in BOOLEAN :
           User(d, registerAccount(d, c, url, n, pw, date, saves))
    BY <1>2, Zenon DEF Register
  <2>2. Kept(c, registerAccount(d, c, url, n, pw, date, saves))
    BY <1>0, RegisterKept
  <2>3. ClientOK(registerAccount(d, c, url, n, pw, date, saves), now)
    BY <1>0, <2>2, KeptSound
  <2> QED
    BY <2>1, <2>3, UserSound
<1>3. CASE Logout(d)
  BY <1>0, <1>3, LogoutSound, UserSound DEF Logout
<1>4. CASE Compose(d)
  <2> DEFINE e == [c EXCEPT !.outbox = Append(@, c.nick), !.queued[c.nick] = TRUE]
  <2>1. User(d, e)
    BY <1>4 DEF Compose
  <2>2. Kept(c, e)
    BY <1>0, ComposeKept
  <2> HIDE DEF e
  <2>3. ClientOK(e, now)
    BY <1>0, <2>2, KeptSound
  <2> QED
    BY <2>1, <2>3, UserSound
<1>5. CASE Settings(d)
  <2>1. \/ \E pin \in Pins : User(d, setLockEnabled(c, TRUE, pin))
        \/ User(d, setLockEnabled(c, FALSE, None))
        \/ User(d, disableBiometricLogin(c, c.nick))
        \/ User(d, lockNow(c))
    BY <1>5 DEF Settings
  <2>2. \A enabled \in BOOLEAN : \A pin : ClientOK(setLockEnabled(c, enabled, pin), now)
    BY <1>0, LockSounds
  <2>3. ClientOK(lockNow(c), now)
    BY <1>0, LockSounds
  <2>4. Kept(c, disableBiometricLogin(c, c.nick))
    BY <1>0, VaultKept
  <2>5. ClientOK(disableBiometricLogin(c, c.nick), now)
    BY <1>0, <2>4, KeptSound
  <2> QED
    BY <2>1, <2>2, <2>3, <2>5, UserSound
<1>6. CASE onApplicationStateChanged(d)
  <2>1. ClientOK(lockNow(c), now)
    BY <1>0, LockSounds
  <2> QED
    BY <1>6, <2>1, UserSound DEF onApplicationStateChanged
<1>7. CASE LockScreen(d)
  <2>1. \/ \E pin \in Pins : User(d, verifyPin(c, pin))
        \/ \E pw \in Passwords : User(d, resetLockWithPassword(c, pw))
        \/ User(d, requestBiometricUnlock(c))
    BY <1>7 DEF LockScreen
  <2>2. /\ \A pin : ClientOK(verifyPin(c, pin), now)
        /\ \A pw : ClientOK(resetLockWithPassword(c, pw), now)
        /\ ClientOK(requestBiometricUnlock(c), now)
    BY <1>0, LockSounds
  <2> QED
    BY <2>1, <2>2, UserSound
<1>8. CASE LoginPage(d)
  <2>1. PICK n \in left.nicks :
           \/ User(d, biometricLogin(c, n))
           \/ \E date \in Birthdays : User(d, recoverPassword(c, n, date, now))
    BY <1>8, Zenon DEF LoginPage
  <2>2. Kept(c, biometricLogin(c, n))
    BY <1>0, VaultKept
  <2>3. ClientOK(biometricLogin(c, n), now)
    BY <1>0, <2>2, KeptSound
  <2>4. \A date : ClientOK(recoverPassword(c, n, date, now), now)
    BY <1>0, RecoverSound
  <2> QED
    BY <2>1, <2>3, <2>4, UserSound
<1> QED
  BY <1>1, <1>2, <1>3, <1>4, <1>5, <1>6, <1>7, <1>8

\* A prompt is answered.
LEMMA DevicesPrompt ==
    ASSUME DevicesInv, NEW d \in Devices, PromptEnds(d) \/ PromptApproved(d)
    PROVE  DevicesInv'
<1>0. ClientOK(dev[d], now) /\ IsClient(dev[d])
  BY DEF DevicesInv, ClientOK
<1>1. \A p : Kept(dev[d], Dismiss(dev[d], p))
  BY <1>0, SmallKept
<1>2. \A p : ClientOK(Dismiss(dev[d], p), now)
  BY <1>0, <1>1, KeptSound
<1>3. CASE PromptEnds(d)
  <2>1. PICK p \in dev[d].prompts : dev' = [dev EXCEPT ![d] = PromptLeft(dev[d], p)] /\ now' = now
    BY <1>3 DEF PromptEnds
  <2> DEFINE e == Dismiss(dev[d], p)
  <2>2. Kept(dev[d], e)
    BY <1>1
  <2> HIDE DEF e
  <2>3. \A v : Kept(dev[d], [e EXCEPT !.revealed = v])
    BY <2>2, ThenKept
  <2>4. Kept(dev[d], PromptLeft(dev[d], p))
    BY <2>3 DEF PromptLeft, e
  <2>5. ClientOK(PromptLeft(dev[d], p), now)
    BY <1>0, <2>4, KeptSound
  <2> QED
    BY <2>1, <2>5, DevicesMoved
<1>4. CASE PromptApproved(d)
  <2>1. PICK p \in dev[d].prompts :
           LET c == Dismiss(dev[d], p) IN
           \/ Becomes(d, onBiometricSucceeded(c), <<>>)
           \/ Becomes(d, [c EXCEPT !.vault[p.nick] = p.pw], <<>>)
           \/ Becomes(d, Reveal(c, p.kind), <<>>)
           \/ \E url \in left.urls, saves \in BOOLEAN :
                 Becomes(d, login(c, url, p.nick, p.pw, saves), <<>>)
    BY <1>4, Zenon DEF PromptApproved
  <2>2. now' = now
    BY <1>4 DEF PromptApproved
  <2> DEFINE c == Dismiss(dev[d], p)
  <2>3. ClientOK(c, now) /\ IsClient(c)
    BY <1>2 DEF ClientOK
  <2> HIDE DEF c
  <2>4. ClientOK(onBiometricSucceeded(c), now)
    BY <2>3, LockSounds
  <2>5. ClientOK([c EXCEPT !.vault[p.nick] = p.pw], now)
    <3>1. Kept(c, [c EXCEPT !.vault[p.nick] = p.pw])
      BY <2>3, VaultKept
    <3> QED
      BY <2>3, <3>1, KeptSound
  <2>6. ClientOK(Reveal(c, p.kind), now)
    BY <2>3, RevealSounds
  <2>7. \A url : \A saves \in BOOLEAN : ClientOK(login(c, url, p.nick, p.pw, saves), now)
    <3>1. \A url : \A saves \in BOOLEAN : Kept(c, login(c, url, p.nick, p.pw, saves))
      BY <2>3, LoginKept
    <3> QED
      BY <2>3, <3>1, KeptSound
  <2>8. \/ Becomes(d, onBiometricSucceeded(c), <<>>)
        \/ Becomes(d, [c EXCEPT !.vault[p.nick] = p.pw], <<>>)
        \/ Becomes(d, Reveal(c, p.kind), <<>>)
        \/ \E url \in left.urls, saves \in BOOLEAN :
              Becomes(d, login(c, url, p.nick, p.pw, saves), <<>>)
    BY <2>1 DEF c
  <2>9. \A e, frames : ClientOK(e, now) /\ Becomes(d, e, frames) => DevicesInv'
    BY <2>2, BecomesSound
  <2> QED
    BY <2>4, <2>5, <2>6, <2>7, <2>8, <2>9
<1> QED
  BY <1>3, <1>4

\* Time passes: a pause may end, and RecoveryTries more dates may be compared.
LEMMA DevicesTick ==
    ASSUME DevicesInv, Tick
    PROVE  DevicesInv'
<1>1. now \in Nat /\ now' = now + 1 /\ dev' = dev
  BY DEF DevicesInv, Tick
<1>2. ASSUME NEW c, ClientOK(c, now) PROVE ClientOK(c, now + 1)
  <2>0. RecoveryTries \in Nat
    BY TriesAssumption
  <2> DEFINE P == RecoveryTries * (now + 1)
             Q == RecoveryTries * (now + 1 + 1)
  <2>1. P \in Nat /\ Q = P + RecoveryTries
    BY <1>1, Budgets
  <2>2. CountSound(c, now)
    BY <1>2 DEF ClientOK
  <2>3. /\ c.wrong \in [Nicks -> Nat] /\ c.fails \in [Nicks -> 0..(RecoveryTries - 1)]
        /\ c.until \in [Nicks -> Nat] /\ \A n \in Nicks : c.wrong[n] <= P
    BY <2>2 DEF CountSound
  <2> HIDE DEF P, Q
  <2>4. \A n \in Nicks : /\ c.until[n] <= now + 1 => c.wrong[n] <= P + c.fails[n]
                         /\ c.wrong[n] <= Q
    <3> SUFFICES ASSUME NEW n \in Nicks
                 PROVE  c.wrong[n] <= P + c.fails[n] /\ c.wrong[n] <= Q
      OBVIOUS
    <3>1. c.wrong[n] \in Nat /\ c.wrong[n] <= P /\ c.fails[n] \in Nat
      BY <2>0, <2>3
    <3> QED
      BY <2>0, <2>1, <3>1
  <2>5. CountSound(c, now + 1)
    BY <2>3, <2>4 DEF CountSound, P, Q
  <2> QED
    BY <1>2, <2>5 DEF ClientOK
<1>3. \A d \in Devices : ClientOK(dev[d], now + 1)
  BY <1>2 DEF DevicesInv
<1> QED
  BY <1>1, <1>3 DEF DevicesInv

\* Every step keeps the first part.
LEMMA DevicesStep ==
    ASSUME DevicesInv, [Next]_vars
    PROVE  DevicesInv'
<1>1. CASE UNCHANGED vars
  BY <1>1 DEF vars, DevicesInv
<1> QED
  BY <1>1, DevicesTick, DevicesNetwork, DevicesUser, DevicesPrompt DEF Next
-----------------------------------------------------------------------------
(* The second part: frames, names and who is online.                        *)

\* A sequence is one over its own elements.
LEMMA OverElements ==
    ASSUME NEW S, NEW s \in Seq(S)
    PROVE  s \in Seq(Elements(s))
BY DEF Elements

\* The empty queue, a queue without its head and a queue with one more frame.
LEMMA Frames ==
    ASSUME NEW d
    PROVE  /\ FramesOf(d, <<>>)
           /\ \A s : FramesOf(d, s) => s \o <<>> = s
           /\ \A s : FramesOf(d, s) /\ s # <<>> => FramesOf(d, Tail(s))
           /\ \A s, m : FramesOf(d, s) /\ (m.type = "hello" => m.key[1] = d)
                            => FramesOf(d, Append(s, m)) /\ FramesOf(d, s \o <<m>>)
<1>1. FramesOf(d, <<>>)
  BY DEF FramesOf, Elements
<1>2. ASSUME NEW s, FramesOf(d, s) PROVE s \o <<>> = s
  BY <1>2 DEF FramesOf
<1>3. ASSUME NEW s, FramesOf(d, s), s # <<>> PROVE FramesOf(d, Tail(s))
  <2>1. s \in Seq(Elements(s)) /\ \A i \in DOMAIN s : s[i].type = "hello" => s[i].key[1] = d
    BY <1>3 DEF FramesOf
  <2>2. /\ DOMAIN Tail(s) = 1..(Len(s) - 1) /\ Len(s) \in Nat /\ DOMAIN s = 1..Len(s)
        /\ \A i \in DOMAIN Tail(s) : Tail(s)[i] = s[i + 1]
    BY <1>3, <2>1
  <2>3. Len(Tail(s)) = Len(s) - 1 /\ Tail(s) \in Seq(Elements(s))
    BY <1>3, <2>1
  <2>4. \A i \in DOMAIN Tail(s) : i + 1 \in DOMAIN s
    BY <2>2
  <2>5. Tail(s) \in Seq(Elements(Tail(s)))
    BY <2>3, OverElements
  <2> QED
    BY <2>1, <2>2, <2>4, <2>5 DEF FramesOf
<1>4. ASSUME NEW s, NEW m, FramesOf(d, s), m.type = "hello" => m.key[1] = d
      PROVE  FramesOf(d, Append(s, m)) /\ FramesOf(d, s \o <<m>>)
  <2> DEFINE E == Elements(s) \cup {m}
             a == Append(s, m)
  <2>1. s \in Seq(Elements(s)) /\ \A i \in DOMAIN s : s[i].type = "hello" => s[i].key[1] = d
    BY <1>4 DEF FramesOf
  <2>2. s \in Seq(E) /\ m \in E
    BY <2>1
  <2> HIDE DEF E
  <2>3. /\ a \in Seq(E) /\ Len(a) = Len(s) + 1 /\ Len(s) \in Nat
        /\ \A i \in 1..Len(s) : a[i] = s[i]
        /\ a[Len(s) + 1] = m
        /\ s \o <<m>> = a
    BY <2>2
  <2> HIDE DEF a
  <2>4. DOMAIN a = 1..(Len(s) + 1) /\ DOMAIN s = 1..Len(s)
    BY <2>2, <2>3
  <2>5. a \in Seq(Elements(a))
    BY <2>3, OverElements
  <2>6. ASSUME NEW i \in DOMAIN a PROVE a[i].type = "hello" => a[i].key[1] = d
    <3>1. CASE i = Len(s) + 1
      BY <1>4, <2>3, <3>1
    <3>2. CASE i # Len(s) + 1
      <4>1. i \in 1..Len(s)
        BY <2>3, <2>4, <3>2
      <4> QED
        BY <2>1, <2>3, <2>4, <4>1
    <3> QED
      BY <3>1, <3>2
  <2>7. FramesOf(d, a)
    BY <2>5, <2>6 DEF FramesOf
  <2> QED
    BY <2>3, <2>7 DEF a
<1> QED
  BY <1>1, <1>2, <1>3, <1>4

\* The presence table without the devices whose sockets ended.
LEMMA WithoutSome ==
    ASSUME NEW gone
    PROVE  /\ Without(gone) = [n \in Nicks |-> Without(gone)[n]]
           /\ \A n \in Nicks : Without(gone)[n] \in {None, online[n]}
BY DEF Without

\* One socket's queue changes, and some devices leave the presence table.
LEMMA NamesQueued ==
    ASSUME NamesInv, NEW d \in Devices, NEW q, FramesOf(d, q), up' = [up EXCEPT ![d] = q],
           row' = row, online' = [n \in Nicks |-> online'[n]],
           \A n \in Nicks : online'[n] \in {None, online[n]}
    PROVE  NamesInv'
<1>1. /\ row = [n \in Nicks |-> row[n]] /\ online = [n \in Nicks |-> online[n]]
      /\ up = [e \in Devices |-> up[e]] /\ \A e \in Devices : FramesOf(e, up[e])
      /\ \A n \in Nicks : online[n] # None => row[n].key[1] = online[n]
  BY DEF NamesInv
<1>2. up' = [e \in Devices |-> IF e = d THEN q ELSE up[e]]
  BY <1>1
<1>3. up' = [e \in Devices |-> up'[e]] /\ \A e \in Devices : FramesOf(e, up'[e])
  BY <1>1, <1>2
<1>4. \A n \in Nicks : online'[n] # None => row[n].key[1] = online'[n]
  BY <1>1
<1> QED
  BY <1>1, <1>3, <1>4 DEF NamesInv

\* A client becomes another one and writes nothing, or a hello of its own.
LEMMA NamesBecomes ==
    ASSUME NamesInv, NEW d \in Devices, NEW c, NEW e, NEW frames \in {<<>>, <<Hello(d, e)>>},
           Becomes(d, c, frames), row' = row
    PROVE  NamesInv'
<1>0. /\ up = [x \in Devices |-> up[x]] /\ FramesOf(d, up[d])
      /\ online = [n \in Nicks |-> online[n]]
  BY DEF NamesInv
<1>1. FramesOf(d, up[d] \o frames) /\ FramesOf(d, <<>>)
  <2>1. Hello(d, e).key[1] = d
    BY DEF Hello
  <2> QED
    BY <1>0, <2>1, Frames
<1>2. up = [up EXCEPT ![d] = up[d]]
  BY <1>0
<1>3. CASE c.sock = "open"
  <2>1. online' = online /\ (up' = [up EXCEPT ![d] = up[d] \o frames] \/ up' = [up EXCEPT ![d] = up[d]])
    BY <1>2, <1>3 DEF Becomes
  <2> QED
    BY <1>0, <1>1, <2>1, NamesQueued
<1>4. CASE c.sock # "open"
  <2>1. online' = Without({d}) /\ up' = [up EXCEPT ![d] = <<>>]
    BY <1>4 DEF Becomes
  <2>2. /\ online' = [n \in Nicks |-> online'[n]]
        /\ \A n \in Nicks : online'[n] \in {None, online[n]}
    BY <2>1, WithoutSome
  <2> QED
    BY <1>1, <2>1, <2>2, NamesQueued
<1> QED
  BY <1>3, <1>4

\* The hello handler: the name keeps its key, and whoever comes online holds it.
LEMMA NamesHello ==
    ASSUME NamesInv, NEW d \in Devices, RelayHello(d)
    PROVE  /\ NamesInv'
           /\ \A n \in Nicks : row[n].key # None => row'[n].key = row[n].key
<1> DEFINE hello == Head(up[d])
           n == hello.nick
           old == {online[n]} \ {None, d}
           code == Refusal(row[n], hello)
           ended == old \cup (IF code # 0 THEN {d} ELSE {})
<1>1. /\ row = [m \in Nicks |-> row[m]] /\ online = [m \in Nicks |-> online[m]]
      /\ up = [e \in Devices |-> up[e]] /\ \A e \in Devices : FramesOf(e, up[e])
      /\ \A m \in Nicks : online[m] # None => row[m].key[1] = online[m]
  BY DEF NamesInv
<1>2. /\ up[d] # <<>> /\ hello.type = "hello"
      /\ row' = IF code = 0 THEN [row EXCEPT ![n] = Accepted(row[n], hello)] ELSE row
      /\ online' = IF code = 0 THEN [Without(ended) EXCEPT ![n] = d] ELSE Without(ended)
      /\ up' = [e \in Devices |-> IF e \in ended THEN <<>>
                                  ELSE IF e = d THEN Tail(up[e]) ELSE up[e]]
  BY DEF RelayHello
<1>3. hello.key[1] = d
  <2>1. FramesOf(d, up[d])
    BY <1>1
  <2>2. 1 \in DOMAIN up[d] /\ hello = up[d][1]
    BY <1>2, <2>1 DEF FramesOf
  <2> QED
    BY <1>2, <2>1, <2>2 DEF FramesOf
<1>4. code = 0 => row[n].key = None \/ row[n].key = hello.key
  BY DEF Refusal
<1>5. Accepted(row[n], hello).key = hello.key
  BY DEF Accepted
<1>6. /\ Without(ended) = [m \in Nicks |-> Without(ended)[m]]
      /\ \A m \in Nicks : Without(ended)[m] \in {None, online[m]}
  BY WithoutSome
<1> HIDE DEF hello, n, code, ended
<1>7. /\ up' = [e \in Devices |-> up'[e]]
      /\ \A e \in Devices : FramesOf(e, up'[e])
  <2>1. \A e \in Devices : FramesOf(e, <<>>)
    BY Frames
  <2>2. FramesOf(d, Tail(up[d]))
    BY <1>1, <1>2, Frames
  <2> QED
    BY <1>1, <1>2, <2>1, <2>2
<1>8. CASE code = 0
  <2> DEFINE r == Accepted(row[n], hello)
  <2>0. r.key = hello.key
    BY <1>5
  <2>1. row' = [row EXCEPT ![n] = r] /\ online' = [Without(ended) EXCEPT ![n] = d]
    BY <1>2, <1>8
  <2> HIDE DEF r
  <2>2. /\ row' = [m \in Nicks |-> IF m = n THEN r ELSE row[m]]
        /\ online' = [m \in Nicks |-> IF m = n THEN d ELSE Without(ended)[m]]
    BY <1>1, <1>6, <2>1
  <2>3. /\ row' = [m \in Nicks |-> row'[m]]
        /\ online' = [m \in Nicks |-> online'[m]]
    BY <2>2
  <2>4. \A m \in Nicks : row[m].key # None => row'[m].key = row[m].key
    BY <1>4, <1>8, <2>0, <2>2
  <2>5. \A m \in Nicks : online'[m] # None => row'[m].key[1] = online'[m]
    BY <1>1, <1>3, <1>6, <2>0, <2>2
  <2> QED
    BY <1>7, <2>3, <2>4, <2>5 DEF NamesInv
<1>9. CASE code # 0
  <2>1. row' = row /\ online' = Without(ended)
    BY <1>2, <1>9
  <2>2. \A m \in Nicks : online'[m] # None => row'[m].key[1] = online'[m]
    BY <1>1, <1>6, <2>1
  <2> QED
    BY <1>1, <1>6, <1>7, <2>1, <2>2 DEF NamesInv
<1> QED
  BY <1>8, <1>9

\* No name has a device online, and nothing is on a socket, at the start.
LEMMA NamesInit == Init => NamesInv
<1> SUFFICES ASSUME NEW s \in Starts, row = s.row, online = [n \in Nicks |-> None],
                    up = [d \in Devices |-> <<>>]
             PROVE  NamesInv
  BY DEF Init
<1>1. row = [n \in Nicks |-> row[n]]
  BY StartsAssumption
<1>2. \A d \in Devices : FramesOf(d, up[d])
  BY Frames
<1> QED
  BY <1>1, <1>2 DEF NamesInv

\* Every step keeps the second part, and no step takes a name from its key.
LEMMA NamesStep ==
    ASSUME NamesInv, [Next]_vars
    PROVE  /\ NamesInv'
           /\ \A n \in Nicks : row[n].key # None => row'[n].key = row[n].key
<1>0. /\ up = [x \in Devices |-> up[x]] /\ \A x \in Devices : FramesOf(x, up[x])
      /\ online = [n \in Nicks |-> online[n]]
  BY DEF NamesInv
<1>1. CASE UNCHANGED <<row, online, up>>
  BY <1>1 DEF NamesInv
<1>2. ASSUME NEW d \in Devices, RelayHello(d)
      PROVE  NamesInv' /\ \A n \in Nicks : row[n].key # None => row'[n].key = row[n].key
  BY <1>2, NamesHello
<1>3. ASSUME NEW d \in Devices, RelayAuthBegin(d)
      PROVE  NamesInv' /\ row' = row
  <2>1. row' = row /\ online' = online /\ up' = [up EXCEPT ![d] = Tail(up[d])] /\ up[d] # <<>>
    BY <1>3 DEF RelayAuthBegin
  <2>2. FramesOf(d, Tail(up[d]))
    BY <1>0, <2>1, Frames
  <2> QED
    BY <1>0, <2>1, <2>2, NamesQueued
<1>4. ASSUME NEW d \in Devices, Connected(d)
      PROVE  NamesInv' /\ row' = row
  <2> DEFINE m == [type |-> "auth_begin", nick |-> dev[d].nick]
  <2>1. row' = row /\ online' = online /\ up' = [up EXCEPT ![d] = <<m>>]
    BY <1>4 DEF Connected
  <2>2. m.type # "hello"
    OBVIOUS
  <2> HIDE DEF m
  <2>3. FramesOf(d, Append(<<>>, m))
    BY <2>2, Frames
  <2>4. Append(<<>>, m) = <<m>>
    OBVIOUS
  <2> QED
    BY <1>0, <2>1, <2>3, <2>4, NamesQueued
<1>5. ASSUME NEW d \in Devices, OnAuthSalt(d)
      PROVE  NamesInv' /\ row' = row
  <2> DEFINE salt == Head(down[d]).salt
             c == IF salt = None THEN deriveVerifierLocally(d, dev[d])
                  ELSE [dev[d] EXCEPT !.salt[dev[d].nick] = salt,
                                      !.ver = [pw |-> dev[d].pw, salt |-> salt]]
  <2>1. /\ row' = row /\ online' = online
        /\ up' = up \/ up' = [up EXCEPT ![d] = Append(up[d], Hello(d, c))]
    BY <1>5 DEF OnAuthSalt
  <2>2. Hello(d, c).key[1] = d
    BY DEF Hello
  <2> HIDE DEF c
  <2>3. FramesOf(d, Append(up[d], Hello(d, c)))
    BY <1>0, <2>2, Frames
  <2>4. CASE up' = up
    BY <2>1, <2>4 DEF NamesInv
  <2> QED
    BY <1>0, <2>1, <2>3, <2>4, NamesQueued
<1>6. ASSUME NEW d \in Devices, SaltTimeout(d)
      PROVE  NamesInv' /\ row' = row
  <2> DEFINE a == deriveVerifierLocally(d, dev[d])
  <2>1. Becomes(d, completeHello(a), <<Hello(d, a)>>) /\ row' = row
    BY <1>6 DEF SaltTimeout, SendHello
  <2> HIDE DEF a
  <2> QED
    BY <2>1, NamesBecomes
<1>7. \A d \in Devices : \A c : Becomes(d, c, <<>>) /\ row' = row => NamesInv'
  BY NamesBecomes
<1>8. ASSUME NEW d \in Devices,
             \/ TlsFails(d) \/ tryReconnect(d) \/ OnClose(d) \/ LinkLost(d) \/ Restart(d)
      PROVE  NamesInv' /\ row' = row
  BY <1>7, <1>8 DEF TlsFails, tryReconnect, OnClose, LinkLost, Restart
<1>9. \A d \in Devices : \A c : User(d, c) => NamesInv' /\ row' = row
  BY <1>7 DEF User
<1>10. ASSUME NEW d \in Devices,
              \/ Login(d) \/ Register(d) \/ Logout(d) \/ Compose(d) \/ Settings(d)
              \/ onApplicationStateChanged(d) \/ LockScreen(d) \/ LoginPage(d)
       PROVE  NamesInv' /\ row' = row
  <2>1. \E c : User(d, c)
    BY <1>10, Zenon DEF Login, Register, Logout, Compose, Settings, onApplicationStateChanged,
                        LockScreen, LoginPage
  <2> QED
    BY <1>9, <2>1
<1>11. ASSUME NEW d \in Devices, PromptApproved(d)
       PROVE  NamesInv' /\ row' = row
  <2>1. row' = row /\ \E c : Becomes(d, c, <<>>)
    BY <1>11, Zenon DEF PromptApproved
  <2> QED
    BY <1>7, <2>1
<1>12. ASSUME NEW d \in Devices, OnKeys(d) \/ PromptEnds(d)
       PROVE  UNCHANGED <<row, online, up>>
  BY <1>12 DEF OnKeys, PromptEnds
<1>13. Tick => UNCHANGED <<row, online, up>>
  BY DEF Tick
<1>14. UNCHANGED vars => UNCHANGED <<row, online, up>>
  BY DEF vars
<1> QED
  BY <1>1, <1>2, <1>3, <1>4, <1>5, <1>6, <1>8, <1>10, <1>11, <1>12, <1>13, <1>14
     DEF Next, Network
-----------------------------------------------------------------------------
(* Theorems.                                                                 *)

\* Both parts hold in every reachable state, whatever the scenario.
THEOREM Invariance == Spec => []IInv
<1>1. Init => IInv
  BY DevicesInit, NamesInit DEF IInv
<1>2. IInv /\ [Next]_vars => IInv'
  BY DevicesStep, NamesStep DEF IInv
<1> QED
  BY <1>1, <1>2, PTL DEF Spec

\* The lock never covers the login page, and on a desktop it can be opened with a
\* PIN (lockNow, setLockEnabled, logout, the restart of the process).
THEOREM LockOpensHolds == Spec => []LockOpens
<1>1. IInv => LockOpens
  BY DEF IInv, DevicesInv, ClientOK, LockSound, LockOpens, hasPin
<1> QED
  BY <1>1, Invariance, PTL

\* recoverPassword compares at most RecoveryTries wrong dates per unit of time, for
\* every limit, through restarts and pauses.
THEOREM GuessesBoundedHolds == Spec => []GuessesBounded
<1>1. IInv => GuessesBounded
  BY DEF IInv, DevicesInv, ClientOK, CountSound, GuessesBounded
<1> QED
  BY <1>1, Invariance, PTL

\* The hello handler of the relay never gives a name to another key, and only lists
\* a device online under a name whose key it holds.
THEOREM NameKeptHolds == Spec => NameKept
<1> DEFINE Step == \A n \in Nicks :
                      /\ row[n].key # None => row'[n].key = row[n].key
                      /\ online'[n] # None => row'[n].key[1] = online'[n]
<1>1. IInv /\ [Next]_vars => Step
  <2> SUFFICES ASSUME IInv, [Next]_vars PROVE Step
    OBVIOUS
  <2>1. /\ NamesInv'
        /\ \A n \in Nicks : row[n].key # None => row'[n].key = row[n].key
    BY NamesStep DEF IInv
  <2> QED
    BY <2>1 DEF NamesInv
<1>2. IInv /\ [Next]_vars => [Step]_vars
  BY <1>1
<1> HIDE DEF Step
<1>3. Spec => [][Step]_vars
  BY <1>2, Invariance, PTL DEF Spec
<1> QED
  BY <1>3 DEF NameKept, Step
=============================================================================

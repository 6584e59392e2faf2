------------------------------ MODULE Account ------------------------------
(***************************************************************************)
(* Accounts and sessions: registering, logging in, the salt exchange, the  *)
(* hello and its refusals, reconnecting, logging out and switching users,  *)
(* with the lock, the vault and the recovery of AppLock.                   *)
(*                                                                         *)
(* Sources: chatclient.cpp (login ... tryReconnect, TLS, uploadPublicKey,  *)
(* auth_salt) and the auth_begin and hello handlers of server/server.py.   *)
(*                                                                         *)
(* A device has one process and one socket.  An identity key is made once  *)
(* per device and nick, so <<d, n>> names it; a salt is named by the device*)
(* that minted it; a verifier is the pair of password and salt.  The       *)
(* offline outbox is abstracted to one text per nick: on disk in queued,   *)
(* in memory in outbox, which keeps the nick that wrote the text.  A step  *)
(* of the relay is a whole handler (RelayDelivery splits it at its awaits).*)
(* While an OS prompt is open the user cannot use the window behind it;    *)
(* the socket and the timers go on.                                        *)
(***************************************************************************)
EXTENDS AppLock, Sequences

CONSTANTS
    Devices,        \* installations of the client
    Issuer,         \* "lab" or "public": who signed the relay's certificate
    Starts          \* scenarios: what is on the disks and the relay, and bounds

VARIABLES
    dev,        \* the client of each device
    row,        \* the users table of the relay: nick -> [key, ver, dob] or None
    online,     \* self.online: nick -> device or None
    up, down,   \* frames on the socket of each device
    served,     \* the relay still serves the socket of the device
    now,        \* wall clock, in units of 15 minutes
    sent,       \* history: [by, as], a text of one nick sent in the name of another
    left        \* scenario: addresses ([wss, lab]) and nicks the user types,
                \* and how many operations, drops, restarts and clock units are left

vars == <<dev, row, online, up, down, served, now, sent, left>>

\* Every scenario starts from disks the client could have left: a desktop lock
\* has its PIN, a count of wrong dates is below the limit, and nothing is locked
\* or about to be shown before the process starts.
ASSUME StartsAssumption ==
    \A s \in Starts :
        /\ s.row = [n \in Nicks |-> s.row[n]]
        /\ \A d \in Devices :
            LET c == s.disk[d] IN
            /\ IsClient(c)
            /\ c.platform \in {"windows", "android"}
            /\ c.lock /\ c.platform = "windows" => c.pin # None
            /\ ~c.locked /\ ~c.reveal
            /\ c.fails \in [Nicks -> 0..(RecoveryTries - 1)] /\ c.until \in [Nicks -> Nat]
            /\ c.wrong = [n \in Nicks |-> 0] /\ c.revealed = {}

NoRow == [key |-> None, ver |-> None, dob |-> None]

\* A process that has just started; disk is what it finds.
Fresh(disk) ==
    [disk EXCEPT !.nick = None, !.ident = None, !.url = None,
        !.sock = "closed", !.retry = FALSE, !.intent = FALSE, !.pw = None,
        !.ver = None, !.dobP = None, !.reg = FALSE, !.saltT = FALSE, !.tls = "none",
        !.enroll = None, !.prompts = {}, !.outbox = <<>>,
        !.revealed = @ \ {"left"},
        !.session = FALSE, !.locked = FALSE, !.reveal = FALSE]

Init ==
    \E s \in Starts :
        /\ dev = [d \in Devices |-> Fresh(s.disk[d])]
        /\ row = s.row
        /\ left = s.left
        /\ online = [n \in Nicks |-> None]
        /\ up = [d \in Devices |-> <<>>]
        /\ down = [d \in Devices |-> <<>>]
        /\ served = [d \in Devices |-> FALSE]
        /\ now = 0
        /\ sent = {}

---------------------------------------------------------------------------
\* TLS

isLabHost(url) == url.lab

\* The lab root is trusted for local and LAN addresses only, the system store always.
sslConfigurationFor(url) ==
    IF isLabHost(url) THEN {"public", "lab"} ELSE {"public"}

\* The handshake verifies the chain; ws:// has none.
Verified(url) == ~url.wss \/ Issuer \in sslConfigurationFor(url)

describeTlsSession(c) == [c EXCEPT !.tls = IF c.url.wss THEN "verified" ELSE "plain"]

\* Nothing is ignored: the summary says so and the library drops the connection.
onSslErrors(c) == [c EXCEPT !.tls = "failed"]

\* The description goes with the session; a failure stays on the screen.
TlsEnded(c) == [c EXCEPT !.tls = IF @ = "failed" THEN @ ELSE "none"]

---------------------------------------------------------------------------
\* The identity of a nick on this device

\* Register: a fresh pair, unless the nick has a key here; saves says whether
\* some directory kept the file.
CreateIdentity(c, n, pw, saves) ==
    IF c.file[n] # None THEN [ok |-> FALSE, c |-> c]
    ELSE IF saves
         THEN [ok |-> TRUE, c |-> [c EXCEPT !.ident = n, !.file[n] = [form |-> "enc", pw |-> pw]]]
         ELSE [ok |-> FALSE, c |-> [c EXCEPT !.ident = n]]

\* Log in: the password opens the wrapped key; a raw key is wrapped under it,
\* and stays raw when that cannot be saved.
OpenIdentity(c, n, pw, saves) ==
    IF c.file[n] = None THEN [ok |-> FALSE, c |-> c]
    ELSE IF c.file[n].form = "enc"
         THEN IF c.file[n].pw = pw
              THEN [ok |-> TRUE, c |-> [c EXCEPT !.ident = n]]
              ELSE [ok |-> FALSE, c |-> c]
         ELSE [ok |-> TRUE,
               c |-> [c EXCEPT !.ident = n,
                               !.file[n] = IF saves THEN [form |-> "enc", pw |-> pw] ELSE @]]

establishIdentity(c, n, pw, isRegister, saves) ==
    IF isRegister THEN CreateIdentity(c, n, pw, saves) ELSE OpenIdentity(c, n, pw, saves)

---------------------------------------------------------------------------
\* The session of a client

\* The new socket replaces the old one.
openSocketWithTls(c) == [c EXCEPT !.sock = "opening"]

restoreOutbox(c) ==
    [c EXCEPT !.outbox = IF c.queued[c.nick] THEN Append(@, c.nick) ELSE @]

login(c, url, n, pw, saves) ==
    LET named == [c EXCEPT !.nick = n, !.url = url, !.reg = FALSE]
        id == establishIdentity(named, n, pw, FALSE, saves)
    IN  IF ~id.ok THEN id.c
        ELSE openSocketWithTls([restoreOutbox([id.c EXCEPT !.pw = pw, !.ver = None])
                                EXCEPT !.intent = FALSE])

registerAccount(d, c, url, n, pw, date, saves) ==
    LET named == [storeBirthdayVerifier(c, n, date)
                  EXCEPT !.nick = n, !.url = url, !.reg = TRUE, !.dobP = date]
        id == establishIdentity(named, n, pw, TRUE, saves)
    IN  IF ~id.ok THEN id.c
        ELSE openSocketWithTls(
                [restoreOutbox([id.c EXCEPT !.pw = pw, !.salt[n] = d,
                                            !.ver = [pw |-> pw, salt |-> d]])
                 EXCEPT !.intent = FALSE])

\* Mutant: the screen stays locked.
logout_locked(c) ==
    [TlsEnded(c) EXCEPT !.intent = TRUE, !.retry = FALSE, !.sock = "closed",
              !.ident = None, !.outbox = <<>>, !.pw = None, !.ver = None,
              !.saltT = FALSE, !.enroll = None, !.session = FALSE]

\* The socket is closed for good and everything of the user leaves memory; what
\* is on disk stays.  (reg, dobP and reveal are not touched.)
logout(c) ==
    [TlsEnded(c) EXCEPT !.intent = TRUE, !.retry = FALSE, !.sock = "closed",
              !.ident = None, !.outbox = <<>>, !.pw = None, !.ver = None,
              !.saltT = FALSE, !.enroll = None, !.session = FALSE, !.locked = FALSE]

\* Derived under the salt of an earlier login, or a fresh one that is kept.
deriveVerifierLocally(d, c) ==
    IF c.pw = None THEN c
    ELSE LET s == IF c.salt[c.nick] # None THEN c.salt[c.nick] ELSE d
         IN  [c EXCEPT !.salt[c.nick] = s, !.ver = [pw |-> c.pw, salt |-> s]]

\* The hello this client would send now.
Hello(d, c) ==
    [type |-> "hello", nick |-> c.nick, key |-> <<d, c.ident>>, ver |-> c.ver,
     dob |-> IF c.reg /\ c.ver # None THEN c.dobP ELSE None]

uploadPublicKey(c) == [c EXCEPT !.ver = None, !.reg = FALSE]

\* Everything in memory is sent; each row is deleted from the database that is
\* open, the one of the current nick.
flushOutbox(c) ==
    IF c.outbox = <<>> THEN c ELSE [c EXCEPT !.outbox = <<>>, !.queued[c.nick] = FALSE]

completeHello(c) == flushOutbox(uploadPublicKey([c EXCEPT !.saltT = FALSE]))

\* The texts that flush puts on the wire.
Flushed(c) == {[by |-> c.outbox[i], as |-> c.nick] : i \in DOMAIN c.outbox}

onConnected(c) == [describeTlsSession(c) EXCEPT !.sock = "open", !.session = TRUE]

\* Mutant: only the eviction is final.
FinalCode_evicted(code) == code = 4000

\* The closes after which reconnecting would be refused again.
FinalCode(code) == code \in {4000, 4001, 4002}

onDisconnected(c, code) ==
    LET gone == [TlsEnded(c) EXCEPT !.sock = "closed", !.saltT = FALSE]
    IN  IF FinalCode(code) THEN logout(gone)
        ELSE IF ~c.intent THEN [gone EXCEPT !.retry = TRUE] ELSE gone

---------------------------------------------------------------------------
\* The relay

\* Mutant: a nick that is taken accepts another key.
Refusal_any_key(r, hello) ==
    IF r.key = None /\ hello.ver # None /\ hello.dob = None THEN 4003
    ELSE IF r.ver # None /\ hello.ver # r.ver THEN 4002
    ELSE 0

\* Why a hello is refused, 0 when it is not: the name belongs to another key,
\* a new account has no birthday, the password does not match.
Refusal(r, hello) ==
    IF r.key # None /\ r.key # hello.key THEN 4001
    ELSE IF r.key = None /\ hello.ver # None /\ hello.dob = None THEN 4003
    ELSE IF r.ver # None /\ hello.ver # r.ver THEN 4002
    ELSE 0

\* save_key replaces the row, so its other columns are empty again (also the
\* credential an upgrade has just set); only a new row then gets them.
Accepted(r, hello) ==
    [key |-> hello.key,
     ver |-> IF r.key = None THEN hello.ver ELSE None,
     dob |-> IF r.key = None /\ hello.ver # None THEN hello.dob ELSE None]

\* The relay's side of the sockets of these devices ends; the finally clause
\* takes them out of the presence table.
Without(gone) == [n \in Nicks |-> IF online[n] \in gone THEN None ELSE online[n]]

Close(code) == [type |-> "close", code |-> code]

\* auth_begin: answered before any login.
RelayAuthBegin(d) ==
    /\ served[d] /\ up[d] # <<>> /\ Head(up[d]).type = "auth_begin"
    /\ up' = [up EXCEPT ![d] = Tail(@)]
    /\ LET v == row[Head(up[d]).nick].ver IN
       down' = [down EXCEPT ![d] = Append(@,
                    [type |-> "auth_salt", salt |-> IF v = None THEN None ELSE v.salt])]
    /\ UNCHANGED <<dev, row, online, served, now, sent, left>>

\* hello: an older socket of the nick is closed before anything is checked.
RelayHello(d) ==
    /\ served[d] /\ up[d] # <<>> /\ Head(up[d]).type = "hello"
    /\ LET hello == Head(up[d])
           n == hello.nick
           old == {online[n]} \ {None, d}
           code == Refusal(row[n], hello)
           ended == old \cup (IF code # 0 THEN {d} ELSE {})
       IN  /\ row' = IF code = 0 THEN [row EXCEPT ![n] = Accepted(@, hello)] ELSE row
           /\ online' = IF code = 0 THEN [Without(ended) EXCEPT ![n] = d] ELSE Without(ended)
           /\ served' = [e \in Devices |-> served[e] /\ e \notin ended]
           /\ up' = [e \in Devices |-> IF e \in ended THEN <<>>
                                       ELSE IF e = d THEN Tail(up[e]) ELSE up[e]]
           /\ down' = [e \in Devices |->
                        IF e \in old THEN Append(down[e], Close(4000))
                        ELSE IF e = d THEN Append(down[e], IF code = 0 THEN [type |-> "keys"]
                                                           ELSE Close(code))
                        ELSE down[e]]
    /\ UNCHANGED <<dev, now, sent, left>>

---------------------------------------------------------------------------
\* Steps of a client

\* The client of d becomes c and writes frames on its socket; a socket that is
\* not open any more has lost what was on it.
Becomes(d, c, frames) ==
    /\ dev' = [dev EXCEPT ![d] = c]
    /\ IF c.sock = "open"
       THEN /\ up' = IF served[d] THEN [up EXCEPT ![d] = @ \o frames] ELSE up
            /\ UNCHANGED <<down, served, online>>
       ELSE /\ up' = [up EXCEPT ![d] = <<>>]
            /\ down' = [down EXCEPT ![d] = <<>>]
            /\ served' = [served EXCEPT ![d] = FALSE]
            /\ online' = Without({d})

\* The TLS handshake is over: the salt is asked for first, the hello waits.
Connected(d) ==
    /\ dev[d].sock = "opening" /\ Verified(dev[d].url)
    /\ dev' = [dev EXCEPT ![d] = [onConnected(@) EXCEPT !.saltT = TRUE]]
    /\ served' = [served EXCEPT ![d] = TRUE]
    /\ up' = [up EXCEPT ![d] = <<[type |-> "auth_begin", nick |-> dev[d].nick]>>]
    /\ UNCHANGED <<row, online, down, now, sent, left>>

\* The certificate does not verify: the connection is never used.
TlsFails(d) ==
    /\ dev[d].sock = "opening" /\ ~Verified(dev[d].url)
    /\ Becomes(d, onDisconnected(onSslErrors(dev[d]), 1006), <<>>)
    /\ UNCHANGED <<row, now, sent, left>>

\* The relay cannot be reached, or an open link breaks.
LinkLost(d) ==
    /\ dev[d].sock # "closed" /\ left.drops > 0
    /\ left' = [left EXCEPT !.drops = @ - 1]
    /\ Becomes(d, onDisconnected(dev[d], 1006), <<>>)
    /\ UNCHANGED <<row, now, sent>>

\* The back-off timer: the socket is opened again.
tryReconnect(d) ==
    /\ dev[d].retry
    /\ Becomes(d, openSocketWithTls([dev[d] EXCEPT !.retry = FALSE]), <<>>)
    /\ UNCHANGED <<row, now, sent, left>>

\* The hello goes out with the verifier derived in c, and the outbox after it.
SendHello(d, c) ==
    /\ Becomes(d, completeHello(c), <<Hello(d, c)>>)
    /\ sent' = sent \cup Flushed(c)

\* auth_salt: the salt of the relay is used and kept, or the local one is used.
\* (The password outlives the fallback timer, so a late reply is not ignored.)
OnAuthSalt(d) ==
    /\ down[d] # <<>> /\ Head(down[d]).type = "auth_salt"
    /\ LET salt == Head(down[d]).salt
           c == IF salt = None THEN deriveVerifierLocally(d, dev[d])
                ELSE [dev[d] EXCEPT !.salt[dev[d].nick] = salt,
                                    !.ver = [pw |-> dev[d].pw, salt |-> salt]]
           sends == completeHello(c)
       IN  /\ dev' = [dev EXCEPT ![d] = IF dev[d].pw = None THEN @ ELSE sends]
           /\ up' = IF dev[d].pw = None \/ ~served[d] THEN up
                    ELSE [up EXCEPT ![d] = Append(@, Hello(d, c))]
           /\ sent' = IF dev[d].pw = None THEN sent ELSE sent \cup Flushed(c)
    /\ down' = [down EXCEPT ![d] = Tail(@)]
    /\ UNCHANGED <<row, online, served, now, left>>

\* Three seconds without auth_salt: the hello goes out all the same.
SaltTimeout(d) ==
    /\ dev[d].saltT /\ dev[d].sock = "open"
    /\ SendHello(d, deriveVerifierLocally(d, dev[d]))
    /\ UNCHANGED <<row, now, left>>

\* keys: the login is confirmed.
OnKeys(d) ==
    /\ down[d] # <<>> /\ Head(down[d]).type = "keys"
    /\ \E wraps \in BOOLEAN : dev' = [dev EXCEPT ![d] = EnrolOnKeys(@, wraps)]
    /\ down' = [down EXCEPT ![d] = Tail(@)]
    /\ UNCHANGED <<row, online, up, served, now, sent, left>>

\* The relay's close arrives.
OnClose(d) ==
    /\ down[d] # <<>> /\ Head(down[d]).type = "close"
    /\ Becomes(d, onDisconnected(dev[d], Head(down[d]).code), <<>>)
    /\ UNCHANGED <<row, now, sent, left>>

---------------------------------------------------------------------------
\* The user, the OS and the clock

\* An operation of the user on d; needs no prompt in front of the window.
User(d, c) ==
    /\ left.ops[d] > 0 /\ dev[d].prompts = {} /\ c # dev[d]
    /\ left' = [left EXCEPT !.ops[d] = @ - 1]
    /\ Becomes(d, c, <<>>)
    /\ UNCHANGED <<row, now, sent>>

AtLoginPage(d) == ~dev[d].session
InChat(d) == dev[d].session /\ ~dev[d].locked

\* Log in, with or without the box that asks for biometric login.
Login(d) ==
    /\ AtLoginPage(d)
    /\ \E url \in left.urls, n \in left.nicks, pw \in Passwords, saves, enrol \in BOOLEAN :
        /\ enrol => dev[d].hardware /\ dev[d].vault[n] = None
        /\ User(d, login(IF enrol THEN requestBiometricLoginEnroll(dev[d], pw) ELSE dev[d],
                      url, n, pw, saves))

\* Register; the form asks for a date.
Register(d) ==
    /\ AtLoginPage(d)
    /\ \E url \in left.urls, n \in left.nicks, pw \in Passwords, date \in Birthdays, saves \in BOOLEAN :
        User(d, registerAccount(d, dev[d], url, n, pw, date, saves))

Logout(d) == InChat(d) /\ User(d, logout(dev[d]))

\* A text written while the link is down waits in the outbox.
Compose(d) ==
    /\ InChat(d) /\ dev[d].sock # "open" /\ ~dev[d].queued[dev[d].nick]
    /\ User(d, [dev[d] EXCEPT !.outbox = Append(@, dev[d].nick), !.queued[dev[d].nick] = TRUE])

\* Settings and "Lock now"; on Android leaving the foreground locks as well.
Settings(d) ==
    /\ InChat(d)
    /\ \/ \E pin \in Pins : User(d, setLockEnabled(dev[d], TRUE, pin))
       \/ User(d, setLockEnabled(dev[d], FALSE, None))
       \/ User(d, disableBiometricLogin(dev[d], dev[d].nick))
       \/ User(d, lockNow(dev[d]))

\* Android leaves the foreground, whatever is on the screen.
onApplicationStateChanged(d) ==
    /\ dev[d].platform = "android"
    /\ User(d, lockNow(dev[d]))

\* The lock screen.
LockScreen(d) ==
    /\ dev[d].locked
    /\ \/ \E pin \in Pins : User(d, verifyPin(dev[d], pin))
       \/ \E pw \in Passwords : User(d, resetLockWithPassword(dev[d], pw))
       \/ User(d, requestBiometricUnlock(dev[d]))

\* The login page: biometric login, and the form for a forgotten password.
LoginPage(d) ==
    /\ AtLoginPage(d)
    /\ \E n \in left.nicks :
        \/ User(d, biometricLogin(dev[d], n))
        \/ \E date \in Birthdays :
            /\ passwordRecoveryAvailable(dev[d], n)
            /\ User(d, recoverPassword(dev[d], n, date, now))

\* The user dismisses a prompt, it times out or the unwrapping fails.
PromptEnds(d) ==
    /\ \E p \in dev[d].prompts : dev' = [dev EXCEPT ![d] = PromptLeft(@, p)]
    /\ UNCHANGED <<row, online, up, down, served, now, sent, left>>

\* The user approves a prompt; its callback runs in the client.
PromptApproved(d) ==
    /\ \E p \in dev[d].prompts :
        LET c == Dismiss(dev[d], p) IN
        \/ p.kind = "unlock" /\ Becomes(d, onBiometricSucceeded(c), <<>>)
        \/ p.kind = "enroll" /\ Becomes(d, [c EXCEPT !.vault[p.nick] = p.pw], <<>>)
        \/ p.kind \in {"login", "recover"} /\ c.reveal /\ Becomes(d, Reveal(c, p.kind), <<>>)
        \/ /\ p.kind \in {"login", "recover"} /\ ~c.reveal
           /\ \E url \in left.urls, saves \in BOOLEAN :
                 Becomes(d, login(c, url, p.nick, p.pw, saves), <<>>)
    /\ UNCHANGED <<row, now, sent, left>>

\* The process is killed and started again.
Restart(d) ==
    /\ left.restarts > 0
    /\ left' = [left EXCEPT !.restarts = @ - 1]
    /\ Becomes(d, Fresh(dev[d]), <<>>)
    /\ UNCHANGED <<row, now, sent>>

Tick ==
    /\ now < left.clock
    /\ now' = now + 1
    /\ UNCHANGED <<dev, row, online, up, down, served, sent, left>>

Network(d) ==
    \/ Connected(d) \/ TlsFails(d) \/ tryReconnect(d) \/ OnAuthSalt(d)
    \/ OnKeys(d) \/ OnClose(d) \/ RelayAuthBegin(d) \/ RelayHello(d)

Next ==
    \/ Tick
    \/ \E d \in Devices :
        \/ Network(d) \/ SaltTimeout(d) \/ LinkLost(d) \/ Restart(d)
        \/ Login(d) \/ Register(d) \/ Logout(d) \/ Compose(d) \/ Settings(d)
        \/ onApplicationStateChanged(d) \/ LockScreen(d) \/ LoginPage(d)
        \/ PromptEnds(d) \/ PromptApproved(d)

Spec == Init /\ [][Next]_vars

\* The sockets, the relay and the back-off timer run; nothing obliges the user.
FairSpec == Spec /\ \A d \in Devices : WF_vars(Network(d))

---------------------------------------------------------------------------
\* Properties

\* A nick belongs to the first key that took it, through every refused hello,
\* eviction and re-login (the reservation of the hello handler), and only a
\* device that holds that key is listed online under it.
NameKept ==
    [][\A n \in Nicks :
        /\ row[n].key # None => row'[n].key = row[n].key
        /\ online'[n] # None => row'[n].key[1] = online'[n]]_vars

\* The lock covers a live session only, and whoever meets it on a desktop has a
\* PIN to open it (lockNow, setLockEnabled, logout).
LockOpens ==
    \A d \in Devices : dev[d].locked =>
        /\ dev[d].session /\ dev[d].lock
        /\ dev[d].platform = "windows" => hasPin(dev[d])

\* However the form is used, and across restarts, at most RecoveryTries dates
\* are compared in a row and found wrong before 15 minutes pass (recoverPassword).
GuessesBounded ==
    \A d \in Devices, n \in Nicks : dev[d].wrong[n] <= RecoveryTries * (now + 1)

\* A biometric login shows no password: only the prompt that a right birthday asked
\* for does, however recoveries, logins, logouts and restarts follow each other
\* (onBiometricLoginUnlocked: "so any later biometric login behaves normally").
\* What the code does not keep of that: a recovery whose prompt was dismissed or not
\* verified leaves m_revealOnly set, and the next login shows a password.
RevealEarned == \A d \in Devices : "login" \notin dev[d].revealed

\* A session whose nick the relay knows comes online, or it ends on the login
\* page: a refusal for good is not met again and again (onDisconnected).
Settles ==
    \A d \in Devices, n \in Nicks :
        (dev[d].session /\ dev[d].nick = n /\ row[n].key # None)
            ~> (online[n] = d \/ ~dev[d].session \/ dev[d].nick # n)

\* What the comment in logout says of the outbox ("prevents a queued message from
\* being sent from the WRONG user's session"): a text goes out in the name of the
\* user who wrote it.
SentByAuthor == \A s \in sent : s.by = s.as
=============================================================================

------------------------------ MODULE AppLock ------------------------------
(***************************************************************************)
(* The app lock, the biometric login vault and the password recovery of    *)
(* the client (client/src/applock.cpp and the lock, vault and recovery     *)
(* parts of chatclient.cpp).  The client is a record and every method an   *)
(* operator from record to record; Account.tla makes the actions.          *)
(*                                                                         *)
(* lock, pin, vault, dob, fails, until and file are on disk (QSettings and *)
(* the key files), the rest is memory.  A PIN or a birthday is compared by *)
(* its Argon2id verifier, which the value itself stands for.  An OS prompt *)
(* (BiometricPrompt, Windows Hello) is external: it is a record in prompts *)
(* until the user approves or dismisses it, or it times out.               *)
(*                                                                         *)
(* revealed and wrong are history: the kinds of prompts whose approval has *)
(* shown a password ("late" for a login after a recovery whose prompt was  *)
(* left, which the mark "left" remembers), and the wrong birthdays         *)
(* compared since the last accepted one.                                   *)
(***************************************************************************)
EXTENDS Integers, FiniteSets

CONSTANTS
    Nicks,          \* nicknames used on the devices
    Passwords,      \* passwords a user may type
    Pins,           \* app PINs
    Birthdays,      \* dates, already in canonical form
    None,           \* no value
    RecoveryTries   \* wrong birthdays before the pause (5 in the code)

ASSUME NoneAssumption ==
    None \notin Nicks \cup Passwords \cup Pins \cup Birthdays
ASSUME TriesAssumption == RecoveryTries \in Nat \ {0}

\* The fields of a client: what is on disk, the history, what is in memory.
ClientFields ==
    {"platform", "hardware", "file", "salt", "vault", "dob", "fails", "until", "lock", "pin", "queued",
     "wrong", "revealed",
     "nick", "ident", "url", "session", "sock", "retry", "intent", "pw", "ver", "dobP", "reg",
     "saltT", "tls", "locked", "enroll", "reveal", "prompts", "outbox"}
IsClient(c) == c = [f \in ClientFields |-> c[f]]

\* One OS prompt; nick and pw are what the callback will need.  The callback does
\* not learn whether a login or a recovery asked for the password.
Prompt == [kind : {"unlock", "login", "recover", "enroll"}, nick : Nicks \cup {None},
           pw : Passwords \cup {None}]

\* Android shows one BiometricPrompt at a time; on Windows every request has a
\* worker thread and a dialog of its own.
Show(c, p) ==
    [c EXCEPT !.prompts = IF c.platform = "android" THEN {p} ELSE @ \cup {p}]

Dismiss(c, p) == [c EXCEPT !.prompts = @ \ {p}]

---------------------------------------------------------------------------
\* The lock

hasPin(c) == c.pin # None

\* The lock is switched off: the flag and the PIN go, the screen opens.
LockOff(c) == [c EXCEPT !.lock = FALSE, !.pin = None, !.locked = FALSE]

\* Android needs a device credential and stores no PIN; the desktop needs a PIN.
setLockEnabled(c, enabled, pin) ==
    IF ~enabled THEN LockOff(c)
    ELSE IF c.platform = "android"
         THEN IF c.hardware THEN [c EXCEPT !.lock = TRUE, !.pin = None] ELSE c
         ELSE IF pin # None THEN [c EXCEPT !.lock = TRUE, !.pin = pin] ELSE c

\* The lock guards a live session and never the login page.
lockNow(c) == IF c.lock /\ c.session THEN [c EXCEPT !.locked = TRUE] ELSE c

verifyPin(c, pin) == IF hasPin(c) /\ pin = c.pin THEN [c EXCEPT !.locked = FALSE] ELSE c

\* The login password opens a throwaway copy of the wrapped identity.
resetLockWithPassword(c, pw) ==
    IF /\ c.nick # None
       /\ c.file[c.nick] # None
       /\ c.file[c.nick].form = "enc" /\ c.file[c.nick].pw = pw
    THEN LockOff(c) ELSE c

requestBiometricUnlock(c) ==
    IF c.locked /\ c.lock /\ c.hardware
    THEN Show(c, [kind |-> "unlock", nick |-> None, pw |-> None])
    ELSE c

onBiometricSucceeded(c) == [c EXCEPT !.locked = FALSE]

---------------------------------------------------------------------------
\* The vault: the password wrapped by DPAPI or the Android Keystore

hasLoginEnrolled(c, n) == c.hardware /\ c.vault[n] # None

\* Held in memory until the relay confirms the login.
requestBiometricLoginEnroll(c, pw) == [c EXCEPT !.enroll = pw]

\* Windows wraps at once (wraps says whether DPAPI does), Android asks first.
enrollLogin(c, n, pw, wraps) ==
    IF c.platform = "android"
    THEN Show(c, [kind |-> "enroll", nick |-> n, pw |-> pw])
    ELSE IF c.hardware /\ wraps THEN [c EXCEPT !.vault[n] = pw] ELSE c

\* The key dump of an accepted hello: a pending enrolment is written.
EnrolOnKeys(c, wraps) ==
    IF c.enroll # None /\ c.nick # None
    THEN [enrollLogin(c, c.nick, c.enroll, wraps) EXCEPT !.enroll = None]
    ELSE c

\* The prompt for one account's vault; a missing blob shows nothing.
loginWithBiometric(c, n, kind) ==
    IF c.vault[n] # None
    THEN Show(c, [kind |-> kind, nick |-> n, pw |-> c.vault[n]])
    ELSE c

biometricLogin(c, n) == IF hasLoginEnrolled(c, n) THEN loginWithBiometric(c, n, "login") ELSE c

disableBiometricLogin(c, n) == [c EXCEPT !.vault[n] = None]

---------------------------------------------------------------------------
\* Recovery: the birthday, then the OS prompt, then the password is shown

passwordRecoveryAvailable(c, n) == hasLoginEnrolled(c, n) /\ c.dob[n] # None

\* What registering records on the device, when the date parses.
storeBirthdayVerifier(c, n, date) ==
    IF date = None THEN c ELSE [c EXCEPT !.dob[n] = date]

checkBirthday(c, n, date) == c.dob[n] # None /\ c.dob[n] = date

\* Mutant: a wrong date is not counted.
WrongBirthday_uncounted(c, n, now) == [c EXCEPT !.wrong[n] = @ + 1]

\* The fifth wrong date starts a pause (one unit of the clock) and a new count.
WrongBirthday(c, n, now) ==
    IF c.fails[n] + 1 >= RecoveryTries
    THEN [c EXCEPT !.wrong[n] = @ + 1, !.fails[n] = 0, !.until[n] = now + 1]
    ELSE [c EXCEPT !.wrong[n] = @ + 1, !.fails[n] = @ + 1]

recoverPassword(c, n, date, now) ==
    IF now < c.until[n] \/ ~hasLoginEnrolled(c, n) THEN c
    ELSE IF ~checkBirthday(c, n, date) THEN WrongBirthday(c, n, now)
    ELSE loginWithBiometric([c EXCEPT !.fails[n] = 0, !.until[n] = 0, !.reveal = TRUE,
                                      !.wrong[n] = 0], n, "recover")

\* A prompt ends without its callback: m_revealOnly stays as it is.
PromptLeft(c, p) ==
    [Dismiss(c, p) EXCEPT !.revealed = IF p.kind = "recover" THEN @ \cup {"left"} ELSE @]

\* What a prompt of that kind adds to the history when it shows a password.
Shown(c, kind) ==
    (c.revealed \ {"left"}) \cup {IF kind = "login" /\ "left" \in c.revealed THEN "late" ELSE kind}

\* Mutant: the flag stays up.
Reveal_kept(c, kind) == [c EXCEPT !.revealed = Shown(c, kind)]

\* The vault copy is shown instead of used.
Reveal(c, kind) == [c EXCEPT !.reveal = FALSE, !.revealed = Shown(c, kind)]
=============================================================================

----------------------------- MODULE MCAccount -----------------------------
(***************************************************************************)
(* Scenarios of Account for TLC: two devices that want the same name; one  *)
(* device with two accounts; a lock; a vault and a forgotten password.     *)
(***************************************************************************)
EXTENDS Account, TLC

CONSTANTS n1, n2, p1, p2, k1, k2, b1, b2, d1, d2

Lab == [wss |-> TRUE, lab |-> TRUE]
Public == [wss |-> TRUE, lab |-> FALSE]
Plain == [wss |-> FALSE, lab |-> TRUE]
AnyUrl == {Lab, Public, Plain}

\* A device on which the nicks of has are registered with password p1.
Disk(platform, has, form, enrolled, text) ==
    [platform |-> platform, hardware |-> TRUE,
     file |-> [n \in Nicks |-> IF n \in has
                               THEN [form |-> form, pw |-> IF form = "enc" THEN p1 ELSE None]
                               ELSE None],
     salt |-> [n \in Nicks |-> IF n \in has /\ form = "enc" THEN d1 ELSE None],
     vault |-> [n \in Nicks |-> IF n \in enrolled THEN p1 ELSE None],
     dob |-> [n \in Nicks |-> IF n \in enrolled THEN b1 ELSE None],
     fails |-> [n \in Nicks |-> 0], until |-> [n \in Nicks |-> 0],
     lock |-> FALSE, pin |-> None, queued |-> [n \in Nicks |-> n \in text],
     wrong |-> [n \in Nicks |-> 0], revealed |-> {},
     nick |-> None, ident |-> None, url |-> None, session |-> FALSE,
     sock |-> "closed", retry |-> FALSE, intent |-> FALSE, pw |-> None,
     ver |-> None, dobP |-> None, reg |-> FALSE, saltT |-> FALSE,
     tls |-> "none", locked |-> FALSE, enroll |-> None, reveal |-> FALSE,
     prompts |-> {}, outbox |-> <<>>]

Rows(has, withPassword) ==
    [n \in Nicks |-> IF n \in has
                     THEN [key |-> <<d1, n>>,
                           ver |-> IF withPassword THEN [pw |-> p1, salt |-> d1] ELSE None,
                           dob |-> IF withPassword THEN b1 ELSE None]
                     ELSE NoRow]

Blank == Disk("windows", {}, "enc", {}, {})

Scenario(a, b, rows, urls, nicks, opsA, opsB, drops, restarts, clock) ==
    [disk |-> (d1 :> a) @@ (d2 :> b), row |-> rows,
     left |-> [ops |-> (d1 :> opsA) @@ (d2 :> opsB), drops |-> drops, restarts |-> restarts, clock |-> clock,
              urls |-> urls, nicks |-> nicks]]

\* Two devices and one name.
SameName == {Scenario(Blank, Blank, Rows({}, TRUE), {Lab}, {n1}, 1, 1, 1, 0, 0)}
\* Two accounts on one device, one of them with a text still queued.
TwoUsers == {Scenario(Disk(pl, {n1, n2}, "enc", {}, {n2}), Blank, Rows({n1, n2}, TRUE), {Lab}, Nicks, 3, 0, 1, 0, 0)
             : pl \in {"windows", "android"}}
\* Addresses whose certificate verifies or does not, or that have none.
Transports == {Scenario(Disk("windows", {n1}, "enc", {}, {}), Blank, Rows({n1}, TRUE), AnyUrl, {n1}, 2, 0, 1, 0, 0)}
\* An account of the time before passwords.
Legacy == {Scenario(Disk("windows", {n1}, "raw", {}, {}), Blank, Rows({n1}, FALSE), {Lab}, {n1}, 2, 0, 1, 0, 0)}
\* The lock of a running session.
Locking == {Scenario(Disk(pl, {n1}, "enc", {}, {}), Blank, Rows({n1}, TRUE), {Lab}, {n1}, 5, 0, 0, 0, 0)
            : pl \in {"windows", "android"}}
\* A second device claims the name of a session that may be locked.
Evicted == {Scenario(Disk("android", {n1}, "enc", {}, {}), Blank, Rows({n1}, TRUE), {Lab}, {n1}, 3, 1, 0, 0, 0)}
\* An enrolled account and a forgotten password.
Forgotten == {Scenario(Disk("windows", {n1}, "enc", {n1}, {}), Blank, Rows({n1}, TRUE), {Lab}, {n1}, 5, 0, 0, 1, 1)}

AllScenarios == SameName \cup TwoUsers \cup Legacy \cup Transports \cup Locking \cup Evicted \cup Forgotten
=============================================================================

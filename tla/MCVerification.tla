--------------------------- MODULE MCVerification ---------------------------
(***************************************************************************)
(* Instances of Verification for TLC.  alice holds the smaller key and is  *)
(* the initiator until a reinstall of bob with key 1 changes the order.    *)
(***************************************************************************)
EXTENDS Verification

CONSTANTS alice, bob

AliceFirst == [u \in Users |-> IF u = alice THEN 2 ELSE 3]

Limit(texts, pings, drops, logouts, reinstalls) ==
    [texts |-> texts, pings |-> pings, drops |-> drops, logouts |-> logouts,
     reinstalls |-> reinstalls]

Chatting == Limit(2, 1, 2, 0, 0)        \* texts and a ping around lost connections
Restarting == Limit(1, 1, 0, 1, 0)      \* a client is logged out
Reinstalling == Limit(1, 0, 0, 0, 1)    \* an identity changes
Adopting == Limit(0, 0, 1, 0, 1)        \* ... and connections are lost meanwhile

AllBudgets == {Chatting, Restarting, Reinstalling, Adopting}
OneLogout == {Limit(1, 0, 0, 1, 0)}
=============================================================================

-------------------------- MODULE MCRelayDelivery --------------------------
(***************************************************************************)
(* Instances of RelayDelivery for TLC.  Either every user has one client,  *)
(* or bob's also holds the account of alice: it may say hello again under  *)
(* either nick, and evict her client, or be evicted by it.                 *)
(***************************************************************************)
EXTENDS RelayDelivery, TLC

CONSTANTS alice, bob, a1, b1

TwoAccounts == (a1 :> {alice}) @@ (b1 :> {alice, bob})
OneEach == (a1 :> {alice}) @@ (b1 :> {bob})
=============================================================================

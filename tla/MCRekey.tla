------------------------------ MODULE MCRekey ------------------------------
(***************************************************************************)
(* Scenarios of Rekey for TLC.                                             *)
(***************************************************************************)
EXTENDS Rekey, TLC

CONSTANTS a, b

Scenario(established, sendsA, sendsB, drops, unlocks, logins, reinstalls) ==
    [initiator |-> a, established |-> established, sends |-> (a :> sendsA) @@ (b :> sendsB),
     drops |-> drops, unlocks |-> unlocks, logins |-> logins, reinstalls |-> reinstalls]

\* A burst in one direction, and links that are lost.
OneWay == {Scenario(e, 2, 0, 1, 0, 0, 0) : e \in BOOLEAN}
\* Texts that cross.
Crossing == {Scenario(TRUE, 1, 1, 0, 1, 0, 0)}
\* A user logs out and in again with a positive count.
Again == {Scenario(TRUE, 2, 0, 0, 0, 1, 0)}
\* A new identity key while a pong may be owed.
NewKey == {Scenario(FALSE, 1, 1, 0, 0, 0, 1)}

AllScenarios == OneWay \cup Crossing \cup Again \cup NewKey
=============================================================================

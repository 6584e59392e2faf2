----------------------------- MODULE MCPrekeys -----------------------------
(***************************************************************************)
(* Instances of Prekeys for TLC.                                           *)
(***************************************************************************)
EXTENDS Prekeys

CONSTANTS p1, p2

\* How often: links lost or processes restarted, the clock set, bundles asked
\* for, texts sent, texts composed offline, frames replayed, sessions dropped,
\* bundles or openers forged.
Budget(links, clock, requests, texts, queued, replays, drops, forged) ==
    [links |-> links, clock |-> clock, requests |-> requests, texts |-> texts,
     queued |-> queued, replays |-> replays, drops |-> drops, forged |-> forged]

AllBudgets ==
    {Budget(3, 2, 1, 1, 0, 0, 0, 0),    \* rotation, and an opener built before it
     Budget(1, 0, 2, 2, 1, 1, 1, 0),    \* replays, and sessions that were dropped
     Budget(1, 0, 2, 2, 0, 0, 1, 1)}    \* a bundle or an opener of the relay's own
Quiet == {Budget(0, 0, 0, 0, 0, 0, 0, 0)}
=============================================================================

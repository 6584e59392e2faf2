------------------------------ MODULE Mailbox ------------------------------
(***************************************************************************)
(* What the relay promises of one stored frame, without sockets, coroutines*)
(* or cursors.  A frame is kept until it is offered to its recipient, and  *)
(* offered until it is read.  It is gone only in two ways: it was offered  *)
(* on a connection when some connection had been disturbed, or it was      *)
(* passed over because a later frame of its recipient was offered first.   *)
(* Nothing that was read or is gone comes back.                            *)
(***************************************************************************)
EXTENDS Integers, Sequences

CONSTANTS
    Nicks,      \* registered users
    Rows        \* numbers of frames: 1 .. some bound

VARIABLES
    to,         \* the recipient of each frame posted
    phase,      \* what has become of each frame
    disturbed   \* some connection has failed or was closed

vars == <<to, phase, disturbed>>
Phases == {"absent", "kept", "offered", "read", "gone"}

Init == to = <<>> /\ phase = [id \in Rows |-> "absent"] /\ disturbed = FALSE

\* A later frame of the same recipient has been offered.
Overtaken(id) ==
    \E j \in 1 .. Len(to) : j > id /\ to[j] = to[id] /\ phase[j] \in {"offered", "read"}

\* What one step may do to a frame that was posted before.
Fares(id) ==
    \/ phase'[id] = phase[id]
    \/ phase[id] = "kept" /\ phase'[id] = "offered"
    \/ phase[id] = "offered" /\ phase'[id] = "read"
    \/ phase[id] = "offered" /\ phase'[id] \in {"kept", "gone"} /\ disturbed'
    \/ phase[id] = "kept" /\ phase'[id] = "gone" /\ Overtaken(id)

\* A frame for r is stored, and offered at once when r is there.
Post(r) ==
    LET id == Len(to) + 1 IN
    /\ id \in Rows
    /\ to' = Append(to, r)
    /\ phase'[id] \in {"kept", "offered"}
    /\ \A other \in Rows \ {id} : phase'[other] = phase[other]
    /\ UNCHANGED disturbed

Handle ==
    /\ UNCHANGED to
    /\ \A id \in Rows : Fares(id)
    /\ disturbed => disturbed'

Next == Handle \/ \E r \in Nicks : Post(r)
Spec == Init /\ [][Next]_vars
=============================================================================

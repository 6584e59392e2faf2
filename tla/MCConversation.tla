--------------------------- MODULE MCConversation ---------------------------
(***************************************************************************)
(* Scenarios of Conversation for TLC: each lets a few kinds of things      *)
(* happen together, as often as the numbers say.                           *)
(***************************************************************************)
EXTENDS Conversation, TLC

CONSTANTS alice, bob

Gates(a, b) == (alice :> a) @@ (bob :> b)
None == [who |-> {alice}, texts |-> 0, edits |-> 0, deletes |-> 0, reacts |-> 0, types |-> 0,
         files |-> 0, switches |-> 0, vanish |-> 0, drops |-> 0, restarts |-> 0, crashes |-> 0]
From(settled, a, b, l) == [settled |-> settled, gate |-> Gates(a, b), left |-> l]

\* Two texts, typed online, offline, or before alice has verified bob.
Queueing ==
    {From(FALSE, g, "open",
        [None EXCEPT !.texts = 2, !.switches = 1, !.drops = 1, !.restarts = 1]) :
        g \in {"open", "blocked"}}

\* bob answers before his chain exists; a handshake or a file of alice makes it.
Responder ==
    {From(FALSE, "open", "waiting", [None EXCEPT !.who = {bob}, !.texts = 2, !.switches = 1]),
     From(TRUE, "open", "waiting", [None EXCEPT !.who = {alice, bob}, !.texts = 1, !.files = 2]),
     From(TRUE, "open", "waiting",
        [None EXCEPT !.who = {alice, bob}, !.texts = 2, !.edits = 2, !.files = 1])}

\* Edits, with links lost and conversations closed and opened.
Editing ==
    {From(TRUE, "open", "open",
        [None EXCEPT !.texts = 2, !.edits = 2, !.switches = 2, !.drops = 1])}

\* Deletions with edits, reloads, reactions and lost links, on both sides.
Retracting ==
    {From(TRUE, g, "open", [None EXCEPT !.texts = 1, !.edits = 1, !.deletes = 2, !.switches = 2]) :
        g \in {"open", "blocked"}}
    \cup {From(TRUE, "open", "open",
              [None EXCEPT !.texts = 1, !.deletes = 1, !.reacts = 2, !.switches = 1]),
          From(TRUE, "open", "open", [None EXCEPT !.texts = 2, !.deletes = 1, !.drops = 1])}

\* A queued text loses its id in a restart and is edited or retracted then.
Renaming ==
    {From(TRUE, "blocked", "open",
        [None EXCEPT !.texts = 1, !.edits = 1, !.deletes = 1, !.switches = 1, !.restarts = 1])}

\* Crashes inside sendMessage and flushOutbox; a key is used again, and the text
\* under it retracted, seen again after a reload, and edited.
Crashing ==
    {From(TRUE, g, "open", [None EXCEPT !.texts = 2, !.edits = 1, !.switches = 1, !.crashes = 2]) :
        g \in {"open", "blocked"}}
    \cup {From(TRUE, "open", "open", [None EXCEPT !.texts = 1, !.edits = 1, !.deletes = 1,
                                       !.switches = 3, !.crashes = 1])}

\* Typing indicators: a message, a pause, a lost link or a restart.
Typing ==
    {From(TRUE, "open", "open", [None EXCEPT !.texts = 1, !.types = 2, !.drops = 1]),
     From(TRUE, "open", "open", [None EXCEPT !.types = 2, !.restarts = 1])}

\* Files, sent or queued, replayed after a lost link or a restart.
Files ==
    {From(TRUE, "open", "open", [None EXCEPT !.files = 1, !.drops = 2]),
     From(TRUE, "open", "open", [None EXCEPT !.files = 2, !.restarts = 1]),
     From(TRUE, "blocked", "open", [None EXCEPT !.files = 1, !.texts = 1, !.drops = 1]),
     From(TRUE, "blocked", "open", [None EXCEPT !.files = 2, !.vanish = 1])}

\* bob logs in while alice writes: live frames meet the drain of his backlog.
LoggingIn ==
    {From(TRUE, "open", "open", [None EXCEPT !.texts = 3, !.drops = 1]),
     From(TRUE, "open", "open", [None EXCEPT !.texts = 1, !.edits = 1, !.deletes = 1, !.drops = 1])}

\* A link lost while one file is under way.
Interrupted == {From(TRUE, "open", "open", [None EXCEPT !.files = 1, !.drops = 1])}

AllStarts == Queueing \cup Responder \cup Editing \cup Retracting \cup Renaming
             \cup Crashing \cup Typing \cup Files \cup LoggingIn
=============================================================================

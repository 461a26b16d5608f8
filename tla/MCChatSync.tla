----------------------------- MODULE MCChatSync -----------------------------
(* ChatSync for TLC: two devices, of which the first hosts the chat, and the
   scenarios of the runs. *)
EXTENDS ChatSync

Nothing == [edits |-> 0, bigs |-> 0, drops |-> 0, crashes |-> 0, ckpts |-> 0,
            quotas |-> 0, resets |-> 0]

\* A crash, alone and with a disconnect; a disconnect or lost request; a quota
\* refusal; an update over the cap; a wipe: each around edits and, where one can
\* matter, a checkpoint.
Faults == {
    [Nothing EXCEPT !.edits = 2, !.crashes = 1],
    [Nothing EXCEPT !.edits = 1, !.crashes = 1, !.drops = 1],
    [Nothing EXCEPT !.edits = 2, !.drops = 1, !.ckpts = 1],
    [Nothing EXCEPT !.edits = 2, !.quotas = 1],
    [Nothing EXCEPT !.edits = 1, !.bigs = 1, !.drops = 1, !.ckpts = 1],
    [Nothing EXCEPT !.edits = 1, !.ckpts = 1, !.resets = 1]}

\* Two edits and two disconnects.
Gap == {[Nothing EXCEPT !.edits = 2, !.drops = 2]}
=============================================================================

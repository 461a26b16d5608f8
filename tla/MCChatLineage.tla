--------------------------- MODULE MCChatLineage ---------------------------
(* ChatLineage for TLC: the host and one other device, with a command each, and
   the scenarios of the runs. *)
EXTENDS ChatLineage, TLC

CONSTANTS main, other, cm, co

Sender == (cm :> main) @@ (co :> other)

Nothing == [cmds |-> {}, watchers |-> {}, crashes |-> 0, evictions |-> 0, failures |-> 0,
            races |-> 1, blank |-> FALSE]

\* Both devices send a command; one of them does, around watchers, a crash,
\* evictions or a failing post; a transcript to be salvaged.
Cutovers == {
    [Nothing EXCEPT !.cmds = {cm, co}, !.races = 0],
    [Nothing EXCEPT !.cmds = {co}, !.watchers = {other}],
    [Nothing EXCEPT !.cmds = {cm}, !.watchers = {main}],
    [Nothing EXCEPT !.cmds = {co}, !.crashes = 2, !.races = 0],
    [Nothing EXCEPT !.cmds = {cm}, !.crashes = 1, !.races = 0],
    [Nothing EXCEPT !.cmds = {co}, !.failures = 1],
    [Nothing EXCEPT !.cmds = {cm}, !.evictions = 1],
    [Nothing EXCEPT !.cmds = {co}, !.evictions = 1],
    [Nothing EXCEPT !.cmds = {co}, !.crashes = 1, !.blank = TRUE]}
=============================================================================

--------------------------- MODULE MCSessionRuns ---------------------------
(* SessionRuns for TLC: the scenarios of the runs. *)
EXTENDS SessionRuns

CONSTANTS m1, m2

Nothing == [msgs |-> 2, stops |-> 0, crashes |-> 0, noStarts |-> 0, deaths |-> 0, quiets |-> 0,
            asks |-> 0, wakes |-> 0]

Faults == {
    [Nothing EXCEPT !.msgs = 1, !.stops = 1, !.asks = 1],
    [Nothing EXCEPT !.stops = 1],
    [Nothing EXCEPT !.asks = 1],
    [Nothing EXCEPT !.msgs = 1, !.asks = 1, !.deaths = 1],
    [Nothing EXCEPT !.deaths = 1, !.noStarts = 1],
    [Nothing EXCEPT !.quiets = 1, !.wakes = 1],
    [Nothing EXCEPT !.crashes = 2]}

Quiet == {Nothing}
StartFails == {[Nothing EXCEPT !.noStarts = 1]}
Dying == {[Nothing EXCEPT !.deaths = 1]}
=============================================================================

--------------------------- MODULE MCDeviceRelay ---------------------------
(* Instances of DeviceRelay: two calls of one device and one of another.  *)
EXTENDS DeviceRelay

CONSTANTS p1, p2, k1, k2, k3

Owners == (k1 :> p1) @@ (k2 :> p1) @@ (k3 :> p2)

Nothing == [cuts |-> 0, leaves |-> 0, losses |-> 0, posts |-> 0, asks |-> {}]

Faults == {[Nothing EXCEPT !.cuts = 1, !.leaves = 1, !.posts = 3],
           [Nothing EXCEPT !.cuts = 1, !.leaves = 1, !.asks = {k1}],
           [Nothing EXCEPT !.cuts = 1, !.asks = {k1, k2}],
           [Nothing EXCEPT !.losses = 1, !.asks = {k1, k2}],
           [Nothing EXCEPT !.losses = 1, !.asks = {k1, k3}]}

Posts == {[Nothing EXCEPT !.cuts = 1, !.posts = 1]}
=============================================================================

--------------------------- MODULE MCRegistrySync ---------------------------
(* RegistrySync for TLC: two devices, each with its own device row, and the
   scenarios of the runs. *)
EXTENDS RegistrySync

CONSTANTS a, b

MCDeviceRow == <<a, b>>

Nothing == [writes |-> 0, drops |-> 0, crashes |-> 0, resets |-> 0, gcs |-> 0, ticks |-> <<2, 2>>]

\* A write and a disconnect.
Drops == {[Nothing EXCEPT !.writes = 1, !.drops = 1]}

\* A write and a crash around a purge; or a wipe.
Crashes == {[Nothing EXCEPT !.writes = 1, !.crashes = 1, !.gcs = 1, !.ticks = <<3, 1>>],
            [Nothing EXCEPT !.resets = 1]}

\* A write, a disconnect and a purge.
Purges == {[Nothing EXCEPT !.writes = 1, !.drops = 1, !.gcs = 1]}
=============================================================================

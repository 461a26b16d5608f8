-------------------------- MODULE MCCommandLedger ---------------------------
(* CommandLedger for TLC: two interrupts.  The newer one is moot, and while it
   is pending it supersedes the older one. *)
EXTENDS CommandLedger

CONSTANTS old, new

MCKind    == [c \in Cmds |-> "interrupt"]
MCIssued  == [c \in Cmds |-> IF c = new THEN 2 ELSE 1]
=============================================================================

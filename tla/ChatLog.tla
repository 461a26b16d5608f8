------------------------------ MODULE ChatLog ------------------------------
(***************************************************************************)
(* What chat sync promises: an append-only log of updates that devices     *)
(* read.  Entries never change, whatever checkpoints prune underneath, and *)
(* a device's position never passes an entry its document does not hold.   *)
(* Documents otherwise come and go with edits and restarts.  The promise   *)
(* ends when an operator wipes the room, or a race of the code breaks it.  *)
(* ChatSync implements it.                                                 *)
(***************************************************************************)
EXTENDS Naturals, Sequences

CONSTANTS Devices

VARIABLES
    made,    \* the operations that exist
    log,     \* the room: one set of operations per entry
    docs,    \* the operations each device's document holds
    pos,     \* the entry each device has read up to
    over     \* the promise has ended

vars == <<made, log, docs, pos, over>>

Init ==
    /\ made = {} /\ log = << >>
    /\ docs = [c \in Devices |-> {}] /\ pos = [c \in Devices |-> 0]
    /\ over = FALSE

\* Document d holds every entry up to p.
Holds(d, p) == p <= Len(log) /\ \A s \in 1..p : log[s] \subseteq d

Edit(c) ==
    /\ made \subseteq made'
    /\ docs' = [docs EXCEPT ![c] = @ \cup (made' \ made)]
    /\ UNCHANGED <<log, pos, over>>

Store ==
    /\ made # {}
    /\ \E S \in (SUBSET made) \ {{}} : log' = Append(log, S)
    /\ UNCHANGED <<made, docs, pos, over>>

\* A device reads, or falls back to what it had saved.
Move(c) ==
    /\ \E d \in SUBSET made, p \in 0..Len(log) :
         /\ docs[c] \subseteq d \/ d \subseteq docs[c]
         /\ Holds(d, p)
         /\ docs' = [docs EXCEPT ![c] = d] /\ pos' = [pos EXCEPT ![c] = p]
    /\ UNCHANGED <<made, log, over>>

Next ==
    \/ ~over /\ (Store \/ \E c \in Devices : Edit(c) \/ Move(c))
    \/ over' = TRUE

Spec == Init /\ [][Next]_vars
=============================================================================

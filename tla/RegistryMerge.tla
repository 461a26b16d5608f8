---------------------------- MODULE RegistryMerge ---------------------------
(***************************************************************************)
(* One row of the registry room under the stream of ops its clients push:  *)
(* fresh ops in whatever order the sockets deliver them, and ops pushed    *)
(* again because a connection died before the ack (crates/doc/src/         *)
(* registry.rs, mark_disconnected and take_pushable).  The merge of one    *)
(* op is handlePush's call of applyOp; rows of other ids are independent.  *)
(***************************************************************************)
EXTENDS RegistryCore

CONSTANT Hlcs   \* the clocks devices emit

ASSUME HlcsAssumption == Hlcs \subseteq {h \in Nat : h > SeedClock}

VARIABLES
    row,      \* the stored row of the room
    applied,  \* history: the ops the room has merged at least once
    killed    \* history: the newest delete the room ever accepted (0: none)

vars == <<row, applied, killed>>

\* The ops the typed API mints for this row: a delete, or a write of some
\* fields (put) and the clearing of others (cut).  An upsert writes at least
\* the id field.
Writes(kind, h) ==
    {[op |-> kind, put |-> p, cut |-> n, hlc |-> h, ovr |-> Unclocked] :
        p \in SUBSET Fields, n \in SUBSET Fields}

Minted ==
    UNION {{[op |-> "delete", put |-> {}, cut |-> {},
             hlc |-> h, ovr |-> Unclocked]}
           \cup {o \in Writes("upsert", h) : o.put # {} /\ o.put \cap o.cut = {}}
           \cup {o \in Writes("update", h) : o.put \cup o.cut # {} /\ o.put \cap o.cut = {}}
           : h \in Hlcs}

(* The row is a row of the wire format, its tombstones hold nothing, and the
   history is made of ops the API can mint. *)
TypeOK ==
    /\ row \in Rows /\ WellFormed(row)
    /\ applied \subseteq Minted
    /\ killed \in Nat

Init ==
    /\ row = NoRow
    /\ applied = {}
    /\ killed = NoClock

Merge(op) ==
    /\ row' = ApplyOp(row, op)
    /\ killed' = IF op.op = "delete" /\ Changes(row, op) THEN op.hlc ELSE killed

\* A fresh op: no device emits a clock twice, and the device id breaks ties.
\* An update is minted only for a row the device displays (row_exists), so the
\* room has had it.
Push(op) ==
    /\ \A o \in applied : o.hlc # op.hlc
    /\ op.op = "update" => row.st # "none"
    /\ Merge(op)
    /\ applied' = applied \cup {op}

\* A batch whose ack was lost is pushed again on the next connection.
Repush(op) ==
    /\ op \in applied
    /\ Merge(op)
    /\ UNCHANGED applied

Next == \E op \in Minted : Push(op) \/ Repush(op)

Spec == Init /\ [][Next]_vars

-----------------------------------------------------------------------------
(* A delete the room accepted is final for everything older: the row is live
   again only through a write newer than the newest accepted delete, whatever
   the order in which late creates, deletes and re-pushes arrive
   (registry-core.ts applyOp, the tombstone and revival rules). *)
NoResurrection ==
    row.st = "live" /\ killed # NoClock => \E f \in Fields : row.clk[f] > killed

(* The row never forgets how new it is: a clock that would beat the whole row
   after a step already beat it before (applyOp's strict comparisons; a
   tombstone keeps its delHlc through a revival). *)
RowNeverAges ==
    [][\A h \in Hlcs : NewerThanRow(h, row') => NewerThanRow(h, row)]_vars

(* Where re-pushing is idempotent: every delete, every upsert newer than the
   row's last tombstone, and every op on a tombstone is a no-op when the room
   sees it again. *)
RepushNoOp ==
    \A op \in applied :
        \/ op.op = "delete"
        \/ op.op = "upsert" /\ op.hlc > row.del
        \/ row.st = "dead"
        => ApplyOp(row, op) = row

(* What registry-core.ts and docs/registry-sync.md say of every op:
   re-applying it is a no-op, so that re-pushes are idempotent. *)
RepushIdempotent == \A op \in applied : ApplyOp(row, op) = row
=============================================================================

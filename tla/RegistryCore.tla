---------------------------- MODULE RegistryCore ----------------------------
(***************************************************************************)
(* The registry merge core: the pure functions that edge/src/              *)
(* registry-core.ts (the room) and crates/doc/src/registry.rs (every       *)
(* client) implement "1:1".                                                *)
(*                                                                         *)
(* Data abstraction.  An HLC (ms, counter, device) is one natural number:  *)
(* the zero padding makes string order the order of the triple and the     *)
(* device suffix makes it total, so only the order is kept.  0 is "never   *)
(* written" (None / undefined).  A field's value is identified with the    *)
(* clock that wrote it: clocks are unique per write, so two equal clocks   *)
(* carry the same value and the value itself need not be stored.           *)
(***************************************************************************)
EXTENDS Naturals, FiniteSets, FiniteSetsExt

CONSTANT Fields   \* the field names of a row (name, status, lastSeenAt, ...)

ASSUME FieldsAssumption == IsFiniteSet(Fields)

\* No clock: the key is absent from `clocks`, or `delHlc` is undefined.
NoClock == 0

Clocks == [Fields -> Nat]

Unclocked == [f \in Fields |-> NoClock]

(* A row.  st = "none" is the absent row (undefined / None), "dead" a
   tombstone.  del is delHlc, clk the per-field clocks and has the fields
   with a value: a field written with null keeps its clock and leaves has. *)
Rows == [st  : {"none", "live", "dead"}, seq : Nat, del : Nat,
         clk : Clocks, has : SUBSET Fields]

\* Only a live row holds fields, and every value has the clock that wrote it.
WellFormed(row) ==
    /\ row.st = "none" => row.del = NoClock
    /\ row.st # "live" => row.clk = Unclocked
    /\ \A f \in row.has : row.clk[f] # NoClock

NoRow == [st |-> "none", seq |-> 0, del |-> NoClock, clk |-> Unclocked, has |-> {}]

(* An op on one row.  put are the fields set to a value, cut the ones set to
   null; ovr holds the per-field clock overrides a re-seed op carries. *)
Ops == [op  : {"upsert", "update", "delete"}, put : SUBSET Fields,
        cut : SUBSET Fields, hlc : Nat \ {0}, ovr : Clocks]

\* encodeHlc(0, 0, "seed"): below every clock a device emits, above NoClock.
SeedClock == 1

\* hlcNewer / hlc_newer: strictly newer, and anything beats "never written".
HlcNewer(a, b) == a > b

\* The clock of a field write: the override if there is one, else the op's.
ClockFor(op, f) == IF op.ovr[f] = NoClock THEN op.hlc ELSE op.ovr[f]

\* maxClock: the newest clock anywhere on the row, its delHlc included.
MaxClock(row) == Max({row.del} \cup {row.clk[f] : f \in Fields})

\* hlcNewer(h, maxClock(row)), without naming the maximum.
NewerThanRow(h, row) ==
    HlcNewer(h, row.del) /\ \A f \in Fields : HlcNewer(h, row.clk[f])

-----------------------------------------------------------------------------
(* applyOp's delete branch. *)

Tombstone(row, hlc) ==
    [row EXCEPT !.st = "dead", !.del = hlc, !.clk = Unclocked, !.has = {}]

\* Mutation: a delete is compared with the tombstone clock alone, as the first
\* draft of the merge rules has it.
DeleteBeatsTombstone(row, op) == row.st = "none" \/ HlcNewer(op.hlc, row.del)

DeleteBeats(row, op) ==
    \/ row.st = "none"
    \/ row.st = "dead" /\ HlcNewer(op.hlc, row.del)
    \/ row.st = "live" /\ NewerThanRow(op.hlc, row)

(* applyOp's upsert and update branch: the row the writes land on (creation
   and revival both start from empty fields; a revival keeps delHlc), and the
   fields whose clock is newer than the stored one. *)

\* Mutation: any upsert revives a tombstone.
WriteLandsAlways(row, op) == row.st = "live" \/ op.op = "upsert"

WriteLands(row, op) ==
    \/ row.st = "live"
    \/ op.op = "upsert" /\ row.st = "none"
    \/ op.op = "upsert" /\ row.st = "dead" /\ HlcNewer(op.hlc, row.del)

Winning(row, op) ==
    {f \in op.put \cup op.cut : HlcNewer(ClockFor(op, f), row.clk[f])}

\* Mutation: clearing a field drops the value without recording its clock.
WrittenForgetsClears(row, op) ==
    LET w == Winning(row, op)
    IN  [row EXCEPT !.st  = "live",
                    !.clk = [f \in Fields |-> IF f \in w \cap op.put THEN ClockFor(op, f) ELSE @[f]],
                    !.has = (@ \ w) \cup (w \cap op.put)]

Written(row, op) ==
    LET w == Winning(row, op)
    IN  [row EXCEPT !.st  = "live",
                    !.clk = [f \in Fields |-> IF f \in w THEN ClockFor(op, f) ELSE @[f]],
                    !.has = (@ \ w) \cup (w \cap op.put)]

-----------------------------------------------------------------------------
(* The `changed` half of applyOp's result. *)
Changes(row, op) ==
    IF op.op = "delete"
    THEN DeleteBeats(row, op)
    ELSE WriteLands(row, op) /\ (row.st # "live" \/ Winning(row, op) # {})

(* The `row` half of applyOp's result. *)
ApplyOp(row, op) ==
    IF ~Changes(row, op)      THEN row
    ELSE IF op.op = "delete"  THEN Tombstone(row, op.hlc)
    ELSE                           Written(row, op)

(* rowToSeedOp / row_to_seed_op: a row as the op that re-seeds it.  A live
   row's op sets only the fields that have a value; fields cleared by null
   have a clock in ovr but no write in the op. *)
SeedOp(row) ==
    IF row.st = "dead"
    THEN [op |-> "delete", put |-> {}, cut |-> {}, hlc |-> row.del, ovr |-> Unclocked]
    ELSE [op |-> "upsert", put |-> row.has, cut |-> {},
          hlc |-> IF MaxClock(row) = NoClock THEN SeedClock ELSE MaxClock(row),
          ovr |-> row.clk]

=============================================================================

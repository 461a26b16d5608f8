------------------------ MODULE RegistryMergeProofs -------------------------
(***************************************************************************)
(* Proofs about one row of the registry room, for every set of fields and  *)
(* every set of clocks.  The inductive invariant ties the row to its       *)
(* history: the tombstone clock survives revivals, so it is the newest     *)
(* accepted delete; and every merged op has left a mark at least as new as *)
(* itself, in a field clock or in the tombstone clock.                     *)
(***************************************************************************)
EXTENDS RegistryMerge, TLAPS

\* The tombstone clock is the newest accepted delete.
KilledIsDel == killed = row.del

\* What a merged op leaves behind.
Marked(op) ==
    /\ row.st # "none"
    /\ op.op = "delete" => ~NewerThanRow(op.hlc, row)
    /\ op.op = "upsert" =>
          \/ row.del >= op.hlc
          \/ \A f \in op.put \cup op.cut : row.clk[f] >= op.hlc

MergeInv ==
    /\ TypeOK
    /\ KilledIsDel
    /\ NoResurrection
    /\ \A op \in applied : Marked(op)

-----------------------------------------------------------------------------
(* A minted op is an op of the row whose clocks are all its own. *)
LEMMA MintedFacts ==
    ASSUME NEW op \in Minted
    PROVE  /\ op \in Ops
           /\ op.hlc \in Nat /\ op.hlc > 1
           /\ \A f \in Fields : ClockFor(op, f) = op.hlc
           /\ op.op = "upsert" => op.put # {}
           /\ op.put \subseteq Fields /\ op.cut \subseteq Fields
           /\ op.op \in {"upsert", "update", "delete"}
  BY HlcsAssumption DEF Minted, Writes, Ops, Clocks, Unclocked, ClockFor, NoClock, SeedClock

(* Merging keeps a row a row. *)
LEMMA ApplyOpType ==
    ASSUME NEW r \in Rows, NEW op \in Minted
    PROVE  ApplyOp(r, op) \in Rows
  <1>1. Tombstone(r, op.hlc) \in Rows
    BY MintedFacts DEF Tombstone, Rows, Clocks, Unclocked, NoClock
  <1>2. Written(r, op) \in Rows
    BY MintedFacts DEF Written, Winning, Rows, Clocks
  <1>3. QED
    BY <1>1, <1>2 DEF ApplyOp, Changes

(* The three results a merge can have, as facts about the new row. *)
LEMMA MergeOutcome ==
    ASSUME NEW r \in Rows, NEW op \in Minted
    PROVE  LET n == ApplyOp(r, op)
           IN  /\ ~Changes(r, op) => n = r
               /\ Changes(r, op) /\ op.op = "delete" =>
                     /\ n.st = "dead" /\ n.del = op.hlc
                     /\ n.clk = Unclocked /\ n.has = {}
               /\ Changes(r, op) /\ op.op # "delete" =>
                     /\ n.st = "live" /\ n.del = r.del
                     /\ \A f \in Fields : n.clk[f] =
                           IF f \in Winning(r, op) THEN op.hlc ELSE r.clk[f]
  <1>1. Changes(r, op) \in BOOLEAN
    BY DEF Changes, DeleteBeats, WriteLands, NewerThanRow, HlcNewer, Rows
  <1>2. CASE ~Changes(r, op)
    BY <1>2 DEF ApplyOp
  <1>3. CASE Changes(r, op) /\ op.op = "delete"
    <2>1. ApplyOp(r, op) = Tombstone(r, op.hlc)
      BY <1>3 DEF ApplyOp
    <2>2. QED
      BY <1>3, <2>1 DEF Tombstone, Rows
  <1>4. CASE Changes(r, op) /\ op.op # "delete"
    <2>1. ApplyOp(r, op) = Written(r, op)
      BY <1>4 DEF ApplyOp
    <2>2. QED
      BY <1>4, <2>1, MintedFacts DEF Written, Rows, Clocks
  <1>5. QED
    BY <1>1, <1>2, <1>3, <1>4

LEMMA MergeKeepsWellFormed ==
    ASSUME NEW r \in Rows, WellFormed(r), NEW op \in Minted
    PROVE  WellFormed(ApplyOp(r, op))
  <1>1. CASE ~Changes(r, op)
    BY <1>1 DEF ApplyOp
  <1>2. CASE Changes(r, op) /\ op.op = "delete"
    BY <1>2, MergeOutcome DEF WellFormed
  <1>3. CASE Changes(r, op) /\ op.op # "delete"
    <2>1. ApplyOp(r, op) = Written(r, op)
      BY <1>3 DEF ApplyOp
    <2>2. ASSUME NEW f \in Written(r, op).has PROVE Written(r, op).clk[f] # NoClock
      <3>1. f \in Fields /\ (f \in Winning(r, op) \/ f \in r.has)
        BY <2>2, MintedFacts DEF Written, Winning, Rows
      <3>2. Written(r, op).clk[f] = IF f \in Winning(r, op) THEN op.hlc ELSE r.clk[f]
        BY <1>3, <2>1, <3>1, MergeOutcome
      <3>3. QED
        BY <3>1, <3>2, MintedFacts DEF WellFormed, NoClock
    <2>3. QED
      BY <1>3, <2>1, <2>2, MergeOutcome DEF WellFormed
  <1>4. QED
    BY <1>1, <1>2, <1>3

(* Merging never makes a row easier to beat. *)
LEMMA MergeNeverAges ==
    ASSUME NEW r \in Rows, NEW op \in Minted, NEW h \in Nat,
           WellFormed(r), h > 0,
           NewerThanRow(h, ApplyOp(r, op))
    PROVE  NewerThanRow(h, r)
  <1> DEFINE n == ApplyOp(r, op)
  <1>1. CASE ~Changes(r, op)
    BY <1>1, MergeOutcome
  <1>2. CASE Changes(r, op) /\ op.op = "delete"
    <2>1. h > op.hlc
      BY <1>2, MergeOutcome DEF NewerThanRow, HlcNewer
    <2>2. CASE r.st = "live"
      BY <1>2, <2>1, <2>2, MintedFacts DEF Changes, DeleteBeats, NewerThanRow, HlcNewer, Rows, Clocks
    <2>3. CASE r.st = "dead"
      BY <1>2, <2>1, <2>3, MintedFacts
         DEF Changes, DeleteBeats, NewerThanRow, HlcNewer, Rows, Unclocked, NoClock, WellFormed
    <2>4. CASE r.st = "none"
      BY <2>4 DEF WellFormed, NewerThanRow, HlcNewer, Unclocked, NoClock
    <2>5. QED
      BY <2>2, <2>3, <2>4 DEF Rows
  <1>3. CASE Changes(r, op) /\ op.op # "delete"
    <2>1. h > r.del
      BY <1>3, MergeOutcome DEF NewerThanRow, HlcNewer
    <2>2. ASSUME NEW f \in Fields PROVE h > r.clk[f]
      <3>1. h > n.clk[f]
        BY <2>2 DEF NewerThanRow, HlcNewer
      <3>2. n.clk[f] >= r.clk[f]
        BY <1>3, MergeOutcome, MintedFacts, <2>2 DEF Winning, HlcNewer, Rows, Clocks
      <3>3. n \in Rows
        BY ApplyOpType
      <3>4. QED
        BY <3>1, <3>2, <3>3, <2>2 DEF Rows, Clocks
    <2>3. QED
      BY <2>1, <2>2 DEF NewerThanRow, HlcNewer
  <1>4. QED
    BY <1>1, <1>2, <1>3

-----------------------------------------------------------------------------
(* A merged op is marked, and what was marked stays marked. *)
LEMMA MergeMarks ==
    ASSUME MergeInv, NEW op \in Minted, Merge(op),
           op.op = "update" => row.st # "none"
    PROVE  Marked(op)'
  <1>1. row \in Rows /\ row' = ApplyOp(row, op) /\ row' \in Rows
    BY ApplyOpType DEF MergeInv, TypeOK, Merge
  <1>2. row'.st # "none"
    BY <1>1, MergeOutcome, MintedFacts DEF Changes, DeleteBeats, WriteLands
  <1>3. ASSUME op.op = "delete" PROVE ~NewerThanRow(op.hlc, row')
    <2>1. CASE Changes(row, op)
      BY <1>1, <1>3, <2>1, MergeOutcome, MintedFacts DEF NewerThanRow, HlcNewer
    <2>2. CASE ~Changes(row, op)
      BY <1>1, <1>3, <2>2, MergeOutcome DEF Changes, DeleteBeats, NewerThanRow, HlcNewer, Rows
    <2>3. QED
      BY <2>1, <2>2
  <1>4. ASSUME op.op = "upsert"
        PROVE  row'.del >= op.hlc \/ \A f \in op.put \cup op.cut : row'.clk[f] >= op.hlc
    <2>1. CASE Changes(row, op)
      <3>1. ASSUME NEW f \in op.put \cup op.cut PROVE row'.clk[f] >= op.hlc
        <4>1. f \in Fields
          BY <3>1, MintedFacts
        <4>2. row'.clk[f] = IF f \in Winning(row, op) THEN op.hlc ELSE row.clk[f]
          BY <1>1, <1>4, <2>1, <4>1, MergeOutcome
        <4>3. QED
          BY <1>1, <3>1, <4>1, <4>2, MintedFacts DEF Winning, HlcNewer, Rows, Clocks
      <3>2. QED
        BY <3>1
    <2>2. CASE ~Changes(row, op)
      <3>1. row' = row
        BY <1>1, <2>2, MergeOutcome
      <3>2. CASE row.st = "live"
        BY <1>1, <1>4, <2>2, <3>1, <3>2, MintedFacts
           DEF Changes, WriteLands, Winning, HlcNewer, Rows, Clocks
      <3>3. CASE row.st # "live"
        BY <1>1, <1>4, <2>2, <3>1, <3>3, MintedFacts
           DEF Changes, WriteLands, HlcNewer, Rows
      <3>4. QED
        BY <3>2, <3>3
    <2>3. QED
      BY <2>1, <2>2
  <1>5. QED
    BY <1>2, <1>3, <1>4 DEF Marked

LEMMA MarksStay ==
    ASSUME MergeInv, NEW op \in Minted, Merge(op), NEW o \in applied
    PROVE  Marked(o)'
  <1>1. /\ row \in Rows /\ row' = ApplyOp(row, op) /\ row' \in Rows
        /\ o \in Minted /\ Marked(o) /\ WellFormed(row)
    BY ApplyOpType DEF MergeInv, TypeOK, Merge
  <1>2. row'.st # "none"
    BY <1>1, MergeOutcome DEF Marked
  <1>3. ASSUME o.op = "delete" PROVE ~NewerThanRow(o.hlc, row')
    <2>1. o.hlc \in Nat /\ o.hlc > 0 /\ ~NewerThanRow(o.hlc, row)
      BY <1>1, <1>3, MintedFacts DEF Marked
    <2>2. QED
      BY <1>1, <2>1, MergeNeverAges
  <1>4. ASSUME o.op = "upsert"
        PROVE  row'.del >= o.hlc \/ \A f \in o.put \cup o.cut : row'.clk[f] >= o.hlc
    <2>1. CASE ~Changes(row, op)
      BY <1>1, <1>4, <2>1, MergeOutcome DEF Marked
    <2>2. CASE Changes(row, op) /\ op.op = "delete"
      <3>1. row'.del = op.hlc
        BY <1>1, <2>2, MergeOutcome
      <3>2. PICK f \in o.put : f \in Fields
        BY <1>1, <1>4, MintedFacts
      <3>3. row.del >= o.hlc \/ row.clk[f] >= o.hlc
        BY <1>1, <1>4, <3>2 DEF Marked
      <3>4. op.hlc > row.del /\ (row.st = "live" => op.hlc > row.clk[f])
        BY <1>1, <2>2, <3>2 DEF Changes, DeleteBeats, NewerThanRow, HlcNewer, Marked
      <3>5. row.st # "live" => row.clk[f] = 0
        BY <1>1, <3>2 DEF WellFormed, Rows, Unclocked, NoClock
      <3>6. /\ row.del \in Nat /\ row.clk[f] \in Nat /\ op.hlc \in Nat
            /\ o.hlc \in Nat /\ o.hlc > 1
        BY <1>1, <3>2, MintedFacts DEF Rows, Clocks
      <3>7. QED
        BY <3>1, <3>3, <3>4, <3>5, <3>6
    <2>3. CASE Changes(row, op) /\ op.op # "delete"
      <3>1. row'.del = row.del
        BY <1>1, <2>3, MergeOutcome
      <3>2. \A f \in Fields : row'.clk[f] >= row.clk[f]
        BY <1>1, <2>3, MergeOutcome, MintedFacts DEF Winning, HlcNewer, Rows, Clocks
      <3>3. o.put \cup o.cut \subseteq Fields /\ o.hlc \in Nat
        BY <1>1, MintedFacts
      <3>4. \A f \in Fields : row.clk[f] \in Nat /\ row'.clk[f] \in Nat
        BY <1>1 DEF Rows, Clocks
      <3>5. QED
        BY <1>1, <1>4, <3>1, <3>2, <3>3, <3>4 DEF Marked
    <2>4. QED
      BY <2>1, <2>2, <2>3
  <1>5. QED
    BY <1>2, <1>3, <1>4 DEF Marked

(* The parts of the invariant that concern the row alone. *)
LEMMA MergeKeepsRow ==
    ASSUME MergeInv, NEW op \in Minted, Merge(op)
    PROVE  (row \in Rows /\ WellFormed(row) /\ KilledIsDel /\ NoResurrection /\ killed \in Nat)'
  <1>1. /\ row \in Rows /\ row' = ApplyOp(row, op) /\ row' \in Rows
        /\ WellFormed(row) /\ killed = row.del /\ NoResurrection /\ killed \in Nat
        /\ killed' = IF op.op = "delete" /\ Changes(row, op) THEN op.hlc ELSE killed
    BY ApplyOpType DEF MergeInv, TypeOK, Merge, KilledIsDel
  <1>2. WellFormed(row')
    BY <1>1, MergeKeepsWellFormed
  <1>3. KilledIsDel' /\ killed' \in Nat
    BY <1>1, MergeOutcome, MintedFacts DEF KilledIsDel
  <1>4. NoResurrection'
    <2>1. CASE ~Changes(row, op)
      BY <1>1, <2>1, MergeOutcome DEF NoResurrection
    <2>2. CASE Changes(row, op) /\ op.op = "delete"
      BY <1>1, <2>2, MergeOutcome DEF NoResurrection
    <2>3. CASE Changes(row, op) /\ op.op # "delete"
      <3>1. killed' = killed
        BY <1>1, <2>3
      <3>2. \A f \in Fields : row'.clk[f] =
               IF f \in Winning(row, op) THEN op.hlc ELSE row.clk[f]
        BY <1>1, <2>3, MergeOutcome
      <3>3. CASE row.st = "live"
        <4>1. \A f \in Fields : row'.clk[f] >= row.clk[f] /\ row'.clk[f] \in Nat /\ row.clk[f] \in Nat
          BY <1>1, <3>2, MintedFacts DEF Winning, HlcNewer, Rows, Clocks
        <4>2. QED
          BY <1>1, <3>1, <3>3, <4>1 DEF NoResurrection
      <3>4. CASE row.st = "dead"
        <4>1. op.op = "upsert" /\ op.hlc > row.del
          BY <2>3, <3>4 DEF Changes, WriteLands, HlcNewer
        <4>2. PICK f \in op.put : f \in Fields
          BY <4>1, MintedFacts
        <4>3. f \in Winning(row, op)
          BY <1>1, <3>4, <4>2, MintedFacts DEF Winning, HlcNewer, WellFormed, Unclocked, NoClock
        <4>4. QED
          BY <1>1, <3>1, <3>2, <4>1, <4>2, <4>3 DEF NoResurrection
      <3>5. CASE row.st = "none"
        BY <1>1, <3>1, <3>5 DEF WellFormed, NoResurrection, NoClock
      <3>6. QED
        BY <1>1, <3>3, <3>4, <3>5 DEF Rows
    <2>4. QED
      BY <2>1, <2>2, <2>3
  <1>5. QED
    BY <1>1, <1>2, <1>3, <1>4

LEMMA MergeInvInit == Init => MergeInv
  BY DEF Init, MergeInv, TypeOK, WellFormed, KilledIsDel, NoResurrection,
         Rows, NoRow, Clocks, Unclocked, NoClock

LEMMA MergeInvNext == MergeInv /\ [Next]_vars => MergeInv'
  <1> SUFFICES ASSUME MergeInv, [Next]_vars PROVE MergeInv'
    OBVIOUS
  <1>1. ASSUME NEW op \in Minted, Push(op) PROVE MergeInv'
    <2>1. Merge(op) /\ applied' = applied \cup {op} /\ (op.op = "update" => row.st # "none")
      BY <1>1 DEF Push
    <2>2. \A o \in applied' : Marked(o)'
      BY <2>1, MergeMarks, MarksStay
    <2>3. QED
      BY <2>1, <2>2, MergeKeepsRow DEF MergeInv, TypeOK
  <1>2. ASSUME NEW op \in Minted, Repush(op) PROVE MergeInv'
    <2>1. Merge(op) /\ applied' = applied
      BY <1>2 DEF Repush
    <2>2. \A o \in applied' : Marked(o)'
      BY <2>1, MarksStay
    <2>3. QED
      BY <2>1, <2>2, MergeKeepsRow DEF MergeInv, TypeOK
  <1>3. CASE UNCHANGED vars
    BY <1>3 DEF vars, MergeInv, TypeOK, WellFormed, KilledIsDel, NoResurrection,
                Marked, NewerThanRow, HlcNewer
  <1>4. QED
    BY <1>1, <1>2, <1>3 DEF Next

-----------------------------------------------------------------------------
(* The room's row is well formed and the history relations hold in every
   reachable state, for every set of fields and clocks (applyOp,
   registry-core.ts). *)
THEOREM MergeInvariant == Spec => []MergeInv
  <1>1. QED
    BY MergeInvInit, MergeInvNext, PTL DEF Spec

(* The row stays a well-formed row of the wire format. *)
THEOREM MergeTypeOK == Spec => []TypeOK
  <1>1. MergeInv => TypeOK
    BY DEF MergeInv
  <1>2. QED
    BY <1>1, MergeInvariant, PTL

(* A row deleted at the room is live again only through a write newer than
   the newest delete the room accepted (applyOp's tombstone rules). *)
THEOREM NoResurrectionHolds == Spec => []NoResurrection
  <1>1. MergeInv => NoResurrection
    BY DEF MergeInv
  <1>2. QED
    BY <1>1, MergeInvariant, PTL

(* No step of the room makes its row easier to beat: the strict comparisons of
   applyOp and the delHlc kept by a revival. *)
THEOREM RowNeverAgesHolds == Spec => RowNeverAges
  <1>1. MergeInv /\ [Next]_vars
          => [\A h \in Hlcs : NewerThanRow(h, row') => NewerThanRow(h, row)]_vars
    <2> SUFFICES ASSUME MergeInv, [Next]_vars, NEW h \in Hlcs,
                        NewerThanRow(h, row'), vars' # vars
                 PROVE  NewerThanRow(h, row)
      BY DEF vars
    <2>1. PICK op \in Minted : row' = ApplyOp(row, op)
      BY DEF Next, Push, Repush, Merge
    <2>2. h \in Nat /\ h > 0
      BY HlcsAssumption DEF SeedClock
    <2>3. QED
      BY <2>1, <2>2, MergeNeverAges DEF MergeInv, TypeOK
  <1>2. QED
    BY <1>1, MergeInvariant, PTL DEF Spec, RowNeverAges

(* Re-pushing a delete, an upsert newer than the last tombstone, or anything
   to a tombstone, changes nothing at the room. *)
THEOREM RepushNoOpHolds == Spec => []RepushNoOp
  <1>1. MergeInv => RepushNoOp
    <2> SUFFICES ASSUME MergeInv, NEW op \in applied,
                        \/ op.op = "delete"
                        \/ op.op = "upsert" /\ op.hlc > row.del
                        \/ row.st = "dead"
                 PROVE  ApplyOp(row, op) = row
      BY DEF RepushNoOp
    <2>1. op \in Minted /\ row \in Rows /\ Marked(op) /\ WellFormed(row)
      BY DEF MergeInv, TypeOK
    <2>2. ~Changes(row, op)
      <3>1. CASE op.op = "delete"
        BY <2>1, <3>1, MintedFacts DEF Marked, Changes, DeleteBeats, WellFormed,
           NewerThanRow, HlcNewer, Unclocked, NoClock
      <3>2. CASE op.op = "upsert" /\ row.st = "dead"
        <4>1. PICK f \in op.put : f \in Fields
          BY <2>1, <3>2, MintedFacts
        <4>2. row.clk[f] = 0
          BY <2>1, <3>2, <4>1 DEF WellFormed, Unclocked, NoClock
        <4>3. row.del >= op.hlc
          BY <2>1, <3>2, <4>1, <4>2, MintedFacts DEF Marked
        <4>4. QED
          BY <2>1, <3>2, <4>3, MintedFacts DEF Changes, WriteLands, HlcNewer, Rows
      <3>3. CASE op.op = "update" /\ row.st = "dead"
        BY <3>3 DEF Changes, WriteLands
      <3>4. CASE op.op = "upsert" /\ op.hlc > row.del /\ row.st # "dead"
        <4>1. row.st = "live"
          BY <2>1, <3>4 DEF Marked, Rows
        <4>2. \A f \in op.put \cup op.cut : row.clk[f] >= op.hlc
          BY <2>1, <3>4, MintedFacts DEF Marked, Rows
        <4>3. Winning(row, op) = {}
          BY <2>1, <4>2, MintedFacts DEF Winning, HlcNewer, Rows, Clocks
        <4>4. QED
          BY <3>4, <4>1, <4>3 DEF Changes
      <3>5. QED
        BY <2>1, <3>1, <3>2, <3>3, <3>4, MintedFacts
    <2>3. QED
      BY <2>2 DEF ApplyOp
  <1>2. QED
    BY <1>1, MergeInvariant, PTL
=============================================================================

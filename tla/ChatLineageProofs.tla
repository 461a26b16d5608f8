------------------------- MODULE ChatLineageProofs -------------------------
(***************************************************************************)
(* Proofs about ChatLineage, for any set of devices and commands, and any  *)
(* number of crashes, evictions, failing posts and repeated seeds, with    *)
(* every window of the code open.  A property that a window breaks says so *)
(* itself (Clear); what is proved is that nothing else breaks it:          *)
(*   OneLineage    until a step falls into "flip", "flush" or "salvage",   *)
(*   HistoryKept   until one falls into "flip" or "flush",                 *)
(*   NothingForked until one falls into "flip", "flush" or "evict",        *)
(*   CommandsKept  until one falls into "flip", "flush" or "drop".         *)
(* Section 4 of the README says what each of these windows breaks.         *)
(***************************************************************************)
EXTENDS ChatLineage, FiniteSetTheorems, TLAPS

-----------------------------------------------------------------------------
(* The invariant, in layers. *)

Spoken(I)   == {i \in I : i.kind # "cmd"}
MsgOps(ops) == {o \in ops : o.item.kind # "cmd"}

Ops   == [item : Items, copy : Nat]
Seeds == [at : {"idle", "waiting", "posting", "posted", "sealed", "saved", "flipped"},
          thin : Docs, seen : Docs]

Shapes ==
    /\ gen \in [Devices -> 1..2]
    /\ row \in [Devices -> Rows \cup {None}] /\ copy \in [Devices -> Rows \cup {None}]
    /\ open \in [Devices -> Handles \cup {None}] /\ flushing \in [Devices -> Handles \cup {None}]
    /\ seed \in Seeds
    /\ room \in [ckpt : Docs, rows : Docs]
    /\ processed \subseteq Cmds /\ sent \subseteq Cmds /\ crashed \subseteq Devices
    /\ stored \in [Devices -> SUBSET Items] /\ left \in Budget

\* Every operation there is; finitely many, so that Fresh can be chosen.
OpsAt(d) == OpsOf(row[d]) \cup OpsOf(copy[d]) \cup OpsOf(open[d]) \cup OpsOf(flushing[d])
AllOps   == Content \cup seed.thin \cup UNION {OpsAt(d) : d \in Devices}

\* What is stored on a device is of the new lineage.
Turned(r)  == r # None /\ r.epoch = 2
ThinRow(d) == Turned(row[d])

\* The seed has not yet put the thin document into the host's store: nobody has
\* anything of the new lineage.
Before ==
    /\ \A d \in Devices : /\ gen[d] = 1 /\ ~ThinRow(d) /\ copy[d] = None
                          /\ open[d] # None => open[d].gen = 1
                          /\ flushing[d] # None => flushing[d].gen = 1
    /\ room.rows = {}

\* A handle fits what the registry says (g), what is stored (r), the rollback copy
\* (k) and how far the seed is (at).
Fits(d, h, g, r, k, at) ==
    /\ ~h.retired /\ h.out \subseteq h.ops
    /\ h.joined => h.gen = 2
    /\ h.gen = 2 => g = 2 /\ r # None
    /\ d # Host => h.runs = {}
    /\ h.gen = 1 /\ Turned(r) => d = Host /\ at \in {"saved", "flipped"}
    /\ h.gen = 1 /\ d # Host => k = None
    /\ (h.gen = 2 <=> Turned(r)) => OpsOf(r) \subseteq h.ops

\* The handles and the copy of a device.
Placed(d, o, f, g, r, k, at) ==
    /\ o # None => Fits(d, o, g, r, k, at)
    /\ f # None => Fits(d, f, g, r, k, at) /\ o = None
    /\ d # Host /\ k # None => g = 2

RunsOf(x) == IF x = None THEN {} ELSE x.runs
Busy == RunsOf(open[Host])

Phases ==
    /\ Before \/ ThinRow(Host)
    /\ seed.at \in {"waiting", "posting", "posted", "sealed"} => Before
    /\ seed.at \in {"saved", "flipped"} => ThinRow(Host)
    /\ seed.at \in {"sealed", "saved", "flipped"} => flushing[Host] = None /\ Busy = {}
    /\ \A d \in Devices : Placed(d, open[d], flushing[d], gen[d], row[d], copy[d], seed.at)

\* A message or reply is there only once its command was executed, and no reply
\* while its run goes on.
Told(ops, done, busy) ==
    \A o \in ops : o.item.kind # "cmd" /\ o.item.of # Old =>
        /\ o.item.of \in done
        /\ o.item.kind = "reply" => o.item.of \notin busy

Grounded ==
    /\ IsFiniteSet(AllOps)
    /\ Busy \subseteq processed /\ Told(AllOps, processed, Busy)

\* Documents of the new lineage hold nothing of the old one, and what is said in
\* them on other devices came from the room.
NoFat(ops) == \A o \in ops : o.copy # Fat
NewRows(r) == IF Turned(r) THEN r.ops ELSE {}
NewDoc(h)  == IF h # None /\ h.gen = 2 THEN h.ops ELSE {}
From(d, ops, said) == NoFat(ops) /\ (d # Host => MsgOps(ops) \subseteq said)
Flowed(d, o, f, r, said) ==
    From(d, NewRows(r), said) /\ From(d, NewDoc(o), said) /\ From(d, NewDoc(f), said)

Flows ==
    /\ NoFat(Content) /\ NoFat(seed.thin)
    /\ seed.at \in {"posted", "sealed"} => room.ckpt = seed.thin
    /\ \A d \in Devices : Flowed(d, open[d], flushing[d], row[d], Content)

\* Nothing is said twice in the new lineage.
Once(ops) == \A o, p \in ops : o.item = p.item /\ o.item.kind # "cmd" => o = p
HostDocs == NewRows(row[Host]) \cup NewDoc(open[Host]) \cup NewDoc(flushing[Host])

Singles ==
    /\ Once(Content \cup HostDocs) /\ Once(seed.thin)
    /\ open[Host] # None /\ open[Host].joined => MsgOps(Content) \subseteq open[Host].ops

\* Where the messages that were stored are.
Shared(d) == IF Before \/ d = Host THEN {} ELSE ItemsOf(Content)

Is2(h) == h # None /\ h.gen = 2
Hist(d, st, r, k, o, f, shared, said) ==
    /\ Spoken(st) \subseteq ItemsOf(OpsOf(r)) \cup ItemsOf(OpsOf(k)) \cup shared
    /\ d # Host /\ (k # None \/ Is2(o) \/ Is2(f)) => Messages(OpsOf(r)) \subseteq said \cup ItemsOf(OpsOf(k))

Histories ==
    \A d \in Devices : Hist(d, stored[d], row[d], copy[d], open[d], flushing[d], Shared(d), ItemsOf(Content))

\* What the seed rebuilt is what the host has stored.
RebuiltAll == seed.at \in {"posting", "posted", "sealed"} => Messages(seed.seen) \subseteq ItemsOf(seed.thin)

\* While the seed is under way, the host has it in memory or in its store.
Seen     == IF flushing[Host] = None THEN OpsOf(row[Host]) ELSE flushing[Host].ops
SeenKept == seed.at \in {"posting", "posted"} /\ open[Host] = None => Seen = seed.seen

SealedCovers == seed.at = "sealed" => OpsOf(row[Host]) \subseteq seed.seen
ThinCovers   == ThinRow(Host) => Spoken(stored[Host]) \subseteq ItemsOf(OpsOf(row[Host]))

Forks == RebuiltAll /\ SeenKept /\ SealedCovers /\ ThinCovers

\* Where a command of d is: executed, or in one of the documents of d.
Cmd(c)    == [kind |-> "cmd", of |-> c]
Has(c, x) == Cmd(c) \in ItemsOf(OpsOf(x))
Rests(c, r, k, done) == c \in done \/ Has(c, r) \/ Has(c, k)

Owned(c, d, st, out, down, o, f, r, k, done) ==
    /\ Cmd(c) \in st => Rests(c, r, k, done)
    /\ c \in out /\ d \notin down => Rests(c, r, k, done) \/ Has(c, o) \/ Has(c, f)
    /\ o # None /\ ~o.dirty /\ Has(c, o) => Rests(c, r, k, done)
    /\ Is2(o) /\ Has(c, r) => Rests(c, o, k, done)
    /\ Is2(f) /\ Has(c, r) => Rests(c, f, k, done)

Commanded ==
    \A c \in Cmds : Owned(c, By[c], stored[By[c]], sent, crashed, open[By[c]], flushing[By[c]],
                          row[By[c]], copy[By[c]], processed)

\* The flip finds no command that is still to be executed.
SealedDone ==
    seed.at \in {"sealed", "saved", "flipped"} /\ open[Host] # None => Pending(open[Host].ops) \subseteq processed
-----------------------------------------------------------------------------
(* Data. *)

LEMMA ItemsUnion ==
  ASSUME NEW A, NEW B
  PROVE  /\ ItemsOf(A \cup B) = ItemsOf(A) \cup ItemsOf(B)
         /\ A \subseteq B => ItemsOf(A) \subseteq ItemsOf(B)
         /\ Messages(A \cup B) = Messages(A) \cup Messages(B)
         /\ A \subseteq B => Messages(A) \subseteq Messages(B)
         /\ Messages(A) = Spoken(ItemsOf(A))
         /\ Messages(A) = ItemsOf(MsgOps(A))
BY DEF ItemsOf, Messages, Spoken, MsgOps

IsOp(o, kind, c, n) ==
    /\ o \in Ops /\ o.item = [kind |-> kind, of |-> c] /\ o.copy = n
    /\ o.item.kind = kind /\ o.item.of = c

LEMMA OpIs ==
  \A kind \in {"cmd", "msg", "reply"}, c \in Cmds \cup {Old}, n \in Nat : IsOp(Op(kind, c, n), kind, c, n)
BY DEF Op, Ops, Items, IsOp

\* A rebuild copies: every message once, under the new number.
LEMMA RebuiltIs ==
  ASSUME NEW ops \in Docs, NEW n \in Nat
  PROVE  /\ Rebuilt(ops, n) \in Docs
         /\ ItemsOf(Rebuilt(ops, n)) \subseteq ItemsOf(ops)
         /\ Messages(ops) \subseteq ItemsOf(Rebuilt(ops, n))
         /\ \A o \in Rebuilt(ops, n) : o.copy = n
         /\ \A o, p \in Rebuilt(ops, n) : o.item = p.item => o = p
         /\ IsFiniteSet(ops) => IsFiniteSet(Rebuilt(ops, n))
<1> DEFINE Of(i) == [item |-> i, copy |-> n]
<1>1. \A i : Of(i).item = i /\ Of(i).copy = n
  OBVIOUS
<1>2. ItemsOf(ops) \subseteq Items
  BY DEF ItemsOf, Docs
<1>3. \A i \in Items : Of(i) \in [item : Items, copy : Nat]
  OBVIOUS
<1>4. \A o \in Rebuilt(ops, n) : o.item \in ItemsOf(ops) /\ o = Of(o.item)
  BY <1>1 DEF Rebuilt
<1>5. \A i \in ItemsOf(ops) : i.kind # "cmd" => Of(i) \in Rebuilt(ops, n)
  BY DEF Rebuilt
<1> HIDE DEF Of
<1>6. Rebuilt(ops, n) \in Docs
  BY <1>2, <1>3, <1>4 DEF Docs
<1>7. ItemsOf(Rebuilt(ops, n)) \subseteq ItemsOf(ops)
  BY <1>4 DEF ItemsOf
<1>8. Messages(ops) \subseteq ItemsOf(Rebuilt(ops, n))
  BY <1>1, <1>5 DEF Messages, ItemsOf
<1>9. \A o \in Rebuilt(ops, n) : o.copy = n
  BY <1>1, <1>4
<1>10. \A o, p \in Rebuilt(ops, n) : o.item = p.item => o = p
  BY <1>4
<1>11. ASSUME IsFiniteSet(ops) PROVE IsFiniteSet(Rebuilt(ops, n))
  <2> DEFINE f == [o \in ops |-> Of(o.item)]
             T == {Of(i) : i \in ItemsOf(ops)}
  <2>1. f \in Surjection(ops, T)
    BY DEF Surjection, ItemsOf
  <2>2. IsFiniteSet(T)
    BY <1>11, <2>1, FS_Surjection
  <2>3. Rebuilt(ops, n) \subseteq T
    BY <1>4
  <2>4. QED
    BY <2>2, <2>3, FS_Subset
<1>12. QED
  BY <1>6, <1>7, <1>8, <1>9, <1>10, <1>11

\* A number for copies that is neither Fat nor Live.
LEMMA FreshIs ==
  ASSUME Shapes, IsFiniteSet(AllOps)
  PROVE  Fresh \in Nat /\ Fresh # Fat /\ Fresh # Live
<1> DEFINE used == Content \cup seed.thin \cup UNION {OpsOf(row[d]) \cup OpsOf(open[d]) : d \in Devices}
           k == Cardinality(used)
           copies == {o.copy : o \in used}
           f == [o \in used |-> o.copy]
<1>1. used \subseteq AllOps
  BY DEF AllOps, OpsAt
<1>2. IsFiniteSet(used)
  BY <1>1, FS_Subset
<1>3. f \in Surjection(used, copies)
  BY DEF Surjection
<1>4. Fresh = CHOOSE n \in 2..(k + 2) : \A o \in used : o.copy # n
  BY DEF Fresh
<1>5. \A n : n \notin copies => \A o \in used : o.copy # n
  OBVIOUS
<1> HIDE DEF used, copies, f
<1>6. IsFiniteSet(copies) /\ Cardinality(copies) <= k
  BY <1>2, <1>3, FS_Surjection
<1>7. k \in Nat /\ Cardinality(copies) \in Nat
  BY <1>2, <1>6, FS_CardinalityType
<1>8. \E n \in 2..(k + 2) : n \notin copies
  <2>1. SUFFICES ASSUME 2..(k + 2) \subseteq copies PROVE FALSE
    OBVIOUS
  <2>2. Cardinality(2..(k + 2)) <= Cardinality(copies)
    BY <1>6, <2>1, FS_Subset
  <2>3. Cardinality(2..(k + 2)) = k + 1
    BY <1>7, FS_Interval
  <2>4. QED
    BY <1>6, <1>7, <2>2, <2>3
<1>9. Fresh \in 2..(k + 2)
  BY <1>4, <1>5, <1>8
<1>10. QED
  BY <1>7, <1>9 DEF Fat, Live
-----------------------------------------------------------------------------
(* What actions do to a handle. *)

\* k is the handle h with the operations X committed to it.
Grown(h, k, X) ==
    /\ k \in Handles /\ X \subseteq Ops
    /\ k.gen = h.gen /\ k.retired = h.retired /\ k.joined = h.joined
    /\ k.ops = h.ops \cup X /\ k.out \subseteq h.out \cup X
    /\ k.dirty \/ (k.dirty = h.dirty /\ X = {})

\* A handle that was built.
New(h, g, ops, out, dirty) ==
    /\ h \in Handles /\ h # None
    /\ h.gen = g /\ h.ops = ops /\ h.out = out /\ (h.dirty <=> dirty)
    /\ ~h.retired /\ ~h.joined /\ ~h.watched /\ h.runs = {}

LEMMA HandleIs ==
  \A g \in 1..2, ops \in Docs, out \in Docs, dirty \in BOOLEAN :
      New(Handle(g, ops, out, dirty), g, ops, out, dirty)
<1> SUFFICES ASSUME NEW g \in 1..2, NEW ops \in Docs, NEW out \in Docs, NEW dirty \in BOOLEAN
             PROVE  New(Handle(g, ops, out, dirty), g, ops, out, dirty)
  OBVIOUS
<1> DEFINE h == [gen |-> g, retired |-> FALSE, ops |-> ops, out |-> out, dirty |-> dirty,
                 joined |-> FALSE, watched |-> FALSE, runs |-> {}]
<1>1. h \in Handles
  BY DEF Handles
<1>2. h # None
  BY <1>1, LineageAssumption
<1>3. /\ h.gen = g /\ h.ops = ops /\ h.out = out /\ (h.dirty <=> dirty)
      /\ ~h.retired /\ ~h.joined /\ ~h.watched /\ h.runs = {}
  OBVIOUS
<1>4. Handle(g, ops, out, dirty) = h
  BY DEF Handle
<1> HIDE DEF h
<1>5. QED
  BY <1>1, <1>2, <1>3, <1>4 DEF New

LEMMA WatchedIs ==
  ASSUME NEW h \in Handles, NEW b \in BOOLEAN
  PROVE  LET k == [h EXCEPT !.watched = b]
         IN  Grown(h, k, {}) /\ k.runs = h.runs
BY DEF Handles, Grown

LEMMA CommitIs ==
  ASSUME NEW h \in Handles, NEW kind \in {"cmd", "msg", "reply"}, NEW c \in Cmds
  PROVE  LET k == Commit(h, kind, c)
             X == {Op(kind, c, IF h.gen = 2 THEN Live ELSE Fat)}
         IN  /\ Grown(h, k, X) /\ k.dirty /\ k.runs = h.runs
             /\ IsFiniteSet(X)
<1> DEFINE o == Op(kind, c, IF h.gen = 2 THEN Live ELSE Fat)
<1>1. o \in Ops
  <2> DEFINE n == IF h.gen = 2 THEN Live ELSE Fat
  <2>1. n \in Nat /\ c \in Cmds \cup {Old}
    BY DEF Fat, Live
  <2>2. o = Op(kind, c, n)
    OBVIOUS
  <2> HIDE DEF n, o
  <2>3. IsOp(o, kind, c, n)
    BY <2>1, <2>2, OpIs
  <2>4. QED
    BY <2>3 DEF IsOp
<1>2. Commit(h, kind, c) =
        [h EXCEPT !.ops = @ \cup {o}, !.dirty = TRUE, !.out = IF h.gen = 2 THEN @ \cup {o} ELSE @]
  BY DEF Commit
<1>3. IsFiniteSet({o})
  BY FS_Singleton
<1> HIDE DEF o
<1>4. h.ops \subseteq Ops /\ h.out \subseteq Ops /\ h.gen \in 1..2 /\ h.runs \in SUBSET Cmds
  BY DEF Handles, Docs, Ops
<1> DEFINE k == [h EXCEPT !.ops = @ \cup {o}, !.dirty = TRUE,
                         !.out = IF h.gen = 2 THEN @ \cup {o} ELSE @]
<1>5. h.ops \cup {o} \in Docs /\ (IF h.gen = 2 THEN h.out \cup {o} ELSE h.out) \in Docs
  BY <1>1, <1>4 DEF Docs, Ops
<1>6. k \in Handles /\ k.gen = h.gen /\ k.retired = h.retired /\ k.joined = h.joined
      /\ k.runs = h.runs /\ k.dirty
  BY <1>5 DEF Handles
<1>7. k.ops = h.ops \cup {o} /\ k.out \subseteq h.out \cup {o}
  BY DEF Handles
<1> HIDE DEF k
<1>8. Grown(h, k, {o})
  BY <1>1, <1>6, <1>7 DEF Grown
<1>9. QED
  BY <1>2, <1>3, <1>6, <1>8 DEF o, k

LEMMA RunsIs ==
  ASSUME NEW h, NEW k \in Handles, NEW X, Grown(h, k, X), NEW R \in SUBSET Cmds
  PROVE  Grown(h, [k EXCEPT !.runs = R], X) /\ [k EXCEPT !.runs = R].runs = R
BY DEF Handles, Grown

\* A row that is saved.
LEMMA StoredRowIs ==
  ASSUME NEW d \in Devices, Shapes, NEW h \in Handles, ~h.retired
  PROVE  LET r == StoredRow(d, h)
         IN  r \in Rows /\ r # None /\ r.ops = h.ops /\ (Turned(r) <=> ThinRow(d))
<1>1. ~Suppressed(d, h)
  BY DEF Suppressed
<1>2. h.ops \in Docs
  BY DEF Handles
<1>3. row[d] \in Rows \cup {None}
  BY DEF Shapes
<1>4. CASE row[d] = None
  <2> DEFINE r == [ops |-> h.ops, epoch |-> 0, met |-> FALSE]
  <2>1. StoredRow(d, h) = r
    BY <1>1, <1>4 DEF StoredRow, NewRow
  <2>2. r \in Rows
    BY <1>2 DEF Rows
  <2>3. r # None
    BY <2>2, LineageAssumption
  <2>4. r.ops = h.ops /\ r.epoch = 0
    OBVIOUS
  <2>5. QED
    BY <1>4, <2>1, <2>2, <2>3, <2>4 DEF Turned, ThinRow
<1>5. CASE row[d] # None
  <2>1. row[d] \in Rows
    BY <1>3, <1>5
  <2>2. StoredRow(d, h) = [row[d] EXCEPT !.ops = h.ops]
    BY <1>1, <1>5 DEF StoredRow
  <2>3. [row[d] EXCEPT !.ops = h.ops] \in Rows
    BY <1>2, <2>1 DEF Rows
  <2>4. QED
    BY <1>5, <2>1, <2>2, <2>3, LineageAssumption DEF Rows, Turned, ThinRow
<1>6. QED
  BY <1>4, <1>5
-----------------------------------------------------------------------------
(* Opening the chat either serves the handle in the map or builds a new one.*)

\* Up to and with this step, nothing fell into the window between a check or an
\* eviction and the save it allows.
Calm == "flip" \notin raced' /\ "flush" \notin raced'

\* If a save on d is under way, this step is on record as having fallen into it.
Undisturbed(d) == Between(d) \subseteq raced'

\* No eviction is being saved, and no seed is past its last check.
Quiet(d) == flushing[d] = None /\ ~(d = Host /\ seed.at \in {"sealed", "saved", "flipped"})

Elsewhere == UNCHANGED <<flushing, seed, room, crashed, stored>>

\* The handle in the map is written to.
Talks(d, k, X) ==
    /\ open[d] # None /\ Grown(open[d], k, X)
    /\ open' = [open EXCEPT ![d] = k]
    /\ Elsewhere /\ UNCHANGED <<gen, row, copy>>

\* An old document, one that is adopted, one that is born, one that is opened again.
BuildsOld(d, k, X) ==
    /\ gen[d] = 1 /\ ~ThinRow(d)
    /\ k.gen = 1 /\ k.ops = OpsOf(row[d]) \cup X /\ k.out \subseteq X
    /\ UNCHANGED <<gen, row, copy>>

BuildsAdopted(d, k, X) ==
    /\ gen[d] = 2 /\ row[d] # None /\ ~ThinRow(d)
    /\ k.gen = 2 /\ k.ops = Requeued(d, row[d].ops) \cup X
    /\ k.dirty \/ k.ops = {}
    /\ copy' = [copy EXCEPT ![d] = Rollback(d, row[d].ops)]
    /\ UNCHANGED <<gen, row>>

BuildsBorn(d, k, X) ==
    /\ gen[d] = 2 /\ row[d] = None
    /\ k.gen = 2 /\ k.ops = X
    /\ row' = [row EXCEPT ![d] = [ops |-> {}, epoch |-> 2, met |-> FALSE]]
    /\ UNCHANGED <<gen, copy>>

BuildsThin(d, k, X) ==
    /\ ThinRow(d)
    /\ k.gen = 2 /\ k.ops = row[d].ops \cup X
    /\ gen' = [gen EXCEPT ![d] = 2]
    /\ UNCHANGED <<row, copy>>

Builds(d, k, X) ==
    /\ k \in Handles /\ X \subseteq Ops
    /\ ~k.retired /\ ~k.joined /\ k.runs = {} /\ k.out \subseteq k.ops
    /\ k.dirty \/ X = {}
    /\ "drop" \notin raced' /\ open[d] # None => ~open[d].dirty
    /\ open' = [open EXCEPT ![d] = k]
    /\ Elsewhere
    /\ \/ BuildsOld(d, k, X) \/ BuildsAdopted(d, k, X) \/ BuildsBorn(d, k, X) \/ BuildsThin(d, k, X)

LEMMA RequeuedIs ==
  ASSUME NEW d \in Devices, NEW ops \in Docs
  PROVE  /\ Requeued(d, ops) \in Docs
         /\ \A o \in Requeued(d, ops) : o.item.kind = "cmd" /\ o.copy = Live
         /\ ItemsOf(Requeued(d, ops)) \subseteq ItemsOf(ops)
         /\ IsFiniteSet(ops) => IsFiniteSet(Requeued(d, ops))
<1> DEFINE C == {k \in Pending(ops) : By[k] = d}
<1>1. \A c \in C : c \in Cmds \cup {Old} /\ [kind |-> "cmd", of |-> c] \in ItemsOf(ops)
  <2>1. \A c \in C : \E o \in ops : o.item.kind = "cmd" /\ o.item.of = c
    BY DEF Pending, Commands, ItemsOf
  <2>2. \A o \in ops : o.item \in Items /\ o.item \in ItemsOf(ops)
    BY DEF Docs, ItemsOf
  <2>3. \A i \in Items : i.of \in Cmds \cup {Old} /\ (i.kind = "cmd" => i = [kind |-> "cmd", of |-> i.of])
    BY DEF Items
  <2>4. QED
    BY <2>1, <2>2, <2>3
<1>2. Live \in Nat
  BY DEF Live
<1>3. Requeued(d, ops) = {Op("cmd", c, Live) : c \in C}
  BY DEF Requeued
<1> HIDE DEF C
<1>4. \A c \in C : /\ Op("cmd", c, Live) \in Ops
                   /\ Op("cmd", c, Live).item \in ItemsOf(ops)
                   /\ Op("cmd", c, Live).item.kind = "cmd" /\ Op("cmd", c, Live).copy = Live
  <2>1. SUFFICES ASSUME NEW c \in Cmds \cup {Old}, [kind |-> "cmd", of |-> c] \in ItemsOf(ops)
                 PROVE  /\ Op("cmd", c, Live) \in Ops
                        /\ Op("cmd", c, Live).item \in ItemsOf(ops)
                        /\ Op("cmd", c, Live).item.kind = "cmd" /\ Op("cmd", c, Live).copy = Live
    BY <1>1
  <2>2. IsOp(Op("cmd", c, Live), "cmd", c, Live)
    BY <1>2, OpIs
  <2>3. QED
    BY <2>1, <2>2 DEF IsOp
<1>5. \A o \in Requeued(d, ops) : o \in Ops /\ o.item \in ItemsOf(ops) /\ o.item.kind = "cmd" /\ o.copy = Live
  BY <1>3, <1>4
<1>6. ItemsOf(Requeued(d, ops)) \subseteq ItemsOf(ops) /\ Requeued(d, ops) \in Docs
  BY <1>5 DEF ItemsOf, Docs, Ops
<1>7. ASSUME IsFiniteSet(ops) PROVE IsFiniteSet(Requeued(d, ops))
  <2> DEFINE T == {Op("cmd", o.item.of, Live) : o \in ops}
             f == [o \in ops |-> Op("cmd", o.item.of, Live)]
  <2>1. f \in Surjection(ops, T)
    BY DEF Surjection
  <2>2. IsFiniteSet(T)
    BY <1>7, <2>1, FS_Surjection
  <2>3. \A c \in C : \E o \in ops : o.item.of = c
    <3>1. SUFFICES ASSUME NEW c \in C PROVE \E o \in ops : o.item.of = c
      OBVIOUS
    <3>2. PICK o \in ops : o.item = [kind |-> "cmd", of |-> c]
      BY <1>1 DEF ItemsOf
    <3>3. QED
      BY <3>2
  <2>4. Requeued(d, ops) \subseteq T
    BY <1>3, <2>3
  <2>5. QED
    BY <2>2, <2>4, FS_Subset
<1>8. QED
  BY <1>5, <1>6, <1>7

\* What is on record of a step that opens the chat.
LEMMA OpeningIs ==
  ASSUME NEW d \in Devices, Opening(d) \subseteq raced'
  PROVE  /\ Undisturbed(d)
         /\ ~Serves(d) /\ "drop" \notin raced' /\ open[d] # None => ~open[d].dirty
BY DEF Opening, Undisturbed, Dropping, Into

LEMMA OpenSplit ==
  ASSUME Shapes, NEW d \in Devices, OpenEffects(d), Opening(d) \subseteq raced', NEW k, NEW X,
         Grown(Opened(d), k, X), k.runs = Opened(d).runs,
         open' = [open EXCEPT ![d] = k], Elsewhere
  PROVE  Talks(d, k, X) \/ Builds(d, k, X)
<1>1. /\ gen \in [Devices -> 1..2] /\ gen[d] \in 1..2
      /\ row \in [Devices -> Rows \cup {None}] /\ row[d] \in Rows \cup {None}
      /\ copy \in [Devices -> Rows \cup {None}]
  BY DEF Shapes
<1>2. CASE Serves(d)
  <2>1. UNCHANGED <<gen, copy, row>> /\ Opened(d) = open[d] /\ open[d] # None
    BY <1>2 DEF OpenEffects, Opened, Serves
  <2>2. Talks(d, k, X)
    BY <2>1 DEF Talks
  <2>3. QED
    BY <2>2
<1>3. CASE ~Serves(d)
  <2>0. "drop" \notin raced' /\ open[d] # None => ~open[d].dirty
    BY <1>3, OpeningIs
  <2>1. /\ gen' = [gen EXCEPT ![d] = Gen(d)]
        /\ copy' = [copy EXCEPT ![d] = IF Adopts(d) THEN Rollback(d, row[d].ops) ELSE @]
        /\ row' = [row EXCEPT ![d] =
                      IF Gen(d) = 2 /\ @ = None THEN [ops |-> {}, epoch |-> 2, met |-> FALSE] ELSE @]
    BY <1>3 DEF OpenEffects
  <2>2. Opened(d) = Built(d)
    BY <1>3 DEF Opened
  <2>3. row[d] # None => row[d].ops \in Docs /\ row[d].epoch \in {0, 2}
    BY <1>1 DEF Rows
  <2>4. {} \in Docs /\ OpsOf(row[d]) \in Docs
    BY <2>3 DEF OpsOf, Docs
  <2>5. k \in Handles /\ X \subseteq Ops
    BY DEF Grown
  <2>6. CASE Gen(d) = 1
    <3>1. gen[d] = 1 /\ ~ThinRow(d)
      BY <2>6, <1>1 DEF Gen, ThinRow, Turned
    <3>2. Built(d) = Handle(1, OpsOf(row[d]), {}, FALSE)
      BY <2>6 DEF Built
    <3>3. /\ Opened(d).gen = 1 /\ Opened(d).ops = OpsOf(row[d]) /\ Opened(d).out = {}
          /\ ~Opened(d).dirty /\ ~Opened(d).retired /\ ~Opened(d).joined /\ Opened(d).runs = {}
      <4>0. 1 \in 1..2 /\ 2 \in 1..2 /\ FALSE \in BOOLEAN
        OBVIOUS
      <4>1. New(Built(d), 1, OpsOf(row[d]), {}, FALSE)
        BY <4>0, <2>4, <3>2, HandleIs, Zenon
      <4>2. QED
        BY <2>2, <4>1 DEF New
    <3>4. gen' = gen /\ copy' = copy /\ row' = row
      BY <1>1, <2>1, <2>6, <3>1 DEF Adopts
    <3>5. BuildsOld(d, k, X)
      BY <3>1, <3>3, <3>4 DEF BuildsOld, Grown
    <3>6. QED
      BY <2>0, <2>5, <3>3, <3>5 DEF Builds, Grown
  <2>7. CASE Adopts(d)
    <3> DEFINE own == Requeued(d, row[d].ops)
    <3>1. Gen(d) = 2 /\ row[d] # None /\ ~ThinRow(d) /\ gen[d] = 2
      BY <2>7 DEF Adopts, Gen, ThinRow, Turned
    <3>2. own \in Docs
      BY <2>3, <3>1, RequeuedIs
    <3>3. Built(d) = Handle(2, own, own, own # {})
      BY <2>7, <3>1 DEF Built
    <3> HIDE DEF own
    <3>4. /\ Opened(d).gen = 2 /\ Opened(d).ops = own /\ Opened(d).out = own
          /\ (Opened(d).dirty <=> own # {}) /\ ~Opened(d).retired /\ ~Opened(d).joined /\ Opened(d).runs = {}
      <4>0. 1 \in 1..2 /\ 2 \in 1..2 /\ FALSE \in BOOLEAN
        OBVIOUS
      <4>1. New(Built(d), 2, own, own, own # {})
        BY <4>0, <3>2, <3>3, HandleIs, Zenon
      <4>2. QED
        BY <2>2, <4>1 DEF New
    <3>5. gen' = gen /\ row' = row /\ copy' = [copy EXCEPT ![d] = Rollback(d, row[d].ops)]
      BY <1>1, <2>1, <2>7, <3>1
    <3>6. k.dirty \/ k.ops = {}
      <4>1. CASE k.dirty
        BY <4>1
      <4>2. CASE ~k.dirty
        BY <4>2, <3>4 DEF Grown
      <4>3. QED
        BY <4>1, <4>2
    <3>7. BuildsAdopted(d, k, X)
      BY <3>1, <3>4, <3>5, <3>6 DEF BuildsAdopted, Grown, own
    <3>8. QED
      BY <2>0, <2>5, <3>4, <3>7 DEF Builds, Grown
  <2>8. CASE Gen(d) = 2 /\ row[d] = None
    <3>1. Built(d) = Handle(2, {}, {}, FALSE)
      BY <2>8 DEF Built, Adopts
    <3>2. /\ Opened(d).gen = 2 /\ Opened(d).ops = {} /\ Opened(d).out = {}
          /\ ~Opened(d).dirty /\ ~Opened(d).retired /\ ~Opened(d).joined /\ Opened(d).runs = {}
      <4>0. 1 \in 1..2 /\ 2 \in 1..2 /\ FALSE \in BOOLEAN
        OBVIOUS
      <4>1. New(Built(d), 2, {}, {}, FALSE)
        BY <4>0, <2>4, <3>1, HandleIs, Zenon
      <4>2. QED
        BY <2>2, <4>1 DEF New
    <3>3. gen[d] = 2 /\ gen' = gen /\ copy' = copy
          /\ row' = [row EXCEPT ![d] = [ops |-> {}, epoch |-> 2, met |-> FALSE]]
      BY <1>1, <2>1, <2>8 DEF Gen, Adopts
    <3>4. BuildsBorn(d, k, X)
      BY <2>8, <3>2, <3>3 DEF BuildsBorn, Grown
    <3>5. QED
      BY <2>0, <2>5, <3>2, <3>4 DEF Builds, Grown
  <2>9. CASE Gen(d) = 2 /\ row[d] # None /\ ~Adopts(d)
    <3> DEFINE out == IF row[d].met THEN {} ELSE row[d].ops
    <3>1. ThinRow(d)
      BY <2>9 DEF Adopts, ThinRow, Turned
    <3>2. Built(d) = Handle(2, row[d].ops, out, FALSE)
      BY <2>9 DEF Built
    <3>3. out \in Docs /\ out \subseteq row[d].ops /\ row[d].ops \in Docs
      BY <2>3, <2>4, <2>9
    <3> HIDE DEF out
    <3>4. /\ Opened(d).gen = 2 /\ Opened(d).ops = row[d].ops /\ Opened(d).out = out
          /\ ~Opened(d).dirty /\ ~Opened(d).retired /\ ~Opened(d).joined /\ Opened(d).runs = {}
      <4>0. 1 \in 1..2 /\ 2 \in 1..2 /\ FALSE \in BOOLEAN
        OBVIOUS
      <4>1. New(Built(d), 2, row[d].ops, out, FALSE)
        BY <4>0, <3>2, <3>3, HandleIs, Zenon
      <4>2. QED
        BY <2>2, <4>1 DEF New
    <3>5. gen' = [gen EXCEPT ![d] = 2] /\ copy' = copy /\ row' = row
      BY <1>1, <2>1, <2>9
    <3>6. BuildsThin(d, k, X)
      BY <3>1, <3>4, <3>5 DEF BuildsThin, Grown
    <3>7. QED
      BY <2>0, <2>5, <3>3, <3>4, <3>6 DEF Builds, Grown
  <2>10. Gen(d) \in 1..2
    BY <1>1 DEF Gen
  <2>11. QED
    BY <2>6, <2>7, <2>8, <2>9, <2>10
<1>4. QED
  BY <1>2, <1>3
-----------------------------------------------------------------------------
(* The actions that write to a handle, by what they write. *)

Own(k) == IF k.gen = 2 THEN Live ELSE Fat

\* Open, Watch, Unwatch, Queue: at most a command of this device.
Uses(d, k, X) ==
    /\ Undisturbed(d) /\ (Talks(d, k, X) \/ Builds(d, k, X))
    /\ k.runs \subseteq RunsOf(open[d])
    /\ IsFiniteSet(X)
    /\ \A o \in X : /\ o.item.kind = "cmd" /\ o.copy = Own(k)
                    /\ o.item.of \in Cmds /\ By[o.item.of] = d
    /\ sent' = sent \cup {o.item.of : o \in X}
    /\ processed' = processed /\ left' = left

\* Drain, Reply: what a run says.
Works(c, k, o) ==
    /\ Undisturbed(Host) /\ Talks(Host, k, {o})
    /\ o \in Ops /\ o.item.of = c /\ o.copy = Own(k)
    /\ \/ /\ o.item.kind = "msg" /\ c \notin processed
          /\ processed' = processed \cup {c} /\ k.runs = open[Host].runs \cup {c}
       \/ /\ o.item.kind = "reply" /\ c \in open[Host].runs
          /\ processed' = processed /\ k.runs = open[Host].runs \ {c}
    /\ sent' = sent /\ left' = left

\* Salvage: messages of the rollback copy.
Restores(k, X) ==
    /\ Undisturbed(Host) /\ gen[Host] = 2 /\ (Talks(Host, k, X) \/ Builds(Host, k, X))
    /\ k.runs \subseteq RunsOf(open[Host])
    /\ IsFiniteSet(X)
    /\ \A o \in X : o.item \in ItemsOf(OpsOf(copy[Host])) /\ o.item.kind # "cmd" /\ o.copy # Fat
    /\ \A o, p \in X : o.item = p.item => o = p
    /\ "salvage" \notin raced' =>
         open[Host] # None /\ open[Host].joined /\ Messages(open[Host].ops) = {}
    /\ processed' = processed /\ sent' = sent /\ left' = left

LEMMA OpenedIs ==
  ASSUME Shapes, NEW d \in Devices
  PROVE  Opened(d) \in Handles /\ Opened(d).runs \subseteq RunsOf(open[d])
<1>1. row[d] \in Rows \cup {None} /\ open[d] \in Handles \cup {None}
  BY DEF Shapes
<1>2. OpsOf(row[d]) \in Docs /\ {} \in Docs /\ (row[d] # None => row[d].ops \in Docs)
  BY <1>1 DEF OpsOf, Rows, Docs
<1>3. CASE Serves(d)
  BY <1>1, <1>3 DEF Opened, Serves, RunsOf
<1>4. CASE ~Serves(d)
  <2>1. 1 \in 1..2 /\ 2 \in 1..2 /\ FALSE \in BOOLEAN
    OBVIOUS
  <2> DEFINE own == Requeued(d, row[d].ops)
             out == IF row[d].met THEN {} ELSE row[d].ops
  <2>2. row[d] # None => own \in Docs /\ out \in Docs
    BY <1>2, RequeuedIs
  <2>3. Opened(d) = Built(d)
    BY <1>4 DEF Opened
  <2>4. \/ Built(d) = Handle(1, OpsOf(row[d]), {}, FALSE)
        \/ row[d] # None /\ Built(d) = Handle(2, own, own, own # {})
        \/ Built(d) = Handle(2, {}, {}, FALSE)
        \/ row[d] # None /\ Built(d) = Handle(2, row[d].ops, out, FALSE)
    BY DEF Built, Adopts
  <2> HIDE DEF own, out
  <2>5. Built(d) \in Handles /\ Built(d).runs = {}
    <3>1. CASE Built(d) = Handle(1, OpsOf(row[d]), {}, FALSE)
      <4>1. New(Built(d), 1, OpsOf(row[d]), {}, FALSE)
        BY <2>1, <1>2, <3>1, HandleIs, Zenon
      <4>2. QED
        BY <4>1 DEF New
    <3>2. CASE row[d] # None /\ Built(d) = Handle(2, own, own, own # {})
      <4>1. New(Built(d), 2, own, own, own # {})
        BY <2>1, <2>2, <3>2, HandleIs, Zenon
      <4>2. QED
        BY <4>1 DEF New
    <3>3. CASE Built(d) = Handle(2, {}, {}, FALSE)
      <4>1. New(Built(d), 2, {}, {}, FALSE)
        BY <2>1, <1>2, <3>3, HandleIs, Zenon
      <4>2. QED
        BY <4>1 DEF New
    <3>4. CASE row[d] # None /\ Built(d) = Handle(2, row[d].ops, out, FALSE)
      <4>1. New(Built(d), 2, row[d].ops, out, FALSE)
        BY <2>1, <2>2, <1>2, <3>4, HandleIs, Zenon
      <4>2. QED
        BY <4>1 DEF New
    <3>5. QED
      BY <2>4, <3>1, <3>2, <3>3, <3>4
  <2>6. QED
    BY <2>3, <2>5
<1>5. QED
  BY <1>3, <1>4

\* A step that writes nothing into the handle of d: Open, Watch, Unwatch.
LEMMA UsesNothing ==
  ASSUME NEW d \in Devices, NEW k, Undisturbed(d), Talks(d, k, {}) \/ Builds(d, k, {}),
         k.runs \subseteq RunsOf(open[d]), UNCHANGED <<processed, sent, left>>
  PROVE  Uses(d, k, {})
BY FS_EmptySet DEF Uses

LEMMA OpenUses ==
  ASSUME Shapes, NEW d \in Devices, Open(d)
  PROVE  \E k : Uses(d, k, {})
<1> DEFINE k == Opened(d)
<1>1. k \in Handles /\ k.runs \subseteq RunsOf(open[d])
  BY OpenedIs
<1>2. Opening(d) \subseteq raced' /\ OpenEffects(d) /\ open' = [open EXCEPT ![d] = k] /\ Elsewhere
      /\ UNCHANGED <<processed, sent, left>>
  BY DEF Open, Elsewhere, Falls
<1>u. Undisturbed(d)
  BY <1>2, OpeningIs
<1> HIDE DEF k
<1>3. Grown(k, k, {})
  BY <1>1 DEF Grown
<1>4. Talks(d, k, {}) \/ Builds(d, k, {})
  BY <1>2, <1>3, OpenSplit DEF k
<1>5. QED
  BY <1>1, <1>2, <1>u, <1>4, UsesNothing

LEMMA WatchUses ==
  ASSUME Shapes, NEW d \in Devices, Watch(d)
  PROVE  \E k : Uses(d, k, {})
<1> DEFINE h == Opened(d)
           k == [h EXCEPT !.watched = TRUE]
<1>1. h \in Handles /\ h.runs \subseteq RunsOf(open[d])
  BY OpenedIs
<1>2. Opening(d) \subseteq raced' /\ OpenEffects(d) /\ open' = [open EXCEPT ![d] = k] /\ Elsewhere
      /\ UNCHANGED <<processed, sent, left>>
  BY DEF Watch, Elsewhere, Falls
<1>u. Undisturbed(d)
  BY <1>2, OpeningIs
<1>3. Grown(h, k, {}) /\ k.runs = h.runs
  BY <1>1, WatchedIs
<1> HIDE DEF h, k
<1>4. Talks(d, k, {}) \/ Builds(d, k, {})
  BY <1>2, <1>3, OpenSplit DEF h
<1>5. QED
  BY <1>1, <1>2, <1>u, <1>3, <1>4, UsesNothing

LEMMA UnwatchUses ==
  ASSUME Shapes, NEW d \in Devices, Unwatch(d)
  PROVE  \E k : Uses(d, k, {})
<1> DEFINE h == open[d]
           k == [h EXCEPT !.watched = FALSE]
<1>1. h \in Handles /\ open[d] # None
  BY DEF Unwatch, Shapes
<1>2. Undisturbed(d) /\ open' = [open EXCEPT ![d] = k] /\ Elsewhere
      /\ UNCHANGED <<gen, row, copy, processed, sent, left>>
  BY DEF Unwatch, Elsewhere, Falls, Undisturbed
<1>3. Grown(h, k, {}) /\ k.runs = h.runs
  BY <1>1, WatchedIs
<1> HIDE DEF k
<1>4. Talks(d, k, {})
  BY <1>1, <1>2, <1>3 DEF Talks
<1>5. k.runs \subseteq RunsOf(open[d])
  BY <1>1, <1>3 DEF RunsOf
<1>6. QED
  BY <1>2, <1>4, <1>5, UsesNothing

LEMMA QueueUses ==
  ASSUME Shapes, NEW c \in Cmds, Queue(c)
  PROVE  \E k, X : Uses(By[c], k, X)
<1> DEFINE d == By[c]
           h == Opened(d)
           k == Commit(h, "cmd", c)
           o == Op("cmd", c, IF h.gen = 2 THEN Live ELSE Fat)
<1>0. d \in Devices
  BY LineageAssumption
<1>1. h \in Handles /\ h.runs \subseteq RunsOf(open[d])
  BY <1>0, OpenedIs
<1>2. Opening(d) \subseteq raced' /\ OpenEffects(d) /\ open' = [open EXCEPT ![d] = k] /\ Elsewhere
      /\ sent' = sent \cup {c} /\ UNCHANGED <<processed, left>>
  BY DEF Queue, Elsewhere, Falls
<1>u. Undisturbed(d)
  BY <1>0, <1>2, OpeningIs
<1>3. Grown(h, k, {o}) /\ k.runs = h.runs /\ IsFiniteSet({o})
  BY <1>1, CommitIs
<1>4. o.item.kind = "cmd" /\ o.item.of = c /\ o.copy = IF h.gen = 2 THEN Live ELSE Fat
  <2> DEFINE n == IF h.gen = 2 THEN Live ELSE Fat
  <2>1. n \in Nat /\ c \in Cmds \cup {Old}
    BY DEF Live, Fat
  <2> HIDE DEF n
  <2>2. o = Op("cmd", c, n)
    BY DEF n
  <2>3. IsOp(o, "cmd", c, n)
    BY <2>1, <2>2, OpIs
  <2>4. QED
    BY <2>3 DEF n, IsOp
<1> HIDE DEF h, k, o, d
<1>5. Talks(d, k, {o}) \/ Builds(d, k, {o})
  BY <1>0, <1>2, <1>3, OpenSplit DEF h
<1>6. o.copy = Own(k)
  BY <1>3, <1>4 DEF Own, Grown
<1>7. Uses(d, k, {o})
  BY <1>1, <1>2, <1>u, <1>3, <1>4, <1>5, <1>6 DEF Uses, d
<1>8. QED
  BY <1>7 DEF d
\* A commit by the host into the handle in the map.
Commits(c, kind, R, k, o) ==
    /\ Talks(Host, k, {o}) /\ k.runs = R
    /\ o \in Ops /\ o.item.of = c /\ o.item.kind = kind /\ o.copy = Own(k)

LEMMA HostCommit ==
  ASSUME Shapes, open[Host] # None, NEW c \in Cmds, NEW kind \in {"msg", "reply"}, NEW R \in SUBSET Cmds,
         open' = [open EXCEPT ![Host] = [Commit(open[Host], kind, c) EXCEPT !.runs = R]],
         Elsewhere, UNCHANGED <<gen, row, copy>>
  PROVE  \E k, o : Commits(c, kind, R, k, o)
<1> DEFINE h == open[Host]
           m == Commit(h, kind, c)
           k == [m EXCEPT !.runs = R]
           n == IF h.gen = 2 THEN Live ELSE Fat
           o == Op(kind, c, n)
<1>1. h \in Handles
  BY LineageAssumption DEF Shapes
<1>2. Grown(h, m, {o})
  BY <1>1, CommitIs
<1>3. n \in Nat /\ c \in Cmds \cup {Old} /\ kind \in {"cmd", "msg", "reply"}
  BY DEF Live, Fat
<1>4. o \in Ops /\ o.item.kind = kind /\ o.item.of = c /\ o.copy = n
  <2>1. o = Op(kind, c, n)
    OBVIOUS
  <2> HIDE DEF n, o
  <2>2. IsOp(o, kind, c, n)
    BY <1>3, <2>1, OpIs
  <2>3. QED
    BY <2>2 DEF IsOp
<1>5. m \in Handles
  BY <1>2 DEF Grown
<1> HIDE DEF m, o
<1>6. Grown(h, k, {o}) /\ k.runs = R
  BY <1>2, <1>5, RunsIs
<1> HIDE DEF k
<1>7. n = Own(k)
  BY <1>6 DEF Own, Grown
<1>8. Talks(Host, k, {o})
  BY <1>6 DEF Talks, k, m
<1>9. QED
  BY <1>4, <1>6, <1>7, <1>8 DEF Commits

LEMMA DrainWorks ==
  ASSUME Shapes, NEW c \in Cmds, Drain(c)
  PROVE  \E k, o : Works(c, k, o)
<1> DEFINE R == open[Host].runs \cup {c}
<1>1. open[Host] \in Handles /\ open[Host] # None
  BY LineageAssumption DEF Drain, Shapes
<1>2. Grown(open[Host], Commit(open[Host], "msg", c), {Op("msg", c, IF open[Host].gen = 2 THEN Live ELSE Fat)})
      /\ Commit(open[Host], "msg", c).runs = open[Host].runs
  BY <1>1, CommitIs
<1>3. R \in SUBSET Cmds
  BY <1>1 DEF Handles
<1>4. open' = [open EXCEPT ![Host] = [Commit(open[Host], "msg", c) EXCEPT !.runs = R]]
  <2>1. open' = [open EXCEPT ![Host] =
                    [Commit(open[Host], "msg", c) EXCEPT !.runs = Commit(open[Host], "msg", c).runs \cup {c}]]
    BY DEF Drain
  <2>2. QED
    BY <1>2, <2>1
<1>5. /\ Undisturbed(Host) /\ c \notin processed /\ processed' = processed \cup {c}
      /\ Elsewhere /\ UNCHANGED <<gen, row, copy, sent, left>>
  BY DEF Drain, Elsewhere, Falls, Undisturbed
<1> HIDE DEF R
<1>6. PICK k, o : Commits(c, "msg", R, k, o)
  <2>1. "msg" \in {"msg", "reply"}
    OBVIOUS
  <2>2. QED
    BY <1>1, <1>3, <1>4, <1>5, <2>1, HostCommit
<1>7. Works(c, k, o)
  BY <1>5, <1>6 DEF Works, Commits, R
<1>8. QED
  BY <1>7

LEMMA ReplyWorks ==
  ASSUME Shapes, NEW c \in Cmds, Reply(c)
  PROVE  \E k, o : Works(c, k, o)
<1> DEFINE R == open[Host].runs \ {c}
<1>1. open[Host] \in Handles /\ open[Host] # None
  BY LineageAssumption DEF Reply, Shapes
<1>2. Commit(open[Host], "reply", c).runs = open[Host].runs
  BY <1>1, CommitIs
<1>3. R \in SUBSET Cmds
  BY <1>1 DEF Handles
<1>4. open' = [open EXCEPT ![Host] = [Commit(open[Host], "reply", c) EXCEPT !.runs = R]]
  <2>1. open' = [open EXCEPT ![Host] =
                    [Commit(open[Host], "reply", c) EXCEPT !.runs = Commit(open[Host], "reply", c).runs \ {c}]]
    BY DEF Reply
  <2>2. QED
    BY <1>2, <2>1
<1>5. /\ Undisturbed(Host) /\ c \in open[Host].runs /\ processed' = processed
      /\ Elsewhere /\ UNCHANGED <<gen, row, copy, sent, left>>
  BY DEF Reply, Elsewhere, Falls, Undisturbed
<1> HIDE DEF R
<1>6. PICK k, o : Commits(c, "reply", R, k, o)
  <2>1. "reply" \in {"msg", "reply"}
    OBVIOUS
  <2>2. QED
    BY <1>1, <1>3, <1>4, <1>5, <2>1, HostCommit
<1>7. Works(c, k, o)
  BY <1>5, <1>6 DEF Works, Commits, R
<1>8. QED
  BY <1>7

LEMMA SalvageRestores ==
  ASSUME Shapes, IsFiniteSet(AllOps), Salvage
  PROVE  \E k, X : Restores(k, X)
<1> DEFINE h == Opened(Host)
           all == Rebuilt(copy[Host].ops, Fresh)
           X == {o \in all : o.item.kind # "cmd"}
           k == [h EXCEPT !.ops = @ \cup X, !.dirty = TRUE, !.out = @ \cup X]
<1>0. Host \in Devices
  BY LineageAssumption
<1>1. h \in Handles /\ h.runs \subseteq RunsOf(open[Host])
  BY <1>0, OpenedIs
<1>a. Opening(Host) \subseteq raced' /\ ("salvage" \in raced' \/ h.joined)
  BY DEF Salvage, Falls, Into
<1>2. /\ Undisturbed(Host) /\ gen[Host] = 2 /\ OpenEffects(Host) /\ open' = [open EXCEPT ![Host] = k]
      /\ Elsewhere /\ UNCHANGED <<processed, sent, left>>
      /\ "salvage" \in raced' \/ h.joined
      /\ copy[Host] # None /\ Messages(h.ops) = {}
  BY <1>0, <1>a, OpeningIs DEF Salvage, Salvages, Elsewhere
<1>3. Fresh \in Nat /\ Fresh # Fat
  BY FreshIs
<1>4. copy[Host].ops \in Docs /\ OpsOf(copy[Host]) = copy[Host].ops
  BY <1>0, <1>2 DEF Shapes, Rows, OpsOf
<1>5. IsFiniteSet(copy[Host].ops)
  <2>1. copy[Host].ops \subseteq AllOps
    BY <1>0, <1>4 DEF AllOps, OpsAt
  <2>2. QED
    BY <2>1, FS_Subset
<1>6. /\ all \in Docs /\ ItemsOf(all) \subseteq ItemsOf(copy[Host].ops)
      /\ \A o \in all : o.copy = Fresh
      /\ \A o, p \in all : o.item = p.item => o = p
      /\ IsFiniteSet(all)
  BY <1>3, <1>4, <1>5, RebuiltIs
<1> HIDE DEF all
<1>7. /\ IsFiniteSet(X) /\ X \subseteq Ops
      /\ \A o \in X : o.item \in ItemsOf(OpsOf(copy[Host])) /\ o.item.kind # "cmd" /\ o.copy # Fat
      /\ \A o, p \in X : o.item = p.item => o = p
  <2>1. X \subseteq all
    OBVIOUS
  <2>2. IsFiniteSet(X)
    BY <1>6, <2>1, FS_Subset
  <2>3. X \subseteq Ops
    BY <1>6, <2>1 DEF Docs, Ops
  <2>4. \A o \in all : o.item \in ItemsOf(all)
    BY DEF ItemsOf
  <2>5. QED
    BY <1>3, <1>4, <1>6, <2>1, <2>2, <2>3, <2>4
<1> HIDE DEF X, h
<1>8. Grown(h, k, X) /\ k.runs = h.runs
  <2>1. h.ops \cup X \in Docs /\ h.out \cup X \in Docs
    BY <1>1, <1>7 DEF Handles, Docs, Ops
  <2>2. k \in Handles /\ k.dirty /\ k.gen = h.gen /\ k.retired = h.retired /\ k.joined = h.joined
        /\ k.runs = h.runs /\ k.ops = h.ops \cup X /\ k.out = h.out \cup X
    BY <1>1, <2>1 DEF Handles
  <2> HIDE DEF k
  <2>3. QED
    BY <1>7, <2>2 DEF Grown
<1> HIDE DEF k
<1>9. Talks(Host, k, X) \/ Builds(Host, k, X)
  BY <1>0, <1>a, <1>2, <1>8, OpenSplit DEF h
<1>10. ASSUME h.joined PROVE open[Host] # None /\ h = open[Host]
  <2>1. Talks(Host, k, X)
    BY <1>8, <1>9, <1>10 DEF Builds, Grown
  <2>2. open[Host] # None
    BY <2>1 DEF Talks
  <2>3. Serves(Host)
    <3>1. SUFFICES ASSUME ~Serves(Host) PROVE FALSE
      OBVIOUS
    <3>2. h = Built(Host)
      BY <3>1 DEF h, Opened
    <3>3. ~h.joined
      BY <3>2 DEF Built, Handle, Adopts
    <3>4. QED
      BY <1>10, <3>3
  <2>4. QED
    BY <2>2, <2>3 DEF h, Opened
<1>11. "salvage" \notin raced' => open[Host] # None /\ open[Host].joined /\ Messages(open[Host].ops) = {}
  BY <1>2, <1>10
<1>12. Restores(k, X)
  BY <1>1, <1>2, <1>7, <1>8, <1>9, <1>11 DEF Restores
<1>13. QED
  BY <1>12
Writes ==
    \/ \E d \in Devices : \E k, X : Uses(d, k, X)
    \/ \E c \in Cmds : \E k, o : Works(c, k, o)
    \/ \E k, X : Restores(k, X)

LEMMA NextCases ==
  ASSUME Shapes, IsFiniteSet(AllOps), Next
  PROVE  \/ Writes \/ Seed \/ PostFails
         \/ \E d \in Devices : Engine(d) \/ Evict(d) \/ Crash(d)
<1>1. ASSUME NEW d \in Devices, User(d) \/ Open(d) PROVE Writes
  BY <1>1, OpenUses, WatchUses, UnwatchUses DEF User, Writes
<1>2. ASSUME NEW c \in Cmds, Queue(c) PROVE Writes
  <2>1. By[c] \in Devices
    BY LineageAssumption
  <2>2. QED
    BY <1>2, <2>1, QueueUses DEF Writes
<1>3. ASSUME NEW c \in Cmds, Run(c) PROVE Writes
  BY <1>3, DrainWorks, ReplyWorks DEF Run, Writes
<1>4. ASSUME Salvage PROVE Writes
  BY <1>4, SalvageRestores DEF Writes
<1>5. QED
  BY <1>1, <1>2, <1>3, <1>4 DEF Next

-----------------------------------------------------------------------------
(* Types. *)

LEMMA ShapesInit == Init => Shapes
<1> SUFFICES ASSUME Init PROVE Shapes
  OBVIOUS
<1>1. History \in Docs /\ {} \in Docs
  <2>1. IsOp(Op("msg", Old, Fat), "msg", Old, Fat)
    BY OpIs DEF Fat
  <2>2. Op("msg", Old, Fat) \in Ops
    BY <2>1 DEF IsOp
  <2>3. QED
    BY <2>2 DEF History, Docs, Ops
<1>2. NewRow(History) \in Rows /\ [ops |-> {}, epoch |-> 2, met |-> FALSE] \in Rows
  BY <1>1 DEF NewRow, Rows
<1>3. /\ gen \in [Devices -> 1..2] /\ copy \in [Devices -> Rows \cup {None}]
      /\ open \in [Devices -> Handles \cup {None}] /\ flushing \in [Devices -> Handles \cup {None}]
      /\ processed \subseteq Cmds /\ sent \subseteq Cmds /\ crashed \subseteq Devices
      /\ left \in Budget
  BY <1>2, LineageAssumption DEF Init
<1>4. row \in [Devices -> Rows \cup {None}]
  BY <1>2 DEF Init
<1>5. seed \in Seeds /\ room \in [ckpt : Docs, rows : Docs]
  BY <1>1 DEF Init, Idle, Seeds
<1>6. stored \in [Devices -> SUBSET Items]
  <2>1. \A d \in Devices : OpsOf(row[d]) \in Docs
    BY <1>1, <1>4 DEF OpsOf, Rows
  <2>2. \A ops \in Docs : ItemsOf(ops) \subseteq Items
    BY DEF ItemsOf, Docs
  <2>3. stored = [d \in Devices |-> ItemsOf(OpsOf(row[d]))]
    BY DEF Init
  <2>4. QED
    BY <2>1, <2>2, <2>3
<1>7. QED
  BY <1>3, <1>4, <1>5, <1>6 DEF Shapes

LEMMA ShapesWrites ==
  ASSUME Shapes, Writes
  PROVE  Shapes'
<1>1. ASSUME NEW d \in Devices, NEW k, NEW X, Talks(d, k, X) \/ Builds(d, k, X)
      PROVE  /\ gen' \in [Devices -> 1..2]
             /\ row' \in [Devices -> Rows \cup {None}] /\ copy' \in [Devices -> Rows \cup {None}]
             /\ open' \in [Devices -> Handles \cup {None}] /\ Elsewhere
  <2>1. k \in Handles /\ open' = [open EXCEPT ![d] = k] /\ Elsewhere
    BY <1>1 DEF Talks, Builds, Grown
  <2>2. open' \in [Devices -> Handles \cup {None}]
    BY <2>1 DEF Shapes
  <2>3. CASE UNCHANGED <<gen, row, copy>>
    BY <2>1, <2>2, <2>3 DEF Shapes
  <2>4. CASE BuildsAdopted(d, k, X)
    <3>1. row[d] \in Rows
      BY <2>4 DEF BuildsAdopted, Shapes
    <3>2. Rollback(d, row[d].ops) \in Rows \cup {None}
      BY <3>1 DEF Rollback, NewRow, Rows, Shapes
    <3>3. QED
      BY <2>1, <2>2, <2>4, <3>2 DEF BuildsAdopted, Shapes
  <2>5. CASE BuildsBorn(d, k, X)
    <3>1. [ops |-> {}, epoch |-> 2, met |-> FALSE] \in Rows
      BY DEF Rows, Docs
    <3>2. QED
      BY <2>1, <2>2, <2>5, <3>1 DEF BuildsBorn, Shapes
  <2>6. CASE BuildsThin(d, k, X)
    BY <2>1, <2>2, <2>6 DEF BuildsThin, Shapes
  <2>7. QED
    BY <1>1, <2>3, <2>4, <2>5, <2>6 DEF Talks, Builds, BuildsOld
<1>2. ASSUME NEW d \in Devices, NEW k, NEW X, Uses(d, k, X) PROVE Shapes'
  <2>1. \A o \in X : o.item.of \in Cmds
    BY <1>2 DEF Uses
  <2>2. sent' \subseteq Cmds /\ processed' = processed /\ left' = left
    BY <1>2, <2>1 DEF Uses, Shapes
  <2>3. Talks(d, k, X) \/ Builds(d, k, X)
    BY <1>2 DEF Uses
  <2>4. QED
    BY <1>1, <2>2, <2>3 DEF Shapes, Elsewhere
<1>3. ASSUME NEW c \in Cmds, NEW k, NEW o, Works(c, k, o) PROVE Shapes'
  <2>1. Host \in Devices
    BY LineageAssumption
  <2>2. Talks(Host, k, {o}) /\ sent' = sent /\ left' = left /\ processed' \subseteq Cmds
    BY <1>3 DEF Works, Shapes
  <2>3. QED
    BY <1>1, <2>1, <2>2 DEF Shapes, Elsewhere
<1>4. ASSUME NEW k, NEW X, Restores(k, X) PROVE Shapes'
  <2>1. Host \in Devices
    BY LineageAssumption
  <2>2. (Talks(Host, k, X) \/ Builds(Host, k, X)) /\ sent' = sent /\ left' = left /\ processed' = processed
    BY <1>4 DEF Restores
  <2>3. QED
    BY <1>1, <2>1, <2>2 DEF Shapes, Elsewhere
<1>5. QED
  BY <1>2, <1>3, <1>4 DEF Writes
-----------------------------------------------------------------------------
(* The other actions, by what they do. *)

\* k is h but for what was saved, pushed or heard.
Like(h, k) ==
    /\ k \in Handles /\ k # None
    /\ k.gen = h.gen /\ k.retired = h.retired /\ k.runs = h.runs

\* A document is saved: r is the row that is stored.
Stores(d, h, r) ==
    /\ r \in Rows /\ r # None /\ r.ops = h.ops /\ (Turned(r) <=> ThinRow(d))
    /\ row' = [row EXCEPT ![d] = r]
    /\ stored' = [stored EXCEPT ![d] = @ \cup ItemsOf(h.ops)]
    /\ UNCHANGED <<gen, copy, seed, room, processed, sent, crashed, left>>

Saves(d, r, k) ==
    /\ Undisturbed(d) /\ open[d] # None /\ Stores(d, open[d], r)
    /\ Like(open[d], k) /\ k.ops = open[d].ops /\ k.out = open[d].out /\ k.joined = open[d].joined
    /\ open' = [open EXCEPT ![d] = k] /\ flushing' = flushing

Flushes(d, r) ==
    /\ flushing[d] # None /\ Stores(d, flushing[d], r)
    /\ flushing' = [flushing EXCEPT ![d] = None] /\ open' = open

Hears(d, k) ==
    /\ Undisturbed(d) /\ open[d] # None /\ open[d].gen = 2
    /\ Like(open[d], k) /\ k.ops = open[d].ops \cup Content /\ k.out = open[d].out
    /\ k.dirty = open[d].dirty /\ k.joined
    /\ open' = [open EXCEPT ![d] = k]
    /\ \/ /\ Content \subseteq open[d].ops /\ row' = row
          /\ stored' = [stored EXCEPT ![d] = @ \cup ItemsOf(row[d].ops)]
       \/ \E r \in Rows : /\ r # None /\ r.ops = k.ops /\ r.epoch = 2
                          /\ row' = [row EXCEPT ![d] = r]
                          /\ stored' = [stored EXCEPT ![d] = @ \cup ItemsOf(r.ops)]
    /\ UNCHANGED <<gen, copy, flushing, seed, room, processed, sent, crashed, left>>

Pushes(d, k) ==
    /\ Undisturbed(d) /\ open[d] # None /\ open[d].joined
    /\ Like(open[d], k) /\ k.ops = open[d].ops /\ k.out = {} /\ k.joined /\ k.dirty = open[d].dirty
    /\ open' = [open EXCEPT ![d] = k]
    /\ room' \in [ckpt : Docs, rows : Docs]
    /\ room'.ckpt = room.ckpt /\ room'.rows = room.rows \cup open[d].out
    /\ UNCHANGED <<gen, row, copy, flushing, seed, processed, sent, crashed, stored, left>>

LEMMA SaveSaves ==
  ASSUME Shapes, NEW d \in Devices, Save(d), ~open[d].retired
  PROVE  \E r, k : Saves(d, r, k)
<1> DEFINE h == open[d]
           r == StoredRow(d, h)
           k == [h EXCEPT !.dirty = FALSE]
<1>1. h \in Handles /\ h # None
  BY DEF Save, Shapes
<1>2. r \in Rows /\ r # None /\ r.ops = h.ops /\ (Turned(r) <=> ThinRow(d))
  BY <1>1, StoredRowIs
<1>3. k \in Handles
  BY <1>1 DEF Handles
<1>4. Like(h, k) /\ k.ops = h.ops /\ k.out = h.out /\ k.joined = h.joined
  BY <1>1, <1>3, LineageAssumption DEF Handles, Like
<1>5. /\ Undisturbed(d) /\ row' = [row EXCEPT ![d] = r] /\ open' = [open EXCEPT ![d] = k]
      /\ stored' = [stored EXCEPT ![d] = @ \cup ItemsOf(row'[d].ops)]
      /\ UNCHANGED <<gen, copy, flushing, seed, room, processed, sent, crashed, left>>
  BY DEF Save, Falls, Undisturbed
<1> HIDE DEF r, k
<1>6. row'[d] = r
  BY <1>5 DEF Shapes
<1>7. Saves(d, r, k)
  BY <1>1, <1>2, <1>4, <1>5, <1>6 DEF Saves, Stores
<1>8. QED
  BY <1>7

LEMMA FlushFlushes ==
  ASSUME Shapes, NEW d \in Devices, Flush(d), ~flushing[d].retired
  PROVE  \E r : Flushes(d, r)
<1> DEFINE h == flushing[d]
           r == StoredRow(d, h)
<1>1. h \in Handles /\ h # None
  BY DEF Flush, Shapes
<1>2. r \in Rows /\ r # None /\ r.ops = h.ops /\ (Turned(r) <=> ThinRow(d))
  BY <1>1, StoredRowIs
<1>3. /\ row' = [row EXCEPT ![d] = r] /\ flushing' = [flushing EXCEPT ![d] = None]
      /\ stored' = [stored EXCEPT ![d] = @ \cup ItemsOf(row'[d].ops)]
      /\ UNCHANGED <<gen, copy, open, seed, room, processed, sent, crashed, left>>
  BY DEF Flush
<1> HIDE DEF r
<1>4. row'[d] = r
  BY <1>3 DEF Shapes
<1>5. Flushes(d, r)
  BY <1>1, <1>2, <1>3, <1>4 DEF Flushes, Stores
<1>6. QED
  BY <1>5

LEMMA ContentIs ==
  ASSUME Shapes
  PROVE  Content \in Docs /\ Content \subseteq AllOps
BY DEF Shapes, Content, Docs, AllOps

LEMMA HearHears ==
  ASSUME Shapes, NEW d \in Devices, Hear(d)
  PROVE  \E k : Hears(d, k)
<1> DEFINE h == open[d]
           ops == h.ops \cup Content
           k == [h EXCEPT !.ops = ops, !.joined = TRUE]
           r == [ops |-> ops, epoch |-> 2, met |-> room.rows # {}]
           saves == room.rows # {} \/ ~(room.ckpt \subseteq h.ops)
<1>1. h \in Handles /\ h # None /\ h.gen = 2
  BY DEF Hear, Shapes
<1>2. ops \in Docs
  BY <1>1, ContentIs DEF Handles, Docs
<1>3. Like(h, k) /\ k.ops = ops /\ k.out = h.out /\ k.joined /\ k.dirty = h.dirty
  <2>1. k \in Handles
    BY <1>1, <1>2 DEF Handles
  <2>2. k.ops = ops /\ k.out = h.out /\ k.joined /\ k.gen = h.gen /\ k.retired = h.retired
        /\ k.runs = h.runs /\ k.dirty = h.dirty
    BY <1>1 DEF Handles
  <2> HIDE DEF k
  <2>3. QED
    BY <2>1, <2>2, LineageAssumption DEF Like
<1>4. r \in Rows /\ r.ops = ops /\ r.epoch = 2
  BY <1>2 DEF Rows
<1>5. /\ Undisturbed(d) /\ open' = [open EXCEPT ![d] = k]
      /\ row' = [row EXCEPT ![d] = IF saves THEN r ELSE @]
      /\ stored' = [stored EXCEPT ![d] = @ \cup ItemsOf(row'[d].ops)]
      /\ UNCHANGED <<gen, copy, flushing, seed, room, processed, sent, crashed, left>>
  BY DEF Hear, Falls, Undisturbed
<1>6. ~saves => Content \subseteq h.ops
  BY DEF Content
<1> HIDE DEF r, k, ops, saves
<1>7. CASE saves
  <2>1. row' = [row EXCEPT ![d] = r] /\ row'[d] = r
    BY <1>5, <1>7 DEF Shapes
  <2>2. stored' = [stored EXCEPT ![d] = @ \cup ItemsOf(r.ops)]
    BY <1>5, <2>1
  <2>3. Hears(d, k)
    BY <1>1, <1>3, <1>4, <1>5, <2>1, <2>2, LineageAssumption DEF Hears, ops
  <2>4. QED
    BY <2>3
<1>8. CASE ~saves
  <2>1. row' = row
    BY <1>5, <1>8 DEF Shapes
  <2>2. stored' = [stored EXCEPT ![d] = @ \cup ItemsOf(row[d].ops)]
    BY <1>5, <2>1
  <2>3. Hears(d, k)
    BY <1>1, <1>3, <1>5, <1>6, <1>8, <2>1, <2>2 DEF Hears, ops
  <2>4. QED
    BY <2>3
<1>9. QED
  BY <1>7, <1>8

LEMMA PushPushes ==
  ASSUME Shapes, NEW d \in Devices, Push(d)
  PROVE  \E k : Pushes(d, k)
<1> DEFINE h == open[d]
           k == [h EXCEPT !.out = {}]
<1>1. h \in Handles /\ h # None /\ h.joined
  BY DEF Push, Shapes
<1>2. Like(h, k) /\ k.ops = h.ops /\ k.out = {} /\ k.joined /\ k.dirty = h.dirty
  <2>1. k \in Handles
    BY <1>1 DEF Handles, Docs
  <2>2. k.ops = h.ops /\ k.out = {} /\ k.joined = h.joined /\ k.gen = h.gen /\ k.retired = h.retired
        /\ k.runs = h.runs /\ k.dirty = h.dirty
    BY <1>1 DEF Handles
  <2> HIDE DEF k
  <2>3. QED
    BY <1>1, <2>1, <2>2, LineageAssumption DEF Like
<1>3. /\ Undisturbed(d) /\ room' = [room EXCEPT !.rows = @ \cup h.out] /\ open' = [open EXCEPT ![d] = k]
      /\ UNCHANGED <<gen, row, copy, flushing, seed, processed, sent, crashed, stored, left>>
  BY DEF Push, Falls, Undisturbed
<1>4. room \in [ckpt : Docs, rows : Docs] /\ room.rows \cup h.out \in Docs
  BY <1>1 DEF Shapes, Handles, Docs
<1>5. room' \in [ckpt : Docs, rows : Docs] /\ room'.ckpt = room.ckpt /\ room'.rows = room.rows \cup h.out
  BY <1>3, <1>4
<1> HIDE DEF k
<1>6. Pushes(d, k)
  BY <1>1, <1>2, <1>3, <1>5 DEF Pushes
<1>7. QED
  BY <1>6

Rebuilds ==
    /\ Undisturbed(Host) /\ seed.at = "waiting" /\ seed' \in Seeds
    /\ \/ seed' = Idle
       \/ /\ open[Host] # None /\ open[Host].gen = 1
          /\ seed'.at = "posting" /\ seed'.seen = open[Host].ops
          /\ \E n \in Nat : n # Fat /\ seed'.thin = Rebuilt(open[Host].ops, n)
    /\ UNCHANGED <<gen, row, copy, open, flushing, room, processed, sent, crashed, stored, left>>

LEMMA IdleIs == Idle \in Seeds /\ Idle.at = "idle" /\ Idle.thin = {} /\ Idle.seen = {}
BY DEF Idle, Seeds, Docs

LEMMA RebuildRebuilds ==
  ASSUME Shapes, IsFiniteSet(AllOps), Rebuild
  PROVE  Rebuilds
<1>1. /\ Undisturbed(Host) /\ seed.at = "waiting"
      /\ UNCHANGED <<gen, row, copy, open, flushing, room, processed, sent, crashed, stored, left>>
  BY DEF Rebuild, device, Falls, Undisturbed
<1>2. CASE open[Host] = None \/ open[Host].gen = 2 \/ open[Host].retired
  BY <1>1, <1>2, IdleIs DEF Rebuild, Rebuilds
<1>3. CASE ~(open[Host] = None \/ open[Host].gen = 2 \/ open[Host].retired)
  <2> DEFINE thin == Rebuilt(open[Host].ops, Fresh)
             s == [at |-> "posting", thin |-> thin, seen |-> open[Host].ops]
  <2>1. seed' = s
    BY <1>3 DEF Rebuild
  <2>2. open[Host] \in Handles /\ open[Host].gen = 1 /\ open[Host].ops \in Docs
    BY <1>3, LineageAssumption DEF Shapes, Handles
  <2>3. Fresh \in Nat /\ Fresh # Fat
    BY FreshIs
  <2>4. thin \in Docs
    BY <2>2, <2>3, RebuiltIs
  <2> HIDE DEF thin
  <2>5. s \in Seeds /\ s.at = "posting" /\ s.seen = open[Host].ops /\ s.thin = thin
    BY <2>2, <2>4 DEF Seeds
  <2> HIDE DEF s
  <2>6. QED
    BY <1>1, <1>3, <2>1, <2>2, <2>3, <2>5 DEF Rebuilds, thin
<1>4. QED
  BY <1>2, <1>3

Moves ==
    \/ Writes
    \/ \E d \in Devices : \E r, k : Saves(d, r, k)
    \/ \E d \in Devices : \E r : Flushes(d, r)
    \/ \E d \in Devices : \E k : Hears(d, k)
    \/ \E d \in Devices : \E k : Pushes(d, k)
    \/ \E d \in Devices : Learn(d) \/ Cutover(d) \/ Evict(d) \/ Crash(d)
    \/ Arm \/ Rebuilds \/ Post \/ PostFails \/ Check \/ SaveThin \/ Flip \/ Retire



LEMMA NextMoves ==
  ASSUME Shapes, IsFiniteSet(AllOps), Phases, Next
  PROVE  Moves
<1>1. ASSUME NEW d \in Devices, Save(d) PROVE Moves
  <2>1. ~open[d].retired
    BY <1>1 DEF Phases, Placed, Fits, Save
  <2>2. QED
    BY <1>1, <2>1, SaveSaves DEF Moves
<1>2. ASSUME NEW d \in Devices, Flush(d) PROVE Moves
  <2>1. ~flushing[d].retired
    BY <1>2 DEF Phases, Placed, Fits, Flush
  <2>2. QED
    BY <1>2, <2>1, FlushFlushes DEF Moves
<1>3. ASSUME NEW d \in Devices, Hear(d) PROVE Moves
  BY <1>3, HearHears DEF Moves
<1>4. ASSUME NEW d \in Devices, Push(d) PROVE Moves
  BY <1>4, PushPushes DEF Moves
<1>5. ASSUME NEW d \in Devices, Learn(d) \/ Cutover(d) \/ Evict(d) \/ Crash(d) PROVE Moves
  BY <1>5 DEF Moves
<1>6. ASSUME Seed PROVE Moves
  BY <1>6, RebuildRebuilds DEF Seed, Moves
<1>7. ASSUME PostFails \/ Writes PROVE Moves
  BY <1>7 DEF Moves
<1>8. QED
  BY <1>1, <1>2, <1>3, <1>4, <1>5, <1>6, <1>7, NextCases DEF Engine

LEMMA ShapesMoves ==
  ASSUME Shapes, Phases, Moves
  PROVE  Shapes'
<1>0. Host \in Devices
  BY LineageAssumption
<1>1. \A ops \in Docs : ItemsOf(ops) \subseteq Items
  BY DEF ItemsOf, Docs
<1>2. ASSUME NEW d \in Devices, NEW h, NEW r, Stores(d, h, r)
      PROVE  /\ row' \in [Devices -> Rows \cup {None}] /\ stored' \in [Devices -> SUBSET Items]
  <2>1. ItemsOf(h.ops) \subseteq Items
    BY <1>1, <1>2 DEF Stores, Rows
  <2>2. QED
    BY <1>2, <2>1 DEF Stores, Shapes
<1>3. ASSUME NEW d \in Devices, NEW r, NEW k, Saves(d, r, k) PROVE Shapes'
  BY <1>2, <1>3 DEF Saves, Stores, Like, Shapes
<1>4. ASSUME NEW d \in Devices, NEW r, Flushes(d, r) PROVE Shapes'
  BY <1>2, <1>4 DEF Flushes, Stores, Shapes
<1>5. ASSUME NEW d \in Devices, NEW k, Hears(d, k) PROVE Shapes'
  <2>1. row[d] \in Rows
    BY <1>5 DEF Hears, Phases, Placed, Fits, Shapes
  <2>2. \A r \in Rows : ItemsOf(r.ops) \subseteq Items
    BY <1>1 DEF Rows
  <2>3. row' \in [Devices -> Rows \cup {None}] /\ stored' \in [Devices -> SUBSET Items]
    <3>1. CASE row' = row /\ stored' = [stored EXCEPT ![d] = @ \cup ItemsOf(row[d].ops)]
      BY <2>1, <2>2, <3>1 DEF Shapes
    <3>2. CASE \E r \in Rows : /\ row' = [row EXCEPT ![d] = r]
                               /\ stored' = [stored EXCEPT ![d] = @ \cup ItemsOf(r.ops)]
      BY <2>2, <3>2 DEF Shapes
    <3>3. QED
      BY <1>5, <3>1, <3>2 DEF Hears
  <2>4. QED
    BY <1>5, <2>3 DEF Hears, Like, Shapes
<1>6. ASSUME NEW d \in Devices, NEW k, Pushes(d, k) PROVE Shapes'
  BY <1>6 DEF Pushes, Like, Shapes
<1>7. ASSUME NEW d \in Devices, Learn(d) PROVE Shapes'
  BY <1>7 DEF Learn, Shapes
<1>8. ASSUME NEW d \in Devices, Cutover(d) PROVE Shapes'
  BY <1>8 DEF Cutover, Shapes
<1>9. ASSUME NEW d \in Devices, Evict(d) PROVE Shapes'
  <2>1. left' \in Budget
    BY <1>9 DEF Evict, Shapes, Budget
  <2>2. QED
    BY <1>9, <2>1 DEF Evict, Shapes
<1>10. ASSUME NEW d \in Devices, Crash(d) PROVE Shapes'
  <2>1. left' \in Budget
    BY <1>10 DEF Crash, Shapes, Budget
  <2>2. QED
    BY <1>10, <2>1, IdleIs DEF Crash, Shapes
<1>11. ASSUME Arm \/ Check PROVE Shapes'
  <2>1. seed' \in Seeds
    BY <1>11, IdleIs DEF Arm, Check, Shapes, Seeds
  <2>2. QED
    BY <1>11, <2>1 DEF Arm, Check, Shapes, device
<1>12. ASSUME Rebuilds PROVE Shapes'
  BY <1>12 DEF Rebuilds, Shapes
<1>13. ASSUME Post PROVE Shapes'
  <2>1. seed' \in Seeds /\ room' \in [ckpt : Docs, rows : Docs]
    BY <1>13 DEF Post, Shapes, Seeds
  <2>2. QED
    BY <1>13, <2>1 DEF Post, Shapes, device
<1>14. ASSUME PostFails PROVE Shapes'
  <2>1. left' \in Budget
    BY <1>14 DEF PostFails, Shapes, Budget
  <2>2. QED
    BY <1>14, <2>1, IdleIs DEF PostFails, Shapes, device
<1>15. ASSUME SaveThin PROVE Shapes'
  <2>1. seed.thin \in Docs
    BY DEF Shapes, Seeds
  <2>2. [ops |-> seed.thin, epoch |-> 2, met |-> FALSE] \in Rows
    BY <2>1 DEF Rows
  <2>3. row[Host] # None => Rollback(Host, row[Host].ops) \in Rows \cup {None}
    BY <1>0 DEF Rollback, NewRow, Rows, Shapes
  <2>4. seed' \in Seeds
    BY <1>15 DEF SaveThin, Shapes, Seeds
  <2>5. row' \in [Devices -> Rows \cup {None}] /\ copy' \in [Devices -> Rows \cup {None}]
    BY <1>15, <2>2, <2>3 DEF SaveThin, Shapes
  <2>6. stored' \in [Devices -> SUBSET Items]
    BY <1>1, <1>15, <2>1 DEF SaveThin, Shapes
  <2>7. QED
    BY <1>15, <2>4, <2>5, <2>6 DEF SaveThin, Shapes
<1>16. ASSUME Flip PROVE Shapes'
  <2>1. seed' \in Seeds
    BY <1>16 DEF Flip, Shapes, Seeds
  <2>2. gen' \in [Devices -> 1..2]
    <3>1. gen' = [gen EXCEPT ![Host] = 2] /\ gen \in [Devices -> 1..2]
      BY <1>16 DEF Flip, Shapes
    <3>2. QED
      BY <1>0, <3>1
  <2>3. QED
    BY <1>16, <2>1, <2>2 DEF Flip, Shapes
<1>17. ASSUME Retire PROVE Shapes'
  <2>1. open[Host] # None => [open[Host] EXCEPT !.retired = TRUE] \in Handles
    BY <1>0 DEF Shapes, Handles
  <2>2. open' \in [Devices -> Handles \cup {None}]
    BY <1>17, <2>1 DEF Retire, Shapes
  <2>3. QED
    BY <1>17, <2>2, IdleIs DEF Retire, Shapes
<1>18. QED
  BY <1>3, <1>4, <1>5, <1>6, <1>7, <1>8, <1>9, <1>10, <1>11, <1>12, <1>13, <1>14, <1>15, <1>16, <1>17,
     ShapesWrites DEF Moves
-----------------------------------------------------------------------------
(* What there is: finitely many operations, messages of executed commands.  *)

LEMMA AllOpsHas ==
  /\ Content \subseteq AllOps /\ seed.thin \subseteq AllOps
  /\ \A d \in Devices : /\ OpsOf(row[d]) \subseteq AllOps /\ OpsOf(copy[d]) \subseteq AllOps
                        /\ OpsOf(open[d]) \subseteq AllOps /\ OpsOf(flushing[d]) \subseteq AllOps
BY DEF AllOps, OpsAt

LEMMA AllOpsIn ==
  ASSUME NEW S, Content' \subseteq S, seed'.thin \subseteq S,
         \A d \in Devices : /\ OpsOf(row'[d]) \subseteq S /\ OpsOf(copy'[d]) \subseteq S
                            /\ OpsOf(open'[d]) \subseteq S /\ OpsOf(flushing'[d]) \subseteq S
  PROVE  AllOps' \subseteq S
BY DEF AllOps, OpsAt, OpsOf, Content

LEMMA OpsOfIs ==
  /\ \A x : x # None => OpsOf(x) = x.ops
  /\ OpsOf(None) = {}
BY DEF OpsOf

LEMMA HostIs == Host \in Devices
BY LineageAssumption

\* A step that says nothing new.
LEMMA GroundedBy ==
  ASSUME Grounded, NEW X, IsFiniteSet(X), AllOps' \subseteq AllOps \cup X,
         \A o \in X : o.item.kind = "cmd" \/ o.item \in ItemsOf(AllOps),
         Busy' \subseteq Busy, processed' = processed
  PROVE  Grounded'
<1>1. IsFiniteSet(AllOps')
  <2>1. IsFiniteSet(AllOps \cup X)
    BY FS_Union DEF Grounded
  <2>2. QED
    BY <2>1, FS_Subset
<1>2. Busy' \subseteq processed'
  BY DEF Grounded
<1>3. Told(AllOps', processed', Busy')
  <2>1. SUFFICES ASSUME NEW o \in AllOps', o.item.kind # "cmd", o.item.of # Old
                 PROVE  o.item.of \in processed /\ (o.item.kind = "reply" => o.item.of \notin Busy')
    BY DEF Told
  <2>2. PICK p \in AllOps : p.item = o.item
    BY <2>1 DEF ItemsOf
  <2>3. QED
    BY <2>1, <2>2 DEF Grounded, Told
<1>4. QED
  BY <1>1, <1>2, <1>3 DEF Grounded

LEMMA WritesOps ==
  ASSUME Shapes, IsFiniteSet(AllOps), NEW d \in Devices, NEW k, NEW X, IsFiniteSet(X),
         Talks(d, k, X) \/ Builds(d, k, X)
  PROVE  \E R : /\ IsFiniteSet(R) /\ \A o \in R : o.item.kind = "cmd"
                /\ AllOps' \subseteq AllOps \cup (X \cup R)
<1>1. Content' = Content /\ seed' = seed /\ flushing' = flushing
  BY DEF Talks, Builds, Elsewhere, Content
<1>2. ASSUME Talks(d, k, X) PROVE AllOps' \subseteq AllOps \cup (X \cup {})
  <2>1. row' = row /\ copy' = copy /\ k # None /\ k.ops \subseteq open[d].ops \cup X
        /\ open' = [open EXCEPT ![d] = k] /\ open[d] # None
    BY <1>2, LineageAssumption DEF Talks, Grown
  <2>2. OpsOf(k) \subseteq OpsOf(open[d]) \cup X
    BY <2>1, OpsOfIs
  <2>3. \A e \in Devices : OpsOf(open'[e]) \subseteq AllOps \cup X
    BY <2>1, <2>2, AllOpsHas DEF Shapes
  <2>4. QED
    BY <1>1, <2>1, <2>3, AllOpsHas, AllOpsIn
<1>3. ASSUME Builds(d, k, X), row[d] # None
      PROVE  \E R : /\ IsFiniteSet(R) /\ \A o \in R : o.item.kind = "cmd"
                    /\ AllOps' \subseteq AllOps \cup (X \cup R)
  <2> DEFINE R == Requeued(d, row[d].ops)
  <2>1. row[d].ops \in Docs /\ OpsOf(row[d]) = row[d].ops /\ row[d].ops \subseteq AllOps
    BY <1>3, OpsOfIs, AllOpsHas DEF Shapes, Rows
  <2>2. IsFiniteSet(row[d].ops)
    BY <2>1, FS_Subset
  <2>3. IsFiniteSet(R) /\ \A o \in R : o.item.kind = "cmd"
    BY <2>1, <2>2, RequeuedIs
  <2> HIDE DEF R
  <2>4. k # None /\ k.ops \subseteq row[d].ops \cup X \cup R /\ open' = [open EXCEPT ![d] = k]
    BY <1>3, <2>1, LineageAssumption DEF Builds, BuildsOld, BuildsAdopted, BuildsBorn, BuildsThin, R
  <2>5. OpsOf(k) \subseteq AllOps \cup (X \cup R)
    BY <2>1, <2>4, OpsOfIs
  <2>6. \A e \in Devices : OpsOf(open'[e]) \subseteq AllOps \cup (X \cup R)
    BY <2>4, <2>5, AllOpsHas DEF Shapes
  <2>7. OpsOf(Rollback(d, row[d].ops)) \subseteq AllOps
    <3>1. NewRow(row[d].ops) # None /\ NewRow(row[d].ops).ops = row[d].ops
      <4>1. NewRow(row[d].ops) \in Rows
        BY <2>1 DEF NewRow, Rows
      <4>2. QED
        BY <4>1, LineageAssumption DEF NewRow
    <3>2. QED
      BY <2>1, <3>1, OpsOfIs, AllOpsHas DEF Rollback
  <2>8. row' = row /\ \A e \in Devices : OpsOf(copy'[e]) \subseteq AllOps
    <3>1. row' = row /\ (copy' = copy \/ copy' = [copy EXCEPT ![d] = Rollback(d, row[d].ops)])
      BY <1>3 DEF Builds, BuildsOld, BuildsAdopted, BuildsBorn, BuildsThin
    <3>2. QED
      BY <2>7, <3>1, AllOpsHas DEF Shapes
  <2>9. AllOps' \subseteq AllOps \cup (X \cup R)
    BY <1>1, <2>6, <2>8, AllOpsHas, AllOpsIn
  <2>10. QED
    BY <2>3, <2>9
<1>4. ASSUME Builds(d, k, X), row[d] = None PROVE AllOps' \subseteq AllOps \cup (X \cup {})
  <2>1. copy' = copy /\ k # None /\ k.ops \subseteq X /\ open' = [open EXCEPT ![d] = k]
    BY <1>4, OpsOfIs, LineageAssumption
       DEF Builds, BuildsOld, BuildsAdopted, BuildsBorn, BuildsThin, ThinRow, Turned
  <2>2. OpsOf(k) \subseteq X
    BY <2>1, OpsOfIs
  <2>3. \A e \in Devices : OpsOf(open'[e]) \subseteq AllOps \cup X
    BY <2>1, <2>2, AllOpsHas DEF Shapes
  <2>4. \A e \in Devices : OpsOf(row'[e]) \subseteq AllOps
    <3> DEFINE r == [ops |-> {}, epoch |-> 2, met |-> FALSE]
    <3>1. OpsOf(r) = {}
      BY DEF OpsOf
    <3>2. row' = row \/ row' = [row EXCEPT ![d] = r]
      BY <1>4 DEF Builds, BuildsOld, BuildsAdopted, BuildsBorn, BuildsThin
    <3> HIDE DEF r
    <3>3. QED
      BY <3>1, <3>2, AllOpsHas DEF Shapes
  <2>5. QED
    BY <1>1, <2>1, <2>3, <2>4, AllOpsHas, AllOpsIn
<1>5. QED
  BY <1>2, <1>3, <1>4, FS_EmptySet

LEMMA GroundedWrites ==
  ASSUME Shapes, Grounded, Writes
  PROVE  Grounded'
<1>0. IsFiniteSet(AllOps) /\ Busy \subseteq processed /\ Told(AllOps, processed, Busy)
  BY DEF Grounded
<1>1. ASSUME NEW d \in Devices, NEW k, NEW X, IsFiniteSet(X), Talks(d, k, X) \/ Builds(d, k, X),
             \A o \in X : o.item.kind = "cmd" \/ o.item \in ItemsOf(AllOps),
             k.runs \subseteq RunsOf(open[d]), processed' = processed
      PROVE  Grounded'
  <2>1. PICK R : /\ IsFiniteSet(R) /\ \A o \in R : o.item.kind = "cmd"
                 /\ AllOps' \subseteq AllOps \cup (X \cup R)
    BY <1>0, <1>1, WritesOps
  <2>2. IsFiniteSet(X \cup R)
    BY <1>1, <2>1, FS_Union
  <2>3. Busy' \subseteq Busy
    <3>1. k # None /\ open' = [open EXCEPT ![d] = k]
      BY <1>1, LineageAssumption DEF Talks, Builds, Grown
    <3>2. RunsOf(k) = k.runs
      BY <3>1 DEF RunsOf
    <3>3. RunsOf(open'[Host]) \subseteq RunsOf(open[Host])
      BY <1>1, <3>1, <3>2, HostIs DEF Shapes
    <3>4. QED
      BY <3>3 DEF Busy
  <2>4. \A o \in X \cup R : o.item.kind = "cmd" \/ o.item \in ItemsOf(AllOps)
    BY <1>1, <2>1
  <2>5. QED
    BY <1>1, <2>1, <2>2, <2>3, <2>4, GroundedBy
<1>2. ASSUME NEW d \in Devices, NEW k, NEW X, Uses(d, k, X) PROVE Grounded'
  <2>1. IsFiniteSet(X) /\ (Talks(d, k, X) \/ Builds(d, k, X))
    BY <1>2 DEF Uses
  <2>2. \A o \in X : o.item.kind = "cmd" \/ o.item \in ItemsOf(AllOps)
    BY <1>2 DEF Uses
  <2>3. k.runs \subseteq RunsOf(open[d]) /\ processed' = processed
    BY <1>2 DEF Uses
  <2>4. QED
    BY <1>1, <2>1, <2>2, <2>3
<1>3. ASSUME NEW k, NEW X, Restores(k, X) PROVE Grounded'
  <2>1. \A o \in X : o.item \in ItemsOf(AllOps)
    <3>1. ItemsOf(OpsOf(copy[Host])) \subseteq ItemsOf(AllOps)
      BY HostIs, AllOpsHas, ItemsUnion
    <3>2. QED
      BY <1>3, <3>1 DEF Restores
  <2>2. IsFiniteSet(X) /\ (Talks(Host, k, X) \/ Builds(Host, k, X))
        /\ k.runs \subseteq RunsOf(open[Host]) /\ processed' = processed
    BY <1>3 DEF Restores
  <2>3. QED
    BY <1>1, <2>1, <2>2, HostIs
<1>4. ASSUME NEW c \in Cmds, NEW k, NEW o, Works(c, k, o) PROVE Grounded'
  <2>1. Talks(Host, k, {o}) /\ o.item.of = c
    BY <1>4 DEF Works
  <2>2. IsFiniteSet({o})
    BY FS_Singleton
  <2>3. PICK R : /\ IsFiniteSet(R) /\ \A p \in R : p.item.kind = "cmd"
                 /\ AllOps' \subseteq AllOps \cup ({o} \cup R)
    BY <1>0, <2>1, <2>2, HostIs, WritesOps
  <2>4. IsFiniteSet(AllOps')
    <3>1. IsFiniteSet(AllOps \cup ({o} \cup R))
      BY <1>0, <2>2, <2>3, FS_Union
    <3>2. QED
      BY <2>3, <3>1, FS_Subset
  <2>5. Busy' = k.runs
    <3>1. k # None /\ open' = [open EXCEPT ![Host] = k]
      BY <2>1, LineageAssumption DEF Talks, Grown
    <3>2. open'[Host] = k
      BY <3>1, HostIs DEF Shapes
    <3>3. QED
      BY <3>1, <3>2 DEF Busy, RunsOf
  <2>6. Busy = open[Host].runs
    BY <2>1 DEF Busy, RunsOf, Talks
  <2>7. CASE o.item.kind = "msg" /\ c \notin processed /\ processed' = processed \cup {c}
             /\ k.runs = open[Host].runs \cup {c}
    <3>1. Told(AllOps', processed', Busy')
      BY <1>0, <2>1, <2>3, <2>5, <2>6, <2>7 DEF Told
    <3>2. QED
      BY <1>0, <2>4, <2>5, <2>6, <2>7, <3>1 DEF Grounded
  <2>8. CASE o.item.kind = "reply" /\ c \in open[Host].runs /\ processed' = processed
             /\ k.runs = open[Host].runs \ {c}
    <3>1. Told(AllOps', processed', Busy')
      BY <1>0, <2>1, <2>3, <2>5, <2>6, <2>8 DEF Told
    <3>2. QED
      BY <1>0, <2>4, <2>5, <2>6, <2>8, <3>1 DEF Grounded
  <2>9. QED
    BY <1>4, <2>7, <2>8 DEF Works
<1>5. QED
  BY <1>2, <1>3, <1>4 DEF Writes

LEMMA GroundedMoves ==
  ASSUME Shapes, Phases, Grounded, Moves
  PROVE  Grounded'
<1>0. IsFiniteSet(AllOps) /\ Busy \subseteq processed /\ Told(AllOps, processed, Busy)
  BY DEF Grounded
<1>1. ASSUME AllOps' \subseteq AllOps, Busy' \subseteq Busy, processed' = processed PROVE Grounded'
  BY <1>0, <1>1, FS_EmptySet, GroundedBy
<1>2. ASSUME NEW d \in Devices, NEW h, NEW r, Stores(d, h, r), OpsOf(h) \subseteq AllOps, h # None
      PROVE  /\ \A e \in Devices : OpsOf(row'[e]) \subseteq AllOps /\ OpsOf(copy'[e]) \subseteq AllOps
             /\ Content' = Content /\ seed' = seed
  <2>1. OpsOf(r) \subseteq AllOps
    BY <1>2, OpsOfIs DEF Stores
  <2>2. QED
    BY <1>2, <2>1, AllOpsHas DEF Stores, Shapes, Content
<1>3. ASSUME NEW d \in Devices, NEW k, k # None, open[d] # None, OpsOf(k) \subseteq AllOps,
             k.runs = open[d].runs, open' = [open EXCEPT ![d] = k]
      PROVE  (\A e \in Devices : OpsOf(open'[e]) \subseteq AllOps) /\ Busy' = Busy
  <2>1. \A e \in Devices : OpsOf(open'[e]) \subseteq AllOps
    BY <1>3, AllOpsHas DEF Shapes
  <2>2. RunsOf(k) = RunsOf(open[d])
    BY <1>3 DEF RunsOf
  <2>3. RunsOf(open'[Host]) = RunsOf(open[Host])
    BY <1>3, <2>2, HostIs DEF Shapes
  <2>4. QED
    BY <2>1, <2>3 DEF Busy
<1>4. ASSUME NEW d \in Devices, open' = [open EXCEPT ![d] = None]
      PROVE  (\A e \in Devices : OpsOf(open'[e]) \subseteq AllOps) /\ Busy' \subseteq Busy
  <2>1. \A e \in Devices : OpsOf(open'[e]) \subseteq AllOps
    BY <1>4, AllOpsHas, OpsOfIs DEF Shapes
  <2>2. RunsOf(None) = {}
    BY DEF RunsOf
  <2>3. RunsOf(open'[Host]) \subseteq RunsOf(open[Host])
    BY <1>4, <2>2, HostIs DEF Shapes
  <2>4. QED
    BY <2>1, <2>3 DEF Busy
<1>5. ASSUME NEW d \in Devices, NEW r, NEW k, Saves(d, r, k) PROVE Grounded'
  <2>1. OpsOf(open[d]) \subseteq AllOps /\ open[d] # None /\ Stores(d, open[d], r)
    BY <1>5, AllOpsHas DEF Saves
  <2>2. k # None /\ OpsOf(k) = OpsOf(open[d]) /\ k.runs = open[d].runs
    BY <1>5, OpsOfIs DEF Saves, Like
  <2>3. (\A e \in Devices : OpsOf(open'[e]) \subseteq AllOps) /\ Busy' = Busy
    BY <1>3, <1>5, <2>1, <2>2 DEF Saves
  <2>4. AllOps' \subseteq AllOps
    BY <1>2, <1>5, <2>1, <2>3, AllOpsHas, AllOpsIn DEF Saves
  <2>5. QED
    BY <1>1, <1>5, <2>3, <2>4 DEF Saves, Stores
<1>6. ASSUME NEW d \in Devices, NEW r, Flushes(d, r) PROVE Grounded'
  <2>1. OpsOf(flushing[d]) \subseteq AllOps /\ flushing[d] # None /\ Stores(d, flushing[d], r)
    BY <1>6, AllOpsHas DEF Flushes
  <2>2. \A e \in Devices : OpsOf(flushing'[e]) \subseteq AllOps
    BY <1>6, AllOpsHas, OpsOfIs DEF Flushes, Shapes
  <2>3. AllOps' \subseteq AllOps
    BY <1>2, <1>6, <2>1, <2>2, AllOpsHas, AllOpsIn DEF Flushes
  <2>4. QED
    BY <1>1, <1>6, <2>3 DEF Flushes, Stores, Busy
<1>7. ASSUME NEW d \in Devices, NEW k, Hears(d, k) PROVE Grounded'
  <2>1. k # None /\ k.ops = open[d].ops \cup Content /\ k.runs = open[d].runs /\ open[d] # None
        /\ open' = [open EXCEPT ![d] = k]
    BY <1>7 DEF Hears, Like
  <2>2. OpsOf(k) \subseteq AllOps
    BY <2>1, OpsOfIs, AllOpsHas
  <2>3. (\A e \in Devices : OpsOf(open'[e]) \subseteq AllOps) /\ Busy' = Busy
    BY <1>3, <2>1, <2>2
  <2>4. \A e \in Devices : OpsOf(row'[e]) \subseteq AllOps
    <3>1. CASE row' = row
      BY <3>1, AllOpsHas
    <3>2. ASSUME NEW r, r # None, r.ops = k.ops, row' = [row EXCEPT ![d] = r]
          PROVE  \A e \in Devices : OpsOf(row'[e]) \subseteq AllOps
      <4>1. OpsOf(r) \subseteq AllOps
        BY <2>1, <2>2, <3>2, OpsOfIs
      <4>2. QED
        BY <3>2, <4>1, AllOpsHas DEF Shapes
    <3>3. QED
      BY <1>7, <3>1, <3>2 DEF Hears
  <2>5. Content' = Content /\ seed' = seed /\ copy' = copy /\ flushing' = flushing /\ processed' = processed
    BY <1>7 DEF Hears, Content
  <2>6. AllOps' \subseteq AllOps
    BY <2>3, <2>4, <2>5, AllOpsHas, AllOpsIn
  <2>7. QED
    BY <1>1, <2>3, <2>5, <2>6
<1>8. ASSUME NEW d \in Devices, NEW k, Pushes(d, k) PROVE Grounded'
  <2>1. k # None /\ k.ops = open[d].ops /\ k.runs = open[d].runs /\ open[d] # None
        /\ open' = [open EXCEPT ![d] = k]
    BY <1>8 DEF Pushes, Like
  <2>2. OpsOf(k) \subseteq AllOps
    BY <2>1, OpsOfIs, AllOpsHas
  <2>3. (\A e \in Devices : OpsOf(open'[e]) \subseteq AllOps) /\ Busy' = Busy
    BY <1>3, <2>1, <2>2
  <2>4. open[d].out \subseteq AllOps
    <3>1. open[d].out \subseteq open[d].ops
      BY <2>1 DEF Phases, Placed, Fits
    <3>2. QED
      BY <2>1, <3>1, OpsOfIs, AllOpsHas
  <2>5. Content' \subseteq AllOps
    BY <1>8, <2>4, AllOpsHas DEF Pushes, Content
  <2>6. AllOps' \subseteq AllOps
    BY <1>8, <2>3, <2>5, AllOpsHas, AllOpsIn DEF Pushes
  <2>7. QED
    BY <1>1, <1>8, <2>3, <2>6 DEF Pushes
<1>9. ASSUME NEW d \in Devices, Learn(d) PROVE Grounded'
  <2>1. AllOps' \subseteq AllOps
    BY <1>9 DEF Learn, AllOps, OpsAt, Content
  <2>2. QED
    BY <1>1, <1>9, <2>1 DEF Learn, Busy
<1>10. ASSUME NEW d \in Devices, Cutover(d) PROVE Grounded'
  <2>1. (\A e \in Devices : OpsOf(open'[e]) \subseteq AllOps) /\ Busy' \subseteq Busy
    BY <1>4, <1>10 DEF Cutover
  <2>2. AllOps' \subseteq AllOps
    BY <1>10, <2>1, AllOpsHas, AllOpsIn DEF Cutover, Content
  <2>3. QED
    BY <1>1, <1>10, <2>1, <2>2 DEF Cutover
<1>11. ASSUME NEW d \in Devices, Evict(d) PROVE Grounded'
  <2>1. (\A e \in Devices : OpsOf(open'[e]) \subseteq AllOps) /\ Busy' \subseteq Busy
    BY <1>4, <1>11 DEF Evict
  <2>2. \A e \in Devices : OpsOf(flushing'[e]) \subseteq AllOps
    BY <1>11, AllOpsHas DEF Evict, Shapes
  <2>3. AllOps' \subseteq AllOps
    BY <1>11, <2>1, <2>2, AllOpsHas, AllOpsIn DEF Evict, Content
  <2>4. QED
    BY <1>1, <1>11, <2>1, <2>3 DEF Evict
<1>12. ASSUME NEW d \in Devices, Crash(d) PROVE Grounded'
  <2>1. (\A e \in Devices : OpsOf(open'[e]) \subseteq AllOps) /\ Busy' \subseteq Busy
    BY <1>4, <1>12 DEF Crash
  <2>2. \A e \in Devices : OpsOf(flushing'[e]) \subseteq AllOps
    BY <1>12, AllOpsHas, OpsOfIs DEF Crash, Shapes
  <2>3. seed'.thin \subseteq AllOps
    BY <1>12, AllOpsHas, IdleIs DEF Crash
  <2>4. AllOps' \subseteq AllOps
    BY <1>12, <2>1, <2>2, <2>3, AllOpsHas, AllOpsIn DEF Crash, Content
  <2>5. QED
    BY <1>1, <1>12, <2>1, <2>4 DEF Crash
<1>13. ASSUME seed'.thin \subseteq AllOps, Content' \subseteq AllOps,
              UNCHANGED <<row, copy, open, flushing, processed>>
       PROVE  Grounded'
  <2>1. AllOps' \subseteq AllOps
    BY <1>13, AllOpsHas, AllOpsIn
  <2>2. QED
    BY <1>1, <1>13, <2>1 DEF Busy
<1>14. ASSUME Arm \/ Check \/ PostFails \/ Flip PROVE Grounded'
  <2>1. seed'.thin \subseteq AllOps
    BY <1>14, AllOpsHas, IdleIs DEF Arm, Check, PostFails, Flip, Shapes, Seeds
  <2>2. Content' \subseteq AllOps
    BY <1>14, AllOpsHas DEF Arm, Check, PostFails, Flip, Content
  <2>3. QED
    BY <1>13, <1>14, <2>1, <2>2 DEF Arm, Check, PostFails, Flip, device
<1>15. ASSUME Post PROVE Grounded'
  <2>1. seed'.thin = seed.thin /\ room'.ckpt = seed.thin /\ room'.rows = room.rows
    BY <1>15 DEF Post, Shapes, Seeds
  <2>2. Content' \subseteq AllOps
    BY <2>1, AllOpsHas DEF Content
  <2>3. QED
    BY <1>13, <1>15, <2>1, <2>2, AllOpsHas DEF Post, device
<1>16. ASSUME Rebuilds PROVE Grounded'
  <2>1. UNCHANGED <<row, copy, open, flushing, processed, room>>
    BY <1>16 DEF Rebuilds
  <2>2. CASE seed' = Idle
    BY <1>13, <2>1, <2>2, AllOpsHas, IdleIs DEF Content
  <2>3. ASSUME NEW n \in Nat, open[Host] # None, seed'.thin = Rebuilt(open[Host].ops, n)
        PROVE  Grounded'
    <3> DEFINE X == seed'.thin
    <3>1. open[Host].ops \in Docs /\ open[Host].ops \subseteq AllOps
      BY <2>3, HostIs, AllOpsHas, OpsOfIs DEF Shapes, Handles
    <3>2. IsFiniteSet(open[Host].ops)
      BY <1>0, <3>1, FS_Subset
    <3>3. IsFiniteSet(X) /\ ItemsOf(X) \subseteq ItemsOf(open[Host].ops)
      BY <2>3, <3>1, <3>2, RebuiltIs
    <3>4. \A o \in X : o.item \in ItemsOf(AllOps)
      <4>1. ItemsOf(open[Host].ops) \subseteq ItemsOf(AllOps)
        BY <3>1, ItemsUnion
      <4>2. QED
        BY <3>3, <4>1 DEF ItemsOf
    <3>5. Content' = Content
      BY <2>1 DEF Content
    <3>6. AllOps' \subseteq AllOps \cup X
      <4> DEFINE S == AllOps \cup X
      <4>1. /\ Content' \subseteq S /\ seed'.thin \subseteq S
            /\ \A d \in Devices : /\ OpsOf(row'[d]) \subseteq S /\ OpsOf(copy'[d]) \subseteq S
                                  /\ OpsOf(open'[d]) \subseteq S /\ OpsOf(flushing'[d]) \subseteq S
        BY <2>1, <3>5, AllOpsHas
      <4> HIDE DEF S
      <4>2. AllOps' \subseteq S
        BY <4>1, AllOpsIn
      <4>3. QED
        BY <4>2 DEF S
    <3> HIDE DEF X
    <3>7. QED
      BY <2>1, <3>3, <3>4, <3>6, GroundedBy DEF Busy
  <2>4. QED
    BY <1>16, <2>2, <2>3 DEF Rebuilds
<1>17. ASSUME SaveThin PROVE Grounded'
  <2> DEFINE r == [ops |-> seed.thin, epoch |-> 2, met |-> FALSE]
  <2>1. OpsOf(r) \subseteq AllOps
    <3>1. r.ops = seed.thin
      OBVIOUS
    <3>2. QED
      BY <3>1, AllOpsHas DEF OpsOf
  <2>2. row' = [row EXCEPT ![Host] = r]
        /\ copy' = [copy EXCEPT ![Host] = IF row[Host] = None THEN @ ELSE Rollback(Host, row[Host].ops)]
        /\ seed' = [seed EXCEPT !.at = "saved"] /\ UNCHANGED <<open, flushing, room, processed>>
    BY <1>17 DEF SaveThin
  <2> HIDE DEF r
  <2>3. \A e \in Devices : OpsOf(row'[e]) \subseteq AllOps
    BY <2>1, <2>2, AllOpsHas DEF Shapes
  <2>4. row[Host] # None => OpsOf(Rollback(Host, row[Host].ops)) \subseteq AllOps
    <3>1. SUFFICES ASSUME row[Host] # None PROVE OpsOf(Rollback(Host, row[Host].ops)) \subseteq AllOps
      OBVIOUS
    <3>2. row[Host].ops \in Docs /\ OpsOf(row[Host]) = row[Host].ops
      BY <3>1, HostIs, OpsOfIs DEF Shapes, Rows
    <3>3. NewRow(row[Host].ops) # None /\ NewRow(row[Host].ops).ops = row[Host].ops
      <4>1. NewRow(row[Host].ops) \in Rows
        BY <3>2 DEF NewRow, Rows
      <4>2. QED
        BY <4>1, LineageAssumption DEF NewRow
    <3>4. QED
      BY <3>2, <3>3, HostIs, OpsOfIs, AllOpsHas DEF Rollback
  <2>5. \A e \in Devices : OpsOf(copy'[e]) \subseteq AllOps
    BY <2>2, <2>4, AllOpsHas DEF Shapes
  <2>6. seed'.thin = seed.thin /\ Content' = Content
    BY <2>2 DEF Shapes, Seeds, Content
  <2>7. AllOps' \subseteq AllOps
    BY <2>2, <2>3, <2>5, <2>6, AllOpsHas, AllOpsIn
  <2>8. QED
    BY <1>1, <2>2, <2>7 DEF Busy
<1>18. ASSUME Retire PROVE Grounded'
  <2> DEFINE k == [open[Host] EXCEPT !.retired = TRUE]
  <2>1. open[Host] # None => /\ k # None /\ k.ops = open[Host].ops /\ k.runs = open[Host].runs
    <3>1. open[Host] # None => k \in Handles /\ k.ops = open[Host].ops /\ k.runs = open[Host].runs
      BY HostIs DEF Shapes, Handles
    <3>2. QED
      BY <3>1, LineageAssumption
  <2>2. open' = [open EXCEPT ![Host] = IF open[Host] = None \/ open[Host].runs = {} THEN None ELSE k]
        /\ seed' = Idle /\ UNCHANGED <<row, copy, flushing, room, processed>>
    BY <1>18, HostIs DEF Retire, Shapes
  <2> HIDE DEF k
  <2>3. (\A e \in Devices : OpsOf(open'[e]) \subseteq AllOps) /\ Busy' \subseteq Busy
    <3>1. CASE open[Host] = None \/ open[Host].runs = {}
      BY <1>4, <2>2, <3>1, HostIs
    <3>2. CASE ~(open[Host] = None \/ open[Host].runs = {})
      <4>1. OpsOf(k) \subseteq AllOps
        BY <2>1, <3>2, HostIs, OpsOfIs, AllOpsHas
      <4>2. QED
        BY <1>3, <2>1, <2>2, <3>2, <4>1, HostIs
    <3>3. QED
      BY <3>1, <3>2
  <2>4. AllOps' \subseteq AllOps
    BY <2>2, <2>3, AllOpsHas, AllOpsIn, IdleIs DEF Content
  <2>5. QED
    BY <1>1, <2>2, <2>3, <2>4
<1>19. QED
  BY <1>5, <1>6, <1>7, <1>8, <1>9, <1>10, <1>11, <1>12, <1>14, <1>15, <1>16, <1>17, <1>18,
     GroundedWrites DEF Moves
-----------------------------------------------------------------------------
(* How far the cutover is, and what that says of every handle. *)

LEMMA QuietIs ==
  ASSUME Calm, NEW d \in Devices, Undisturbed(d)
  PROVE  Quiet(d)
BY DEF Calm, Undisturbed, Quiet, Between, Into

\* What is on record of the steps that drop, evict or check a document.
LEMMA RecordedIs ==
  /\ \A d \in Devices : Cutover(d) => /\ Undisturbed(d)
                                      /\ "drop" \notin raced' => ~open[d].dirty
  /\ \A d \in Devices : Evict(d) => Undisturbed(d)
  /\ Evict(Host) /\ "evict" \notin raced' =>
       seed.at \notin {"posting", "posted"} \/ open[Host].ops = seed.seen
  /\ Check => Undisturbed(Host)
BY DEF Cutover, Evict, Check, Falls, Undisturbed, Dropping, Into

\* Nothing turns a row back.
LEMMA ThinStays ==
  ASSUME Shapes, Moves, NEW d \in Devices, ThinRow(d)
  PROVE  ThinRow(d)'
<1>1. ASSUME NEW e \in Devices, NEW r, r # None, r.epoch = 2, row' = [row EXCEPT ![e] = r] PROVE ThinRow(d)'
  BY <1>1 DEF ThinRow, Turned, Shapes
<1>2. ASSUME NEW e \in Devices, NEW h, NEW r, Stores(e, h, r) PROVE ThinRow(d)'
  BY <1>2 DEF Stores, ThinRow, Turned, Shapes
<1>3. ASSUME row' = row PROVE ThinRow(d)'
  BY <1>3 DEF ThinRow
<1>4. ASSUME Writes PROVE ThinRow(d)'
  <2>1. ASSUME NEW e \in Devices, NEW k, NEW X, Talks(e, k, X) \/ Builds(e, k, X) PROVE ThinRow(d)'
    <3>1. CASE row' = row
      BY <1>3, <3>1
    <3>2. CASE BuildsBorn(e, k, X)
      <4> DEFINE r == [ops |-> {}, epoch |-> 2, met |-> FALSE]
      <4>1. r \in Rows /\ r.epoch = 2
        BY DEF Rows, Docs
      <4>2. row' = [row EXCEPT ![e] = r]
        BY <3>2 DEF BuildsBorn
      <4> HIDE DEF r
      <4>3. QED
        BY <1>1, <4>1, <4>2, LineageAssumption
    <3>3. QED
      BY <2>1, <3>1, <3>2 DEF Talks, Builds, BuildsOld, BuildsAdopted, BuildsThin
  <2>2. QED
    BY <1>4, <2>1, HostIs DEF Writes, Uses, Works, Restores
<1>5. ASSUME SaveThin PROVE ThinRow(d)'
  <2> DEFINE r == [ops |-> seed.thin, epoch |-> 2, met |-> FALSE]
  <2>1. r \in Rows /\ r.epoch = 2
    BY DEF Rows, Shapes, Seeds
  <2>2. row' = [row EXCEPT ![Host] = r]
    BY <1>5 DEF SaveThin
  <2> HIDE DEF r
  <2>3. QED
    BY <1>1, <2>1, <2>2, HostIs, LineageAssumption
<1>6. ASSUME NEW e \in Devices, NEW k, Hears(e, k) PROVE ThinRow(d)'
  BY <1>1, <1>3, <1>6 DEF Hears
<1>7. QED
  BY <1>2, <1>3, <1>4, <1>5, <1>6
     DEF Moves, Saves, Flushes, Pushes, Learn, Cutover, Evict, Crash, Arm, Rebuilds, Post, PostFails, Check,
         Flip, Retire, device

\* Before the thin document is stored, everybody is on the old one.
OldAt(g, r, k, o, f) ==
    /\ g = 1 /\ ~Turned(r) /\ k = None
    /\ o # None => o.gen = 1
    /\ f # None => f.gen = 1

LEMMA BeforeIs ==
  Before <=> /\ \A d \in Devices : OldAt(gen[d], row[d], copy[d], open[d], flushing[d])
             /\ room.rows = {}
BY DEF Before, OldAt, ThinRow

LEMMA BeforeAt ==
  ASSUME Before, NEW d \in Devices,
         OldAt(gen'[d], row'[d], copy'[d], open'[d], flushing'[d]), room'.rows = {},
         \A e \in Devices \ {d} : /\ gen'[e] = gen[e] /\ row'[e] = row[e] /\ copy'[e] = copy[e]
                                  /\ open'[e] = open[e] /\ flushing'[e] = flushing[e]
  PROVE  Before'
<1>1. \A e \in Devices : OldAt(gen[e], row[e], copy[e], open[e], flushing[e])
  BY BeforeIs
<1>2. \A e \in Devices : OldAt(gen'[e], row'[e], copy'[e], open'[e], flushing'[e])
  BY <1>1
<1>3. QED
  BY <1>2 DEF Before, OldAt, ThinRow

LEMMA BeforeStays ==
  ASSUME Shapes, Phases, Moves, Before, ~SaveThin
  PROVE  Before'
<1>0. /\ \A d \in Devices : OldAt(gen[d], row[d], copy[d], open[d], flushing[d])
      /\ room.rows = {}
  BY BeforeIs
<1>1. ASSUME NEW d \in Devices, NEW k, NEW X, Talks(d, k, X) \/ Builds(d, k, X) PROVE Before'
  <2>1. k # None /\ open' = [open EXCEPT ![d] = k] /\ flushing' = flushing /\ room' = room
    BY <1>1, LineageAssumption DEF Talks, Builds, Grown, Elsewhere
  <2>2. k.gen = 1 /\ UNCHANGED <<gen, row, copy>>
    <3>1. gen[d] = 1 /\ ~ThinRow(d) /\ (open[d] # None => open[d].gen = 1)
      BY <1>0 DEF OldAt, ThinRow
    <3>2. QED
      BY <1>1, <3>1
         DEF Talks, Grown, Builds, BuildsOld, BuildsAdopted, BuildsBorn, BuildsThin
  <2>3. OldAt(gen'[d], row'[d], copy'[d], open'[d], flushing'[d])
    BY <1>0, <2>1, <2>2 DEF OldAt, Shapes
  <2>4. QED
    BY <1>0, <2>1, <2>2, <2>3, BeforeAt DEF Shapes
<1>2. ASSUME NEW c \in Cmds, NEW k, NEW o, Works(c, k, o) PROVE Before'
  BY <1>1, <1>2, HostIs DEF Works
<1>3. ASSUME Writes PROVE Before'
  <2>1. gen[Host] = 1
    BY <1>0, HostIs DEF OldAt
  <2>2. QED
    BY <1>1, <1>2, <1>3, <2>1 DEF Writes, Uses, Restores
<1>4. ASSUME NEW d \in Devices, NEW r, NEW k, Saves(d, r, k) PROVE Before'
  <2>1. OldAt(gen'[d], row'[d], copy'[d], open'[d], flushing'[d])
    BY <1>0, <1>4 DEF Saves, Stores, Like, OldAt, ThinRow, Shapes
  <2>2. QED
    BY <1>0, <1>4, <2>1, BeforeAt DEF Saves, Stores, Shapes
<1>5. ASSUME NEW d \in Devices, NEW r, Flushes(d, r) PROVE Before'
  <2>1. OldAt(gen'[d], row'[d], copy'[d], open'[d], flushing'[d])
    BY <1>0, <1>5 DEF Flushes, Stores, OldAt, ThinRow, Shapes
  <2>2. QED
    BY <1>0, <1>5, <2>1, BeforeAt DEF Flushes, Stores, Shapes
<1>6. ASSUME NEW d \in Devices, NEW k, Hears(d, k) \/ Pushes(d, k) PROVE FALSE
  <2>1. open[d] # None /\ open[d].gen = 1 /\ (open[d].joined => open[d].gen = 2)
    BY <1>0, <1>6 DEF OldAt, Hears, Pushes, Phases, Placed, Fits
  <2>2. QED
    BY <1>6, <2>1 DEF Hears, Pushes
<1>7. ASSUME NEW d \in Devices, Learn(d) \/ Cutover(d) PROVE FALSE
  BY <1>0, <1>7 DEF Learn, Cutover, Stale, OldAt
<1>8. ASSUME NEW d \in Devices, Evict(d) PROVE Before'
  <2>1. OldAt(gen'[d], row'[d], copy'[d], open'[d], flushing'[d])
    BY <1>0, <1>8 DEF Evict, OldAt, Shapes
  <2>2. QED
    BY <1>0, <1>8, <2>1, BeforeAt DEF Evict, Shapes
<1>9. ASSUME NEW d \in Devices, Crash(d) PROVE Before'
  <2>1. OldAt(gen'[d], row'[d], copy'[d], open'[d], flushing'[d])
    BY <1>0, <1>9 DEF Crash, OldAt, Shapes
  <2>2. QED
    BY <1>0, <1>9, <2>1, BeforeAt DEF Crash, Shapes
<1>10. ASSUME Arm \/ Rebuilds \/ Check \/ PostFails PROVE Before'
  BY <1>0, <1>10, HostIs, BeforeAt DEF Arm, Rebuilds, Check, PostFails, device
<1>11. ASSUME Post PROVE Before'
  <2>1. room'.rows = {}
    BY <1>0, <1>11 DEF Post, Shapes
  <2>2. QED
    BY <1>0, <1>11, <2>1, HostIs, BeforeAt DEF Post, device
<1>12. ASSUME Flip \/ Retire PROVE FALSE
  BY <1>0, <1>12, HostIs DEF Flip, Retire, Phases, OldAt, ThinRow
<1>13. QED
  BY <1>3, <1>4, <1>5, <1>6, <1>7, <1>8, <1>9, <1>10, <1>11, <1>12 DEF Moves

\* A step of one device leaves the others in place.
LEMMA PlacedAt ==
  ASSUME Phases, NEW d \in Devices, d = Host \/ seed'.at = seed.at,
         Placed(d, open'[d], flushing'[d], gen'[d], row'[d], copy'[d], seed'.at),
         \A e \in Devices \ {d} : /\ gen'[e] = gen[e] /\ row'[e] = row[e] /\ copy'[e] = copy[e]
                                  /\ open'[e] = open[e] /\ flushing'[e] = flushing[e]
  PROVE  \A e \in Devices : Placed(e, open'[e], flushing'[e], gen'[e], row'[e], copy'[e], seed'.at)
<1>1. \A e \in Devices : Placed(e, open[e], flushing[e], gen[e], row[e], copy[e], seed.at)
  BY DEF Phases
<1>2. ASSUME NEW e \in Devices, e # d, d = Host
      PROVE  Placed(e, open[e], flushing[e], gen[e], row[e], copy[e], seed'.at)
  <2>1. Placed(e, open[e], flushing[e], gen[e], row[e], copy[e], seed.at)
    BY <1>1
  <2>2. QED
    BY <1>2, <2>1 DEF Placed, Fits
<1>3. QED
  BY <1>1, <1>2

LEMMA PlacedWrites ==
  ASSUME Calm, Shapes, Phases, NEW d \in Devices, Undisturbed(d), NEW k, NEW X,
         Talks(d, k, X) \/ Builds(d, k, X), d # Host => k.runs = {}
  PROVE  \A e \in Devices : Placed(e, open'[e], flushing'[e], gen'[e], row'[e], copy'[e], seed'.at)
<1>0. Quiet(d)
  BY QuietIs
<1>1. /\ k # None /\ open' = [open EXCEPT ![d] = k] /\ flushing' = flushing /\ seed' = seed
      /\ open'[d] = k /\ flushing'[d] = None
  BY <1>0, LineageAssumption DEF Talks, Builds, Grown, Elsewhere, Quiet, Shapes
<1>2. Placed(d, open[d], flushing[d], gen[d], row[d], copy[d], seed.at)
  BY DEF Phases
<1>3. CASE Talks(d, k, X)
  <2>1. open[d] # None /\ Grown(open[d], k, X) /\ UNCHANGED <<gen, row, copy>>
    BY <1>3 DEF Talks
  <2>2. Fits(d, open[d], gen[d], row[d], copy[d], seed.at)
    BY <1>2, <2>1 DEF Placed
  <2>3. Fits(d, k, gen[d], row[d], copy[d], seed.at)
    <3>1. /\ k.gen = open[d].gen /\ ~k.retired /\ k.joined = open[d].joined
          /\ k.out \subseteq k.ops /\ open[d].ops \subseteq k.ops
      BY <2>1, <2>2 DEF Grown, Fits
    <3>2. QED
      BY <2>2, <3>1 DEF Fits
  <2>4. Placed(d, k, None, gen[d], row[d], copy[d], seed.at)
    BY <1>2, <2>3 DEF Placed
  <2>5. QED
    BY <1>1, <2>1, <2>4, PlacedAt DEF Shapes
<1>4. CASE BuildsOld(d, k, X) /\ Builds(d, k, X)
  <2>1. /\ ~k.retired /\ ~k.joined /\ k.out \subseteq k.ops /\ k.gen = 1 /\ gen[d] = 1
        /\ ~Turned(row[d]) /\ OpsOf(row[d]) \subseteq k.ops /\ UNCHANGED <<gen, row, copy>>
    BY <1>4 DEF BuildsOld, Builds, ThinRow
  <2>2. d # Host => copy[d] = None
    BY <1>2, <2>1 DEF Placed
  <2>3. Placed(d, k, None, gen[d], row[d], copy[d], seed.at)
    BY <2>1, <2>2 DEF Placed, Fits
  <2>4. QED
    BY <1>1, <2>1, <2>3, PlacedAt DEF Shapes
<1>5. CASE BuildsAdopted(d, k, X) /\ Builds(d, k, X)
  <2>1. /\ ~k.retired /\ ~k.joined /\ k.out \subseteq k.ops /\ k.gen = 2 /\ gen[d] = 2
        /\ ~Turned(row[d]) /\ row[d] # None /\ UNCHANGED <<gen, row>>
        /\ copy' = [copy EXCEPT ![d] = Rollback(d, row[d].ops)]
    BY <1>5 DEF BuildsAdopted, Builds, ThinRow
  <2>2. Placed(d, k, None, gen[d], row[d], copy'[d], seed.at)
    BY <2>1 DEF Placed, Fits
  <2>3. QED
    BY <1>1, <2>1, <2>2, PlacedAt DEF Shapes
<1>6. CASE BuildsBorn(d, k, X) /\ Builds(d, k, X)
  <2> DEFINE r == [ops |-> {}, epoch |-> 2, met |-> FALSE]
  <2>1. r \in Rows /\ r.ops = {} /\ r.epoch = 2
    BY DEF Rows, Docs
  <2>2. /\ ~k.retired /\ ~k.joined /\ k.out \subseteq k.ops /\ k.gen = 2 /\ gen[d] = 2
        /\ UNCHANGED <<gen, copy>> /\ row' = [row EXCEPT ![d] = r]
    BY <1>6 DEF BuildsBorn, Builds
  <2> HIDE DEF r
  <2>3. OpsOf(r) = {} /\ r # None /\ Turned(r)
    BY <2>1, LineageAssumption DEF OpsOf, Turned
  <2>4. Placed(d, k, None, gen[d], r, copy[d], seed.at)
    BY <2>2, <2>3 DEF Placed, Fits
  <2>5. row'[d] = r
    BY <2>2 DEF Shapes
  <2>6. QED
    BY <1>1, <2>2, <2>4, <2>5, PlacedAt DEF Shapes
<1>7. CASE BuildsThin(d, k, X) /\ Builds(d, k, X)
  <2>1. /\ ~k.retired /\ ~k.joined /\ k.out \subseteq k.ops /\ k.gen = 2
        /\ Turned(row[d]) /\ row[d] # None /\ row[d].ops \subseteq k.ops
        /\ UNCHANGED <<row, copy>> /\ gen' = [gen EXCEPT ![d] = 2]
    BY <1>7 DEF BuildsThin, Builds, ThinRow, Turned
  <2>2. OpsOf(row[d]) \subseteq k.ops
    BY <2>1, OpsOfIs
  <2>3. gen'[d] = 2
    BY <2>1 DEF Shapes
  <2>4. Placed(d, k, None, 2, row[d], copy[d], seed.at)
    BY <2>1, <2>2 DEF Placed, Fits
  <2>5. QED
    BY <1>1, <2>1, <2>3, <2>4, PlacedAt DEF Shapes
<1>8. QED
  BY <1>3, <1>4, <1>5, <1>6, <1>7 DEF Builds

LEMMA PlacedMoves ==
  ASSUME Calm, Shapes, Phases, Moves
  PROVE  \A e \in Devices : Placed(e, open'[e], flushing'[e], gen'[e], row'[e], copy'[e], seed'.at)
<1> DEFINE Goal == \A e \in Devices : Placed(e, open'[e], flushing'[e], gen'[e], row'[e], copy'[e], seed'.at)
<1>0. \A e \in Devices : Placed(e, open[e], flushing[e], gen[e], row[e], copy[e], seed.at)
  BY DEF Phases
<1>1. ASSUME NEW d \in Devices, NEW k, NEW X, Uses(d, k, X) PROVE Goal
  <2>1. d # Host => RunsOf(open[d]) = {}
    BY <1>0, <1>1 DEF RunsOf, Placed, Fits
  <2>2. QED
    BY <1>1, <2>1, PlacedWrites DEF Uses
<1>2. ASSUME NEW c \in Cmds, NEW k, NEW o, Works(c, k, o) PROVE Goal
  BY <1>2, HostIs, PlacedWrites DEF Works
<1>3. ASSUME NEW k, NEW X, Restores(k, X) PROVE Goal
  BY <1>3, HostIs, PlacedWrites DEF Restores
<1>4. ASSUME NEW d \in Devices, NEW h, NEW r, Stores(d, h, r), h # None, Fits(d, h, gen[d], row[d], copy[d], seed.at)
      PROVE  Fits(d, h, gen[d], r, copy[d], seed.at)
  <2>1. r # None /\ OpsOf(r) = h.ops /\ (Turned(r) <=> Turned(row[d]))
    BY <1>4, OpsOfIs DEF Stores, ThinRow
  <2>2. QED
    BY <1>4, <2>1 DEF Fits
<1>5. ASSUME NEW d \in Devices, NEW r, NEW k, Saves(d, r, k) PROVE Goal
  <2>1. open[d] # None /\ Stores(d, open[d], r) /\ Fits(d, open[d], gen[d], row[d], copy[d], seed.at)
    BY <1>0, <1>5 DEF Saves, Placed
  <2>2. Fits(d, open[d], gen[d], r, copy[d], seed.at)
    BY <1>4, <2>1
  <2>3. Fits(d, k, gen[d], r, copy[d], seed.at)
    BY <1>5, <2>2 DEF Saves, Like, Fits
  <2>4. flushing[d] = None
    BY <1>0, <2>1 DEF Placed
  <2>5. /\ open' = [open EXCEPT ![d] = k] /\ row' = [row EXCEPT ![d] = r]
        /\ UNCHANGED <<gen, copy, flushing, seed>>
    BY <1>5 DEF Saves, Stores
  <2>6. Placed(d, k, None, gen[d], r, copy[d], seed.at)
    BY <1>0, <2>3 DEF Placed
  <2>7. open'[d] = k /\ row'[d] = r
    BY <2>5 DEF Shapes
  <2>8. QED
    BY <2>4, <2>5, <2>6, <2>7, PlacedAt DEF Shapes
<1>6. ASSUME NEW d \in Devices, NEW r, Flushes(d, r) PROVE Goal
  <2>1. open[d] = None
    BY <1>0, <1>6 DEF Flushes, Placed
  <2>2. Placed(d, None, None, gen[d], r, copy[d], seed.at)
    BY <1>0 DEF Placed
  <2>3. /\ row' = [row EXCEPT ![d] = r] /\ flushing' = [flushing EXCEPT ![d] = None]
        /\ UNCHANGED <<gen, copy, open, seed>>
    BY <1>6 DEF Flushes, Stores
  <2>4. row'[d] = r /\ flushing'[d] = None
    BY <2>3 DEF Shapes
  <2>5. QED
    BY <2>1, <2>2, <2>3, <2>4, PlacedAt DEF Shapes
<1>7. ASSUME NEW d \in Devices, NEW k, Hears(d, k) PROVE Goal
  <2>1. open[d] # None /\ Fits(d, open[d], gen[d], row[d], copy[d], seed.at) /\ flushing[d] = None
    BY <1>0, <1>7 DEF Hears, Placed
  <2>2. /\ k # None /\ k.gen = 2 /\ ~k.retired /\ k.runs = open[d].runs /\ k.out \subseteq k.ops
        /\ open[d].ops \subseteq k.ops /\ open[d].gen = 2
    BY <1>7, <2>1 DEF Hears, Like, Fits
  <2>3. /\ open' = [open EXCEPT ![d] = k] /\ UNCHANGED <<gen, copy, flushing, seed>>
    BY <1>7 DEF Hears
  <2>4. open'[d] = k
    BY <2>3 DEF Shapes
  <2>5. CASE row' = row
    <3>1. Fits(d, k, gen[d], row[d], copy[d], seed.at)
      BY <2>1, <2>2 DEF Fits
    <3>2. Placed(d, k, None, gen[d], row[d], copy[d], seed.at)
      BY <1>0, <3>1 DEF Placed
    <3>3. QED
      BY <2>1, <2>3, <2>4, <2>5, <3>2, PlacedAt DEF Shapes
  <2>6. ASSUME NEW r, r # None, r.ops = k.ops, r.epoch = 2, row' = [row EXCEPT ![d] = r] PROVE Goal
    <3>1. OpsOf(r) = k.ops /\ Turned(r)
      BY <2>6, OpsOfIs DEF Turned
    <3>2. Fits(d, k, gen[d], r, copy[d], seed.at)
      BY <2>1, <2>2, <2>6, <3>1 DEF Fits
    <3>3. Placed(d, k, None, gen[d], r, copy[d], seed.at)
      BY <1>0, <3>2 DEF Placed
    <3>4. row'[d] = r
      BY <2>6 DEF Shapes
    <3>5. QED
      BY <2>1, <2>3, <2>4, <2>6, <3>3, <3>4, PlacedAt DEF Shapes
  <2>7. QED
    BY <1>7, <2>5, <2>6 DEF Hears
<1>8. ASSUME NEW d \in Devices, NEW k, Pushes(d, k) PROVE Goal
  <2>1. open[d] # None /\ Fits(d, open[d], gen[d], row[d], copy[d], seed.at) /\ flushing[d] = None
    BY <1>0, <1>8 DEF Pushes, Placed
  <2>2. Fits(d, k, gen[d], row[d], copy[d], seed.at)
    BY <1>8, <2>1 DEF Pushes, Like, Fits
  <2>3. Placed(d, k, None, gen[d], row[d], copy[d], seed.at)
    BY <1>0, <2>2 DEF Placed
  <2>4. /\ open' = [open EXCEPT ![d] = k] /\ UNCHANGED <<gen, row, copy, flushing, seed>>
    BY <1>8 DEF Pushes
  <2>5. QED
    BY <2>1, <2>3, <2>4, PlacedAt DEF Shapes
<1>9. ASSUME NEW d \in Devices, Learn(d) PROVE Goal
  <2>1. /\ gen' = [gen EXCEPT ![d] = 2] /\ UNCHANGED <<row, copy, open, flushing, seed>>
    BY <1>9 DEF Learn
  <2>2. Placed(d, open[d], flushing[d], 2, row[d], copy[d], seed.at)
    <3>1. Placed(d, open[d], flushing[d], gen[d], row[d], copy[d], seed.at)
      BY <1>0
    <3>2. QED
      BY <3>1 DEF Placed, Fits
  <2>3. QED
    BY <2>1, <2>2, PlacedAt DEF Shapes
<1>10. ASSUME NEW d \in Devices, Cutover(d) PROVE Goal
  <2>1. open' = [open EXCEPT ![d] = None] /\ UNCHANGED <<gen, row, copy, flushing, seed>>
        /\ open[d] # None
    BY <1>10 DEF Cutover
  <2>2. Placed(d, None, flushing[d], gen[d], row[d], copy[d], seed.at)
    BY <1>0, <2>1 DEF Placed
  <2>3. QED
    BY <2>1, <2>2, PlacedAt DEF Shapes
<1>11. ASSUME NEW d \in Devices, Evict(d) PROVE Goal
  <2>1. open' = [open EXCEPT ![d] = None] /\ flushing' = [flushing EXCEPT ![d] = open[d]]
        /\ UNCHANGED <<gen, row, copy, seed>> /\ open[d] # None
    BY <1>11 DEF Evict
  <2>2. Placed(d, None, open[d], gen[d], row[d], copy[d], seed.at)
    BY <1>0, <2>1 DEF Placed
  <2>3. QED
    BY <2>1, <2>2, PlacedAt DEF Shapes
<1>12. ASSUME NEW d \in Devices, Crash(d) PROVE Goal
  <2>1. open' = [open EXCEPT ![d] = None] /\ flushing' = [flushing EXCEPT ![d] = None]
        /\ UNCHANGED <<gen, row, copy>> /\ (d = Host \/ seed' = seed)
    BY <1>12 DEF Crash
  <2>2. Placed(d, None, None, gen[d], row[d], copy[d], seed'.at)
    BY <1>0 DEF Placed
  <2>3. QED
    BY <2>1, <2>2, PlacedAt DEF Shapes
<1>13. ASSUME UNCHANGED <<gen, row, copy, open, flushing>>,
              Turned(row[Host]) => seed'.at = seed.at \/ seed'.at \in {"saved", "flipped"}
       PROVE  Goal
  <2>1. Placed(Host, open[Host], flushing[Host], gen[Host], row[Host], copy[Host], seed.at)
    BY <1>0, HostIs
  <2>2. Placed(Host, open[Host], flushing[Host], gen[Host], row[Host], copy[Host], seed'.at)
    BY <1>13, <2>1 DEF Placed, Fits
  <2>3. QED
    BY <1>13, <2>2, HostIs, PlacedAt
<1>14. ASSUME Before, UNCHANGED <<gen, row, copy, open, flushing>> PROVE Goal
  BY <1>13, <1>14, HostIs DEF Before, ThinRow
<1>15. ASSUME Arm \/ Rebuilds \/ Post \/ PostFails \/ Check PROVE Goal
  <2>1. UNCHANGED <<gen, row, copy, open, flushing>>
    BY <1>15 DEF Arm, Rebuilds, Post, PostFails, Check, device
  <2>2. CASE Before
    BY <1>14, <2>1, <2>2
  <2>3. CASE Arm
    <3>1. open[Host] # None /\ open[Host].gen = 1 /\ seed.at = "idle"
      BY <2>3 DEF Arm
    <3>2. ~Turned(row[Host])
      BY <1>0, <3>1, HostIs DEF Placed, Fits
    <3>3. QED
      BY <1>13, <2>1, <3>2
  <2>4. QED
    BY <1>15, <2>2, <2>3 DEF Phases, Rebuilds, Post, PostFails, Check
<1>16. ASSUME SaveThin PROVE Goal
  <2> DEFINE r == [ops |-> seed.thin, epoch |-> 2, met |-> FALSE]
  <2>1. r \in Rows /\ r.epoch = 2
    BY DEF Rows, Shapes, Seeds
  <2>2. row' = [row EXCEPT ![Host] = r] /\ UNCHANGED <<gen, open, flushing>>
        /\ copy' = [copy EXCEPT ![Host] = IF row[Host] = None THEN @ ELSE Rollback(Host, row[Host].ops)]
        /\ seed' = [seed EXCEPT !.at = "saved"] /\ seed.at = "sealed"
    BY <1>16 DEF SaveThin
  <2> HIDE DEF r
  <2>3. Turned(r) /\ r # None /\ row'[Host] = r /\ seed'.at = "saved"
    BY <2>1, <2>2, HostIs, LineageAssumption DEF Turned, Shapes, Seeds
  <2>4. open[Host] # None => open[Host].gen = 1
    BY <2>2, HostIs DEF Phases, Before
  <2>5. Placed(Host, open[Host], flushing[Host], gen[Host], row[Host], copy[Host], seed.at) /\ flushing[Host] = None
    BY <1>0, <2>2, HostIs DEF Phases
  <2>6. Placed(Host, open[Host], None, gen[Host], r, copy'[Host], "saved")
    BY <2>3, <2>4, <2>5 DEF Placed, Fits
  <2>7. QED
    BY <2>2, <2>3, <2>5, <2>6, HostIs, PlacedAt DEF Shapes
<1>17. ASSUME Flip PROVE Goal
  <2>1. gen' = [gen EXCEPT ![Host] = 2] /\ UNCHANGED <<row, copy, open, flushing>>
        /\ seed.at = "saved" /\ seed' = [seed EXCEPT !.at = "flipped"]
    BY <1>17 DEF Flip
  <2>2. gen'[Host] = 2 /\ seed'.at = "flipped"
    BY <2>1, HostIs DEF Shapes, Seeds
  <2>3. Placed(Host, open[Host], flushing[Host], gen[Host], row[Host], copy[Host], "saved")
    BY <1>0, <2>1, HostIs
  <2>4. Placed(Host, open[Host], flushing[Host], 2, row[Host], copy[Host], "flipped")
    BY <2>3 DEF Placed, Fits
  <2>5. QED
    BY <2>1, <2>2, <2>4, HostIs, PlacedAt DEF Shapes
<1>18. ASSUME Retire PROVE Goal
  <2>1. seed.at = "flipped" /\ flushing[Host] = None /\ Busy = {}
    BY <1>18 DEF Retire, Phases
  <2>2. open' = [open EXCEPT ![Host] = None] /\ UNCHANGED <<gen, row, copy, flushing>>
    <3>1. open[Host] = None \/ open[Host].runs = {}
      BY <2>1 DEF Busy, RunsOf
    <3>2. QED
      BY <1>18, <3>1, HostIs DEF Retire, Shapes
  <2>3. Placed(Host, None, None, gen[Host], row[Host], copy[Host], seed'.at)
    BY <1>0, HostIs DEF Placed
  <2>4. QED
    BY <2>1, <2>2, <2>3, HostIs, PlacedAt DEF Shapes
<1> HIDE DEF Goal
<1>19. Goal
  BY <1>1, <1>2, <1>3, <1>5, <1>6, <1>7, <1>8, <1>9, <1>10, <1>11, <1>12, <1>15, <1>16, <1>17, <1>18
     DEF Moves, Writes
<1>20. QED
  BY <1>19 DEF Goal

\* Once the last check passed, nothing else happens on the host until the seed ends.
HostRests ==
    /\ seed' = seed
    /\ open'[Host] = open[Host] /\ flushing'[Host] = flushing[Host] /\ row'[Host] = row[Host]
    /\ copy'[Host] = copy[Host] /\ stored'[Host] = stored[Host]

LEMMA SealedRests ==
  ASSUME Calm, Shapes, Phases, Moves, seed.at \in {"sealed", "saved", "flipped"}
  PROVE  HostRests \/ SaveThin \/ Flip \/ Retire \/ Crash(Host)
<1>0. ~Undisturbed(Host) /\ flushing[Host] = None
  BY QuietIs, HostIs DEF Quiet, Phases
<1>1. ASSUME NEW d \in Devices, d # Host, seed' = seed,
             \A e \in Devices \ {d} : /\ open'[e] = open[e] /\ flushing'[e] = flushing[e] /\ row'[e] = row[e]
                                      /\ copy'[e] = copy[e] /\ stored'[e] = stored[e]
      PROVE  HostRests
  BY <1>1, HostIs DEF HostRests
<1>2. ASSUME NEW d \in Devices, NEW k, NEW X, Uses(d, k, X) PROVE HostRests
  <2>1. d # Host
    BY <1>0, <1>2 DEF Uses
  <2>2. /\ seed' = seed /\ flushing' = flushing /\ stored' = stored
        /\ open' = [open EXCEPT ![d] = k]
        /\ Talks(d, k, X) \/ Builds(d, k, X)
    BY <1>2 DEF Uses, Talks, Builds, Elsewhere
  <2>3. \A e \in Devices \ {d} : row'[e] = row[e] /\ copy'[e] = copy[e]
    BY <2>2 DEF Talks, Builds, BuildsOld, BuildsAdopted, BuildsBorn, BuildsThin, Shapes
  <2>4. QED
    BY <1>1, <2>1, <2>2, <2>3 DEF Shapes
<1>3. ~(\E c \in Cmds : \E k, o : Works(c, k, o)) /\ ~(\E k, X : Restores(k, X)) /\ ~Rebuilds /\ ~Check /\ ~Arm
  BY <1>0 DEF Works, Restores, Rebuilds, Check, Arm
<1>4. ASSUME NEW d \in Devices, NEW r, NEW k, Saves(d, r, k) PROVE HostRests
  <2>1. d # Host
    BY <1>0, <1>4 DEF Saves
  <2>2. QED
    BY <1>1, <1>4, <2>1 DEF Saves, Stores, Shapes
<1>5. ASSUME NEW d \in Devices, NEW r, Flushes(d, r) PROVE HostRests
  <2>1. d # Host
    BY <1>0, <1>5 DEF Flushes
  <2>2. QED
    BY <1>1, <1>5, <2>1 DEF Flushes, Stores, Shapes
<1>6. ASSUME NEW d \in Devices, NEW k, Hears(d, k) PROVE HostRests
  <2>1. d # Host
    BY <1>0, <1>6 DEF Hears
  <2>2. \A e \in Devices \ {d} : row'[e] = row[e] /\ stored'[e] = stored[e]
    BY <1>6 DEF Hears, Shapes
  <2>3. QED
    BY <1>1, <1>6, <2>1, <2>2 DEF Hears, Shapes
<1>7. ASSUME NEW d \in Devices, NEW k, Pushes(d, k) PROVE HostRests
  <2>1. d # Host
    BY <1>0, <1>7 DEF Pushes
  <2>2. QED
    BY <1>1, <1>7, <2>1 DEF Pushes, Shapes
<1>8. ASSUME NEW d \in Devices, Learn(d) PROVE HostRests
  BY <1>8 DEF Learn, HostRests
<1>9. ASSUME NEW d \in Devices, Cutover(d) \/ Evict(d) PROVE HostRests
  <2>1. d # Host
    BY <1>0, <1>9, RecordedIs
  <2>2. QED
    BY <1>1, <1>9, <2>1 DEF Cutover, Evict, Shapes
<1>10. ASSUME NEW d \in Devices, Crash(d), d # Host PROVE HostRests
  BY <1>1, <1>10 DEF Crash, Shapes
<1>11. ~Post /\ ~PostFails
  BY DEF Post, PostFails
<1>12. QED
  BY <1>2, <1>3, <1>4, <1>5, <1>6, <1>7, <1>8, <1>9, <1>10, <1>11 DEF Moves, Writes

\* What can happen to the seed.
LEMMA SeedMoves ==
  ASSUME Shapes, Moves
  PROVE  \/ seed' = seed \/ seed' = Idle
         \/ Arm \/ Rebuilds \/ Post \/ Check \/ SaveThin \/ Flip
<1>1. ASSUME Writes PROVE seed' = seed
  <2>1. ASSUME NEW d, NEW k, NEW X, Talks(d, k, X) \/ Builds(d, k, X) PROVE seed' = seed
    BY <2>1 DEF Talks, Builds, Elsewhere
  <2>2. ASSUME NEW d, NEW k, NEW X, Uses(d, k, X) PROVE seed' = seed
    BY <2>1, <2>2 DEF Uses
  <2>3. ASSUME NEW c, NEW k, NEW o, Works(c, k, o) PROVE seed' = seed
    BY <2>1, <2>3 DEF Works
  <2>4. ASSUME NEW k, NEW X, Restores(k, X) PROVE seed' = seed
    BY <2>1, <2>4 DEF Restores
  <2>5. QED
    BY <1>1, <2>2, <2>3, <2>4 DEF Writes
<1>2. ASSUME NEW d \in Devices, NEW r, NEW k, Saves(d, r, k) \/ Flushes(d, r) PROVE seed' = seed
  BY <1>2 DEF Saves, Flushes, Stores
<1>3. ASSUME NEW d \in Devices, NEW k, Hears(d, k) \/ Pushes(d, k) PROVE seed' = seed
  BY <1>3 DEF Hears, Pushes
<1>4. ASSUME NEW d \in Devices, Learn(d) \/ Cutover(d) \/ Evict(d) \/ Crash(d)
      PROVE  seed' = seed \/ seed' = Idle
  BY <1>4 DEF Learn, Cutover, Evict, Crash
<1>5. ASSUME PostFails \/ Retire PROVE seed' = Idle
  BY <1>5 DEF PostFails, Retire
<1>6. QED
  BY <1>1, <1>2, <1>3, <1>4, <1>5 DEF Moves

LEMMA PhasesMoves ==
  ASSUME Calm, Shapes, Phases, Moves
  PROVE  Phases'
<1>1. \A e \in Devices : Placed(e, open'[e], flushing'[e], gen'[e], row'[e], copy'[e], seed'.at)
  BY PlacedMoves
<1>0. ASSUME SaveThin PROVE ThinRow(Host)'
  <2> DEFINE r == [ops |-> seed.thin, epoch |-> 2, met |-> FALSE]
  <2>1. r \in Rows /\ r.epoch = 2
    BY DEF Rows, Shapes, Seeds
  <2>2. row' = [row EXCEPT ![Host] = r]
    BY <1>0 DEF SaveThin
  <2> HIDE DEF r
  <2>3. QED
    BY <2>1, <2>2, HostIs, LineageAssumption DEF ThinRow, Turned, Shapes
<1>2. (Before \/ ThinRow(Host))'
  <2>1. CASE Before /\ ~SaveThin
    BY <2>1, BeforeStays
  <2>2. CASE ThinRow(Host)
    BY <2>2, HostIs, ThinStays
  <2>3. CASE SaveThin
    BY <1>0, <2>3
  <2>4. QED
    BY <2>1, <2>2, <2>3 DEF Phases
<1>3. seed'.at \in {"waiting", "posting", "posted", "sealed"} => Before'
  <2>1. SUFFICES ASSUME seed'.at \in {"waiting", "posting", "posted", "sealed"} PROVE Before'
    OBVIOUS
  <2>2. ~SaveThin /\ ~Flip
    BY <2>1 DEF SaveThin, Flip, Shapes, Seeds
  <2>3. Before
    <3>1. CASE seed.at \in {"waiting", "posting", "posted", "sealed"}
      BY <3>1 DEF Phases
    <3>2. CASE Arm
      <4>1. open[Host] # None /\ open[Host].gen = 1 /\ seed.at = "idle"
        BY <3>2 DEF Arm
      <4>2. ~ThinRow(Host)
        BY <4>1, HostIs DEF Phases, Placed, Fits, ThinRow
      <4>3. QED
        BY <4>2 DEF Phases
    <3>3. QED
      BY <2>1, <2>2, <3>1, <3>2, SeedMoves, IdleIs DEF Rebuilds, Post, Check
  <2>4. QED
    BY <2>2, <2>3, BeforeStays
<1>4. seed'.at \in {"saved", "flipped"} => ThinRow(Host)'
  <2>1. SUFFICES ASSUME seed'.at \in {"saved", "flipped"} PROVE ThinRow(Host)'
    OBVIOUS
  <2>2. CASE SaveThin
    BY <1>0, <2>2
  <2>3. CASE ~SaveThin
    <3>1. ~Arm /\ ~Post /\ ~Check /\ ~Rebuilds
      BY <2>1, IdleIs DEF Arm, Post, Check, Rebuilds, Shapes, Seeds
    <3>2. ThinRow(Host)
      BY <2>1, <2>3, <3>1, SeedMoves, IdleIs DEF Phases, Flip
    <3>3. QED
      BY <3>2, HostIs, ThinStays
  <2>4. QED
    BY <2>2, <2>3
<1>5. seed'.at \in {"sealed", "saved", "flipped"} => flushing'[Host] = None /\ Busy' = {}
  <2>1. SUFFICES ASSUME seed'.at \in {"sealed", "saved", "flipped"}
                 PROVE  flushing'[Host] = None /\ Busy' = {}
    OBVIOUS
  <2>2. CASE seed.at \in {"sealed", "saved", "flipped"}
    <3>1. flushing[Host] = None /\ Busy = {}
      BY <2>2 DEF Phases
    <3>2. HostRests \/ SaveThin \/ Flip
      BY <2>1, <2>2, SealedRests, IdleIs DEF Retire, Crash
    <3>3. QED
      BY <3>1, <3>2 DEF HostRests, SaveThin, Flip, Busy
  <2>3. CASE Check
    <3>1. open[Host] = None \/ Sealed(open[Host])
      BY <2>1, <2>3, IdleIs DEF Check
    <3>2. Busy = {}
      BY <3>1 DEF Sealed, SeedBlocked, Busy, RunsOf
    <3>3. flushing[Host] = None
      BY <2>3, HostIs, QuietIs, RecordedIs DEF Check, Quiet
    <3>4. QED
      BY <2>3, <3>2, <3>3 DEF Check, device, Busy
  <2>4. ~Arm /\ ~Post /\ ~Rebuilds
    BY <2>1, IdleIs DEF Arm, Post, Rebuilds, Shapes, Seeds
  <2>5. QED
    BY <2>1, <2>2, <2>3, <2>4, SeedMoves, IdleIs DEF SaveThin, Flip
<1>6. QED
  BY <1>1, <1>2, <1>3, <1>4, <1>5 DEF Phases
-----------------------------------------------------------------------------
(* What flows into the documents of the new lineage. *)

LEMMA RoomMoves ==
  ASSUME Moves
  PROVE  room' = room \/ Post \/ \E d \in Devices : \E k : Pushes(d, k)
<1>1. ASSUME Writes PROVE room' = room
  <2>1. ASSUME NEW d, NEW k, NEW X, Talks(d, k, X) \/ Builds(d, k, X) PROVE room' = room
    BY <2>1 DEF Talks, Builds, Elsewhere
  <2>2. ASSUME NEW d, NEW k, NEW X, Uses(d, k, X) PROVE room' = room
    BY <2>1, <2>2 DEF Uses
  <2>3. ASSUME NEW c, NEW k, NEW o, Works(c, k, o) PROVE room' = room
    BY <2>1, <2>3 DEF Works
  <2>4. ASSUME NEW k, NEW X, Restores(k, X) PROVE room' = room
    BY <2>1, <2>4 DEF Restores
  <2>5. QED
    BY <1>1, <2>2, <2>3, <2>4 DEF Writes
<1>2. ASSUME NEW d \in Devices, NEW r, NEW k, Saves(d, r, k) \/ Flushes(d, r) \/ Hears(d, k) PROVE room' = room
  BY <1>2 DEF Saves, Flushes, Stores, Hears
<1>3. ASSUME NEW d \in Devices, Learn(d) \/ Cutover(d) \/ Evict(d) \/ Crash(d) PROVE room' = room
  BY <1>3 DEF Learn, Cutover, Evict, Crash
<1>4. ASSUME Arm \/ Rebuilds \/ PostFails \/ Check \/ SaveThin \/ Flip \/ Retire PROVE room' = room
  BY <1>4 DEF Arm, Rebuilds, PostFails, Check, SaveThin, Flip, Retire
<1>5. QED
  BY <1>1, <1>2, <1>3, <1>4 DEF Moves

\* After the flip has begun, the room only gains.
LEMMA ContentGrows ==
  ASSUME Shapes, Phases, Moves, ~Before
  PROVE  Content \subseteq Content' /\ room'.ckpt = room.ckpt
<1>1. ~Post
  BY DEF Post, Phases
<1>2. CASE room' = room
  BY <1>2 DEF Content
<1>3. ASSUME NEW d, NEW k, Pushes(d, k) PROVE Content \subseteq Content' /\ room'.ckpt = room.ckpt
  BY <1>3 DEF Pushes, Content
<1>4. QED
  BY <1>1, <1>2, <1>3, RoomMoves

\* A handle that is saved is of the lineage of the row it is saved to.
LEMMA SameLineage ==
  ASSUME Calm, Shapes, Phases, NEW d \in Devices
  PROVE  /\ open[d] # None /\ Undisturbed(d) /\ ThinRow(d) => open[d].gen = 2
         /\ flushing[d] # None /\ ThinRow(d) => flushing[d].gen = 2
<1>1. Placed(d, open[d], flushing[d], gen[d], row[d], copy[d], seed.at)
  BY DEF Phases
<1>2. ASSUME open[d] # None, Undisturbed(d), ThinRow(d) PROVE open[d].gen = 2
  <2>1. open[d].gen \in 1..2
    BY <1>2 DEF Shapes, Handles
  <2>2. Quiet(d)
    BY <1>2, QuietIs
  <2>3. QED
    BY <1>1, <1>2, <2>1, <2>2 DEF Placed, Fits, ThinRow, Quiet
<1>3. ASSUME flushing[d] # None, ThinRow(d) PROVE flushing[d].gen = 2
  <2>1. flushing[d].gen \in 1..2
    BY <1>3 DEF Shapes, Handles
  <2>2. ~(d = Host /\ seed.at \in {"saved", "flipped"})
    BY <1>3 DEF Phases
  <2>3. QED
    BY <1>1, <1>3, <2>1, <2>2 DEF Placed, Fits, ThinRow
<1>4. QED
  BY <1>2, <1>3

LEMMA FromIs ==
  ASSUME NEW d, NEW A, NEW B, NEW said
  PROVE  /\ From(d, {}, said)
         /\ From(d, A, said) /\ From(d, B, said) => From(d, A \cup B, said)
         /\ A \subseteq B /\ From(d, B, said) => From(d, A, said)
         /\ From(d, A, said) /\ said \subseteq B => From(d, A, B)
BY DEF From, NoFat, MsgOps

LEMMA FlowedAt ==
  ASSUME Flows, NEW d \in Devices, Content \subseteq Content',
         Flowed(d, open'[d], flushing'[d], row'[d], Content'),
         \A e \in Devices \ {d} : row'[e] = row[e] /\ open'[e] = open[e] /\ flushing'[e] = flushing[e]
  PROVE  \A e \in Devices : Flowed(e, open'[e], flushing'[e], row'[e], Content')
<1>1. \A e \in Devices : Flowed(e, open[e], flushing[e], row[e], Content)
  BY DEF Flows
<1>2. ASSUME NEW e \in Devices PROVE Flowed(e, open[e], flushing[e], row[e], Content')
  BY <1>1, FromIs DEF Flowed
<1>3. QED
  BY <1>2

LEMMA FlowedWrites ==
  ASSUME Calm, Shapes, Phases, Flows, NEW d \in Devices, Undisturbed(d), NEW k, NEW X,
         Talks(d, k, X) \/ Builds(d, k, X), k.gen = 2 => From(d, X, Content)
  PROVE  \A e \in Devices : Flowed(e, open'[e], flushing'[e], row'[e], Content')
<1>0. /\ k # None /\ open' = [open EXCEPT ![d] = k] /\ flushing' = flushing /\ Content' = Content
      /\ open'[d] = k
  BY LineageAssumption DEF Talks, Builds, Grown, Elsewhere, Shapes, Content
<1>1. From(d, NewRows(row[d]), Content) /\ From(d, NewDoc(open[d]), Content)
      /\ From(d, NewDoc(flushing[d]), Content)
  BY DEF Flows, Flowed
<1>2. ASSUME k.gen = 2 PROVE From(d, k.ops, Content)
  <2>1. CASE Talks(d, k, X)
    <3>1. NewDoc(open[d]) = open[d].ops /\ k.ops = open[d].ops \cup X
      BY <1>2, <2>1 DEF Talks, Grown, NewDoc
    <3>2. QED
      BY <1>1, <1>2, <3>1, FromIs
  <2>2. CASE BuildsAdopted(d, k, X)
    <3>1. row[d].ops \in Docs
      BY <2>2 DEF BuildsAdopted, Shapes, Rows
    <3>2. \A o \in Requeued(d, row[d].ops) : o.item.kind = "cmd" /\ o.copy = Live
      BY <3>1, RequeuedIs
    <3>3. From(d, Requeued(d, row[d].ops), Content)
      BY <3>2 DEF From, NoFat, MsgOps, Live, Fat
    <3>4. QED
      BY <1>2, <2>2, <3>3, FromIs DEF BuildsAdopted
  <2>3. CASE BuildsBorn(d, k, X)
    BY <1>2, <2>3 DEF BuildsBorn
  <2>4. CASE BuildsThin(d, k, X)
    <3>1. NewRows(row[d]) = row[d].ops /\ k.ops = row[d].ops \cup X
      BY <2>4 DEF BuildsThin, NewRows, ThinRow
    <3>2. QED
      BY <1>1, <1>2, <3>1, FromIs
  <2>5. QED
    BY <1>2, <2>1, <2>2, <2>3, <2>4 DEF Builds, BuildsOld
<1>3. From(d, NewDoc(k), Content)
  BY <1>0, <1>2, FromIs DEF NewDoc
<1>4. From(d, NewRows(row'[d]), Content) /\ \A e \in Devices \ {d} : row'[e] = row[e]
  <2>1. CASE row' = row
    BY <1>1, <2>1
  <2>2. CASE BuildsBorn(d, k, X)
    <3> DEFINE r == [ops |-> {}, epoch |-> 2, met |-> FALSE]
    <3>1. NewRows(r) = {}
      BY DEF NewRows
    <3>2. row' = [row EXCEPT ![d] = r]
      BY <2>2 DEF BuildsBorn
    <3> HIDE DEF r
    <3>3. QED
      BY <3>1, <3>2, FromIs DEF Shapes
  <2>3. QED
    BY <2>1, <2>2 DEF Talks, Builds, BuildsOld, BuildsAdopted, BuildsThin
<1>5. Flowed(d, open'[d], flushing'[d], row'[d], Content')
  BY <1>0, <1>1, <1>3, <1>4 DEF Flowed
<1>6. QED
  BY <1>0, <1>4, <1>5, FlowedAt DEF Shapes

LEMMA OldIsEmpty ==
  ASSUME NEW g, NEW r, NEW k, NEW o, NEW f, OldAt(g, r, k, o, f)
  PROVE  NewRows(r) = {} /\ NewDoc(o) = {} /\ NewDoc(f) = {}
BY DEF OldAt, NewRows, NewDoc

LEMMA FlowedMoves ==
  ASSUME Calm, Shapes, Phases, Flows, Moves
  PROVE  \A e \in Devices : Flowed(e, open'[e], flushing'[e], row'[e], Content')
<1> DEFINE Goal == \A e \in Devices : Flowed(e, open'[e], flushing'[e], row'[e], Content')
<1>0. \A d \in Devices : From(d, NewRows(row[d]), Content) /\ From(d, NewDoc(open[d]), Content)
                         /\ From(d, NewDoc(flushing[d]), Content)
  BY DEF Flows, Flowed
<1>1. ASSUME Before, ~SaveThin PROVE Goal
  <2>1. \A e \in Devices : OldAt(gen'[e], row'[e], copy'[e], open'[e], flushing'[e])
    <3>1. Before'
      BY <1>1, BeforeStays
    <3>2. QED
      BY <3>1 DEF Before, OldAt, ThinRow
  <2>2. QED
    BY <2>1, OldIsEmpty, FromIs DEF Flowed
<1>2. ASSUME SaveThin PROVE Goal
  <2> DEFINE r == [ops |-> seed.thin, epoch |-> 2, met |-> FALSE]
  <2>1. From(Host, seed.thin, Content)
    BY DEF Flows, From
  <2>2. NewRows(r) = seed.thin
    <3>1. r \in Rows /\ r.epoch = 2 /\ r.ops = seed.thin
      BY DEF Rows, Shapes, Seeds
    <3> HIDE DEF r
    <3>2. QED
      BY <3>1, LineageAssumption DEF NewRows, Turned
  <2>3. row' = [row EXCEPT ![Host] = r] /\ UNCHANGED <<open, flushing>> /\ Content' = Content
    BY <1>2 DEF SaveThin, Content
  <2> HIDE DEF r
  <2>4. Flowed(Host, open[Host], flushing[Host], r, Content)
    BY <1>0, <2>1, <2>2, HostIs DEF Flowed
  <2>5. QED
    BY <2>3, <2>4, HostIs, FlowedAt DEF Shapes
<1>3. ASSUME ~Before PROVE Content \subseteq Content'
  BY <1>3, ContentGrows
<1>5. ASSUME NEW d \in Devices, NEW k, NEW X, Uses(d, k, X) PROVE Goal
  <2>1. k.gen = 2 => From(d, X, Content)
    BY <1>5 DEF Uses, Own, From, NoFat, MsgOps, Live, Fat
  <2>2. QED
    BY <1>5, <2>1, FlowedWrites DEF Uses
<1>6. ASSUME NEW c \in Cmds, NEW k, NEW o, Works(c, k, o) PROVE Goal
  <2>1. k.gen = 2 => From(Host, {o}, Content)
    BY <1>6 DEF Works, Own, From, NoFat, Live, Fat
  <2>2. QED
    BY <1>6, <2>1, HostIs, FlowedWrites DEF Works
<1>7. ASSUME NEW k, NEW X, Restores(k, X) PROVE Goal
  <2>1. From(Host, X, Content)
    BY <1>7 DEF Restores, From, NoFat
  <2>2. QED
    BY <1>7, <2>1, HostIs, FlowedWrites DEF Restores
<1>8. ASSUME NEW d \in Devices, NEW r, NEW k, Saves(d, r, k), ~Before PROVE Goal
  <2>1. open[d] # None /\ (ThinRow(d) => open[d].gen = 2)
    BY <1>8, SameLineage DEF Saves
  <2>2. Turned(r) => ThinRow(d) /\ r.ops = open[d].ops
    BY <1>8 DEF Saves, Stores
  <2>3. From(d, NewRows(r), Content)
    BY <1>0, <2>1, <2>2, FromIs DEF NewRows, NewDoc
  <2>4. k # None /\ NewDoc(k) = NewDoc(open[d])
    BY <1>8, <2>1 DEF Saves, Like, NewDoc
  <2>5. row' = [row EXCEPT ![d] = r] /\ open' = [open EXCEPT ![d] = k] /\ flushing' = flushing
        /\ Content' = Content
    BY <1>8 DEF Saves, Stores, Content
  <2>6. Flowed(d, k, flushing[d], r, Content)
    BY <1>0, <2>3, <2>4 DEF Flowed
  <2>7. QED
    BY <2>5, <2>6, FlowedAt DEF Shapes
<1>9. ASSUME NEW d \in Devices, NEW r, Flushes(d, r), ~Before PROVE Goal
  <2>1. flushing[d] # None /\ (ThinRow(d) => flushing[d].gen = 2)
    BY <1>9, SameLineage DEF Flushes
  <2>2. Turned(r) => ThinRow(d) /\ r.ops = flushing[d].ops
    BY <1>9 DEF Flushes, Stores
  <2>3. From(d, NewRows(r), Content)
    BY <1>0, <2>1, <2>2, FromIs DEF NewRows, NewDoc
  <2>4. row' = [row EXCEPT ![d] = r] /\ flushing' = [flushing EXCEPT ![d] = None] /\ open' = open
        /\ Content' = Content
    BY <1>9 DEF Flushes, Stores, Content
  <2>5. NewDoc(None) = {}
    BY DEF NewDoc
  <2>6. Flowed(d, open[d], None, r, Content)
    BY <1>0, <2>3, <2>5, FromIs DEF Flowed
  <2>7. QED
    BY <2>4, <2>6, FlowedAt DEF Shapes
<1>10. ASSUME NEW d \in Devices, NEW k, Hears(d, k), ~Before PROVE Goal
  <2>1. /\ k # None /\ k.gen = 2 /\ k.ops = open[d].ops \cup Content /\ open[d] # None /\ open[d].gen = 2
    BY <1>10 DEF Hears, Like
  <2>2. From(d, Content, Content)
    BY DEF Flows, From, MsgOps
  <2>3. From(d, k.ops, Content)
    BY <1>0, <2>1, <2>2, FromIs DEF NewDoc
  <2>4. NewDoc(k) = k.ops
    BY <2>1 DEF NewDoc
  <2>5. open' = [open EXCEPT ![d] = k] /\ flushing' = flushing /\ Content' = Content
    BY <1>10 DEF Hears, Content
  <2>6. CASE row' = row
    <3>1. Flowed(d, k, flushing[d], row[d], Content)
      BY <1>0, <2>3, <2>4 DEF Flowed
    <3>2. QED
      BY <2>5, <2>6, <3>1, FlowedAt DEF Shapes
  <2>7. ASSUME NEW r, r.ops = k.ops, row' = [row EXCEPT ![d] = r] PROVE Goal
    <3>1. From(d, NewRows(r), Content)
      BY <2>3, <2>7, FromIs DEF NewRows
    <3>2. Flowed(d, k, flushing[d], r, Content)
      BY <1>0, <2>3, <2>4, <3>1 DEF Flowed
    <3>3. QED
      BY <2>5, <2>7, <3>2, FlowedAt DEF Shapes
  <2>8. QED
    BY <1>10, <2>6, <2>7 DEF Hears
<1>11. ASSUME NEW d \in Devices, NEW k, Pushes(d, k), ~Before PROVE Goal
  <2>1. k # None /\ open[d] # None /\ NewDoc(k) = NewDoc(open[d])
    BY <1>11 DEF Pushes, Like, NewDoc
  <2>2. open' = [open EXCEPT ![d] = k] /\ UNCHANGED <<row, flushing>>
    BY <1>11 DEF Pushes
  <2>3. Flowed(d, k, flushing[d], row[d], Content)
    BY <1>0, <2>1 DEF Flowed
  <2>4. Flowed(d, k, flushing[d], row[d], Content')
    BY <1>3, <1>11, <2>3, FromIs DEF Flowed
  <2>5. QED
    BY <1>3, <1>11, <2>2, <2>4, FlowedAt DEF Shapes
<1>12. ASSUME NEW d \in Devices, Cutover(d) \/ Evict(d) \/ Crash(d) PROVE Goal
  <2>1. /\ open' = [open EXCEPT ![d] = None] /\ row' = row /\ Content' = Content
        /\ \/ flushing' = flushing \/ flushing' = [flushing EXCEPT ![d] = open[d]]
           \/ flushing' = [flushing EXCEPT ![d] = None]
    BY <1>12 DEF Cutover, Evict, Crash, Content
  <2>2. NewDoc(None) = {}
    BY DEF NewDoc
  <2>3. Flowed(d, None, flushing'[d], row[d], Content)
    BY <1>0, <2>1, <2>2, FromIs DEF Flowed, Shapes
  <2>4. QED
    BY <2>1, <2>3, FlowedAt DEF Shapes
<1>13. ASSUME UNCHANGED <<open, flushing, row, room>> PROVE Goal
  <2>1. Content' = Content
    BY <1>13 DEF Content
  <2>2. QED
    BY <1>13, <2>1 DEF Flows
<1>14. ASSUME NEW d \in Devices, Learn(d) PROVE Goal
  BY <1>13, <1>14 DEF Learn
<1>15. ASSUME Arm \/ Rebuilds \/ PostFails \/ Check \/ Flip PROVE Goal
  BY <1>13, <1>15 DEF Arm, Rebuilds, PostFails, Check, Flip, device
<1>16. ASSUME Retire PROVE Goal
  <2>1. open' = [open EXCEPT ![Host] = None] /\ UNCHANGED <<row, flushing, room>>
    <3>1. Busy = {}
      BY <1>16 DEF Retire, Phases
    <3>2. open[Host] = None \/ open[Host].runs = {}
      BY <3>1 DEF Busy, RunsOf
    <3>3. QED
      BY <1>16, <3>2, HostIs DEF Retire, Shapes
  <2>2. NewDoc(None) = {}
    BY DEF NewDoc
  <2>3. Flowed(Host, None, flushing[Host], row[Host], Content)
    BY <1>0, <2>2, HostIs, FromIs DEF Flowed
  <2>4. QED
    BY <2>1, <2>3, HostIs, FlowedAt DEF Shapes, Content
<1>17. ASSUME Post, ~Before PROVE FALSE
  BY <1>17 DEF Post, Phases
<1> HIDE DEF Goal
<1>18. Goal
  BY <1>1, <1>2, <1>5, <1>6, <1>7, <1>8, <1>9, <1>10, <1>11, <1>12, <1>14, <1>15, <1>16, <1>17
     DEF Moves, Writes
<1>19. QED
  BY <1>18 DEF Goal

LEMMA FlowsMoves ==
  ASSUME Calm, Shapes, Grounded, Phases, Flows, Moves
  PROVE  Flows'
<1>1. NoFat(Content')
  <2>1. CASE room' = room
    BY <2>1 DEF Content, Flows
  <2>2. CASE Post
    <3>1. room' = [room EXCEPT !.ckpt = seed.thin] /\ room.rows = {}
      BY <2>2 DEF Post, Phases, Before
    <3>2. Content' = seed.thin
      BY <3>1 DEF Content, Shapes
    <3>3. QED
      BY <3>2 DEF Flows
  <2>3. ASSUME NEW d \in Devices, NEW k, Pushes(d, k) PROVE NoFat(Content')
    <3>1. open[d] # None /\ Fits(d, open[d], gen[d], row[d], copy[d], seed.at) /\ open[d].joined
      BY <2>3 DEF Pushes, Phases, Placed
    <3>2. open[d].out \subseteq NewDoc(open[d])
      BY <3>1 DEF Fits, NewDoc
    <3>3. NoFat(NewDoc(open[d]))
      BY DEF Flows, Flowed, From
    <3>4. Content' = Content \cup open[d].out
      BY <2>3 DEF Pushes, Content
    <3>5. QED
      BY <3>2, <3>3, <3>4 DEF NoFat, Flows
  <2>4. QED
    BY <2>1, <2>2, <2>3, RoomMoves
<1>2. NoFat(seed'.thin) /\ (seed'.at \in {"posted", "sealed"} => room'.ckpt = seed'.thin)
  <2>1. CASE seed' = seed
    <3>1. CASE seed.at \in {"posted", "sealed"}
      <4>1. ~Post
        BY <2>1, <3>1 DEF Post
      <4>2. room'.ckpt = room.ckpt
        BY <4>1, RoomMoves DEF Pushes
      <4>3. QED
        BY <2>1, <4>2 DEF Flows
    <3>2. QED
      BY <2>1, <3>1 DEF Flows
  <2>2. CASE seed' = Idle
    BY <2>2, IdleIs DEF NoFat
  <2>3. CASE Post
    BY <2>3 DEF Post, Flows, Shapes, Seeds
  <2>4. CASE Check /\ seed' # Idle
    <3>1. seed.at = "posted" /\ seed' = [seed EXCEPT !.at = "sealed"] /\ room' = room
      BY <2>4 DEF Check
    <3>2. seed'.thin = seed.thin
      BY <3>1 DEF Shapes, Seeds
    <3>3. QED
      BY <3>1, <3>2 DEF Flows
  <2>5. CASE Rebuilds /\ seed' # Idle
    <3>1. PICK n \in Nat : n # Fat /\ seed'.thin = Rebuilt(open[Host].ops, n)
      BY <2>5 DEF Rebuilds
    <3>2. open[Host].ops \in Docs /\ seed'.at = "posting"
      BY <2>5, HostIs DEF Rebuilds, Shapes, Handles
    <3>3. \A o \in seed'.thin : o.copy = n
      BY <3>1, <3>2, RebuiltIs
    <3>4. QED
      BY <3>1, <3>2, <3>3 DEF NoFat
  <2>6. CASE Arm \/ SaveThin \/ Flip
    <3>1. seed'.at \notin {"posted", "sealed"} /\ (seed'.thin = seed.thin \/ seed'.thin = {})
      BY <2>6, IdleIs DEF Arm, SaveThin, Flip, Shapes, Seeds
    <3>2. QED
      BY <3>1 DEF Flows, NoFat
  <2>7. QED
    BY <2>1, <2>2, <2>3, <2>4, <2>5, <2>6, SeedMoves
<1>3. \A e \in Devices : Flowed(e, open'[e], flushing'[e], row'[e], Content')
  BY FlowedMoves
<1>4. QED
  BY <1>1, <1>2, <1>3 DEF Flows
-----------------------------------------------------------------------------
(* Nothing is said twice. *)

LEMMA OnceIs ==
  /\ \A A, B : Once(A) /\ MsgOps(B) \subseteq A => Once(B)
  /\ Once({})
  /\ \A A, B : MsgOps(A \cup B) = MsgOps(A) \cup MsgOps(B) /\ MsgOps(A) \subseteq A
BY DEF Once, MsgOps

\* All the new lineage as the host has it.
Union == Content \cup HostDocs

LEMMA HostDocsAre ==
  ASSUME Shapes
  PROVE  HostDocs \subseteq AllOps /\ Union \subseteq AllOps
<1>1. NewRows(row[Host]) \subseteq OpsOf(row[Host]) /\ NewDoc(open[Host]) \subseteq OpsOf(open[Host])
      /\ NewDoc(flushing[Host]) \subseteq OpsOf(flushing[Host])
  BY OpsOfIs DEF NewRows, NewDoc, Turned
<1>2. QED
  BY <1>1, HostIs, AllOpsHas DEF HostDocs, Union

\* When the host writes to its document, it says something only once.
LEMMA OnceWrites ==
  ASSUME Calm, Shapes, Phases, ThinRow(Host), Once(Union), NEW k, NEW X, Undisturbed(Host),
         Talks(Host, k, X) \/ Builds(Host, k, X), Once(Union \cup X)
  PROVE  Once(Union')
<1>1. /\ k # None /\ open'[Host] = k /\ flushing' = flushing /\ Content' = Content
  BY HostIs, LineageAssumption DEF Talks, Builds, Grown, Elsewhere, Shapes, Content
<1>2. row' = row /\ NewDoc(k) \subseteq HostDocs \cup X
  <2>1. CASE Talks(Host, k, X)
    <3>1. k.gen = open[Host].gen /\ k.ops = open[Host].ops \cup X /\ open[Host] # None /\ row' = row
      BY <2>1 DEF Talks, Grown
    <3>2. NewDoc(k) \subseteq NewDoc(open[Host]) \cup X
      BY <3>1 DEF NewDoc
    <3>3. QED
      BY <3>1, <3>2 DEF HostDocs
  <2>2. CASE BuildsThin(Host, k, X)
    <3>1. NewDoc(k) \subseteq row[Host].ops \cup X /\ row' = row
      BY <2>2 DEF BuildsThin, NewDoc
    <3>2. NewRows(row[Host]) = row[Host].ops
      BY DEF NewRows, ThinRow
    <3>3. QED
      BY <3>1, <3>2 DEF HostDocs
  <2>3. ~BuildsOld(Host, k, X) /\ ~BuildsAdopted(Host, k, X) /\ ~BuildsBorn(Host, k, X)
    BY DEF BuildsOld, BuildsAdopted, BuildsBorn, ThinRow, Turned
  <2>4. QED
    BY <2>1, <2>2, <2>3 DEF Builds
<1>3. HostDocs' \subseteq HostDocs \cup X
  BY <1>1, <1>2 DEF HostDocs
<1>4. Union' \subseteq Union \cup X
  BY <1>1, <1>3 DEF Union
<1>5. QED
  BY <1>4, OnceIs

LEMMA SaidOnce ==
  ASSUME Shapes, Grounded, Once(Union), NEW c \in Cmds, NEW o, o.item.of = c,
         \/ o.item.kind = "msg" /\ c \notin processed
         \/ o.item.kind = "reply" /\ c \in Busy
  PROVE  Once(Union \cup {o})
<1>1. \A p \in Union : p.item.kind # "cmd" => p.item # o.item
  <2>1. SUFFICES ASSUME NEW p \in Union, p.item.kind # "cmd", p.item = o.item PROVE FALSE
    OBVIOUS
  <2>2. p \in AllOps /\ c # Old
    BY HostDocsAre, LineageAssumption
  <2>3. QED
    BY <2>1, <2>2 DEF Grounded, Told
<1>2. QED
  BY <1>1 DEF Once

\* The joined document of the host shows what the room says.
ShowsAll == open[Host] # None /\ open[Host].joined => MsgOps(Content) \subseteq open[Host].ops

LEMMA SinglesIs == Singles <=> Once(Union) /\ Once(seed.thin) /\ ShowsAll
BY DEF Singles, Union, ShowsAll

LEMMA OnceRestores ==
  ASSUME Shapes, Phases, Singles, ThinRow(Host), NEW k, NEW X, Restores(k, X), "salvage" \notin raced'
  PROVE  Once(Union \cup X)
<1>1. open[Host] # None /\ open[Host].joined /\ Messages(open[Host].ops) = {}
      /\ \A o, p \in X : o.item = p.item => o = p
  BY DEF Restores
<1>2. MsgOps(open[Host].ops) = {}
  BY <1>1 DEF Messages, MsgOps, ItemsOf
<1>3. MsgOps(Content) = {}
  BY <1>1, <1>2 DEF Singles, MsgOps
<1>4. flushing[Host] = None /\ Fits(Host, open[Host], gen[Host], row[Host], copy[Host], seed.at)
  BY <1>1, HostIs DEF Phases, Placed
<1>5. OpsOf(row[Host]) \subseteq open[Host].ops
  BY <1>1, <1>4 DEF Fits, ThinRow
<1>6. HostDocs \subseteq open[Host].ops
  <2>1. NewRows(row[Host]) \subseteq OpsOf(row[Host]) /\ NewDoc(flushing[Host]) = {}
        /\ NewDoc(open[Host]) \subseteq open[Host].ops
    BY <1>4, OpsOfIs DEF NewRows, NewDoc, Turned
  <2>2. QED
    BY <1>5, <2>1 DEF HostDocs
<1>7. MsgOps(Union) = {}
  BY <1>2, <1>3, <1>6 DEF Union, MsgOps
<1>8. QED
  BY <1>1, <1>7 DEF Once, MsgOps

LEMMA OnceMoves ==
  ASSUME Calm, "salvage" \notin raced', Shapes, Grounded, Phases, Flows, Singles, Moves, ~Before
  PROVE  Once(Union') /\ ShowsAll'
<1>0. ThinRow(Host) /\ Once(Union) /\ ShowsAll
  BY SinglesIs DEF Phases
<1> DEFINE Goal == Once(Union') /\ ShowsAll'
<1>1. ASSUME NEW B, MsgOps(B) \subseteq Union, Content' \cup HostDocs' \subseteq Union \cup B PROVE Once(Union')
  <2>1. MsgOps(Union') \subseteq Union
    BY <1>1 DEF MsgOps, Union
  <2>2. QED
    BY <1>0, <2>1, OnceIs
<1>2. MsgOps({}) = {}
  BY DEF MsgOps
<1>3. ASSUME row'[Host] = row[Host], open'[Host] = open[Host], flushing'[Host] = flushing[Host],
             room' = room
      PROVE  Goal
  <2>1. HostDocs' = HostDocs /\ Content' = Content
    BY <1>3 DEF HostDocs, Content
  <2>2. Once(Union')
    BY <1>0, <2>1 DEF Union
  <2>3. QED
    BY <1>0, <1>3, <2>1, <2>2 DEF ShowsAll
<1>4. ASSUME open'[Host] = None, HostDocs' \subseteq Union, Content' = Content PROVE Goal
  <2>1. Once(Union')
    BY <1>1, <1>2, <1>4 DEF Union
  <2>2. QED
    BY <1>4, <2>1 DEF ShowsAll
<1>5. ASSUME NEW k, NEW X, Talks(Host, k, X) \/ Builds(Host, k, X), Undisturbed(Host), Once(Union \cup X)
      PROVE  Goal
  <2>1. Once(Union')
    BY <1>0, <1>5, OnceWrites
  <2>2. open'[Host] = k /\ Content' = Content /\ k # None
        /\ (k.joined => open[Host] # None /\ open[Host].joined /\ open[Host].ops \subseteq k.ops)
    BY <1>5, HostIs, LineageAssumption DEF Talks, Builds, Grown, Elsewhere, Shapes, Content
  <2>3. QED
    BY <1>0, <2>1, <2>2 DEF ShowsAll
<1>6. ASSUME NEW d \in Devices, NEW k, NEW X, Uses(d, k, X) PROVE Goal
  <2>1. CASE d = Host
    <3>1. MsgOps(X) = {}
      BY <1>6 DEF Uses, MsgOps
    <3>2. Once(Union \cup X)
      BY <1>0, <3>1 DEF Once, MsgOps
    <3>3. QED
      BY <1>5, <1>6, <2>1, <3>2 DEF Uses
  <2>2. CASE d # Host
    <3>1. open' = [open EXCEPT ![d] = k] /\ flushing' = flushing /\ room' = room
          /\ (Talks(d, k, X) \/ Builds(d, k, X))
      BY <1>6 DEF Uses, Talks, Builds, Elsewhere
    <3>2. row'[Host] = row[Host]
      BY <2>2, <3>1, HostIs DEF Talks, Builds, BuildsOld, BuildsAdopted, BuildsBorn, BuildsThin, Shapes
    <3>3. QED
      BY <1>3, <2>2, <3>1, <3>2, HostIs DEF Shapes
  <2>3. QED
    BY <2>1, <2>2
<1>7. ASSUME NEW c \in Cmds, NEW k, NEW o, Works(c, k, o) PROVE Goal
  <2>1. /\ o.item.of = c
        /\ \/ o.item.kind = "msg" /\ c \notin processed
           \/ o.item.kind = "reply" /\ c \in Busy
    BY <1>7 DEF Works, Talks, Busy, RunsOf
  <2>2. Once(Union \cup {o})
    BY <1>0, <2>1, SaidOnce
  <2>3. QED
    BY <1>5, <1>7, <2>2 DEF Works
<1>8. ASSUME NEW k, NEW X, Restores(k, X) PROVE Goal
  <2>1. Once(Union \cup X)
    BY <1>0, <1>8, OnceRestores
  <2>2. QED
    BY <1>5, <1>8, <2>1 DEF Restores
<1>9. ASSUME NEW d \in Devices, NEW r, NEW k, Saves(d, r, k) PROVE Goal
  <2>1. /\ row' = [row EXCEPT ![d] = r] /\ open' = [open EXCEPT ![d] = k] /\ flushing' = flushing /\ room' = room
    BY <1>9 DEF Saves, Stores
  <2>2. CASE d # Host
    BY <1>3, <2>1, <2>2, HostIs DEF Shapes
  <2>3. CASE d = Host
    <3>1. open[Host] # None /\ open[Host].gen = 2 /\ r.ops = open[Host].ops
          /\ k.ops = open[Host].ops /\ k.gen = 2 /\ k.joined = open[Host].joined /\ k # None
      BY <1>0, <1>9, <2>3, HostIs, SameLineage DEF Saves, Stores, Like
    <3>2. row'[Host] = r /\ open'[Host] = k
      BY <2>1, <2>3, HostIs DEF Shapes
    <3>3. NewRows(r) \subseteq NewDoc(open[Host]) /\ NewDoc(k) = NewDoc(open[Host])
      BY <3>1 DEF NewRows, NewDoc
    <3>4. Content' = Content /\ HostDocs' \subseteq HostDocs
      BY <2>1, <3>2, <3>3 DEF HostDocs, Content
    <3>5. Once(Union')
      BY <1>1, <1>2, <3>4 DEF Union
    <3>6. QED
      BY <1>0, <3>1, <3>2, <3>4, <3>5 DEF ShowsAll
  <2>4. QED
    BY <2>2, <2>3
<1>10. ASSUME NEW d \in Devices, NEW r, Flushes(d, r) PROVE Goal
  <2>1. /\ row' = [row EXCEPT ![d] = r] /\ flushing' = [flushing EXCEPT ![d] = None] /\ open' = open /\ room' = room
    BY <1>10 DEF Flushes, Stores
  <2>2. CASE d # Host
    BY <1>3, <2>1, <2>2, HostIs DEF Shapes
  <2>3. CASE d = Host
    <3>1. flushing[Host] # None /\ flushing[Host].gen = 2 /\ r.ops = flushing[Host].ops
      BY <1>0, <1>10, <2>3, HostIs, SameLineage DEF Flushes, Stores
    <3>2. row'[Host] = r /\ flushing'[Host] = None
      BY <2>1, <2>3, HostIs DEF Shapes
    <3>3. NewRows(r) \subseteq NewDoc(flushing[Host]) /\ NewDoc(None) = {}
      BY <3>1 DEF NewRows, NewDoc
    <3>4. Content' = Content /\ HostDocs' \subseteq HostDocs
      BY <2>1, <3>2, <3>3 DEF HostDocs, Content
    <3>5. open[Host] = None
      BY <3>1, HostIs DEF Phases, Placed
    <3>6. QED
      BY <1>4, <2>1, <3>4, <3>5 DEF Union
  <2>4. QED
    BY <2>2, <2>3
<1>11. ASSUME NEW d \in Devices, NEW k, Hears(d, k) PROVE Goal
  <2>1. open' = [open EXCEPT ![d] = k] /\ flushing' = flushing /\ room' = room
    BY <1>11 DEF Hears
  <2>2. CASE d # Host
    <3>1. row'[Host] = row[Host]
      BY <1>11, <2>2, HostIs DEF Hears, Shapes
    <3>2. QED
      BY <1>3, <2>1, <2>2, <3>1, HostIs DEF Shapes
  <2>3. CASE d = Host
    <3>1. open[Host] # None /\ open[Host].gen = 2 /\ k # None /\ k.ops = open[Host].ops \cup Content
      BY <1>11, <2>3 DEF Hears, Like
    <3>2. open'[Host] = k
      BY <2>1, <2>3, HostIs DEF Shapes
    <3>3. k.ops \subseteq Union
      BY <3>1 DEF Union, HostDocs, NewDoc
    <3>4. NewRows(row'[Host]) \subseteq Union
      <4>1. CASE row' = row
        BY <4>1 DEF Union, HostDocs
      <4>2. ASSUME NEW r, r.ops = k.ops, row' = [row EXCEPT ![Host] = r] PROVE NewRows(row'[Host]) \subseteq Union
        <5>1. row'[Host] = r
          BY <4>2, HostIs DEF Shapes
        <5>2. QED
          BY <3>3, <4>2, <5>1 DEF NewRows
      <4>3. QED
        BY <1>11, <2>3, <4>1, <4>2 DEF Hears
    <3>5. Content' = Content /\ HostDocs' \subseteq Union
      <4>1. NewDoc(k) \subseteq Union /\ NewDoc(flushing[Host]) \subseteq Union
        BY <3>3 DEF NewDoc, Union, HostDocs
      <4>2. QED
        BY <2>1, <3>2, <3>4, <4>1 DEF HostDocs, Content
    <3>6. Once(Union')
      BY <1>1, <1>2, <3>5 DEF Union
    <3>7. QED
      BY <3>1, <3>2, <3>5, <3>6 DEF ShowsAll, MsgOps
  <2>4. QED
    BY <2>2, <2>3
<1>12. ASSUME NEW d \in Devices, NEW k, Pushes(d, k) PROVE Goal
  <2>1. /\ open' = [open EXCEPT ![d] = k] /\ UNCHANGED <<row, flushing>> /\ Content' = Content \cup open[d].out
        /\ open[d] # None /\ open[d].joined /\ k # None /\ k.ops = open[d].ops /\ k.gen = open[d].gen
    BY <1>12 DEF Pushes, Like, Content
  <2>2. open[d].gen = 2 /\ open[d].out \subseteq open[d].ops
    BY <2>1 DEF Phases, Placed, Fits
  <2>3. CASE d # Host
    <3>1. MsgOps(open[d].ops) \subseteq Content
      BY <2>1, <2>2, <2>3 DEF Flows, Flowed, From, NewDoc
    <3>2. MsgOps(open[d].out) \subseteq Content
      BY <2>2, <3>1 DEF MsgOps
    <3>3. open'[Host] = open[Host] /\ HostDocs' = HostDocs
      BY <2>1, <2>3, HostIs DEF HostDocs, Shapes
    <3>4. Once(Union')
      BY <1>1, <2>1, <3>2, <3>3 DEF Union
    <3>5. MsgOps(Content') \subseteq MsgOps(Content)
      BY <2>1, <3>2 DEF MsgOps
    <3>6. QED
      BY <1>0, <3>3, <3>4, <3>5 DEF ShowsAll
  <2>4. CASE d = Host
    <3>1. open'[Host] = k
      BY <2>1, <2>4, HostIs DEF Shapes
    <3>2. NewDoc(k) = NewDoc(open[Host]) /\ open[Host].out \subseteq NewDoc(open[Host])
      BY <2>1, <2>2, <2>4 DEF NewDoc
    <3>3. HostDocs' \subseteq HostDocs /\ Content' \subseteq Union
      BY <2>1, <2>4, <3>1, <3>2 DEF HostDocs, Union
    <3>4. Once(Union')
      BY <1>1, <1>2, <3>3 DEF Union
    <3>5. MsgOps(Content') \subseteq k.ops
      BY <1>0, <2>1, <2>2, <2>4 DEF ShowsAll, MsgOps
    <3>6. QED
      BY <3>1, <3>4, <3>5 DEF ShowsAll
  <2>5. QED
    BY <2>3, <2>4
<1>13. ASSUME NEW d \in Devices, Cutover(d) \/ Evict(d) \/ Crash(d) PROVE Goal
  <2>1. /\ open' = [open EXCEPT ![d] = None] /\ row' = row /\ room' = room
        /\ \/ flushing' = flushing \/ flushing' = [flushing EXCEPT ![d] = open[d]]
           \/ flushing' = [flushing EXCEPT ![d] = None]
    BY <1>13 DEF Cutover, Evict, Crash
  <2>2. CASE d # Host
    BY <1>3, <2>1, <2>2, HostIs DEF Shapes
  <2>3. CASE d = Host
    <3>1. open'[Host] = None /\ (flushing'[Host] \in {flushing[Host], open[Host], None})
      BY <2>1, <2>3, HostIs DEF Shapes
    <3>2. NewDoc(None) = {}
      BY DEF NewDoc
    <3>3. HostDocs' \subseteq HostDocs /\ Content' = Content
      BY <2>1, <3>1, <3>2 DEF HostDocs, Content
    <3>4. QED
      BY <1>4, <3>1, <3>3 DEF Union
  <2>4. QED
    BY <2>2, <2>3
<1>14. ASSUME NEW d \in Devices, Learn(d) PROVE Goal
  BY <1>3, <1>14 DEF Learn
<1>15. ASSUME Arm \/ Rebuilds \/ PostFails \/ Check \/ Flip PROVE Goal
  BY <1>3, <1>15 DEF Arm, Rebuilds, PostFails, Check, Flip, device
<1>16. ASSUME Retire PROVE Goal
  <2>1. open'[Host] = None /\ UNCHANGED <<row, flushing, room>>
    <3>1. Busy = {}
      BY <1>16 DEF Retire, Phases
    <3>2. open[Host] = None \/ open[Host].runs = {}
      BY <3>1 DEF Busy, RunsOf
    <3>3. QED
      BY <1>16, <3>2, HostIs DEF Retire, Shapes
  <2>2. NewDoc(None) = {}
    BY DEF NewDoc
  <2>3. HostDocs' \subseteq HostDocs /\ Content' = Content
    BY <2>1, <2>2 DEF HostDocs, Content
  <2>4. QED
    BY <1>4, <2>1, <2>3 DEF Union
<1>17. ~Post /\ ~SaveThin
  BY DEF Post, SaveThin, Phases
<1> HIDE DEF Goal
<1>18. Goal
  BY <1>6, <1>7, <1>8, <1>9, <1>10, <1>11, <1>12, <1>13, <1>14, <1>15, <1>16, <1>17
     DEF Moves, Writes
<1>19. QED
  BY <1>18 DEF Goal

LEMMA SinglesMoves ==
  ASSUME Calm, "salvage" \notin raced', Shapes, Grounded, Phases, Flows, Singles, Moves
  PROVE  Singles'
<1>1. Once(seed'.thin)
  <2>1. CASE seed' = seed \/ seed' = Idle
    BY <2>1, IdleIs, OnceIs DEF Singles
  <2>2. CASE Post \/ SaveThin \/ Flip \/ (Check /\ seed' # Idle)
    <3>1. seed'.thin = seed.thin
      BY <2>2 DEF Post, SaveThin, Flip, Check, Shapes, Seeds
    <3>2. QED
      BY <3>1 DEF Singles
  <2>3. CASE Arm
    <3>1. seed'.thin = {}
      BY <2>3 DEF Arm, Idle
    <3>2. QED
      BY <3>1, OnceIs
  <2>4. CASE Rebuilds /\ seed' # Idle
    <3>1. PICK n \in Nat : n # Fat /\ seed'.thin = Rebuilt(open[Host].ops, n)
      BY <2>4 DEF Rebuilds
    <3>2. open[Host].ops \in Docs
      BY <2>4, HostIs DEF Rebuilds, Shapes, Handles
    <3>3. \A o, p \in seed'.thin : o.item = p.item => o = p
      BY <3>1, <3>2, RebuiltIs
    <3>4. QED
      BY <3>3 DEF Once
  <2>5. QED
    BY <2>1, <2>2, <2>3, <2>4, SeedMoves
<1>2. CASE ~Before
  <2>1. Once(Union') /\ ShowsAll'
    BY <1>2, OnceMoves
  <2>2. QED
    BY <1>1, <2>1 DEF Singles, Union, ShowsAll
<1>3. CASE Before /\ SaveThin
  <2> DEFINE r == [ops |-> seed.thin, epoch |-> 2, met |-> FALSE]
  <2>1. NewRows(r) = seed.thin
    <3>1. r \in Rows /\ r.epoch = 2 /\ r.ops = seed.thin
      BY DEF Rows, Shapes, Seeds
    <3> HIDE DEF r
    <3>2. QED
      BY <3>1, LineageAssumption DEF NewRows, Turned
  <2>2. row' = [row EXCEPT ![Host] = r] /\ UNCHANGED <<open, flushing, room>> /\ seed.at = "sealed"
    BY <1>3 DEF SaveThin
  <2> HIDE DEF r
  <2>3. OldAt(gen[Host], row[Host], copy[Host], open[Host], flushing[Host])
    BY <1>3, HostIs, BeforeIs
  <2>4. NewDoc(open[Host]) = {} /\ NewDoc(flushing[Host]) = {}
    BY <2>3, OldIsEmpty
  <2>5. row'[Host] = r
    BY <2>2, HostIs DEF Shapes
  <2>6. HostDocs' = seed.thin
    BY <2>1, <2>2, <2>4, <2>5 DEF HostDocs
  <2>7. Content' = seed.thin
    BY <1>3, <2>2 DEF Content, Flows, Before
  <2>8. Once((Content \cup HostDocs)')
    BY <2>6, <2>7 DEF Singles
  <2>9. open[Host] # None => ~open[Host].joined
    BY <2>3, HostIs DEF OldAt, Phases, Placed, Fits
  <2>10. QED
    BY <1>1, <2>2, <2>8, <2>9 DEF Singles
<1>4. CASE Before /\ ~SaveThin
  <2>1. Before' /\ Phases'
    BY <1>4, BeforeStays, PhasesMoves
  <2>2. OldAt(gen'[Host], row'[Host], copy'[Host], open'[Host], flushing'[Host]) /\ room'.rows = {}
    BY <2>1, HostIs DEF Before, OldAt, ThinRow
  <2>3. HostDocs' = {}
    BY <2>2, OldIsEmpty DEF HostDocs
  <2>4. Once(room'.ckpt)
    <3>1. CASE Post
      <4>1. room'.ckpt = seed.thin
        BY <3>1 DEF Post, Shapes
      <4>2. QED
        BY <4>1 DEF Singles
    <3>2. CASE ~Post
      <4>1. room'.ckpt = room.ckpt
        BY <3>2, RoomMoves DEF Pushes
      <4>2. room.ckpt \subseteq Content \cup HostDocs /\ MsgOps(room.ckpt) \subseteq room.ckpt
        BY DEF Content, MsgOps
      <4>3. QED
        BY <4>1, <4>2, OnceIs DEF Singles
    <3>3. QED
      BY <3>1, <3>2
  <2>5. Once((Content \cup HostDocs)')
    BY <2>2, <2>3, <2>4 DEF Content
  <2>6. open'[Host] # None => ~open'[Host].joined
    <3>1. Placed(Host, open'[Host], flushing'[Host], gen'[Host], row'[Host], copy'[Host], seed'.at)
      BY HostIs, PlacedMoves
    <3>2. QED
      BY <2>2, <3>1 DEF OldAt, Placed, Fits
  <2>7. QED
    BY <1>1, <2>5, <2>6 DEF Singles
<1>5. QED
  BY <1>2, <1>3, <1>4
-----------------------------------------------------------------------------
(* No message is lost. *)

LEMMA SharedGrows ==
  ASSUME Shapes, Phases, Moves, NEW d \in Devices
  PROVE  /\ Shared(d) \subseteq Shared(d)'
         /\ ~Before => ItemsOf(Content) \subseteq ItemsOf(Content')
         /\ ~Before => ~Before'
<1>1. ASSUME ~Before PROVE ItemsOf(Content) \subseteq ItemsOf(Content') /\ ~Before'
  <2>1. ThinRow(Host)'
    BY <1>1, HostIs, ThinStays DEF Phases
  <2>2. ~Before'
    BY <2>1, HostIs DEF Before
  <2>3. Content \subseteq Content'
    BY <1>1, ContentGrows
  <2>4. QED
    BY <2>2, <2>3, ItemsUnion
<1>2. QED
  BY <1>1 DEF Shared

LEMMA HistAt ==
  ASSUME Shapes, Phases, Histories, Moves, NEW d \in Devices,
         Hist(d, stored'[d], row'[d], copy'[d], open'[d], flushing'[d], Shared(d), ItemsOf(Content))
           \/ Hist(d, stored'[d], row'[d], copy'[d], open'[d], flushing'[d], Shared(d)', ItemsOf(Content')),
         Before => ~(d # Host /\ (copy'[d] # None \/ Is2(open'[d]) \/ Is2(flushing'[d]))),
         \A e \in Devices \ {d} : /\ row'[e] = row[e] /\ copy'[e] = copy[e] /\ stored'[e] = stored[e]
                                  /\ open'[e] = open[e] /\ flushing'[e] = flushing[e]
  PROVE  Histories'
<1>0. \A e \in Devices : Hist(e, stored[e], row[e], copy[e], open[e], flushing[e], Shared(e), ItemsOf(Content))
  BY DEF Histories
<1>1. ASSUME NEW e \in Devices, NEW st, NEW r, NEW k, NEW o, NEW f,
             Hist(e, st, r, k, o, f, Shared(e), ItemsOf(Content)),
             Before => ~(e # Host /\ (k # None \/ Is2(o) \/ Is2(f)))
      PROVE  Hist(e, st, r, k, o, f, Shared(e)', ItemsOf(Content'))
  <2>1. Shared(e) \subseteq Shared(e)' /\ (~Before => ItemsOf(Content) \subseteq ItemsOf(Content'))
    BY SharedGrows
  <2>2. QED
    BY <1>1, <2>1 DEF Hist
<1>2. ASSUME NEW e \in Devices, e # d
      PROVE  Hist(e, stored'[e], row'[e], copy'[e], open'[e], flushing'[e], Shared(e)', ItemsOf(Content'))
  <2>1. Before => OldAt(gen[e], row[e], copy[e], open[e], flushing[e])
    BY BeforeIs
  <2>2. Before => ~(e # Host /\ (copy[e] # None \/ Is2(open[e]) \/ Is2(flushing[e])))
    BY <2>1 DEF OldAt, Is2
  <2>3. Hist(e, stored[e], row[e], copy[e], open[e], flushing[e], Shared(e)', ItemsOf(Content'))
    BY <1>0, <1>1, <2>2
  <2>4. QED
    BY <1>2, <2>3
<1>3. Hist(d, stored'[d], row'[d], copy'[d], open'[d], flushing'[d], Shared(d)', ItemsOf(Content'))
  BY <1>1
<1>4. QED
  BY <1>2, <1>3 DEF Histories

\* A document is written over the row of its device.
LEMMA HistStored ==
  ASSUME Shapes, Phases, Flows, Histories, NEW d \in Devices,
         NEW h, h = open[d] \/ h = flushing[d], h # None, ThinRow(d) => h.gen = 2,
         NEW r, r # None, h.ops \subseteq r.ops, r.ops \subseteq h.ops \cup Content, h.gen = 1 => r.ops = h.ops,
         NEW o, NEW f, Is2(o) \/ Is2(f) => h.gen = 2
  PROVE  Hist(d, stored[d] \cup ItemsOf(r.ops), r, copy[d], o, f, Shared(d), ItemsOf(Content))
<1>0. /\ OpsOf(r) = r.ops /\ h.gen \in 1..2
      /\ Fits(d, h, gen[d], row[d], copy[d], seed.at)
      /\ Hist(d, stored[d], row[d], copy[d], open[d], flushing[d], Shared(d), ItemsOf(Content))
  BY OpsOfIs DEF Shapes, Handles, Phases, Placed, Histories
<1>1. Spoken(stored[d] \cup ItemsOf(r.ops)) = Spoken(stored[d]) \cup Messages(r.ops)
      /\ Messages(r.ops) \subseteq ItemsOf(r.ops)
  BY DEF Spoken, Messages
<1>2. Spoken(stored[d]) \subseteq ItemsOf(r.ops) \cup ItemsOf(OpsOf(copy[d])) \cup Shared(d)
  <2>1. CASE h.gen = 2 <=> Turned(row[d])
    <3>1. OpsOf(row[d]) \subseteq r.ops
      BY <1>0, <2>1 DEF Fits
    <3>2. ItemsOf(OpsOf(row[d])) \subseteq ItemsOf(r.ops)
      BY <3>1, ItemsUnion
    <3>3. QED
      BY <1>0, <3>2 DEF Hist
  <2>2. CASE h.gen = 2 /\ ~Turned(row[d])
    <3>1. ~Before
      BY <1>0, <2>2 DEF Before
    <3>2. d # Host
      BY <2>2, <3>1 DEF Phases, ThinRow
    <3>3. Messages(OpsOf(row[d])) \subseteq ItemsOf(Content) \cup ItemsOf(OpsOf(copy[d]))
      BY <1>0, <2>2, <3>2 DEF Hist, Is2
    <3>4. Shared(d) = ItemsOf(Content)
      BY <3>1, <3>2 DEF Shared
    <3>5. \A i \in Spoken(stored[d]) : i \in ItemsOf(OpsOf(row[d])) => i \in Messages(OpsOf(row[d]))
      BY DEF Spoken, Messages
    <3>6. QED
      BY <1>0, <3>3, <3>4, <3>5 DEF Hist
  <2>3. QED
    BY <1>0, <2>1, <2>2 DEF ThinRow
<1>3. ASSUME d # Host, copy[d] # None \/ Is2(o) \/ Is2(f)
      PROVE  Messages(r.ops) \subseteq ItemsOf(Content)
  <2>1. h.gen = 2
    BY <1>0, <1>3 DEF Fits
  <2>2. MsgOps(h.ops) \subseteq Content
    BY <1>3, <2>1 DEF Flows, Flowed, From, NewDoc
  <2>3. MsgOps(r.ops) \subseteq Content
    BY <2>2 DEF MsgOps
  <2>4. QED
    BY <2>3, ItemsUnion
<1>4. QED
  BY <1>0, <1>1, <1>2, <1>3 DEF Hist

LEMMA HistBuilds ==
  ASSUME Shapes, Phases, Flows, Histories, Moves, NEW d \in Devices, NEW k, NEW X, Builds(d, k, X)
  PROVE  Histories'
<1>0. /\ k # None /\ open' = [open EXCEPT ![d] = k] /\ open'[d] = k /\ UNCHANGED <<stored, flushing>>
      /\ Hist(d, stored[d], row[d], copy[d], open[d], flushing[d], Shared(d), ItemsOf(Content))
      /\ Placed(d, open[d], flushing[d], gen[d], row[d], copy[d], seed.at)
  BY LineageAssumption DEF Builds, Shapes, Histories, Elsewhere, Phases
<1>1. Before => gen[d] = 1 /\ ~ThinRow(d) /\ copy[d] = None /\ ~Is2(flushing[d])
  BY DEF Before, Is2
<1>2. CASE BuildsOld(d, k, X)
  <2>1. UNCHANGED <<row, copy>> /\ ~Is2(k)
    BY <1>2 DEF BuildsOld, Is2
  <2>2. Hist(d, stored[d], row[d], copy[d], k, flushing[d], Shared(d), ItemsOf(Content))
    BY <1>0, <2>1 DEF Hist
  <2>3. QED
    BY <1>0, <1>1, <2>1, <2>2, HistAt DEF Shapes
<1>3. CASE BuildsAdopted(d, k, X)
  <2>1. row' = row /\ copy' = [copy EXCEPT ![d] = Rollback(d, row[d].ops)] /\ ~Before /\ row[d] # None
    BY <1>1, <1>3 DEF BuildsAdopted
  <2>2. copy[d] = None => OpsOf(Rollback(d, row[d].ops)) = OpsOf(row[d])
    <3>1. SUFFICES ASSUME copy[d] = None PROVE OpsOf(NewRow(row[d].ops)) = row[d].ops
      BY <2>1, OpsOfIs DEF Rollback
    <3>2. row[d].ops \in Docs
      BY <2>1 DEF Shapes, Rows
    <3>3. NewRow(row[d].ops) \in Rows /\ NewRow(row[d].ops).ops = row[d].ops
      BY <3>2 DEF NewRow, Rows
    <3>4. QED
      BY <3>3, OpsOfIs, LineageAssumption
  <2>3. copy[d] # None => Rollback(d, row[d].ops) = copy[d]
    BY DEF Rollback
  <2>4. Hist(d, stored[d], row[d], Rollback(d, row[d].ops), k, flushing[d], Shared(d), ItemsOf(Content))
    <3>1. CASE copy[d] = None
      <4>1. Messages(OpsOf(row[d])) \subseteq ItemsOf(OpsOf(row[d]))
        BY DEF Messages
      <4>2. ItemsOf(OpsOf(copy[d])) = {}
        BY <3>1, OpsOfIs DEF ItemsOf
      <4>3. QED
        BY <1>0, <2>2, <3>1, <4>1, <4>2 DEF Hist
    <3>2. CASE copy[d] # None
      BY <1>0, <2>3, <3>2 DEF Hist
    <3>3. QED
      BY <3>1, <3>2
  <2>5. copy'[d] = Rollback(d, row[d].ops)
    BY <2>1 DEF Shapes
  <2>6. QED
    BY <1>0, <2>1, <2>4, <2>5, HistAt DEF Shapes
<1>4. CASE BuildsBorn(d, k, X)
  <2> DEFINE r == [ops |-> {}, epoch |-> 2, met |-> FALSE]
  <2>1. OpsOf(r) = {} /\ OpsOf(row[d]) = {}
    BY <1>4 DEF BuildsBorn, OpsOf
  <2>2. row' = [row EXCEPT ![d] = r] /\ copy' = copy /\ ~Before
    BY <1>1, <1>4 DEF BuildsBorn
  <2> HIDE DEF r
  <2>3. Messages({}) = {}
    BY DEF Messages, ItemsOf
  <2>4. Hist(d, stored[d], r, copy[d], k, flushing[d], Shared(d), ItemsOf(Content))
    BY <1>0, <2>1, <2>3 DEF Hist
  <2>5. row'[d] = r
    BY <2>2 DEF Shapes
  <2>6. QED
    BY <1>0, <2>2, <2>4, <2>5, HistAt DEF Shapes
<1>5. CASE BuildsThin(d, k, X)
  <2>1. UNCHANGED <<row, copy>> /\ ~Before /\ ThinRow(d) /\ OpsOf(row[d]) = row[d].ops
    BY <1>1, <1>5, OpsOfIs DEF BuildsThin, ThinRow, Turned
  <2>2. d # Host => Messages(OpsOf(row[d])) \subseteq ItemsOf(Content)
    <3>1. SUFFICES ASSUME d # Host PROVE Messages(row[d].ops) \subseteq ItemsOf(Content)
      BY <2>1
    <3>2. MsgOps(row[d].ops) \subseteq Content
      BY <2>1, <3>1 DEF Flows, Flowed, From, NewRows, ThinRow
    <3>3. Messages(row[d].ops) = ItemsOf(MsgOps(row[d].ops))
      BY ItemsUnion
    <3>4. ItemsOf(MsgOps(row[d].ops)) \subseteq ItemsOf(Content)
      BY <3>2 DEF ItemsOf
    <3>5. QED
      BY <3>3, <3>4
  <2>3. Hist(d, stored[d], row[d], copy[d], k, flushing[d], Shared(d), ItemsOf(Content))
    BY <1>0, <2>2 DEF Hist
  <2>4. QED
    BY <1>0, <2>1, <2>3, HistAt DEF Shapes
<1>6. QED
  BY <1>2, <1>3, <1>4, <1>5 DEF Builds

LEMMA HistoriesMoves ==
  ASSUME Calm, Shapes, Phases, Flows, Histories, Moves
  PROVE  Histories'
<1>0. \A d \in Devices : /\ Hist(d, stored[d], row[d], copy[d], open[d], flushing[d], Shared(d), ItemsOf(Content))
                         /\ Placed(d, open[d], flushing[d], gen[d], row[d], copy[d], seed.at)
  BY DEF Histories, Phases
<1>1. ASSUME Before PROVE \A d \in Devices : /\ gen[d] = 1 /\ ~ThinRow(d) /\ copy[d] = None
                                             /\ ~Is2(open[d]) /\ ~Is2(flushing[d])
  BY <1>1 DEF Before, Is2
<1>2. ASSUME NEW d \in Devices, NEW k, NEW X, Talks(d, k, X) PROVE Histories'
  <2>1. /\ open' = [open EXCEPT ![d] = k] /\ (Is2(k) => Is2(open[d]))
        /\ UNCHANGED <<row, copy, stored, flushing>>
    BY <1>2 DEF Talks, Grown, Elsewhere, Is2
  <2>2. Hist(d, stored[d], row[d], copy[d], k, flushing[d], Shared(d), ItemsOf(Content))
    BY <1>0, <2>1 DEF Hist
  <2>3. QED
    BY <1>1, <2>1, <2>2, HistAt DEF Shapes
<1>3. ASSUME Writes PROVE Histories'
  <2>1. ASSUME NEW d \in Devices, NEW k, NEW X, Talks(d, k, X) \/ Builds(d, k, X) PROVE Histories'
    BY <1>2, <2>1, HistBuilds
  <2>2. QED
    BY <1>3, <2>1, HostIs DEF Writes, Uses, Works, Restores
<1>4. ASSUME NEW d \in Devices, NEW r, NEW k, Saves(d, r, k) PROVE Histories'
  <2>1. /\ open[d] # None /\ (ThinRow(d) => open[d].gen = 2)
        /\ r # None /\ r.ops = open[d].ops /\ (Is2(k) => open[d].gen = 2)
    BY <1>4, SameLineage DEF Saves, Stores, Like, Is2
  <2>2. /\ row' = [row EXCEPT ![d] = r] /\ open' = [open EXCEPT ![d] = k] /\ UNCHANGED <<copy, flushing>>
        /\ stored' = [stored EXCEPT ![d] = @ \cup ItemsOf(r.ops)]
    BY <1>4, <2>1 DEF Saves, Stores
  <2>3. flushing[d] = None /\ ~Is2(flushing[d])
    BY <1>0, <2>1 DEF Placed, Is2
  <2>4. Hist(d, stored[d] \cup ItemsOf(r.ops), r, copy[d], k, flushing[d], Shared(d), ItemsOf(Content))
    BY <2>1, <2>3, HistStored
  <2>5. Before => copy[d] = None /\ ~Is2(k)
    BY <1>1, <2>1 DEF Is2
  <2>6. QED
    BY <2>2, <2>3, <2>4, <2>5, HistAt DEF Shapes
<1>5. ASSUME NEW d \in Devices, NEW r, Flushes(d, r) PROVE Histories'
  <2>1. /\ flushing[d] # None /\ (ThinRow(d) => flushing[d].gen = 2) /\ r # None /\ r.ops = flushing[d].ops
    BY <1>5, SameLineage DEF Flushes, Stores
  <2>2. /\ row' = [row EXCEPT ![d] = r] /\ flushing' = [flushing EXCEPT ![d] = None] /\ UNCHANGED <<copy, open>>
        /\ stored' = [stored EXCEPT ![d] = @ \cup ItemsOf(r.ops)]
    BY <1>5, <2>1 DEF Flushes, Stores
  <2>3. open[d] = None /\ ~Is2(open[d]) /\ ~Is2(None)
    BY <1>0, <2>1 DEF Placed, Is2
  <2>4. Hist(d, stored[d] \cup ItemsOf(r.ops), r, copy[d], open[d], None, Shared(d), ItemsOf(Content))
    BY <2>1, <2>3, HistStored
  <2>5. Before => copy[d] = None
    BY <1>1
  <2>6. QED
    BY <2>2, <2>3, <2>4, <2>5, HistAt DEF Shapes
<1>6. ASSUME NEW d \in Devices, NEW k, Hears(d, k) PROVE Histories'
  <2>1. /\ open[d] # None /\ open[d].gen = 2 /\ k # None /\ k.gen = 2 /\ k.ops = open[d].ops \cup Content
        /\ ~Before
    BY <1>1, <1>6 DEF Hears, Like, Is2
  <2>2. open' = [open EXCEPT ![d] = k] /\ UNCHANGED <<copy, flushing>>
    BY <1>6 DEF Hears
  <2>3. CASE row' = row /\ stored' = [stored EXCEPT ![d] = @ \cup ItemsOf(row[d].ops)]
    <3>1. row[d] # None
      BY <1>0, <2>1 DEF Placed, Fits
    <3>2. OpsOf(row[d]) = row[d].ops
      BY <3>1, OpsOfIs
    <3>3. Spoken(stored[d] \cup ItemsOf(row[d].ops)) \subseteq Spoken(stored[d]) \cup ItemsOf(OpsOf(row[d]))
      BY <3>2 DEF Spoken
    <3>4. Is2(open[d])
      BY <2>1 DEF Is2
    <3>5. Hist(d, stored[d] \cup ItemsOf(row[d].ops), row[d], copy[d], k, flushing[d], Shared(d), ItemsOf(Content))
      BY <1>0, <3>3, <3>4 DEF Hist
    <3>6. QED
      BY <2>1, <2>2, <2>3, <3>5, HistAt DEF Shapes
  <2>4. ASSUME NEW r, r # None, r.ops = k.ops, row' = [row EXCEPT ![d] = r],
               stored' = [stored EXCEPT ![d] = @ \cup ItemsOf(r.ops)]
        PROVE  Histories'
    <3>1. /\ open[d].ops \subseteq r.ops /\ r.ops \subseteq open[d].ops \cup Content
          /\ (open[d].gen = 1 => r.ops = open[d].ops) /\ open[d].gen = 2 /\ r # None /\ open[d] # None
      BY <2>1, <2>4
    <3>2. Hist(d, stored[d] \cup ItemsOf(r.ops), r, copy[d], k, flushing[d], Shared(d), ItemsOf(Content))
      BY <3>1, HistStored
    <3>3. QED
      BY <2>1, <2>2, <2>4, <3>2, HistAt DEF Shapes
  <2>5. QED
    BY <1>6, <2>3, <2>4 DEF Hears
<1>7. ASSUME NEW d \in Devices, NEW k, Pushes(d, k) PROVE Histories'
  <2>1. open' = [open EXCEPT ![d] = k] /\ UNCHANGED <<row, copy, stored, flushing>> /\ (Is2(k) => Is2(open[d]))
    BY <1>7 DEF Pushes, Like, Is2
  <2>2. Hist(d, stored[d], row[d], copy[d], k, flushing[d], Shared(d), ItemsOf(Content))
    BY <1>0, <2>1 DEF Hist
  <2>3. QED
    BY <1>1, <2>1, <2>2, HistAt DEF Shapes
<1>8. ASSUME NEW d \in Devices, Cutover(d) \/ Evict(d) \/ Crash(d) PROVE Histories'
  <2>1. /\ open' = [open EXCEPT ![d] = None] /\ UNCHANGED <<row, copy, stored>>
        /\ \/ flushing' = flushing \/ flushing' = [flushing EXCEPT ![d] = open[d]]
           \/ flushing' = [flushing EXCEPT ![d] = None]
    BY <1>8 DEF Cutover, Evict, Crash
  <2>2. ~Is2(None) /\ flushing'[d] \in {flushing[d], open[d], None}
    BY <2>1 DEF Shapes, Is2
  <2>3. Hist(d, stored[d], row[d], copy[d], None, flushing'[d], Shared(d), ItemsOf(Content))
    BY <1>0, <2>2 DEF Hist
  <2>4. QED
    BY <1>1, <2>1, <2>2, <2>3, HistAt DEF Shapes
<1>9. ASSUME UNCHANGED <<row, copy, stored, open, flushing>> PROVE Histories'
  <2>1. Hist(Host, stored[Host], row[Host], copy[Host], open[Host], flushing[Host], Shared(Host), ItemsOf(Content))
    BY <1>0, HostIs
  <2>2. QED
    BY <1>9, <2>1, HostIs, HistAt
<1>10. ASSUME (\E d \in Devices : Learn(d)) \/ Arm \/ Rebuilds \/ Post \/ PostFails \/ Check \/ Flip PROVE Histories'
  BY <1>9, <1>10 DEF Learn, Arm, Rebuilds, Post, PostFails, Check, Flip, device
<1>11. ASSUME Retire PROVE Histories'
  <2>1. Busy = {}
    BY <1>11 DEF Retire, Phases
  <2>2. open[Host] = None \/ open[Host].runs = {}
    BY <2>1 DEF Busy, RunsOf
  <2>3. open' = [open EXCEPT ![Host] = None] /\ UNCHANGED <<row, copy, stored, flushing>>
    BY <1>11, <2>2, HostIs DEF Retire, Shapes
  <2>4. Hist(Host, stored[Host], row[Host], copy[Host], None, flushing[Host], Shared(Host), ItemsOf(Content))
    BY <1>0, HostIs DEF Hist
  <2>5. QED
    BY <2>3, <2>4, HostIs, HistAt DEF Shapes
<1>12. ASSUME SaveThin PROVE Histories'
  <2> DEFINE r == [ops |-> seed.thin, epoch |-> 2, met |-> FALSE]
             k == IF row[Host] = None THEN copy[Host] ELSE Rollback(Host, row[Host].ops)
  <2>0. r \in Rows /\ r.ops = seed.thin
    BY DEF Rows, Shapes, Seeds
  <2>1. /\ row' = [row EXCEPT ![Host] = r] /\ copy' = [copy EXCEPT ![Host] = k] /\ UNCHANGED <<open, flushing>>
        /\ stored' = [stored EXCEPT ![Host] = @ \cup ItemsOf(seed.thin)]
    BY <1>12, HostIs DEF SaveThin, Shapes
  <2>2. copy[Host] = None
    BY <1>12, HostIs DEF SaveThin, Phases, Before
  <2>3. OpsOf(row[Host]) = OpsOf(k)
    <3>1. CASE row[Host] = None
      BY <2>2, <3>1
    <3>2. CASE row[Host] # None
      <4>1. row[Host].ops \in Docs
        BY <3>2, HostIs DEF Shapes, Rows
      <4>2. NewRow(row[Host].ops) \in Rows /\ NewRow(row[Host].ops).ops = row[Host].ops
        BY <4>1 DEF NewRow, Rows
      <4>3. k = NewRow(row[Host].ops)
        BY <2>2, <3>2 DEF Rollback
      <4>4. QED
        BY <3>2, <4>2, <4>3, OpsOfIs, LineageAssumption
    <3>3. QED
      BY <3>1, <3>2
  <2> HIDE DEF r, k
  <2>4. OpsOf(r) = seed.thin
    BY <2>0, OpsOfIs, LineageAssumption
  <2>5. Spoken(stored[Host] \cup ItemsOf(seed.thin)) \subseteq ItemsOf(OpsOf(r)) \cup ItemsOf(OpsOf(k))
    <3>1. Spoken(stored[Host]) \subseteq ItemsOf(OpsOf(row[Host]))
      <4>1. ItemsOf(OpsOf(copy[Host])) = {} /\ Shared(Host) = {}
        BY <2>2, OpsOfIs DEF ItemsOf, Shared
      <4>2. QED
        BY <1>0, <4>1, HostIs DEF Hist
    <3>2. QED
      BY <2>3, <2>4, <3>1 DEF Spoken
  <2>6. Hist(Host, stored[Host] \cup ItemsOf(seed.thin), r, k, open[Host], flushing[Host], Shared(Host), ItemsOf(Content))
    BY <2>5 DEF Hist
  <2>7. QED
    BY <2>1, <2>6, HostIs, HistAt DEF Shapes
<1>13. QED
  BY <1>3, <1>4, <1>5, <1>6, <1>7, <1>8, <1>10, <1>11, <1>12 DEF Moves
-----------------------------------------------------------------------------
(* The flip strands nothing. *)

\* What a step may do to the host.
HostMoves ==
    \/ HostRests
    \/ Undisturbed(Host) /\ \E k, X : Talks(Host, k, X) \/ Builds(Host, k, X)
    \/ \E r, k : Saves(Host, r, k)
    \/ \E r : Flushes(Host, r)
    \/ \E k : Hears(Host, k) \/ Pushes(Host, k)
    \/ Cutover(Host) \/ Evict(Host) \/ Crash(Host)
    \/ Arm \/ Rebuilds \/ Post \/ PostFails \/ Check \/ SaveThin \/ Flip \/ Retire

LEMMA MovesOfHost ==
  ASSUME Shapes, Moves
  PROVE  HostMoves
<1>1. ASSUME NEW d \in Devices, d # Host, seed' = seed,
             \A e \in Devices \ {d} : /\ open'[e] = open[e] /\ flushing'[e] = flushing[e] /\ row'[e] = row[e]
                                      /\ copy'[e] = copy[e] /\ stored'[e] = stored[e]
      PROVE  HostMoves
  BY <1>1, HostIs DEF HostRests, HostMoves
<1>2. ASSUME NEW d \in Devices, NEW k, NEW X, Uses(d, k, X) PROVE HostMoves
  <2>1. CASE d = Host
    BY <1>2, <2>1 DEF Uses, HostMoves
  <2>2. CASE d # Host
    <3>1. /\ seed' = seed /\ flushing' = flushing /\ stored' = stored
          /\ open' = [open EXCEPT ![d] = k]
          /\ (Talks(d, k, X) \/ Builds(d, k, X))
      BY <1>2 DEF Uses, Talks, Builds, Elsewhere
    <3>2. \A e \in Devices \ {d} : row'[e] = row[e] /\ copy'[e] = copy[e]
      BY <3>1 DEF Talks, Builds, BuildsOld, BuildsAdopted, BuildsBorn, BuildsThin, Shapes
    <3>3. QED
      BY <1>1, <2>2, <3>1, <3>2 DEF Shapes
  <2>3. QED
    BY <2>1, <2>2
<1>3. ASSUME NEW c, NEW k, NEW o, Works(c, k, o) PROVE HostMoves
  BY <1>3 DEF Works, HostMoves
<1>4. ASSUME NEW k, NEW X, Restores(k, X) PROVE HostMoves
  BY <1>4 DEF Restores, HostMoves
<1>5. ASSUME NEW d \in Devices, NEW r, NEW k, Saves(d, r, k) PROVE HostMoves
  <2>1. CASE d = Host
    BY <1>5, <2>1 DEF HostMoves
  <2>2. CASE d # Host
    BY <1>1, <1>5, <2>2 DEF Saves, Stores, Shapes
  <2>3. QED
    BY <2>1, <2>2
<1>6. ASSUME NEW d \in Devices, NEW r, Flushes(d, r) PROVE HostMoves
  <2>1. CASE d = Host
    BY <1>6, <2>1 DEF HostMoves
  <2>2. CASE d # Host
    BY <1>1, <1>6, <2>2 DEF Flushes, Stores, Shapes
  <2>3. QED
    BY <2>1, <2>2
<1>7. ASSUME NEW d \in Devices, NEW k, Hears(d, k) PROVE HostMoves
  <2>1. CASE d = Host
    BY <1>7, <2>1 DEF HostMoves
  <2>2. CASE d # Host
    <3>1. \A e \in Devices \ {d} : row'[e] = row[e] /\ stored'[e] = stored[e]
      BY <1>7 DEF Hears, Shapes
    <3>2. QED
      BY <1>1, <1>7, <2>2, <3>1 DEF Hears, Shapes
  <2>3. QED
    BY <2>1, <2>2
<1>8. ASSUME NEW d \in Devices, NEW k, Pushes(d, k) PROVE HostMoves
  <2>1. CASE d = Host
    BY <1>8, <2>1 DEF HostMoves
  <2>2. CASE d # Host
    BY <1>1, <1>8, <2>2 DEF Pushes, Shapes
  <2>3. QED
    BY <2>1, <2>2
<1>9. ASSUME NEW d \in Devices, Learn(d) PROVE HostMoves
  BY <1>9 DEF Learn, HostRests, HostMoves
<1>10. ASSUME NEW d \in Devices, Cutover(d) \/ Evict(d) \/ Crash(d) PROVE HostMoves
  <2>1. CASE d = Host
    BY <1>10, <2>1 DEF HostMoves
  <2>2. CASE d # Host
    BY <1>1, <1>10, <2>2 DEF Cutover, Evict, Crash, Shapes
  <2>3. QED
    BY <2>1, <2>2
<1>11. ASSUME Arm \/ Rebuilds \/ Post \/ PostFails \/ Check \/ SaveThin \/ Flip \/ Retire PROVE HostMoves
  BY <1>11 DEF HostMoves
<1>12. QED
  BY <1>2, <1>3, <1>4, <1>5, <1>6, <1>7, <1>8, <1>9, <1>10, <1>11 DEF Moves, Writes

LEMMA SeenMoves ==
  ASSUME Calm, "evict" \notin raced', Shapes, Phases, SeenKept, Moves
  PROVE  SeenKept'
<1>1. SUFFICES ASSUME seed'.at \in {"posting", "posted"}, open'[Host] = None
               PROVE  Seen' = seed'.seen
  BY DEF SeenKept
<1>2. CASE HostRests
  BY <1>1, <1>2 DEF HostRests, SeenKept, Seen, OpsOf
<1>3. ~(\E k, X : Talks(Host, k, X) \/ Builds(Host, k, X))
  BY <1>1, HostIs, LineageAssumption DEF Talks, Builds, Grown, Shapes
<1>4. ~(\E r, k : Saves(Host, r, k)) /\ ~(\E k : Hears(Host, k) \/ Pushes(Host, k))
  BY <1>1, HostIs DEF Saves, Hears, Pushes, Like, Shapes
<1>5. ASSUME NEW r, Flushes(Host, r) PROVE Seen' = seed'.seen
  <2>1. /\ flushing[Host] # None /\ r # None /\ r.ops = flushing[Host].ops
        /\ row' = [row EXCEPT ![Host] = r] /\ flushing' = [flushing EXCEPT ![Host] = None]
        /\ open' = open /\ seed' = seed
    BY <1>5 DEF Flushes, Stores
  <2>2. flushing[Host].ops = seed.seen
    BY <1>1, <2>1 DEF SeenKept, Seen
  <2>3. row'[Host] = r /\ flushing'[Host] = None
    BY <2>1, HostIs DEF Shapes
  <2>4. QED
    BY <2>1, <2>2, <2>3 DEF Seen, OpsOf
<1>6. ~Cutover(Host)
  <2>1. ASSUME Cutover(Host) PROVE FALSE
    <3>1. gen[Host] = 2 /\ seed' = seed
      BY <2>1 DEF Cutover, Stale
    <3>2. Before
      BY <1>1, <3>1 DEF Phases
    <3>3. QED
      BY <3>1, <3>2, HostIs DEF Before
  <2>2. QED
    BY <2>1
<1>7. CASE Evict(Host)
  <2>1. /\ open[Host] # None /\ flushing' = [flushing EXCEPT ![Host] = open[Host]] /\ row' = row /\ seed' = seed
        /\ seed.at \notin {"posting", "posted"} \/ open[Host].ops = seed.seen
    BY <1>7, RecordedIs DEF Evict
  <2>2. flushing'[Host] = open[Host]
    BY <2>1, HostIs DEF Shapes
  <2>3. QED
    BY <1>1, <2>1, <2>2 DEF Seen
<1>8. ~Crash(Host) /\ ~Arm /\ ~PostFails /\ ~SaveThin /\ ~Flip /\ ~Retire
  BY <1>1, IdleIs DEF Crash, Arm, PostFails, SaveThin, Flip, Retire, Shapes, Seeds
<1>9. ~Check
  BY <1>1, IdleIs DEF Check, Shapes, Seeds
<1>10. ~Rebuilds
  BY <1>1, IdleIs DEF Rebuilds
<1>11. CASE Post
  <2>1. seed.at = "posting" /\ seed'.seen = seed.seen /\ UNCHANGED <<open, flushing, row>>
    BY <1>11 DEF Post, device, Shapes, Seeds
  <2>2. QED
    BY <1>1, <2>1 DEF SeenKept, Seen, OpsOf
<1>12. QED
  BY <1>2, <1>3, <1>4, <1>5, <1>6, <1>7, <1>8, <1>9, <1>10, <1>11, MovesOfHost DEF HostMoves

LEMMA RebuiltMoves ==
  ASSUME Shapes, RebuiltAll, Moves
  PROVE  RebuiltAll'
<1>1. CASE seed' = seed
  BY <1>1 DEF RebuiltAll
<1>2. CASE seed' = Idle \/ Arm \/ SaveThin \/ Flip
  <2>1. seed'.at \notin {"posting", "posted", "sealed"}
    BY <1>2, IdleIs DEF Arm, SaveThin, Flip, Shapes, Seeds
  <2>2. QED
    BY <2>1 DEF RebuiltAll
<1>3. CASE Post \/ (Check /\ seed' # Idle)
  <2>1. seed.at \in {"posting", "posted"} /\ seed'.seen = seed.seen /\ seed'.thin = seed.thin
    BY <1>3 DEF Post, Check, Shapes, Seeds
  <2>2. QED
    BY <2>1 DEF RebuiltAll
<1>4. CASE Rebuilds /\ seed' # Idle
  <2>1. PICK n \in Nat : n # Fat /\ seed'.thin = Rebuilt(open[Host].ops, n)
    BY <1>4 DEF Rebuilds
  <2>2. open[Host].ops \in Docs /\ seed'.seen = open[Host].ops
    BY <1>4, HostIs DEF Rebuilds, Shapes, Handles
  <2>3. Messages(open[Host].ops) \subseteq ItemsOf(seed'.thin)
    BY <2>1, <2>2, RebuiltIs
  <2>4. QED
    BY <2>2, <2>3 DEF RebuiltAll
<1>5. QED
  BY <1>1, <1>2, <1>3, <1>4, SeedMoves

LEMMA SealedMoves ==
  ASSUME Calm, Shapes, Phases, SeenKept, SealedCovers, Moves
  PROVE  SealedCovers'
<1>1. SUFFICES ASSUME seed'.at = "sealed" PROVE OpsOf(row'[Host]) \subseteq seed'.seen
  BY DEF SealedCovers, OpsOf
<1>2. CASE seed' = seed
  <2>1. HostRests
    <3>1. ~SaveThin /\ ~Flip /\ ~Retire /\ ~Crash(Host)
      BY <1>1, <1>2, IdleIs DEF SaveThin, Flip, Retire, Crash, Shapes, Seeds
    <3>2. QED
      BY <1>1, <1>2, <3>1, SealedRests
  <2>2. QED
    BY <1>1, <1>2, <2>1 DEF HostRests, SealedCovers
<1>3. CASE Check
  <2>1. /\ Undisturbed(Host) /\ seed.at = "posted" /\ seed'.seen = seed.seen /\ UNCHANGED <<row, open, flushing>>
        /\ open[Host] = None \/ Sealed(open[Host])
    BY <1>1, <1>3, IdleIs, RecordedIs DEF Check, device, Shapes, Seeds
  <2>2. flushing[Host] = None
    BY <2>1, HostIs, QuietIs DEF Quiet
  <2>3. CASE open[Host] = None
    BY <2>1, <2>2, <2>3 DEF SeenKept, Seen
  <2>4. CASE open[Host] # None
    <3>1. open[Host].ops = seed.seen
      BY <2>1, <2>4 DEF Sealed
    <3>2. Fits(Host, open[Host], gen[Host], row[Host], copy[Host], seed.at)
      BY <2>4, HostIs DEF Phases, Placed
    <3>3. open[Host].gen = 1 /\ ~Turned(row[Host])
      BY <2>1, <2>4, HostIs DEF Phases, Before, ThinRow
    <3>4. QED
      BY <2>1, <3>1, <3>2, <3>3 DEF Fits
  <2>5. QED
    BY <2>3, <2>4
<1>4. ~Arm /\ ~Rebuilds /\ ~Post /\ ~SaveThin /\ ~Flip /\ seed' # Idle
  BY <1>1, IdleIs DEF Arm, Rebuilds, Post, SaveThin, Flip, Shapes, Seeds
<1>5. QED
  BY <1>2, <1>3, <1>4, SeedMoves

LEMMA ThinCoversMoves ==
  ASSUME Calm, Shapes, Phases, Histories, RebuiltAll, SealedCovers, ThinCovers, Moves
  PROVE  ThinCovers'
<1>0. row[Host] # None => row[Host].ops = OpsOf(row[Host])
  BY OpsOfIs
<1>1. CASE SaveThin
  <2> DEFINE r == [ops |-> seed.thin, epoch |-> 2, met |-> FALSE]
  <2>0. r \in Rows /\ r.ops = seed.thin
    BY DEF Rows, Shapes, Seeds
  <2>1. /\ row' = [row EXCEPT ![Host] = r] /\ seed.at = "sealed"
        /\ stored' = [stored EXCEPT ![Host] = @ \cup ItemsOf(seed.thin)]
    BY <1>1 DEF SaveThin
  <2> HIDE DEF r
  <2>2. Spoken(stored[Host]) \subseteq ItemsOf(OpsOf(row[Host]))
    <3>1. Before
      BY <2>1 DEF Phases
    <3>2. copy[Host] = None /\ Shared(Host) = {}
      BY <3>1, HostIs DEF Before, Shared
    <3>3. ItemsOf(OpsOf(copy[Host])) = {}
      BY <3>2, OpsOfIs DEF ItemsOf
    <3>4. Hist(Host, stored[Host], row[Host], copy[Host], open[Host], flushing[Host], Shared(Host), ItemsOf(Content))
      BY HostIs DEF Histories
    <3>5. QED
      BY <3>2, <3>3, <3>4 DEF Hist
  <2>3. Spoken(stored[Host]) \subseteq ItemsOf(seed.thin)
    <3>1. ItemsOf(OpsOf(row[Host])) \subseteq ItemsOf(seed.seen)
      BY <2>1, ItemsUnion DEF SealedCovers
    <3>2. \A i \in Spoken(stored[Host]) : i \in ItemsOf(seed.seen) => i \in Messages(seed.seen)
      BY DEF Spoken, Messages
    <3>3. Messages(seed.seen) \subseteq ItemsOf(seed.thin)
      BY <2>1 DEF RebuiltAll
    <3>4. QED
      BY <2>2, <3>1, <3>2, <3>3
  <2>4. row'[Host] = r /\ stored'[Host] = stored[Host] \cup ItemsOf(seed.thin) /\ OpsOf(r) = seed.thin
    BY <2>0, <2>1, HostIs, OpsOfIs, LineageAssumption DEF Shapes
  <2>5. Spoken(stored'[Host]) \subseteq ItemsOf(OpsOf(row'[Host]))
    BY <2>3, <2>4 DEF Spoken
  <2>6. QED
    BY <2>5 DEF ThinCovers, OpsOf
<1>2. CASE Before /\ ~SaveThin
  <2>1. Before'
    BY <1>2, BeforeStays
  <2>2. ~ThinRow(Host)'
    BY <2>1, HostIs DEF Before
  <2>3. QED
    BY <2>2 DEF ThinCovers
<1>3. ASSUME ThinRow(Host), row'[Host] = row[Host], stored'[Host] = stored[Host] PROVE ThinCovers'
  BY <1>3 DEF ThinCovers, ThinRow, OpsOf
<1>4. ASSUME ThinRow(Host), NEW r, r # None, OpsOf(row[Host]) \subseteq r.ops, row' = [row EXCEPT ![Host] = r],
             stored' = [stored EXCEPT ![Host] = @ \cup ItemsOf(r.ops)]
      PROVE  ThinCovers'
  <2>1. row'[Host] = r /\ stored'[Host] = stored[Host] \cup ItemsOf(r.ops) /\ OpsOf(r) = r.ops
    BY <1>4, HostIs, OpsOfIs DEF Shapes
  <2>2. ItemsOf(OpsOf(row[Host])) \subseteq ItemsOf(r.ops)
    BY <1>4, ItemsUnion
  <2>3. Spoken(stored[Host]) \subseteq ItemsOf(OpsOf(row[Host]))
    BY <1>4 DEF ThinCovers
  <2>4. Spoken(stored'[Host]) \subseteq ItemsOf(OpsOf(row'[Host]))
    BY <2>1, <2>2, <2>3 DEF Spoken
  <2>5. QED
    BY <2>4 DEF ThinCovers, OpsOf
<1>5. CASE ThinRow(Host) /\ ~SaveThin
  <2>0. OpsOf(row[Host]) = row[Host].ops /\ row[Host] # None
    BY <1>5, OpsOfIs DEF ThinRow, Turned
  <2>1. ASSUME NEW h, h = open[Host] \/ h = flushing[Host], h # None, h.gen = 2
        PROVE  OpsOf(row[Host]) \subseteq h.ops
    <3>1. Fits(Host, h, gen[Host], row[Host], copy[Host], seed.at)
      BY <2>1, HostIs DEF Phases, Placed
    <3>2. QED
      BY <1>5, <2>1, <3>1 DEF Fits, ThinRow
  <2>2. CASE HostRests
    BY <1>3, <1>5, <2>2 DEF HostRests
  <2>3. ASSUME NEW k, NEW X, Talks(Host, k, X) \/ Builds(Host, k, X) PROVE ThinCovers'
    <3>1. row' = row /\ stored' = stored
      BY <1>5, <2>3 DEF Talks, Builds, Elsewhere, BuildsOld, BuildsAdopted, BuildsBorn, BuildsThin, ThinRow, Turned
    <3>2. QED
      BY <1>3, <1>5, <3>1
  <2>4. ASSUME NEW r, NEW k, Saves(Host, r, k) PROVE ThinCovers'
    <3>1. open[Host] # None /\ open[Host].gen = 2
      BY <1>5, <2>4, HostIs, SameLineage DEF Saves
    <3>2. r # None /\ OpsOf(row[Host]) \subseteq r.ops /\ row' = [row EXCEPT ![Host] = r]
          /\ stored' = [stored EXCEPT ![Host] = @ \cup ItemsOf(r.ops)]
      BY <2>1, <2>4, <3>1 DEF Saves, Stores
    <3>3. QED
      BY <1>4, <1>5, <3>2
  <2>5. ASSUME NEW r, Flushes(Host, r) PROVE ThinCovers'
    <3>1. flushing[Host] # None /\ flushing[Host].gen = 2
      BY <1>5, <2>5, HostIs, SameLineage DEF Flushes
    <3>2. r # None /\ OpsOf(row[Host]) \subseteq r.ops /\ row' = [row EXCEPT ![Host] = r]
          /\ stored' = [stored EXCEPT ![Host] = @ \cup ItemsOf(r.ops)]
      BY <2>1, <2>5, <3>1 DEF Flushes, Stores
    <3>3. QED
      BY <1>4, <1>5, <3>2
  <2>6. ASSUME NEW k, Hears(Host, k) PROVE ThinCovers'
    <3>1. open[Host] # None /\ open[Host].gen = 2 /\ k.ops = open[Host].ops \cup Content
      BY <2>6 DEF Hears
    <3>2. OpsOf(row[Host]) \subseteq k.ops
      BY <2>1, <3>1
    <3>3. CASE row' = row /\ stored' = [stored EXCEPT ![Host] = @ \cup ItemsOf(row[Host].ops)]
      <4>1. row' = [row EXCEPT ![Host] = row[Host]]
        BY <3>3 DEF Shapes
      <4>2. QED
        BY <1>4, <1>5, <2>0, <3>3, <4>1
    <3>4. ASSUME NEW r, r # None, r.ops = k.ops, row' = [row EXCEPT ![Host] = r],
                 stored' = [stored EXCEPT ![Host] = @ \cup ItemsOf(r.ops)]
          PROVE  ThinCovers'
      BY <1>4, <1>5, <3>2, <3>4
    <3>5. QED
      BY <2>6, <3>3, <3>4 DEF Hears
  <2>7. ASSUME (\E k : Pushes(Host, k)) \/ Cutover(Host) \/ Evict(Host) \/ Crash(Host) PROVE ThinCovers'
    <3>1. row' = row /\ stored' = stored
      BY <2>7 DEF Pushes, Cutover, Evict, Crash
    <3>2. QED
      BY <1>3, <1>5, <3>1
  <2>8. ASSUME Arm \/ Rebuilds \/ Post \/ PostFails \/ Check \/ Flip \/ Retire PROVE ThinCovers'
    <3>1. row' = row /\ stored' = stored
      BY <2>8 DEF Arm, Rebuilds, Post, PostFails, Check, Flip, Retire, device
    <3>2. QED
      BY <1>3, <1>5, <3>1
  <2>9. QED
    BY <1>5, <2>2, <2>3, <2>4, <2>5, <2>6, <2>7, <2>8, MovesOfHost DEF HostMoves
<1>6. QED
  BY <1>1, <1>2, <1>5 DEF Phases

LEMMA ForksMoves ==
  ASSUME Calm, "evict" \notin raced', Shapes, Phases, Histories, Forks, Moves
  PROVE  Forks'
BY RebuiltMoves, SeenMoves, SealedMoves, ThinCoversMoves DEF Forks
-----------------------------------------------------------------------------
(* No command is lost. *)

LEMMA HasIs ==
  ASSUME NEW c
  PROVE  /\ ~Has(c, None)
         /\ \A x : x # None => (Has(c, x) <=> Cmd(c) \in ItemsOf(x.ops))
         /\ \A x, y : OpsOf(x) \subseteq OpsOf(y) /\ Has(c, x) => Has(c, y)
         /\ \A x, y : x # None /\ y # None /\ x.ops \subseteq y.ops /\ Has(c, x) => Has(c, y)
BY DEF Has, OpsOf, ItemsOf

LEMMA DoneGrows ==
  ASSUME Shapes, Moves
  PROVE  processed \subseteq processed'
<1>1. ASSUME Writes PROVE processed \subseteq processed'
  BY <1>1 DEF Writes, Uses, Works, Restores
<1>2. ASSUME NEW d \in Devices, NEW r, NEW k, Saves(d, r, k) \/ Flushes(d, r) \/ Hears(d, k) \/ Pushes(d, k)
      PROVE  processed' = processed
  BY <1>2 DEF Saves, Flushes, Stores, Hears, Pushes
<1>3. ASSUME NEW d \in Devices, Learn(d) \/ Cutover(d) \/ Evict(d) \/ Crash(d) PROVE processed' = processed
  BY <1>3 DEF Learn, Cutover, Evict, Crash
<1>4. ASSUME Arm \/ Rebuilds \/ Post \/ PostFails \/ Check \/ SaveThin \/ Flip \/ Retire PROVE processed' = processed
  BY <1>4 DEF Arm, Rebuilds, Post, PostFails, Check, SaveThin, Flip, Retire
<1>5. QED
  BY <1>1, <1>2, <1>3, <1>4 DEF Moves

\* A command in a document is pending, or it was executed.
LEMMA PendingOrDone ==
  ASSUME Grounded, NEW c \in Cmds, NEW ops, ops \subseteq AllOps, Cmd(c) \in ItemsOf(ops)
  PROVE  c \in Pending(ops) \/ c \in processed
<1>1. c \in Commands(ops)
  <2>1. Cmd(c).kind = "cmd" /\ Cmd(c).of = c
    BY DEF Cmd
  <2>2. QED
    BY <2>1 DEF Commands
<1>2. ASSUME c \in Said(ops) PROVE c \in processed
  <2>1. PICK o \in ops : o.item.kind = "msg" /\ o.item.of = c
    BY <1>2 DEF Said, ItemsOf
  <2>2. c # Old
    BY LineageAssumption
  <2>3. QED
    BY <2>1, <2>2 DEF Grounded, Told
<1>3. QED
  BY <1>1, <1>2 DEF Pending

LEMMA OwnedAt ==
  ASSUME Shapes, Commanded, Moves, NEW d \in Devices, crashed \subseteq crashed',
         \A c \in Cmds : By[c] # d /\ c \in sent' => c \in sent,
         \A c \in Cmds : By[c] = d => Owned(c, d, stored'[d], sent', crashed', open'[d], flushing'[d],
                                            row'[d], copy'[d], processed'),
         \A e \in Devices \ {d} : /\ row'[e] = row[e] /\ copy'[e] = copy[e] /\ stored'[e] = stored[e]
                                  /\ open'[e] = open[e] /\ flushing'[e] = flushing[e]
  PROVE  Commanded'
<1>1. ASSUME NEW c \in Cmds, By[c] # d
      PROVE  Owned(c, By[c], stored'[By[c]], sent', crashed', open'[By[c]], flushing'[By[c]],
                   row'[By[c]], copy'[By[c]], processed')
  <2> DEFINE e == By[c]
  <2>1. e \in Devices \ {d}
    BY <1>1, LineageAssumption
  <2>2. Owned(c, e, stored[e], sent, crashed, open[e], flushing[e], row[e], copy[e], processed)
    BY DEF Commanded
  <2>3. /\ row'[e] = row[e] /\ copy'[e] = copy[e] /\ stored'[e] = stored[e]
        /\ open'[e] = open[e] /\ flushing'[e] = flushing[e]
    BY <2>1
  <2>4. processed \subseteq processed' /\ (c \in sent' => c \in sent)
    BY <1>1, DoneGrows
  <2> HIDE DEF e
  <2>5. Owned(c, e, stored[e], sent', crashed', open[e], flushing[e], row[e], copy[e], processed')
    BY <2>2, <2>4 DEF Owned, Rests
  <2>6. QED
    BY <2>3, <2>5 DEF e
<1>2. \A c \in Cmds : Owned(c, By[c], stored'[By[c]], sent', crashed', open'[By[c]], flushing'[By[c]],
                   row'[By[c]], copy'[By[c]], processed')
  BY <1>1
<1>3. QED
  BY <1>2 DEF Commanded

\* A command of the row that is written over is in the document that is saved, or in the copy.
LEMMA OwnedStored ==
  ASSUME Shapes, Phases, Commanded, NEW c \in Cmds, NEW d \in Devices, By[c] = d,
         NEW h, h = open[d] \/ h = flushing[d], h # None, ThinRow(d) => h.gen = 2, Has(c, row[d])
  PROVE  Rests(c, h, copy[d], processed)
<1>1. /\ h.gen \in 1..2 /\ Fits(d, h, gen[d], row[d], copy[d], seed.at)
      /\ Owned(c, d, stored[d], sent, crashed, open[d], flushing[d], row[d], copy[d], processed)
  BY DEF Shapes, Handles, Phases, Placed, Commanded
<1>2. CASE h.gen = 2
  BY <1>1, <1>2 DEF Owned, Is2
<1>3. CASE h.gen = 1 /\ ~Turned(row[d])
  <2>1. OpsOf(row[d]) \subseteq h.ops /\ OpsOf(h) = h.ops
    BY <1>1, <1>3, OpsOfIs DEF Fits
  <2>2. Has(c, h)
    BY <2>1, HasIs
  <2>3. QED
    BY <2>2 DEF Rests
<1>4. QED
  BY <1>1, <1>2, <1>3 DEF ThinRow

LEMMA SealedDoneMoves ==
  ASSUME Calm, Shapes, Phases, SealedDone, Moves
  PROVE  SealedDone'
<1>1. SUFFICES ASSUME seed'.at \in {"sealed", "saved", "flipped"}, open'[Host] # None
               PROVE  Pending(open'[Host].ops) \subseteq processed'
  BY DEF SealedDone
<1>2. ASSUME open'[Host] = open[Host], Pending(open[Host].ops) \subseteq processed
      PROVE  Pending(open'[Host].ops) \subseteq processed'
  BY <1>2, DoneGrows
<1>3. CASE seed.at \in {"sealed", "saved", "flipped"}
  <2>1. HostRests \/ SaveThin \/ Flip
    BY <1>1, <1>3, SealedRests, IdleIs DEF Retire, Crash
  <2>2. open'[Host] = open[Host]
    BY <2>1 DEF HostRests, SaveThin, Flip
  <2>3. QED
    BY <1>1, <1>2, <1>3, <2>2 DEF SealedDone
<1>4. CASE Check
  <2>1. open' = open /\ Sealed(open[Host])
    BY <1>1, <1>4, IdleIs DEF Check, device
  <2>2. Pending(open[Host].ops) \subseteq processed
    BY <2>1 DEF Sealed, SeedBlocked, Owed
  <2>3. QED
    BY <1>2, <2>1, <2>2
<1>5. ~Arm /\ ~Rebuilds /\ ~Post /\ seed' # Idle
  BY <1>1, IdleIs DEF Arm, Rebuilds, Post, Shapes, Seeds
<1>6. QED
  BY <1>1, <1>3, <1>4, <1>5, SeedMoves DEF SaveThin, Flip

\* A document is saved: r is the row, o and f are the handles of the device then.
LEMMA OwnedSaved ==
  ASSUME Shapes, Phases, Commanded, NEW c \in Cmds, NEW d \in Devices, By[c] = d,
         NEW h, h = open[d] \/ h = flushing[d], h # None, ThinRow(d) => h.gen = 2,
         open[d] = h \/ open[d] = None, flushing[d] = h \/ flushing[d] = None,
         NEW r, r # None, h.ops \subseteq r.ops,
         NEW o, o = None \/ o.ops = r.ops, NEW f, f = None \/ f.ops = r.ops
  PROVE  Owned(c, d, stored[d] \cup ItemsOf(r.ops), sent, crashed, o, f, r, copy[d], processed)
<1>1. Owned(c, d, stored[d], sent, crashed, open[d], flushing[d], row[d], copy[d], processed)
  BY DEF Commanded
<1>2. Has(c, h) => Has(c, r)
  BY HasIs
<1>3. Has(c, row[d]) => Rests(c, h, copy[d], processed)
  BY OwnedStored
<1>4. Rests(c, row[d], copy[d], processed) => Rests(c, r, copy[d], processed)
  BY <1>2, <1>3 DEF Rests
<1>5. ~Has(c, None) /\ (Has(c, r) <=> Cmd(c) \in ItemsOf(r.ops))
  BY HasIs
<1>6. (Has(c, o) => Has(c, r)) /\ (Has(c, f) => Has(c, r))
      /\ (o # None /\ Has(c, r) => Has(c, o)) /\ (f # None /\ Has(c, r) => Has(c, f))
  BY HasIs
<1>7. Has(c, open[d]) \/ Has(c, flushing[d]) => Has(c, r)
  BY <1>2, <1>5
<1>8. Cmd(c) \in stored[d] \cup ItemsOf(r.ops) => Rests(c, r, copy[d], processed)
  BY <1>1, <1>4, <1>5 DEF Owned, Rests
<1>9. c \in sent /\ d \notin crashed => Rests(c, r, copy[d], processed)
  BY <1>1, <1>4, <1>7 DEF Owned, Rests
<1>10. QED
  BY <1>6, <1>8, <1>9 DEF Owned, Rests, Is2

\* A handle is dropped; what was in it is elsewhere.
LEMMA OwnedDropped ==
  ASSUME Shapes, Phases, Commanded, Moves, NEW d \in Devices, open' = [open EXCEPT ![d] = None],
         \A c \in Cmds : By[c] = d /\ Has(c, open[d]) => Rests(c, row[d], copy[d], processed),
         UNCHANGED <<row, copy, flushing, stored, sent, crashed>>
  PROVE  Commanded'
<1>1. ASSUME NEW c \in Cmds, By[c] = d
      PROVE  Owned(c, d, stored[d], sent, crashed, None, flushing[d], row[d], copy[d], processed')
  <2>1. Owned(c, d, stored[d], sent, crashed, open[d], flushing[d], row[d], copy[d], processed)
    BY <1>1 DEF Commanded
  <2>2. processed \subseteq processed'
    BY DoneGrows
  <2>3. Has(c, open[d]) => Rests(c, row[d], copy[d], processed)
    BY <1>1
  <2>4. ~Has(c, None) /\ ~Is2(None)
    BY HasIs DEF Is2
  <2>5. QED
    BY <2>1, <2>2, <2>3, <2>4 DEF Owned, Rests
<1>2. /\ open'[d] = None
      /\ \A e \in Devices \ {d} : open'[e] = open[e]
  BY DEF Shapes
<1>3. QED
  BY <1>1, <1>2, OwnedAt

\* The handle in the map is written to, or what was saved, pushed and said of it changes.
LEMMA OwnedWritten ==
  ASSUME Shapes, Commanded, Moves, NEW d \in Devices, open[d] # None, NEW k, k # None,
         open' = [open EXCEPT ![d] = k], k.gen = open[d].gen, open[d].ops \subseteq k.ops,
         ~k.dirty => ~open[d].dirty /\ k.ops = open[d].ops,
         \A c \in Cmds : c \in sent' => c \in sent \/ (By[c] = d /\ Has(c, k)),
         UNCHANGED <<row, copy, flushing, stored, crashed>>
  PROVE  Commanded'
<1>1. ASSUME NEW c \in Cmds, By[c] = d
      PROVE  Owned(c, d, stored[d], sent', crashed, k, flushing[d], row[d], copy[d], processed')
  <2>1. Owned(c, d, stored[d], sent, crashed, open[d], flushing[d], row[d], copy[d], processed)
    BY <1>1 DEF Commanded
  <2>2. processed \subseteq processed'
    BY DoneGrows
  <2>3. (Has(c, open[d]) => Has(c, k)) /\ (~k.dirty /\ Has(c, k) => ~open[d].dirty /\ Has(c, open[d]))
    BY HasIs
  <2>4. Is2(k) <=> Is2(open[d])
    BY DEF Is2
  <2>5. c \in sent' => c \in sent \/ Has(c, k)
    OBVIOUS
  <2>6. QED
    BY <2>1, <2>2, <2>3, <2>4, <2>5 DEF Owned, Rests
<1>2. /\ open'[d] = k
      /\ \A e \in Devices \ {d} : open'[e] = open[e]
  BY DEF Shapes
<1>3. QED
  BY <1>1, <1>2, OwnedAt

\* What open carries over from a document that is discarded.
LEMMA RequeuedHas ==
  ASSUME NEW d \in Devices, NEW ops, NEW c \in Pending(ops), c \in Cmds, By[c] = d
  PROVE  Cmd(c) \in ItemsOf(Requeued(d, ops))
<1>1. IsOp(Op("cmd", c, Live), "cmd", c, Live)
  BY OpIs DEF Live
<1>2. Op("cmd", c, Live) \in Requeued(d, ops)
  BY DEF Requeued
<1>3. Op("cmd", c, Live).item = Cmd(c)
  BY <1>1 DEF IsOp, Cmd
<1>4. QED
  BY <1>2, <1>3 DEF ItemsOf

\* What a build leaves: the commands of the row are in the row, the copy, or carried over.
LEMMA OwnedBuilt ==
  ASSUME Shapes, Grounded, NEW d \in Devices, NEW k, NEW X, Builds(d, k, X), NEW c \in Cmds, By[c] = d
  PROVE  /\ Has(c, row[d]) => Has(c, row'[d])
         /\ Has(c, copy[d]) => Has(c, copy'[d])
         /\ ~k.dirty /\ Has(c, k) => Has(c, row'[d])
         /\ Is2(k) /\ Has(c, row'[d]) => Has(c, k) \/ c \in processed
<1>1. k # None /\ row[d] \in Rows \cup {None} /\ (~k.dirty => X = {})
  BY LineageAssumption DEF Builds, Shapes
<1>2. ~Has(c, None) /\ (Has(c, k) <=> Cmd(c) \in ItemsOf(k.ops))
      /\ (Has(c, row[d]) <=> Cmd(c) \in ItemsOf(OpsOf(row[d])))
  BY <1>1, HasIs DEF Has
<1>3. CASE BuildsOld(d, k, X)
  <2>1. row' = row /\ copy' = copy /\ ~Is2(k) /\ (X = {} => k.ops = OpsOf(row[d]))
    BY <1>3 DEF BuildsOld, Is2
  <2>2. QED
    BY <1>1, <1>2, <2>1
<1>4. CASE BuildsAdopted(d, k, X)
  <2>1. /\ row' = row /\ copy' = [copy EXCEPT ![d] = Rollback(d, row[d].ops)]
        /\ row[d] # None /\ k.ops = Requeued(d, row[d].ops) \cup X /\ (k.dirty \/ k.ops = {})
    BY <1>4 DEF BuildsAdopted
  <2>2. copy[d] # None => copy'[d] = copy[d]
    BY <2>1 DEF Shapes, Rollback
  <2>3. Has(c, copy[d]) => Has(c, copy'[d])
    BY <1>2, <2>2
  <2>4. ~k.dirty => ~Has(c, k)
    BY <1>2, <2>1 DEF ItemsOf
  <2>5. OpsOf(row[d]) = row[d].ops /\ row[d].ops \subseteq AllOps
    BY <2>1, OpsOfIs, AllOpsHas
  <2>6. ASSUME Has(c, row[d]), c \notin processed PROVE Has(c, k)
    <3>1. c \in Pending(row[d].ops)
      BY <1>2, <2>5, <2>6, PendingOrDone
    <3>2. Cmd(c) \in ItemsOf(Requeued(d, row[d].ops))
      BY <3>1, RequeuedHas
    <3>3. Cmd(c) \in ItemsOf(k.ops)
      BY <2>1, <3>2 DEF ItemsOf
    <3>4. QED
      BY <1>2, <3>3
  <2>7. QED
    BY <2>1, <2>3, <2>4, <2>6
<1>5. CASE BuildsBorn(d, k, X)
  <2> DEFINE r == [ops |-> {}, epoch |-> 2, met |-> FALSE]
  <2>0. r.ops = {} /\ r \in Rows
    BY DEF Rows, Docs
  <2>1. row[d] = None /\ row' = [row EXCEPT ![d] = r] /\ copy' = copy /\ k.ops = X
    BY <1>5 DEF BuildsBorn
  <2> HIDE DEF r
  <2>2. row'[d] = r
    BY <2>1 DEF Shapes
  <2>3. ~Has(c, r)
    BY <2>0, HasIs, LineageAssumption DEF ItemsOf
  <2>4. X = {} => ~Has(c, k)
    BY <1>2, <2>1 DEF ItemsOf
  <2>5. QED
    BY <1>1, <1>2, <2>1, <2>2, <2>3, <2>4
<1>6. CASE BuildsThin(d, k, X)
  <2>1. row' = row /\ copy' = copy /\ row[d] # None /\ k.ops = row[d].ops \cup X
    BY <1>6 DEF BuildsThin, ThinRow, Turned
  <2>2. Has(c, row[d]) => Has(c, k)
    BY <1>1, <2>1, HasIs
  <2>3. X = {} => k.ops = OpsOf(row[d])
    BY <2>1, OpsOfIs
  <2>4. QED
    BY <1>1, <1>2, <2>1, <2>2, <2>3
<1>7. QED
  BY <1>3, <1>4, <1>5, <1>6 DEF Builds

LEMMA CommandedBuilds ==
  ASSUME Calm, "drop" \notin raced', Shapes, Grounded, Phases, Commanded, Moves,
         NEW d \in Devices, NEW k, NEW X, Undisturbed(d), Builds(d, k, X),
         \A c \in Cmds : c \in sent' => c \in sent \/ (By[c] = d /\ Has(c, k))
  PROVE  Commanded'
<1>1. /\ k # None /\ (open[d] # None => ~open[d].dirty) /\ flushing[d] = None
      /\ open' = [open EXCEPT ![d] = k] /\ UNCHANGED <<flushing, crashed, stored>>
  BY QuietIs, LineageAssumption DEF Builds, Elsewhere, Quiet
<1>2. ASSUME NEW c \in Cmds, By[c] = d
      PROVE  Owned(c, d, stored[d], sent', crashed, k, None, row'[d], copy'[d], processed')
  <2>1. Owned(c, d, stored[d], sent, crashed, open[d], None, row[d], copy[d], processed)
    BY <1>1, <1>2 DEF Commanded
  <2>2. processed \subseteq processed'
    BY DoneGrows
  <2>3. /\ Has(c, row[d]) => Has(c, row'[d])
        /\ Has(c, copy[d]) => Has(c, copy'[d])
        /\ ~k.dirty /\ Has(c, k) => Has(c, row'[d])
        /\ Is2(k) /\ Has(c, row'[d]) => Has(c, k) \/ c \in processed
    BY <1>2, OwnedBuilt
  <2>4. Rests(c, row[d], copy[d], processed) => Rests(c, row'[d], copy'[d], processed')
    BY <2>2, <2>3 DEF Rests
  <2>5. ~Has(c, None) /\ ~Is2(None)
    BY HasIs DEF Is2
  <2>6. Has(c, open[d]) => Rests(c, row[d], copy[d], processed)
    BY <1>1, <2>1, <2>5 DEF Owned
  <2>7. c \in sent' => c \in sent \/ Has(c, k)
    OBVIOUS
  <2>8. QED
    BY <2>1, <2>2, <2>3, <2>4, <2>5, <2>6, <2>7 DEF Owned, Rests
<1>3. /\ open'[d] = k
      /\ \A e \in Devices \ {d} : open'[e] = open[e] /\ row'[e] = row[e] /\ copy'[e] = copy[e]
  <2>1. \A e \in Devices \ {d} : row'[e] = row[e] /\ copy'[e] = copy[e]
    BY DEF Builds, BuildsOld, BuildsAdopted, BuildsBorn, BuildsThin, Shapes
  <2>2. QED
    BY <1>1, <2>1 DEF Shapes
<1>4. \A c \in Cmds : By[c] # d /\ c \in sent' => c \in sent
  OBVIOUS
<1>5. QED
  BY <1>1, <1>2, <1>3, <1>4, OwnedAt

LEMMA CommandedWrites ==
  ASSUME Calm, "drop" \notin raced', Shapes, Grounded, Phases, Commanded, Moves, Writes
  PROVE  Commanded'
<1>1. ASSUME NEW d \in Devices, NEW k, NEW X, Undisturbed(d), Talks(d, k, X) \/ Builds(d, k, X),
             \A c \in Cmds : c \in sent' => c \in sent \/ (By[c] = d /\ Cmd(c) \in ItemsOf(X))
      PROVE  Commanded'
  <2>1. k # None /\ X \subseteq k.ops
    BY <1>1, LineageAssumption
       DEF Talks, Builds, Grown, BuildsOld, BuildsAdopted, BuildsBorn, BuildsThin
  <2>2. \A c \in Cmds : Cmd(c) \in ItemsOf(X) => Has(c, k)
    BY <2>1, HasIs DEF ItemsOf
  <2>3. \A c \in Cmds : c \in sent' => c \in sent \/ (By[c] = d /\ Has(c, k))
    BY <1>1, <2>2
  <2>4. CASE Talks(d, k, X)
    <3>1. /\ open[d] # None /\ open' = [open EXCEPT ![d] = k] /\ k.gen = open[d].gen
          /\ k.ops = open[d].ops \cup X /\ (k.dirty \/ (k.dirty = open[d].dirty /\ X = {}))
          /\ UNCHANGED <<row, copy, flushing, stored, crashed>>
      BY <2>4 DEF Talks, Grown, Elsewhere
    <3>2. ~k.dirty => ~open[d].dirty /\ k.ops = open[d].ops
      BY <3>1
    <3>3. QED
      BY <2>1, <2>3, <3>1, <3>2, OwnedWritten
  <2>5. CASE Builds(d, k, X)
    BY <1>1, <2>3, <2>5, CommandedBuilds
  <2>6. QED
    BY <1>1, <2>4, <2>5
<1>2. ASSUME NEW d \in Devices, NEW k, NEW X, Uses(d, k, X) PROVE Commanded'
  <2>1. /\ Undisturbed(d) /\ (Talks(d, k, X) \/ Builds(d, k, X))
        /\ \A o \in X : o.item.kind = "cmd" /\ By[o.item.of] = d
        /\ sent' = sent \cup {o.item.of : o \in X}
    BY <1>2 DEF Uses
  <2>2. X \subseteq Ops
    BY <2>1 DEF Talks, Grown, Builds
  <2>3. \A o \in X : o.item = Cmd(o.item.of)
    BY <2>1, <2>2 DEF Ops, Items, Cmd
  <2>4. \A c \in Cmds : c \in sent' => c \in sent \/ (By[c] = d /\ Cmd(c) \in ItemsOf(X))
    BY <2>1, <2>3 DEF ItemsOf
  <2>5. QED
    BY <1>1, <2>1, <2>4
<1>3. ASSUME NEW c, NEW k, NEW o, Works(c, k, o) PROVE Commanded'
  <2>1. Undisturbed(Host) /\ Talks(Host, k, {o}) /\ sent' = sent
    BY <1>3 DEF Works
  <2>2. QED
    BY <1>1, <2>1, HostIs
<1>4. ASSUME NEW k, NEW X, Restores(k, X) PROVE Commanded'
  <2>1. Undisturbed(Host) /\ (Talks(Host, k, X) \/ Builds(Host, k, X)) /\ sent' = sent
    BY <1>4 DEF Restores
  <2>2. QED
    BY <1>1, <2>1, HostIs
<1>5. QED
  BY <1>2, <1>3, <1>4 DEF Writes

LEMMA CommandedMoves ==
  ASSUME Calm, "drop" \notin raced', Shapes, Grounded, Phases, Commanded, SealedDone, Moves
  PROVE  Commanded'
<1>0. \A d \in Devices : Placed(d, open[d], flushing[d], gen[d], row[d], copy[d], seed.at)
  BY DEF Phases
<1>1. ASSUME NEW d \in Devices, NEW r, NEW k, Saves(d, r, k) PROVE Commanded'
  <2>1. /\ open[d] # None /\ (ThinRow(d) => open[d].gen = 2)
        /\ r # None /\ r.ops = open[d].ops /\ k.ops = open[d].ops
    BY <1>1, SameLineage DEF Saves, Stores
  <2>2. flushing[d] = None
    BY <1>0, <2>1 DEF Placed
  <2>3. /\ row' = [row EXCEPT ![d] = r] /\ open' = [open EXCEPT ![d] = k]
        /\ stored' = [stored EXCEPT ![d] = @ \cup ItemsOf(r.ops)]
        /\ UNCHANGED <<copy, flushing, sent, crashed, processed>>
    BY <1>1, <2>1 DEF Saves, Stores
  <2>4. ASSUME NEW c \in Cmds, By[c] = d
        PROVE  Owned(c, d, stored[d] \cup ItemsOf(r.ops), sent, crashed, k, None, r, copy[d], processed)
    BY <2>1, <2>2, <2>4, OwnedSaved
  <2>5. /\ row'[d] = r /\ open'[d] = k /\ stored'[d] = stored[d] \cup ItemsOf(r.ops)
        /\ \A e \in Devices \ {d} : row'[e] = row[e] /\ open'[e] = open[e] /\ stored'[e] = stored[e]
    BY <2>3 DEF Shapes
  <2>6. \A c \in Cmds : By[c] = d => Owned(c, d, stored'[d], sent', crashed', open'[d], flushing'[d],
                                            row'[d], copy'[d], processed')
    BY <2>2, <2>3, <2>4, <2>5
  <2>7. QED
    BY <2>3, <2>5, <2>6, OwnedAt
<1>2. ASSUME NEW d \in Devices, NEW r, Flushes(d, r) PROVE Commanded'
  <2>1. /\ flushing[d] # None /\ (ThinRow(d) => flushing[d].gen = 2)
        /\ r # None /\ r.ops = flushing[d].ops
    BY <1>2, SameLineage DEF Flushes, Stores
  <2>2. open[d] = None
    BY <1>0, <2>1 DEF Placed
  <2>3. /\ row' = [row EXCEPT ![d] = r] /\ flushing' = [flushing EXCEPT ![d] = None]
        /\ stored' = [stored EXCEPT ![d] = @ \cup ItemsOf(r.ops)]
        /\ UNCHANGED <<copy, open, sent, crashed, processed>>
    BY <1>2, <2>1 DEF Flushes, Stores
  <2>4. ASSUME NEW c \in Cmds, By[c] = d
        PROVE  Owned(c, d, stored[d] \cup ItemsOf(r.ops), sent, crashed, None, None, r, copy[d], processed)
    BY <2>1, <2>2, <2>4, OwnedSaved
  <2>5. /\ row'[d] = r /\ flushing'[d] = None /\ stored'[d] = stored[d] \cup ItemsOf(r.ops)
        /\ \A e \in Devices \ {d} : row'[e] = row[e] /\ flushing'[e] = flushing[e] /\ stored'[e] = stored[e]
    BY <2>3 DEF Shapes
  <2>6. \A c \in Cmds : By[c] = d => Owned(c, d, stored'[d], sent', crashed', open'[d], flushing'[d],
                                            row'[d], copy'[d], processed')
    BY <2>2, <2>3, <2>4, <2>5
  <2>7. QED
    BY <2>3, <2>5, <2>6, OwnedAt
<1>3. ASSUME NEW d \in Devices, NEW k, Hears(d, k) PROVE Commanded'
  <2>1. /\ open[d] # None /\ open[d].gen = 2 /\ k # None /\ k.gen = 2 /\ k.dirty = open[d].dirty
        /\ k.ops = open[d].ops \cup Content /\ open' = [open EXCEPT ![d] = k]
        /\ UNCHANGED <<copy, flushing, sent, crashed, processed>>
    BY <1>3 DEF Hears, Like
  <2>2. UNCHANGED <<copy, flushing, sent, crashed, processed>> /\ \A e \in Devices \ {d} : open'[e] = open[e]
    BY <2>1 DEF Shapes
  <2>3. flushing[d] = None /\ row[d] # None
    BY <1>0, <2>1 DEF Placed, Fits
  <2>4. CASE Content \subseteq open[d].ops /\ row' = row
             /\ stored' = [stored EXCEPT ![d] = @ \cup ItemsOf(row[d].ops)]
    <3>1. k.ops = open[d].ops
      BY <2>1, <2>4
    <3>2. ASSUME NEW c \in Cmds, By[c] = d
          PROVE  Owned(c, d, stored[d] \cup ItemsOf(row[d].ops), sent, crashed, k, None, row[d], copy[d], processed)
      <4>1. Owned(c, d, stored[d], sent, crashed, open[d], None, row[d], copy[d], processed)
        BY <2>3, <3>2 DEF Commanded
      <4>2. (Has(c, k) <=> Has(c, open[d])) /\ (Has(c, row[d]) <=> Cmd(c) \in ItemsOf(row[d].ops))
        BY <2>1, <2>3, <3>1, HasIs
      <4>3. QED
        BY <2>1, <4>1, <4>2 DEF Owned, Rests, Is2
    <3>3. /\ open'[d] = k /\ stored'[d] = stored[d] \cup ItemsOf(row[d].ops)
          /\ \A e \in Devices \ {d} : open'[e] = open[e] /\ stored'[e] = stored[e]
      BY <2>1, <2>4 DEF Shapes
    <3>4. \A c \in Cmds : By[c] = d => Owned(c, d, stored'[d], sent', crashed', open'[d], flushing'[d],
                                              row'[d], copy'[d], processed')
      BY <2>2, <2>3, <2>4, <3>2, <3>3
    <3>5. QED
      BY <2>2, <2>4, <3>3, <3>4, OwnedAt
  <2>5. ASSUME NEW r, r # None, r.ops = k.ops, row' = [row EXCEPT ![d] = r],
               stored' = [stored EXCEPT ![d] = @ \cup ItemsOf(r.ops)]
        PROVE  Commanded'
    <3>1. ASSUME NEW c \in Cmds, By[c] = d
          PROVE  Owned(c, d, stored[d] \cup ItemsOf(r.ops), sent, crashed, k, None, r, copy[d], processed)
      <4>1. open[d].ops \subseteq r.ops
        BY <2>1, <2>5
      <4>2. QED
        BY <2>1, <2>3, <2>5, <3>1, <4>1, OwnedSaved
    <3>2. /\ open'[d] = k /\ row'[d] = r /\ stored'[d] = stored[d] \cup ItemsOf(r.ops)
          /\ \A e \in Devices \ {d} : row'[e] = row[e] /\ open'[e] = open[e] /\ stored'[e] = stored[e]
      BY <2>1, <2>5 DEF Shapes
    <3>3. \A c \in Cmds : By[c] = d => Owned(c, d, stored'[d], sent', crashed', open'[d], flushing'[d],
                                              row'[d], copy'[d], processed')
      BY <2>2, <2>3, <3>1, <3>2
    <3>4. QED
      BY <2>2, <3>2, <3>3, OwnedAt
  <2>6. QED
    BY <1>3, <2>4, <2>5 DEF Hears
<1>4. ASSUME NEW d \in Devices, NEW k, Pushes(d, k) PROVE Commanded'
  <2>1. /\ open[d] # None /\ k # None /\ open' = [open EXCEPT ![d] = k] /\ k.gen = open[d].gen
        /\ k.ops = open[d].ops /\ k.dirty = open[d].dirty
        /\ UNCHANGED <<row, copy, flushing, stored, sent, crashed>>
    BY <1>4 DEF Pushes, Like
  <2>2. QED
    BY <2>1, OwnedWritten
<1>5. ASSUME NEW d \in Devices, Cutover(d) PROVE Commanded'
  <2>1. open[d] # None /\ ~open[d].dirty /\ open' = [open EXCEPT ![d] = None]
        /\ UNCHANGED <<row, copy, flushing, stored, sent, crashed>>
    BY <1>5, RecordedIs DEF Cutover
  <2>2. ASSUME NEW c \in Cmds, By[c] = d, Has(c, open[d]) PROVE Rests(c, row[d], copy[d], processed)
    BY <2>1, <2>2 DEF Commanded, Owned
  <2>3. QED
    BY <2>1, <2>2, OwnedDropped
<1>6. ASSUME NEW d \in Devices, Evict(d) PROVE Commanded'
  <2>1. /\ open' = [open EXCEPT ![d] = None] /\ flushing' = [flushing EXCEPT ![d] = open[d]]
        /\ flushing[d] = None /\ UNCHANGED <<row, copy, stored, sent, crashed, processed>>
    BY <1>6, QuietIs, RecordedIs DEF Evict, Quiet
  <2>2. ASSUME NEW c \in Cmds, By[c] = d
        PROVE  Owned(c, d, stored[d], sent, crashed, None, open[d], row[d], copy[d], processed)
    BY <2>1, <2>2 DEF Commanded, Owned, Is2
  <2>3. /\ open'[d] = None /\ flushing'[d] = open[d]
        /\ \A e \in Devices \ {d} : open'[e] = open[e] /\ flushing'[e] = flushing[e]
    BY <2>1 DEF Shapes
  <2>4. QED
    BY <2>1, <2>2, <2>3, OwnedAt
<1>7. ASSUME NEW d \in Devices, Crash(d) PROVE Commanded'
  <2>1. /\ open' = [open EXCEPT ![d] = None] /\ flushing' = [flushing EXCEPT ![d] = None]
        /\ crashed' = crashed \cup {d} /\ UNCHANGED <<row, copy, stored, sent, processed>>
    BY <1>7 DEF Crash
  <2>2. ASSUME NEW c \in Cmds, By[c] = d
        PROVE  Owned(c, d, stored[d], sent, crashed', None, None, row[d], copy[d], processed)
    BY <2>1, <2>2 DEF Commanded, Owned, Is2
  <2>3. /\ open'[d] = None /\ flushing'[d] = None
        /\ \A e \in Devices \ {d} : open'[e] = open[e] /\ flushing'[e] = flushing[e]
    BY <2>1 DEF Shapes
  <2>4. QED
    BY <2>1, <2>2, <2>3, OwnedAt
<1>8. ASSUME UNCHANGED <<row, copy, open, flushing, stored, sent, crashed, processed>> PROVE Commanded'
  BY <1>8 DEF Commanded
<1>9. ASSUME (\E d \in Devices : Learn(d)) \/ Arm \/ Rebuilds \/ Post \/ PostFails \/ Check \/ Flip
      PROVE  Commanded'
  BY <1>8, <1>9 DEF Learn, Arm, Rebuilds, Post, PostFails, Check, Flip, device
<1>10. ASSUME SaveThin PROVE Commanded'
  <2> DEFINE r == [ops |-> seed.thin, epoch |-> 2, met |-> FALSE]
             k == IF row[Host] = None THEN copy[Host] ELSE Rollback(Host, row[Host].ops)
  <2>0. r \in Rows /\ r.ops = seed.thin
    BY DEF Rows, Shapes, Seeds
  <2>1. /\ row' = [row EXCEPT ![Host] = r] /\ copy' = [copy EXCEPT ![Host] = k]
        /\ UNCHANGED <<open, flushing, sent, crashed, processed>>
        /\ stored' = [stored EXCEPT ![Host] = @ \cup ItemsOf(seed.thin)]
    BY <1>10, HostIs DEF SaveThin, Shapes
  <2>2. copy[Host] = None /\ ~Is2(open[Host]) /\ ~Is2(flushing[Host])
    BY <1>10, HostIs DEF SaveThin, Phases, Before, Is2
  <2>3. OpsOf(row[Host]) \subseteq OpsOf(k)
    <3>1. CASE row[Host] = None
      BY <3>1, OpsOfIs
    <3>2. CASE row[Host] # None
      <4>1. row[Host].ops \in Docs
        BY <3>2, HostIs DEF Shapes, Rows
      <4>2. NewRow(row[Host].ops) \in Rows /\ NewRow(row[Host].ops).ops = row[Host].ops
        BY <4>1 DEF NewRow, Rows
      <4>3. k = NewRow(row[Host].ops)
        BY <2>2, <3>2 DEF Rollback
      <4>4. QED
        BY <3>2, <4>2, <4>3, OpsOfIs, LineageAssumption
    <3>3. QED
      BY <3>1, <3>2
  <2> HIDE DEF r, k
  <2>4. ASSUME NEW c \in Cmds, By[c] = Host
        PROVE  Owned(c, Host, stored[Host] \cup ItemsOf(seed.thin), sent, crashed, open[Host], flushing[Host],
                     r, k, processed)
    <3>1. Owned(c, Host, stored[Host], sent, crashed, open[Host], flushing[Host], row[Host], copy[Host], processed)
      BY <2>4 DEF Commanded
    <3>2. (Has(c, row[Host]) => Has(c, k)) /\ ~Has(c, copy[Host])
      BY <2>2, <2>3, HasIs
    <3>3. Cmd(c) \in ItemsOf(seed.thin) => Has(c, r)
      BY <2>0, HasIs, LineageAssumption
    <3>4. QED
      BY <2>2, <3>1, <3>2, <3>3 DEF Owned, Rests
  <2>5. /\ row'[Host] = r /\ copy'[Host] = k /\ stored'[Host] = stored[Host] \cup ItemsOf(seed.thin)
        /\ \A e \in Devices \ {Host} : row'[e] = row[e] /\ copy'[e] = copy[e] /\ stored'[e] = stored[e]
    BY <2>1, HostIs DEF Shapes
  <2>6. QED
    BY <2>1, <2>4, <2>5, HostIs, OwnedAt
<1>11. ASSUME Retire PROVE Commanded'
  <2>1. seed.at = "flipped" /\ Busy = {}
    BY <1>11 DEF Retire, Phases
  <2>2. open' = [open EXCEPT ![Host] = None] /\ UNCHANGED <<row, copy, flushing, stored, sent, crashed>>
    BY <1>11, <2>1, HostIs DEF Retire, Shapes, Busy, RunsOf
  <2>3. ASSUME NEW c \in Cmds, Has(c, open[Host]) PROVE c \in processed
    <3>1. open[Host] # None /\ Cmd(c) \in ItemsOf(open[Host].ops)
      BY <2>3, HasIs
    <3>2. open[Host].ops \subseteq AllOps
      BY <3>1, HostIs, AllOpsHas, OpsOfIs
    <3>3. Pending(open[Host].ops) \subseteq processed
      BY <2>1, <3>1 DEF SealedDone
    <3>4. QED
      BY <3>1, <3>2, <3>3, PendingOrDone
  <2>4. QED
    BY <2>2, <2>3, HostIs, OwnedDropped DEF Rests
<1>12. QED
  BY <1>1, <1>2, <1>3, <1>4, <1>5, <1>6, <1>7, <1>9, <1>10, <1>11, CommandedWrites DEF Moves
-----------------------------------------------------------------------------
(* The initial states. *)

\* Nothing is open, nothing under way; what is stored is the history, or nothing.
Starts ==
    /\ Shapes
    /\ \A d \in Devices : /\ open[d] = None /\ flushing[d] = None
                          /\ stored[d] = ItemsOf(OpsOf(row[d]))
                          /\ OpsOf(row[d]) \subseteq History /\ OpsOf(copy[d]) \subseteq History
                          /\ NewRows(row[d]) = {} /\ (d # Host => copy[d] = None)
    /\ \/ \A d \in Devices : gen[d] = 1 /\ ~ThinRow(d) /\ copy[d] = None
       \/ ThinRow(Host)
    /\ seed = Idle /\ Content = {} /\ room.rows = {} /\ sent = {} /\ processed = {}

LEMMA InitStarts == Init => Starts
<1> DEFINE thin == [ops |-> {}, epoch |-> 2, met |-> FALSE]
           old  == NewRow(History)
<1> SUFFICES ASSUME Init PROVE Starts
  OBVIOUS
<1>1. Shapes
  BY ShapesInit
<1>2. thin # None /\ thin.ops = {} /\ thin.epoch = 2
  <2>1. thin \in Rows /\ thin.ops = {} /\ thin.epoch = 2
    BY DEF Rows, Docs
  <2> HIDE DEF thin
  <2>2. QED
    BY <2>1, LineageAssumption
<1>3. old # None /\ old.ops = History /\ old.epoch = 0
  <2>1. History \in Docs
    <3>1. IsOp(Op("msg", Old, Fat), "msg", Old, Fat)
      BY OpIs DEF Fat
    <3>2. QED
      BY <3>1 DEF IsOp, History, Docs, Ops
  <2>2. old \in Rows /\ old.ops = History /\ old.epoch = 0
    BY <2>1 DEF Rows, NewRow
  <2> HIDE DEF old
  <2>3. QED
    BY <2>2, LineageAssumption
<1>4. /\ open = [d \in Devices |-> None] /\ flushing = [d \in Devices |-> None]
      /\ seed = Idle /\ room = [ckpt |-> {}, rows |-> {}] /\ processed = {} /\ sent = {}
      /\ gen = [d \in Devices |-> IF left.blank THEN 2 ELSE 1]
      /\ copy = [d \in Devices |-> IF left.blank /\ d = Host THEN old ELSE None]
      /\ stored = [d \in Devices |-> ItemsOf(OpsOf(row[d]))]
  BY DEF Init
<1>5. PICK copies \in SUBSET (Devices \ {Host}) :
         row = [d \in Devices |-> IF d = Host /\ left.blank THEN thin
                                  ELSE IF d \in copies \cup {Host} THEN old ELSE None]
  BY DEF Init
<1> HIDE DEF thin, old
<1>6. \A d \in Devices : row[d] \in {thin, old, None} /\ copy[d] \in {old, None} /\ (d # Host => copy[d] = None)
  BY <1>4, <1>5
<1>7. \A x \in {thin, old, None} : OpsOf(x) \subseteq History /\ NewRows(x) = {}
  BY <1>2, <1>3, OpsOfIs DEF NewRows, Turned
<1>8. Content = {} /\ room.rows = {}
  BY <1>4 DEF Content
<1>9. (\A d \in Devices : gen[d] = 1 /\ ~ThinRow(d) /\ copy[d] = None) \/ ThinRow(Host)
  <2>1. CASE left.blank
    BY <1>2, <1>5, <2>1, HostIs DEF ThinRow, Turned
  <2>2. CASE ~left.blank
    BY <1>2, <1>3, <1>4, <1>5, <2>2 DEF ThinRow, Turned
  <2>3. QED
    BY <2>1, <2>2
<1>10. \A d \in Devices : /\ open[d] = None /\ flushing[d] = None
                          /\ stored[d] = ItemsOf(OpsOf(row[d]))
                          /\ OpsOf(row[d]) \subseteq History /\ OpsOf(copy[d]) \subseteq History
                          /\ NewRows(row[d]) = {} /\ (d # Host => copy[d] = None)
  BY <1>4, <1>6, <1>7
<1>11. QED
  BY <1>1, <1>4, <1>8, <1>9, <1>10 DEF Starts

LEMMA StartsHolds ==
  ASSUME Starts
  PROVE  /\ Grounded /\ Phases /\ Flows /\ Singles /\ Histories /\ Forks /\ Commanded /\ SealedDone
<1>0. /\ \A d \in Devices : /\ open[d] = None /\ flushing[d] = None
                            /\ stored[d] = ItemsOf(OpsOf(row[d]))
                            /\ OpsOf(row[d]) \subseteq History /\ OpsOf(copy[d]) \subseteq History
                            /\ NewRows(row[d]) = {} /\ (d # Host => copy[d] = None)
      /\ seed.at = "idle" /\ seed.thin = {} /\ Content = {} /\ sent = {} /\ processed = {}
      /\ ~Is2(None) /\ NewDoc(None) = {} /\ OpsOf(None) = {} /\ Busy = {}
  BY HostIs, OpsOfIs, IdleIs DEF Starts, Is2, NewDoc, Busy, RunsOf
<1>1. Grounded
  <2>1. AllOps \subseteq History
    BY <1>0 DEF AllOps, OpsAt
  <2>2. IsFiniteSet(AllOps)
    BY <2>1, FS_Singleton, FS_Subset DEF History
  <2>3. IsOp(Op("msg", Old, Fat), "msg", Old, Fat)
    BY OpIs DEF Fat
  <2>4. \A o \in AllOps : o.item.of = Old
    BY <2>1, <2>3 DEF History, IsOp
  <2>5. QED
    BY <1>0, <2>2, <2>4 DEF Grounded, Told
<1>2. Phases
  <2>1. Before \/ ThinRow(Host)
    BY <1>0 DEF Starts, Before
  <2>2. \A d \in Devices : Placed(d, open[d], flushing[d], gen[d], row[d], copy[d], seed.at)
    BY <1>0 DEF Placed
  <2>3. QED
    BY <1>0, <2>1, <2>2 DEF Phases
<1>3. Flows
  BY <1>0 DEF Flows, Flowed, From, NoFat, MsgOps
<1>4. Singles
  <2>1. HostDocs = {}
    BY <1>0, HostIs DEF HostDocs
  <2>2. QED
    BY <1>0, <2>1, HostIs DEF Singles, Once
<1>5. Histories
  BY <1>0 DEF Histories, Hist, Spoken
<1>6. Forks
  BY <1>0, HostIs DEF Forks, RebuiltAll, SeenKept, SealedCovers, ThinCovers, Spoken
<1>7. Commanded
  <2>1. ASSUME NEW c \in Cmds, NEW d \in Devices
        PROVE  Owned(c, d, stored[d], sent, crashed, None, None, row[d], copy[d], processed)
    <3>1. Cmd(c) \in stored[d] => Has(c, row[d])
      BY <1>0 DEF Has
    <3>2. QED
      BY <1>0, <3>1 DEF Owned, Rests
  <2>2. \A c \in Cmds : By[c] \in Devices
    BY LineageAssumption
  <2>3. QED
    BY <1>0, <2>1, <2>2 DEF Commanded
<1>8. SealedDone
  BY <1>0 DEF SealedDone
<1>9. QED
  BY <1>1, <1>2, <1>3, <1>4, <1>5, <1>6, <1>7, <1>8
-----------------------------------------------------------------------------
(* A step that changes nothing. *)

LEMMA Stutters ==
  ASSUME UNCHANGED vars
  PROVE  /\ Shapes => Shapes'
         /\ Grounded => Grounded'
         /\ Phases => Phases'
         /\ Flows => Flows'
         /\ Singles => Singles'
         /\ Histories => Histories'
         /\ Forks => Forks'
         /\ Commanded => Commanded'
         /\ SealedDone => SealedDone'
<1>1. UNCHANGED <<gen, row, copy, open, flushing, seed, room, processed, sent, crashed, stored, left>>
  BY DEF vars, device
<1>2. /\ Content' = Content /\ AllOps' = AllOps /\ Busy' = Busy /\ HostDocs' = HostDocs
      /\ Before' = Before /\ (\A d : ThinRow(d)' = ThinRow(d))
  BY <1>1 DEF Content, AllOps, OpsAt, OpsOf, Busy, RunsOf, HostDocs, NewRows, NewDoc, Turned, Before, ThinRow
<1>3. \A d : Shared(d)' = Shared(d)
  BY <1>1, <1>2 DEF Shared, ItemsOf
<1>4. Shapes => Shapes'
  BY <1>1 DEF Shapes
<1>5. Grounded => Grounded'
  BY <1>1, <1>2 DEF Grounded
<1>6. Phases => Phases'
  BY <1>1, <1>2 DEF Phases
<1>7. Flows => Flows'
  BY <1>1, <1>2 DEF Flows
<1>8. Singles => Singles'
  BY <1>1, <1>2 DEF Singles
<1>9. Histories => Histories'
  BY <1>1, <1>2, <1>3 DEF Histories
<1>10. Forks => Forks'
  BY <1>1, <1>2 DEF Forks, RebuiltAll, SeenKept, Seen, SealedCovers, ThinCovers, OpsOf
<1>11. Commanded => Commanded'
  BY <1>1 DEF Commanded
<1>12. SealedDone => SealedDone'
  BY <1>1 DEF SealedDone
<1>13. QED
  BY <1>4, <1>5, <1>6, <1>7, <1>8, <1>9, <1>10, <1>11, <1>12
-----------------------------------------------------------------------------
(* The invariants are inductive, each on the layers below it. *)

Core     == Shapes /\ Grounded /\ Phases
OneInv   == Core /\ Flows /\ Singles
KeptInv  == Core /\ Flows /\ Histories
ForkInv  == KeptInv /\ Forks
OwnedInv == Core /\ Commanded /\ SealedDone

LEMMA InitHolds == Init => OneInv /\ ForkInv /\ OwnedInv
BY InitStarts, StartsHolds DEF Starts, Core, OneInv, KeptInv, ForkInv, OwnedInv

LEMMA CoreStep ==
  ASSUME Calm, Core, Next
  PROVE  Moves /\ Core'
<1>1. Moves
  BY NextMoves DEF Core, Grounded
<1>2. Core'
  BY <1>1, ShapesMoves, GroundedMoves, PhasesMoves DEF Core
<1>3. QED
  BY <1>1, <1>2

LEMMA OneStep ==
  ASSUME Calm, "salvage" \notin raced', OneInv, [Next]_vars
  PROVE  OneInv'
<1>1. CASE Next
  BY <1>1, CoreStep, FlowsMoves, SinglesMoves DEF OneInv, Core
<1>2. CASE UNCHANGED vars
  BY <1>2, Stutters DEF OneInv, Core
<1>3. QED
  BY <1>1, <1>2

LEMMA KeptStep ==
  ASSUME Calm, KeptInv, [Next]_vars
  PROVE  KeptInv'
<1>1. CASE Next
  BY <1>1, CoreStep, FlowsMoves, HistoriesMoves DEF KeptInv, Core
<1>2. CASE UNCHANGED vars
  BY <1>2, Stutters DEF KeptInv, Core
<1>3. QED
  BY <1>1, <1>2

LEMMA ForkStep ==
  ASSUME Calm, "evict" \notin raced', ForkInv, [Next]_vars
  PROVE  ForkInv'
<1>1. CASE Next
  BY <1>1, CoreStep, KeptStep, ForksMoves DEF ForkInv, KeptInv, Core
<1>2. CASE UNCHANGED vars
  BY <1>2, KeptStep, Stutters DEF ForkInv
<1>3. QED
  BY <1>1, <1>2

LEMMA OwnedStep ==
  ASSUME Calm, "drop" \notin raced', OwnedInv, [Next]_vars
  PROVE  OwnedInv'
<1>1. CASE Next
  BY <1>1, CoreStep, CommandedMoves, SealedDoneMoves DEF OwnedInv, Core
<1>2. CASE UNCHANGED vars
  BY <1>2, Stutters DEF OwnedInv, Core
<1>3. QED
  BY <1>1, <1>2
-----------------------------------------------------------------------------
LEMMA RacedGrows ==
  ASSUME [Next]_vars
  PROVE  raced \subseteq raced'
<1>1. ASSUME NEW W, Falls(W) PROVE raced \subseteq raced'
  BY <1>1 DEF Falls
<1>2. ASSUME NEW d \in Devices, User(d) \/ Open(d) \/ Engine(d) \/ Evict(d) \/ Crash(d) PROVE raced \subseteq raced'
  BY <1>1, <1>2 DEF User, Open, Engine, Evict, Crash, Watch, Unwatch, Save, Flush, Learn, Cutover, Hear, Push
<1>3. ASSUME NEW c \in Cmds, Queue(c) \/ Run(c) PROVE raced \subseteq raced'
  BY <1>1, <1>3 DEF Queue, Run, Drain, Reply
<1>4. ASSUME Seed \/ PostFails \/ Salvage PROVE raced \subseteq raced'
  BY <1>1, <1>4 DEF Seed, PostFails, Salvage, Arm, Rebuild, Post, Check, SaveThin, Flip, Retire
<1>5. CASE UNCHANGED vars
  BY <1>5 DEF vars
<1>6. QED
  BY <1>2, <1>3, <1>4, <1>5 DEF Next

(* Every document of the new lineage holds copies of one rebuild and what was
   committed to it, so nothing of the old lineage and no message twice
   (doc_host.rs: rebuild_thin_doc, adopt, the cutover watcher, the salvage). *)
THEOREM OneLineageHolds == Spec => []OneLineage
<1> DEFINE J == Clear({"flip", "flush", "salvage"}) => OneInv
<1>1. Init => J
  BY InitHolds
<1>2. J /\ [Next]_vars => J'
  <2>1. SUFFICES ASSUME J, [Next]_vars, Clear({"flip", "flush", "salvage"})' PROVE OneInv'
    OBVIOUS
  <2>2. Clear({"flip", "flush", "salvage"})
    BY <2>1, RacedGrows DEF Clear
  <2>3. QED
    BY <2>1, <2>2, OneStep DEF Clear, Calm
<1>3. J => OneLineage
  <2> SUFFICES ASSUME OneInv,
                      NEW ops \in {Content} \cup UNION {Thin(d) : d \in Devices},
                      NEW o \in ops, NEW p \in ops
               PROVE  o.copy # Fat /\ (o.item = p.item /\ o.item.kind # "cmd" => o = p)
    BY DEF OneLineage
  <2>1. Once(Union) /\ NoFat(Content)
    BY SinglesIs DEF OneInv, Flows
  <2>2. CASE ops = Content
    BY <2>1, <2>2 DEF NoFat, Once, Union
  <2>3. ASSUME NEW d \in Devices, ops \in Thin(d)
        PROVE  o.copy # Fat /\ (o.item = p.item /\ o.item.kind # "cmd" => o = p)
    <3>1. ops = NewRows(row[d]) \/ ops = NewDoc(open[d])
      BY <2>3 DEF Thin, NewRows, NewDoc, Turned
    <3>2. From(d, ops, Content)
      BY <3>1 DEF OneInv, Flows, Flowed
    <3>3. CASE d = Host
      <4>1. ops \subseteq Union
        BY <3>1, <3>3 DEF Union, HostDocs
      <4>2. QED
        BY <2>1, <3>2, <4>1 DEF From, NoFat, Once
    <3>4. CASE d # Host
      <4>1. MsgOps(ops) \subseteq Union
        BY <3>2, <3>4 DEF From, Union
      <4>2. o.item = p.item /\ o.item.kind # "cmd" => o \in MsgOps(ops) /\ p \in MsgOps(ops)
        BY DEF MsgOps
      <4>3. QED
        BY <2>1, <3>2, <4>1, <4>2 DEF From, NoFat, Once
    <3>5. QED
      BY <3>3, <3>4
  <2>4. QED
    BY <2>2, <2>3
<1> HIDE DEF J
<1>4. QED
  BY <1>1, <1>2, <1>3, PTL DEF Spec

LEMMA HoldsIs ==
  ASSUME NEW d
  PROVE  /\ ItemsOf(Content) \subseteq Holds(d)
         /\ ItemsOf(OpsOf(row[d])) \subseteq Holds(d) /\ ItemsOf(OpsOf(copy[d])) \subseteq Holds(d)
         /\ ItemsOf(OpsOf(open[d])) \subseteq Holds(d) /\ ItemsOf(OpsOf(flushing[d])) \subseteq Holds(d)
BY DEF Holds, ItemsOf

(* Adopting, re-adopting after a crash, saving and seeding never lose a transcript
   that was stored: the first rollback copy is the real one (doc_host.rs: open,
   save_snapshot, seed_chat2). *)
THEOREM HistoryKeptHolds == Spec => []HistoryKept
<1> DEFINE J == Clear({"flip", "flush"}) => KeptInv
<1>1. Init => J
  BY InitHolds DEF ForkInv
<1>2. J /\ [Next]_vars => J'
  <2>1. SUFFICES ASSUME J, [Next]_vars, Clear({"flip", "flush"})' PROVE KeptInv'
    OBVIOUS
  <2>2. Clear({"flip", "flush"})
    BY <2>1, RacedGrows DEF Clear
  <2>3. QED
    BY <2>1, <2>2, KeptStep DEF Clear, Calm
<1>3. J => HistoryKept
  <2> SUFFICES ASSUME KeptInv, NEW d \in Devices, NEW i \in stored[d], i.kind # "cmd"
               PROVE  i \in Holds(d)
    BY DEF HistoryKept
  <2>1. Hist(d, stored[d], row[d], copy[d], open[d], flushing[d], Shared(d), ItemsOf(Content))
    BY DEF KeptInv, Histories
  <2>2. i \in Spoken(stored[d])
    BY DEF Spoken
  <2>3. Shared(d) \subseteq ItemsOf(Content)
    BY DEF Shared
  <2>4. QED
    BY <2>1, <2>2, <2>3, HoldsIs DEF Hist
<1> HIDE DEF J
<1>4. QED
  BY <1>1, <1>2, <1>3, PTL DEF Spec

(* The flip leaves no message of the host behind in the old lineage
   (doc_host.rs: seed_chat2 checks the document it rebuilt before it flips). *)
THEOREM NothingForkedHolds == Spec => []NothingForked
<1> DEFINE J == Clear({"flip", "flush", "evict"}) => ForkInv
<1>1. Init => J
  BY InitHolds
<1>2. J /\ [Next]_vars => J'
  <2>1. SUFFICES ASSUME J, [Next]_vars, Clear({"flip", "flush", "evict"})' PROVE ForkInv'
    OBVIOUS
  <2>2. Clear({"flip", "flush", "evict"})
    BY <2>1, RacedGrows DEF Clear
  <2>3. QED
    BY <2>1, <2>2, ForkStep DEF Clear, Calm
<1>3. J => NothingForked
  <2> SUFFICES ASSUME ForkInv, gen[Host] = 2, seed.at = "idle",
                      NEW i \in stored[Host] \cup ItemsOf(OpsOf(open[Host])), i.kind # "cmd"
               PROVE  i \in ItemsOf(Content \cup UNION Thin(Host))
    BY DEF NothingForked
  <2>1. ThinRow(Host)
    BY HostIs DEF ForkInv, KeptInv, Core, Phases, Before
  <2>2. ItemsOf(OpsOf(row[Host])) \subseteq ItemsOf(Content \cup UNION Thin(Host))
    <3>1. OpsOf(row[Host]) \in Thin(Host)
      BY <2>1, OpsOfIs DEF ThinRow, Turned, Thin
    <3>2. QED
      BY <3>1 DEF ItemsOf
  <2>3. CASE i \in stored[Host]
    BY <2>1, <2>2, <2>3 DEF ForkInv, Forks, ThinCovers, Spoken
  <2>4. CASE i \in ItemsOf(OpsOf(open[Host]))
    <3>1. open[Host] # None /\ open[Host] \in Handles
      BY <2>4, HostIs DEF OpsOf, ItemsOf, ForkInv, KeptInv, Core, Shapes
    <3>2. Fits(Host, open[Host], gen[Host], row[Host], copy[Host], seed.at)
      BY <3>1, HostIs DEF ForkInv, KeptInv, Core, Phases, Placed
    <3>3. open[Host].gen = 2
      BY <2>1, <3>1, <3>2 DEF Fits, ThinRow, Handles
    <3>4. OpsOf(open[Host]) \in Thin(Host)
      BY <3>1, <3>3, OpsOfIs DEF Thin
    <3>5. QED
      BY <2>4, <3>4 DEF ItemsOf
  <2>5. QED
    BY <2>3, <2>4
<1> HIDE DEF J
<1>4. QED
  BY <1>1, <1>2, <1>3, PTL DEF Spec

(* A command is on the device that sent it until the host executed it, through
   saves, evictions, crashes, adopting and the flip (doc_host.rs: queue_command,
   open, seed_chat2). *)
THEOREM CommandsKeptHolds == Spec => []CommandsKept
<1> DEFINE J == Clear({"flip", "flush", "drop"}) => OwnedInv
<1>1. Init => J
  BY InitHolds
<1>2. J /\ [Next]_vars => J'
  <2>1. SUFFICES ASSUME J, [Next]_vars, Clear({"flip", "flush", "drop"})' PROVE OwnedInv'
    OBVIOUS
  <2>2. Clear({"flip", "flush", "drop"})
    BY <2>1, RacedGrows DEF Clear
  <2>3. QED
    BY <2>1, <2>2, OwnedStep DEF Clear, Calm
<1>3. J => CommandsKept
  <2> SUFFICES ASSUME OwnedInv, NEW c \in sent, Cmd(c) \in stored[By[c]] \/ By[c] \notin crashed
               PROVE  Cmd(c) \in Holds(By[c]) \/ c \in processed
    BY DEF CommandsKept, Cmd
  <2> DEFINE d == By[c]
  <2>1. c \in Cmds
    BY DEF OwnedInv, Core, Shapes
  <2>2. Owned(c, d, stored[d], sent, crashed, open[d], flushing[d], row[d], copy[d], processed)
    BY <2>1 DEF OwnedInv, Commanded
  <2> HIDE DEF d
  <2>3. \/ Has(c, row[d]) \/ Has(c, copy[d]) \/ Has(c, open[d]) \/ Has(c, flushing[d]) \/ c \in processed
    BY <2>2 DEF Owned, Rests, d
  <2>4. Cmd(c) \in Holds(d) \/ c \in processed
    BY <2>3, HoldsIs DEF Has
  <2>5. QED
    BY <2>4 DEF d
<1> HIDE DEF J
<1>4. QED
  BY <1>1, <1>2, <1>3, PTL DEF Spec
=============================================================================

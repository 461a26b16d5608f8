---------------------------- MODULE RegistrySync ----------------------------
(***************************************************************************)
(* The registry end to end: the room (edge/src/registry-room.ts), one      *)
(* replica per device (crates/doc/src/registry.rs, RegistryDoc), the       *)
(* socket between them (crates/sync/src/registry.rs) and the snapshot the  *)
(* engine saves behind its own back (workspace_host.rs).                   *)
(*                                                                         *)
(* A handler of the room is one step: events of a Durable Object are       *)
(* single-threaded and its SQLite writes commit together.  A handler of    *)
(* the replica is one step: it runs under the registry lock.  Everything   *)
(* between handlers interleaves: two FIFO frame queues per socket, a       *)
(* disconnect that cuts both anywhere, frames of a dead socket the room    *)
(* still reads, crashes between the debounced saves, the room's daily      *)
(* alarm and the operator's /reset.                                        *)
(*                                                                         *)
(* Left out: presence and probes (no rows), and the two paths where the    *)
(* room refuses a batch (over 500 ops, an invalid op): enqueue_ops chunks  *)
(* at 400 and the typed API mints no invalid op.                           *)
(***************************************************************************)
EXTENDS RegistryCore, Sequences, SequencesExt

CONSTANTS
    Ids,           \* the rows (kind and id together)
    N,             \* number of devices
    DeviceRow,     \* DeviceRow[c]: the row the engine of device c upserts at boot
    Budgets,       \* bounds: what may happen in a behaviour, one record per scenario
    WallSteps      \* TRUE: the wall clock may step back across a restart

Clients == 1..N

\* Batches written by users, disconnects, engine crashes, operator wipes, alarms
\* that purge tombstones, and the clock readings of each device.
Budget == [writes : Nat, drops : Nat, crashes : Nat, resets : Nat, gcs : Nat,
           ticks : [Clients -> Nat]]

ASSUME SyncAssumption ==
    /\ N \in Nat \ {0}
    /\ Fields # {}   \* a device row names its device
    /\ DeviceRow \in [Clients -> Ids]
    /\ Budgets \subseteq Budget
    /\ WallSteps \in BOOLEAN

VARIABLES
    rows, seq, gcFloor,  \* the room: its tables and meta
    srv,                 \* room end of each socket: "new", "ready" or "closed"
    doc,                 \* RegistryDoc of each device, in memory
    saved,               \* its last snapshot on disk
    conn,                \* the engine: "off", "down", "hello" or "joined"
    up, down,            \* frames in flight, to the room and to the device
    stray,               \* pushes of dead sockets the room has yet to read
    wall,                \* newest clock reading each device has used
    killed,              \* history: newest delete the room accepted, per row
    issued,              \* history: the batches each device minted
    lost,                \* history: those a crash took before any snapshot
    reseeded,            \* history: devices that re-seeded since the last reset
    wiped,               \* history: the room was wiped
    left                 \* what remains of the bounds

room == <<rows, seq, gcFloor, killed, wiped>>
vars == <<rows, seq, gcFloor, srv, doc, saved, conn, up, down, stray,
          wall, killed, issued, lost, reseeded, wiped, left>>

-----------------------------------------------------------------------------
(* Data. *)

Batches == [id : Nat, ops : [Ids -> Ops]]
Pending == [id : Nat, ops : [Ids -> Ops], sent : BOOLEAN]
Docs    == [auth : [Ids -> Rows], cursor : Nat, tick : Nat, pending : Seq(Pending)]

Hello(cursor) == [t |-> "hello", cursor |-> cursor]
PushFrame(b)  == [t |-> "push", batch |-> [id |-> b.id, ops |-> b.ops]]
Ack(id, s)    == [t |-> "ack", batch |-> id, seq |-> s]

\* The rows a rows or state frame carries: those of S; NoRow is "not in it".
Carried(S, table) == [i \in Ids |-> IF i \in S THEN table[i] ELSE NoRow]

RowsFrame(s, table, S) == [t |-> "rows", seq |-> s, rows |-> Carried(S, table)]
StateFrame(s, full, floor, table, S) ==
    [t |-> "state", seq |-> s, full |-> full, gcFloor |-> floor, rows |-> Carried(S, table)]

\* encodeHlc: the reading first, the device breaks the tie.
Hlc(c, t) == t * (N + 1) + c

Op(kind, put, cut, h) ==
    [op |-> kind, put |-> put, cut |-> cut, hlc |-> h, ovr |-> Unclocked]

\* A batch is a function of the rows; rows it does not mention get an update
\* that writes nothing, which applyOp ignores.
Mentioned(ops) == {i \in Ids : ops[i].op # "update" \/ ops[i].put \cup ops[i].cut # {}}
NoOps(h) == [i \in Ids |-> Op("update", {}, {}, h)]

NewDoc == [auth |-> [i \in Ids |-> NoRow], cursor |-> 0, tick |-> 0, pending |-> << >>]

-----------------------------------------------------------------------------
(* RegistryDoc. *)

\* overlay_row without its final filter: authoritative row, then pending ops.
Overlay(d, i) ==
    LET row[k \in 0..Len(d.pending)] ==
            IF k = 0 THEN d.auth[i] ELSE ApplyOp(row[k - 1], d.pending[k].ops[i])
    IN  row[Len(d.pending)]
RowExists(d, i) == Overlay(d, i).st = "live"

\* enqueue_ops: the batch id is an HLC of its own.
EnqueueOps(d, t, h, ops) ==
    [d EXCEPT !.tick = t, !.pending = Append(@, [id |-> h, ops |-> ops, sent |-> FALSE])]

\* put_authoritative for every row of a frame.
PutAuthoritative(auth, new) == [i \in Ids |-> IF new[i].st # "none" THEN new[i] ELSE auth[i]]

\* The entries of s at the places P, in order.
Nth(P, n) == CHOOSE k \in P : Cardinality({j \in P : j < k}) = n - 1
Entries(s, P) == [n \in 1..Cardinality(P) |-> s[Nth(P, n)]]

\* take_pushable marks what is not in flight; ToPush are those batches.
ToPush(d) == Entries(d.pending, {k \in DOMAIN d.pending : ~d.pending[k].sent})
TakePushable(d) ==
    [d EXCEPT !.pending = [k \in DOMAIN @ |-> [@[k] EXCEPT !.sent = TRUE]]]

\* Mutation: a dropped connection leaves its batches in flight.
MarkDisconnectedKeepsFlight(d) == d

MarkDisconnected(d) ==
    [d EXCEPT !.pending = [k \in DOMAIN @ |-> [@[k] EXCEPT !.sent = FALSE]]]

\* Mutation: batches in flight are left out of the snapshot.
SnapshotSkipsFlight(d) == [d EXCEPT !.pending = ToPush(d)]

\* to_bytes then from_bytes: everything but the in_flight flags.
Snapshot(d) == MarkDisconnected(d)

\* The server lost state: a full table older than the replica.
ServerBehind(d, f) == f.full /\ f.seq < d.cursor

\* Mutation: the re-seed is forgotten when the server is behind.
SeedsMissingOnly(d, f) ==
    {i \in Ids : f.full /\ ~ServerBehind(d, f) /\ d.auth[i].st # "none" /\ f.rows[i].st = "none"}

\* The rows apply_state re-seeds: all of them if the server is behind, those
\* the server does not know otherwise; none for a delta.
Seeds(d, f) ==
    {i \in Ids : /\ f.full
                 /\ d.auth[i].st # "none"
                 /\ ServerBehind(d, f) \/ f.rows[i].st = "none"}

SeedOps(d, S, h) == [i \in Ids |-> IF i \in S THEN SeedOp(d.auth[i]) ELSE NoOps(h)[i]]

\* apply_state's authoritative rows: a full frame replaces them unless the
\* server is behind.
StateAuth(d, f) ==
    IF f.full /\ ~ServerBehind(d, f)
    THEN f.rows
    ELSE PutAuthoritative(d.auth, f.rows)

ApplyState(d, f, t, h) ==
    LET e == [d EXCEPT !.auth = StateAuth(d, f), !.cursor = f.seq]
    IN  IF Seeds(d, f) = {} THEN e
        ELSE EnqueueOps(e, t, h, SeedOps(d, Seeds(d, f), h))

ApplyRows(d, f) ==
    [d EXCEPT !.auth = PutAuthoritative(@, f.rows),
              !.cursor = IF f.seq > @ THEN f.seq ELSE @]

AckBatch(d, f) ==
    [d EXCEPT !.pending = Entries(@, {k \in DOMAIN @ : @[k].id # f.batch}),
              !.cursor = IF f.seq > @ THEN f.seq ELSE @]

-----------------------------------------------------------------------------
(* The device: writes, snapshots, crashes. *)

\* HlcClock.next: past the last emitted clock.  The reading also passes every
\* reading the device ever used, unless the wall clock stepped back.
Mintable(c, t) == t > doc[c].tick /\ (WallSteps \/ t > wall[c])

Mint(c, t, d, ops) ==
    /\ wall' = [wall EXCEPT ![c] = IF t > @ THEN t ELSE @]
    /\ doc' = [doc EXCEPT ![c] = EnqueueOps(d, t, Hlc(c, t), ops)]
    /\ issued' = [issued EXCEPT ![c] = @ \cup {[id |-> Hlc(c, t), ops |-> ops]}]

\* write / delete_row_ops, then mutate's bump_changed.
Write(c, t, ops) ==
    /\ conn[c] # "off"
    /\ left.writes > 0
    /\ Mintable(c, t)
    /\ Mint(c, t, doc[c], ops)
    /\ left' = [left EXCEPT !.writes = @ - 1]
    /\ UNCHANGED <<room, srv, saved, conn, up, down, stray, lost, reseeded>>

\* upsert_space, upsert_chat, claim_chat, upsert_session: no guard.
Upsert(c) ==
    \E t \in 1..left.ticks[c], i \in Ids, put \in SUBSET Fields, cut \in SUBSET Fields :
        /\ put # {} /\ put \cap cut = {}
        /\ Write(c, t, [NoOps(Hlc(c, t)) EXCEPT ![i] = Op("upsert", put, cut, Hlc(c, t))])

\* rename_*, set_*: only on a row this device displays.
Update(c) ==
    \E t \in 1..left.ticks[c], i \in Ids, put \in SUBSET Fields, cut \in SUBSET Fields :
        /\ put \cup cut # {} /\ put \cap cut = {}
        /\ Write(c, t, [NoOps(Hlc(c, t)) EXCEPT ![i] = Op("update", put, cut, Hlc(c, t))])
        /\ RowExists(doc[c], i)

\* delete_chat, delete_space, merge_device: one batch and one clock for all the
\* tombstones, and for the rows merge_device re-homes.
Cascade(c) ==
    \E t \in 1..left.ticks[c], D \in SUBSET Ids, U \in SUBSET Ids :
        /\ D # {} /\ D \cap U = {}
        /\ Write(c, t, [i \in Ids |->
                IF i \in D THEN Op("delete", {}, {}, Hlc(c, t))
                ELSE IF i \in U THEN Op("update", Fields, {}, Hlc(c, t))
                ELSE NoOps(Hlc(c, t))[i]])
        /\ \A i \in U : RowExists(doc[c], i)

\* save_snapshot, at the end of the debounce; to_bytes skips in_flight.  Only a
\* crash reads a snapshot again, so none is taken after the last one.
Save(c) ==
    /\ conn[c] # "off"
    /\ left.crashes > 0
    /\ saved[c] # Snapshot(doc[c])
    /\ saved' = [saved EXCEPT ![c] = Snapshot(doc[c])]
    /\ UNCHANGED <<room, srv, doc, conn, up, down, stray, wall, issued, lost, reseeded, left>>

\* WorkspaceHost::open: load the snapshot (or start empty), upsert the own
\* device row, save before anything else.
Boot(c) ==
    /\ conn[c] = "off"
    /\ \E t \in 1..left.ticks[c] :
         /\ Mintable(c, t)
         /\ Mint(c, t, saved[c],
                [NoOps(Hlc(c, t)) EXCEPT ![DeviceRow[c]] = Op("upsert", Fields, {}, Hlc(c, t))])
    /\ saved' = [saved EXCEPT ![c] = doc'[c]]
    /\ conn' = [conn EXCEPT ![c] = "down"]
    /\ UNCHANGED <<room, srv, up, down, stray, lost, reseeded, left>>

\* A socket of device c dies.  The room still reads some prefix of what was
\* sent; what it sent back is gone.
Cut(c) ==
    /\ \E k \in 0..Len(up[c]) :
         stray' = [stray EXCEPT ![c] = @ \o Entries(up[c], {j \in 1..k : up[c][j].t = "push"})]
    /\ up' = [up EXCEPT ![c] = << >>]
    /\ down' = [down EXCEPT ![c] = << >>]
    /\ srv' = [srv EXCEPT ![c] = "new"]

\* Everything since the last snapshot is gone.
Crash(c) ==
    /\ conn[c] # "off"
    /\ left.crashes > 0
    /\ left' = [left EXCEPT !.crashes = @ - 1]
    /\ conn' = [conn EXCEPT ![c] = "off"]
    /\ doc' = [doc EXCEPT ![c] = saved[c]]
    /\ lost' = [lost EXCEPT ![c] = @ \cup {b \in issued[c] : b.id > Hlc(c, saved[c].tick)}]
    /\ Cut(c)
    /\ UNCHANGED <<room, saved, wall, issued, reseeded>>

-----------------------------------------------------------------------------
(* The socket, device side (RegistryClient). *)

\* run dials again and run_session sends hello.
Dial(c) ==
    /\ conn[c] = "down"
    /\ conn' = [conn EXCEPT ![c] = "hello"]
    /\ up' = [up EXCEPT ![c] = <<Hello(doc[c].cursor)>>]
    /\ UNCHANGED <<room, srv, doc, saved, down, stray, wall, issued, lost, reseeded, left>>

\* Transport error, probe deadline, requested redial, or the room closed us:
\* run_session ends, then mark_disconnected.
Disconnect(c) ==
    /\ conn[c] \in {"hello", "joined"}
    /\ \/ srv[c] = "closed" /\ UNCHANGED left
       \/ left.drops > 0 /\ left' = [left EXCEPT !.drops = @ - 1]
    /\ conn' = [conn EXCEPT ![c] = "down"]
    /\ doc' = [doc EXCEPT ![c] = MarkDisconnected(@)]
    /\ Cut(c)
    /\ UNCHANGED <<room, saved, wall, issued, lost, reseeded>>

Frame(c, kind) == down[c] # << >> /\ Head(down[c]).t = kind

\* push_pending: everything not in flight, in order.
Pushes(d) == LET q == ToPush(d) IN [k \in DOMAIN q |-> PushFrame(q[k])]

\* The handshake's state frame: apply_state, then push_pending.
OnState(c) ==
    /\ conn[c] = "hello" /\ Frame(c, "state")
    /\ LET f == Head(down[c])
           S == Seeds(doc[c], f)
           Join(t) == LET d == ApplyState(doc[c], f, t, Hlc(c, t))
                      IN  /\ doc' = [doc EXCEPT ![c] = TakePushable(d)]
                          /\ up' = [up EXCEPT ![c] = @ \o Pushes(d)]
       IN  /\ \/ S = {} /\ Join(0) /\ UNCHANGED <<wall, issued>>
              \/ \E t \in 1..left.ticks[c] :
                   /\ S # {} /\ Mintable(c, t) /\ Join(t)
                   /\ wall' = [wall EXCEPT ![c] = IF t > @ THEN t ELSE @]
                   /\ issued' = [issued EXCEPT ![c] = @ \cup
                         {[id |-> Hlc(c, t), ops |-> SeedOps(doc[c], S, Hlc(c, t))]}]
           /\ reseeded' = IF ServerBehind(doc[c], f) THEN reseeded \cup {c} ELSE reseeded
    /\ conn' = [conn EXCEPT ![c] = "joined"]
    /\ down' = [down EXCEPT ![c] = Tail(@)]
    /\ UNCHANGED <<room, srv, saved, stray, lost, left>>

OnRows(c) ==
    /\ conn[c] = "joined" /\ Frame(c, "rows")
    /\ doc' = [doc EXCEPT ![c] = ApplyRows(@, Head(down[c]))]
    /\ down' = [down EXCEPT ![c] = Tail(@)]
    /\ UNCHANGED <<room, srv, saved, conn, up, stray, wall, issued, lost, reseeded, left>>

OnAck(c) ==
    /\ conn[c] = "joined" /\ Frame(c, "ack")
    /\ doc' = [doc EXCEPT ![c] = AckBatch(@, Head(down[c]))]
    /\ down' = [down EXCEPT ![c] = Tail(@)]
    /\ UNCHANGED <<room, srv, saved, conn, up, stray, wall, issued, lost, reseeded, left>>

\* The nudge of mutate: push_pending in the steady state.
PushPending(c) ==
    /\ conn[c] = "joined" /\ ToPush(doc[c]) # << >>
    /\ up' = [up EXCEPT ![c] = @ \o Pushes(doc[c])]
    /\ doc' = [doc EXCEPT ![c] = TakePushable(@)]
    /\ UNCHANGED <<room, srv, saved, conn, down, stray, wall, issued, lost, reseeded, left>>

-----------------------------------------------------------------------------
(* The room. *)

Arrived(c, kind) == srv[c] # "closed" /\ up[c] # << >> /\ Head(up[c]).t = kind

\* A cursor behind the purged tombstones or ahead of the room gets the table.
NeedsFull(cursor) == cursor < gcFloor \/ cursor > seq

RowsSince(cursor) == {i \in Ids : rows[i].st # "none" /\ rows[i].seq > cursor}

HandleHello(c) ==
    /\ Arrived(c, "hello")
    /\ LET cursor == Head(up[c]).cursor
           full   == NeedsFull(cursor)
       IN  down' = [down EXCEPT ![c] = Append(@,
               StateFrame(seq, full, gcFloor, rows, RowsSince(IF full THEN 0 ELSE cursor)))]
    /\ srv' = [srv EXCEPT ![c] = "ready"]
    /\ up' = [up EXCEPT ![c] = Tail(@)]
    /\ UNCHANGED <<room, doc, saved, conn, stray, wall, issued, lost, reseeded, left>>

\* The rows a batch changes, and the table after it.
Touched(b) == {i \in Ids : Changes(rows[i], b.ops[i])}
Merged(b) ==
    [i \in Ids |-> IF i \in Touched(b)
                    THEN [ApplyOp(rows[i], b.ops[i]) EXCEPT !.seq = seq + 1]
                    ELSE rows[i]]

\* Mutation: the next seq even if the batch changed nothing.
AnsweredSeqAlwaysNext(b) == seq + 1

AnsweredSeq(b) == IF Touched(b) = {} THEN seq ELSE seq + 1

Broadcast(k, b) ==
    IF Touched(b) # {} /\ srv[k] = "ready"
    THEN <<RowsFrame(AnsweredSeq(b), Merged(b), Touched(b))>> ELSE << >>

Acked(k, b, acked) == IF k \in acked THEN <<Ack(b.id, AnsweredSeq(b))>> ELSE << >>

\* Mutation: the ack overtakes the rows.
AnswersAckFirst(k, b, acked) == Acked(k, b, acked) \o Broadcast(k, b)

\* What a push sends to device k: the merged rows, then the sender's ack.
Answers(k, b, acked) == Broadcast(k, b) \o Acked(k, b, acked)

\* handlePush: apply atomically, stamp, broadcast the merged rows to every ready
\* socket, then ack the sender (if its socket is still there).
ApplyPush(b, acked) ==
    /\ rows' = Merged(b)
    /\ seq' = IF Touched(b) = {} THEN seq ELSE seq + 1
    /\ killed' = [i \in Ids |-> IF i \in Touched(b) /\ b.ops[i].op = "delete" /\ b.ops[i].hlc > killed[i]
                                 THEN b.ops[i].hlc ELSE killed[i]]
    /\ down' = [k \in Clients |-> down[k] \o Answers(k, b, acked)]

HandlePush(c) ==
    /\ Arrived(c, "push") /\ srv[c] = "ready"
    /\ ApplyPush(Head(up[c]).batch, {c})
    /\ up' = [up EXCEPT ![c] = Tail(@)]
    /\ UNCHANGED <<gcFloor, wiped, srv, doc, saved, conn, stray, wall, issued, lost, reseeded, left>>

HandleStray(c) ==
    /\ stray[c] # << >>
    /\ ApplyPush(Head(stray[c]).batch, {})
    /\ stray' = [stray EXCEPT ![c] = Tail(@)]
    /\ UNCHANGED <<gcFloor, wiped, srv, doc, saved, conn, up, wall, issued, lost, reseeded, left>>

\* Mutation: the floor stays.
PurgeKeepsFloor(S) ==
    /\ rows' = [i \in Ids |-> IF i \in S THEN NoRow ELSE rows[i]]
    /\ gcFloor' = gcFloor

\* The tombstone half of alarm(): purge those older than a horizon, raise the
\* floor to the newest seq purged.
Purge(S) ==
    /\ rows' = [i \in Ids |-> IF i \in S THEN NoRow ELSE rows[i]]
    /\ gcFloor' = Max({gcFloor} \cup {rows[i].seq : i \in S})

Alarm ==
    /\ left.gcs > 0
    /\ left' = [left EXCEPT !.gcs = @ - 1]
    /\ \E j \in Ids : /\ rows[j].st = "dead"
                      /\ Purge({i \in Ids : rows[i].st = "dead" /\ rows[i].del <= rows[j].del})
    /\ UNCHANGED <<seq, killed, wiped, srv, doc, saved, conn, up, down, stray, wall, issued, lost, reseeded>>

\* The operator's wipe: rows and meta deleted, every socket closed.
Reset ==
    /\ left.resets > 0
    /\ left' = [left EXCEPT !.resets = @ - 1]
    /\ rows' = [i \in Ids |-> NoRow]
    /\ seq' = 0
    /\ gcFloor' = 0
    /\ wiped' = TRUE
    /\ srv' = [c \in Clients |-> IF conn[c] \in {"hello", "joined"} THEN "closed" ELSE srv[c]]
    /\ reseeded' = {}
    /\ UNCHANGED <<killed, doc, saved, conn, up, down, stray, wall, issued, lost>>

-----------------------------------------------------------------------------
Init ==
    /\ rows = [i \in Ids |-> NoRow] /\ seq = 0 /\ gcFloor = 0
    /\ srv = [c \in Clients |-> "new"]
    /\ doc = [c \in Clients |-> NewDoc] /\ saved = doc
    /\ conn = [c \in Clients |-> "off"]
    /\ up = [c \in Clients |-> << >>] /\ down = up /\ stray = up
    /\ wall = [c \in Clients |-> 0]
    /\ killed = [i \in Ids |-> NoClock]
    /\ issued = [c \in Clients |-> {}] /\ lost = issued
    /\ reseeded = {}
    /\ wiped = FALSE
    /\ left \in Budgets

Device(c) ==
    \/ Upsert(c) \/ Update(c) \/ Cascade(c) \/ Save(c) \/ Boot(c) \/ Crash(c)
    \/ Dial(c) \/ Disconnect(c) \/ OnState(c) \/ OnRows(c) \/ OnAck(c) \/ PushPending(c)

Room(c) == HandleHello(c) \/ HandlePush(c) \/ HandleStray(c)

Next == (\E c \in Clients : Device(c) \/ Room(c)) \/ Alarm \/ Reset

Spec == Init /\ [][Next]_vars

\* The engine redials forever (run), reads its socket and answers nudges in one
\* select loop, and the room handles the frames it receives.
Fairness ==
    \A c \in Clients :
        /\ WF_vars(Boot(c)) /\ WF_vars(Dial(c)) /\ WF_vars(PushPending(c))
        /\ WF_vars(OnState(c)) /\ WF_vars(OnRows(c)) /\ WF_vars(OnAck(c))
        /\ WF_vars(HandleHello(c)) /\ WF_vars(HandlePush(c))
        /\ WF_vars(Disconnect(c) /\ srv[c] = "closed")

FairSpec == Spec /\ Fairness

-----------------------------------------------------------------------------
(* Properties. *)

Frames ==
    [t : {"rows"}, seq : Nat, rows : [Ids -> Rows]]
    \cup [t : {"state"}, seq : Nat, full : BOOLEAN, gcFloor : Nat,
          rows : [Ids -> Rows]]
    \cup [t : {"ack"}, batch : Nat, seq : Nat]

Requests == [t : {"hello"}, cursor : Nat] \cup [t : {"push"}, batch : Batches]

(* Every table, replica, snapshot and frame is well formed. *)
TypeOK ==
    /\ rows \in [Ids -> Rows] /\ \A i \in Ids : WellFormed(rows[i])
    /\ seq \in Nat /\ gcFloor \in Nat
    /\ srv \in [Clients -> {"new", "ready", "closed"}]
    /\ doc \in [Clients -> Docs] /\ saved \in [Clients -> Docs]
    /\ conn \in [Clients -> {"off", "down", "hello", "joined"}]
    /\ up \in [Clients -> Seq(Requests)]
    /\ down \in [Clients -> Seq(Frames)]
    /\ stray \in [Clients -> Seq([t : {"push"}, batch : Batches])]
    /\ wall \in [Clients -> Nat]
    /\ killed \in [Ids -> Nat]
    /\ issued \in [Clients -> SUBSET Batches] /\ lost \in [Clients -> SUBSET Batches]
    /\ reseeded \subseteq Clients
    /\ wiped \in BOOLEAN
    /\ left \in Budget

(* A cursor is honest: whatever the room holds at or below it is what the
   replica holds, and a row purged below it is not shown as live.  A delta
   since that cursor is then enough, through reconnects, crashes that fall
   back to an older snapshot and tombstone GC (handleHello, apply_rows,
   ack_batch, alarm). *)
HonestDoc(d) ==
    \A i \in Ids :
        /\ rows[i].st # "none" /\ rows[i].seq <= d.cursor => d.auth[i] = rows[i]
        /\ rows[i].st = "none" /\ gcFloor <= d.cursor => d.auth[i].st # "live"

CursorHonest == ~wiped => \A c \in Clients : HonestDoc(doc[c]) /\ HonestDoc(saved[c])

(* While nobody wipes the room no cursor is ever ahead of it, so no device
   takes the "server lost state" branch of apply_state: not after a crash that
   falls back to an old snapshot, not after GC, not with frames in flight. *)
NoFalseReset ==
    ~wiped => /\ reseeded = {}
               /\ \A c \in Clients : doc[c].cursor <= seq /\ saved[c].cursor <= seq

\* The room has merged the op or something that beats it: a newer delete; for an
\* update any delete, since an update brings nothing back; for a write newer
\* writes of all its fields; for a delete a newer write of the row.
Absorbed(i, op) ==
    \/ op.hlc <= killed[i]
    \/ op.op = "update" /\ killed[i] # NoClock
    \/ /\ op.op # "delete" /\ rows[i].st = "live"
       /\ \A f \in op.put \cup op.cut : ~HlcNewer(ClockFor(op, f), rows[i].clk[f])
    \/ op.op = "delete" /\ rows[i].st = "live" /\ ~NewerThanRow(op.hlc, rows[i])

(* No write is lost: a batch that survived the crashes of its device is still
   pending or the room has merged it, or something that beats it, so an ack
   never retires a batch the room does not hold, a disconnect hands every
   unacked batch to the next push, and a snapshot holds what its clock is past
   (enqueue_ops, ack_batch, mark_disconnected, to_bytes). *)
WriteNotLost ==
    ~wiped => \A c \in Clients : \A b \in issued[c] \ lost[c] :
        \/ \E k \in DOMAIN doc[c].pending : doc[c].pending[k].id = b.id
        \/ \A i \in Mentioned(b.ops) : Absorbed(i, b.ops[i])

(* A delete the room accepted is final for everything older, whoever pushes
   it again or late.  With tombstone GC this is what the comment in
   handleHello says of a cursor behind the horizon: the replica is replaced. *)
NoResurrection ==
    \A i \in Ids : rows[i].st = "live" /\ killed[i] # NoClock =>
        \E f \in Fields : rows[i].clk[f] > killed[i]

(* "Rows go out BEFORE the ack ... no between-frames flicker window"
   (handlePush): retiring the acked batch changes neither whether a row shows
   nor any field newer than the row's last tombstone. *)
NoFlicker ==
    [][\A c \in Clients : OnAck(c) => \A i \in Ids :
          LET v == Overlay(doc[c], i)
              w == Overlay(doc'[c], i)
          IN  /\ v.st = w.st
              /\ \A f \in Fields : v.clk[f] > v.del => v.clk[f] = w.clk[f]]_vars

Quiet ==
    \A c \in Clients : /\ conn[c] = "joined" /\ srv[c] = "ready"
                       /\ up[c] = << >> /\ down[c] = << >> /\ stray[c] = << >>
                       /\ doc[c].pending = << >>

\* Every replica holds the room's table, and shows no row the room lacks.
Agree ==
    \A c \in Clients : \A i \in Ids :
        \/ doc[c].auth[i] = rows[i]
        \/ rows[i].st = "none" /\ doc[c].auth[i].st = "dead"

(* Once nothing is in flight every device shows the room's table; after a wipe
   this is so provided every device noticed it (apply_state's re-seed). *)
QuietAgree == Quiet /\ (~wiped \/ reseeded = Clients) => Agree

(* What registry-room.ts says of /reset: every client detects the wipe on its
   next hello and recovery is lossless, so a quiet registry always agrees. *)
ResetLossless == Quiet => Agree

(* Every write reaches every device: after the last write, crash and
   disconnect all replicas settle on the room's table with nothing pending. *)
Converges == <>[](Agree /\ \A c \in Clients : doc[c].pending = << >>)
=============================================================================

------------------------------ MODULE ChatSync ------------------------------
(***************************************************************************)
(* A chat between devices: the room's update log (edge/src/chat-room.ts,   *)
(* chat-log.ts), the client of each device (crates/sync/src/chat_client.rs)*)
(* and the document behind it (crates/engine/src/chat2_host.rs, and the    *)
(* checkpoint and save paths of doc_host.rs).                              *)
(*                                                                         *)
(* A document is the set of operations it holds, closed under causality:   *)
(* Loro (external) merges updates commutatively and idempotently, and      *)
(* parks one whose dependencies are missing.  A handler of the room is one *)
(* step (events of a Durable Object are single-threaded); a frame handled  *)
(* by the client is one step of its actor.  Frames, HTTP requests, saves,  *)
(* checkpoints, disconnects and crashes interleave with them.              *)
(*                                                                         *)
(* Every step may fall into the windows the code leaves open (see raced).  *)
(* What the room and its clients promise, and ChatLog, is stated of the    *)
(* behaviours up to the first such step.                                   *)
(*                                                                         *)
(* Left out: presence and probes (no rows), the sidecars (plain blobs),    *)
(* ownership, and bad_push (the client sends none).                        *)
(***************************************************************************)
EXTENDS Integers, Sequences, FiniteSets, SequencesExt

CONSTANTS
    N,        \* number of devices
    Host,     \* the device that hosts the chat: the one that posts checkpoints
    Budgets   \* bounds: what may happen in a behaviour, one record per scenario

Devices == 1..N

\* Edits, of them over the row cap, disconnects, lost requests, crashes,
\* checkpoints, quota refusals and operator wipes.
Budget == [edits : Nat, bigs : Nat, drops : Nat, crashes : Nat, ckpts : Nat,
           quotas : Nat, resets : Nat]

ASSUME ChatAssumption ==
    /\ N \in Nat \ {0} /\ Host \in Devices
    /\ Budgets \subseteq Budget

VARIABLES
    log,      \* the room: every row since the last wipe; row s has seq s
    floor,    \* rows up to here are pruned (seqFloor and checkpointSeq)
    ckpt,     \* the checkpoint blob and its frontier
    srv,      \* room end of each socket: "new", "greeted", "served" or "closed"
    doc,      \* operations in each device's document, in memory
    parked,   \* operations imported before what they depend on
    cursor,   \* Shared.cursor
    pending,  \* Shared.pending, and chat2_pending_local before the first join
    nudge,    \* a local update has yet to be pushed
    retry,    \* retry_at: the quota clock is armed
    blocked,  \* quota_blocked
    resumed,  \* the first backfill of this client completed
    opened,   \* the cursor the document was opened with
    disk,     \* the snapshot row: operations and cursor
    saving,   \* what a debounced save has exported and not yet written
    conn,     \* "off", "down", "hello", "fetch", "backfill" or "live"
    up, down, \* frames in flight, to the room and to the device
    stray,    \* pushes of dead sockets the room has yet to read
    job,      \* the host's checkpoint under way
    posts,    \* checkpoint requests on their way to the room
    made,     \* how many operations exist: they are 1..made
    deps,     \* what each depends on: the document it was committed to
    batches,  \* how many batch ids were minted
    mine,     \* history: what each device queued since it booted
    wiped,    \* history: the room was wiped
    raced,    \* history: the windows a step fell into
              \*   "relay":  a row is relayed to a socket between its hello and its rowsReq
              \*   "prune":  a checkpoint is committed between them
              \*   "save":   a row is applied between the export and the write of a save
              \*   "late":   a push of an engine that died is read after the first backfill
              \*             of the next one, which then never asks for it
              \*   "parked": a row is counted by the cursor and its operations wait for others
    left      \* what remains of the bounds

room   == <<log, floor, ckpt>>
client == <<doc, parked, cursor, pending, nudge, retry, blocked, resumed, opened>>
wire   == <<srv, up, down, stray>>
store  == <<disk, saving>>
post   == <<job, posts>>
past   == <<made, deps, batches, mine, wiped, left>>
meta   == <<past, raced>>
vars   == <<room, client, wire, store, conn, post, meta>>

-----------------------------------------------------------------------------
(* Data. *)

HeadSeq == Len(log)

Row(c, b) == [dev |-> c, batch |-> b.id, ops |-> b.ops]

NoCheckpoint == [there |-> FALSE, ops |-> {}]
NotSaving    == [on |-> FALSE, ops |-> {}]
Idle         == [at |-> "idle", covered |-> 0, n |-> 0]

StateFrame == [t |-> "state", head |-> HeadSeq, seq |-> floor, ckpt |-> ckpt]
RowFrame(s, ops) == [t |-> "row", seq |-> s, ops |-> ops]
DoneFrame == [t |-> "done", head |-> HeadSeq]
Ack(id, s) == [t |-> "ack", batch |-> id, seq |-> s]
Error(id, code) == [t |-> "error", batch |-> id, code |-> code]

RowsReq(after, excludeOwn) == [t |-> "rowsReq", after |-> after, excludeOwn |-> excludeOwn]
PushFrame(b) == [t |-> "push", batch |-> b]

\* Everything the room can still give out.
Retained == {s \in 1..HeadSeq : s > floor}
Content  == ckpt.ops \cup UNION {log[s].ops : s \in Retained}

-----------------------------------------------------------------------------
(* The device: edits, saves, crashes. *)

\* A local commit.  An update over the row cap is not queued (enqueue_update): it
\* stays in the document and travels with a checkpoint.
Edit(c) ==
    /\ conn[c] # "off" /\ left.edits > 0
    /\ made' = made + 1
    /\ deps' = Append(deps, doc[c])
    /\ doc' = [doc EXCEPT ![c] = @ \cup {made + 1}]
    /\ \/ /\ pending' = [pending EXCEPT ![c] = Append(@, [id |-> batches + 1, ops |-> {made + 1}])]
          /\ batches' = batches + 1
          /\ nudge' = [nudge EXCEPT ![c] = TRUE]
          /\ mine' = [mine EXCEPT ![c] = @ \cup {made + 1}]
          /\ left' = [left EXCEPT !.edits = @ - 1]
       \/ /\ left.bigs > 0
          /\ left' = [left EXCEPT !.edits = @ - 1, !.bigs = @ - 1]
          /\ UNCHANGED <<pending, batches, nudge, mine>>
    /\ UNCHANGED <<room, parked, cursor, retry, blocked, resumed, opened, wire, store, conn, post,
                   wiped, raced>>

\* save_snapshot at the end of the debounce: export, then write the bytes and
\* leave the cursor column.  Only a crash reads the row again.
SaveExport(c) ==
    /\ conn[c] # "off" /\ left.crashes > 0
    /\ ~saving[c].on /\ disk[c].ops # doc[c]
    /\ saving' = [saving EXCEPT ![c] = [on |-> TRUE, ops |-> doc[c]]]
    /\ UNCHANGED <<room, client, wire, disk, conn, post, meta>>

SaveWrite(c) ==
    /\ saving[c].on
    /\ disk' = [disk EXCEPT ![c].ops = saving[c].ops]
    /\ saving' = [saving EXCEPT ![c] = NotSaving]
    /\ UNCHANGED <<room, client, wire, conn, post, meta>>

\* persist_with_cursor: the current document and the cursor, in one transaction.
Persist(c, d, n) == disk' = [disk EXCEPT ![c] = [ops |-> d, cursor |-> n]]

\* The step falls into window w if cond.
Into(w, cond) == IF cond THEN {w} ELSE {}

\* What is whole in S: the operations all of whose dependencies are there.
Whole(S) == {o \in S : deps[o] \subseteq S}

\* Loro imports ops: what is not whole yet is parked, outside every export.
Import(c, ops) ==
    LET all == doc[c] \cup parked[c] \cup ops IN
    /\ doc' = [doc EXCEPT ![c] = Whole(all)]
    /\ parked' = [parked EXCEPT ![c] = all \ Whole(all)]
    /\ raced' = raced \cup Into("save", saving[c].on) \cup Into("parked", parked'[c] # {})

\* A socket of device c dies.  The room still reads some prefix of the pushes;
\* a hello or a rowsReq does nothing, and no push follows one that is unread.
\* What the room sent back is gone.
Cut(c) ==
    /\ \E k \in 0..Len(up[c]) :
         /\ \A i \in 1..k : up[c][i].t = "push"
         /\ stray' = [stray EXCEPT ![c] = @ \o SubSeq(up[c], 1, k)]
    /\ up' = [up EXCEPT ![c] = << >>]
    /\ down' = [down EXCEPT ![c] = << >>]
    /\ srv' = [srv EXCEPT ![c] = "new"]

\* The engine dies: the queue is gone, the document falls back to the disk.
Crash(c) ==
    /\ conn[c] # "off" /\ left.crashes > 0
    /\ left' = [left EXCEPT !.crashes = @ - 1]
    /\ conn' = [conn EXCEPT ![c] = "off"]
    /\ doc' = [doc EXCEPT ![c] = disk[c].ops]
    /\ parked' = [parked EXCEPT ![c] = {}]
    /\ cursor' = [cursor EXCEPT ![c] = disk[c].cursor]
    /\ pending' = [pending EXCEPT ![c] = << >>]
    /\ nudge' = [nudge EXCEPT ![c] = FALSE]
    /\ retry' = [retry EXCEPT ![c] = FALSE]
    /\ blocked' = [blocked EXCEPT ![c] = FALSE]
    /\ resumed' = [resumed EXCEPT ![c] = FALSE]
    /\ saving' = [saving EXCEPT ![c] = NotSaving]
    /\ mine' = [mine EXCEPT ![c] = {}]
    /\ job' = IF c = Host THEN Idle ELSE job
    /\ Cut(c)
    /\ UNCHANGED <<room, opened, disk, posts, made, deps, batches, wiped, raced>>

\* open: the snapshot and its cursor.  At cursor 0 the whole document is the
\* first batch; the containers every document starts with are not counted.
Boot(c) ==
    /\ conn[c] = "off"
    /\ conn' = [conn EXCEPT ![c] = "down"]
    /\ opened' = [opened EXCEPT ![c] = disk[c].cursor]
    /\ \/ /\ disk[c].cursor = 0 /\ disk[c].ops # {}
          /\ pending' = [pending EXCEPT ![c] = <<[id |-> batches + 1, ops |-> disk[c].ops]>>]
          /\ batches' = batches + 1
          /\ mine' = [mine EXCEPT ![c] = disk[c].ops]
       \/ /\ disk[c].cursor # 0 \/ disk[c].ops = {}
          /\ UNCHANGED <<pending, batches, mine>>
    /\ UNCHANGED <<room, doc, parked, cursor, nudge, retry, blocked, resumed, wire, store, post,
                   made, deps, wiped, raced, left>>

-----------------------------------------------------------------------------
(* The client's session. *)

Dial(c) ==
    /\ conn[c] = "down"
    /\ conn' = [conn EXCEPT ![c] = "hello"]
    /\ up' = [up EXCEPT ![c] = <<[t |-> "hello"]>>]
    /\ UNCHANGED <<room, client, srv, down, stray, store, post, meta>>

\* Any error ends the session, a failed checkpoint fetch included.  A first join
\* that fails is dialled again with the cursor the document was opened with.
Disconnect(c) ==
    /\ conn[c] \in {"hello", "fetch", "backfill", "live"}
    /\ \/ srv[c] = "closed" /\ UNCHANGED left
       \/ left.drops > 0 /\ left' = [left EXCEPT !.drops = @ - 1]
    /\ conn' = [conn EXCEPT ![c] = "down"]
    /\ cursor' = [cursor EXCEPT ![c] = IF resumed[c] THEN @ ELSE opened[c]]
    /\ Cut(c)
    /\ UNCHANGED <<room, doc, parked, pending, nudge, retry, blocked, resumed, opened, store, post,
                   made, deps, batches, mine, wiped, raced>>

Frame(c, kind) == down[c] # << >> /\ Head(down[c]).t = kind

Larger(m, n) == IF m > n THEN m ELSE n

\* Mutation: the frontier is taken for contained, and the checkpoint skipped.
ContainedAlways(c, f) == TRUE

Contained(c, f) == f.ckpt.ops \subseteq doc[c]

\* plan_catch_up: a cursor ahead of the room counts as none; a checkpoint the
\* document contains is skipped past, one it lacks is fetched.
FreshCursor(c, f) == IF cursor[c] > f.head THEN 0 ELSE cursor[c]
RowsAfter(c, f) ==
    IF f.ckpt.there THEN Larger(FreshCursor(c, f), f.seq) ELSE FreshCursor(c, f)

\* The state frame of the handshake.  If the checkpoint must be fetched the
\* frame stays: Fetch needs its seq.
OnState(c) ==
    /\ conn[c] = "hello" /\ Frame(c, "state")
    /\ LET f == Head(down[c])
       IN  \/ /\ ~f.ckpt.there \/ Contained(c, f)
              /\ cursor' = [cursor EXCEPT ![c] = IF RowsAfter(c, f) < @ THEN RowsAfter(c, f) ELSE @]
              /\ up' = [up EXCEPT ![c] = Append(@, RowsReq(RowsAfter(c, f), resumed[c]))]
              /\ down' = [down EXCEPT ![c] = Tail(@)]
              /\ conn' = [conn EXCEPT ![c] = "backfill"]
           \/ /\ f.ckpt.there /\ ~Contained(c, f)
              /\ conn' = [conn EXCEPT ![c] = "fetch"]
              /\ UNCHANGED <<cursor, up, down>>
    /\ UNCHANGED <<room, doc, parked, pending, nudge, retry, blocked, resumed, opened, srv, stray,
                   store, post, meta>>

\* GET /checkpoint serves the blob of now; the cursor is the seq of the hello.
Fetch(c) ==
    /\ conn[c] = "fetch" /\ ckpt.there
    /\ LET f == Head(down[c])
       IN  /\ Import(c, ckpt.ops)
           /\ Persist(c, doc'[c], f.seq)
           /\ cursor' = [cursor EXCEPT ![c] = f.seq]
           /\ up' = [up EXCEPT ![c] = Append(@, RowsReq(f.seq, resumed[c]))]
    /\ down' = [down EXCEPT ![c] = Tail(@)]
    /\ conn' = [conn EXCEPT ![c] = "backfill"]
    /\ UNCHANGED <<room, pending, nudge, retry, blocked, resumed, opened, srv, stray, saving,
                   post, past>>

Reading(c) == conn[c] \in {"backfill", "live"}

\* apply_row persists the row's own seq, then the cursor is raised.
OnRow(c) ==
    /\ Reading(c) /\ Frame(c, "row")
    /\ LET f == Head(down[c])
       IN  /\ Import(c, f.ops)
           /\ Persist(c, doc'[c], f.seq)
           /\ cursor' = [cursor EXCEPT ![c] = Larger(@, f.seq)]
    /\ down' = [down EXCEPT ![c] = Tail(@)]
    /\ UNCHANGED <<room, pending, nudge, retry, blocked, resumed, opened, srv, up, stray, saving,
                   conn, post, past>>

Pushes(q) == [k \in DOMAIN q |-> PushFrame(q[k])]

\* The end of the backfill.  On the first join the queue is handed over only
\* now and pushed by its nudge; later it is pushed at once.
OnDone(c) ==
    /\ conn[c] = "backfill" /\ Frame(c, "done")
    /\ conn' = [conn EXCEPT ![c] = "live"]
    /\ resumed' = [resumed EXCEPT ![c] = TRUE]
    /\ up' = [up EXCEPT ![c] = IF resumed[c] THEN @ \o Pushes(pending[c]) ELSE @]
    /\ nudge' = [nudge EXCEPT ![c] = @ \/ (~resumed[c] /\ pending[c] # << >>)]
    /\ down' = [down EXCEPT ![c] = Tail(@)]
    /\ UNCHANGED <<room, doc, parked, cursor, pending, retry, blocked, opened, srv, stray, store, post, meta>>

\* Mutation: an ack retires the oldest batch.
RetireOldest(q, id) == IF q = << >> THEN q ELSE Tail(q)

\* The queue without the acked batch; batch ids are never minted twice.
Retire(q, id) ==
    IF \E k \in DOMAIN q : q[k].id = id THEN RemoveAt(q, CHOOSE k \in DOMAIN q : q[k].id = id) ELSE q

\* While the quota blocks, every grant arms the clock for the next batch.
OnAck(c) ==
    /\ Reading(c) /\ Frame(c, "ack")
    /\ LET f == Head(down[c])
           q == Retire(pending[c], f.batch)
       IN  /\ pending' = [pending EXCEPT ![c] = q]
           /\ cursor' = [cursor EXCEPT ![c] = Larger(@, f.seq)]
           /\ Persist(c, doc[c], cursor'[c])
           /\ raced' = raced \cup Into("save", saving[c].on)
           /\ blocked' = [blocked EXCEPT ![c] = @ /\ q # << >>]
           /\ retry' = [retry EXCEPT ![c] = @ \/ (blocked[c] /\ q # << >>)]
    /\ down' = [down EXCEPT ![c] = Tail(@)]
    /\ UNCHANGED <<room, doc, parked, nudge, resumed, opened, srv, up, stray, saving, conn, post,
                   past>>

\* Quota: the batch stays queued and its clock is armed.
OnError(c) ==
    /\ Reading(c) /\ Frame(c, "error")
    /\ blocked' = [blocked EXCEPT ![c] = TRUE]
    /\ retry' = [retry EXCEPT ![c] = TRUE]
    /\ down' = [down EXCEPT ![c] = Tail(@)]
    /\ UNCHANGED <<room, doc, parked, cursor, pending, nudge, resumed, opened, srv, up, stray, store, conn,
                   post, meta>>

\* push_pending sends the whole queue again; the room drops duplicates.
Nudge(c) ==
    /\ conn[c] = "live" /\ nudge[c]
    /\ nudge' = [nudge EXCEPT ![c] = FALSE]
    /\ up' = [up EXCEPT ![c] = @ \o Pushes(pending[c])]
    /\ UNCHANGED <<room, doc, parked, cursor, pending, retry, blocked, resumed, opened, srv, down, stray,
                   store, conn, post, meta>>

\* Mutation: the quota clock is never armed again.
HeadForgotten(q) == << >>

\* push_head: the oldest batch, if any.
HeadBatch(q) == IF q = << >> THEN << >> ELSE <<PushFrame(q[1])>>

PushHead(c) ==
    /\ conn[c] = "live" /\ retry[c]
    /\ retry' = [retry EXCEPT ![c] = FALSE]
    /\ up' = [up EXCEPT ![c] = @ \o HeadBatch(pending[c])]
    /\ UNCHANGED <<room, doc, parked, cursor, pending, nudge, blocked, resumed, opened, srv, down, stray,
                   store, conn, post, meta>>

-----------------------------------------------------------------------------
(* The host's checkpoints (spawn_chat2_checkpoint), whatever asks for one. *)

\* Mutation: the room's head is claimed instead of the cursor.
CoverageHead == HeadSeq

Coverage == cursor[Host]

\* First the cursor, then the document.
StartCheckpoint ==
    /\ conn[Host] # "off" /\ resumed[Host]
    /\ job.at = "idle" /\ left.ckpts > 0
    /\ job' = [at |-> "read", covered |-> Coverage, n |-> left.ckpts]
    /\ left' = [left EXCEPT !.ckpts = @ - 1]
    /\ UNCHANGED <<room, client, wire, store, conn, posts, made, deps, batches, mine, wiped,
                   raced>>

Export ==
    /\ job.at = "read"
    /\ posts' = posts \cup {[covered |-> job.covered, ops |-> doc[Host], n |-> job.n]}
    /\ job' = [job EXCEPT !.at = "sent"]
    /\ UNCHANGED <<room, client, wire, store, conn, meta>>

Answered(p) == IF job.at = "sent" /\ job.n = p.n THEN Idle ELSE job

\* The request fails on its way: nobody tries it again.
LosePost(p) ==
    /\ left.drops > 0
    /\ left' = [left EXCEPT !.drops = @ - 1]
    /\ posts' = posts \ {p}
    /\ job' = Answered(p)
    /\ UNCHANGED <<room, client, wire, store, conn, made, deps, batches, mine, wiped, raced>>

-----------------------------------------------------------------------------
(* The room. *)

\* A socket between its hello and its rowsReq.
Joining == \E c \in Devices : srv[c] = "greeted"

\* commitCheckpoint's guards.
Accepts(p) == p.covered >= floor /\ p.covered <= HeadSeq

CommitCheckpoint(p) ==
    /\ posts' = posts \ {p}
    /\ job' = Answered(p)
    /\ \/ /\ Accepts(p)
          /\ ckpt' = [there |-> TRUE, ops |-> p.ops]
          /\ floor' = p.covered
          /\ raced' = raced \cup Into("prune", Joining)
       \/ /\ ~Accepts(p)
          /\ UNCHANGED <<ckpt, floor, raced>>
    /\ UNCHANGED <<log, client, wire, store, conn, past>>

Arrived(c, kind) == srv[c] # "closed" /\ up[c] # << >> /\ Head(up[c]).t = kind

HandleHello(c) ==
    /\ Arrived(c, "hello")
    /\ srv' = [srv EXCEPT ![c] = "greeted"]
    /\ up' = [up EXCEPT ![c] = Tail(@)]
    /\ down' = [down EXCEPT ![c] = Append(@, StateFrame)]
    /\ UNCHANGED <<room, client, stray, store, conn, post, meta>>

\* Mutation: the first row after the cursor is skipped.
BackfillOffByOne(c, f) ==
    {s \in Retained : s > f.after + 1 /\ ~(f.excludeOwn /\ log[s].dev = c)}

\* rowsAfter: what is retained past the cursor.
Backfill(c, f) == {s \in Retained : s > f.after /\ ~(f.excludeOwn /\ log[s].dev = c)}

\* A set of seqs in order.
Ascending(S) ==
    {q \in [1..Cardinality(S) -> S] : \A i, j \in DOMAIN q : i < j => q[i] < q[j]}

HandleRowsReq(c) ==
    /\ Arrived(c, "rowsReq")
    /\ srv' = [srv EXCEPT ![c] = "served"]
    /\ up' = [up EXCEPT ![c] = Tail(@)]
    /\ \E q \in Ascending(Backfill(c, Head(up[c]))) :
         down' = [down EXCEPT ![c] =
             Append(@ \o [k \in DOMAIN q |-> RowFrame(q[k], log[q[k]].ops)], DoneFrame)]
    /\ UNCHANGED <<room, client, stray, store, conn, post, meta>>

Ready(c) == srv[c] \in {"greeted", "served"}

\* The retained row a batch already has, if any.
Originals(b) == {s \in Retained : log[s].batch = b.id}

AppendedSeq == HeadSeq + 1

\* The room reads the push of a dead socket while its row can still reach c: the
\* engine that sent it runs, or the next one has not had its first backfill.
InTime(c, b) == b.ops \subseteq doc[c] \/ (~resumed[c] /\ srv[c] # "served")

\* handlePush after admission: append, relay to every other ready socket, ack.
ApplyPush(c, b, sender) ==
    \/ /\ Originals(b) = {}
       /\ raced' = raced \cup Into("relay", Joining) \cup Into("late", sender = {} /\ ~InTime(c, b))
       /\ log' = Append(log, Row(c, b))
       /\ down' = [k \in Devices |->
             IF k \in sender THEN Append(down[k], Ack(b.id, AppendedSeq))
             ELSE IF Ready(k) THEN Append(down[k], RowFrame(AppendedSeq, b.ops))
             ELSE down[k]]
    \/ /\ Originals(b) # {}
       /\ down' = [k \in Devices |->
             IF k \in sender THEN Append(down[k], Ack(b.id, CHOOSE s \in Originals(b) : TRUE))
             ELSE down[k]]
       /\ UNCHANGED <<log, raced>>

HandlePush(c) ==
    /\ Arrived(c, "push")
    /\ ApplyPush(c, Head(up[c]).batch, {c})
    /\ up' = [up EXCEPT ![c] = Tail(@)]
    /\ UNCHANGED <<floor, ckpt, client, srv, stray, store, conn, post, past>>

\* admitQuota refuses.
RefusePush(c) ==
    /\ Arrived(c, "push") /\ left.quotas > 0
    /\ left' = [left EXCEPT !.quotas = @ - 1]
    /\ up' = [up EXCEPT ![c] = Tail(@)]
    /\ down' = [down EXCEPT ![c] = Append(@, Error(Head(up[c]).batch.id, "quota"))]
    /\ UNCHANGED <<room, client, srv, stray, store, conn, post, made, deps, batches, mine, wiped,
                   raced>>

HandleStray(c) ==
    /\ stray[c] # << >>
    /\ ApplyPush(c, Head(stray[c]).batch, {})
    /\ stray' = [stray EXCEPT ![c] = Tail(@)]
    /\ UNCHANGED <<floor, ckpt, client, srv, up, store, conn, post, past>>

\* The operator's wipe.
Reset ==
    /\ left.resets > 0
    /\ left' = [left EXCEPT !.resets = @ - 1]
    /\ log' = << >> /\ floor' = 0 /\ ckpt' = NoCheckpoint
    /\ srv' = [c \in Devices |-> IF conn[c] \in {"off", "down"} THEN srv[c] ELSE "closed"]
    /\ wiped' = TRUE
    /\ UNCHANGED <<client, up, down, stray, store, conn, post, made, deps, batches, mine,
                   raced>>

-----------------------------------------------------------------------------
Init ==
    /\ log = << >> /\ floor = 0 /\ ckpt = NoCheckpoint
    /\ srv = [c \in Devices |-> "new"]
    /\ doc = [c \in Devices |-> {}]
    /\ cursor = [c \in Devices |-> 0] /\ opened = cursor
    /\ pending = [c \in Devices |-> << >>]
    /\ up = pending /\ down = pending /\ stray = pending
    /\ nudge = [c \in Devices |-> FALSE] /\ retry = nudge /\ blocked = nudge /\ resumed = nudge
    /\ disk = [c \in Devices |-> [ops |-> {}, cursor |-> 0]]
    /\ saving = [c \in Devices |-> NotSaving]
    /\ conn = [c \in Devices |-> "off"]
    /\ job = Idle /\ posts = {}
    /\ parked = doc /\ raced = {}
    /\ made = 0 /\ deps = << >> /\ batches = 0 /\ mine = doc /\ wiped = FALSE
    /\ left \in Budgets

Device(c) ==
    \/ Edit(c) \/ SaveExport(c) \/ SaveWrite(c) \/ Crash(c) \/ Boot(c)
    \/ Dial(c) \/ Disconnect(c) \/ OnState(c) \/ Fetch(c) \/ OnRow(c) \/ OnDone(c)
    \/ OnAck(c) \/ OnError(c) \/ Nudge(c) \/ PushHead(c)

Checkpoint == StartCheckpoint \/ Export \/ \E p \in posts : LosePost(p) \/ CommitCheckpoint(p)

Room(c) == HandleHello(c) \/ HandleRowsReq(c) \/ HandlePush(c) \/ RefusePush(c) \/ HandleStray(c)

Next == (\E c \in Devices : Device(c) \/ Room(c)) \/ Checkpoint \/ Reset

Spec == Init /\ [][Next]_vars

\* The engine reopens its documents, redials for ever and serves its socket,
\* its nudges and the quota clock from one select loop; the room handles what it
\* receives; a save that was exported is written.
Fairness ==
    \A c \in Devices :
        /\ WF_vars(Boot(c)) /\ WF_vars(Dial(c)) /\ WF_vars(SaveWrite(c))
        /\ WF_vars(OnState(c)) /\ WF_vars(Fetch(c)) /\ WF_vars(OnRow(c)) /\ WF_vars(OnDone(c))
        /\ WF_vars(OnAck(c)) /\ WF_vars(OnError(c)) /\ WF_vars(Nudge(c)) /\ WF_vars(PushHead(c))
        /\ WF_vars(HandleHello(c)) /\ WF_vars(HandleRowsReq(c)) /\ WF_vars(HandlePush(c))
        /\ WF_vars(Disconnect(c) /\ srv[c] = "closed")

FairSpec == Spec /\ Fairness

-----------------------------------------------------------------------------
(* Properties. *)

Ops   == 1..made
Batch == [id : 1..batches, ops : SUBSET Ops]
LogOps == UNION {log[s].ops : s \in 1..HeadSeq}

Requests == [t : {"hello"}] \cup [t : {"rowsReq"}, after : Nat, excludeOwn : BOOLEAN]
            \cup [t : {"push"}, batch : Batch]
Frames ==
    [t : {"state"}, head : Nat, seq : Nat, ckpt : [there : BOOLEAN, ops : SUBSET Ops]]
    \cup [t : {"row"}, seq : Nat, ops : SUBSET Ops] \cup [t : {"done"}, head : Nat]
    \cup [t : {"ack"}, batch : 1..batches, seq : Nat]
    \cup [t : {"error"}, batch : 1..batches, code : {"quota"}]

(* Every row, document, queue, frame and request is well formed, and the floor
   is a seq the room has reached (appendRow, commitCheckpoint). *)
TypeOK ==
    /\ log \in Seq([dev : Devices, batch : 1..batches, ops : SUBSET Ops])
    /\ floor \in 0..HeadSeq /\ ckpt \in [there : BOOLEAN, ops : SUBSET Ops]
    /\ srv \in [Devices -> {"new", "greeted", "served", "closed"}]
    /\ {doc, parked} \subseteq [Devices -> SUBSET Ops] /\ deps \in [Ops -> SUBSET Ops]
    /\ mine \in [Devices -> SUBSET Ops]
    /\ cursor \in [Devices -> Nat] /\ opened \in [Devices -> Nat]
    /\ pending \in [Devices -> Seq(Batch)]
    /\ {nudge, retry, blocked, resumed} \subseteq [Devices -> BOOLEAN]
    /\ disk \in [Devices -> [ops : SUBSET Ops, cursor : Nat]]
    /\ saving \in [Devices -> [on : BOOLEAN, ops : SUBSET Ops]]
    /\ conn \in [Devices -> {"off", "down", "hello", "fetch", "backfill", "live"}]
    /\ up \in [Devices -> Seq(Requests)] /\ down \in [Devices -> Seq(Frames)]
    /\ stray \in [Devices -> Seq(Requests)]
    /\ job \in [at : {"idle", "read", "sent"}, covered : Nat, n : Nat]
    /\ posts \subseteq [covered : Nat, ops : SUBSET Ops, n : Nat]
    /\ wiped \in BOOLEAN /\ raced \subseteq {"relay", "prune", "save", "late", "parked"}
    /\ left \in Budget

(* The operator has not wiped the room, and no step has fallen into a window of the
   code.  Each of the five windows alone breaks what is stated under it. *)
Sound == ~wiped /\ raced = {}

(* Nothing is pruned that the checkpoint does not hold: every row up to the
   floor is in the blob, though the host reads its cursor, exports and posts
   in separate steps, requests are delayed across its crashes, and rows keep
   arriving (spawn_chat2_checkpoint, commitCheckpoint). *)
Recoverable == Sound => LogOps \subseteq Content

(* "One transaction, so bytes and cursor can never disagree": a document on
   disk holds every row up to its cursor, and so does the one in memory
   (persist_with_cursor, handle_frame). *)
HoldsUpTo(ops, n) == \A s \in 1..n : s <= HeadSeq => log[s].ops \subseteq ops

CursorHonest ==
    Sound => \A c \in Devices : /\ HoldsUpTo(doc[c], cursor[c])
                                 /\ HoldsUpTo(disk[c].ops, disk[c].cursor)

(* "CaughtUp: backfill finished, the doc is converged with the room": a live
   client with no frame in flight holds every row there is. *)
AllCaughtUp ==
    ~wiped => \A c \in Devices : conn[c] = "live" /\ down[c] = << >> => LogOps \subseteq doc[c]

\* It takes one of the windows to break that.
CaughtUp == Sound => AllCaughtUp

(* An update a running engine queued is in its queue or in the room's log,
   through lost acks, re-pushes, duplicates and quota refusals: an ack never
   retires what the room does not have (push_pending, handle_frame). *)
NoEditLost ==
    ~wiped => \A c \in Devices : \A o \in mine[c] :
        o \in LogOps \/ \E k \in DOMAIN pending[c] : o \in pending[c][k].ops

(* Every queue drains and every row reaches every document, after the last edit,
   crash, disconnect and refusal; what was parked for a refused batch is applied when
   that batch comes through. *)
Settles ==
    <>[](\/ wiped \/ raced \ {"parked"} # {}
         \/ \A c \in Devices : pending[c] = << >> /\ LogOps \subseteq doc[c])

\* What the room still holds of each row.
Readable == [s \in 1..HeadSeq |-> log[s].ops \cap Content]

Promise == INSTANCE ChatLog WITH
    made <- Ops, log <- Readable, docs <- doc, pos <- cursor, over <- ~Sound

(* Rows, checkpoints, pruning, cursors and restarts implement the append-only
   log of ChatLog, until a wipe or a step that falls into a window. *)
ImplementsChatLog == Promise!Spec
=============================================================================

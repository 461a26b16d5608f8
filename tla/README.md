# Zeron: a TLA+ verification project

Zeron runs coding agents on several machines and shows every chat on all of
them. The hard part is not the agents but the sync: an engine per device keeps
replicas of a registry (the sidebar) and of chat documents, two kinds of
Durable Object at the edge order and relay what the engines write, and one of
the devices (the host of a chat) executes the commands that any device queues.
This directory models that core, checks it with TLC and proves parts of it with
TLAPS.

## 1. Inventory

| Part | State | Operations | Talks to | What is hard |
|---|---|---|---|---|
| Registry merge core (`edge/src/registry-core.ts`, `crates/doc/src/registry.rs` `apply_op`) | none (pure) | `applyOp`, `maxClock`, `rowToSeedOp`, HLC order | called by the room and by every client | late creates, revivals, re-pushes, clears |
| Registry room (`edge/src/registry-room.ts`) | `rows`, `seq`, `gcFloor`, `backupDirty`, `backupSeq`, presence | hello, push, presence, probe, `/reset`, daily alarm (tombstone GC, R2 backup) | RegistryClient sockets, R2 | rows before ack, GC against stale cursors, wipe, an alarm that awaits |
| Registry replica (`crates/doc/src/registry.rs`) | authoritative rows, `server_seq`, pending batches, HLC clock | typed writes, `apply_state`, `apply_rows`, `ack_batch`, `take_pushable`, `mark_disconnected`, `to_bytes` | WorkspaceHost, RegistryClient | overlay of pending writes, cursor honesty, re-seeding |
| Registry transport (`crates/sync/src/registry.rs`) | socket session, probe deadline, backoff | dial, handshake, push, probe, redial | room | disconnect at any point |
| Chat room (`edge/src/chat-room.ts`, `chat-log.ts`) | update log with floor and head, checkpoint, quota | hello, rowsReq, push, checkpoint commit, `/reset`, alarm | ChatClient sockets, R2 | pruning under a reader, duplicate batches, quota |
| Chat client (`crates/sync/src/chat_client.rs`) | cursor, pending batches, quota block | catch-up plan, backfill, push, ack, probe | chat room, EngineChatSink | rows relayed during backfill, cursor persisted with the doc |
| Doc host (`crates/engine/src/doc_host.rs`, `chat2_host.rs`) | open documents, snapshots, lineage epoch, checkpoint in flight | open, join, seed, salvage, checkpoint, evict, purge | store, chat client, sessions | crash between store writes, a seed racing local edits |
| Command ledger (`crates/doc/src/commands.rs`, `doc_host.rs` `drain_commands`) | command entries in the doc, `processed_commands` | queue, evaluate, mark, execute, resolve, cancel | sessions engine | at-most-once across a crash, supersession, expiry |
| Sessions engine (`crates/engine/src/sessions.rs`) and run journal (`run_journal.rs`) | live runs, journal files, resume budget | dispatch, steer, interrupt, input bridge, recover | harness, doc host | interrupt racing completion, boot recovery |
| Device relay (`edge/src/device-room.ts`, `crates/rpc/src/device_room.rs`) | host socket, client connections, liveness | forward, host takeover, nudge | engines | stale host socket, frames of a dead connection |
| RPC (`crates/rpc/src`) | in-flight calls and streams | call, stream, cancel | UI, engine | cancel racing the answer |
| Legacy s2 sync (`edge/src/session-room.ts`, `update-log.ts`) | Loro doc and update log | join, push, compact | old clients | kept for rollback |
| Auth, profiles, import (`auth.rs`, `profile.rs`, `local_import.rs`, `edge/src/auth*.ts`) | tokens, profile scope, import marker | sign in, refresh, switch, import | WorkOS | refresh racing sign-out |
| Instance lock (`instance_lock.rs`) | lock file | acquire, release | OS | two engines on one data dir |
| Uploads, terminals, repos, diffs, titles, spaces, agent accounts | files, PTYs, git state | per service | OS, git | mostly I/O |
| Harness adapters (`crates/harness`) | child processes, JSON-RPC sessions | start, send, permission, cancel | agent CLIs | agent protocol, external |
| UI (`crates/ui`), iOS app (`apps/ios`), updater (`crates/update`), CLI (`apps/zeron`) | views | rendering | engine RPC | presentation |

How they interact: the UI calls the engine over RPC. A registry write goes
through `WorkspaceHost::mutate` into the replica's pending batches; the
registry client pushes them to the room, which merges, stamps and broadcasts.
A chat command is an entry in the chat document; it travels with the document
(chat client, chat room) to the chat's host, whose `drain_commands` hands it to
the sessions engine and writes the outcome back into the document.

What makes each part correct:

* merge core: order of delivery and repetition must not matter where the code
  says so, and a delete must be final for everything older;
* room and replica: a cursor is honest (a delta since it is enough), no write
  is lost, all devices settle on one table, GC and wipes do not break that;
* backup: R2 holds what `backupSeq` says, and eventually everything;
* ledger: at most one execution, an outcome that tells the truth, and
  eventually an outcome;
* chat sync: cursor, log floor and checkpoint never leave a gap;
* sessions: a message that was accepted is begun by an agent, one agent drives a
  chat, the status the UI shows is backed by something that will change it, and
  an interrupted or crashed run ends;
* relay: a host that is gone is never routed to, calls settle, the host comes
  back into reach.

The hazards behind these, each at its line, are in `PROJECT.json`.

## 2. Modules

| Module | Models | State | Actions |
|---|---|---|---|
| `RegistryCore` | the merge functions, which the room and the replica implement alike | none | operators `ApplyOp`, `Changes`, `SeedOp`, ... |
| `RegistryMerge` | one row of the room | the row, history | `Push`, `Repush` |
| `RegistrySync` | room, replicas, sockets, snapshots of the registry | `rows seq gcFloor` (room), `srv` (its sockets), `doc saved` (replica in memory and on disk), `conn` (engine), `up down stray` (frames), bounds, history | `Upsert Update Cascade` (typed writes), `Save Boot Crash`, `Dial Disconnect OnState OnRows OnAck PushPending`, `HandleHello HandlePush HandleStray Alarm Reset` |
| `RegistryBackup` | dirty flag, alarm and R2 copy of the room | `table seq dirty backupSeq arming alarm run stored blob` | `Accept Arm Alarm PutStored PutFails Resume Reset` |
| `CommandLedger` | the command plane of one chat on its host | document `log status`, its snapshot, `processed`, `pc` of the two drains, history `contended` | `Queue Expire Save Crash Wire Wake`, `FindNext Evaluate Mark Execute Resolve Unresolved Halt` |
| `ChatLog` | abstract: the append-only log of a chat and the devices that read it | `made log docs pos wiped` | `Edit Store Move` |
| `ChatSync` | chat room, chat clients, documents and snapshots, checkpoints; implements `ChatLog` | the room's rows, floor, checkpoint and sockets; the client's document, what it has parked, cursor, pending batches, phase; stored document and cursor; frames; a checkpoint POST in flight | `Edit SaveExport SaveWrite Crash Boot`, `Dial Disconnect OnState Fetch OnRow OnDone OnAck OnError Nudge PushHead`, `StartCheckpoint Export CommitCheckpoint Answered LosePost`, `HandleHello HandleRowsReq HandlePush RefusePush HandleStray Reset` |
| `SessionRuns` | the runs of one chat | `live run` (map and run tasks with mailbox, ledger, event streams), `call` (dispatches and steers in progress), session `status`, `journal`, resume `attempts`, transcript (`posted writing`), `boot` | `Issue Send Refused Log Check Stop Settle Launch` (callers), `Interrupt RespondInput`, `Spawn NoStart ... Reap Leave` (run task), `Begin ... Forget` (agent), `Crash Boot Recover Revive` |
| `DeviceRelay` | host and clients of one device's room | the room's sockets and nudge queue; the host's session, virtual connections and requests; links, cache, dial locks and calls of the peers; frames | `HostJoin HostTakes Reply LeaseEnds HostLeaves`, `Age HostClosed ClientClosed Nudge`, `Ask TakeLock Dial GiveUp ClientTakes ProbeTimeout LinkLost Send Invalidate CoolOff`, `Cut` |
| `ChatLineage` | the cutover of one chat to its thin document: host and other devices, their stores and open documents, the new room | `gen row copy` (registry row, stored document, rollback copy), `open flushing` (handles), `seed`, `room`, `processed` | `Open Watch Unwatch Queue Drain Reply`, `Save Evict Flush Crash`, `Arm Rebuild Post PostFails Check SaveThin Flip Retire` (the seed), `Learn Cutover Hear Push Salvage` |
| `MC...` | instances for TLC; `MCRegistryRoom` puts `RegistryMerge` and `RegistryBackup` into one run: a behaviour moves the one or the other | | |
| `...Proofs` | TLAPS proofs | | |

`RegistrySync` composes the merge core with everything around it: both ends
call `ApplyOp`, as both ends of the code do. `ChatSync` is shown to implement
`ChatLog` under the refinement mapping at its end: an entry of the log is a row
the room accepted, whether it still has the row or has pruned it under a
checkpoint; a device's position is its cursor. `ChatLineage` is one level up: the
chat room is a set of operations that any device reads and appends to (`ChatSync`
is what it takes to make it so), a run is a command, a message and a reply
(`SessionRuns`), the ledger is the set of executed commands (`CommandLedger`),
and the registry tells a device of the flip at some time (`RegistrySync`). The
two documents of a chat share no operation, so an operation is what it says and
the copy it belongs to: merged, the copies would show side by side.

Atomicity follows the code. A handler of a Durable Object is one step up to an
`await` (events are single-threaded and the SQLite writes of one event commit
together); so `handlePush` is one action, and `alarm()` of the backup is two.
A method of the replica is one step because it runs under the registry lock.
`drain_commands` is five steps because it takes and drops the document lock
around store calls and awaits the executor. A run task is one step per event its
select loop takes, a dispatch one step per lock it takes; the exit of a run is
two (`Claim`, `Leave`), and any other step may fall between them. `Cut` lets a
room read any prefix of what a dead socket sent, later and interleaved with the
new socket (`stray`), and drops everything it sent back.

Data. A clock (ms, counter, device) is one number with the same order; a
field's value is identified with the clock that wrote it. A row's fields are a
set `Fields`; null writes are `cut`. A batch is a function from rows to ops; the
rows it does not mention get an update of no field. A command is its kind, issue
time and whether its `based_on` turn is past. What a command does is the fact
that it ran; a command that is reported rejected may have run too, since an
error can come after a partial effect. A chat document is the set of edits it
shows, its frontier is that set. An edit depends on those its device showed when
it was made, and an import parks what comes before its dependencies
(`Import`, `Whole`; doc_host.rs:886, 1001): a parked edit is counted by the
cursor, is in no export, and shows once the missing one arrives. An agent's
output is one event; a message is a model value.

Bounds. `Budgets` is a set of records of small numbers: how many edits, crashes,
disconnects and so on may happen in a behaviour. An initial state picks one
record, so one run checks several scenarios and a model stays small where a
product of all faults would not.

Windows. The models close no window that the code leaves open: two drains
overlap, two dispatches pass each other, a save lands after what it should have
seen. Where the code then breaks a property, the model does so too, and a history
variable (`contended` in `CommandLedger`, `raced` in `SessionRuns`, `ChatSync`
and `ChatLineage`) records that a step fell between two others, and between
which. A property says itself what it says nothing about:
`OneLineage` begins with `Clear({"flip", "flush", "salvage"}) =>`, `CursorHonest`
with `Sound =>`. So the runs and theorems say of every behaviour of the code that
these windows, and nothing else, lead to a state the property forbids; section 4
says what happens in each one. No guard reads the history, except that `ChatLineage`
has a bound for TLC on how many of its windows one behaviour may meet (`races` in
`Budgets`; the proofs hold for any bound).

Mutation operators (`...Skips...`, `...Later`, ...) sit in front of the
definition they are a faulty version of. They are used only to show that each
property can fail.

## 3. Runs

| Run | Bounds | Shows |
|---|---|---|
| `room` | either one row: 2 fields, 4 clocks; or the backup: 2 rows, 4 pushes, 1 wipe, 1 failing put | every order of four fresh ops with re-pushes in between: `NoResurrection`, `RepushNoOp`, `RowNeverAges`. Two fields are enough for "one field of the row wins, the other does not"; four clocks for create, delete, revive and a late op. And around the await of the backup's put: `DirtyIsArmed`, `BackupHonest` |
| `converge` | 2 devices, 2 rows, 1 field; 1 write, 1 disconnect | disconnect at any point with any prefix delivered: `NoFlicker`, `NoResurrection`, `Converges`. Both boot rows and the write give three batches, so a re-push can meet a write or delete of the other device |
| `crash` | 2 devices; 1 write, 1 crash, 1 purge; or 1 wipe | boot from any earlier snapshot with the old socket still draining and tombstones purged: `CursorHonest`, `WriteNotLost`, `NoFalseReset`. Device 1 has a third clock reading for its second boot. After a wipe both devices re-seed, in every interleaving with their writes in flight: `QuietAgree` |
| `ledger` | 2 interrupts (the newer one moot), 1 crash, 1 failed lookup, mark or outcome; only the older expires | `AtMostOnce`, `OutcomeHonest`, `EveryCommandSettles`. The drains overlap at every step. The older command can run, be rejected, expire or be superseded; the newer can be moot |
| `chat` | 2 devices, the first hosts the chat; six scenarios: 2 edits and a crash; an edit, a crash, a disconnect; 2 edits, a disconnect or lost POST, a checkpoint; 2 edits and a quota refusal; an edit, an oversized one, a disconnect, a checkpoint; an edit, a checkpoint, a wipe | `Recoverable` (log and checkpoint hold all that was accepted), `CursorHonest` (memory and disk), `CaughtUp`, `NoEditLost`, the refinement `ImplementsChatLog`, and under fairness `Settles`. Every window is open in every scenario. Two edits are what it takes for one to be lost behind the other; one device makes both or each makes one |
| `runs` | 2 messages, 4 runs, `MAX_AUTO_RESUME` 1; seven scenarios: one message with a question and an interrupt, or a question and a death; two messages with an interrupt, with a question, with a death and a failing start, with a lost end of turn and a self-started turn, with two crashes | `SteerKept`, `RunsInMap`, `StatusBacked`, `AwaitingAnswerable`, `StreamsSettle`; under fairness `Answered`, `InterruptSettles`, `ComesToRest`. Two messages make one steer the run of the other; a second crash meets the journal of the revived run. Every window is open in every scenario |
| `relay` | 2 devices, 3 calls (two of one device), 2 dials each, 2 chats, a nudge queue of 1, 3 host sessions; five scenarios of silent socket death, host restart, lost frames and nudges | `ServersReaped`, `OfflineTold`, `NudgeAccounted`, `NeverPinned`; under fairness `Settles`, `ComesBack`. Three sessions give a corpse, its successor and one more; a queue of one overflows at the second chat |
| `lineage` | the host and another device, a command from each; nine scenarios: both commands; one of them with a watcher on either device, with one or two crashes, with an eviction, with a failing post; and a chat whose transcript is in the rollback copy only, with a command and a crash | `OneLineage` (no document mixes the two lineages or holds a message twice), `HistoryKept`, `NothingForked`, `CommandsKept`; under fairness `Answered`. One command of the other device is what an adopt can lose, two crashes what it takes to adopt twice, one command of the host what a flip can strand. A behaviour meets at most one kind of window, and none with both commands or with crashes, where two faults at once would only multiply the states; the safety properties were also run with all windows and no such bound |
| `gc_revive`, `chat_gap`, `run_claim`, `run_two` | the smallest that reach the case | statements of the repository that the code does not keep, see below |

Each module has a `TypeOK`; it states the shape of its state and is part of the
inductive invariants of section 5. The runs spend their time on the properties
above.

Deadlock checking is off: the bounds let every one of these systems stop
(everything written, everything settled).

Fairness. `RegistrySync`: the engine boots, `run` redials for ever (its first
join is retried by `spawn_join`), its select loop reads frames and answers
nudges, the room handles what it receives, and an engine whose socket the room
closed notices. Disconnects, crashes, writes, alarms and wipes are not fair.
`HandleStray` is not fair either: the room may never read a dead socket.
`CommandLedger`: the engine wires its executor at assembly, `chat_task` gets
its wake, a drain under way goes on; faults, expiry and crashes are not fair.
`RegistryBackup`: the platform runs continuations and alarms and an awaited put
ends; `PutFails` is not fair.
`ChatSync`: as `RegistrySync`, and a checkpoint under way goes on; edits,
crashes, disconnects, refusals and the start of a checkpoint are not fair.
`SessionRuns`: threads are scheduled, timers that are armed expire,
`harness.run` returns, an agent with a prompt takes it and ends its turn (or
loses the end of it, which is what the watchdog is for). Messages, questions,
answers, interrupts, deaths and crashes need not happen.
`DeviceRelay`: the host's and the callers' tasks and the room are scheduled, the
lease, the probe timeout and the cooldown expire, the platform reports closed
sockets; silent deaths, restarts and lost frames are not fair.
`ChatLineage`: a chat is opened on each device again and again (a nudge, the
sweep, a look at it), debounced saves, frames and the registry row arrive, the
sweep goes on seeding, pending commands are drained and runs end. `Cutover` is
part of it: the watcher runs at every change of the chat's row, and the flip
itself is one. Users, evictions, crashes and failing posts are not fair.

## 4. Differences between the code and what it says of itself

With a run:

* `gc_revive`: a cursor behind the GC floor is said to make the client replace
  its table (registry-room.ts:266). `apply_state` also re-seeds the rows the
  full table lacks, which are the deleted ones.
* `chat_gap`: `CaughtUp` is said to mean that "the doc is converged with the room
  at this head" (chat_client.rs:78), which is `AllCaughtUp`. The room relays new
  rows to a client during its backfill and the client raises its cursor to the
  seq of any row (chat_client.rs:998); a disconnect before the backfill ends
  leaves a gap that the next hello does not ask for.
* `run_claim`: "a routed send that raced this exit either finds its entry gone
  [...] or reclaims it" (sessions.rs:1700). The exit takes the ledger and then
  removes the run; a send between the two finds neither, and reports success.
* `run_two`: "any live run is interrupted first — never two runtimes driving one
  chat" (sessions.rs:259). Lookup and insert are not under one lock. An agent
  dies in start-up; the dispatch that retries its message and the dispatch of
  the next command both find no run and both insert one.

Without a run, to be reproduced with the module and constants named. Where a
window is named, take its name out of the property: what is left fails.

* "Recovery is automatic and lossless" (registry-room.ts:193). A device that
  comes back after the room has regrown past its cursor gets a delta and never
  re-seeds its rows: `RegistrySync!ResetLossless`, a scenario with one wipe and
  a disconnect.
* "re-applying any op is a no-op" (registry-core.ts:104). Not for an upsert
  older than a tombstone, once the row is revived:
  `RegistryMerge!RepushIdempotent`. `RepushNoOp` states where it is one.
* A wiped room "can never replace the last good copy with a hollow one"
  (registry-room.ts:398). `/reset` deletes `backupSeq` too:
  `RegistryBackup!NeverHollow`.
* "nightly R2 backup of the full table" (registry-room.ts:377). A push handled
  while the put is awaited is marked clean: `RegistryBackup!BackupCatchesUp`.
* `HlcClock` "never emits the same or an earlier clock twice, even across a
  wall-clock regression or restart" (doc/registry.rs:54): its state is saved
  behind the debounce, so a crash followed by a regression repeats a clock:
  `RegistrySync` with `WallSteps = TRUE`.
* "lexicographic order = causal order" (docs/registry-sync.md:78): the clock has
  no receive rule, so with skewed clocks an edit of a displayed row may lose.
* "re-seed pushes carry a row's ORIGINAL clocks" (doc/registry.rs:148): clocks
  of cleared fields come without a write and are not restored (`SeedOp`).
* "`delete` tombstones iff newer than `delHlc`" (registry-core.ts:103): a live
  row is compared by its newest clock (`DeleteBeats`).
* At most once (store.rs:190): the kick of `set_sessions` (doc_host.rs:451) and
  `chat_task` may both find a command before either marks it, and the boolean of
  `mark_processed` is not looked at (doc_host.rs:1964):
  `CommandLedger!AtMostOnce` without `\ contended`.
* `is_processed(..).unwrap_or(false)` (doc_host.rs:1937): a failed lookup counts
  as not processed: the same, of a single drain and a crash.
* "bytes and cursor can never disagree" (store.rs:87): the debounced save
  exports the document and then writes it beside whatever cursor is stored
  (doc_host.rs:2217); a row saved in between is overwritten, its cursor is not:
  `ChatSync!CursorHonest`, window `"save"` (of `Sound`).
* "The first backfill must NOT exclude own rows" because a restarted document
  may lack its own writes (chat_client.rs:558), and later backfills exclude them
  (line 804). A push of the engine that died may still be on its way to the room
  when the next engine has its first backfill: its row is relayed to that engine
  if it is connected then, and asked for by no later backfill:
  `ChatSync!CaughtUp`, window `"late"`. `InTime` says when a push is not late.
* A checkpoint may prune the rows a client was just told to ask for, and
  `handleRowsReq` does not compare with the floor (chat-room.ts:298):
  `ChatSync!CaughtUp`, window `"prune"`.
* A reader "parks every row on missing deps" (doc_host.rs:1003), and not only when
  the first batch never went up. An edit over the row cap is not pushed
  (chat_client.rs:444), and a batch the quota refused is overtaken by the next one;
  what depends on them is parked by every other device, while its row raises the
  cursor, and if that device is the host its checkpoint prunes the row and lacks
  it: `ChatSync!CursorHonest` and `Recoverable`, window `"parked"`. For a refused
  batch a document is behind until the batch comes through, for an oversized edit
  until a checkpoint that has it.
* The same comment, another way: a dispatch stops waiting for an interrupted run
  after 5 s (sessions.rs:545) and starts its own beside it:
  `SessionRuns!RunsInMap`, window `"slow"`.
* "ledger first" (sessions.rs:480): the message is sent to the mailbox before it
  is entered in the ledger: `SessionRuns!SteerKept`, window `"order"`.
* "an accepted message can never silently evaporate" (sessions.rs:81): a run that
  fails to start, or is retried in start-up, drops its ledger:
  `SessionRuns!NeverEvaporates` with `Budgets <- StartFails`.
* "nothing is lost" if the quiesce watchdog trips by mistake (sessions.rs:1153):
  output within a second after parking is taken for a tail of the old turn:
  `SessionRuns!NothingLost`.
* Recovery may close the entry of a run that a command started after recovery
  looked for live runs (sessions.rs:594): `SessionRuns!StreamsSettle`, window `"boot"`.
* "a torn trailing line from a crash mid-write is tolerated everywhere"
  (run_journal.rs:10): not if it is torn inside a multi-byte character, where
  `lines()` returns an error (run_journal.rs:215). Not in a model.
* A nudge is "never stranded" (device-room.ts, `NUDGE_KIND`): one that is sent
  into a host socket that died silently less than 75 s ago is lost, and the POST
  answers `delivered`: `DeviceRelay!NeverStranded` with `Budgets <- Posts`.
* "Eviction flushes a final snapshot, so reopen loses nothing" (doc_host.rs:1537):
  which commits were not pushed yet is forgotten, and with a cursor above 0 the
  reopened document pushes later commits only. A command sent just before is
  never seen by the host, a reply by nobody else, unless a checkpoint is built:
  `ChatLineage!Answered`, window `"unpushed"`. (The handle is also in the
  map, at line 838, before its commits are subscribed to, at line 860.)
* A retired document "must never persist again" (doc_host.rs:1285): a save that
  passed the check of `retired` before the seed set it, or the save that follows
  an eviction (doc_host.rs:1577), still writes the old document, and the row
  keeps the new epoch. At the next open it is taken for the new lineage and
  merged with the room: `ChatLineage!OneLineage`, windows `"flip"` and `"flush"`.
  `HistoryKept` fails in the second one; for the first one it is not known to.
* "ANY doc movement since the rebuild" aborts the seed (doc_host.rs:1253), if the
  handle is still in the map: one that was written to and evicted during the
  request is not looked at: `ChatLineage!NothingForked`, window `"evict"`.
* A queued command is "durable in the doc either way" (doc_host.rs:1720): the
  cutover watcher and a stale `open` drop a document without the save that its
  debounce still owes: `ChatLineage!CommandsKept`, window `"drop"`.
* Salvage is "Idempotent: a doc with any message entry is never touched"
  (doc_host.rs:1320): after a crash it may look at a document that has not caught
  up with the room yet and append a second copy: `ChatLineage!OneLineage`, window
  `"salvage"`.
* An adopted document keeps epoch 0 until the first frame of the room is saved,
  and the rollback copy exists by then: if the engine crashes, the next open
  adopts again and discards what was written since, the pending commands of the
  device excepted. The flip leaves no host in that state; one whose chat was
  flipped by a release without the rollback rules can be.

## 5. Proofs

All are for every value of the constants under the `ASSUME`s of the modules:
`Fields` finite and not empty (a device's own row has its name), clocks above
the seed clock, bounds natural. No proof assumes a window to be closed: where a
property makes an exception for one, the invariant makes the same. `raced` only
grows, so if no window was met after a step, none was before it.

* `RegistryMergeProofs`: `TypeOK`, `NoResurrection`, `RowNeverAges`,
  `RepushNoOp`. The inductive invariant `MergeInv` ties the row to its history.
  `NoResurrection` alone does not survive a revival followed by an older delete;
  it does once one knows that the row's `delHlc` is the newest accepted delete,
  because a revival keeps it. `RepushNoOp` needs that each merged op left a mark
  at least as new as itself.
* `RegistrySyncProofs`: `NoFalseReset`, `WriteNotLost`, `CursorHonest` and, in a
  room nobody wiped, `QuietAgree` and `NoFlicker`, for any number of devices, rows,
  writes, disconnects, crashes and purges and any wall clock; `NoResurrection`
  while besides no tombstone was purged (after a purge it fails, run `gc_revive`).
  "The cursor is not above
  `seq`" is not inductive: the invariant adds that no frame in flight carries a
  seq the room has not reached, that a device without a socket has no frames,
  and that a state frame on its way to a device in its handshake is not below
  its cursor. `CursorHonest` is not inductive: what makes a cursor honest after
  the next frame is in that frame. `Believes` says that the replica would be
  honest after every prefix of the frames on their way to it. A push or a purge
  keeps that for all these replicas at once, since what it changes is past
  every cursor, or the floor is past what it deletes; and what a push sends
  brings the last of them up to date (`Served`: a ready socket carries
  everything up to the room's seq, so `QuietAgree` needs nothing more).
  `WriteNotLost` says what became of every batch a device has issued, so its
  invariant is a ledger per device (`Ledger`). A batch is settled by the room or
  pending, in memory and, up to the clock of the snapshot, on disk too (`Kept`),
  so a crash loses only what the snapshot is older than. An ack on its way names
  a batch the room has settled (`AcksTrue`), and one id names one batch in every
  queue, push and snapshot (`Single`), so the ack retires that one. A settled
  batch stays so, because rows only move forward (`RowStep`). What makes the push
  of a pending batch settle it is its place: the room skips an update of a row it
  never knew, so an update comes after the upsert that made its row, in the queue
  and on every socket, late ones included (`Founded`, `InFlight`). And seeds must lose: a
  device seeds the rows a full table lacks, from copies an old snapshot may have
  brought back; a copy is nowhere newer than the room's row (`Below`), and a row
  that is lacking was deleted and its tombstone purged (`Gaps`, `Outlived`), so
  its seed is older than that delete and counts as settled. This is also why
  seeds revive purged rows, and why `NoResurrection` needs `gcFloor = 0`: then
  the tombstone clock of a row is the newest delete the room accepted, and a row
  that lives again has a newer field (`Finals`).
  `NoFlicker` compares two folds of the pending batches over a row, with and
  without the acked one. A batch in the middle of a queue may not be left out
  even if it changes nothing when applied first, so two things are needed. The
  acked batch is the eldest: ids rise along the queue, and a batch that is pushed
  or acked has its elders pushed or acked before it (`Rising`, `InTurn`). And it
  changes nothing of the row the replica holds when the ack is read (`Foretold`,
  over the trail of `Believes`): when the ack is put on the wire, the frames
  before it end with the room's rows after the merge, and a merged batch changes
  nothing of them; where the room has no row, the batch is an update, and the
  replica shows no live row.
* `CommandLedgerProofs`: `AtMostOnce` and `OutcomeHonest`, for any set of
  commands, crashes and faults, with drains that overlap and lookups that fail.
  The invariant follows a command through the drains: one that is not contended
  is unmarked until the drain that will execute it marks it, and is with that
  drain alone from there to the execution; the outcomes on disk obey what those
  in memory do.
* `RegistryBackupProofs`: `DirtyIsArmed`, `BackupHonest`. The invariant follows
  the copy through the await.
* `DeviceRelayProofs`: `ServersReaped`, `NeverPinned`, `OfflineTold` and
  `NudgeAccounted`, for any number of devices, calls, chats, dials and sessions.
  The invariant says that a session that is up is the youngest and a fresh one,
  that only it serves anybody, and that a client the host knows is a member of
  the room or its end is on the wire. The notice that the host is gone is put on
  a client's wire by the step that leaves the room without a host or that lets
  the client in, and it stays there until the client that reads it closes its
  link; a client that has not dialled yet has nothing on its wire. A nudge is
  followed from the queue of the room to the wire of the session that is up, and
  from there to the host or, when the socket dies, to the swallowed ones.
* `SessionRunsProofs`: `RunsInMap`, `StatusBacked` and `AwaitingAnswerable`, with
  the windows `"insert"` and `"slow"` as their exception, and `StreamsSettle`, with
  `"boot"` besides; for any number of messages, runs, crashes and faults. A
  dispatch replaces a run in several steps, so that a run is the one in the map
  needs what each caller may rely on between them: nobody else is between these
  steps, a caller that waits waits for the run in the map, and the map is empty
  when it starts its own. A busy status without a run is backed by a caller that
  still looks for one. That output of a turn has opened the journal, and that only
  such a turn has an open entry, needs `RunsInMap`: the end of a turn closes the
  journal for all. That the exceptions are needed TLC shows: after a step through
  either window it finds two runtimes (`run_two`, section 4).
  `SteerKept` makes an exception for `"order"` and `"claim"` besides (`run_claim`
  and section 4 show what happens there). It rests on two invariants.
  `Aligned`: the ledger of the live run, followed by what a caller has sent and
  not entered yet, is what the agent has begun and then its mailbox, and at least
  as many messages were begun as the stream holds boundaries; so the entry that a
  boundary confirms is one the agent began. `Followed`: from the moment its
  command runs, a message is settled, or aboard the live run (its first message,
  its ledger, the claim of its exit), or with a caller that will bring it. A
  caller that finds its run gone without its entry will not (`Stale`); that
  happens only once the entry is confirmed, claimed or excused (`Entered`).
* `ChatSyncProofs`: `Recoverable`, `CursorHonest`, `CaughtUp` and the refinement
  `ImplementsChatLog`, each until a wipe or the first step that falls into one of
  the five windows, and `NoEditLost` through all of them; for any number of
  devices, edits and dependencies between them, crashes, disconnects, refusals,
  checkpoints and lost requests. That nothing is parked until then is part of
  the invariant (`NothingParked`): what arrives has its dependencies in the
  document, in the rows before it or in the checkpoint.
  "The document holds the rows up to the cursor" is not inductive: an ack, or a
  row that is read next, raises the cursor. What is (`Flowing`): every row of
  the room is in the document of a client that is served, or in a frame on its
  way to it, and no frame that raises the cursor overtakes such a row; one that
  is being served next gets what it lacks, because the floor, its cursor and the
  request agree; a dead socket keeps nothing in flight. A row of one's own that
  the backfill excludes is in the document, since the engine that wrote it still
  runs, or the step that stored it fell into the window `"late"`. A checkpoint, from its cursor to
  its commit, covers the rows up to what it claims. `NoEditLost` needs none of
  this but that a batch id keeps its meaning: the queue, frames, dead pushes and
  rows that name one have the same operations, and an acked id is in the log.
  The refinement maps every action: `HandlePush` and `HandleStray` are `Store`,
  a read of a row, a fetch, a crash or a disconnect is `Move`, a commit of a
  checkpoint leaves what can be read of each row as it was.
* `ChatLineageProofs`: `OneLineage`, `HistoryKept`, `NothingForked` and
  `CommandsKept`, for any set of devices and commands and any number of crashes,
  evictions, failing posts and seeds, and with every window (section 4) open. Each
  makes the exceptions it names: `"flip"` and `"flush"` for all four, as the layer
  `Phases` needs them; besides them `"salvage"` for the first, `"evict"` for the
  third, `"drop"` for the last. A step that falls into no window of a property is
  calm for it, and only calm steps have to preserve its layer. The
  first step (`NextMoves`) reduces the twenty-odd actions to what they do to a
  row, a handle or the seed; open, watch, queue, drain, reply and salvage become
  "write into the handle in the map" or "build one". Then the invariant comes in
  layers, each inductive on those below. `Phases`: until the seed stores the thin
  document, no device has anything of the new lineage; a gen 1 handle beside a
  gen 2 row exists on the host only, between that save and the retirement, and no
  run holds it. `Grounded`: a reply or message is there only once its command was
  executed, so a drain never writes it a second time. `Flows` and `Singles`: a
  thin document has no operation of the old one, what other devices hold came
  from the room, and the union of the room and the host's documents, not only
  each of them, holds every message once; a salvage adds the message only to a
  document that has joined and so shows whatever the room has. `Histories`: a
  stored message is in the row, the copy or, after an adopt, the room, and a row
  is only written over by a document that shows what the copy does not.
  `Forks`: while a seed is under way what it rebuilt is in memory or stored,
  hence the last check covers what is stored. `Commanded`: a command in the row
  is in the handle that will be saved over it, in the copy or executed; adopting
  keeps it because `Requeued` takes what is pending, and what is not pending was
  executed (`Grounded`). The flip drops a document whose commands were all
  executed (`SealedDone`).

Some definitions are stated as they are for the sake of these proofs. The prover
knows no `SelectSeq` and no `CASE`: a backfill is a set of seqs and the ascending
sequence over it, a cut a prefix of the pushes, a retired batch is removed at its
index, and what is left of a queue is given by its places (`Entries`).

Only model-checked: liveness (`Converges`, `EveryCommandSettles`, `Settles`,
`Answered`, ...), which the prover does not do; and `QuietAgree` of
`RegistrySync` after a wipe. `NoFlicker` is neither proved nor run after one: the
replica's rows then are no longer those of the room that acks.

## 6. Not modelled, and why

* Presence, probes, backoff times: no rows; the disconnect they cause is there.
* The registry room's refusal of invalid, oversized or too many ops: the typed
  API mints none and chunks at 400; the size of a value is data the model
  abstracts.
* A chat that changes host, and the composer's cancel (nothing calls it).
* Hibernation or eviction of a Durable Object between an event and its
  continuation.
* Engines without an edge, where adopting is deferred; chats born on gen 2 whose
  first open ran before their row was written; the deletion of a chat; the
  sidecars. The chat room's R2 backup, whose alarm has the shape of
  `RegistryBackup`.
* What converges after a wipe of a chat room: it depends on which device still
  has the document open; `ChatLog` is stated for a log that was not wiped.
* Streams over RPC and their cancel; the sign-out of a device.
* Harnesses, UI, updater, uploads, terminals, git: I/O and presentation.
* The Loro CRDT: a library.

## 7. Plan

Done: the registry (merge, sync, backup), the command ledger, chat sync with
its abstract log, the runs of a chat, the device relay, the cutover of a chat's
document. Left, in order of importance:

1. `SessionRuns` composed with `CommandLedger`: an interrupt against the turn it
   was based on.
2. A chat that is claimed by another host while the first one drains.
3. RPC streams and their cancel; the ACP adapter's turns.
4. Proofs: `QuietAgree` of `RegistrySync` after a wipe.

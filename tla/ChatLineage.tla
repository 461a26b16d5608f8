---------------------------- MODULE ChatLineage ----------------------------
(***************************************************************************)
(* The cutover of one chat from its old document (gen 1: full outputs, a   *)
(* room nobody serves any more) to a thin one that the chat room syncs     *)
(* (gen 2), as crates/engine/src/doc_host.rs does it.  The host of the     *)
(* chat rebuilds the document, posts it as a checkpoint, saves it over the *)
(* old one and flips the chat's registry row; every other device sees the  *)
(* flip at its own time, drops the document it has open, and adopts the    *)
(* new one when it opens the chat again.  Meanwhile users watch the chat,  *)
(* send commands from both devices, and the host runs them.                *)
(*                                                                         *)
(* A rebuilt document holds the messages of the old one as new operations: *)
(* if the two ever meet in one document, Loro keeps both and every message *)
(* shows twice.  An operation is therefore a message or command and the    *)
(* number of its copy.                                                     *)
(*                                                                         *)
(* The chat room and its clients are ChatSync, the ledger of executed      *)
(* commands is CommandLedger, the registry is RegistrySync; here each is   *)
(* what it promises.  Left out: engines without an edge (adopting is       *)
(* deferred), deletion of the chat, sign-out, the sidecars.                *)
(***************************************************************************)
EXTENDS Naturals, FiniteSets

CONSTANTS
    Devices,
    Host,       \* the device that hosts the chat
    Cmds,       \* messages users send, as commands in the document
    By,         \* By[c]: the device c is sent from
    Old,        \* what was said before the cutover
    None,       \* no document, no copy
    Budgets     \* bounds: what may happen in a behaviour, one record per scenario

\* The commands users send, the devices on which somebody watches the chat, crashes,
\* evictions, failing checkpoint posts, the kinds of window (`raced`) a behaviour may
\* fall into, and whether the chat lost its transcript to the cutover before it.
Budget == [cmds : SUBSET Cmds, watchers : SUBSET Devices,
           crashes : Nat, evictions : Nat, failures : Nat, races : Nat, blank : BOOLEAN]

\* What an operation says: a command, the user's message or the reply to it.
Items == [kind : {"cmd", "msg", "reply"}, of : Cmds \cup {Old}]
Docs  == SUBSET [item : Items, copy : Nat]

\* Stored snapshots, and documents in memory.
Rows    == [ops : Docs, epoch : {0, 2}, met : BOOLEAN]
Handles == [gen : 1..2, retired : BOOLEAN, ops : Docs, out : Docs, dirty : BOOLEAN,
            joined : BOOLEAN, watched : BOOLEAN, runs : SUBSET Cmds]

ASSUME LineageAssumption ==
    /\ IsFiniteSet(Devices) /\ Host \in Devices
    /\ By \in [Cmds -> Devices] /\ Old \notin Cmds
    /\ None \notin Rows /\ None \notin Handles
    /\ Budgets \subseteq Budget

VARIABLES
    gen,        \* gen[d]: roomGen in d's replica of the chat's row
    row,        \* row[d]: the stored snapshot: operations, epoch, cursor above 0
    copy,       \* copy[d]: the rollback copy, a row of its own (`{chat}.pre-chat2`)
    open,       \* open[d]: the handle in the map
    flushing,   \* flushing[d]: an evicted handle that is being saved
    seed,       \* the host's seed: waiting for quiet, or under way
    room,       \* the gen 2 room: its checkpoint and what its rows hold
    processed,  \* the host's ledger
    sent,       \* history: commands that were queued
    crashed,    \* history: devices that crashed
    stored,     \* history: stored[d]: messages and commands d ever stored
    raced,      \* history: the windows of the code a step fell into
                \*   "flip":     something happens between the seed's last check and its end
                \*   "flush":    something happens between an eviction and its save
                \*   "drop":     a document is dropped before its debounced save
                \*   "evict":    a document written to during a seed is evicted before the seed ends
                \*   "salvage":  a salvage runs before the document has caught up
                \*   "unpushed": a document is evicted before its commits are pushed
    left        \* what remains of the bounds

device == <<gen, row, copy, open, flushing>>
vars   == <<device, seed, room, processed, sent, crashed, stored, raced, left>>

-----------------------------------------------------------------------------
(* Documents. *)

Op(kind, c, n) == [item |-> [kind |-> kind, of |-> c], copy |-> n]

\* Commits into a gen 1 document, commits into a gen 2 document.
Fat  == 0
Live == 1

\* The operations of a stored row or of a handle, if there is one.
OpsOf(x) == IF x = None THEN {} ELSE x.ops

ItemsOf(ops)  == {o.item : o \in ops}
Messages(ops) == {i \in ItemsOf(ops) : i.kind # "cmd"}
Said(ops)     == {i.of : i \in {j \in ItemsOf(ops) : j.kind = "msg"}}
Commands(ops) == {i.of : i \in {j \in ItemsOf(ops) : j.kind = "cmd"}}

\* A command is resolved in the document by what its execution writes there.
Pending(ops) == Commands(ops) \ Said(ops)

History == {Op("msg", Old, Fat)}
Content == room.ckpt \cup room.rows

\* A number for the copies a rebuild makes.
Fresh ==
    LET used == Content \cup seed.thin \cup UNION {OpsOf(row[d]) \cup OpsOf(open[d]) : d \in Devices}
    IN CHOOSE n \in 2..(Cardinality(used) + 2) : \A o \in used : o.copy # n

\* rebuild_thin_doc: every message, and the commands that are still pending.
Rebuilt(ops, n) ==
    {[item |-> i, copy |-> n] :
        i \in {j \in ItemsOf(ops) : j.kind = "cmd" => j.of \in Pending(ops)}}

Handle(g, ops, out, dirty) ==
    [gen |-> g, retired |-> FALSE, ops |-> ops, out |-> out, dirty |-> dirty,
     joined |-> FALSE, watched |-> FALSE, runs |-> {}]

\* A snapshot stored where there is none.
NewRow(ops) == [ops |-> ops, epoch |-> 0, met |-> FALSE]

Idle == [at |-> "idle", thin |-> {}, seen |-> {}]

-----------------------------------------------------------------------------
(* Opening the chat. *)

Owed(d, h) == d = Host /\ Pending(h.ops) \ processed # {}

\* A run holds the document; or the host owes its commands.
SeedBlocked(d, h) == h.runs # {} \/ Owed(d, h)

\* Watched documents stay in memory too.
Pinned(d, h) == h.watched \/ SeedBlocked(d, h)

Stale(d, h)  == gen[d] = 2 /\ h.gen = 1
Serves(d)    == open[d] # None /\ ((Stale(d, open[d]) \/ open[d].retired) => Pinned(d, open[d]))

\* Mutation: the registry alone says what generation the chat is.
GenOfRegistry(d) == gen[d]

\* The local epoch is the second cutover signal.
Gen(d) == IF row[d] # None /\ row[d].epoch = 2 THEN 2 ELSE gen[d]

Adopts(d) == Gen(d) = 2 /\ row[d] # None /\ row[d].epoch # 2

\* Mutation: a rollback copy is taken at every adopt.
RollbackAgain(d, kept) == NewRow(kept)

\* An existing rollback copy is never overwritten.
Rollback(d, kept) == IF copy[d] = None THEN NewRow(kept) ELSE copy[d]

\* Mutation: what this device sent is not carried over.
RequeuedNothing(d, ops) == {}

\* The commands this device sent and that are pending in the document it discards.
Requeued(d, ops) == {Op("cmd", c, Live) : c \in {k \in Pending(ops) : By[k] = d}}

\* The document open builds from the store.  The first contact with the room
\* pushes all of it; otherwise only later commits are pushed.
Built(d) ==
    IF Gen(d) = 1 THEN Handle(1, OpsOf(row[d]), {}, FALSE)
    ELSE IF Adopts(d)
         THEN LET own == Requeued(d, row[d].ops) IN Handle(2, own, own, own # {})
    ELSE IF row[d] = None THEN Handle(2, {}, {}, FALSE)
    ELSE Handle(2, row[d].ops, IF row[d].met THEN {} ELSE row[d].ops, FALSE)

Opened(d) == IF Serves(d) THEN open[d] ELSE Built(d)

\* What open leaves behind beside the handle: the flip completed, the rollback
\* copy of an adopted document, the stamp of one that is born on gen 2.
OpenEffects(d) ==
    IF Serves(d) THEN UNCHANGED <<gen, copy, row>>
    ELSE /\ gen' = [gen EXCEPT ![d] = Gen(d)]
         /\ copy' = [copy EXCEPT ![d] = IF Adopts(d) THEN Rollback(d, row[d].ops) ELSE @]
         /\ row' = [row EXCEPT ![d] =
                       IF Gen(d) = 2 /\ @ = None THEN [ops |-> {}, epoch |-> 2, met |-> FALSE] ELSE @]

\* The step falls into window w if cond; a step falls into the windows W.
Into(w, cond) == IF cond THEN {w} ELSE {}

Falls(W) ==
    /\ raced' = raced \cup W
    /\ Cardinality(raced \cup W) <= left.races

\* The windows a step of d falls into that the seed or a save is in the middle of.
Between(d) ==
    Into("flush", flushing[d] # None)
    \cup Into("flip", d = Host /\ seed.at \in {"sealed", "saved", "flipped"})

\* And one that drops the handle in the map.
Dropping(d) == Into("drop", open[d] # None /\ open[d].dirty)

\* Those of an open.
Opening(d) == Between(d) \cup (IF Serves(d) THEN {} ELSE Dropping(d))

\* A nudge or a sweep opens the chat.
Open(d) ==
    /\ ~Serves(d)
    /\ OpenEffects(d)
    /\ open' = [open EXCEPT ![d] = Opened(d)]
    /\ Falls(Opening(d))
    /\ UNCHANGED <<flushing, seed, room, processed, sent, crashed, stored, left>>

\* The user looks at the chat, and away.
Watch(d) ==
    /\ d \in left.watchers /\ (open[d] # None => ~open[d].watched)
    /\ OpenEffects(d)
    /\ open' = [open EXCEPT ![d] = [Opened(d) EXCEPT !.watched = TRUE]]
    /\ Falls(Opening(d))
    /\ UNCHANGED <<flushing, seed, room, processed, sent, crashed, stored, left>>

Unwatch(d) ==
    /\ open[d] # None /\ open[d].watched
    /\ open' = [open EXCEPT ![d].watched = FALSE]
    /\ Falls(Between(d))
    /\ UNCHANGED <<gen, row, copy, flushing, seed, room, processed, sent, crashed, stored, left>>

\* A commit: pushed once the room is joined, if the document is gen 2.
Commit(h, kind, c) ==
    LET o == Op(kind, c, IF h.gen = 2 THEN Live ELSE Fat)
    IN [h EXCEPT !.ops = @ \cup {o}, !.dirty = TRUE,
                 !.out = IF h.gen = 2 THEN @ \cup {o} ELSE @]

\* queue_command.
Queue(c) ==
    /\ c \in left.cmds \ sent
    /\ OpenEffects(By[c])
    /\ open' = [open EXCEPT ![By[c]] = Commit(Opened(By[c]), "cmd", c)]
    /\ sent' = sent \cup {c}
    /\ Falls(Opening(By[c]))
    /\ UNCHANGED <<flushing, seed, room, processed, crashed, stored, left>>

-----------------------------------------------------------------------------
(* The host executes commands. *)

\* drain_commands: the claim, the user's message, and a run that holds the
\* document.  A retired document is drained like any other.
Drain(c) ==
    /\ open[Host] # None
    /\ c \in Pending(open[Host].ops) \ processed
    /\ processed' = processed \cup {c}
    /\ open' = [open EXCEPT ![Host] = [Commit(open[Host], "msg", c) EXCEPT !.runs = @ \cup {c}]]
    /\ Falls(Between(Host))
    /\ UNCHANGED <<gen, row, copy, flushing, seed, room, sent, crashed, stored, left>>

\* The run writes its reply and ends.
Reply(c) ==
    /\ open[Host] # None /\ c \in open[Host].runs
    /\ open' = [open EXCEPT ![Host] = [Commit(open[Host], "reply", c) EXCEPT !.runs = @ \ {c}]]
    /\ Falls(Between(Host))
    /\ UNCHANGED <<gen, row, copy, flushing, seed, room, processed, sent, crashed, stored, left>>

-----------------------------------------------------------------------------
(* Saving, evicting, crashing. *)

\* A retired document is not saved over the thin one that replaced it.
Suppressed(d, h) == h.retired /\ row[d] # None /\ row[d].epoch = 2

\* save_snapshot keeps the epoch and cursor of the row it writes over.
StoredRow(d, h) ==
    IF Suppressed(d, h) THEN row[d]
    ELSE IF row[d] = None THEN NewRow(h.ops)
    ELSE [row[d] EXCEPT !.ops = h.ops]

\* The debounced save.
Save(d) ==
    /\ open[d] # None /\ open[d].dirty
    /\ row' = [row EXCEPT ![d] = StoredRow(d, open[d])]
    /\ open' = [open EXCEPT ![d].dirty = FALSE]
    /\ stored' = [stored EXCEPT ![d] = @ \cup ItemsOf(row'[d].ops)]
    /\ Falls(Between(d))
    /\ UNCHANGED <<gen, copy, flushing, seed, room, processed, sent, crashed, left>>

\* evict_over_budget takes an unpinned document out of the map, then saves it.
Evict(d) ==
    /\ left.evictions > 0
    /\ open[d] # None /\ ~Pinned(d, open[d])
    /\ open' = [open EXCEPT ![d] = None]
    /\ flushing' = [flushing EXCEPT ![d] = open[d]]
    /\ left' = [left EXCEPT !.evictions = @ - 1]
    /\ Falls(Between(d)
           \cup Into("evict", d = Host /\ seed.at \in {"posting", "posted"} /\ open[d].ops # seed.seen)
           \cup Into("unpushed", open[d].out # {}))
    /\ UNCHANGED <<gen, row, copy, seed, room, processed, sent, crashed, stored>>

Flush(d) ==
    /\ flushing[d] # None
    /\ row' = [row EXCEPT ![d] = StoredRow(d, flushing[d])]
    /\ flushing' = [flushing EXCEPT ![d] = None]
    /\ stored' = [stored EXCEPT ![d] = @ \cup ItemsOf(row'[d].ops)]
    /\ UNCHANGED <<gen, copy, open, seed, room, processed, sent, crashed, raced, left>>

\* Everything in memory is gone, the store stays.
Crash(d) ==
    /\ left.crashes > 0
    /\ open' = [open EXCEPT ![d] = None]
    /\ flushing' = [flushing EXCEPT ![d] = None]
    /\ seed' = IF d = Host THEN Idle ELSE seed
    /\ crashed' = crashed \cup {d}
    /\ left' = [left EXCEPT !.crashes = @ - 1]
    /\ UNCHANGED <<gen, row, copy, room, processed, sent, stored, raced>>

-----------------------------------------------------------------------------
(* The seed. *)

\* spawn_chat2_seed_when_quiet, by an open, the sweep or the cutover watcher.
Arm ==
    /\ seed.at = "idle"
    /\ open[Host] # None /\ open[Host].gen = 1 /\ ~open[Host].retired
    /\ seed' = [Idle EXCEPT !.at = "waiting"]
    /\ Falls(Between(Host))
    /\ UNCHANGED <<device, room, processed, sent, crashed, stored, left>>

\* The document has been quiet for two seconds: seed_chat2 rebuilds it.  It ends
\* here if the document was closed or retired.
Rebuild ==
    /\ seed.at = "waiting"
    /\ seed' = IF open[Host] = None \/ open[Host].gen = 2 \/ open[Host].retired THEN Idle
               ELSE [at |-> "posting", thin |-> Rebuilt(open[Host].ops, Fresh), seen |-> open[Host].ops]
    /\ Falls(Between(Host))
    /\ UNCHANGED <<device, room, processed, sent, crashed, stored, left>>

\* The checkpoint covers no row: it replaces that of an earlier seed.
Post ==
    /\ seed.at = "posting"
    /\ room' = [room EXCEPT !.ckpt = seed.thin]
    /\ seed' = [seed EXCEPT !.at = "posted"]
    /\ UNCHANGED <<device, processed, sent, crashed, stored, raced, left>>

\* The request fails, or its answer is lost.
PostFails ==
    /\ seed.at \in {"posting", "posted"} /\ left.failures > 0
    /\ seed' = Idle
    /\ left' = [left EXCEPT !.failures = @ - 1]
    /\ UNCHANGED <<device, room, processed, sent, crashed, stored, raced>>

\* Mutation: only a writer blocks the flip, not what was written.
SealedUnread(h) == ~SeedBlocked(Host, h)

\* The last check before anything irreversible: no writer, nothing owed, and
\* the document is the one that was rebuilt.
Sealed(h) == ~SeedBlocked(Host, h) /\ h.ops = seed.seen

Check ==
    /\ seed.at = "posted"
    /\ seed' = IF open[Host] = None \/ Sealed(open[Host]) THEN [seed EXCEPT !.at = "sealed"] ELSE Idle
    /\ Falls(Between(Host))
    /\ UNCHANGED <<device, room, processed, sent, crashed, stored, left>>

SaveThin ==
    /\ seed.at = "sealed"
    /\ copy' = [copy EXCEPT ![Host] = IF row[Host] = None THEN @ ELSE Rollback(Host, row[Host].ops)]
    /\ row' = [row EXCEPT ![Host] = [ops |-> seed.thin, epoch |-> 2, met |-> FALSE]]
    /\ seed' = [seed EXCEPT !.at = "saved"]
    /\ stored' = [stored EXCEPT ![Host] = @ \cup ItemsOf(seed.thin)]
    /\ UNCHANGED <<gen, open, flushing, room, processed, sent, crashed, raced, left>>

Flip ==
    /\ seed.at = "saved"
    /\ gen' = [gen EXCEPT ![Host] = 2]
    /\ seed' = [seed EXCEPT !.at = "flipped"]
    /\ UNCHANGED <<row, copy, open, flushing, room, processed, sent, crashed, stored, raced, left>>

\* Whatever handle is in the map now is retired, and dropped unless a run holds it.
Retire ==
    /\ seed.at = "flipped"
    /\ open' = [open EXCEPT ![Host] =
                   IF @ = None \/ @.runs = {} THEN None ELSE [@ EXCEPT !.retired = TRUE]]
    /\ seed' = Idle
    /\ UNCHANGED <<gen, row, copy, flushing, room, processed, sent, crashed, stored, raced, left>>

-----------------------------------------------------------------------------
(* The other side of the flip. *)

\* The registry carries the flip to another device.
Learn(d) ==
    /\ gen[d] = 1 /\ \E e \in Devices : gen[e] = 2
    /\ gen' = [gen EXCEPT ![d] = 2]
    /\ UNCHANGED <<row, copy, open, flushing, seed, room, processed, sent, crashed, stored, raced, left>>

\* Mutation: a document somebody watches is kept.
DroppableUnwatched(h) == h.runs = {} /\ ~h.watched

\* A document a run holds is left alone; one that is only watched is not.
Droppable(h) == h.runs = {}

\* spawn_cutover_watcher drops a gen 1 document that no run holds.  (The host
\* then opens the chat again, which Open does.)
Cutover(d) ==
    /\ open[d] # None /\ Stale(d, open[d]) /\ Droppable(open[d])
    /\ open' = [open EXCEPT ![d] = None]
    /\ Falls(Between(d) \cup Dropping(d))
    /\ UNCHANGED <<gen, row, copy, flushing, seed, room, processed, sent, crashed, stored, left>>

\* The chat client catches up or hears of new rows: the document and the cursor
\* are saved together, under epoch 2.
Hear(d) ==
    /\ open[d] # None /\ open[d].gen = 2
    /\ LET ops == open[d].ops \cup Content
           saves == room.rows # {} \/ ~(room.ckpt \subseteq open[d].ops)
       IN /\ open' = [open EXCEPT ![d] = [@ EXCEPT !.ops = ops, !.joined = TRUE]]
          /\ row' = [row EXCEPT ![d] =
                        IF saves THEN [ops |-> ops, epoch |-> 2, met |-> room.rows # {}] ELSE @]
          /\ open' # open \/ row' # row
    /\ stored' = [stored EXCEPT ![d] = @ \cup ItemsOf(row'[d].ops)]
    /\ Falls(Between(d))
    /\ UNCHANGED <<gen, copy, flushing, seed, room, processed, sent, crashed, left>>

\* Once joined, it pushes what was committed.
Push(d) ==
    /\ open[d] # None /\ open[d].joined /\ open[d].out # {}
    /\ room' = [room EXCEPT !.rows = @ \cup open[d].out]
    /\ open' = [open EXCEPT ![d].out = {}]
    /\ Falls(Between(d))
    /\ UNCHANGED <<gen, row, copy, flushing, seed, processed, sent, crashed, stored, left>>

\* spawn_transcript_salvage: a gen 2 document without any message, of a chat that
\* ran here, and a rollback copy to take them from.
Salvages(h) == copy[Host] # None /\ Messages(h.ops) = {}

Salvage ==
    /\ gen[Host] = 2
    /\ OpenEffects(Host)
    /\ LET h == Opened(Host)
           new == {o \in Rebuilt(copy[Host].ops, Fresh) : o.item.kind # "cmd"}
       IN /\ Salvages(h) /\ new # {}
          /\ open' = [open EXCEPT ![Host] =
                         [h EXCEPT !.ops = @ \cup new, !.dirty = TRUE, !.out = @ \cup new]]
    /\ Falls(Opening(Host) \cup Into("salvage", ~Opened(Host).joined))
    /\ UNCHANGED <<flushing, seed, room, processed, sent, crashed, stored, left>>

-----------------------------------------------------------------------------
\* A chat from before the cutover, that other devices may or may not have a copy
\* of; or one that is gen 2 while the room is empty and the host has its
\* transcript in the rollback copy only.
Init ==
    /\ left \in Budgets
    /\ \E copies \in SUBSET (Devices \ {Host}) :
         row = [d \in Devices |->
                  IF d = Host /\ left.blank THEN [ops |-> {}, epoch |-> 2, met |-> FALSE]
                  ELSE IF d \in copies \cup {Host} THEN NewRow(History)
                  ELSE None]
    /\ gen = [d \in Devices |-> IF left.blank THEN 2 ELSE 1]
    /\ copy = [d \in Devices |-> IF left.blank /\ d = Host THEN NewRow(History) ELSE None]
    /\ open = [d \in Devices |-> None] /\ flushing = [d \in Devices |-> None]
    /\ seed = Idle /\ room = [ckpt |-> {}, rows |-> {}]
    /\ processed = {} /\ sent = {} /\ crashed = {} /\ raced = {}
    /\ stored = [d \in Devices |-> ItemsOf(OpsOf(row[d]))]

User(d)   == Watch(d) \/ Unwatch(d)
Engine(d) == Save(d) \/ Flush(d) \/ Learn(d) \/ Cutover(d) \/ Hear(d) \/ Push(d)
Run(c)    == Drain(c) \/ Reply(c)
Seed      == Arm \/ Rebuild \/ Post \/ Check \/ SaveThin \/ Flip \/ Retire

Next ==
    \/ \E d \in Devices : User(d) \/ Open(d) \/ Engine(d) \/ Evict(d) \/ Crash(d)
    \/ \E c \in Cmds : Queue(c) \/ Run(c)
    \/ Seed \/ PostFails \/ Salvage

Spec == Init /\ [][Next]_vars

\* A chat is opened again (the sweep, a nudge, the user), saves and frames come,
\* the migration sweep goes on, pending commands are drained and runs end.
Fairness ==
    /\ \A d \in Devices : WF_vars(Open(d)) /\ WF_vars(Engine(d))
    /\ WF_vars(Seed)
    /\ \A c \in Cmds : WF_vars(Run(c))

FairSpec == Spec /\ Fairness

-----------------------------------------------------------------------------
(* Properties. *)

TypeOK ==
    /\ gen \in [Devices -> 1..2]
    /\ row \in [Devices -> Rows \cup {None}] /\ copy \in [Devices -> Rows \cup {None}]
    /\ open \in [Devices -> Handles \cup {None}] /\ flushing \in [Devices -> Handles \cup {None}]
    /\ seed \in [at : {"idle", "waiting", "posting", "posted", "sealed", "saved", "flipped"},
                 thin : Docs, seen : Docs]
    /\ room \in [ckpt : Docs, rows : Docs]
    /\ processed \subseteq Cmds /\ sent \subseteq Cmds /\ crashed \subseteq Devices
    /\ stored \in [Devices -> SUBSET Items] /\ left \in Budget
    /\ raced \subseteq {"flip", "flush", "drop", "evict", "salvage", "unpushed"}

\* The documents of the new lineage on d.
Thin(d) == (IF row[d] # None /\ row[d].epoch = 2 THEN {row[d].ops} ELSE {})
           \cup (IF open[d] # None /\ open[d].gen = 2 THEN {open[d].ops} ELSE {})

\* No step fell into one of the windows W.
Clear(W) == raced \cap W = {}

\* The two lineages never meet ("the s2 room's fat doc would merge into the
\* unrelated thin lineage and duplicate every message", doc_host.rs open): no
\* document of the new one holds a message twice or an operation of the old one.
\* Not so once a save of the old document lands over the thin one, or a salvage
\* copies messages that were on their way.
OneLineage ==
    Clear({"flip", "flush", "salvage"}) =>
        \A ops \in {Content} \cup UNION {Thin(d) : d \in Devices} :
            \A o, p \in ops :
                /\ o.copy # Fat
                /\ o.item = p.item /\ o.item.kind # "cmd" => o = p

\* What d has of the chat, in whatever lineage.
Holds(d) ==
    ItemsOf(Content \cup OpsOf(row[d]) \cup OpsOf(copy[d]) \cup OpsOf(open[d]) \cup OpsOf(flushing[d]))

\* Adopting never loses a transcript, however often a crash makes d adopt again
\* ("the FIRST rollback copy is the real transcript"): every message that was in
\* a stored document is still there, in the rollback copy, or in the room.  Not so
\* once the chat is used between an eviction and its save; nothing is said once it
\* is used between the seed's last check and its end.
HistoryKept ==
    Clear({"flip", "flush"}) =>
        \A d \in Devices : \A i \in stored[d] : i.kind # "cmd" => i \in Holds(d)

\* A flip strands nothing: once the host's row says gen 2 and no seed is under
\* way, all that was said on the host is in the new lineage.  Not so for what is
\* said after the seed's last check, or in a document that is evicted after the
\* rebuild read it: the check passes when there is no document in memory.
NothingForked ==
    Clear({"flip", "flush", "evict"}) /\ gen[Host] = 2 /\ seed.at = "idle" =>
        LET said == stored[Host] \cup ItemsOf(OpsOf(open[Host]))
        IN \A i \in said : i.kind # "cmd" => i \in ItemsOf(Content \cup UNION Thin(Host))

\* A command is durable from queue_command on: on the device that sent it or in
\* the room until it was executed.  Only what a crash took before it was ever
\* stored is gone, or the drop of a document that was not saved yet.
CommandsKept ==
    Clear({"flip", "flush", "drop"}) =>
        \A c \in sent :
            LET cmd == [kind |-> "cmd", of |-> c]
                d == By[c]
            IN cmd \in stored[d] \/ d \notin crashed
               => cmd \in Holds(d) \/ c \in processed

\* A command sent on any device, before, during or after the cutover, is executed
\* and the reply reaches the room every device reads, unless an engine crashes or a
\* step fell into one of the windows (of a salvage, all of it still gets there).
Answered ==
    \A c \in Cmds :
        c \in sent ~>
            \/ [kind |-> "reply", of |-> c] \in ItemsOf(Content)
            \/ crashed # {} \/ ~Clear({"flip", "flush", "drop", "evict", "unpushed"})
=============================================================================

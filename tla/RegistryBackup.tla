--------------------------- MODULE RegistryBackup ---------------------------
(***************************************************************************)
(* The registry room's nightly backup (edge/src/registry-room.ts,          *)
(* markBackupDirty, alarm and /reset): which table the R2 object holds.    *)
(*                                                                         *)
(* Two steps of the room await: markBackupDirty asks for the alarm and     *)
(* sets one in a continuation, and alarm() awaits the put.  Pushes and the *)
(* operator's wipe run in between.  The platform runs one alarm() at a     *)
(* time, clears the alarm when it starts, and runs it again if it throws.  *)
(* Rows are the live rows; the tombstones an alarm purges are the business *)
(* of RegistrySync.                                                        *)
(***************************************************************************)
EXTENDS Naturals, FiniteSets

CONSTANTS
    RowIds,       \* rows the devices hold
    MaxSeq,       \* bound: accepted batches since the last wipe
    MaxResets,    \* bound: operator wipes
    MaxFailures   \* bound: puts that fail

VARIABLES
    table, seq,          \* the room's rows and meta.seq
    dirty, backupSeq,    \* meta.backupDirty and meta.backupSeq
    arming,              \* markBackupDirty's continuations to run
    alarm,               \* an alarm is set
    run,                 \* alarm(): "idle", or what it puts
    stored,              \* the put has reached R2 and alarm() has not resumed
    blob,                \* the R2 object
    used                 \* wipes and failed puts so far

backupVars == <<table, seq, dirty, backupSeq, arming, alarm, run, stored, blob, used>>

Copies == [seq : Nat, rows : SUBSET RowIds]
Idle == [seq |-> 0, rows |-> {}]   \* alarm() never puts a table of seq 0

\* Mutation: dirty without an alarm.
MarkBackupDirtyUnarmed == dirty' = TRUE /\ UNCHANGED arming

MarkBackupDirty == dirty' = TRUE /\ arming' = TRUE

\* handlePush with a change: a row written, or written again.
Accept(r) ==
    /\ seq < MaxSeq
    /\ table' = table \cup {r}
    /\ seq' = seq + 1
    /\ MarkBackupDirty
    /\ UNCHANGED <<backupSeq, alarm, run, stored, blob, used>>

\* getAlarm().then(...): set one unless there is one.
Arm ==
    /\ arming
    /\ arming' = FALSE
    /\ alarm' = TRUE
    /\ UNCHANGED <<table, seq, dirty, backupSeq, run, stored, blob, used>>

\* alarm() up to its await: idle, up to date, or a put of the whole table.
Alarm ==
    /\ alarm /\ run = Idle
    /\ alarm' = FALSE
    /\ \/ ~dirty /\ UNCHANGED <<run, dirty>>
       \/ dirty /\ seq > backupSeq /\ run' = [seq |-> seq, rows |-> table] /\ UNCHANGED dirty
       \/ dirty /\ seq <= backupSeq /\ dirty' = FALSE /\ UNCHANGED run
    /\ UNCHANGED <<table, seq, backupSeq, arming, stored, blob, used>>

PutStored ==
    /\ run # Idle /\ ~stored
    /\ blob' = run
    /\ stored' = TRUE
    /\ UNCHANGED <<table, seq, dirty, backupSeq, arming, alarm, run, used>>

\* put throws, so alarm() throws: the platform runs it again.
PutFails ==
    /\ run # Idle /\ ~stored
    /\ used.failures < MaxFailures
    /\ used' = [used EXCEPT !.failures = @ + 1]
    /\ run' = Idle
    /\ alarm' = TRUE
    /\ UNCHANGED <<table, seq, dirty, backupSeq, arming, stored, blob>>

\* Mutation: the seq recorded is the room's, not the copy's.
RecordedRoomSeq == seq

RecordedSeq == run.seq

\* alarm() after its await: record the copy, and the room is clean.
Resume ==
    /\ stored
    /\ backupSeq' = RecordedSeq
    /\ dirty' = FALSE
    /\ run' = Idle
    /\ stored' = FALSE
    /\ UNCHANGED <<table, seq, arming, alarm, blob, used>>

\* The operator's wipe deletes rows and all of meta; the alarm stays.
Reset ==
    /\ used.resets < MaxResets
    /\ used' = [used EXCEPT !.resets = @ + 1]
    /\ table' = {} /\ seq' = 0 /\ dirty' = FALSE /\ backupSeq' = 0
    /\ UNCHANGED <<arming, alarm, run, stored, blob>>

BackupInit ==
    /\ table = {} /\ seq = 0 /\ dirty = FALSE /\ backupSeq = 0
    /\ arming = FALSE /\ alarm = FALSE /\ run = Idle /\ stored = FALSE
    /\ blob = [seq |-> 0, rows |-> {}]
    /\ used = [resets |-> 0, failures |-> 0]

BackupNext ==
    (\E r \in RowIds : Accept(r)) \/ Arm \/ Alarm \/ PutStored \/ PutFails \/ Resume \/ Reset

BackupSpec == BackupInit /\ [][BackupNext]_backupVars

\* The platform runs continuations, alarms and what an await waits for.
FairBackupSpec ==
    BackupSpec /\ WF_backupVars(Arm) /\ WF_backupVars(Alarm) /\ WF_backupVars(PutStored) /\ WF_backupVars(Resume)

-----------------------------------------------------------------------------
NoReset == used.resets = 0

(* The room's bookkeeping is well formed, and only a put under way is stored. *)
BackupTypeOK ==
    /\ table \subseteq RowIds /\ seq \in Nat /\ backupSeq \in Nat
    /\ {dirty, arming, alarm, stored} \subseteq BOOLEAN
    /\ run \in Copies /\ blob \in Copies
    /\ stored => run # Idle
    /\ used \in [resets : Nat, failures : Nat]

(* A room marked dirty has an alarm coming: set, about to be set, or running, also
   after a put that fails and in any order of continuations and alarms
   (markBackupDirty, alarm).  It says nothing of a push whose mark is gone: alarm()
   takes away the mark of a push it handled during its put (BackupCatchesUp). *)
DirtyIsArmed == dirty => alarm \/ arming \/ run # Idle

(* backupSeq never claims a copy R2 does not hold: a batch accepted while the
   put is under way is not counted as saved (alarm, backupSeq after the await). *)
BackupHonest == NoReset => backupSeq <= blob.seq /\ blob.seq <= seq

(* What the comment in alarm() says: a wiped and re-seeding room never
   replaces the last good copy with a hollow one. *)
NeverHollow == [][blob' # blob => blob.rows \subseteq blob'.rows]_backupVars

(* What the nightly backup is for: once pushes stop, R2 has every one of them. *)
BackupCatchesUp == <>[](NoReset => blob.seq = seq)
=============================================================================

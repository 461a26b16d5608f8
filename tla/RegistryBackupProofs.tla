------------------------ MODULE RegistryBackupProofs ------------------------
(***************************************************************************)
(* DirtyIsArmed and BackupHonest for every set of rows and every bound.    *)
(* BackupHonest needs to follow the copy through the await: what is being  *)
(* put is at least as new as the object it replaces and no newer than the  *)
(* room, and once stored it is the object.                                 *)
(***************************************************************************)
EXTENDS RegistryBackup, Integers, TLAPS

Counts == used \in [resets : Nat, failures : Nat]

Numbers == seq \in Nat /\ backupSeq \in Nat /\ run.seq \in Nat /\ blob.seq \in Nat

CopyInOrder ==
    /\ backupSeq <= blob.seq /\ blob.seq <= seq
    /\ run # Idle => blob.seq <= run.seq /\ run.seq <= seq
    /\ stored => run # Idle /\ blob = run

\* stored only while running holds with and without wipes.
BackupInv ==
    /\ Counts /\ Numbers
    /\ stored => run # Idle
    /\ DirtyIsArmed
    /\ NoReset => CopyInOrder

LEMMA BackupStart == BackupInit => BackupInv
  BY DEF BackupInit, BackupInv, Counts, Numbers, CopyInOrder, DirtyIsArmed, NoReset, Idle

LEMMA BackupStep == ASSUME BackupInv, [BackupNext]_backupVars PROVE BackupInv'
  <1> USE DEF BackupInv
  <1>1. ASSUME NEW r \in RowIds, Accept(r) PROVE BackupInv'
    BY <1>1 DEF Accept, MarkBackupDirty, Counts, Numbers, CopyInOrder, DirtyIsArmed, NoReset
  <1>2. CASE Arm
    BY <1>2 DEF Arm, Counts, Numbers, CopyInOrder, DirtyIsArmed, NoReset
  <1>3. CASE Alarm
    <2>1. CASE UNCHANGED run
      BY <1>3, <2>1 DEF Alarm, Counts, Numbers, CopyInOrder, DirtyIsArmed, NoReset, Idle
    <2>2. CASE dirty /\ seq > backupSeq /\ run' = [seq |-> seq, rows |-> table] /\ UNCHANGED dirty
      <3>1. run'.seq = seq /\ run' # Idle /\ run = Idle /\ ~stored
        BY <1>3, <2>2 DEF Alarm, Idle, Numbers
      <3> QED BY <1>3, <2>2, <3>1 DEF Alarm, Counts, Numbers, CopyInOrder, DirtyIsArmed, NoReset
    <2> QED BY <1>3, <2>1, <2>2 DEF Alarm
  <1>4. CASE PutStored
    BY <1>4 DEF PutStored, Counts, Numbers, CopyInOrder, DirtyIsArmed, NoReset
  <1>5. CASE PutFails
    BY <1>5 DEF PutFails, Counts, Numbers, CopyInOrder, DirtyIsArmed, NoReset, Idle
  <1>6. CASE Resume
    BY <1>6 DEF Resume, RecordedSeq, Counts, Numbers, CopyInOrder, DirtyIsArmed, NoReset, Idle
  <1>7. CASE Reset
    BY <1>7 DEF Reset, Counts, Numbers, DirtyIsArmed, NoReset
  <1>8. CASE UNCHANGED backupVars
    BY <1>8 DEF backupVars, Counts, Numbers, CopyInOrder, DirtyIsArmed, NoReset
  <1> QED BY <1>1, <1>2, <1>3, <1>4, <1>5, <1>6, <1>7, <1>8 DEF BackupNext

THEOREM BackupInvariant == BackupSpec => []BackupInv
  BY BackupStart, BackupStep, PTL DEF BackupSpec

(* A room marked dirty always has an alarm coming (markBackupDirty). *)
THEOREM DirtyIsArmedHolds == BackupSpec => []DirtyIsArmed
  <1>1. BackupInv => DirtyIsArmed
    BY DEF BackupInv
  <1> QED BY <1>1, BackupInvariant, PTL

(* backupSeq never claims a copy R2 does not hold (alarm). *)
THEOREM BackupHonestHolds == BackupSpec => []BackupHonest
  <1>1. BackupInv => BackupHonest
    BY DEF BackupInv, CopyInOrder, BackupHonest
  <1> QED BY <1>1, BackupInvariant, PTL
=============================================================================

--------------------------- MODULE MCRegistryRoom ---------------------------
(* RegistryMerge and RegistryBackup for TLC: two parts of the registry room that
   meet only in handlePush, so a behaviour moves one of them: a row under the ops
   its clients push, or the backup of the whole table. *)
EXTENDS RegistryMerge, RegistryBackup

VARIABLE part   \* which of the two moves

RoomInit == part \in {"row", "backup"} /\ Init /\ BackupInit

RoomNext ==
    /\ \/ part = "row" /\ Next /\ UNCHANGED backupVars
       \/ part = "backup" /\ BackupNext /\ UNCHANGED vars
    /\ UNCHANGED part

RoomSpec == RoomInit /\ [][RoomNext]_<<vars, backupVars, part>>
=============================================================================

CONSTANTS
    Fields = {f1, f2}
    Hlcs = {2, 3, 4, 5}
    RowIds = {r1, r2}
    MaxSeq = 4
    MaxResets = 1
    MaxFailures = 1
SPECIFICATION RoomSpec
CHECK_DEADLOCK FALSE
INVARIANTS NoResurrection RepushNoOp DirtyIsArmed BackupHonest
PROPERTY RowNeverAges

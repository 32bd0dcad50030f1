CONSTANTS
    Runs = {r1, r2}
    Entries = {e1}
    Options <- MCOptions
    PackedSize <- MCPackedSize
    Tries = 2
    Failing = {"open", "write"}
    MaxRestarts = 1
SPECIFICATION Spec
INVARIANTS
    CacheTypeOK
    LocksAccounted
    UnlockedIsWhole
    AddedIsWhole
PROPERTY
    RunsEnd
CHECK_DEADLOCK FALSE

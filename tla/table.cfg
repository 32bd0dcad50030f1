CONSTANTS
    Names <- MCNames
    Start <- MCStart
    Key <- MCKey
    NoKey <- MCNoKey
    HtSize = 4
    NumEntries = 4
SPECIFICATION TableSpec
INVARIANTS
    TableTypeOK
    NeverImpossible
    LookupIsFirst
PROPERTY
    LookupStable
CHECK_DEADLOCK FALSE

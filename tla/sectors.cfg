CONSTANTS
    Block = 4
    MaxSize = 12
    BaseKey = 7
SPECIFICATION Spec
INVARIANTS
    BufferHolds
    TableLeads
    Recognised
CHECK_DEADLOCK FALSE

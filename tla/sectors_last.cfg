CONSTANTS
    Block = 4
    MaxSize = 12
    BaseKey = 7
SPECIFICATION Spec
INVARIANT
    RoundTrip
CHECK_DEADLOCK FALSE

SPECIFICATION Spec

CONSTANTS
    PoolSize = 8
    FrameCap = 8
    ServiceCap = 4
    Traffic = {"read", "connected"}
    MaxOwed = 2

INVARIANTS
    NeverStops

\* With the bus silent and nothing to do the device rests: a legal end.
CHECK_DEADLOCK FALSE

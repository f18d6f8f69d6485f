SPECIFICATION Spec

CONSTANTS
    PoolSize = 8
    FrameCap = 8
    ServiceCap = 4
    Traffic = {"read", "other"}
    MaxOwed = 19

INVARIANTS
    TypeOK
    BoxesConserved
    AckedFrameHasRoom
    OneFrameInFlight
    UnwrapNeverFails

PROPERTIES
    ImplementsServer

\* With the bus silent and nothing to do the device rests: a legal end.
CHECK_DEADLOCK FALSE

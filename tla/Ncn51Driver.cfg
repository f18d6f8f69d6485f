SPECIFICATION FairSpec

CONSTANTS
    PoolSize = 3
    FrameCap = 3
    ServiceCap = 1
    Traffic = {"read", "connected", "other"}
    MaxOwed = 3
    HeaderSize = 2
    ReadSize = 3
    OtherSize = 4
    AnswerSize = 3
    BufferSize = 5
    LongSize = 7

INVARIANTS
    TypeOK
    ConfirmedIsOut

PROPERTIES
    ImplementsStack
    SendConfirmed

\* With the bus silent and nothing to do the device rests, and a panic halts it.
CHECK_DEADLOCK FALSE

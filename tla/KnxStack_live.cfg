SPECIFICATION FairSpec

CONSTANTS
    PoolSize = 3
    FrameCap = 3
    ServiceCap = 2
    Traffic = {"read", "other"}
    MaxOwed = 5

INVARIANTS
    NoWaitCycle

PROPERTIES
    SendConfirmed
    DeviceComesToRest

\* With the bus silent and nothing to do the device rests: a legal end.
CHECK_DEADLOCK FALSE

SPECIFICATION Spec

CONSTANTS
    Peers = {p1}
    NoPeer = none
    MaxPackets = 2
    QueueCap = 2
    Faults = {"cancel"}
    OverflowChecks = FALSE

INVARIANTS
    AckedIsDelivered

\* A panic stops the device, and a client that is done may stop for good.
CHECK_DEADLOCK FALSE

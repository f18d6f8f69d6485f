SPECIFICATION FairSpec

CONSTANTS
    Peers = {p1}
    NoPeer = none
    MaxPackets = 8
    QueueCap = 3
    Faults = {"oom", "loss"}
    OverflowChecks = FALSE

INVARIANTS
    AckedIsDelivered

PROPERTIES
    PacketsAcked

\* A panic stops the device, and a client that is done may stop for good.
CHECK_DEADLOCK FALSE

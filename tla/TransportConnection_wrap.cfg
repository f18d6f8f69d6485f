SPECIFICATION FairSpec

CONSTANTS
    Peers = {p1}
    NoPeer = none
    MaxPackets = 9
    QueueCap = 2
    Faults = {}
    OverflowChecks = FALSE

PROPERTIES
    PacketsAcked

\* A panic stops the device, and a client that is done may stop for good.
CHECK_DEADLOCK FALSE

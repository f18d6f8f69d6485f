SPECIFICATION FairSpec

CONSTANTS
    Peers = {p1}
    NoPeer = none
    MaxPackets = 1
    QueueCap = 2
    Faults = {"restart"}
    OverflowChecks = FALSE

PROPERTIES
    SilentPeerDropped

\* A panic stops the device, and a client that is done may stop for good.
CHECK_DEADLOCK FALSE

SPECIFICATION Spec

CONSTANTS
    Peers = {p1, p2}
    NoPeer = none
    MaxPackets = 2
    QueueCap = 3
    Faults = {"oom", "cancel", "loss", "restart"}
    OverflowChecks = TRUE

INVARIANTS
    TypeOK
    DeliveredInOrder

PROPERTIES
    OwnerKeepsConnection

\* A panic stops the device, and a client that is done may stop for good.
CHECK_DEADLOCK FALSE

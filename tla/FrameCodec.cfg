SPECIFICATION Spec

CONSTANTS
    Formats = {"Standard"}
    Headers <- MCHeaders
    Tpdus <- MCTpdus
    Individuals = {4525, 37009}
    Masks = {1, 16, 128, 255}
    OverflowChecks = TRUE

INVARIANTS
    TypeOK
    SendsWhatIsMeant
    RoundTrip
    DamagedIsRejected
    OnlyTailsPass
    Understood

\* A frame that has been received is at the end of its way.
CHECK_DEADLOCK FALSE

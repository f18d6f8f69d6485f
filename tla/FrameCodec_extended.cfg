SPECIFICATION Spec

CONSTANTS
    Formats = {"Extended"}
    Headers <- MCHeaders
    Tpdus <- MCReads
    Individuals = {4472}
    Masks = {1}
    OverflowChecks = FALSE

INVARIANTS
    RoundTrip

\* A frame that has been received is at the end of its way.
CHECK_DEADLOCK FALSE

SPECIFICATION StackSpec
CONSTANTS
    Flash <- MCFlash
    Ceiling = 2
    UINT32_MAX = 9
    Requests <- MCRequests
    Faults <- MCFaults
    MaxOps = 3
    Pages = 2
    Cases <- MCCases
INVARIANTS
    BufferWindow
    NoStrayData
    SessionEnds
    Truthful
PROPERTY
    FlashReturns
CHECK_DEADLOCK FALSE

SPECIFICATION StackSpec
CONSTANTS
    Flash <- MCFlash
    Ceiling = 2
    UINT32_MAX = 9
    Requests <- MCRequests
    Faults = {}
    MaxOps = 3
    Pages = 2
    Cases <- MCCases
INVARIANT
    CommitDespiteErase
CHECK_DEADLOCK FALSE

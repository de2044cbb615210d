CONSTANTS
    Accesses <- MCAccesses
    MaxPieces = 2
    MaxTrouble = 2
    Jobs <- MCJobs
SPECIFICATION HostedSpec
CHECK_DEADLOCK FALSE
INVARIANT ShiftExact
PROPERTY Contract
PROPERTY CallsReturn

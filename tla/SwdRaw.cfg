CONSTANTS
    Accesses <- MCRemote
    MaxPieces = 2
    MaxTrouble = 2
    Jobs <- MCRawJobs
SPECIFICATION HostedSpec
CHECK_DEADLOCK FALSE
INVARIANT ShiftExact

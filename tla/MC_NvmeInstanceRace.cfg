CONSTANTS
    p1 = p1
    p2 = p2
    None = None
    Procs <- MCTwoCallers
    NvmeCapacity = 2
    MaxProbes = 4
SPECIFICATION RaceSpec
INVARIANT
    ClaimedDevicesCounted

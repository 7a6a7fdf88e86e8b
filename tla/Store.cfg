SPECIFICATION MCSpec
CONSTANTS
    MAX_KEY_SIZE = 1
    MAX_VALUE_SIZE = 3
    ProbeWindow = 4
    ProbeBudget = 20
    Appenders = {1, 2}
    NoOne = 0
    Keys <- MCKeys
    Batches <- MCBatches
    RING_SIZE = 2
    MaxAppends = 2
    MaxFaults = 2
    MaxCrashes = 2
    Jobs = {j1, j2, j3}
    Nobody = Nobody
    Linked <- MCLinked
    Limit = 2
    ByteLimit = 2
    Requests <- MCRequests
    MaxRequests = 3
INVARIANTS AckedReadable StartKeepsTheLog KeydirIsTheLog ReadersExact NoLockCycle SidecarsSafe
CHECK_DEADLOCK FALSE
SYMMETRY Symmetry

CONSTANTS
    nnodes_per_sector = 2
    kInvalidID = kInvalidID
    kAllocatedID = kAllocatedID
    NumPoints = 2
    NumInserts = 3
    Threads = 3
    MaxVisits = 2
    R = 2
    None = None
    Garbage = Garbage

SPECIFICATION LoadSpec

INVARIANTS
    IOInv
    SerialRecordsReadable

CONSTANTS
    nnodes_per_sector = 2
    kInvalidID = kInvalidID
    kAllocatedID = kAllocatedID
    NumPoints = 1
    NumInserts = 2
    Threads = 3
    MaxVisits = 2
    R = 2
    None = None
    Garbage = Garbage

SPECIFICATION IOSpec

INVARIANTS
    DiskConsistent

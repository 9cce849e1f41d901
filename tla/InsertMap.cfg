CONSTANTS
    nnodes_per_sector = 3
    kInvalidID = kInvalidID
    kAllocatedID = kAllocatedID
    NumPoints = 3
    NumInserts = 2
    Threads = 2
    MaxVisits = 3
    R = 2
    None = None

SPECIFICATION FairSpec

INVARIANTS
    Id2LocConsistent
    EmptyPagesExact
    ReservationsExact
    IInv

PROPERTIES
    LookupsStable
    InsertsComplete

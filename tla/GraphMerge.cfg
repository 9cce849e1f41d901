SPECIFICATION Spec
CONSTANTS
    Dist <- MCDist
    R = 2
    MaxC = 3
    Alphas <- MCAlphas
    Points <- MCPoints
    Starts <- MCStarts
    NSampled = 2
    NodesPerSector = 2
    PopulateSectors = 1
    MergeSectors = 1
    Workers = 2
    MaxDeletes = 2
    MaxMerges = 2
    None = None
INVARIANTS GraphInv OutputExact EntryKept
PROPERTIES NearestStays MergeEnds

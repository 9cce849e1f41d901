CONSTANTS
    NumPoints = 2
    NumTags = 3
    MaxMerges = 2
    Kinds <- AllKinds
    Searchers = {s1}
    BeamSearch = TRUE
    None = None

SPECIFICATION DynSpec

INVARIANTS
    DynInv
    MergeExcludes
    DeletesRespected
    RecordsKept
    ReadsMatch

CONSTANTS
    NumPoints = 2
    NumTags = 3
    MaxMerges = 1
    Kinds = {"final"}
    Searchers = {s1}
    BeamSearch = TRUE
    None = None

SPECIFICATION DynSpec

INVARIANTS
    DeletesReflected

SPECIFICATION FairSpec
CONSTANTS
    Dist <- MCDist
    R = 2
    MaxC = 3
    Alphas <- MCAlphas
    Threads = {t1, t2}
    Tags <- MCTags
    Frozen <- MCFrozen
    Starts <- MCStarts
    ToLink <- MCToLink
    Queries <- MCQueries
    Batches <- MCBatches
    L = 2
    K = 2
    Slack = 3
    LoadSizes = {2, 5}
    MaxInserts = 2
    MaxCalls = 3
    CallsBuilt = 1
    None <- MCNone
CHECK_DEADLOCK FALSE
INVARIANTS MemInv TagsExact NeverCrashes ResultsMatch EntryFrozen
PROPERTY CallsReturn

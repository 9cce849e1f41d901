SPECIFICATION SearchSpec
CONSTANTS
  Nodes <- MCNodes
  Graph <- MCGraph
  Page <- MCPage
  Tag <- MCTag
  Deleted = {1}
  Candidates = {0, 2, 4}
  LSearch = 3
  KSearch = 2
  Beam = 2
  RefineCapacity = 2
  Threads = {"t1", "t2"}
  Mixes <- FilterMixes
  Queries <- MCQueries
  Entries <- MCEntries
  Medoid = 0
  NewId <- MCNewId
  R = 2
  UsePages = TRUE
  NBuffers = 4
  NCoros = 2
  MaxReads = 3
  StartWidth = 2
  MaxCalls = 2
INVARIANT FilterDistinct

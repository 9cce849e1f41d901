SPECIFICATION TablesSpec
SYMMETRY Symmetry
CONSTANTS
  t1 = t1
  t2 = t2
  k1 = k1
  k2 = k2
  k3 = k3
  k4 = k4
  k5 = k5
  v1 = v1
  v2 = v2
  Threads = {t1, t2}
  Keys = {k1, k2, k3, k4, k5}
  Vals = {v1, v2}
  NoVal = NoVal
  Hash <- MCHash
  Mix <- MCMix
  Loaded <- MCLoaded
  LoadedVal = v1
  Jobs <- MCJobs
  SlotPerBucket = 2
  MaxNumLocks = 2
  MaxBfsPathLen = 2
  InitHp = 0
  MaxHp = 2
  MaxOps = 4
  NoThread = NoThread
  NoItem = NoItem
  NoKey = NoKey
INVARIANTS
  CuckooInv
  SizeExact
  LockIndexInRange
  RobinInv
PROPERTIES
  ImplementsMap
  RobinImplementsMap

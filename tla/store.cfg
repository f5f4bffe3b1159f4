\* Reloads, reuse of a data context, a missing graph and the destructor.
CONSTANTS
  Execs = {"e1", "e2", "e3"}
  DataCtxs = {"d1", "d2"}
  DataOf <- SharedData
  Missing = {"e2"}
  MaxLoads = 2
  PoolSize = 1
  NoExec = "none"
SPECIFICATION FairSpec
INVARIANTS TypeOK ContextOwned OwnCluster DataAlive ResultsReadable DestroyedClean
PROPERTIES DestructorEnds
CHECK_DEADLOCK FALSE

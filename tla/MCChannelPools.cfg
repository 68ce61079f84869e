SPECIFICATION Spec
CONSTANTS
  Fetcher = {t1, t2}
  Server = {"a", "b"}
  LastSlot = 2
  Topologies <- MCTopologies
  NoPool = NoPool
  MaxRefreshes = 3
INVARIANTS
  PoolInUseFits
  ReturnedHome
  NewestUnlessFailed
  AsksOwner

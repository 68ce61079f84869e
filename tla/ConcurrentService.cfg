SPECIFICATION FairSpec
CONSTANTS
  MinSlices = 0
  MaxSlices = 4
  SpawnMayFail = TRUE
INVARIANTS
  SliceInv
  MergeOnceAfterAll
PROPERTIES
  NotifiesUnlessLost
  ImplementsIoNode

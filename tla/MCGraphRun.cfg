SPECIFICATION FairSpec
CONSTANTS
  MaxNode = 4
  Node <- MCNode
  Root = 0
  NoNode = NoNode
  IoNode = {1, 3}
  Graphs <- MCGraphs
  SpawnMayFail = TRUE
INVARIANTS
  ReadinessInv
  RunOnce
  RunsAfterAncestors
  StarvedOnlyBelowLost
PROPERTIES
  Completes
  ImplementsDagRun

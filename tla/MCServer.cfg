SPECIFICATION FairSpec
CONSTANTS
  Node <- MCNode
  Root = 0
  NoNode = NoNode
  Rpc = {2, 3}
  Start = 1
  Done = 4
  Graphs <- MCGraphs
  SpawnMayFail = TRUE
  Transport = {backend}
  Client = {redis}
  NoName = NoName
INVARIANTS
  ReadsSettled
  StopsOnlyBelowSilent
PROPERTIES
  ServicesImplementIoNode
  CompletesUnlessSilent

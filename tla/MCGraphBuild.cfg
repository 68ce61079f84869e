SPECIFICATION FairSpec
CONSTANTS
  Name <- MCName
  NoNode = NoNode
  Configs <- MCConfigs
INVARIANTS
  EdgesCountedOnce
  CheckIsExact
  AcceptedFeedsGraphRun
  OrderDoesNotMatter
PROPERTY
  InitEnds

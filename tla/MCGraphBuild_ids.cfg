SPECIFICATION Spec
CONSTANTS
  Name <- MCName
  NoNode = NoNode
  Configs <- MCConfigs
INVARIANT
  IdsInsideCounters

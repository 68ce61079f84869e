SPECIFICATION FairSpec
CONSTANTS
  Requests <- MCRequests
  MaxInfos = 2
  MaxKeys = 4
  batch_size = 2
  FetchMayFail = TRUE
  HandlersMayThrow = TRUE
  KeysMayBeGone = TRUE
INVARIANTS
  CompletedOnceAfterAll
  CachedParsedOnce
  CompletedAtRest
PROPERTIES
  NotifiesUnlessThrown
  ImplementsIoNode

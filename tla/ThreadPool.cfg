SPECIFICATION FairSpec
CONSTANTS
  Worker = {w1, w2}
  Task = {t1, t2, t3, t4}
  NoTask = NoTask
INVARIANTS
  QueueInv
  NothingLeftBehind
PROPERTIES
  Drains

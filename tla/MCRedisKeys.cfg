SPECIFICATION Spec
CONSTANTS
  Key = {1, 2, 3}
  Request = {r1, r2}
  Configured <- MCConfigured
  Wanteds <- MCWanteds
  SlotOf <- MCSlotOf
  MultiGet = {TRUE, FALSE}
  batch_size = 2
  Other = Other
  NoEntry = NoEntry
INVARIANTS
  OneSlotPerBatch
  EverythingServed
  UndisturbedIsTrue
  StuckOnlyIfDisturbed
SYMMETRY RequestSymmetry

SPECIFICATION Spec
CONSTANTS
  Pbuf = {p1, p2}
  PBUF_WRAPPER_BLOCK = 1
  MaxBlocks = 3
  MaxHold = 2
  MallocUnlocks = FALSE
  NULL = NULL
INVARIANTS
  TypeOK
  RefCountExact
  PayloadAlive
  OneOwner
  NoWrapperLost
  FreedWithOneRef
PROPERTIES
  GrowsWhenAllLent
  LinkoutputReturns
  ReleasedIsFreed
  LoanSpec

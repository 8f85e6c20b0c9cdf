SPECIFICATION Spec
CONSTANTS
  Eb = {e1, e2}
  Pbuf = {p1, p2, p3}
  HeapRoom = 3
  MaxFrames = 4
  BlobRefs = TRUE
  NULL = NULL
CHECK_DEADLOCK FALSE
INVARIANTS
  TypeOK
  BuffersConserved
  HeapIsSound
PROPERTIES
  BufferReturns
  QueueSpec

SPECIFICATION Spec
CONSTANTS
  Char = {a, b}
  ROTBUFLEN = 4
  MaxChars = 8
  NULL = NULL
INVARIANTS
  TypeOK
  Accounted
  LossTold
PROPERTY LogSpec

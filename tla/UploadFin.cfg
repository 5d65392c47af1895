SPECIFICATION Spec
CONSTANTS
  KnownSizes = {3}
  UnknownSizes = {}
  SendSize = 2
  UlBufSize = 2
  MinUnsent = 2
  CreditMax = 3
INVARIANTS
  FinEndsWholeBody

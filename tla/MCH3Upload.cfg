SPECIFICATION FairSpec
CONSTANTS
  KnownSizes = {0, 4}
  UnknownSizes = {3}
  SendSize = 3
  UlBufSize = 2
  MinUnsent = 2
  CreditMax = 3
INVARIANTS
  TypeOK
  RingIntact
  UsedExact
  OutqMatchesWire
  FinLast
PROPERTIES
  HandedIsDelivered

SPECIFICATION Spec
CONSTANTS
  Local = {a}
  Remote = {r}
  MaxOff = 3
  StreamWindow = 2
  ConnWindow = 2
  MaxStreamWindow = 3
  MaxConnWindow = 3
  Chunk = 2
  TightPackets = TRUE
INVARIANTS
  TypeOK
  CreditedOnce
  CreditComplete
  OffsetExact
  FalselyAccusedOnlyBy
  StreamNotStuck
  ClosesWhenDone
  RobHoldsData
  RobAgrees
  EmitAgrees
PROPERTIES
  KeepsWindow
CHECK_DEADLOCK FALSE

SPECIFICATION Spec
CONSTANTS
  MaxRxPkt = 5
  MaxTxPkt = 2
  MaxEnt = 2
  MaxAckBlks = 1
  MaxAcks = 2
  MaxGaps = 3
  Word = 1024
  VarintEnd = 256
INVARIANTS
  TypeOK
  NoFalseAck
  ForgottenWasConfirmed
  AcksOrdered
  PendingAckHasRanges
  RangeAddAgrees
  RecvAckAgrees
  FrameAgrees
PROPERTIES
  NoReadmission
CHECK_DEADLOCK FALSE

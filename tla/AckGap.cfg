SPECIFICATION Spec
CONSTANTS
  MaxRxPkt = 3
  MaxTxPkt = 1
  MaxEnt = 2
  MaxAckBlks = 1
  MaxAcks = 2
  MaxGaps = 2
  Word = 1024
  VarintEnd = 256
INVARIANTS
  NoWrappedGap
CHECK_DEADLOCK FALSE

SPECIFICATION Spec
CONSTANTS
  Ctrl = {c1}
  Data = {d1}
  MaxPkt = 2
  PktThreshold = 1
  PktCap = 2
  Cwnd = 3
INVARIANTS
  RetransmittableTriggersPto
CHECK_DEADLOCK FALSE

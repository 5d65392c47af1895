SPECIFICATION Spec
CONSTANTS
  Ctrl = {c1}
  Data = {d1, d2}
  MaxPkt = 3
  PktThreshold = 2
  PktCap = 2
  Cwnd = 3
SYMMETRY Symmetry
INVARIANTS
  TypeOK
  NoItemLost
  UniqueOwner
  LostAreOldest
  CountersExact
  NoStall
PROPERTIES
  Delivers
CHECK_DEADLOCK FALSE

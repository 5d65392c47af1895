SPECIFICATION Spec
CONSTANTS
  a = a
  b = b
  Transfer = {a, b}
  Sized = {a}
  Body <- BodyOfBoth
  BufferSize = 1
  OverflowMax = 2
  Window = 2
  MaxLoops = 1
  Pausing = {a}
  GotMax = 4
INVARIANTS
  PassedOnce
CHECK_DEADLOCK FALSE

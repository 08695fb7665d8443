CONSTANTS
  Conns = {c1, c2}
  NSlots = 1
  MaxQueue = 1
  MaxPieces = 2
  MaxInputs = 2
SPECIFICATION Spec
INVARIANT DropsGone
CHECK_DEADLOCK FALSE

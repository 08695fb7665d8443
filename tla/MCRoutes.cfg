CONSTANTS
  Conns = {c1, c2}
  NSlots = 1
  MaxQueue = 1
  MaxPieces = 2
  MaxInputs = 2
SPECIFICATION Spec
SYMMETRY MCSymmetry
INVARIANTS EngineAlive ClientTold DropsGoneElsewhere  OwnVectors
CHECK_DEADLOCK FALSE

SPECIFICATION Spec
CONSTANTS
  Messages <- Mixed
  InBuffer = 10
  MaxSent = 2
  MaxPieces = 6
  MaxConnects = 2
INVARIANTS InStepUnless NothingHeldBack AckedIsWhole
CHECK_DEADLOCK FALSE

SPECIFICATION Spec
CONSTANTS
  Codes <- TwoCodes
  BufferSize = 37
  ReadSize = 6
  DebounceTime = 2
  MaxUart = 39
  MaxLost = 2
INVARIANTS TypeOK WrongOnlyByLoss
PROPERTIES HeldBackBriefly

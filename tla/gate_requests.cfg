SPECIFICATION RequestsSpec
CONSTANTS
  card1 = card1
  card2 = card2
  NoCard = NoCard
  Cards <- OneCard
  GateTimeout = 1
  DebounceTime = 1
  MaxRequests = 2
  MaxQr = 1
  MaxRepeats = 1
  MaxClock = 3
INVARIANTS RequestsTypeOK OneWaiting
PROPERTIES RefusedOnlyWhileWaiting

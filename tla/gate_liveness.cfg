SPECIFICATION Spec
CONSTANTS
  card1 = card1
  card2 = card2
  NoCard = NoCard
  Cards <- TwoCards
  GateTimeout = 10
  DebounceTime = 3
PROPERTIES LoneCardServed

SPECIFICATION Spec
CONSTANTS
  card1 = card1
  card2 = card2
  text1 = text1
  text2 = text2
  blank = blank
  NoCard = NoCard
  Cards <- TwoCards
  Texts <- OneText
  Blank = blank
  MaxWrites = 2
INVARIANTS ReportedIsWritten UndisturbedNamesItsCard OneCardUnlessUnheard
PROPERTIES WrittenInCommand UndisturbedReadsTruth
SYMMETRY Symmetry

SPECIFICATION Spec
CONSTANTS
  NestingLimit = 3
  DefaultSize = 4
  Texts <- SomeTexts
  NameSize = 4
  ShortSize = 3
  PayloadSize = 34
  OutSize = 56
  UrlSize = 4
INVARIANTS AnswerNamesRequest CopyReadsAlike PrintsInside ReadsWhatItPrints

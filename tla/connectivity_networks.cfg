SPECIFICATION Spec
CONSTANTS
  Nets = 3
  MaxRetry = 2
  Reachable <- OnlyThird
  TcpSurvives = FALSE
INVARIANTS TypeOK WifiFlagSettles
PROPERTIES FindsNetwork Recovers

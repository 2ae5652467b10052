SPECIFICATION FairSpec
CONSTANTS
  Writers = {"a", "b"}
  NoWriter = "none"
  MaySend <- MCMaySend
  LineLimit <- MCLineLimit
  MaxSends = 1
  MaxCuts = 1
INVARIANTS TypeOK MessagesComeBack OnlyLongLinesFail WholeLinesArrive
PROPERTIES ImplementsChannel EverythingArrives
CHECK_DEADLOCK FALSE

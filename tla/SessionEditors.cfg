SPECIFICATION SessionSpec
CONSTANTS
  a = a
  b = b
  d = d
  x = x
  Clients = {a, b, d}
  NoClient = NoClient
  OpIds <- MCOneEach
  MayQuit = {}
  Present = {a, b}
  HistoryLimit = 1
  InitialText <- MCText
  Positions <- MCFirstPosition
INVARIANT
  OnlyASkippedVersionDiverges
CHECK_DEADLOCK FALSE

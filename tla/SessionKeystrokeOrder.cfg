SPECIFICATION SessionSpec
CONSTANTS
  a = a
  b = b
  d = d
  x = x
  Clients = {a, b}
  NoClient = NoClient
  OpIds <- MCTwoAndOne
  MayQuit = {}
  Present = {a, b}
  HistoryLimit = 3
  InitialText <- MCText
  Positions <- MCPositions
INVARIANT
  KeystrokesKeepTheirOrder
CHECK_DEADLOCK FALSE

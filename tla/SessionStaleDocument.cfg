SPECIFICATION SessionSpec
CONSTANTS
  a = a
  b = b
  d = d
  x = x
  Clients = {a, b}
  NoClient = NoClient
  OpIds <- MCOnlyA
  MayQuit = {}
  Present = {a}
  HistoryLimit = 3
  InitialText <- MCText
  Positions <- MCPositions
INVARIANT
  Converged
CHECK_DEADLOCK FALSE

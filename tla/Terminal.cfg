SPECIFICATION TerminalSpec
CONSTANTS
  a = a
  b = b
  x = x
  Clients = {a, b}
  NoClient = NoClient
  OpIds <- MCOpIds
  MayQuit = {}
  Present = {a, b}
  HistoryLimit = 1
  InitialText <- MCText
  Positions <- MCPositions
  Utf8Of <- MCUtf8Of
INVARIANTS TerminalTypeOK BytesAreTheText
PROPERTIES ImplementsSession AnAckMovesNoCursor
CHECK_DEADLOCK FALSE

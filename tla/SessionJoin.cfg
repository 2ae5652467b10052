SPECIFICATION FairSpec
CONSTANTS
  a = a
  b = b
  d = d
  x = x
  Clients = {a, b}
  NoClient = NoClient
  OpIds <- MCTwoEach
  MayQuit = {b}
  Present = {a}
  HistoryLimit = 1
  InitialText <- MCText
  Positions <- MCFirstPosition
INVARIANTS
  SessionTypeOK
  KeystrokesAccounted
  AnswerOnItsWay
PROPERTIES
  OnlyADocumentRewinds
  ImplementsDocument
  EverythingTypedIsAnswered
CHECK_DEADLOCK FALSE

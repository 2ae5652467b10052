SPECIFICATION Spec
CONSTANTS
  OpIds = {o1, o2, o3, o4}
  x = x
  y = y
  HistoryLimit = 2
  InitialText <- MCInitialText
  Positions <- MCPositions
SYMMETRY MCSymmetry
INVARIANTS
  TypeOK
  HistoryWindow
  ReplayableHistory
PROPERTY
  KeepsIntentions
CHECK_DEADLOCK FALSE

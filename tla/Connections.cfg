SPECIFICATION FairSpec
CONSTANTS
  a = a
  b = b
  c = c
  Conns = {a, b, c}
  NoConn = NoConn
  Requested <- MCTwoWantTheSame
  Strangers = {b}
  Requests <- MCRequests
  MayLeave = {a, b}
  Capacity = 1
  MayOutgrow = TRUE
INVARIANTS
  TypeOK
  ListIsExact
  NumbersAreUnique
PROPERTIES
  EveryoneIsServed
CHECK_DEADLOCK FALSE

SPECIFICATION Spec
CONSTANTS
  Threads = {t1, t2}
  MaxVersion = 2
  MaxSaves = 0
  Length <- MCLength
  MayStop = FALSE
  MayCrash = FALSE
  DiskMayFail = FALSE
INVARIANT
  PayloadFollowsItsHeader
CHECK_DEADLOCK FALSE

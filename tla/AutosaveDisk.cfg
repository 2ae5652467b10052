SPECIFICATION Spec
CONSTANTS
  Threads = {t}
  MaxVersion = 2
  MaxSaves = 2
  Length <- MCFromEmpty
  MayStop = FALSE
  MayCrash = TRUE
  DiskMayFail = TRUE
INVARIANTS
  TypeOK
  FilesAreWhole
  CatchesUp
PROPERTIES
  NothingGetsOlder
  ReplacedAsAWhole
CHECK_DEADLOCK FALSE

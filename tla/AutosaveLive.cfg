SPECIFICATION FairSpec
CONSTANTS
  Threads = {t}
  MaxVersion = 1
  MaxSaves = 1
  Length <- MCLength
  MayStop = TRUE
  MayCrash = FALSE
  DiskMayFail = FALSE
PROPERTIES
  QueuedSavesHappen
  StopTerminates
  StopSavesTheText
CHECK_DEADLOCK FALSE

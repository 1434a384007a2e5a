CONSTANTS
  QueueMax = 2
  MaxRecords = 2
  MaxRestarts = 0
  Windows = {w1}
  Stamps = {0}
  Never = 9
  KRawValid = 1
  CloseLimit = 1
SPECIFICATION ArchiveSpec
INVARIANTS
  ReplayReachesEnd
CHECK_DEADLOCK FALSE

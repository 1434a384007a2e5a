CONSTANTS
  QueueMax = 2
  MaxRecords = 4
  MaxRestarts = 2
  Windows = {w1}
  Stamps = {0, 2}
  Never = 9
  KRawValid = 1
  CloseLimit = 1
SPECIFICATION ArchiveLiveSpec
INVARIANTS
  ArchiveTypeOK
  ReplayInOrder
  AcceptedIsKept
  TableIsArchive
PROPERTIES
  StopEnds
CHECK_DEADLOCK FALSE

CONSTANTS
  LastWindow = 1
  MaxRestarts = 1
  MaxTaken = 2
  MaxFailed = 1
SPECIFICATION Spec
INVARIANT TypeOK
INVARIANT ReportAgrees
PROPERTY SettledRowStays
CHECK_DEADLOCK FALSE

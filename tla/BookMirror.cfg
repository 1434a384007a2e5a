CONSTANTS
  Tokens = {t1, t2}
  Prices = {1}
  MaxChanges = 2
  MaxFrames = 2
  MaxReconnects = 1
  Anomalies = {"malformed"}
SPECIFICATION LiveSpec
INVARIANTS
  TypeOK
  NoBlindBook
  CleanIsTrue
  CleanIsFresh
PROPERTIES
  BecomesClean
CHECK_DEADLOCK FALSE

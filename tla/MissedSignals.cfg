CONSTANTS
  Cfg <- Config
  Ticks <- MCTicks
  Rates = {300, 1000}
  MinSizes = {0, 5}
  NoAsk = 0
  MaxTicks = 2
  MaxEngineRestarts = 1
SPECIFICATION SignalsSpec
INVARIANT
  ReportExplains
CHECK_DEADLOCK FALSE

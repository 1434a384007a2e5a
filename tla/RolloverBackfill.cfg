CONSTANTS
  LastWindow = 2
  MaxTs = 1
  DayLength = 2
  MaxLosses = 2
  Cooldown = 2
  MaxDailyLoss = 1
SPECIFICATION Spec
INVARIANT BackfillIsUsed

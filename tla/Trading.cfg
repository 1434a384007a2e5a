CONSTANTS
  MaxRtt = 1
  MaxDepth = 2
  MaxOrders = 4
  MaxSize = 2
  MaxStake = 2
SPECIFICATION Spec
INVARIANTS
  TypeOK
  OneEntry
  WindowStakeCap
  NoForgottenShares
  OnlySoldTwice

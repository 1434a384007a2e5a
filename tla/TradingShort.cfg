CONSTANTS
  MaxRtt = 1
  MaxDepth = 2
  MaxOrders = 3
  MaxSize = 2
  MaxStake = 3
SPECIFICATION Spec
INVARIANT
  NeverShort

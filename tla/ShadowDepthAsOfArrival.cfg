CONSTANTS
  c1 = c1
  c2 = c2
  s1 = s1
  Orders = {c1, c2}
  Sessions = {s1}
  Intent <- TwoTakers
  MaxRtt = 1
  MaxDepth = 1
SPECIFICATION RulesSpec
PROPERTY DepthAsOfArrival

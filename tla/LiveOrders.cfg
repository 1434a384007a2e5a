CONSTANTS
  o1 = o1
  o2 = o2
  Orders = {o1, o2}
  WindowOf <- TwoWindows
  Size <- TwoAndOne
  LastWindow = 1
  MaxReports = 2
SPECIFICATION Spec
INVARIANTS
  TypeOK
  BookedExactly
  WindowsApart
CHECK_DEADLOCK FALSE

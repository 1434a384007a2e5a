CONSTANTS
  c1 = c1
  c2 = c2
  s1 = s1
  Orders = {c1, c2}
  Sessions = {s1}
  Intent <- MakerAndFok
  MaxRtt = 2
  MaxDepth = 2
SPECIFICATION LiveSpec
INVARIANTS
  TypeOK
  NoIllegalTransition
  ExchangeAgrees
  FillsBooked
  LastInQueue
PROPERTIES
  NothingBeforeRtt
  SettledIsFinal
  KeepsContract
  TakerEnds
  CancelLands

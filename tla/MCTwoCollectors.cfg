SPECIFICATION Spec
CONSTANTS
  Queries <- MCQuery
  AskedWindows <- MCWindows
  Collectors = {c1, c2}
  MaxTime = 2
  MaxExecutions <- MCThrice
  MaxDrops = 0
  Cost <- MCCost
  NoTime = NoTime
  NoPoint = NoPoint
INVARIANT
  NeverOvercounts

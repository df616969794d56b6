SPECIFICATION Spec
CONSTANTS
  Queries <- MCQueries
  AskedWindows <- MCWindows
  Collectors = {c1}
  MaxTime = 2
  MaxExecutions <- MCOften
  MaxDrops = 1
  Cost <- MCCost
  NoTime = NoTime
  NoPoint = NoPoint
INVARIANTS
  TypeOK
  NeverOvercounts
  ExactBetweenResets
  WeeksAddUp
  TopIsTop

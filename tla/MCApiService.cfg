SPECIFICATION FairSpec
CONSTANTS
  Requests <- MCRequests
  PoolSize = 1
INVARIANTS
  TypeOK
  CountedOnce
  ScrapeShowsAnswered
  ConnectionsReturned
PROPERTIES
  NoneWaitsForAnother
  DrainEnds
CHECK_DEADLOCK FALSE

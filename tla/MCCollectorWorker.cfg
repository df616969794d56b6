SPECIFICATION FairSpec
CONSTANTS
  Jobs <- MCJobs
  QueryJobs <- MCQueryJobs
  MaxAttempts = 4
  BaseDelay = 1
  MaxDelay = 3
INVARIANTS
  TypeOK
  AttemptsStartClean
  EndsClean
  Backoff
  NoJobWithoutPool
PROPERTIES
  StartupSettles
  StopEnds
  JobsGoOn
CHECK_DEADLOCK FALSE

SPECIFICATION FairSpec
CONSTANTS
  Collections = {c1, c2, c3}
  Targets = {d1}
  Names = {n1}
  Times <- MCTimes
  Writers = {w1, w2}
  Readers = {}
  NoSnapshot = NoSnapshot
  NoWriter = NoWriter
PROPERTIES
  WriteEnds
  ImplementsLedger
CHECK_DEADLOCK FALSE

SPECIFICATION Spec
CONSTANTS
  Collections = {c1, c2, c3}
  Targets = {d1, d2}
  Names = {n1, n2}
  Times <- MCTimes
  Writers = {w1, w2}
  Readers = {r1}
  NoSnapshot = NoSnapshot
  NoWriter = NoWriter
SYMMETRY MCSymmetry
INVARIANTS
  TypeOK
  HistoryWhole
  CurrentIsLatest
  CurrentInStep
  AcknowledgedIsStored
  ScrapeIsWhole
PROPERTIES
  CurrentNeverRegresses
  ScrapeMovesForward

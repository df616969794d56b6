SPECIFICATION Spec
CONSTANTS
  Threshold = 3
  For = 2
  BlockedFor = 1
  Window = 3
  MaxStep = 1
  Horizon = 8
  NoRow = NoRow
INVARIANT
  OutageRaisesAlert

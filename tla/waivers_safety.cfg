SPECIFICATION Spec
CONSTANTS
  Proc = {p1, p2}
  Key = {k1, k2}
  MaxTwins = 2
  MaxTime = 1
  MaxCommands = 3
  MaxChanges = 1
  MaxCrashes = 1
  None = None
SYMMETRY Symmetry
INVARIANTS
  TypeOK
  RenewalReplaces
  LogAgrees
PROPERTIES
  LiveWaiversStay
CHECK_DEADLOCK FALSE

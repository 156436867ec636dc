SPECIFICATION Spec
CONSTANTS
  Proc = {p1, p2}
  Key = {k1, k2}
  MaxTwins = 2
  MaxTime = 0
  MaxCommands = 2
  MaxChanges = 1
  MaxCrashes = 0
  None = None
SYMMETRY Symmetry
INVARIANTS
  LockMeansBusyOrCrashed
CHECK_DEADLOCK FALSE

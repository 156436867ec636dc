SPECIFICATION Spec
CONSTANTS
  a = a
  b = b
  Feature = {a, b}
  Wire <- Read
  Proc = {p1, p2}
  Version = {v1, v2}
  MaxTime = 1
  MaxCommands = 3
  MaxEdits = 1
  None = None
SYMMETRY Symmetry
INVARIANTS
  TypeOK
  ObligationsHeld
  VerifiedIsAccepted
PROPERTIES
  BaselineIsEarned
CHECK_DEADLOCK FALSE

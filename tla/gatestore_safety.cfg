SPECIFICATION Spec
CONSTANTS
  preflight = preflight
  Proc = {p1, p2, p3}
  Gate = {scan, contract}
  Token = {t1, t2}
  Ages = {}
  TTL <- MCNoTTL
  MaxTime = 0
  MaxWrites = 3
  NoProc = NoProc
  NoRecord = NoRecord
  NoEvent = NoEvent
SYMMETRY Symmetry
INVARIANTS
  TypeOK
  LockDiscipline
  NoLostGateWrite
PROPERTIES
  PassIsEarned
  RefinesRegister
CHECK_DEADLOCK FALSE

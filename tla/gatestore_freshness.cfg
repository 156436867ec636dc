SPECIFICATION FairSpec
CONSTANTS
  preflight = preflight
  Proc = {p1, p2}
  Gate = {preflight}
  Token = {1, 2}
  Ages = {0}
  TTL <- MCTTL
  MaxTime = 2
  MaxWrites = 2
  NoProc = NoProc
  NoRecord = NoRecord
  NoEvent = NoEvent
PROPERTIES
  PassIsEarned
  LockComesFree

SPECIFICATION Spec
CONSTANTS
  Proc = {p1}
  Txn = {t1, t2}
  Kind = {"config-apply"}
  Region = {r1, r2}
  Text = {a, b}
  Replacement = b
  ForceFlag = {FALSE}
  MaxWraps = 1
  MaxCommands = 8
  MaxEdits = 0
  MaxCrashes = 0
  NoTxn = NoTxn
  NoProc = NoProc
  NoDoc = NoDoc
  NoGate = NoGate
SYMMETRY Symmetry
INVARIANT PassMeansLive
CHECK_DEADLOCK FALSE

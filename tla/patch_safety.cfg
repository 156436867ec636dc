SPECIFICATION Spec
CONSTANTS
  Proc = {p1, p2}
  Txn = {t1, t2}
  Kind = {"config-apply", "java-source-splice", "ddl-apply"}
  Region = {r1, r2}
  Text = {a, b}
  Replacement = b
  ForceFlag = {FALSE, TRUE}
  MaxWraps = 1
  MaxCommands = 6
  MaxEdits = 1
  MaxCrashes = 1
  NoTxn = NoTxn
  NoProc = NoProc
  NoDoc = NoDoc
  NoGate = NoGate
SYMMETRY Symmetry
INVARIANTS
  TypeOK
  RecordHeld
  BlobBeforeRecord
PROPERTIES
  ReviewedWrites
CHECK_DEADLOCK FALSE

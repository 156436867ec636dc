SPECIFICATION MCSpec
CONSTANTS
  Process = {p1, p2}
  Request = {r1, r2}
  NoHolder = NoHolder
  Uid <- MCUid
  Gate = {"contract", "cross_feature", "handles"}
  MaxCommands = 2
  MaxFaults = 1
  MaxNumber = 3
  Slug = {a, b}
  Infra <- MCInfra
  Late <- MCLate
  Version <- MCVersion
  Hand = {hand}
  Repo = repo
  Absent = absent
INVARIANTS
  TypeOK
  RenameKeepsAll
  IdsNameOneFeature
  RecordsFollowWrites
  FlagTracksInfra
PROPERTIES
  HumanEditsSurvive
SYMMETRY Symmetric
CHECK_DEADLOCK FALSE

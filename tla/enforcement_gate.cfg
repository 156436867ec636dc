SPECIFICATION Spec
CONSTANTS
  Request = {r1, r2}
  Capacities = {2, 3, 4}
  MaxChildren = 1
  Links = 2
  MaxFaults = 1
INVARIANTS
  TypeOK
  AuditVerifies
  ChildrenAccounted
PROPERTIES
  RequestsEnd
CHECK_DEADLOCK FALSE

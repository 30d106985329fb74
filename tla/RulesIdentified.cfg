SPECIFICATION Spec
CONSTANTS
  o1 = o1  o2 = o2  o3 = o3  r1 = r1  r2 = r2  r3 = r3
  P1_THRESHOLD_COUNT = 1
  P2_THRESHOLD_COUNT = 2
  P2_THRESHOLD_MONTO = 3
  P2_THRESHOLD_DAYS = 1
  P3_THRESHOLD_ORGS = 2
  Null = Null
  Pool <- Identified
INVARIANTS
  KeysDistinct
PROPERTIES
  MultiOrgMonotone
\* every contract of the pool inserted: nothing is left to do
CHECK_DEADLOCK FALSE

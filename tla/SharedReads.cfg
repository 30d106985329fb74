SPECIFICATION RSpec
CONSTANTS
  f1 = f1  k1 = k1  k2 = k2
  o1 = o1  e1 = e1  noid = noid  w1 = w1  r1 = r1
  P1_THRESHOLD_COUNT = 0
  P2_THRESHOLD_COUNT = 1
  P2_THRESHOLD_MONTO = 9
  P2_THRESHOLD_DAYS = 0
  P3_THRESHOLD_ORGS = 2
  Null = Null  Bogus = Bogus  Blank = Blank
  EmptyId = noid
  Strip <- MCStrip
  Fuentes = {f1}
  Csv <- MCMonths
  Workers = {w1}
  Readers = {r1}
  Limits = {0}
  Unidentified = {}
  Foreign <- ReadResults
  Questions <- MCQuestions
  AlertsLimit = 1
  NeighborsLimit = 2
  EntityAlertsLimit = 2
INVARIANTS
  ReadsTyped
  UncrossedSucceed
  AlertFound
  EntityWhole
  GraphClosed
  AlertsExplained
PROPERTIES
  Spec
  KeepsCatalogue
  EveryReadAnswered

SPECIFICATION Spec
CONSTANTS
  w1 = w1  w2 = w2
  Workers = {w1, w2}
  N = 3
  Files <- SomeFiles
  Foreign <- AllResults
INVARIANTS
  TypeOK
  OneWriter
  AlertsComeLast
  SeedWhole
PROPERTIES
  SeedsKeepLog
  SeedAnswered

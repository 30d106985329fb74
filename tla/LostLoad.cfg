SPECIFICATION DSpec
CONSTANTS
  f1 = f1  f2 = f2  k1 = k1  k2 = k2  o1 = o1  e1 = e1  w1 = w1
  P1_THRESHOLD_COUNT = 0
  P2_THRESHOLD_COUNT = 1
  P2_THRESHOLD_MONTO = 9
  P2_THRESHOLD_DAYS = 0
  P3_THRESHOLD_ORGS = 2
  Null = Null  Bogus = Bogus  Blank = Blank
  Strip <- MCStrip
  Fuentes = {f1, f2}
  Csv <- TinyMonths
  Workers = {w1}
  Limits = {0}
  Foreign = {}
  Unidentified = {}
PROPERTY
  LoadsPersist

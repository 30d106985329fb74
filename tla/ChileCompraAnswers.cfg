SPECIFICATION Spec
CONSTANTS
  f1 = f1  f2 = f2  f3 = f3
  k1 = k1  k2 = k2  k3 = k3  k4 = k4  k5 = k5
  o1 = o1  o2 = o2  o1tab = o1tab
  e1 = e1  e2 = e2  e3 = e3  blank = blank
  w1 = w1  w2 = w2
  P1_THRESHOLD_COUNT = 0
  P2_THRESHOLD_COUNT = 1
  P2_THRESHOLD_MONTO = 9
  P2_THRESHOLD_DAYS = 0
  P3_THRESHOLD_ORGS = 2
  Null = Null  Bogus = Bogus  Blank = blank
  Strip <- MCStrip
  Fuentes = {f1}
  Csv <- OneMonth
  Workers = {w1, w2}
  Limits = {0}
  Foreign <- OtherResults
  Unidentified = {}
PROPERTIES
  EveryRequestAnswered

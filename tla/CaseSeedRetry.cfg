SPECIFICATION Persistent
CONSTANTS
  w1 = w1  w2 = w2
  Workers = {w1}
  N = 2
  Files <- FlawlessFiles
  Foreign = {}
PROPERTIES
  SeedRecovers

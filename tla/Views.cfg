SPECIFICATION Spec
CONSTANTS
  n1 = n1  n2 = n2
  Nodes = {n1, n2}
  None = None
  MaxRequests = 3
  MaxHovers = 3
  Ticks <- MCTicks
INVARIANTS
  TypeOK
  OwnAnswer
  LoadingServed
  HoverShowsNumber
PROPERTIES
  PagesAnswer

SPECIFICATION FairSpec
CONSTANTS
  c1 = c1
  NumRegions = 2
  Clients = {c1}
  MaxGenerations = 2
  Delay = 2
  MaxStale = 1
  Overlap = 4
  LeafLife = 3
  LeafBefore = 1
  RootLife = 9
  RootBefore = 4
  Period = 1
INVARIANTS ClientsTrust NeverLapses
PROPERTIES RolloverCompletes
CHECK_DEADLOCK FALSE

SPECIFICATION Spec
CONSTANTS
  a = a  b = b  c = c  r1 = r1  r2 = r2  Nobody = Nobody
  Regions = {r1, r2}
  Monitors = {a, b}
  RegionOf <- Placed
  MaxLives = 2
  MaxMoves = 2
  MaxFaults = 1
  MaxOverruns = 1
INVARIANTS NothingLeftBehind AckedIsEmpty
PROPERTIES DeletionIsFinal ServingSurvives

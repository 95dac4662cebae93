SPECIFICATION FairSpec
CONSTANTS
  a = a  b = b  c = c  r1 = r1  r2 = r2  Nobody = Nobody
  Regions = {r1, r2}
  Monitors = {a, c}
  RegionOf <- Placed
  MaxLives = 1
  MaxMoves = 1
  MaxFaults = 0
  MaxOverruns = 0
PROPERTIES AlwaysPurged

SPECIFICATION FairSpec
CONSTANTS
  east = east  west = west  p = p  q = q
  Regions = {east, west}
  Order <- ByName
  Passes = {p, q}
  MinDial = 0
  MaxStep = 50
  FullHealth = 95
  Readings = {0, 95}
  Settings = {0}
  MaxFaults = 1
  MaxSets = 1
INVARIANTS AbsorberKept OverridesHold
PROPERTIES RegionReturns

SPECIFICATION Spec
CONSTANTS
  east = east  west = west  p = p  q = q
  Regions = {east, west}
  Order <- ByName
  Passes = {p}
  MinDial = 0
  MaxStep = 50
  FullHealth = 95
  Readings = {0, 95}
  Settings = {0}
  MaxFaults = 0
  MaxSets = 1
INVARIANT OverridesAlwaysWin

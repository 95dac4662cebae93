SPECIFICATION Spec
CONSTANTS
  a = a
  b = b
  Names = {a, b}
  Revised = {b}
  MaxRespawns = 1
  Caps = {2}
  Pool = 4
  MaxChildren = 2
  MaxConcurrent = 1
  MaxSessions = 3
  MaxTurns = 2
  MaxAborts = 0
  MaxFaults = 1
INVARIANT LiveIsDriven
CHECK_DEADLOCK FALSE

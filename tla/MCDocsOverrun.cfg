SPECIFICATION Spec
CONSTANTS
  j1 = j1  j2 = j2  p1 = p1  p2 = p2  NoReplica = NoReplica
  Replicas = {p1, p2}
  Jobs = {j1}
  Several = {}
  BatchSize = 2
  MaxTurns = 1
  MaxFaults = 0
  MaxOverruns = 1
INVARIANT OncePerTransition

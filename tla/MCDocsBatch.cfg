SPECIFICATION FairSpec
CONSTANTS
  j1 = j1  j2 = j2  p1 = p1  p2 = p2  NoReplica = NoReplica
  Replicas = {p1}
  Jobs = {j1, j2}
  Several = {}
  BatchSize = 1
  MaxTurns = 1
  MaxFaults = 0
  MaxOverruns = 0
PROPERTY CompletionAnnounced

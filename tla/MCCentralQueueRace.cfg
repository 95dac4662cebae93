SPECIFICATION Spec
CONSTANTS
  j1 = j1  j2 = j2  w1 = w1  w2 = w2  home = home
  NoWorker = NoWorker  NoJob = NoJob
  Jobs = {j1, j2}
  Workers = {w1, w2}
  Pollers = {}
  Regions = {home}
  TargetOf <- HomeJobs
  RegionOf <- HomeWorkers
  Rank <- RankOf
  Capped = {j2}
  Rejections <- RejectFirst
  BatchLimit = 1
  FetchLimit = 2
  RecordLimit = 1
  MaxFaults = 2
  MaxDeletes = 1
SYMMETRY Symmetry
INVARIANTS ClaimComplete ClaimFence SingleWorkload SucceededIsReal FailedIsReal NotCreatedProof
PROPERTIES ImplementsLifecycle OnlyOwnerMoves LegalMoves

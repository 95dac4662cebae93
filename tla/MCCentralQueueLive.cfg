SPECIFICATION FairSpec
CONSTANTS
  j1 = j1  j2 = j2  w1 = w1  w2 = w2  home = home
  NoWorker = NoWorker  NoJob = NoJob
  Jobs = {j1, j2}
  Workers = {w1, w2}
  Pollers = {w2}
  Regions = {home}
  TargetOf <- HomeJobs
  RegionOf <- HomeWorkers
  Rank <- RankOf
  Capped = {j1}
  Rejections <- AcceptAll
  BatchLimit = 1
  FetchLimit = 2
  RecordLimit = 1
  MaxFaults = 1
  MaxDeletes = 0
PROPERTIES EveryJobEnds CompletionRecorded

SPECIFICATION FairSpec
CONSTANTS
  s1 = s1
  v1 = v1
  Signers = {s1}
  Validators = {v1}
  MaxKeys = 3
  TTL = 1
  MaxStale = 2
  MaxFaults = 1
INVARIANTS DisplacedEnds OverlapCovers
PROPERTIES RotationEnds

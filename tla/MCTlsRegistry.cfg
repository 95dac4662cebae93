SPECIFICATION FairRegistrySpec
CONSTANTS
  r1 = r1  r2 = r2  NoRegion = NoRegion
  Regions = {r1, r2}
  MaxCerts = 7
  Configurations <- Sets
  MaxDeployments = 3
  MaxFaults = 3
INVARIANTS ServedIsRegistered OneCertificate NothingLeft
PROPERTIES RegionsSettle
CHECK_DEADLOCK FALSE

CONSTANTS
  Lists <- Clusters
  Installed <- Charts
  IgnoredNS = {3}
  Reads = {"workloads", "jobs", "flux"}
  KindOf <- Kinds
  Objects = 6
  PageLimit = 2
  MaxPages = 2
  Changes = 2
SPECIFICATION FairReads
INVARIANTS KeptIsHonest RowsAddUp FluxIsNotListed NothingSilentlyMissing NoTruncatedAnswer
PROPERTIES EveryReadEnds
CHECK_DEADLOCK FALSE

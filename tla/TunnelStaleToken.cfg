\* The object is deleted and created again before its old Secret has been collected;
\* nothing fails.
SPECIFICATION FairSpec
CONSTANTS
  t1 = t1
  t2 = t2
  h1 = h1
  TunnelIDs = {t1, t2}
  NoID = NoID
  Hosts = {}
  Optional = {}
  UniqueNames = TRUE
  ReportsNotFound = FALSE
  Refuses = {"empty"}
  Faults = {}
  MaxFaults = 0
  MaxCreations = 2
  MaxLag = 1
PROPERTY DeploymentRuns
CHECK_DEADLOCK FALSE

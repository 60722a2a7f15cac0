\* A user deletes the object while its tunnel is being created; nothing fails.
SPECIFICATION FairSpec
CONSTANTS
  t1 = t1
  t2 = t2
  h1 = h1
  TunnelIDs = {t1}
  NoID = NoID
  Hosts = {}
  Optional = {}
  UniqueNames = TRUE
  ReportsNotFound = FALSE
  Refuses = {"empty"}
  Faults = {}
  MaxFaults = 0
  MaxCreations = 1
  MaxLag = 2
PROPERTY DeletionRemovesTunnel
CHECK_DEADLOCK FALSE

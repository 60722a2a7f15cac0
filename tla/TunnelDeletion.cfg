\* One object with a DNS record and an optional child, to be served and deleted, while
\* requests fail or lose their reply, children are deleted and the record comes and goes.
SPECIFICATION FairSpec
CONSTANTS
  t1 = t1
  t2 = t2
  h1 = h1
  TunnelIDs = {t1}
  NoID = NoID
  Hosts = {h1}
  Optional = {"PDB"}
  UniqueNames = TRUE
  ReportsNotFound = FALSE
  Refuses = {"empty"}
  Faults = {"error", "lost", "restart", "edit", "withdraw", "kid"}
  MaxFaults = 1
  MaxCreations = 1
  MaxLag = 2
PROPERTIES LiveIsServed DeletionCompletes
CHECK_DEADLOCK FALSE

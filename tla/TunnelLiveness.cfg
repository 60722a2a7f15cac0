\* An object, deleted and created again, to be served, while
\* requests fail or lose their reply, children are deleted and pods die.
SPECIFICATION FairSpec
CONSTANTS
  t1 = t1
  t2 = t2
  h1 = h1
  TunnelIDs = {t1, t2}
  NoID = NoID
  Hosts = {}
  Optional = {}
  UniqueNames = TRUE
  ReportsNotFound = FALSE
  Refuses = {"empty"}
  Faults = {"error", "lost", "restart", "edit", "kid", "pod"}
  MaxFaults = 1
  MaxCreations = 2
  MaxLag = 1
INVARIANTS SettledIsConverged
PROPERTIES LiveIsServed
CHECK_DEADLOCK FALSE

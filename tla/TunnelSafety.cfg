\* The object deleted and created again, under crashes, lost replies, conflicts
\* and tunnels deleted at the dashboard.
SPECIFICATION Spec
CONSTANTS
  t1 = t1
  t2 = t2
  h1 = h1
  TunnelIDs = {t1, t2}
  NoID = NoID
  Hosts = {}
  Optional = {}
  UniqueNames = FALSE
  ReportsNotFound = TRUE
  Refuses = {}
  Faults = {"error", "lost", "restart", "edit", "tunnel"}
  MaxFaults = 1
  MaxCreations = 2
  MaxLag = 2
SYMMETRY Symmetry
INVARIANTS TypeOK Invariant NoRecordedLeak SettledIsConverged QuietInvariant
PROPERTIES DeletesOnlyItsOwn ImplementsLifecycle
CHECK_DEADLOCK FALSE

\* Two tunnels, one of them with changing children, under edits, conflicts, crashes,
\* failed requests and people who change the children.
SPECIFICATION FairSpec
CONSTANTS
  n1 = n1
  n2 = n2
  Names = {n1, n2}
  Specs <- TwoTunnels
  NoList = NoList
  NoPDB = NoPDB
  Absent = Absent
  Monitor = Monitor
  Faults = {"error", "lost", "restart", "edit", "drift"}
  MaxFaults = 1
  MaxLag = 2
INVARIANTS TypeOK SettledIsApplied UsersSpecIsKept Invariant
PROPERTIES WarnsOfSecondDefault ChildrenFollow
CHECK_DEADLOCK FALSE

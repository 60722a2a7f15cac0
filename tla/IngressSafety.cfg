\* Two Ingresses and the tunnel they name, under conflicts, crashes, failed requests,
\* late edits and the deletion of the tunnel, by its object or at the dashboard.
SPECIFICATION Spec
CONSTANTS
  i1 = i1
  i2 = i2
  c1 = c1
  c2 = c2
  h1 = h1
  h2 = h2
  Ingresses = {i1, i2}
  CFTunnels = {c1}
  DefaultTunnels = {}
  TunnelIDs = {t1}
  NoID = NoID
  Foreign = Foreign
  Hosts = {h1, h2}
  IPs = {a1}
  NoIP = NoIP
  Specs <- OwnHosts
  Faults = {"error", "lost", "restart", "edit", "lateEdit", "retire", "tunnel"}
  MaxFaults = 1
  MaxIngress = 1
  MaxCF = 1
INVARIANTS TypeOK SettledIsRouted EntriesGoWithIngress Invariant
PROPERTIES TouchesOnlyItsHosts
CHECK_DEADLOCK FALSE

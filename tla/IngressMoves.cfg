\* One Ingress that is moved between the default tunnel and another one, while either
\* is deleted, by its object or at the dashboard, where somebody else may have made the
\* records, and requests fail or lose their reply.
SPECIFICATION Spec
CONSTANTS
  i1 = i1
  i2 = i2
  c1 = c1
  c2 = c2
  h1 = h1
  h2 = h2
  Ingresses = {i1}
  CFTunnels = {c1, c2}
  DefaultTunnels = {c1}
  TunnelIDs = {t1, t2}
  NoID = NoID
  Foreign = Foreign
  Hosts = {h1, h2}
  IPs = {a1}
  NoIP = NoIP
  Specs <- Moves
  Faults = {"error", "lost", "restart", "edit", "retire", "tunnel", "foreign"}
  MaxFaults = 2
  MaxIngress = 1
  MaxCF = 1
INVARIANTS MovedIsRouted RecordsHaveRules Invariant
CHECK_DEADLOCK FALSE

\* One Ingress, created twice and moved between the default tunnel and its name; the
\* tunnel is deleted, by its object or at the dashboard, or never recorded, requests fail
\* or lose their reply, and the Ingress is edited while it is being deleted.
SPECIFICATION FairSpec
CONSTANTS
  i1 = i1
  i2 = i2
  c1 = c1
  c2 = c2
  h1 = h1
  h2 = h2
  Ingresses = {i1}
  CFTunnels = {c1}
  DefaultTunnels = {c1}
  TunnelIDs = {t1}
  NoID = NoID
  Foreign = Foreign
  Hosts = {h1, h2}
  IPs = {a1}
  NoIP = NoIP
  Specs <- TwoHosts
  Faults = {"error", "lost", "restart", "edit", "lateEdit", "retire", "tunnel"}
  MaxFaults = 2
  MaxIngress = 2
  MaxCF = 1
PROPERTIES LiveIsRouted CleanupCompletes
CHECK_DEADLOCK FALSE

\* The tunnel is deleted while the record of an Ingress is being written.
SPECIFICATION Spec
CONSTANTS
  i1 = i1
  i2 = i2
  c1 = c1
  c2 = c2
  h1 = h1
  h2 = h2
  Ingresses = {i1}
  CFTunnels = {c1}
  DefaultTunnels = {c1}
  TunnelIDs = {t1}
  NoID = NoID
  Foreign = Foreign
  Hosts = {h1}
  IPs = {a1}
  NoIP = NoIP
  Specs <- ByDefault
  Faults = {"retire"}
  MaxFaults = 1
  MaxIngress = 1
  MaxCF = 1
INVARIANT RecordsGoWithTunnel
CHECK_DEADLOCK FALSE

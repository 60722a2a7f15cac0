\* The tunnel an Ingress names is deleted before the Ingress.
SPECIFICATION FairSpec
CONSTANTS
  i1 = i1
  i2 = i2
  c1 = c1
  c2 = c2
  h1 = h1
  h2 = h2
  Ingresses = {i1}
  CFTunnels = {c1}
  DefaultTunnels = {c1}
  TunnelIDs = {t1}
  NoID = NoID
  Foreign = Foreign
  Hosts = {h1}
  IPs = {a1}
  NoIP = NoIP
  Specs <- ByName
  Faults = {"retire"}
  MaxFaults = 1
  MaxIngress = 1
  MaxCF = 1
PROPERTY DeletedIngressGoes
CHECK_DEADLOCK FALSE

\* The rule list of one tunnel under all orders of publishing, withdrawing, editing at
\* the dashboard and changing the settings.
SPECIFICATION Spec
CONSTANTS
  star = star
  app = app
  web = web
  c404 = c404
  c503 = c503
  o1 = o1
  o2 = o2
  Hosts = {star, app, web}
  NoHost = NoHost
  Rank <- ByName
  Covers <- OneWildcard
  AnyPath = AnyPath
  Paths = {p1}
  IPs = {a1, a2}
  Specs <- FourSpecs
  Settings <- TwoSettings
  Manual = {m1}
  NoOrigin = NoOrigin
  ManualOrigin = ManualOrigin
  NoRule = NoRule
  MaxRules = 4
INVARIANTS TypeOK
PROPERTIES WritesValidList PublishedHostIsReached OthersKeepTheirRule ImplementsTable
CHECK_DEADLOCK FALSE

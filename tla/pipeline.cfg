SPECIFICATION Spec
CONSTANTS
  Worker = {w1, w2}
  foo = foo
  bar = bar
  azuredns = azuredns
  cloudflare = cloudflare
  Base <- MCBase
  Ingress = {i1}
  IngressSpec <- TwoSpecs
  Absent = Absent
  AcmeZone <- AllHosts
  Provider = {cloudflare}
  NoProvider = NoProvider
  dns_providers <- Cloudflare
  Managed <- AllManageAll
  Replacing = {cloudflare}
  SeedAnnotated = {TRUE}
  Faults = {"post", "dns"}
  MaxChanges = 1
  MaxCrashes = 1
INVARIANTS TypeOK StoreOwnsAccounts EventsHaveRegistrations LoggedTargetBound SecretTruth CnameTruth
PROPERTY OrphansStayHidden
SYMMETRY WorkerSymmetry
CHECK_DEADLOCK FALSE

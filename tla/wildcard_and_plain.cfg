SPECIFICATION Spec
CONSTANTS
  Worker = {w1}
  foo = foo
  bar = bar
  azuredns = azuredns
  cloudflare = cloudflare
  Base <- MCBase
  Ingress = {i1}
  IngressSpec <- PairSpecs
  Absent = Absent
  AcmeZone <- AllHosts
  Provider = {cloudflare}
  NoProvider = NoProvider
  dns_providers <- Cloudflare
  Managed <- AllManageAll
  Replacing = {cloudflare}
  SeedAnnotated = {TRUE}
  Faults = {}
  MaxChanges = 2
  MaxCrashes = 0
INVARIANTS WildcardsWork
CHECK_DEADLOCK FALSE

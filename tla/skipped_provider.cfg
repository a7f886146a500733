SPECIFICATION Spec
CONSTANTS
  Worker = {w1}
  foo = foo
  bar = bar
  azuredns = azuredns
  cloudflare = cloudflare
  Base <- MCBase
  Ingress = {i1}
  IngressSpec <- TwoSpecs
  Absent = Absent
  AcmeZone <- AllHosts
  Provider = {azuredns, cloudflare}
  NoProvider = NoProvider
  dns_providers <- AzureThenCloudflare
  Managed <- OnlyCloudflareManages
  Replacing = {cloudflare}
  SeedAnnotated = {TRUE}
  Faults = {}
  MaxChanges = 0
  MaxCrashes = 0
INVARIANTS ManagedNamesHaveRecords
CHECK_DEADLOCK FALSE

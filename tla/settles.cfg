SPECIFICATION FairSpec
CONSTANTS
  Worker = {w1}
  foo = foo
  bar = bar
  azuredns = azuredns
  cloudflare = cloudflare
  Base <- MCBase
  Ingress = {i1}
  IngressSpec <- PairSpecs
  Absent = Absent
  AcmeZone <- NotBar
  Provider = {azuredns, cloudflare}
  NoProvider = NoProvider
  dns_providers <- AzureThenCloudflare
  Managed <- OnlyAzureManagesBar
  Replacing = {cloudflare}
  SeedAnnotated = {TRUE, FALSE}
  Faults = {"post", "secret", "dns"}
  MaxChanges = 2
  MaxCrashes = 1
PROPERTIES Settles WorkIsFinite PublishedStays ImplementsPromise
CHECK_DEADLOCK FALSE

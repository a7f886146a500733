SPECIFICATION FairSpec
CONSTANTS
  Worker = {w1}
  foo = foo
  bar = bar
  azuredns = azuredns
  cloudflare = cloudflare
  Base <- MCBase
  Ingress = {i1}
  IngressSpec <- PlainBareSpecs
  Absent = Absent
  AcmeZone <- AllHosts
  Provider = {azuredns, cloudflare}
  NoProvider = NoProvider
  dns_providers <- AzureThenCloudflare
  Managed <- OnlyAzureManagesBars
  Replacing = {cloudflare}
  SeedAnnotated = {TRUE}
  Faults = {}
  MaxChanges = 2
  MaxCrashes = 1
INVARIANTS IdleAgreement IdleMeansPublished ReportedCname AccountsPerLife
PROPERTIES CnameAfterSecret Provisioned
CHECK_DEADLOCK FALSE

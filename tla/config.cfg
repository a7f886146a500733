SPECIFICATION Spec
CONSTANTS
  net = net
  org = org
  www = www
  api = api
  top = top
  nested = nested
  home = home
  zone_id = zone_id
  api_token = api_token
  Zone = {net, org}
  Prop = {zone_id, api_token}
  overridable <- MCOverridable
  Host = {www, api, top, nested, home}
  Missing = Missing
  labels <- MCLabels
  zone_labels <- MCZoneLabels
  ConfigZones <- LabelledZones
  SecretsZones <- MCSecretsZones
  Refusals <- OneRefusal
INVARIANTS EffectiveValues FailsExactlyIfUnusable ZonesHaveClients RecordNamesHost
CHECK_DEADLOCK FALSE

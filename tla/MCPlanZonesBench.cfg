CONSTANTS
  Creates = {"this", "other"}
  ThisCreate = "this"
  VMs <- FiveVMs
  ZoneOf <- MCZoneOf
  Foreign = {"x"}
  MinVMs = 2
  MinPercent = 60
  CacheTTL = 1
  QueryTimeout = 1
  Zones <- TwoZones
  Families <- NoFamilies
SPECIFICATION Spec
CHECK_DEADLOCK FALSE
INVARIANTS
  SpotExhaustedFirst

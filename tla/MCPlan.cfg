CONSTANTS
  Creates = {"this", "other"}
  ThisCreate = "this"
  VMs <- SevenVMs
  ZoneOf <- MCZoneOf
  Foreign = {"x"}
  MinVMs = 2
  MinPercent = 60
  CacheTTL = 2
  QueryTimeout = 1
  Zones <- ThreeZones
  Families <- RepeatedFamilies
SPECIFICATION SteadySpec
CHECK_DEADLOCK FALSE
INVARIANTS
  PlanTypeOK
  BenchNeedsStuckVMs
  SpotExhaustedFirst
  HealthyZonesFirst
  NoAttemptRepeated
PROPERTIES
  QueriesApart
  AnswerIsRecent

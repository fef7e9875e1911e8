CONSTANTS
  kept = kept  stray = stray  plain = plain
  zoneA = zoneA  zoneB = zoneB
  refused = refused  ready = ready  skip1 = skip1  skip2 = skip2
  NoVM = NoVM
  VMs = {kept, stray, plain}
  Zones <- TwoZones
  ZoneOf <- ZoneOfVM
  Undeletable = {kept}
  Unknown = {stray}
  Jobs = {refused, ready, skip1, skip2}
  Refused = {refused}
  Skipped = {skip1, skip2}
  MaxSweepDeletes = 1
  RunnerPageSize = 1
  MaxRunnerPages = 2
  JobPageSize = 1
  Soon = 1
  Long = 2
  MaxFaults = 2
SPECIFICATION Spec
INVARIANTS
  MaintenanceTypeOK
PROPERTIES
  NothingDropped
  NothingPassed
  StoppedReclaimed
  RowsReleased
  JobsWalked

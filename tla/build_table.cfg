SPECIFICATION TablesSpec
CONSTANTS
  Configs <- MCConfigs
  Previous <- MCPrevious
  OldTuning <- MCOldTuning
  MaxSecs = 3
  Unset = Unset
  Names = {"a", "b"}
  Tables <- MCTables
  Moods <- MCMoods
  Calling = {c}
  Tripping = 2
  Interval = 1
  ProbeTimeout = 2
  MaxReloads = 2
INVARIANTS
  AcceptsExactlyTheSound
  RejectionHasNoEffect
  BreakersAreShared
PROPERTIES
  VerdictFollows
  MetricsTellTheTruth
CHECK_DEADLOCK FALSE

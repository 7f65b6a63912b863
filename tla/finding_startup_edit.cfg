SPECIFICATION ReloadSpec
CONSTANTS
  Contents <- MCContents
  Versions = {1, 2}
  Setups <- OneNewConfig
  Holders = {}
  MaxQueue = 1
  MaxPolls = 1
  None = None
INVARIANTS
  EditsAreCaught
CHECK_DEADLOCK FALSE

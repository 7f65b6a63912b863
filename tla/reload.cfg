SPECIFICATION FairReloadSpec
CONSTANTS
  Contents <- MCContents
  Versions = {1, 2}
  Setups <- MCSetups
  Holders = {h1}
  MaxQueue = 1
  MaxPolls = 1
  None = None
INVARIANTS
  ResultsReachTheLiveBreaker
  LiveBreakersAreTuned
PROPERTIES
  ConfigIsServed
  CertificateIsServed
  SighupServesTheFiles
CHECK_DEADLOCK FALSE

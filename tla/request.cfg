SPECIFICATION FairRequestSpec
CONSTANTS
  UpstreamTimeout = 2
  IdleTimeout = 4
  TotalTimeout = 5
  ThetaCap = 2
  MaxFrames = 2
  Buffer = 1
  Off = Off
INVARIANTS
  TimeoutIsTheUpstreamsUnlessRaced
  StalledClientIsNoEvidence
  IdleTimeoutIsTheClients
  EveryTicketIsSettled
PROPERTIES
  EveryRequestEnds
CHECK_DEADLOCK FALSE

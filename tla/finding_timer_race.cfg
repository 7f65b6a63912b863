SPECIFICATION RequestSpec
CONSTANTS
  UpstreamTimeout = 2
  IdleTimeout = 4
  TotalTimeout = 5
  ThetaCap = 2
  MaxFrames = 2
  Buffer = 1
  Off = Off
INVARIANTS
  TimeoutIsTheUpstreams
CHECK_DEADLOCK FALSE

SPECIFICATION HostsSpec
CONSTANTS
  Conns = {c1, c2, c3}
  Tls = TRUE
  Bounds <- MCBounds
  Margin = 2
  MaxFails = 1
  Clients = {k1, k2}
  Callers = {r1, r2}
  Checkers = {h}
  Configs <- TwoTuning
  Cap = 3
  Never = Never
INVARIANTS
  ClosedBelowThreshold
  ServeTypeOK
  ReadyzMeansAccepting
  OnlyShutdownCuts
  ShutdownIsOrderly
PROPERTIES
  CircuitIsNeverStuck
  HealthyUpstreamIsRestored
  SignalEndsTheProcess
  ShutdownStopsEverything
CHECK_DEADLOCK FALSE

SPECIFICATION FairSpec
CONSTANTS
  Callers = {c1}
  Checkers = {h}
  Reloaders = {r}
  Configs <- Eager
  Gauges = TRUE
  MaxTime = 1
  Never = Never
PROPERTIES
  GaugesConverge
  HealthChecksCloseTheCircuit

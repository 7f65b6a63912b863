SPECIFICATION SequentialSpec
CONSTANTS
  Callers = {c1, c2}
  Checkers = {h}
  Reloaders = {r}
  Configs <- TwoTuning
  Gauges = TRUE
  MaxTime = 5
  Never = Never
  Cap = 3
PROPERTIES
  ImplementsCircuit

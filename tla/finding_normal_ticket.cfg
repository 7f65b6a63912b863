SPECIFICATION TimelySpec
CONSTANTS
  Callers = {c1, c2}
  Checkers = {}
  Reloaders = {}
  Configs <- TwoMillis
  Gauges = FALSE
  MaxTime = 4
  Never = Never
  MaxStall = 0
PROPERTIES
  NormalTicketMeansClosed
SYMMETRY Symmetry

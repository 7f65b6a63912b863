SPECIFICATION ServeSpec
CONSTANTS
  Conns = {c1}
  Tls = FALSE
INVARIANTS
  ReadyMeansBound
CHECK_DEADLOCK FALSE

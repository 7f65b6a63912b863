SPECIFICATION TimelySpec
CONSTANTS
  Callers = {c1, c2}
  Checkers = {}
  Reloaders = {}
  Configs <- ThreeMillis
  Gauges = FALSE
  MaxTime = 6
  Never = Never
  MaxStall = 2
INVARIANTS
  NoStampAheadOfClock
PROPERTIES
  OnlyProbesMoveAnOpenCircuit
  SlotsAreACooldownApart
  RearmsAreACooldownApart
  ProbesAreACooldownApart
SYMMETRY Symmetry

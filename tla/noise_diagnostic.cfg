SPECIFICATION NoiseSpec
CONSTANTS
  Clients = {c1, c2}
  System = sys
  Monitor = mon
  MaxSessions = 2
  Demand = 1
  Safe = 2
  Sweep = {3}
  Customs = {4}
  Gears = {5}
  FallbackAfter = 2
  DiagnosticMixes <- NoiseMixes
PROPERTY SessionsStand ControlComesBack
CHECK_DEADLOCK FALSE

CONSTANTS
  r1 = r1  h1 = h1  h2 = h2
  None = None
  Handshake = Handshake
  Requests = {r1}
  Hellos = {h1, h2}
  Reverse = {}
  MaxSockets = 3
  BaseDelay = 1
  MaxDelay = 4
  LimitDelay = 3
  MaxStreak = 1
  MaxMalformed = 1
  MaxProbes = 1
  HealthThreshold = 0
  ParamsMayFail = TRUE
CHECK_DEADLOCK FALSE
SPECIFICATION Spec
SYMMETRY Symmetry
INVARIANTS
  IdentityIsCurrent
PROPERTIES
  IdentityRetiredFirst
  ImplementsChannel

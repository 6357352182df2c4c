CONSTANTS
  r1 = r1  h1 = h1  q1 = q1
  None = None
  Handshake = Handshake
  Requests = {r1}
  Hellos = {h1}
  Reverse = {q1}
  MaxSockets = 3
  BaseDelay = 1
  MaxDelay = 4
  LimitDelay = 3
  MaxStreak = 1
  MaxMalformed = 1
  MaxProbes = 1
  HealthThreshold = 0
  ParamsMayFail = TRUE
CHECK_DEADLOCK FALSE
SPECIFICATION FairSpec
PROPERTIES
  RequestsSettle
  ConnectingEnds

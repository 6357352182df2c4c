CONSTANTS
  r1 = r1  r2 = r2  h1 = h1
  None = None
  Handshake = Handshake
  Requests = {r1, r2}
  Hellos = {h1}
  Reverse = {}
  MaxSockets = 3
  BaseDelay = 1
  MaxDelay = 4
  LimitDelay = 3
  MaxStreak = 1
  MaxMalformed = 1
  MaxProbes = 2
  HealthThreshold = 2
  ParamsMayFail = FALSE
SPECIFICATION Spec
SYMMETRY Symmetry
CHECK_DEADLOCK FALSE
INVARIANTS
  TypeOK
  PendingOnCurrentSocket
  NoStrandedWaiter
  NoOrphanSocket
  AnsweredBeforeConnected
  FirstFrameIsHello
  SubscriptionRestored
  StartupIsAttended
PROPERTIES
  RetryCooldownIsSlow
  StaleProbesAreIgnored

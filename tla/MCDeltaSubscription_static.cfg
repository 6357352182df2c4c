SPECIFICATION ViewedSpec
CONSTANTS
  Channels = {c1}
  Rows = {r1, r2}
  Dynamic = FALSE
  PageSize = 1
  MaxBuffered = 9
  MaxAttempts = 3
  MaxChanges = 3
  MaxFaults = 1
SYMMETRY RowSymmetry
INVARIANT TypeOK
INVARIANT UnseededIsAttended
PROPERTY ImplementsView
PROPERTY NeverFlashedAway
CHECK_DEADLOCK FALSE

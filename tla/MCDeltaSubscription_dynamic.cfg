SPECIFICATION Spec
CONSTANTS
  Channels = {c1, c2}
  Rows = {r1}
  Dynamic = TRUE
  PageSize = 0
  MaxBuffered = 9
  MaxAttempts = 2
  MaxChanges = 3
  MaxFaults = 1
SYMMETRY RowSymmetry
INVARIANT Converged
INVARIANT NoLeakedSubscription
CHECK_DEADLOCK FALSE

SPECIFICATION Spec
CONSTANTS
  Channels = {c1, c2}
  Rows = {r1}
  Dynamic = TRUE
  PageSize = 1
  MaxBuffered = 1
  MaxAttempts = 4
  MaxChanges = 2
  MaxFaults = 1
SYMMETRY RowSymmetry
INVARIANT UnseededIsAttended
CHECK_DEADLOCK FALSE

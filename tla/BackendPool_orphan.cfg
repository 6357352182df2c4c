SPECIFICATION PoolSpec
CONSTANTS
  g1 = g1
  Owners = {}
  Guests = {g1}
  Direct = {}
  None = None
  MaxCreds = 2
  MaxOps = 2
CHECK_DEADLOCK FALSE
INVARIANT NoOrphanWindows

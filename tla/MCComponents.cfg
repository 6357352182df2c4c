SPECIFICATION ComponentsSpec
CONSTANTS
  o1 = o1  g1 = g1
  Owners = {o1}
  Guests = {g1}
  Direct = {o1}
  None = None
  MaxCreds = 3
  MaxOps = 3
  c1 = c1  c2 = c2  w1 = w1  x1 = x1
  Clients = {c1, c2}
  Works = {w1}
  Calls = {x1}
  Execs = {w1}
  Pool = Pool
  NoClient = NoClient
  a = a  b = b  c = c  d = d
  Reads = {a, b, c, d}
  Limit = 2
  v = v  w = w  notes = notes  files = files  changes = changes
  Workspaces = {v, w}
  Pathless = {v}
  Branches = {notes, files, changes}
  Always = {notes}
  Worktree = {files}
  MaxGen = 3
CHECK_DEADLOCK FALSE
INVARIANT ComponentsTypeOK
INVARIANT ClientOfThisGeneration
INVARIANT PooledAsStored
INVARIANT WindowsAreServed
INVARIANT SealedIsSilent
INVARIANT BarrierHolds
INVARIANT SlotsAreExact
INVARIANT BoundedOvertaking
INVARIANT EachBranchOnce
PROPERTY LaneDrains
PROPERTY SealedTogether
PROPERTY RetirementsSettle
PROPERTY HydrationCompletes

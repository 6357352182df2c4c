SPECIFICATION RetFairSpec
CONSTANTS
  c1 = c1  x1 = x1
  Clients = {c1}
  Works = {}
  Calls = {x1}
  Execs = {}
  Pool = Pool
  NoClient = NoClient
CHECK_DEADLOCK FALSE
PROPERTY RetirementSettles

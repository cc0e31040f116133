CONSTANTS
  s1 = s1
  s2 = s2
  n1 = n1
  n2 = n2
  b1 = b1
  b2 = b2
  c1 = c1
  c2 = c2
  None = None
  Sessions = {s1, s2}
  Chains = {n1, n2}
  Bundles = {b1, b2}
  Calls = {c1, c2}
  MaxSessions = 1
  MaxReloads = 1
  MaxTaken = 1
SPECIFICATION Spec
PROPERTIES EndedIsNotStored
CHECK_DEADLOCK FALSE

CONSTANTS
  c1 = c1
  c2 = c2
  k1 = k1
  k2 = k2
  t1 = t1
  t2 = t2
  s1 = s1
  None = None
  Callers = {c1, c2}
  Tabs = {t1, t2}
  Keys = {k1, k2}
  Salts = {s1}
  Unlockers = {c1, c2}
  Deposits = {3}
  UnitCounts = {1, 2}
  U64Max = 3
  MaxTime = 1
  TabOf <- MCTabOf
  Policies <- MCPolicies
SYMMETRY Symmetry
SPECIFICATION Spec
INVARIANTS TypeOK NoDoubleSpend DeliveredIsPersisted
PROPERTIES RecordsOnlyAdvance ImplementsBudget

CONSTANTS
  c1 = c1
  c2 = c2
  c3 = c3
  k1 = k1
  o1 = o1
  o2 = o2
  s1 = s1
  s2 = s2
  t1 = t1
  t2 = t2
  None = None
  Callers = {c1, c2, c3}
  Keys = {k1}
  Scope <- MCScope
  Values = {1}
  PeriodLength = 1
  MaxTime = 2
  Scopes <- MCScopes
  MaxRuns = 2
  MaxScopeClock = 1
  Authorized <- MCAuthorized
  MaxPayments = 3
  SolSessionKeyIds = {s1, s2}
  SolTabs = {o1, o2}
  SolBudget = 3
  SolMaxPerPayment = 2
  SolMaxCount = 2
  SolPeriod = 2
  SolExpiry = 2
  MaxSolClock = 2
  Ops = {s1, s2}
  AaVersions = {"0.6", "0.7"}
  MaxGas = 1
  PolicyGas = 3
  MaxPolls = 2
  MaxSponsored = 1
  Targets = {t1, t2}
  Lengths = {0, 1, 32, 33}
  MaxBatchCalls = 3
SYMMETRY Symmetry
SPECIFICATION SuiteSpec
INVARIANTS SuiteTypeOK BudgetKept UsableIsAccounted ScopesEnforced PreviewsAgree OperationsKept BatchDecodes
PROPERTIES RevocationHolds

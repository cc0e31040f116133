CONSTANTS
  c1 = c1
  c2 = c2
  k1 = k1
  t1 = t1
  t2 = t2
  s1 = s1
  x1 = x1
  x2 = x2
  o1 = o1
  o2 = o2
  p1 = p1
  p2 = p2
  e1 = e1
  e2 = e2
  e3 = e3
  chain = chain
  None = None
  Callers = {c1, c2}
  Tabs = {t1, t2}
  Keys = {k1}
  Salts = {s1}
  Unlockers = {c1, c2}
  Deposits = {3}
  UnitCounts = {1}
  U64Max = 3
  MaxTime = 0
  TabOf <- MCTabOf
  Policies <- MCPolicies
  Fetches = {c1, c2}
  Closers = {x1}
  Forcers = {}
  Channels = {o1, o2}
  MaxCumulative = 1
  MaxDelta = 1
  MaxMeter = 1
  Passed = {0, 1}
  FreeResource = FALSE
  FailedWritesLand = TRUE
  Mempool = Mempool
  Gone = Gone
  NoReceipt = NoReceipt
  Foreign = Foreign
  Chains = {chain}
  ChainOf <- MCChainOf
  Txs = {t1}
  Watchers = {x1}
  Polls = {p1, p2}
  Entries = {e1, e2, e3}
  History = {None, "mined"}
  MaxBlock = 2
  MaxReorgs = 1
  Stops = FALSE
  Cleans = FALSE
SPECIFICATION SuiteSpec
PROPERTY ConfirmedNeverFails

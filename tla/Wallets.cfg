CONSTANTS
  s1 = s1
  s2 = s2
  b1 = b1
  b2 = b2
  c1 = c1
  c2 = c2
  e1 = e1
  e2 = e2
  sol = sol
  a1 = a1
  a2 = a2
  w1 = w1
  w2 = w2
  r1 = r1
  d1 = d1
  None = None
  Proposals = {s1, s2}
  WcCompleters = {c1, c2}
  EvmChains = {e1, e2}
  SolanaChains = {sol}
  WcAddresses = {a1, a2}
  WcCalls = {d1}
  MaxBatch = 2
  MaxEvents = 2
  FirstChains <- MCFirstChains
  FirstAccounts <- MCFirstAccounts
  InjWallets = {w1}
  RdnsNames = {r1}
  InjChains = {e1, e2}
  ListedChains = {e2}
  InjAddresses = {a1, a2}
  InjSessions = {s1, s2}
  InjCalls = {c1, c2}
  InjBatch = 1
  MaxWalletSteps = 2
  Rdns <- MCRdns
  FirstWallet <- MCFirstWallet
  CbChains = {e1, e2}
  CbAddresses = {a1, a2}
  CbSessions = {d1}
  CbCalls = {c1, c2}
  CbBatch = 2
  MaxCbSteps = 2
  FirstCoinbase <- MCFirstCoinbase
  EmbSessions = {d1}
  EmbCalls = {c1, c2}
  EmbChains = {e1, e2}
  EmbPhrases = {b1, b2}
  MaxWallets = 2
  SiwxCalls = {c1, c2}
  Verifiers = {s1, s2}
  MaxSigned = 2
  MaxGeneration = 2
  SolWallets = {w1, w2}
  SolDetachable = {w2}
  SolKeys = {a1, a2}
  SolChains = {e1}
  SolSessions = {s1, s2}
  SolCalls = {c1, c2}
  MaxSolObjects = 2
  MaxSolSteps = 1
  XrplSessions = {d1}
  XrplCalls = {c1, c2}
  XrplAccounts = {b1, b2}
  Payees = {w1}
  XrplTags = {0, 7}
  XrplDocs = {d1}
SYMMETRY Symmetry
VIEW View
SPECIFICATION SuiteSpec
INVARIANTS TypeOK DeclinedIsTornDown BatchesAskedOnce SignersApproved MovedSessionStopsBatch SignedInOnce AccountsFollowWallets
CHECK_DEADLOCK FALSE

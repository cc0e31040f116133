CONSTANTS
  c1 = c1
  c2 = c2
  x1 = x1
  x2 = x2
  o1 = o1
  o2 = o2
  e1 = e1
  payer = payer
  payee = payee
  sponsor = sponsor
  None = None
  Fetches = {c1, c2}
  Closers = {x1}
  Forcers = {x2}
  Channels = {o1, o2}
  MaxCumulative = 1
  MaxDelta = 1
  MaxMeter = 2
  Passed = {0, 1}
  FreeResource = TRUE
  FailedWritesLand = FALSE
  PayFetches = {x1}
  PayRequests = {c1, c2}
  SettleTtl = 2
  AuthLife = 3
  BlockhashLife = 1
  MaxPayClock = 3
  Challenges <- MCChallenges
  EvmCharges = {e1}
  SolanaCharges = {o1, o2}
  SharedExternalId = {o1, o2}
  ChargeRequests = {c1, c2}
  ChargeLife = 2
  MessageLife = 1
  Retention = 1
  MaxChargeClock = 2
  Payer = payer
  Recipient = payee
  Sponsor = sponsor
  Amount = 2
SYMMETRY Symmetry
SPECIFICATION SuiteSpec
INVARIANTS TypeOK UnitsConserved EscrowsListed PaidOnce AcceptedPays
PROPERTIES NoVoucherAfterClose

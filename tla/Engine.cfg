CONSTANTS
  c1 = c1
  c2 = c2
  c3 = c3
  k1 = k1
  k2 = k2
  p1 = p1
  p2 = p2
  r1 = r1
  s1 = s1
  a1 = a1
  a2 = a2
  right = right
  typo = typo
  empty = empty
  t1 = t1
  w1 = w1
  chain = chain
  None = None
  Mempool = Mempool
  Gone = Gone
  NoReceipt = NoReceipt
  Foreign = Foreign
  Chains = {chain}
  ChainOf <- MCChainOf
  Txs = {t1}
  Watchers = {w1}
  Polls = {c1, c2}
  Entries = {k1, k2}
  History = {None, "mined"}
  MaxBlock = 2
  MaxReorgs = 1
  Stops = TRUE
  Cleans = TRUE
  Phrases = {p1, p2}
  RawEvm = {r1}
  RawSolana = {s1}
  WalletCalls = {c1, c2}
  MaxEpoch = 2
  OldRecords = {p1}
  Passphrases = {right, typo, empty}
  Empty = empty
  Authenticators = {a1, a2}
  VaultCalls = {c1, c2}
  FirstRecords <- MCFirstRecords
  StoreKeys = {k1, k2}
  StoreCalls = {c1, c2, c3}
  SignerKeys = {k1, k2}
  MaxSeq = 5
SYMMETRY Symmetry
SPECIFICATION SuiteSpec
INVARIANTS TypeOK PollsAreDriven ConfirmedWasMined SignedAsShown StorageRecovers

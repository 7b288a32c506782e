SPECIFICATION MCSpec
CONSTANTS
  Accounts <- MCAccounts
  Nobody = "nobody"
  Keys = {"k1", "k2"}
  Tokens <- MCTokens
  DidOf <- MCDidOf
  WalletOf <- MCWalletOf
  Root = "root"
  Junk = "junk"
  NoCred = "none"
  Callers = {1, 2}
  Rows = {"r1", "r2", "r3"}
  TTL = 2
  MaxEntries = 1
  MaxLookup = 1
  Cookies = {"same", "claim"}
  MaxSwitches = 1
INVARIANTS RevocationBounded ReportsAreOwn StableIdentity
PROPERTIES RunJobEnds
CHECK_DEADLOCK FALSE

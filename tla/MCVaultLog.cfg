\* As MCVault.cfg, with callers who tell nothing, for the promise that every read is logged.
CONSTANTS
  p1 = p1
  p2 = p2
  h1 = h1
  h2 = h2
  k1 = k1
  k2 = k2
  r1 = r1
  r2 = r2
  NoKey = NoKey
  NoFile = NoFile
  Damaged = Damaged
  Processes <- TwoProcesses
  Handles <- TwoHandles
  Keys <- TwoKeys
  Reads <- TwoReads
  Contexts <- PlainContexts
SPECIFICATION VaultSpec
INVARIANT EveryReadIsLogged
CHECK_DEADLOCK FALSE

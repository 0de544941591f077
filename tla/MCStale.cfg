SPECIFICATION Spec
CONSTANTS
  None = None
  a = a
  b = b
  Lookups = {a, b}
  Keys <- Revocation
  Modes = {"default", "reload"}
  Resolvers = 1
  MaxRetries = 0
  BaseDelay = 1
  MaxDelay = 1
  Timeout = 1
  Ttl = 1
  NegativeTtl = 1
  MaxEntries = 1
  Controls <- ServerChooses
  Refusals = {}
  Faults = {}
  RetryAfters = {None}
  Lifetime = 1
  MaxVersion = 1
  LastBegin = 2
  MaxTime = 2
SYMMETRY Symmetry
INVARIANTS StalenessBounded PurgeHolds CacheBounded
CHECK_DEADLOCK FALSE

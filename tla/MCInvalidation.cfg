SPECIFICATION Spec
CONSTANTS
  None = None
  a = a
  b = b
  Lookups = {a, b}
  Keys <- OneMandate
  Modes = {"default"}
  Resolvers = 1
  MaxRetries = 0
  BaseDelay = 1
  MaxDelay = 1
  Timeout = 1
  Ttl = 1
  NegativeTtl = 1
  MaxEntries = 1
  Controls <- PlainOnly
  Refusals = {}
  Faults = {}
  RetryAfters = {None}
  Lifetime = 1
  MaxVersion = 2
  LastBegin = 0
  MaxTime = 0
SYMMETRY Symmetry
INVARIANTS InvalidationStopsTraffic
CHECK_DEADLOCK FALSE

SPECIFICATION FairSpec
CONSTANTS
  None = None
  a = a
  b = b
  Lookups = {a, b}
  Keys <- OneMandate
  Modes = {"default"}
  Resolvers = 2
  MaxRetries = 1
  BaseDelay = 1
  MaxDelay = 1
  Timeout = 1
  Ttl = 1
  NegativeTtl = 1
  MaxEntries = 1
  Controls <- Dated
  Refusals = {"LOOKUP_BAD_REQUEST", "LOOKUP_CANCELLED"}
  Faults = {"400", "429", "5xx", "mismatch"}
  RetryAfters = {None, 2}
  Lifetime = 1
  MaxVersion = 0
  LastBegin = 0
  MaxTime = 7
INVARIANTS TypeOK EndsInTime
PROPERTIES LookupEnds
CHECK_DEADLOCK FALSE

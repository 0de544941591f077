SPECIFICATION Spec
CONSTANTS
  None = None
  Empty = Empty
  Text = {Empty, "USD", "k1", "k2"}
  r1 = r1
  r2 = r2
  r3 = r3
  Requests = {r1, r2, r3}
  Submitted <- Market
  MaxTime = 0
  Storeless = {}
  ExternalUpstream = FALSE
  ClockSkew = 1
  MaxProofAge = 3
INVARIANTS TypeOK InvokedWithinAuthority DenialIsFinal ConflictHasWinner
PROPERTIES ImplementsLedger OnlyAccumulates
CHECK_DEADLOCK FALSE

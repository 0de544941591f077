SPECIFICATION Spec
CONSTANTS
  None = None
  Empty = Empty
  Text = {Empty}
  r1 = r1
  r2 = r2
  r3 = r3
  Requests = {r1, r2, r3}
  Submitted <- Mint
  MaxTime = 0
  Storeless = {}
  ExternalUpstream = FALSE
  ClockSkew = 1
  MaxProofAge = 3
INVARIANT InvocationLeavesReceipt
CHECK_DEADLOCK FALSE

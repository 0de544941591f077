SPECIFICATION Spec
CONSTANTS
  None = None
  Empty = Empty
  Text = {Empty}
  r1 = r1
  r2 = r2
  r3 = r3
  Requests = {r1, r2, r3}
  Submitted <- Resend
  MaxTime = 2
  Storeless = {}
  ExternalUpstream = TRUE
  ClockSkew = 1
  MaxProofAge = 3
INVARIANT EnvelopeAcceptedOnce
CHECK_DEADLOCK FALSE

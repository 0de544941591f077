SPECIFICATION Spec
CONSTANTS
  None = None
  v1 = v1
  v2 = v2
  Verifications = {v1, v2}
  Submitted <- Twice
  Keys = {"k"}
  Issuers = {"leaf", "mid", "root"}
  InitialKeys <- SomeKeys
  InitialIssuers <- Chains
  TrustAnchors = {"root"}
  MaxTrustDepth = 1
  ClockSkew = 1
  MaxProofAge = 3
  PruneAbove = 0
  MaxChanges = 1
  MaxTime = 1
SYMMETRY Symmetry
INVARIANTS RevocationStopsTrust ChainGrounded FailsClosed NonceOnceUntilExpiry
PROPERTY WalkAdvances
CHECK_DEADLOCK FALSE

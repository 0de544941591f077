CONSTANTS
  a = a
  b = b
  None = None
  Callers = {a, b}
  Session = 1
  Answers = {"+OK", "+PONG", "null", "usage", "0", "1", "id"}
  Environments <- SomeEnvironments
  Routes <- SomeRoutes
  KeyRecords <- SomeRecords
  FirstPublished <- SomeKeys
  Listed <- SomeMethods
  Agent = "agent"
  Issuer = "issuer"
  Anchored = {"issuer", "partner"}
  MaxChanges = 1
SPECIFICATION FairSpec
INVARIANTS
  RevokedStaysOut
  RuntimeKeyVouched
  DecisionsRecorded
PROPERTIES
  Answered
  CommandsAreCalls
CHECK_DEADLOCK FALSE

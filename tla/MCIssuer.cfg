SPECIFICATION Spec
CONSTANTS
  None = None
  Blank = Blank
  Uris <- NoTexts
  Currencies <- NoTexts
  Overlong <- NoTexts
  Calls = {c1, c2}
  Slugs = {"bot", "Bot"}
  Normal <- Spellings
  Registrations <- Agents
  MandateInputs <- Purposes
  TransactionInputs <- Requests
  ReceiptInputs <- Outcomes
  Unsigned <- MadeUp
  Day = 2
  MaxCalls = 4
  MaxChanges = 1
  MaxTime = 1
SYMMETRY Interchangeable
CHECK_DEADLOCK FALSE
INVARIANTS
  RecordsAgree
  EnvelopesVerify
  Publishable
PROPERTY
  SuspensionHolds

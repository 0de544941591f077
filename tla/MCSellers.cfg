SPECIFICATION Spec
CONSTANTS
  None = None
  Blank = Blank
  Empty = Blank
  Text <- Texts
  Uris <- ProfileUris
  Currencies <- Codes
  Overlong <- NoTexts
  Exchanges <- Everything
  MaxSafeInteger = 2
  MaxPlainInteger = 9
CHECK_DEADLOCK FALSE
INVARIANTS
  CommerceAgree
  AmountsInOrder
  MintWithinClaim
  BudgetKeepsCurrency
  AnswersConform

SPECIFICATION Spec
CONSTANTS
  None = None
  MaxInt = 2000000000
  Keys <- TheKeys
  WellFormedSymbols <- TheSymbols
  Catalogue <- ThePacks
  ReviewedStrategies <- TheStrategies
  ReviewedInputs <- TheInputs
  Specs <- TwoSpecs
  Imports <- TwoImports
  Requests <- TwoRequests
  Receipts <- TwoReceipts
  Cycles <- TwoCycles
  Symbols <- TheSymbols
  Days <- TwoDays
  Amounts <- TwoAmounts
INVARIANTS
  RepliesAreIsolated
PROPERTIES
  ImplementsAccount
  ImportAnswersAreFinal
CHECK_DEADLOCK FALSE

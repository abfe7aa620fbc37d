SPECIFICATION Spec
CONSTANTS
  None = None
  MaxInt = 2000000000
  Keys <- TheKeys
  WellFormedSymbols <- TheSymbols
  Catalogue <- OnePack
  ReviewedStrategies <- TheStrategies
  ReviewedInputs <- TheInputs
  Specs <- OneSpec
  Imports <- CheapImports
  Requests <- CheapRequests
  Receipts <- OneReceipt
  Cycles <- OneCycle
  Symbols <- TheSymbols
  Days <- TheDays
  Amounts <- NoAmounts
INVARIANTS
  EveryDecisionIsRecorded
CHECK_DEADLOCK FALSE

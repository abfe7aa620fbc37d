SPECIFICATION Spec
CONSTANTS
  None = None
  MaxInt = 2000000000
  Keys <- TheKeys
  WellFormedSymbols <- TheSymbols
  Catalogue <- OnePack
  ReviewedStrategies <- TheStrategies
  ReviewedInputs <- TheInputs
  Specs <- OneSpec
  Imports <- OneImports
  Requests <- OneRequests
  Receipts <- OneReceipt
  Cycles <- OneCycle
  Symbols <- TheSymbols
  Days <- TheDays
  Amounts <- NoAmounts
INVARIANTS
  BooksIInv
  ReplayAlwaysVerifies
  OneFillPerEvidence
  RoundTrips
  RetryAlwaysAnswered
PROPERTIES
  HistoryNeverChanges
  CompletedIsFinal
CHECK_DEADLOCK FALSE

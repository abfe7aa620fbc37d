SPECIFICATION ReadersSpec
CONSTANTS
  None = None
  MaxInt = 2000000000
  Keys <- TheKeys
  WellFormedSymbols <- TheSymbols
  Catalogue <- OnePack
  ReviewedStrategies <- TheStrategies
  ReviewedInputs <- TheInputs
  Specs <- TwoSpecs
  Imports <- TwoImports
  Requests <- ReadRequests
  Receipts <- OneReceipt
  Cycles <- TwoCycles
  Symbols <- TheSymbols
  Days <- TheDays
  Amounts <- TwoAmounts
  Readers <- TheReaders
  AskedCycles <- OnlyA
  AskedDays <- ReadDays
INVARIANTS
  AnswersAreOfTheirTime
  FailuresAreRaces
CHECK_DEADLOCK FALSE

SPECIFICATION Spec
CONSTANTS
  None = None
  MaxInt = 2000000000
  Keys <- TheKeys
  WellFormedSymbols <- TheSymbols
  Catalogue <- ThePacks
  ReviewedStrategies <- TheStrategies
  ReviewedInputs <- TheInputs
  ReviewedOutputs <- TheOutputs
  Specs <- SameSpecs
  Imports <- SameImports
  Requests <- SameRequests
  Receipts <- TheReceipts
INVARIANTS
  ReproductionsAgree
PROPERTIES
  VerdictOnlyMovesOn
CHECK_DEADLOCK FALSE

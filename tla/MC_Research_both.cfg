SPECIFICATION Spec
CONSTANTS
  None = None
  MaxInt = 2000000000
  Keys <- TheKeys
  WellFormedSymbols <- TheSymbols
  Catalogue <- OnePack
  ReviewedStrategies <- TheStrategies
  ReviewedInputs <- TheInputs
  ReviewedOutputs <- TheOutputs
  Specs <- BothSpecs
  Imports <- BothImports
  Requests <- BothRequests
  Receipts <- TheReceipts
INVARIANTS
  EvidenceOfTheSignalledSide
CHECK_DEADLOCK FALSE

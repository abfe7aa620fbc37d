SPECIFICATION Spec
CONSTANTS
  None = None
  MaxInt = 2000000000
  Keys <- TheKeys
  WellFormedSymbols <- TheSymbols
  Shipped <- Builds
  Specs <- TheSpecs
  Imports <- TheImports
  Requests <- TheRequests
  Receipts <- TheReceipts
INVARIANTS
  ReleasesAgree
  RetainingReleasesOpen

SPECIFICATION FairSpec
CONSTANTS
  None = None
  MaxInt = 2000000000
  Keys <- TheKeys
  WellFormedSymbols <- TheSymbols
  Catalogue <- OnePack
  ReviewedStrategies <- TheStrategies
  ReviewedInputs <- TheInputs
  ReviewedOutputs <- TheOutputs
  Specs <- GatewaySpecs
  Imports <- GatewayImports
  Requests <- GatewayRequests
  Receipts <- TheReceipts
  Clients <- TheClients
  Program <- TheProgram
  MaxFaults = 1
INVARIANTS
  AcknowledgedIsRecorded
  FreshOnce
  ViewsAreCurrent
  ChangedPayloadConflicts
  FollowersReproduce
PROPERTIES
  ImplementsSession
  EveryCallAnswered
CHECK_DEADLOCK FALSE

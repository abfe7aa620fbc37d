SPECIFICATION MCSpec
CONSTANTS
  None = None
  MaxInt = 2000000000
  Keys <- TheKeys
  WellFormedSymbols <- TheSymbols
  Sources <- TheSources
  Inputs <- TheInputs
  MaxEdits = 2
INVARIANTS
  HalvesAgree
  FollowedSignalsReproduce
  PadsAsStandard
PROPERTIES
  OneArtifactOneResearch
  CheckoutsShareIdentity
  NothingLooksAhead
CHECK_DEADLOCK FALSE

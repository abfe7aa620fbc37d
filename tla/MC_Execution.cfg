SPECIFICATION Spec
CONSTANTS
  None = None
  MaxInt = 100000000
  Keys <- TheKeys
  WellFormedSymbols <- TheSymbols
  Instants <- TheInstants
  Capacities <- TheCapacities
  Multiples <- TheMultiples
  Bookings <- TheBookings
INVARIANTS
  VerdictFollowsTheClock
  EvidenceExpires
  NeverDownsized
  PositionsCanBeClosed
  PurchasesErrWhereTheLoopDoes
  SellsLikeTheLoop
CHECK_DEADLOCK FALSE

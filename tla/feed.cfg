SPECIFICATION FairSpec
CONSTANTS
  Pages = {p1}
  Threads = 2
  \* 1 h 1 min 10 s
  TICK = 3670000
  MaxTime = 3670000
  MaxQueue = 2
  MaxMoves = 2
  MaxFaults = 2
  MaxOpens = 2
INVARIANTS
  TypeOK
  PaymentExact
  ArrivalShown
  QuietPageCurrent
PROPERTIES
  PageFollowsLot

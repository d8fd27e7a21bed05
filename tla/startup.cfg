\* Four failures: an attempt to join, a link lost with its address not handled yet, a
\* crash and one in the start after it.
CONSTANTS
  NULL = NULL
  MaxFaults = 4
SPECIFICATION FairSpec
INVARIANTS
  TypeOK
  FlagFollowsNetwork
  AddressNotMissed
  CloudTaskStartsReady
PROPERTIES
  ComesUp
  FlagRecovers
\* The start-up ends: app_main returns and the event task waits for the next event.
CHECK_DEADLOCK FALSE

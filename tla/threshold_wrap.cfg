CONSTANTS
  W = 128
  MARGIN = 5
  PROBES = 2
  FloorReadings <- MCFloorReadings
  VehicleReadings <- MCVehicleReadings
  FAR = 40
  NoReport = NoReport
  MaxMoves = 1
  MaxFaults = 2
SPECIFICATION FairSpec
INVARIANTS
  WithinMarginIsFree

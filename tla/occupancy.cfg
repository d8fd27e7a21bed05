\* Two probes, so that samples differ; two moves, so that a vehicle can come and
\* go between two reports; two faults, so that an echo or a report can be lost and
\* the device restart in one behaviour.
CONSTANTS
  W = 128
  MARGIN = 5
  PROBES = 2
  FloorReadings <- MCFloorReadings
  VehicleReadings <- MCVehicleReadings
  FAR = 40
  NoReport = NoReport
  MaxMoves = 2
  MaxFaults = 2
SPECIFICATION FairSpec
INVARIANTS
  TypeOK
  CalibrationWithinSamples
  DecisionMatchesEcho
  ChangeFlagAgrees
  HubTruthful
  SizeExceedsMargin
PROPERTIES
  HubLearnsTruth

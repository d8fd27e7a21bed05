CONSTANTS
  RETRY_BACKOFF_BASE_MS = 500
  RETRY_MAX_BACKOFF_DELAY_MS = 5000
  RETRY_MAX_ATTEMPTS = 1
  RAND_MAX = 7
  UINT16 = 65536
  Handles = {h1}
  NULL = NULL
  MaxFaults = 2
  W = 128
  MARGIN = 5
  PROBES = 1
  FloorReadings <- MCFloorReadings
  VehicleReadings <- MCVehicleReadings
  FAR = 40
  NoReport = NoReport
  MaxMoves = 2
  MaxLost = 2
SPECIFICATION DeviceFairSpec
INVARIANTS
  DeviceTypeOK
PROPERTIES
  ImplementsOccupancy
  HubLearnsTruth

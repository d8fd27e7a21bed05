\* MaxFaults: all six connects of one call can fail, with one failure left for the
\* rest of the session or a later one.
CONSTANTS
  RETRY_BACKOFF_BASE_MS = 500
  RETRY_MAX_BACKOFF_DELAY_MS = 5000
  RETRY_MAX_ATTEMPTS = 5
  RAND_MAX = 7
  UINT16 = 65536
  Handles = {h1, h2}
  NULL = NULL
  MaxFaults = 8
SPECIFICATION FairSpec
INVARIANTS
  TypeOK
  ContextOwned
  TransportReady
  CleanupLadder
  RetriesBounded
  SessionsAccounted
PROPERTIES
  JitterGrows
  ImplementsLadder
  TelemetryKeepsFlowing

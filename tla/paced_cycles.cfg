CONSTANTS
  RETRY_BACKOFF_BASE_MS = 500
  RETRY_MAX_BACKOFF_DELAY_MS = 5000
  RETRY_MAX_ATTEMPTS = 5
  RAND_MAX = 7
  UINT16 = 65536
  Handles = {h1, h2}
  NULL = NULL
  MaxFaults = 1
SPECIFICATION FairSpec
PROPERTIES
  CyclesArePaced

SPECIFICATION Spec
CONSTANTS
  W = 24
  US_PER_CM = 2
  BOOT = 6
  MAX_RISE = 1
  MAX_PULSE = 3
  LATENCY = 2
  PROBE_DELAY = 9
  TASK_DELAY = 10
  PROBES = 2
  MaxTime = 42
INVARIANTS
  TypeOK
  ReadingHonest
  MeasuredInTime
PROPERTIES
  ImplementsSensor
\* The clock stops at MaxTime.
CHECK_DEADLOCK FALSE

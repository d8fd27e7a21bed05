----------------------------- MODULE OccupancyProofs -----------------------------
(* Occupancy for every width, margin, number of probes and set of readings that     *)
(* meet its assumptions, and any number of moves and failures.                      *)
EXTENDS Occupancy, TLAPS

--------------------------------------------------------------------------------
(* Arithmetic of uint32_t and of the average. *)

\* Arithmetic in uint32_t stays in its range.
LEMMA Uint32Type ==
  ASSUME NEW x \in Int
  PROVE  Uint32(x) \in 0 .. (W - 1)
BY WidthAssumption DEF Uint32

\* Arithmetic in uint32_t is exact on what fits.
LEMMA Uint32Small ==
  ASSUME NEW x \in 0 .. (W - 1)
  PROVE  Uint32(x) = x
BY WidthAssumption DEF Uint32

\* The average of PROBES numbers between l and h lies between l and h, integer
\* division included (azure_iot_main.c:317).
LEMMA AverageWithin ==
  ASSUME NEW a \in Nat, NEW l \in Nat, NEW h \in Nat, PROBES * l <= a, a <= PROBES * h
  PROVE  Average(a) \in l .. h
BY ReadingAssumption DEF Average

\* Multiplication keeps the order of natural numbers.
LEMMA TimesMonotone ==
  ASSUME NEW n \in Nat, NEW a \in Nat, NEW b \in Nat, a <= b
  PROVE  n * a <= n * b /\ a * n <= b * n
OBVIOUS

\* The product of natural numbers is one.
LEMMA TimesNat ==
  ASSUME NEW n \in Nat, NEW a \in Nat
  PROVE  n * a \in Nat /\ 0 * a = 0
<1>1. n * a \in Int /\ 0 * a = 0
  OBVIOUS
<1>2. n * 0 = 0 /\ n * 0 <= n * a
  BY TimesMonotone
<1> QED
  BY <1>1, <1>2

\* One probe more adds one term.
LEMMA OneMore ==
  ASSUME NEW n \in Nat, NEW a \in Nat
  PROVE  (n + 1) * a = n * a + a
OBVIOUS

\* A distance fits in a uint32_t as often as the calibration adds it up.
LEMMA DistanceBounds ==
  ASSUME NEW d \in Distances
  PROVE  d \in Nat /\ PROBES * d < W /\ d < W \div 2
<1>1. CASE d = 0
  BY <1>1, WidthAssumption, ReadingAssumption
<1>2. CASE d \in Readings
  BY <1>2, ReadingAssumption
<1> QED
  BY <1>1, <1>2 DEF Distances

--------------------------------------------------------------------------------
(* The inductive invariant, one part per story. *)

\* A probe is taken only while there are some to take.
ProbesLeft == pc \in {"trigger", "sample"} => probe < PROBES

\* What a distance is said to come from could have given it.
ShownBy(d, from) ==
  /\ from = "floor" => d \in FloorReadings
  /\ from = "vehicle" => d \in VehicleReadings

EchoInv == ShownBy(dist, shows) /\ ShownBy(decidedOn.dist, decidedOn.shows)

\* The sum of the samples lies between so many times the nearest and so many times
\* the farthest: it cannot have wrapped.
SampleInv ==
  /\ ProbesLeft
  /\ pc \in Cycle => probe = PROBES
  /\ probe = 0 => acc = 0 /\ lo = W /\ hi = 0
  /\ probe > 0 =>
       /\ lo \in Distances /\ hi \in Distances /\ lo <= hi
       /\ probe * lo <= acc /\ acc <= probe * hi
       /\ allEmpty => lo \in FloorReadings /\ hi \in FloorReadings
  /\ CalibrationWithinSamples

\* The flags still are those of the distance the decision was taken on, until the next
\* decision when the cycle was reported, and without an echo since, so is the size.
DecisionInv ==
  /\ pc \in {"build", "send"} \/ gap = 0 =>
       (T_APPS.bParkingLotIsFree <=> ~(decidedOn.dist < Threshold))
  /\ pc \in {"build", "send"} =>
       /\ ~echoed => dist = decidedOn.dist
       /\ pc = "send" /\ ~payload.is_free /\ ~echoed => payload.vehicle_size = VehicleSize

\* The state the next decision compares with is the one the hub knows.
ChangeInv ==
  /\ gap = 0 => /\ pc = "decide"
                /\ hub \in Reports /\ T_APPS.bParkingLotIsFree = hub.is_free
  /\ gap = 1 => hub \in Reports
                 /\ T_APPS.bIsStateChanged = (T_APPS.bParkingLotIsFree # hub.is_free)
  /\ pc = "send" => /\ payload.is_free = T_APPS.bParkingLotIsFree
                    /\ payload.is_state_changed = T_APPS.bIsStateChanged

IInv == TypeOK /\ EchoInv /\ SampleInv /\ DecisionInv /\ ChangeInv

--------------------------------------------------------------------------------
(* Types. *)

\* A failure keeps the count of failures within its bound.
LEMMA FaultCounted ==
  ASSUME faults \in 0 .. MaxFaults, Fault
  PROVE  faults' \in 0 .. MaxFaults
BY BoundsAssumption DEF Fault

\* The average of a uint32_t sum is a uint32_t.
LEMMA AverageType ==
  ASSUME NEW a \in 0 .. (W - 1)
  PROVE  Average(a) \in 0 .. (W - 1)
BY WidthAssumption, ReadingAssumption DEF Average

\* What "%ld" shows is an integer.
LEMMA SignedType ==
  ASSUME NEW x \in 0 .. (W - 1)
  PROVE  Signed(x) \in Int
BY WidthAssumption DEF Signed

\* The image's T_APPS is well typed.
LEMMA InitialStateType ==
  InitialState \in [ulCalibrationDistance : 0 .. (W - 1),
                    bParkingLotIsFree : BOOLEAN, bIsStateChanged : BOOLEAN]
BY WidthAssumption DEF InitialState

\* The report of a free lot is well typed.
LEMMA EmptyReportType == Report(TRUE, FALSE, NoSize) \in Reports
BY WidthAssumption DEF Report, Reports, NoSize

\* The initial state is well typed.
LEMMA TypeOKInit == Init => TypeOK
<1> SUFFICES ASSUME Init PROVE TypeOK
  OBVIOUS
<1>1. PROBES \in Nat /\ MaxMoves \in Nat /\ MaxFaults \in Nat /\ W \in Nat \ {0, 1}
  BY WidthAssumption, ReadingAssumption, BoundsAssumption
<1>2. T_APPS \in [ulCalibrationDistance : 0 .. (W - 1),
                  bParkingLotIsFree : BOOLEAN, bIsStateChanged : BOOLEAN]
  BY InitialStateType DEF Init
<1>3. payload \in Reports /\ hub \in Reports \cup {NoReport}
  BY EmptyReportType DEF Init
<1>4. decidedOn \in [dist : Distances, shows : Sources]
  BY DEF Init, Distances, Sources
<1>5. /\ vehicle \in BOOLEAN /\ pending \in BOOLEAN /\ allEmpty \in BOOLEAN
      /\ echoed \in BOOLEAN
  BY DEF Init
<1>6. dist \in Distances /\ shows \in Sources /\ pc \in {"trigger", "sample"} \cup Cycle
  BY DEF Init, Distances, Sources
<1>7. /\ probe \in 0 .. PROBES /\ acc \in 0 .. (W - 1) /\ lo \in Nat /\ hi \in Nat
      /\ gap \in 0 .. 2 /\ moves \in 0 .. MaxMoves /\ faults \in 0 .. MaxFaults
  BY <1>1 DEF Init
<1> QED
  BY <1>2, <1>3, <1>4, <1>5, <1>6, <1>7 DEF TypeOK

\* A decision leaves the calibration distance alone and sets both flags
\* (azure_iot_cloud.c:347-353).
LEMMA DecideType ==
  ASSUME TypeOK, Decide
  PROVE  /\ T_APPS' \in [ulCalibrationDistance : 0 .. (W - 1),
                         bParkingLotIsFree : BOOLEAN, bIsStateChanged : BOOLEAN]
         /\ T_APPS'.ulCalibrationDistance = T_APPS.ulCalibrationDistance
         /\ T_APPS'.bParkingLotIsFree = ~(dist < Threshold)
         /\ T_APPS'.bIsStateChanged = (T_APPS'.bParkingLotIsFree # T_APPS.bParkingLotIsFree)
         /\ decidedOn' \in [dist : Distances, shows : Sources]
         /\ echoed' = FALSE
         /\ gap' \in 0 .. 2
<1> DEFINE free == ~(dist < Threshold)
<1>1. T_APPS' = [T_APPS EXCEPT !.bParkingLotIsFree = free,
                               !.bIsStateChanged = free # T_APPS.bParkingLotIsFree]
  BY DEF Decide, Changed
<1>2. free \in BOOLEAN /\ (free # T_APPS.bParkingLotIsFree) \in BOOLEAN
  OBVIOUS
<1> HIDE DEF free
<1>3. /\ T_APPS' \in [ulCalibrationDistance : 0 .. (W - 1),
                      bParkingLotIsFree : BOOLEAN, bIsStateChanged : BOOLEAN]
      /\ T_APPS'.ulCalibrationDistance = T_APPS.ulCalibrationDistance
  BY <1>1, <1>2 DEF TypeOK
<1>4. T_APPS'.bParkingLotIsFree = free
  BY <1>1, <1>2 DEF TypeOK
<1>5. T_APPS'.bIsStateChanged = (free # T_APPS.bParkingLotIsFree)
  BY <1>1, <1>2 DEF TypeOK
<1>6. /\ decidedOn' \in [dist : Distances, shows : Sources]
      /\ echoed' = FALSE
      /\ gap' \in 0 .. 2
  BY DEF Decide, TypeOK
<1> QED
  BY <1>3, <1>4, <1>5, <1>6 DEF free

\* A probe keeps the loop's variables and the calibration distance in their types
\* (azure_iot_main.c:304-317).
LEMMA SampleType ==
  ASSUME TypeOK, SampleProbe, probe < PROBES
  PROVE  /\ probe' \in 0 .. PROBES
         /\ acc' \in 0 .. (W - 1)
         /\ lo' \in Nat /\ hi' \in Nat
         /\ allEmpty' \in BOOLEAN
         /\ pc' \in {"trigger", "decide"}
         /\ T_APPS' \in [ulCalibrationDistance : 0 .. (W - 1),
                         bParkingLotIsFree : BOOLEAN, bIsStateChanged : BOOLEAN]
<1>1. dist \in Nat
  BY DistanceBounds DEF TypeOK
<1>2. acc' \in 0 .. (W - 1)
  BY <1>1, Uint32Type DEF TypeOK, SampleProbe
<1>3. probe' \in 0 .. PROBES
  BY ReadingAssumption DEF TypeOK, SampleProbe
<1>4. lo' \in Nat /\ hi' \in Nat
  BY <1>1 DEF TypeOK, SampleProbe
<1>5. allEmpty' \in BOOLEAN
  BY DEF TypeOK, SampleProbe
<1>6. pc' \in {"trigger", "decide"}
  BY DEF SampleProbe
<1>7. Average(acc') \in 0 .. (W - 1)
  BY <1>2, AverageType
<1>8. T_APPS' \in [ulCalibrationDistance : 0 .. (W - 1),
                   bParkingLotIsFree : BOOLEAN, bIsStateChanged : BOOLEAN]
  <2>1. \/ T_APPS' = T_APPS
        \/ T_APPS' = [T_APPS EXCEPT !.ulCalibrationDistance = Average(acc')]
    BY DEF SampleProbe
  <2> QED
    BY <1>7, <2>1 DEF TypeOK
<1> QED
  BY <1>2, <1>3, <1>4, <1>5, <1>6, <1>8

\* What the device compares and subtracts are numbers.
LEMMA VehicleSizeType ==
  ASSUME TypeOK
  PROVE  VehicleSize \in Int
<1>1. T_APPS.ulCalibrationDistance - dist \in Int
  BY DistanceBounds, WidthAssumption DEF TypeOK
<1> QED
  BY <1>1, Uint32Type, SignedType DEF VehicleSize

\* A report is well typed (azure_iot_cloud.c:444-457).
LEMMA PayloadType ==
  ASSUME TypeOK, BuildPayload
  PROVE  payload' \in Reports
<1> DEFINE size == IF T_APPS.bParkingLotIsFree THEN NoSize ELSE VehicleSize
<1>1. size \in Int
  BY VehicleSizeType, WidthAssumption DEF NoSize
<1>2. payload' = Report(T_APPS.bParkingLotIsFree, T_APPS.bIsStateChanged, size)
  BY DEF BuildPayload
<1>3. T_APPS.bParkingLotIsFree \in BOOLEAN /\ T_APPS.bIsStateChanged \in BOOLEAN
  BY DEF TypeOK
<1> HIDE DEF size
<1> QED
  BY <1>1, <1>2, <1>3 DEF Report, Reports

\* Every step keeps every variable in its type.
LEMMA TypeOKStep ==
  ASSUME TypeOK, ProbesLeft, [Next]_vars
  PROVE  TypeOK'
<1>1. CASE Move
  BY <1>1, BoundsAssumption
     DEF Move, TypeOK, sensorVars, calibVars
<1>2. CASE Echo
  BY <1>2 DEF Echo, Overwrite, Distances, Readings, Sources, TypeOK, calibVars, bounds
<1>3. CASE EchoLost
  <2>1. faults' \in 0 .. MaxFaults
    BY <1>3, FaultCounted DEF EchoLost, TypeOK
  <2>2. /\ dist' \in Distances /\ shows' \in Sources /\ pending' \in BOOLEAN
        /\ echoed' \in BOOLEAN
    BY <1>3 DEF EchoLost, Overwrite, Distances, Readings, Sources, TypeOK
  <2>3. UNCHANGED <<vehicle, pc, calibVars, T_APPS, decidedOn, payload, hub, gap, moves>>
    BY <1>3 DEF EchoLost
  <2> QED
    BY <2>1, <2>2, <2>3 DEF TypeOK, calibVars
<1>4. CASE SensorTask \/ TriggerProbe
  BY <1>4 DEF SensorTask, TriggerProbe, TypeOK, calibVars, bounds
<1>5. CASE SampleProbe
  <2>1. UNCHANGED <<vehicle, sensorVars, decidedOn, payload, hub, gap, bounds>>
    BY <1>5 DEF SampleProbe
  <2>2. probe < PROBES
    BY <1>5 DEF SampleProbe, ProbesLeft
  <2> QED
    BY <1>5, <2>1, <2>2, SampleType DEF TypeOK, sensorVars, bounds, Cycle
<1>6. CASE DecideAndConnect
  BY <1>6, DecideType DEF DecideAndConnect, TypeOK, calibVars, bounds, Cycle
<1>7. CASE DecideInVain
  BY <1>7, DecideType DEF DecideInVain, TypeOK, calibVars, bounds
<1>8. CASE BuildPayload
  <2>1. UNCHANGED <<vehicle, sensorVars, calibVars, T_APPS, decidedOn, hub, gap, bounds>>
    BY <1>8 DEF BuildPayload
  <2>2. pc' \in Cycle
    BY <1>8 DEF BuildPayload, Cycle
  <2> QED
    BY <1>8, <2>1, <2>2, PayloadType DEF TypeOK, sensorVars, calibVars, bounds
<1>9. CASE SendTelemetry \/ SendFails \/ SessionFails
  BY <1>9, FaultCounted
     DEF SendTelemetry, SendFails, SessionFails, TypeOK, sensorVars, calibVars, bounds, Cycle
<1>10. CASE Restart
  <2>1. faults' \in 0 .. MaxFaults
    BY <1>10, FaultCounted DEF Restart, TypeOK
  <2>2. T_APPS' \in [ulCalibrationDistance : 0 .. (W - 1),
                     bParkingLotIsFree : BOOLEAN, bIsStateChanged : BOOLEAN]
    BY <1>10, InitialStateType DEF Restart
  <2>3. payload' \in Reports
    BY <1>10, EmptyReportType DEF Restart
  <2>4. decidedOn' \in [dist : Distances, shows : Sources]
    BY <1>10 DEF Restart, Distances, Sources
  <2>5. dist' \in Distances /\ shows' \in Sources /\ pc' \in {"trigger", "sample"} \cup Cycle
    BY <1>10 DEF Restart, Distances, Sources
  <2>6. /\ pending' \in BOOLEAN /\ echoed' \in BOOLEAN /\ allEmpty' \in BOOLEAN
    BY <1>10 DEF Restart
  <2>7. /\ probe' \in 0 .. PROBES /\ acc' \in 0 .. (W - 1)
        /\ lo' \in Nat /\ hi' \in Nat /\ gap' \in 0 .. 2
    BY <1>10, WidthAssumption, ReadingAssumption DEF Restart
  <2>8. UNCHANGED <<vehicle, hub, moves>>
    BY <1>10 DEF Restart
  <2> QED
    BY <2>1, <2>2, <2>3, <2>4, <2>5, <2>6, <2>7, <2>8 DEF TypeOK
<1>11. CASE UNCHANGED vars
  BY <1>11 DEF TypeOK, vars, sensorVars, calibVars, bounds
<1> QED
  BY <1>1, <1>2, <1>3, <1>4, <1>5, <1>6, <1>7, <1>8, <1>9, <1>10, <1>11
     DEF Next, Calibration, CloudCycle

--------------------------------------------------------------------------------
(* Each part of the invariant, from the parts before it. *)

\* The invariant holds when the device starts.
LEMMA IInvInit == Init => IInv
<1> SUFFICES ASSUME Init PROVE IInv
  OBVIOUS
<1>1. EchoInv
  BY DEF Init, EchoInv, ShownBy
<1>2. SampleInv
  BY ReadingAssumption DEF Init, SampleInv, ProbesLeft, CalibrationWithinSamples, Cycle
<1>3. DecisionInv
  BY DEF Init, DecisionInv
<1>4. ChangeInv
  BY DEF Init, ChangeInv
<1> QED
  BY <1>1, <1>2, <1>3, <1>4, TypeOKInit DEF IInv

\* Only an echo, a decision and a restart change what is shown.
LEMMA EchoInvStep ==
  ASSUME EchoInv, [Next]_vars
  PROVE  EchoInv'
<1> USE DEF EchoInv, ShownBy
<1>1. CASE Echo
  BY <1>1 DEF Echo, Overwrite
<1>2. CASE EchoLost
  BY <1>2 DEF EchoLost, Overwrite
<1>3. CASE DecideAndConnect \/ DecideInVain
  BY <1>3 DEF DecideAndConnect, DecideInVain, Decide
<1>4. CASE Restart
  BY <1>4 DEF Restart
<1>5. CASE UNCHANGED <<dist, shows, decidedOn>>
  BY <1>5
<1>6. CASE Move \/ SensorTask \/ Calibration \/ BuildPayload \/ SendTelemetry \/ SendFails \/ SessionFails
  BY <1>5, <1>6 DEF Move, SensorTask, Calibration, TriggerProbe, SampleProbe, BuildPayload,
                    SendTelemetry, SendFails, SessionFails, sensorVars
<1>7. CASE UNCHANGED vars
  BY <1>5, <1>7 DEF vars, sensorVars
<1> QED
  BY <1>1, <1>2, <1>3, <1>4, <1>6, <1>7 DEF Next, CloudCycle

\* A probe keeps the sum between its bounds; it cannot wrap because a distance
\* taken PROBES times still fits in a uint32_t (azure_iot_main.c:304-317).
LEMMA SampleKeepsBounds ==
  ASSUME TypeOK, EchoInv, SampleInv, SampleProbe
  PROVE  SampleInv'
<1>1. pc = "sample" /\ probe < PROBES /\ probe \in Nat /\ PROBES \in Nat
  BY ReadingAssumption DEF SampleProbe, SampleInv, ProbesLeft, TypeOK
<1>2. dist \in Distances /\ dist \in Nat /\ dist < W
  <2>1. dist \in Distances /\ dist \in Nat /\ dist < W \div 2
    BY DistanceBounds DEF TypeOK
  <2> QED
    BY <2>1, WidthAssumption
<1>3. probe' = probe + 1 /\ probe' \in Nat /\ probe' > 0 /\ probe' <= PROBES
  BY <1>1 DEF SampleProbe
<1>4. /\ lo' \in Distances /\ hi' \in Distances /\ lo' <= dist /\ dist <= hi'
      /\ probe > 0 => lo' <= lo /\ hi <= hi'
      /\ allEmpty' => lo' \in FloorReadings /\ hi' \in FloorReadings
  <2>1. CASE probe = 0
    <3>1. lo = W /\ hi = 0
      BY <2>1 DEF SampleInv
    <3>2. lo' = dist /\ hi' = dist
      BY <1>2, <3>1 DEF SampleProbe
    <3>3. allEmpty' => dist \in FloorReadings
      BY DEF SampleProbe, EchoInv, ShownBy
    <3> QED
      BY <1>2, <2>1, <3>2, <3>3
  <2>2. CASE probe > 0
    <3>1. /\ lo \in Distances /\ hi \in Distances
          /\ lo \in Nat /\ hi \in Nat
      BY <2>2 DEF SampleInv, TypeOK
    <3>2. lo' = (IF dist < lo THEN dist ELSE lo) /\ hi' = IF dist > hi THEN dist ELSE hi
      BY DEF SampleProbe
    <3>3. allEmpty' => /\ lo \in FloorReadings /\ hi \in FloorReadings
                       /\ dist \in FloorReadings
      BY <2>2 DEF SampleInv, SampleProbe, EchoInv, ShownBy
    <3> QED
      BY <1>2, <3>1, <3>2, <3>3
  <2> QED
    BY <1>1, <2>1, <2>2
<1>5. lo' \in Nat /\ hi' \in Nat /\ lo' <= hi' /\ PROBES * hi' < W
  <2>1. lo' \in Nat /\ hi' \in Nat /\ PROBES * hi' < W
    BY <1>4, DistanceBounds
  <2> QED
    BY <1>2, <1>4, <2>1
<1>6. acc \in Nat /\ probe * lo' <= acc /\ acc <= probe * hi'
  <2>1. acc \in Nat
    BY WidthAssumption DEF TypeOK
  <2>2. CASE probe = 0
    <3>1. acc = 0
      BY <2>2 DEF SampleInv
    <3>2. 0 * lo' = 0 /\ 0 * hi' = 0
      BY <1>5, TimesNat
    <3>3. probe * lo' = 0 /\ probe * hi' = 0
      BY <2>2, <3>2, Zenon
    <3> QED
      BY <3>1, <3>3
  <2>3. CASE probe > 0
    <3>1. lo \in Nat /\ hi \in Nat /\ probe * lo <= acc /\ acc <= probe * hi
      BY <2>3 DEF SampleInv, TypeOK
    <3>2. probe * lo' <= probe * lo /\ probe * hi <= probe * hi'
      BY <1>1, <1>4, <1>5, <2>3, <3>1, TimesMonotone
    <3>3. probe * lo' \in Nat /\ probe * hi' \in Nat /\ probe * lo \in Nat /\ probe * hi \in Nat
      BY <1>1, <1>5, <3>1, TimesNat
    <3> QED
      BY <2>1, <3>1, <3>2, <3>3
  <2> QED
    BY <1>1, <2>1, <2>2, <2>3
<1>7. /\ probe' * lo' <= acc + dist /\ acc + dist <= probe' * hi'
      /\ acc + dist \in 0 .. (W - 1)
  <2>1. probe' * lo' = probe * lo' + lo' /\ probe' * hi' = probe * hi' + hi'
    BY <1>1, <1>3, <1>5, OneMore
  <2>2. probe' * hi' <= PROBES * hi'
    BY <1>1, <1>3, <1>5, TimesMonotone
  <2>3. probe * lo' \in Nat /\ probe * hi' \in Nat /\ probe' * hi' \in Nat /\ PROBES * hi' \in Nat
    BY <1>1, <1>3, <1>5, TimesNat
  <2>4. probe' * lo' <= acc + dist /\ acc + dist <= probe' * hi'
    BY <1>2, <1>4, <1>5, <1>6, <2>1, <2>3
  <2>5. acc + dist < W
    BY <1>2, <1>5, <1>6, <2>2, <2>3, <2>4, WidthAssumption
  <2> QED
    BY <1>2, <1>6, <2>4, <2>5, WidthAssumption
<1>8. acc' = acc + dist
  BY <1>7, Uint32Small DEF SampleProbe
<1>9. CASE probe' < PROBES
  <2>1. pc' = "trigger"
    BY <1>9 DEF SampleProbe, MoreProbes
  <2> QED
    BY <1>3, <1>4, <1>5, <1>7, <1>8, <1>9, <2>1
       DEF SampleInv, ProbesLeft, Cycle, CalibrationWithinSamples
<1>10. CASE probe' = PROBES
  <2>1. pc' = "decide" /\ T_APPS' = [T_APPS EXCEPT !.ulCalibrationDistance = Average(acc')]
    BY <1>1, <1>10 DEF SampleProbe, MoreProbes
  <2>2. acc' \in Nat /\ PROBES * lo' <= acc' /\ acc' <= PROBES * hi'
    BY <1>7, <1>8, <1>10
  <2>3. Average(acc') \in lo' .. hi'
    BY <1>5, <2>2, AverageWithin
  <2>4. T_APPS'.ulCalibrationDistance = Average(acc')
    BY <2>1 DEF TypeOK
  <2> QED
    BY <1>3, <1>4, <1>5, <1>7, <1>8, <1>10, <2>1, <2>3, <2>4
       DEF SampleInv, ProbesLeft, Cycle, CalibrationWithinSamples
<1> QED
  BY <1>1, <1>3, <1>9, <1>10

\* Outside the calibration only a restart touches what it computed.
LEMMA SampleInvStep ==
  ASSUME TypeOK, EchoInv, SampleInv, [Next]_vars
  PROVE  SampleInv'
<1>1. CASE SampleProbe
  BY <1>1, SampleKeepsBounds
<1>2. CASE Restart
  BY <1>2, ReadingAssumption
     DEF Restart, SampleInv, ProbesLeft, CalibrationWithinSamples, Cycle
<1>3. ASSUME /\ UNCHANGED calibVars
             /\ T_APPS'.ulCalibrationDistance = T_APPS.ulCalibrationDistance
             /\ \/ pc' = pc
                \/ pc = "trigger" /\ pc' = "sample"
                \/ pc \in Cycle /\ pc' \in Cycle
      PROVE  SampleInv'
  BY <1>3 DEF SampleInv, ProbesLeft, CalibrationWithinSamples, Cycle, calibVars
<1>4. CASE Move \/ Echo \/ EchoLost \/ SensorTask
  BY <1>3, <1>4 DEF Move, Echo, EchoLost, SensorTask
<1>5. CASE TriggerProbe
  BY <1>3, <1>5 DEF TriggerProbe
<1>6. CASE DecideAndConnect \/ DecideInVain
  BY <1>3, <1>6, DecideType DEF DecideAndConnect, DecideInVain, Cycle
<1>7. CASE BuildPayload \/ SendTelemetry \/ SendFails \/ SessionFails
  BY <1>3, <1>7 DEF BuildPayload, SendTelemetry, SendFails, SessionFails, Cycle
<1>8. CASE UNCHANGED vars
  BY <1>3, <1>8 DEF vars
<1> QED
  BY <1>1, <1>2, <1>4, <1>5, <1>6, <1>7, <1>8 DEF Next, Calibration, CloudCycle

\* A decision fixes the flags and the distance they stand for together; until the
\* cycle ends only an echo touches what they were computed from.
LEMMA DecisionInvStep ==
  ASSUME TypeOK, DecisionInv, ChangeInv, [Next]_vars
  PROVE  DecisionInv'
<1>1. CASE Move \/ SensorTask
  BY <1>1 DEF Move, SensorTask, sensorVars, DecisionInv, Threshold, VehicleSize
<1>2. CASE Echo
  BY <1>2 DEF Echo, Overwrite, DecisionInv, Threshold, VehicleSize
<1>3. CASE EchoLost
  BY <1>3 DEF EchoLost, Overwrite, DecisionInv, Threshold, VehicleSize
<1>4. CASE DecideAndConnect
  <2>1. /\ T_APPS'.ulCalibrationDistance = T_APPS.ulCalibrationDistance
        /\ T_APPS'.bParkingLotIsFree = ~(dist < Threshold)
    BY <1>4, DecideType DEF DecideAndConnect
  <2>2. decidedOn'.dist = dist /\ dist' = dist /\ pc' = "build"
    BY <1>4 DEF DecideAndConnect, Decide
  <2>3. Threshold' = Threshold
    BY <2>1 DEF Threshold
  <2> QED
    BY <2>1, <2>2, <2>3 DEF DecisionInv
<1>5. CASE BuildPayload
  <2>1. /\ pc = "build" /\ pc' = "send"
        /\ UNCHANGED <<T_APPS, decidedOn, dist, echoed>>
        /\ payload'.is_free = T_APPS.bParkingLotIsFree
        /\ ~T_APPS.bParkingLotIsFree => payload'.vehicle_size = VehicleSize
    BY <1>5 DEF BuildPayload, sensorVars, Report
  <2>2. Threshold' = Threshold /\ VehicleSize' = VehicleSize
    BY <2>1 DEF Threshold, VehicleSize
  <2> QED
    BY <2>1, <2>2 DEF DecisionInv
<1>6. ASSUME pc' \in {"trigger", "sample", "decide"}, gap' # 0
      PROVE  DecisionInv'
  BY <1>6 DEF DecisionInv
<1>7. CASE TriggerProbe \/ SampleProbe \/ SendFails \/ SessionFails
  <2>1. pc # "decide" /\ pc' \in {"trigger", "sample", "decide"} /\ gap' = gap
    BY <1>7 DEF TriggerProbe, SampleProbe, SendFails, SessionFails
  <2> QED
    BY <1>6, <2>1 DEF ChangeInv
<1>8. CASE DecideInVain
  <2>1. pc' = "decide" /\ gap' # 0
    BY <1>8 DEF DecideInVain, Decide
  <2> QED
    BY <1>6, <2>1
<1>9. CASE SendTelemetry
  <2>1. pc = "send" /\ pc' = "decide" /\ UNCHANGED <<T_APPS, decidedOn>>
    BY <1>9 DEF SendTelemetry
  <2>2. Threshold' = Threshold
    BY <2>1 DEF Threshold
  <2> QED
    BY <2>1, <2>2 DEF DecisionInv
<1>10. CASE Restart
  BY <1>6, <1>10 DEF Restart
<1>11. CASE UNCHANGED vars
  BY <1>11 DEF vars, sensorVars, DecisionInv, Threshold, VehicleSize
<1> QED
  BY <1>1, <1>2, <1>3, <1>4, <1>5, <1>7, <1>8, <1>9, <1>10, <1>11
     DEF Next, Calibration, CloudCycle

\* A decision after a reported one compares with what the hub knows; after a lost
\* one nothing is claimed.
LEMMA DecideKeepsChange ==
  ASSUME TypeOK, ChangeInv, Decide, pc' \in {"decide", "build"}, UNCHANGED hub
  PROVE  ChangeInv'
<1>1. pc' # "send"
  OBVIOUS
<1>2. /\ T_APPS'.bIsStateChanged = (T_APPS'.bParkingLotIsFree # T_APPS.bParkingLotIsFree)
  BY DecideType
<1>3. gap' # 0 /\ (gap' = 1 => gap = 0)
  BY DEF Decide
<1>4. gap' = 1 => hub \in Reports /\ T_APPS.bParkingLotIsFree = hub.is_free
  BY <1>3 DEF ChangeInv
<1> QED
  BY <1>1, <1>2, <1>3, <1>4 DEF ChangeInv

\* A report takes the flags as they are and the hub what the report says.
LEMMA ChangeInvStep ==
  ASSUME TypeOK, ChangeInv, [Next]_vars
  PROVE  ChangeInv'
<1>1. CASE DecideAndConnect \/ DecideInVain
  BY <1>1, DecideKeepsChange DEF DecideAndConnect, DecideInVain
<1>2. CASE BuildPayload
  <2>1. /\ pc = "build" /\ UNCHANGED <<T_APPS, hub, gap>>
        /\ payload'.is_free = T_APPS.bParkingLotIsFree
        /\ payload'.is_state_changed = T_APPS.bIsStateChanged
    BY <1>2 DEF BuildPayload, Report
  <2> QED
    BY <2>1 DEF ChangeInv
<1>3. CASE SendTelemetry
  BY <1>3 DEF SendTelemetry, ChangeInv, TypeOK
<1>4. CASE Restart
  BY <1>4 DEF Restart, ChangeInv
<1>5. ASSUME UNCHANGED <<T_APPS, payload, hub, gap>>, pc' = "send" => pc = "send",
             pc = "decide" => pc' = "decide"
      PROVE  ChangeInv'
  BY <1>5 DEF ChangeInv
<1>6. CASE Move \/ Echo \/ EchoLost \/ SensorTask
  BY <1>5, <1>6 DEF Move, Echo, EchoLost, SensorTask
<1>7. CASE TriggerProbe \/ SendFails \/ SessionFails
  BY <1>5, <1>7 DEF TriggerProbe, SendFails, SessionFails
<1>8. CASE SampleProbe
  <2>1. /\ pc = "sample" /\ pc' # "send"
        /\ UNCHANGED <<payload, hub, gap>>
        /\ T_APPS'.bParkingLotIsFree = T_APPS.bParkingLotIsFree
        /\ T_APPS'.bIsStateChanged = T_APPS.bIsStateChanged
    BY <1>8 DEF SampleProbe, TypeOK
  <2> QED
    BY <2>1 DEF ChangeInv
<1>9. CASE UNCHANGED vars
  BY <1>5, <1>9 DEF vars
<1> QED
  BY <1>1, <1>2, <1>3, <1>4, <1>6, <1>7, <1>8, <1>9 DEF Next, Calibration, CloudCycle

\* Every step keeps the invariant.
LEMMA IInvStep == IInv /\ [Next]_vars => IInv'
<1> SUFFICES ASSUME IInv, [Next]_vars PROVE IInv'
  OBVIOUS
<1>1. TypeOK /\ EchoInv /\ SampleInv /\ DecisionInv /\ ChangeInv
  BY DEF IInv
<1>2. TypeOK'
  BY <1>1, TypeOKStep DEF SampleInv
<1> QED
  BY <1>1, <1>2, EchoInvStep, SampleInvStep, DecisionInvStep, ChangeInvStep DEF IInv

\* The invariant holds always.
LEMMA IInvHolds == Spec => []IInv
BY IInvInit, IInvStep, PTL DEF Spec

--------------------------------------------------------------------------------
(* What follows from it. *)

\* The unsigned subtraction of the margin does not wrap when the calibration
\* distance is not below it.
LEMMA ThresholdExact ==
  ASSUME TypeOK, T_APPS.ulCalibrationDistance >= MARGIN
  PROVE  Threshold = T_APPS.ulCalibrationDistance - MARGIN
<1>1. T_APPS.ulCalibrationDistance - MARGIN \in 0 .. (W - 1)
  BY MarginAssumption, WidthAssumption DEF TypeOK
<1> QED
  BY <1>1, Uint32Small DEF Threshold

\* The decision, taken on an echo: a device that calibrated on the empty lot has lo and hi
\* among the floor's readings, so its threshold is at most every reading of the
\* floor and above every reading of a vehicle.
LEMMA InvGivesFlag ==
  ASSUME IInv, pc \in Cycle, pc \in {"build", "send"} \/ gap = 0,
         allEmpty, decidedOn.shows # "none"
  PROVE  T_APPS.bParkingLotIsFree <=> decidedOn.shows = "floor"
<1> DEFINE C == T_APPS.ulCalibrationDistance
<1>1. /\ TypeOK /\ EchoInv /\ SampleInv /\ DecisionInv
  BY DEF IInv
<1>2. probe > 0
  BY <1>1, ReadingAssumption DEF SampleInv, Cycle
<1>3. /\ lo \in FloorReadings /\ hi \in FloorReadings
      /\ C \in lo .. hi
  BY <1>1, <1>2 DEF SampleInv, CalibrationWithinSamples, Cycle
<1>4. /\ lo \in Nat /\ hi \in Nat /\ C \in Nat /\ lo <= C /\ C <= hi
  BY <1>1, <1>3 DEF TypeOK
<1>5. MARGIN \in Nat /\ MARGIN <= lo
  BY <1>3, MarginAssumption
<1> DEFINE T == Threshold
<1>6. T = C - MARGIN
  BY <1>1, <1>4, <1>5, ThresholdExact
<1>7. decidedOn.dist \in Nat /\ decidedOn.shows \in {"floor", "vehicle"}
  BY <1>1, DistanceBounds DEF TypeOK, Sources
<1>8. T_APPS.bParkingLotIsFree <=> ~(decidedOn.dist < T)
  BY <1>1 DEF DecisionInv
<1> HIDE DEF C, T
<1>9. CASE decidedOn.shows = "floor"
  <2>1. decidedOn.dist \in FloorReadings
    BY <1>1, <1>9 DEF EchoInv, ShownBy
  <2>2. decidedOn.dist >= hi - MARGIN
    BY <1>3, <2>1, MarginAssumption
  <2>3. ~(decidedOn.dist < T)
    BY <1>4, <1>5, <1>6, <1>7, <2>2
  <2> QED
    BY <1>8, <1>9, <2>3
<1>10. CASE decidedOn.shows = "vehicle"
  <2>1. decidedOn.dist \in VehicleReadings
    BY <1>1, <1>10 DEF EchoInv, ShownBy
  <2>2. decidedOn.dist < lo - MARGIN
    BY <1>3, <2>1, MarginAssumption
  <2>3. decidedOn.dist < T
    BY <1>4, <1>5, <1>6, <1>7, <2>2
  <2> QED
    BY <1>8, <1>10, <2>3
<1> QED
  BY <1>7, <1>9, <1>10

\* DecisionMatchesEcho is that, before the report is sent.
LEMMA InvGivesDecision == IInv => DecisionMatchesEcho
BY InvGivesFlag DEF DecisionMatchesEcho, Cycle

\* HubTruthful is that, after it was sent: the hub's report and the flag agree.
LEMMA InvGivesHub == IInv => HubTruthful
<1> SUFFICES ASSUME IInv, gap = 0, allEmpty, decidedOn.shows # "none"
             PROVE  hub # NoReport /\ (hub.is_free <=> decidedOn.shows = "floor")
  BY DEF HubTruthful
<1>1. pc \in Cycle /\ hub \in Reports /\ T_APPS.bParkingLotIsFree = hub.is_free
  BY DEF IInv, ChangeInv, Cycle
<1> QED
  BY <1>1, InvGivesFlag, NoReportAssumption

\* ChangeFlagAgrees: the flags sent are those of the decision, which compared with
\* what the hub knows.
LEMMA InvGivesChange == IInv => ChangeFlagAgrees
<1> SUFFICES ASSUME ChangeInv, pc = "send", gap = 1
             PROVE  payload.is_state_changed <=> payload.is_free # hub.is_free
  BY DEF IInv, ChangeFlagAgrees
<1> QED
  BY DEF ChangeInv

\* SizeExceedsMargin: neither the subtraction nor the conversion to a signed number
\* wraps.
LEMMA InvGivesSize == IInv => SizeExceedsMargin
<1> SUFFICES ASSUME IInv, pc = "send", ~payload.is_free, ~echoed,
                    T_APPS.ulCalibrationDistance >= MARGIN
             PROVE  payload.vehicle_size > MARGIN
  BY DEF SizeExceedsMargin
<1> DEFINE C == T_APPS.ulCalibrationDistance
<1> DEFINE T == Threshold
<1>1. TypeOK /\ SampleInv /\ DecisionInv /\ ChangeInv
  BY DEF IInv
<1>2. /\ payload.vehicle_size = Signed(Uint32(C - dist))
      /\ dist < T
  BY <1>1 DEF DecisionInv, ChangeInv, VehicleSize
<1>3. dist \in Nat /\ C \in Nat /\ MARGIN \in Nat /\ W \in Nat
  BY <1>1, DistanceBounds, MarginAssumption, WidthAssumption DEF TypeOK
<1>4. T = C - MARGIN
  BY <1>1, ThresholdExact
<1>5. C < W \div 2
  <2>1. hi \in Distances /\ hi \in Nat /\ C \in lo .. hi
    BY <1>1, ReadingAssumption DEF SampleInv, CalibrationWithinSamples, Cycle, TypeOK
  <2>2. lo \in Nat /\ hi < W \div 2
    BY <1>1, <2>1, DistanceBounds DEF TypeOK
  <2> QED
    BY <1>3, <2>1, <2>2
<1> HIDE DEF C, T
<1>6. C - dist > MARGIN /\ C - dist \in 0 .. (W - 1) /\ C - dist < W \div 2
  BY <1>2, <1>3, <1>4, <1>5
<1>7. Uint32(C - dist) = C - dist
  BY <1>6, Uint32Small
<1>8. Signed(C - dist) = C - dist
  BY <1>6 DEF Signed
<1> QED
  BY <1>2, <1>6, <1>7, <1>8

\* Every value of every variable is one the program can hold
\* (app_config.h:45-49, azure_iot_main.c:302-320, azure_iot_cloud.c:347-457).
THEOREM TypeCorrect == Spec => []TypeOK
<1>1. IInv => TypeOK
  BY DEF IInv
<1> QED
  BY <1>1, IInvHolds, PTL

\* For every number of probes and every reading the calibration distance lies
\* between the nearest and the farthest sample: the uint32_t sum never wraps and
\* the integer average never leaves their range (azure_iot_main.c:302-320).
THEOREM CalibrationIsAnAverage == Spec => []CalibrationWithinSamples
<1>1. IInv => CalibrationWithinSamples
  BY DEF IInv, SampleInv
<1> QED
  BY <1>1, IInvHolds, PTL

\* On a device that calibrated on the empty lot every decision taken on an echo
\* of the lot is right, whatever the margin and the readings that meet
\* MarginAssumption (azure_iot_main.c:302-320, azure_iot_cloud.c:349-350).
THEOREM DecisionIsRight == Spec => []DecisionMatchesEcho
BY InvGivesDecision, IInvHolds, PTL

\* Whatever cycles were lost before it, the change flag of a report that follows
\* a reported cycle agrees with the hub's two reports (azure_iot_cloud.c:347-353,
\* 444-457).
THEOREM ChangeFlagIsRight == Spec => []ChangeFlagAgrees
BY InvGivesChange, IInvHolds, PTL

\* Whatever moved, failed or restarted before it, a delivered report of a device that
\* calibrated on the empty lot tells the hub what its echo came from
\* (azure_iot_cloud.c:347-353, 444-465).
THEOREM HubIsTruthful == Spec => []HubTruthful
BY InvGivesHub, IInvHolds, PTL

\* A vehicle size built from the decided distance is above the margin for every
\* width of the arithmetic (azure_iot_cloud.c:349-350, 451-456).
THEOREM SizeIsAboveMargin == Spec => []SizeExceedsMargin
BY InvGivesSize, IInvHolds, PTL

================================================================================

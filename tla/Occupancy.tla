------------------------------- MODULE Occupancy -------------------------------
(* How the device comes to say that its lot is free: the calibration at start-up   *)
(* (sensor_calibrate, azure_iot_main.c), the echoes that overwrite the last          *)
(* distance from the interrupt handler (hc_sr04.c), the decision of every cycle and   *)
(* the report built from it later in the same cycle (prvAzureMainLoopTask,             *)
(* azure_iot_cloud.c).  A cycle whose session fails sends nothing; which step of the   *)
(* session fails is the subject of CloudTask.                                          *)
EXTENDS Integers

CONSTANTS
  W,                    \* 2^32: the width of uint32_t and of long
  MARGIN,               \* appconfigCALIBRATION_ERROR_MARGIN
  PROBES,               \* appconfigSENSOR_CALIBRATION_PROBES
  FloorReadings,        \* distances (cm) an echo from the empty lot can give
  VehicleReadings,      \* and one from a parked vehicle
  FAR,                  \* and one that never came back (the sensor's time-out)
  NoReport,             \* what the hub knows before the first report
  MaxMoves, MaxFaults   \* bounds: arrivals and departures, failures

Readings == FloorReadings \cup VehicleReadings \cup {FAR}
Distances == Readings \cup {0}

ASSUME WidthAssumption == W \in Nat \ {0, 1}

ASSUME ReadingAssumption ==
  /\ Readings \subseteq Nat
  /\ FloorReadings # {} /\ VehicleReadings # {}
  /\ PROBES \in Nat \ {0}
  \* d_raw / 58 is below 2^32 / 58
  /\ \A d \in Readings : PROBES * d < W /\ d < W \div 2

\* The lot and the margin suit each other: floor readings agree within the margin
\* and every vehicle is nearer to the sensor than that.
ASSUME MarginAssumption ==
  /\ MARGIN \in Nat
  /\ \A f, g \in FloorReadings : f >= g - MARGIN /\ MARGIN <= g
  /\ \A g \in FloorReadings, v \in VehicleReadings : v < g - MARGIN

ASSUME BoundsAssumption == MaxMoves \in Nat /\ MaxFaults \in Nat

VARIABLES
  vehicle,   \* a vehicle is parked under the sensor
  pending,   \* a trigger was sent and its echo is not back
  dist,      \* ulGetDistanceCm(): d_raw / 58
  shows,     \* (history) what the echo behind dist came from
  pc,        \* the step of app_main, then of the cloud task
  probe,     \* probes taken: i of the calibration loop
  acc,       \* and their sum
  lo, hi,    \* (history) the smallest and the largest of them
  allEmpty,  \* (history) all of them came from the empty lot
  T_APPS,    \* the application's state
  decidedOn, \* (history) the distance of the last decision and what it showed
  echoed,    \* (history) an echo came since
  payload,   \* the report being sent
  hub,       \* the last report the hub received
  gap,       \* (history) decisions since the one hub reports: 0, 1, or 2 for more
  moves, faults

sensorVars == <<pending, dist, shows, echoed>>
calibVars  == <<probe, acc, lo, hi, allEmpty>>
bounds     == <<moves, faults>>
vars == <<vehicle, sensorVars, pc, calibVars, T_APPS, decidedOn, payload, hub, gap, bounds>>

Sources  == {"none", "floor", "vehicle"}
NoSize   == W                \* a report of a free lot gives no size
Reports  == [is_free : BOOLEAN, is_state_changed : BOOLEAN, vehicle_size : Int]

ASSUME NoReportAssumption == NoReport \notin Reports

Report(free, changed, size) ==
  [is_free |-> free, is_state_changed |-> changed, vehicle_size |-> size]
Cycle    == {"decide", "build", "send"}

Uint32(x) == x % W
\* "%ld" of a uint32_t, where long has 32 bits.
Signed(x) == IF x < W \div 2 THEN x ELSE x - W

TypeOK ==
  /\ vehicle \in BOOLEAN
  /\ pending \in BOOLEAN
  /\ dist \in Distances
  /\ shows \in Sources
  /\ pc \in {"trigger", "sample"} \cup Cycle
  /\ probe \in 0 .. PROBES
  /\ acc \in 0 .. (W - 1)
  /\ lo \in Nat /\ hi \in Nat
  /\ allEmpty \in BOOLEAN
  /\ T_APPS \in [ulCalibrationDistance : 0 .. (W - 1),
                 bParkingLotIsFree : BOOLEAN, bIsStateChanged : BOOLEAN]
  /\ decidedOn \in [dist : Distances, shows : Sources]
  /\ echoed \in BOOLEAN
  /\ payload \in Reports
  /\ hub \in Reports \cup {NoReport}
  /\ gap \in 0 .. 2
  /\ moves \in 0 .. MaxMoves
  /\ faults \in 0 .. MaxFaults

\* T_APPS as the image initialises it.
InitialState == [ulCalibrationDistance |-> W - 1,
                 bParkingLotIsFree |-> TRUE, bIsStateChanged |-> FALSE]

Init ==
  /\ vehicle \in BOOLEAN
  /\ pending = FALSE
  /\ dist = 0
  /\ shows = "none"
  /\ pc = "trigger"
  /\ probe = 0
  /\ acc = 0
  /\ lo = W /\ hi = 0
  /\ allEmpty = TRUE
  /\ T_APPS = InitialState
  /\ decidedOn = [dist |-> 0, shows |-> "none"]
  /\ echoed = FALSE
  /\ payload = Report(TRUE, FALSE, NoSize)
  /\ hub = NoReport
  /\ gap = 2
  /\ moves = 0
  /\ faults = 0

Fault == faults < MaxFaults /\ faults' = faults + 1

--------------------------------------------------------------------------------
(* The lot and the sensor. *)

Move ==
  /\ moves < MaxMoves
  /\ moves' = moves + 1
  /\ vehicle' = ~vehicle
  /\ UNCHANGED <<sensorVars, pc, calibVars, T_APPS, decidedOn, payload, hub, gap, faults>>

\* The falling edge of an echo: the interrupt handler overwrites d_raw.
Overwrite(d, from) ==
  /\ pending' = FALSE
  /\ dist' = d
  /\ shows' = from
  /\ echoed' = TRUE

Echo ==
  /\ pending
  /\ IF vehicle THEN \E d \in VehicleReadings : Overwrite(d, "vehicle")
                ELSE \E d \in FloorReadings : Overwrite(d, "floor")
  /\ UNCHANGED <<vehicle, pc, calibVars, T_APPS, decidedOn, payload, hub, gap, bounds>>

\* No reflection: the sensor ends the pulse by itself, or no edge comes at all.
EchoLost ==
  /\ pending
  /\ Fault
  /\ \/ Overwrite(FAR, "none")
     \/ pending' = FALSE /\ UNCHANGED <<dist, shows, echoed>>
  /\ UNCHANGED <<vehicle, pc, calibVars, T_APPS, decidedOn, payload, hub, gap, moves>>

\* vSensorHandlingTask, every second once app_main has created it.
SensorTask ==
  /\ pc \in Cycle
  /\ ~pending
  /\ pending' = TRUE
  /\ UNCHANGED <<vehicle, dist, shows, echoed, pc, calibVars, T_APPS, decidedOn, payload,
                 hub, gap, bounds>>

--------------------------------------------------------------------------------
(* sensor_calibrate. *)

TriggerProbe ==
  /\ pc = "trigger"
  /\ pc' = "sample"
  /\ pending' = TRUE
  /\ UNCHANGED <<vehicle, dist, shows, echoed, calibVars, T_APPS, decidedOn, payload, hub,
                 gap, bounds>>

\* Mutant: one turn of the loop too many.
MoreProbes_OffByOne(n) == n <= PROBES
MoreProbes(n) == n < PROBES

\* Mutant: divides by the index of the last probe.
Average_LastIndex(sum) == IF PROBES > 1 THEN sum \div (PROBES - 1) ELSE sum
Average(sum) == sum \div PROBES

\* After vTaskDelay(100 ms) no echo is on its way any more. Whatever dist holds is
\* a sample, new or not; the last one sets the calibration distance.
SampleProbe ==
  /\ pc = "sample"
  /\ ~pending
  /\ probe' = probe + 1
  /\ acc' = Uint32(acc + dist)
  /\ lo' = IF dist < lo THEN dist ELSE lo
  /\ hi' = IF dist > hi THEN dist ELSE hi
  /\ allEmpty' = (allEmpty /\ shows = "floor")
  /\ IF MoreProbes(probe')
     THEN pc' = "trigger" /\ UNCHANGED T_APPS
     ELSE /\ pc' = "decide"
          /\ T_APPS' = [T_APPS EXCEPT !.ulCalibrationDistance = Average(acc')]
  /\ UNCHANGED <<vehicle, sensorVars, decidedOn, payload, hub, gap, bounds>>

--------------------------------------------------------------------------------
(* The cloud task. *)

\* Mutant: the margin on the wrong side.
Threshold_Above == Uint32(T_APPS.ulCalibrationDistance + MARGIN)

\* Anything nearer than this is a vehicle; uint32_t subtraction.
Threshold == Uint32(T_APPS.ulCalibrationDistance - MARGIN)

\* Mutant: the previous state is read after it has been overwritten.
Changed_ReadLate(prev, free) == free # free
Changed(prev, free) == free # prev

\* The decision that starts a cycle, sent or not.
Decide ==
  LET free == ~(dist < Threshold) IN
  /\ T_APPS' = [T_APPS EXCEPT !.bParkingLotIsFree = free,
                              !.bIsStateChanged = Changed(T_APPS.bParkingLotIsFree, free)]
  /\ decidedOn' = [dist |-> dist, shows |-> shows]
  /\ echoed' = FALSE
  /\ gap' = IF gap = 0 THEN 1 ELSE 2

DecideAndConnect ==
  /\ pc = "decide"
  /\ Decide
  /\ pc' = "build"
  /\ UNCHANGED <<vehicle, pending, dist, shows, calibVars, payload, hub, bounds>>

\* Offline: the next cycle decides again.
DecideInVain ==
  /\ pc = "decide"
  /\ Decide
  /\ UNCHANGED <<vehicle, pending, dist, shows, pc, calibVars, payload, hub, bounds>>

\* No session comes about.
SessionFails ==
  /\ pc = "build"
  /\ Fault
  /\ pc' = "decide"
  /\ UNCHANGED <<vehicle, sensorVars, calibVars, T_APPS, decidedOn, payload, hub, gap, moves>>

\* Mutant: the subtraction the other way round.
VehicleSize_Swapped == Signed(Uint32(dist - T_APPS.ulCalibrationDistance))
VehicleSize == Signed(Uint32(T_APPS.ulCalibrationDistance - dist))

\* Mutant: the flag is computed anew from the distance of the moment.
BuildPayload_Recomputes ==
  /\ pc = "build"
  /\ pc' = "send"
  /\ payload' = Report(~(dist < Threshold), T_APPS.bIsStateChanged, NoSize)
  /\ UNCHANGED <<vehicle, sensorVars, calibVars, T_APPS, decidedOn, hub, gap, bounds>>

\* The payload takes the flags of the decision and a distance of its own.
BuildPayload ==
  /\ pc = "build"
  /\ pc' = "send"
  /\ payload' = Report(T_APPS.bParkingLotIsFree, T_APPS.bIsStateChanged,
                       IF T_APPS.bParkingLotIsFree THEN NoSize ELSE VehicleSize)
  /\ UNCHANGED <<vehicle, sensorVars, calibVars, T_APPS, decidedOn, hub, gap, bounds>>

\* Mutant: only changes are sent.
SendTelemetry_OnlyChanges ==
  /\ pc = "send"
  /\ pc' = "decide"
  /\ hub' = IF payload.is_state_changed THEN payload ELSE hub
  /\ gap' = 0
  /\ UNCHANGED <<vehicle, sensorVars, calibVars, T_APPS, decidedOn, payload, bounds>>

SendTelemetry ==
  /\ pc = "send"
  /\ pc' = "decide"
  /\ hub' = payload
  /\ gap' = 0
  /\ UNCHANGED <<vehicle, sensorVars, calibVars, T_APPS, decidedOn, payload, bounds>>

\* The report is lost with its session and never sent again.
SendFails ==
  /\ pc = "send"
  /\ Fault
  /\ pc' = "decide"
  /\ UNCHANGED <<vehicle, sensorVars, calibVars, T_APPS, decidedOn, payload, hub, gap, moves>>

\* A failed assertion or a power loss: the device forgets everything and
\* calibrates again, whatever is under the sensor by then.
Restart ==
  /\ Fault
  /\ pending' = FALSE
  /\ dist' = 0
  /\ shows' = "none"
  /\ echoed' = FALSE
  /\ pc' = "trigger"
  /\ probe' = 0
  /\ acc' = 0
  /\ lo' = W /\ hi' = 0
  /\ allEmpty' = TRUE
  /\ T_APPS' = InitialState
  /\ decidedOn' = [dist |-> 0, shows |-> "none"]
  /\ payload' = Report(TRUE, FALSE, NoSize)
  /\ gap' = 2
  /\ UNCHANGED <<vehicle, hub, moves>>

Calibration == TriggerProbe \/ SampleProbe
CloudCycle  == DecideAndConnect \/ DecideInVain \/ SessionFails
               \/ BuildPayload \/ SendTelemetry \/ SendFails

Next == Move \/ Echo \/ EchoLost \/ SensorTask \/ Calibration \/ CloudCycle \/ Restart

Spec == Init /\ [][Next]_vars

\* Both tasks run, a trigger is answered by an edge or by nothing, and the network that
\* a cycle finds down is up again for a later one (CloudTask).
Fairness ==
  /\ WF_vars(Calibration) /\ WF_vars(CloudCycle) /\ SF_vars(DecideAndConnect)
  /\ WF_vars(SensorTask) /\ WF_vars(Echo)
FairSpec == Spec /\ Fairness

--------------------------------------------------------------------------------
(* Safety. *)

\* Calibrated, the device compares with a distance that lies between its nearest
\* and its farthest sample: the uint32_t sum and the integer division
\* (azure_iot_main.c:304-317) lose nothing that matters.
CalibrationWithinSamples ==
  pc \in Cycle => T_APPS.ulCalibrationDistance \in lo .. hi

\* On a device that calibrated on the empty lot, a decision taken on an echo of
\* the lot says free exactly when that echo came from the floor: averaging, margin
\* and unsigned threshold together separate the two (azure_iot_main.c:302-320,
\* azure_iot_cloud.c:349-350).
DecisionMatchesEcho ==
  pc \in {"build", "send"} /\ allEmpty /\ decidedOn.shows # "none" =>
    (T_APPS.bParkingLotIsFree <=> decidedOn.shows = "floor")

\* When the previous cycle was the last one reported, the change flag sent now
\* tells what a comparison of the two reports would (azure_iot_cloud.c:347-353,
\* 444-457), through lost cycles before it and a vehicle that comes and goes.
ChangeFlagAgrees ==
  pc = "send" /\ gap = 1 =>
    (payload.is_state_changed <=> payload.is_free # hub.is_free)

\* A reported cycle leaves the hub knowing what its echo showed, if the device calibrated
\* on the empty lot: whatever moves, arrives, fails or restarts between the echo, the
\* decision, the payload and the send, a report that counts as delivered is there and is
\* true of the lot as it was decided on (azure_iot_cloud.c:347-353, 444-465).
HubTruthful ==
  gap = 0 /\ allEmpty /\ decidedOn.shows # "none" =>
    hub # NoReport /\ (hub.is_free <=> decidedOn.shows = "floor")

\* A report of an occupied lot gives a vehicle size above the margin as long as no
\* echo came between the decision and the payload and the calibration distance is
\* not below the margin (azure_iot_cloud.c:349-350, 451-456): only those two make
\* it wrong.
SizeExceedsMargin ==
  pc = "send" /\ ~payload.is_free /\ ~echoed /\ T_APPS.ulCalibrationDistance >= MARGIN =>
    payload.vehicle_size > MARGIN

(* Liveness. *)

\* Once vehicles stop moving and failures stop, the hub ends up knowing the truth
\* about the lot if the device calibrated on the empty lot, and it is not misled
\* again by a stale distance or a lost report (azure_iot_cloud.c:345-495,
\* hc_sr04.c:76-84).
HubLearnsTruth ==
  <>[](allEmpty => hub # NoReport /\ (hub.is_free <=> ~vehicle))

(* What the documents say and the code does not do. *)

\* "Detects whether a parking space is occupied by measuring the distance to the
\* floor or a vehicle" (README.md:14): decided on an echo from a vehicle, a report
\* says occupied.
VehicleIsDetected ==
  pc = "send" /\ decidedOn.shows = "vehicle" => ~payload.is_free

\* The error margin "allows values lesser than calibrated value to still be
\* considered as equal to the calibrated value itself" (Kconfig.projbuild:18-19):
\* a distance within the margin of the calibration distance means free.
WithinMarginIsFree ==
  pc \in {"build", "send"} /\ decidedOn.dist + MARGIN >= T_APPS.ulCalibrationDistance =>
    T_APPS.bParkingLotIsFree

\* The payload tells "Whether the occupancy state has changed" (README.md:56): a
\* report that differs from the last one the hub received says so.
ChangeIsReported ==
  pc = "send" /\ hub # NoReport /\ payload.is_free # hub.is_free => payload.is_state_changed

================================================================================

--------------------------------- MODULE Device ---------------------------------
(* The whole device: the calls and failures of CloudTask with the decisions and      *)
(* reports of Occupancy made where the code makes them, the sensor beside them, and    *)
(* the calibration that every restart repeats before the task runs again.  Occupancy    *)
(* knows three steps of a cycle; here they are spread over the session's calls, their    *)
(* failures, jumps and assertions.                                                        *)
EXTENDS CloudTask

CONSTANTS
  W, MARGIN, PROBES, FloorReadings, VehicleReadings, FAR, NoReport, MaxMoves,
  MaxLost    \* bound: echoes, sessions and reports lost, and restarts

ASSUME LossAssumption == MaxLost \in Nat /\ MaxFaults <= MaxLost

VARIABLES
  boot,      \* sensor_calibrate: trigger or sample; done: the tasks may run
  vehicle, pending, dist, shows, probe, acc, lo, hi, allEmpty, T_APPS, decidedOn, echoed,
  payload, hub, gap, moves,   \* as in Occupancy
  lost       \* its faults

BeforeReport == {"tlsConnect", "backoff", "hubInit", "mqttConnect", "subC2D", "subCmd",
                 "subProp", "request"}

\* The step of Occupancy that the device is at.
Phase == IF boot # "done" THEN boot
         ELSE IF pc \in BeforeReport THEN "build"
         ELSE IF pc = "publish" THEN "send" ELSE "decide"

Occ == INSTANCE Occupancy WITH pc <- Phase, faults <- lost, MaxFaults <- MaxLost

\* The device is built with a sensor, a lot and a margin that suit each other.
ASSUME OccupancyAssumption ==
  /\ Occ!WidthAssumption /\ Occ!ReadingAssumption /\ Occ!MarginAssumption
  /\ Occ!BoundsAssumption /\ Occ!NoReportAssumption

sensorVars == <<pending, dist, shows, echoed>>
calibVars  == <<probe, acc, lo, hi, allEmpty>>
lotVars == <<vehicle, sensorVars, calibVars, T_APPS, decidedOn, payload, hub, gap,
             moves, lost>>
deviceVars == <<vars, boot, lotVars>>

DeviceTypeOK ==
  /\ TypeOK
  /\ Occ!TypeOK
  /\ boot \in {"trigger", "sample", "done"}
  /\ lost + (MaxFaults - faults) <= MaxLost

DeviceInit ==
  /\ Init
  /\ boot = "trigger"
  /\ Occ!Init

\* Something more can be lost and every failure of the device still be counted.
Room == lost + (MaxFaults - faults) < MaxLost

--------------------------------------------------------------------------------
(* The lot, the sensor and the start-up. *)

Lot == UNCHANGED <<vars, boot>> /\ (Occ!Move \/ Occ!Echo)

EchoLost ==
  /\ Room
  /\ UNCHANGED <<vars, boot>>
  /\ Occ!EchoLost

SensorTask ==
  /\ boot = "done" /\ pc # "crashed"
  /\ UNCHANGED <<vars, boot>>
  /\ Occ!SensorTask

sensor_calibrate ==
  /\ boot # "done"
  /\ UNCHANGED vars
  /\ \/ boot' = "sample" /\ Occ!TriggerProbe
     \/ boot' \in {"trigger", "done"} /\ Occ!SampleProbe

\* The rest of app_main, after a restart; the first one ends in Init of CloudTask.
StartTasks ==
  /\ boot = "done"
  /\ Reboot
  /\ UNCHANGED <<boot, lotVars>>

--------------------------------------------------------------------------------
(* The cloud task. *)

\* The decision comes before the online check, and is taken offline too.
DecideAndCheck ==
  /\ BeginCycle
  /\ Occ!Decide
  /\ UNCHANGED <<vehicle, pending, dist, shows, calibVars, payload, hub, moves, lost>>

\* A cycle that leaves the session before its report is sent loses the report.
Loses == lost' = IF pc' \in BeforeReport \cup {"publish"} THEN lost ELSE lost + 1

ConnectFails ==
  /\ TlsConnectFails \/ SetupFails \/ SubscribeFails
  /\ Loses
  /\ UNCHANGED <<vehicle, sensorVars, calibVars, T_APPS, decidedOn, payload, hub,
                 gap, moves>>

\* The payload is built between the request of the properties and the send.
RequestAndBuild ==
  /\ RequestProperties
  /\ Loses
  /\ payload' = IF pc' = "publish"
                THEN Occ!Report(T_APPS.bParkingLotIsFree, T_APPS.bIsStateChanged,
                                IF T_APPS.bParkingLotIsFree THEN Occ!NoSize ELSE Occ!VehicleSize)
                ELSE payload
  /\ UNCHANGED <<vehicle, sensorVars, calibVars, T_APPS, decidedOn, hub, gap, moves>>

\* The hub may have got the report though the call failed, and a call that succeeds only
\* hands it over: it may be lost on the way, and nothing sends it again.
Publish ==
  /\ SendTelemetry \/ SendTelemetryFails
  /\ \/ sent' > sent /\ hub' = payload /\ gap' = 0 /\ lost' = lost
     \/ (faults' = faults => Room) /\ lost' = lost + 1 /\ UNCHANGED <<hub, gap>>
  /\ UNCHANGED <<vehicle, sensorVars, calibVars, T_APPS, decidedOn, payload, moves>>

\* The steps that only concern the session.
SessionStep ==
  /\ \/ TlsConnect \/ WaitBackoff \/ HubInit \/ MqttConnect
     \/ SubscribeCloudToDeviceMessage \/ SubscribeCommand \/ SubscribeProperties
     \/ ProcessLoop \/ StillOnline
     \/ UnsubscribeProperties \/ UnsubscribeCommand \/ UnsubscribeCloudToDeviceMessage
     \/ Disconnect \/ TlsClose \/ Delay
  /\ UNCHANGED lotVars

Cycle ==
  /\ boot = "done"
  /\ DecideAndCheck \/ ConnectFails \/ RequestAndBuild \/ Publish \/ SessionStep
  /\ UNCHANGED boot

Wifi ==
  /\ boot = "done"
  /\ WifiDisconnected \/ GotIp
  /\ UNCHANGED <<boot, lotVars>>

\* A failed assertion or a power loss takes the decision, the report and the
\* calibration with it.
Crash ==
  /\ (boot = "done" /\ (TeardownAsserts \/ WifiReconnectAborts)) \/ PowerLoss
  /\ boot' = "trigger"
  /\ Occ!Restart

\* Power is lost again before the tasks run.
CrashAgain ==
  /\ pc = "crashed"
  /\ Room
  /\ UNCHANGED vars
  /\ boot' = "trigger"
  /\ Occ!Restart

DeviceNext ==
  \/ Lot \/ EchoLost \/ SensorTask \/ sensor_calibrate \/ StartTasks
  \/ Cycle \/ Wifi \/ Crash \/ CrashAgain

DeviceSpec == DeviceInit /\ [][DeviceNext]_deviceVars

\* As in CloudTask, with the sensor's task and its echoes.
DeviceFairness ==
  /\ WF_deviceVars(sensor_calibrate) /\ WF_deviceVars(StartTasks)
  /\ WF_deviceVars(Cycle) /\ WF_deviceVars(Wifi /\ GotIp)
  /\ WF_deviceVars(SensorTask) /\ WF_deviceVars(Lot /\ Occ!Echo)
DeviceFairSpec == DeviceSpec /\ DeviceFairness

--------------------------------------------------------------------------------
(* What the composition keeps. *)

\* Through all of its calls, jumps, retries, assertions and restarts the device
\* decides, builds and sends as Occupancy says: one decision per cycle, one payload
\* per decision at most, a report lost with its session or on its way and never sent from
\* another decision (azure_iot_cloud.c:345-495, azure_iot_main.c:322-353).
ImplementsOccupancy == Occ!Spec

\* With only the fairness of the calls, the network and the sensor, the hub ends up
\* knowing the truth about the lot, if the calibration was done on the empty lot:
\* the session that Occupancy takes for granted does come about
\* (azure_iot_cloud.c:345-495, hc_sr04.c:76-84).
HubLearnsTruth == Occ!HubLearnsTruth

================================================================================

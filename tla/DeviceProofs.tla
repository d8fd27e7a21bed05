------------------------------ MODULE DeviceProofs -----------------------------
(* The device implements both of the modules it is composed of, for every retry         *)
(* configuration, set of readings and number of failures: what CloudTaskProofs and        *)
(* OccupancyProofs show of either holds in the whole.  The first is immediate, and gives   *)
(* the types the second needs; the second maps every call of the session to the step of     *)
(* Occupancy it is, or to none.                                                               *)
EXTENDS Device, CloudTaskProofs

\* While the sensor calibrates the task is not there, and every failure of the device
\* leaves room for the loss it may cause.
DInv ==
  /\ boot \in {"trigger", "sample", "done"}
  /\ boot # "done" => pc \in {"cycle", "crashed"}
  /\ lost \in Nat
  /\ lost + (MaxFaults - faults) <= MaxLost

\* Every step of the device is a step of the cloud task or leaves it alone.
LEMMA TaskStep == [DeviceNext]_deviceVars => [Next]_vars
<1> SUFFICES ASSUME [DeviceNext]_deviceVars PROVE [Next]_vars
  OBVIOUS
<1>1. CASE UNCHANGED deviceVars
  BY <1>1 DEF deviceVars
<1>2. CASE Lot \/ EchoLost \/ SensorTask \/ sensor_calibrate \/ CrashAgain
  BY <1>2 DEF Lot, EchoLost, SensorTask, sensor_calibrate, CrashAgain
<1>3. CASE StartTasks
  BY <1>3 DEF StartTasks, Next
<1>4. CASE Cycle
  BY <1>4 DEF Cycle, DecideAndCheck, ConnectFails, RequestAndBuild, Publish, SessionStep,
              Next, Iteration
<1>5. CASE Wifi
  BY <1>5 DEF Wifi, Next, Environment
<1>6. CASE Crash
  BY <1>6 DEF Crash, Next, Iteration, Environment
<1> QED
  BY <1>1, <1>2, <1>3, <1>4, <1>5, <1>6 DEF DeviceNext

\* The device makes the calls of the cloud task, in its order, so everything proved of
\* CloudTask holds of the device (azure_iot_cloud.c:345-495).
THEOREM DeviceImplementsCloudTask == DeviceSpec => Spec
<1>1. DeviceInit => Init
  BY DEF DeviceInit
<1> QED
  BY <1>1, TaskStep, PTL DEF DeviceSpec, Spec

\* What a step does to the counters: a loss is counted with a failure, or within the
\* room that is left.
LEMMA DInvStep ==
  ASSUME TypeOK, DInv, [DeviceNext]_deviceVars
  PROVE  DInv'
<1> USE LossAssumption, FaultsAssumption DEF DInv
<1>0. faults \in 0 .. MaxFaults
  BY DEF TypeOK
<1>1. CASE UNCHANGED deviceVars
  BY <1>1 DEF deviceVars, vars, lotVars
<1>2. CASE Lot \/ SensorTask
  BY <1>2 DEF Lot, SensorTask, vars, Occ!Move, Occ!Echo, Occ!SensorTask, Occ!bounds
<1>3. CASE EchoLost
  BY <1>0, <1>3 DEF EchoLost, Room, vars, Occ!EchoLost, Occ!Fault
<1>4. CASE sensor_calibrate
  BY <1>4 DEF sensor_calibrate, vars, Occ!TriggerProbe, Occ!SampleProbe, Occ!bounds
<1>5. CASE StartTasks
  BY <1>5 DEF StartTasks, Reboot, lotVars
<1>6. CASE Cycle
  <2> SUFFICES ASSUME boot = "done", boot' = boot,
                      DecideAndCheck \/ ConnectFails \/ RequestAndBuild \/ Publish \/ SessionStep
               PROVE  lost' \in Nat /\ lost' + (MaxFaults - faults') <= MaxLost
    BY <1>6 DEF Cycle
  <2>1. CASE DecideAndCheck
    BY <2>1 DEF DecideAndCheck, BeginCycle
  <2>2. CASE ConnectFails
    BY <1>0, <2>2 DEF ConnectFails, Loses, TlsConnectFails, SetupFails, SubscribeFails, Fails, Fault
  <2>3. CASE RequestAndBuild
    BY <1>0, <2>3 DEF RequestAndBuild, RequestProperties, Loses, BeforeReport, Succeeds, Fails, Fault
  <2>4. CASE Publish
    <3>1. CASE SendTelemetry
      <4>1. faults' = faults
        BY <3>1 DEF SendTelemetry, Succeeds
      <4> QED
        BY <1>0, <2>4, <4>1 DEF Publish, Room
    <3>2. CASE SendTelemetryFails
      BY <1>0, <2>4, <3>2 DEF Publish, SendTelemetryFails, Fails, Fault
    <3> QED
      BY <2>4, <3>1, <3>2 DEF Publish
  <2>5. CASE SessionStep
    <3>1. lost' = lost
      BY <2>5 DEF SessionStep, lotVars
    <3>2. faults' = faults \/ faults' = faults + 1
      BY <2>5 DEF SessionStep, TlsConnect, WaitBackoff, HubInit, MqttConnect,
                  SubscribeCloudToDeviceMessage, SubscribeCommand, SubscribeProperties,
                  Subscribe, ProcessLoop, StillOnline, UnsubscribeProperties,
                  UnsubscribeCommand, UnsubscribeCloudToDeviceMessage, Unsubscribe,
                  Disconnect, TlsClose, Delay, Succeeds, Fails, Fault
    <3> QED
      BY <1>0, <3>1, <3>2
  <2> QED
    BY <2>1, <2>2, <2>3, <2>4, <2>5
<1>7. CASE Wifi
  BY <1>0, <1>7 DEF Wifi, WifiDisconnected, GotIp, Fault, lotVars
<1>8. CASE Crash
  <2>1. pc' = "crashed" /\ faults' = faults + 1 /\ faults < MaxFaults
    BY <1>8 DEF Crash, TeardownAsserts, WifiReconnectAborts, PowerLoss, Fails, Fault
  <2>2. lost' = lost + 1 /\ boot' = "trigger"
    BY <1>8 DEF Crash, Occ!Restart, Occ!Fault
  <2> QED
    BY <1>0, <2>1, <2>2
<1>9. CASE CrashAgain
  <2>1. faults' = faults /\ pc' = "crashed" /\ lost + (MaxFaults - faults) < MaxLost
    BY <1>9 DEF CrashAgain, Room, vars
  <2>2. lost' = lost + 1 /\ boot' = "trigger"
    BY <1>9 DEF CrashAgain, Occ!Restart, Occ!Fault
  <2> QED
    BY <1>0, <2>1, <2>2
<1> QED
  BY <1>1, <1>2, <1>3, <1>4, <1>5, <1>6, <1>7, <1>8, <1>9 DEF DeviceNext

\* The bound of the losses is never in the way of a failure.
LEMMA LossFits ==
  ASSUME TypeOK, DInv, faults' = faults + 1, faults < MaxFaults
  PROVE  lost < MaxLost
BY LossAssumption, FaultsAssumption DEF TypeOK, DInv

\* The steps of a session between the decision and the report, by the step of Occupancy
\* they lie in.
LEMMA PhaseOf ==
  /\ boot = "done" /\ pc \in BeforeReport => Phase = "build"
  /\ boot = "done" /\ pc = "publish" => Phase = "send"
  /\ boot = "done" /\ pc \notin BeforeReport \cup {"publish"} => Phase = "decide"
  /\ boot # "done" => Phase = boot
BY DEF Phase, BeforeReport

\* The same after a step.
LEMMA PhaseNext ==
  /\ boot' = "done" /\ pc' \in BeforeReport => Phase' = "build"
  /\ boot' = "done" /\ pc' = "publish" => Phase' = "send"
  /\ boot' = "done" /\ pc' \notin BeforeReport \cup {"publish"} => Phase' = "decide"
  /\ boot' # "done" => Phase' = boot'
BY DEF Phase, BeforeReport

\* A step that changes neither what Occupancy knows nor its phase is none to it.
LEMMA Stutter ==
  ASSUME UNCHANGED lotVars, Phase' = Phase
  PROVE  UNCHANGED Occ!vars
BY DEF lotVars, sensorVars, calibVars, Occ!vars, Occ!sensorVars, Occ!calibVars, Occ!bounds

\* A session that fails before its report is sent is a SessionFails.
LEMMA SessionLost ==
  ASSUME boot = "done", boot' = "done", pc \in BeforeReport,
         pc' \notin BeforeReport \cup {"publish"},
         lost < MaxLost, lost' = lost + 1,
         UNCHANGED <<vehicle, sensorVars, calibVars, T_APPS, decidedOn, payload, hub, gap, moves>>
  PROVE  Occ!SessionFails
BY PhaseOf, PhaseNext DEF Occ!SessionFails, Occ!Fault, sensorVars, calibVars, Occ!sensorVars,
                          Occ!calibVars

\* Each call of a cycle is a step of Occupancy or a stutter.
LEMMA CycleStep ==
  ASSUME TypeOK, DInv, Cycle
  PROVE  Occ!CloudCycle \/ UNCHANGED Occ!vars
<1> USE DEF Succeeds, Fails, Fault
<1>0. boot = "done" /\ boot' = "done"
  BY DEF Cycle
<1>1. CASE DecideAndCheck
  <2>1. /\ pc = "cycle" /\ pc' \in {"tlsConnect", "delay"} /\ Occ!Decide
        /\ UNCHANGED <<vehicle, pending, dist, shows, calibVars, payload, hub, moves, lost>>
    BY <1>1 DEF DecideAndCheck, BeginCycle
  <2>2. Phase = "decide"
    BY <1>0, <2>1, PhaseOf DEF BeforeReport
  <2>3. CASE pc' = "tlsConnect"
    <3>1. Phase' = "build"
      BY <1>0, <2>3, PhaseNext DEF BeforeReport
    <3>2. Occ!DecideAndConnect
      BY <2>1, <2>2, <3>1 DEF Occ!DecideAndConnect, calibVars, Occ!calibVars, Occ!bounds
    <3> QED
      BY <3>2 DEF Occ!CloudCycle
  <2>4. CASE pc' = "delay"
    <3>1. Phase' = "decide"
      BY <1>0, <2>4, PhaseNext DEF BeforeReport
    <3>2. Occ!DecideInVain
      BY <2>1, <2>2, <3>1 DEF Occ!DecideInVain, calibVars, Occ!calibVars, Occ!bounds
    <3> QED
      BY <3>2 DEF Occ!CloudCycle
  <2> QED
    BY <2>1, <2>3, <2>4
<1>2. CASE ConnectFails
  <2>1. /\ pc \in BeforeReport /\ pc' # "publish"
        /\ faults' = faults + 1 /\ faults < MaxFaults
    BY <1>2 DEF ConnectFails, TlsConnectFails, GivesUp, SetupFails, SubscribeFails, BeforeReport
  <2>2. UNCHANGED <<vehicle, sensorVars, calibVars, T_APPS, decidedOn, payload, hub, gap, moves>>
    BY <1>2 DEF ConnectFails
  <2>3. CASE pc' \in BeforeReport
    <3>1. Phase' = Phase
      BY <1>0, <2>1, <2>3, PhaseOf, PhaseNext
    <3>2. UNCHANGED lotVars
      BY <1>2, <2>2, <2>3 DEF ConnectFails, Loses, lotVars
    <3> QED
      BY <3>1, <3>2, Stutter
  <2>4. CASE pc' \notin BeforeReport
    <3>1. lost' = lost + 1 /\ lost < MaxLost
      BY <1>2, <2>1, <2>4, LossFits DEF ConnectFails, Loses
    <3> QED
      BY <1>0, <2>1, <2>2, <2>4, <3>1, SessionLost DEF Occ!CloudCycle
  <2> QED
    BY <2>3, <2>4
<1>3. CASE RequestAndBuild
  <2>1. pc = "request" /\ pc \in BeforeReport /\ pc' \in {"publish", "unsubProp"}
    BY <1>3 DEF RequestAndBuild, RequestProperties, BeforeReport
  <2>2. UNCHANGED <<vehicle, sensorVars, calibVars, T_APPS, decidedOn, hub, gap, moves>>
    BY <1>3 DEF RequestAndBuild
  <2>3. CASE pc' = "publish"
    <3>1. Phase = "build" /\ Phase' = "send" /\ lost' = lost
      BY <1>0, <1>3, <2>1, <2>3, PhaseOf, PhaseNext DEF RequestAndBuild, Loses
    <3>2. payload' = Occ!Report(T_APPS.bParkingLotIsFree, T_APPS.bIsStateChanged,
                        IF T_APPS.bParkingLotIsFree THEN Occ!NoSize ELSE Occ!VehicleSize)
      BY <1>3, <2>3 DEF RequestAndBuild
    <3>3. Occ!BuildPayload
      BY <2>2, <3>1, <3>2 DEF Occ!BuildPayload, sensorVars, calibVars, Occ!sensorVars,
                              Occ!calibVars, Occ!bounds
    <3> QED
      BY <3>3 DEF Occ!CloudCycle
  <2>4. CASE pc' = "unsubProp"
    <3>1. pc' \notin BeforeReport \cup {"publish"} /\ payload' = payload
      BY <1>3, <2>4 DEF RequestAndBuild, BeforeReport
    <3>2. faults' = faults + 1 /\ faults < MaxFaults
      BY <1>3, <2>4 DEF RequestAndBuild, RequestProperties
    <3>3. lost' = lost + 1 /\ lost < MaxLost
      BY <1>3, <3>1, <3>2, LossFits DEF RequestAndBuild, Loses
    <3> QED
      BY <1>0, <2>1, <2>2, <3>1, <3>3, SessionLost DEF Occ!CloudCycle
  <2> QED
    BY <2>1, <2>3, <2>4
<1>4. CASE Publish
  <2>1. pc = "publish" /\ pc' \in {"processLoop", "unsubProp"}
    BY <1>4 DEF Publish, SendTelemetry, SendTelemetryFails
  <2>2. Phase = "send" /\ Phase' = "decide"
    BY <1>0, <2>1, PhaseOf, PhaseNext DEF BeforeReport
  <2>3. UNCHANGED <<vehicle, sensorVars, calibVars, T_APPS, decidedOn, payload, moves>>
    BY <1>4 DEF Publish
  <2>4. CASE hub' = payload /\ gap' = 0 /\ lost' = lost
    <3>1. Occ!SendTelemetry
      BY <2>2, <2>3, <2>4 DEF Occ!SendTelemetry, sensorVars, calibVars, Occ!sensorVars,
                              Occ!calibVars, Occ!bounds
    <3> QED
      BY <3>1 DEF Occ!CloudCycle
  <2>5. CASE (faults' = faults => Room) /\ lost' = lost + 1 /\ UNCHANGED <<hub, gap>>
    <3>1. lost < MaxLost
      <4>1. CASE faults' = faults
        BY <2>5, <4>1, LossAssumption, FaultsAssumption DEF Room, TypeOK, DInv
      <4>2. CASE faults' # faults
        <5>1. faults' = faults + 1 /\ faults < MaxFaults
          BY <1>4, <4>2 DEF Publish, SendTelemetry, SendTelemetryFails
        <5> QED
          BY <5>1, LossFits
      <4> QED
        BY <4>1, <4>2
    <3>2. Occ!SendFails
      BY <2>2, <2>3, <2>5, <3>1
         DEF Occ!SendFails, Occ!Fault, sensorVars, calibVars, Occ!sensorVars, Occ!calibVars
    <3> QED
      BY <3>2 DEF Occ!CloudCycle
  <2> QED
    BY <1>4, <2>4, <2>5 DEF Publish
<1>5. CASE SessionStep
  <2>1. \/ pc \in BeforeReport /\ pc' \in BeforeReport
        \/ /\ pc \notin BeforeReport \cup {"publish"}
           /\ pc' \notin BeforeReport \cup {"publish"}
    BY <1>5 DEF SessionStep, TlsConnect, WaitBackoff, HubInit, MqttConnect,
                SubscribeCloudToDeviceMessage, SubscribeCommand, SubscribeProperties,
                Subscribe, ProcessLoop, StillOnline, UnsubscribeProperties,
                UnsubscribeCommand, UnsubscribeCloudToDeviceMessage, Unsubscribe,
                Disconnect, TlsClose, Delay, BeforeReport
  <2>2. Phase' = Phase
    BY <1>0, <2>1, PhaseOf, PhaseNext
  <2> QED
    BY <1>5, <2>2, Stutter DEF SessionStep
<1> QED
  BY <1>1, <1>2, <1>3, <1>4, <1>5 DEF Cycle

\* Each step of the device is a step of Occupancy or a stutter.
LEMMA OccupancyStep ==
  ASSUME TypeOK, DInv, [DeviceNext]_deviceVars
  PROVE  [Occ!Next]_(Occ!vars)
<1>1. CASE UNCHANGED deviceVars
  <2>1. UNCHANGED lotVars /\ UNCHANGED <<pc, boot>>
    BY <1>1 DEF deviceVars, vars
  <2> QED
    BY <2>1, Stutter DEF Phase
<1>2. CASE Lot \/ EchoLost \/ SensorTask
  BY <1>2 DEF Lot, EchoLost, SensorTask, Occ!Next
<1>3. CASE sensor_calibrate
  BY <1>3 DEF sensor_calibrate, Occ!Next, Occ!Calibration
<1>4. CASE StartTasks
  <2>1. UNCHANGED lotVars /\ boot = "done" /\ boot' = "done" /\ pc = "crashed" /\ pc' = "cycle"
    BY <1>4 DEF StartTasks, Reboot
  <2>2. Phase' = Phase
    BY <2>1, PhaseOf, PhaseNext DEF BeforeReport
  <2> QED
    BY <2>1, <2>2, Stutter
<1>5. CASE Cycle
  BY <1>5, CycleStep DEF Occ!Next
<1>6. CASE Wifi
  <2>1. UNCHANGED lotVars /\ UNCHANGED <<pc, boot>>
    BY <1>6 DEF Wifi, WifiDisconnected, GotIp
  <2> QED
    BY <2>1, Stutter DEF Phase
<1>7. CASE Crash \/ CrashAgain
  BY <1>7 DEF Crash, CrashAgain, Occ!Next
<1> QED
  BY <1>1, <1>2, <1>3, <1>4, <1>5, <1>6, <1>7 DEF DeviceNext

\* Through all its calls, jumps, retries, assertions and restarts the device decides,
\* builds and sends as Occupancy says (azure_iot_cloud.c:345-495,
\* azure_iot_main.c:322-353).
THEOREM DeviceImplementsOccupancy == DeviceSpec => ImplementsOccupancy
<1>1. DeviceInit => DInv /\ Occ!Init
  BY LossAssumption, FaultsAssumption DEF DeviceInit, Init, DInv, Occ!Init
<1>2. DeviceSpec => []TypeOK
  BY DeviceImplementsCloudTask, TypeCorrect, PTL
<1>3. TypeOK /\ DInv /\ [DeviceNext]_deviceVars => DInv'
  BY DInvStep
<1>4. TypeOK /\ DInv /\ [DeviceNext]_deviceVars => [Occ!Next]_(Occ!vars)
  BY OccupancyStep
<1> QED
  BY <1>1, <1>2, <1>3, <1>4, PTL DEF DeviceSpec, ImplementsOccupancy, Occ!Spec

--------------------------------------------------------------------------------
(* What the device inherits. *)

\* The theorems about Occupancy, for the device's decisions and reports.
Proved == INSTANCE OccupancyProofs WITH pc <- Phase, faults <- lost, MaxFaults <- MaxLost

\* The device meets what those theorems assume.
LEMMA ProvedAssumptions ==
  /\ Proved!WidthAssumption /\ Proved!ReadingAssumption /\ Proved!MarginAssumption
  /\ Proved!BoundsAssumption /\ Proved!NoReportAssumption
BY OccupancyAssumption
   DEF Occ!WidthAssumption, Occ!ReadingAssumption, Occ!MarginAssumption,
       Occ!BoundsAssumption, Occ!NoReportAssumption, Proved!WidthAssumption,
       Proved!ReadingAssumption, Proved!MarginAssumption, Proved!BoundsAssumption,
       Proved!NoReportAssumption, Occ!Readings, Proved!Readings, Occ!Reports, Proved!Reports

\* Both instances are the same specification.
LEMMA SameSpec == Occ!Spec => Proved!Spec
<1>1. Occ!Init => Proved!Init
  BY DEF Occ!Init, Proved!Init, Occ!InitialState, Proved!InitialState, Occ!Report,
       Proved!Report, Occ!NoSize, Proved!NoSize
<1>2. UNCHANGED Occ!vars => UNCHANGED Proved!vars
  BY DEF Occ!vars, Proved!vars, Occ!sensorVars, Proved!sensorVars, Occ!calibVars,
       Proved!calibVars, Occ!bounds, Proved!bounds
<1>3. Occ!Next => Proved!Next
  <2> USE DEF Occ!sensorVars, Proved!sensorVars, Occ!calibVars, Proved!calibVars, Occ!bounds,
       Proved!bounds, Occ!Fault, Proved!Fault
  <2>1. Occ!Move \/ Occ!Echo \/ Occ!EchoLost \/ Occ!SensorTask => Proved!Next
    BY DEF Occ!Next, Proved!Next, Occ!Move, Proved!Move, Occ!Echo, Proved!Echo,
       Occ!EchoLost, Proved!EchoLost, Occ!Overwrite, Proved!Overwrite, Occ!SensorTask,
       Proved!SensorTask, Occ!Cycle, Proved!Cycle
  <2>2. Occ!Calibration => Proved!Calibration
    BY DEF Occ!Calibration, Proved!Calibration, Occ!TriggerProbe, Proved!TriggerProbe,
       Occ!SampleProbe, Proved!SampleProbe, Occ!Average, Proved!Average,
       Occ!MoreProbes, Proved!MoreProbes, Occ!Uint32, Proved!Uint32
  <2>3. Occ!Decide = Proved!Decide
    BY DEF Occ!Decide, Proved!Decide, Occ!Threshold, Proved!Threshold, Occ!Uint32,
       Proved!Uint32, Occ!Changed, Proved!Changed
  <2>4. Occ!DecideAndConnect \/ Occ!DecideInVain => Proved!CloudCycle
    BY <2>3 DEF Occ!DecideAndConnect, Proved!DecideAndConnect, Occ!DecideInVain,
       Proved!DecideInVain, Occ!CloudCycle, Proved!CloudCycle
  <2>5. Occ!BuildPayload => Proved!CloudCycle
    BY DEF Occ!BuildPayload, Proved!BuildPayload, Occ!VehicleSize, Proved!VehicleSize,
       Occ!Signed, Proved!Signed, Occ!Uint32, Proved!Uint32, Occ!Report, Proved!Report,
       Occ!NoSize, Proved!NoSize, Occ!CloudCycle, Proved!CloudCycle
  <2>6. Occ!SessionFails \/ Occ!SendTelemetry \/ Occ!SendFails => Proved!CloudCycle
    BY DEF Occ!SessionFails, Proved!SessionFails, Occ!SendTelemetry, Proved!SendTelemetry,
       Occ!SendFails, Proved!SendFails, Occ!CloudCycle, Proved!CloudCycle
  <2>7. Occ!Restart => Proved!Restart
    BY DEF Occ!Restart, Proved!Restart, Occ!InitialState, Proved!InitialState, Occ!Report,
       Proved!Report, Occ!NoSize, Proved!NoSize
  <2> QED
    BY <2>1, <2>2, <2>4, <2>5, <2>6, <2>7 DEF Occ!Next, Proved!Next, Occ!CloudCycle, Proved!CloudCycle
<1>4. [Occ!Next]_(Occ!vars) => [Proved!Next]_(Proved!vars)
  BY <1>2, <1>3
<1> QED
  BY <1>1, <1>4, PTL DEF Occ!Spec, Proved!Spec

\* What the device keeps of Occupancy is stated with the device's own variables.
LEMMA SameProperties ==
  /\ Proved!TypeOK => Occ!TypeOK
  /\ Proved!CalibrationWithinSamples => Occ!CalibrationWithinSamples
  /\ Proved!DecisionMatchesEcho => Occ!DecisionMatchesEcho
  /\ Proved!ChangeFlagAgrees => Occ!ChangeFlagAgrees
  /\ Proved!HubTruthful => Occ!HubTruthful
  /\ Proved!SizeExceedsMargin => Occ!SizeExceedsMargin
BY DEF Occ!TypeOK, Proved!TypeOK, Occ!Distances, Proved!Distances, Occ!Readings,
       Proved!Readings, Occ!Reports, Proved!Reports, Occ!Sources, Proved!Sources,
       Occ!Cycle, Proved!Cycle,
       Occ!CalibrationWithinSamples, Proved!CalibrationWithinSamples,
       Occ!DecisionMatchesEcho, Proved!DecisionMatchesEcho,
       Occ!ChangeFlagAgrees, Proved!ChangeFlagAgrees,
       Occ!HubTruthful, Proved!HubTruthful,
       Occ!SizeExceedsMargin, Proved!SizeExceedsMargin

\* In the whole device every value of every variable of both parts is one the program
\* can hold, and a failure never finds the room for its loss used up
\* (azure_iot_cloud.c:345-495, azure_iot_main.c:302-353).
THEOREM DeviceTypeCorrect == DeviceSpec => []DeviceTypeOK
<1>1. DeviceInit => DInv
  BY LossAssumption, FaultsAssumption DEF DeviceInit, Init, DInv, Occ!Init
<1>2. DeviceSpec => []TypeOK
  BY DeviceImplementsCloudTask, TypeCorrect, PTL
<1>3. TypeOK /\ DInv /\ [DeviceNext]_deviceVars => DInv'
  BY DInvStep
<1>4. DeviceSpec => []Proved!TypeOK
  <2>1. Proved!Spec => []Proved!TypeOK
    BY ProvedAssumptions, Proved!TypeCorrect
  <2> QED
    BY <2>1, SameSpec, DeviceImplementsOccupancy, PTL DEF ImplementsOccupancy
<1>5. TypeOK /\ DInv /\ Proved!TypeOK => DeviceTypeOK
  BY SameProperties DEF DInv, DeviceTypeOK
<1> QED
  BY <1>1, <1>2, <1>3, <1>4, <1>5, PTL DEF DeviceSpec

\* Through every failing call, jump, lost session and restart the device decides and
\* reports as truly as Occupancy does with its idealised sessions: the calibration is an
\* average of its samples, a decision is what its echo showed, a delivered report is true,
\* its change flag and its size are right (azure_iot_main.c:302-320,
\* azure_iot_cloud.c:345-495).
THEOREM DeviceReportsTruthfully ==
  DeviceSpec => [](/\ Occ!CalibrationWithinSamples /\ Occ!DecisionMatchesEcho
                   /\ Occ!ChangeFlagAgrees /\ Occ!HubTruthful /\ Occ!SizeExceedsMargin)
<1> USE ProvedAssumptions
<1>1. DeviceSpec => Proved!Spec
  BY SameSpec, DeviceImplementsOccupancy, PTL DEF ImplementsOccupancy
<1>2. Proved!Spec => []Proved!CalibrationWithinSamples
  BY Proved!CalibrationIsAnAverage
<1>3. Proved!Spec => []Proved!DecisionMatchesEcho
  BY Proved!DecisionIsRight
<1>4. Proved!Spec => []Proved!ChangeFlagAgrees
  BY Proved!ChangeFlagIsRight
<1>5. Proved!Spec => []Proved!HubTruthful
  BY Proved!HubIsTruthful
<1>6. Proved!Spec => []Proved!SizeExceedsMargin
  BY Proved!SizeIsAboveMargin
<1> QED
  BY <1>1, <1>2, <1>3, <1>4, <1>5, <1>6, SameProperties, PTL

\* The data that the composition adds to the loop disturbs none of what is proved of the
\* loop alone: the transport, the cleanup, the retries, the sessions and the end of every cycle of the whole
\* device are those of CloudTask (azure_iot_cloud.c:345-495).
THEOREM DeviceKeepsTheLoop ==
  DeviceSpec => /\ [](/\ ContextOwned /\ TransportReady /\ CleanupLadder
                      /\ RetriesBounded /\ SessionsAccounted)
                /\ JitterGrows
                /\ CallsRunOut
                /\ ImplementsLadder
BY DeviceImplementsCloudTask, TransportIsOwned, TransportIsReady, LadderIsClean,
   RetriesAreBounded, LostSessionsAreAccounted, JitterIsMonotone, CyclesEnd, LoopImplementsLadder,
   PTL

================================================================================

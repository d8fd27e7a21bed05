------------------------------ MODULE StartupProofs ------------------------------
(* Startup for any number of failures: type correctness and the safety invariants. *)
EXTENDS Startup, SequenceTheorems, TLAPS

NoPost  == {"initialise", "calibrate", "wifiStart"}
NoGive  == NoPost \cup {"wifiConnect", "createSemaphore"}
Waits   == {"shutdownHandler", "waitIp"}
HasTime == {"createSensorTask", "createCloudTask", "ended"}
HasIp   == {"printIps", "startSntp", "waitTime"} \cup HasTime

\* What the queue holds and the flag says for each state of the station.
NetInv ==
  /\ station = "off" => events = <<>> /\ ~s_is_connected_to_internet
  /\ station = "joining" => events = <<>> /\ ~s_is_connected_to_internet
  /\ station = "idle" => \/ events = <<>> /\ ~s_is_connected_to_internet
                         \/ events = <<"disconnected">>
                         \/ events = <<"gotIp", "disconnected">>
  /\ station = "up" => \/ events = <<>> /\ s_is_connected_to_internet
                       \/ events = <<"gotIp">>
  /\ step \in NoPost => station = "off"
  /\ step = "wifiConnect" => station = "idle" /\ events = <<>>

\* Who has the semaphore, and for what.
SemInv ==
  /\ step \in NoGive => s_semph_get_ip_addrs = NULL /\ ~hadAddress
  /\ step \in Waits \cup HasIp => s_semph_get_ip_addrs # NULL
  /\ step \in Waits => (hadAddress <=> s_semph_get_ip_addrs = NR_OF_IP_ADDRESSES_TO_WAIT_FOR)
  /\ step \in HasIp => hadAddress

\* What the steps of app_main before this one have brought.
ReadyInv ==
  /\ step \notin {"initialise", "calibrate", "restarting"} => calibrated
  /\ step \in HasTime => g_timeInitialized
  /\ CloudTaskStartsReady

IInv == TypeOK /\ NetInv /\ SemInv /\ ReadyInv

\* The tuples that UNCHANGED names are their variables.
LEMMA Frames ==
  /\ UNCHANGED network <=> /\ station' = station
                           /\ events' = events
                           /\ s_is_connected_to_internet' = s_is_connected_to_internet
  /\ UNCHANGED waiting <=> /\ s_semph_get_ip_addrs' = s_semph_get_ip_addrs
                           /\ hadAddress' = hadAddress
  /\ UNCHANGED time <=> sntp' = sntp /\ g_timeInitialized' = g_timeInitialized
BY DEF network, waiting, time

\* A failure keeps the count of failures within its bound.
LEMMA FaultCounted ==
  ASSUME faults \in 0 .. MaxFaults, Fault
  PROVE  faults' \in 0 .. MaxFaults
BY FaultsAssumption DEF Fault

\* What posting and handling make of the queues there are.
LEMMA QueueSteps ==
  /\ Append(<<>>, "gotIp") = <<"gotIp">>
  /\ Append(<<>>, "disconnected") = <<"disconnected">>
  /\ Append(<<"gotIp">>, "disconnected") = <<"gotIp", "disconnected">>
  /\ Head(<<"gotIp">>) = "gotIp" /\ Tail(<<"gotIp">>) = <<>>
  /\ Head(<<"disconnected">>) = "disconnected" /\ Tail(<<"disconnected">>) = <<>>
  /\ Head(<<"gotIp", "disconnected">>) = "gotIp"
  /\ Tail(<<"gotIp", "disconnected">>) = <<"disconnected">>
  /\ <<"gotIp">> # <<>> /\ <<"disconnected">> # <<>> /\ <<"gotIp", "disconnected">> # <<>>
<1>1. Append(<<>>, "gotIp") = <<"gotIp">>
  OBVIOUS
<1>2. Append(<<>>, "disconnected") = <<"disconnected">>
  OBVIOUS
<1>3. Append(<<"gotIp">>, "disconnected") = <<"gotIp", "disconnected">>
  <2>. DEFINE E == {"gotIp", "disconnected"}
              s == <<"gotIp">>
              t == <<"gotIp", "disconnected">>
              a == Append(s, "disconnected")
  <2>1. s \in Seq(E) /\ "disconnected" \in E
    OBVIOUS
  <2>2. Len(s) = 1
    OBVIOUS
  <2>3. s[1] = "gotIp"
    OBVIOUS
  <2>4. t \in Seq(E)
    OBVIOUS
  <2>5. Len(t) = 2
    OBVIOUS
  <2>6. t[1] = "gotIp" /\ t[2] = "disconnected"
    OBVIOUS
  <2>. HIDE DEF E, s, t
  <2>7. a \in Seq(E) /\ Len(a) = Len(s) + 1 /\ a[Len(s) + 1] = "disconnected"
        /\ \A i \in 1 .. Len(s) : a[i] = s[i]
    BY <2>1, AppendProperties
  <2>. HIDE DEF a
  <2>8. Len(a) = 2 /\ a[1] = "gotIp" /\ a[2] = "disconnected"
    BY <2>2, <2>3, <2>7
  <2>9. a = t
    BY <2>4, <2>5, <2>6, <2>7, <2>8, SeqEqual
  <2>. QED  BY <2>9 DEF a, s, t
<1>4. Head(<<"gotIp">>) = "gotIp"
  OBVIOUS
<1>5. Tail(<<"gotIp">>) = <<>>
  OBVIOUS
<1>6. Head(<<"disconnected">>) = "disconnected" /\ Tail(<<"disconnected">>) = <<>>
  OBVIOUS
<1>7. Head(<<"gotIp", "disconnected">>) = "gotIp"
  OBVIOUS
<1>8. Tail(<<"gotIp", "disconnected">>) = <<"disconnected">>
  OBVIOUS
<1>9. <<"gotIp">> # <<>> /\ <<"disconnected">> # <<>> /\ <<"gotIp", "disconnected">> # <<>>
  OBVIOUS
<1>. QED  BY <1>1, <1>2, <1>3, <1>4, <1>5, <1>6, <1>7, <1>8, <1>9

--------------------------------------------------------------------------------
(* Where it starts. *)

\* The invariant holds at power-on.
LEMMA IInvInit ==
  ASSUME Init
  PROVE  IInv
<1>1. TypeOK
  <2>1. s_semph_get_ip_addrs \in {NULL} \cup 0 .. NR_OF_IP_ADDRESSES_TO_WAIT_FOR
    BY DEF Init
  <2>2. events \in Queues
    BY DEF Init, Queues
  <2>3. faults \in 0 .. MaxFaults
    BY FaultsAssumption DEF Init
  <2>. QED  BY <2>1, <2>2, <2>3 DEF Init, TypeOK, Steps, MainSteps
<1>2. NetInv
  BY DEF Init, NetInv, NoPost
<1>3. SemInv
  BY DEF Init, SemInv, NoPost, NoGive, Waits, HasIp, HasTime
<1>4. ReadyInv
  BY DEF Init, ReadyInv, HasTime, CloudTaskStartsReady
<1>. QED  BY <1>1, <1>2, <1>3, <1>4 DEF IInv

--------------------------------------------------------------------------------
(* The steps, grouped by the part of the invariant that they can disturb. *)

\* A step of app_main after the join has begun leaves the station, the queue and the
\* flag as they are.
LEMMA MainFrame ==
  ASSUME \/ Initialise \/ sensor_calibrate \/ CreateSemaphore \/ RegisterShutdownHandler
         \/ WaitForIp \/ PrintIps \/ StartSntp \/ WaitForTime
         \/ CreateSensorTask \/ CreateCloudTask \/ CheckAborts \/ Crash
         \/ time_sync_notification_cb
  PROVE  UNCHANGED network
BY DEF Initialise, sensor_calibrate, CreateSemaphore, RegisterShutdownHandler, WaitForIp,
       PrintIps, StartSntp, WaitForTime, CreateSensorTask, CreateCloudTask, xTaskCreate,
       CheckAborts, Crash, time_sync_notification_cb, network

\* Where such a step goes: no step leads back to the ones before the join.
LEMMA MainGoes ==
  ASSUME \/ Initialise \/ sensor_calibrate \/ CreateSemaphore \/ RegisterShutdownHandler
         \/ WaitForIp \/ PrintIps \/ StartSntp \/ WaitForTime
         \/ CreateSensorTask \/ CreateCloudTask \/ CheckAborts \/ Crash
         \/ time_sync_notification_cb
  PROVE  /\ step' \in NoPost => step \in NoPost
         /\ step' = "wifiConnect" => step = "wifiConnect"
BY DEF Initialise, sensor_calibrate, CreateSemaphore, RegisterShutdownHandler, WaitForIp,
       PrintIps, StartSntp, WaitForTime, CreateSensorTask, CreateCloudTask, xTaskCreate,
       CheckAborts, Crash, time_sync_notification_cb, Goes, NoPost

\* The queue stays one of the four, and says what the station and the flag disagree on.
LEMMA NetInvStep ==
  ASSUME TypeOK, NetInv, [Next]_vars
  PROVE  NetInv' /\ events' \in Queues
<1>. USE DEF Goes, NoPost
<1>1. CASE UNCHANGED network /\ (step' \in NoPost => step \in NoPost)
           /\ (step' = "wifiConnect" => step = "wifiConnect")
  BY <1>1, Frames DEF NetInv, TypeOK
<1>2. CASE wifi_start
  <2>1. station = "off" /\ events = <<>> /\ ~s_is_connected_to_internet
    BY <1>2 DEF wifi_start, NetInv
  <2>2. station' = "idle" /\ events' = <<>> /\ ~s_is_connected_to_internet'
        /\ step' = "wifiConnect"
    BY <1>2, <2>1 DEF wifi_start
  <2>. QED  BY <2>2 DEF NetInv, Queues
<1>3. CASE WifiConnect
  <2>1. station = "idle" /\ events = <<>>
    BY <1>3 DEF WifiConnect, NetInv
  <2>2. ~s_is_connected_to_internet
    BY <2>1, QueueSteps DEF NetInv
  <2>3. station' \in {"idle", "joining"} /\ events' = <<>> /\ ~s_is_connected_to_internet'
        /\ step' = "createSemaphore"
    BY <1>3, <2>1, <2>2 DEF WifiConnect
  <2>. QED  BY <2>3 DEF NetInv, Queues
<1>4. CASE on_got_ip
  <2>1. /\ step' \in {step, "restarting"} /\ s_is_connected_to_internet' = TRUE
        /\ station' = station
        /\ events # <<>> /\ Head(events) = "gotIp" /\ events' = Tail(events)
    BY <1>4 DEF on_got_ip, Handles
  <2>2. \/ station = "idle" /\ events = <<"gotIp", "disconnected">>
        \/ station = "up" /\ events = <<"gotIp">>
    BY <2>1, QueueSteps DEF NetInv, TypeOK
  <2>3. step' \notin NoPost /\ step' # "wifiConnect"
    BY <2>1, <2>2, QueueSteps DEF NetInv
  <2>4. \/ station' = "idle" /\ events' = <<"disconnected">>
        \/ station' = "up" /\ events' = <<>>
    BY <2>1, <2>2, QueueSteps
  <2>. QED  BY <2>1, <2>3, <2>4 DEF NetInv, Queues
<1>5. CASE on_wifi_disconnect
  <2>1. /\ step' \in {step, "restarting"} /\ s_is_connected_to_internet' = FALSE
        /\ station' \in {station, "joining"}
        /\ events # <<>> /\ Head(events) = "disconnected" /\ events' = Tail(events)
    BY <1>5 DEF on_wifi_disconnect, Handles
  <2>2. station = "idle" /\ events = <<"disconnected">>
    BY <2>1, QueueSteps DEF NetInv, TypeOK
  <2>3. step' \notin NoPost /\ step' # "wifiConnect"
    BY <2>1, <2>2, QueueSteps DEF NetInv
  <2>4. events' = <<>>
    BY <2>1, <2>2, QueueSteps
  <2>. QED  BY <2>1, <2>2, <2>3, <2>4 DEF NetInv, Queues
<1>6. CASE AddressObtained
  <2>1. station = "joining" /\ events = <<>>
    BY <1>6 DEF AddressObtained, NetInv
  <2>2. step \notin NoPost /\ step # "wifiConnect"
    BY <2>1 DEF NetInv
  <2>3. station' = "up" /\ step' = step /\ events' = Append(events, "gotIp")
    BY <1>6 DEF AddressObtained, Post
  <2>4. events' = <<"gotIp">>
    BY <2>1, <2>3, QueueSteps
  <2>. QED  BY <2>2, <2>3, <2>4 DEF NetInv, Queues
<1>7. CASE LinkLost
  <2>1. station \in {"joining", "up"}
    BY <1>7 DEF LinkLost
  <2>2. events \in {<<>>, <<"gotIp">>}
    BY <2>1 DEF NetInv
  <2>3. step \notin NoPost /\ step # "wifiConnect"
    BY <2>1 DEF NetInv
  <2>4. station' = "idle" /\ step' = step /\ events' = Append(events, "disconnected")
    BY <1>7 DEF LinkLost, Post
  <2>5. events' \in {<<"disconnected">>, <<"gotIp", "disconnected">>}
    BY <2>2, <2>4, QueueSteps
  <2>. QED  BY <2>3, <2>4, <2>5 DEF NetInv, Queues
<1>8. CASE Reboot
  BY <1>8 DEF Reboot, NetInv, Queues
<1>9. CASE UNCHANGED vars
  BY <1>1, <1>9 DEF vars, network
<1>. HIDE DEF Goes, NoPost
<1>. QED  BY <1>1, <1>2, <1>3, <1>4, <1>5, <1>6, <1>7, <1>8, <1>9, MainFrame, MainGoes
          DEF Next, app_main, EventTask, Environment

\* Every other variable keeps its type.
LEMMA TypeOKStep ==
  ASSUME TypeOK, NetInv, SemInv, [Next]_vars
  PROVE  TypeOK'
<1>1. events' \in Queues
  BY NetInvStep
<1>. USE Frames
     DEF Next, app_main, EventTask, Environment, vars, Initialise, sensor_calibrate,
         wifi_start, WifiConnect, CreateSemaphore, RegisterShutdownHandler, PrintIps,
         StartSntp, WaitForTime, xTaskCreate, CreateSensorTask, CreateCloudTask,
         CheckAborts, on_got_ip, on_wifi_disconnect, AddressObtained, LinkLost,
         time_sync_notification_cb, Crash, Reboot
<1>2. step' \in Steps
  BY DEF TypeOK, Goes, Steps, MainSteps, WaitForIp
<1>3. faults' \in 0 .. MaxFaults
  BY FaultCounted DEF TypeOK, WaitForIp
<1>4. station' \in {"off", "idle", "joining", "up"} /\ s_is_connected_to_internet' \in BOOLEAN
  BY DEF TypeOK, WaitForIp
<1>5. hadAddress' \in BOOLEAN
  BY DEF TypeOK, WaitForIp
<1>6. s_semph_get_ip_addrs' \in {NULL} \cup 0 .. NR_OF_IP_ADDRESSES_TO_WAIT_FOR
  <2>1. CASE WaitForIp
    <3>1. s_semph_get_ip_addrs \in {NULL} \cup {0, 1}
      BY DEF TypeOK, NR_OF_IP_ADDRESSES_TO_WAIT_FOR
    <3>2. s_semph_get_ip_addrs # NULL
      BY <2>1 DEF WaitForIp, SemInv, Goes, Waits
    <3>. QED  BY <2>1, <3>1, <3>2 DEF WaitForIp, NR_OF_IP_ADDRESSES_TO_WAIT_FOR
  <2>2. CASE s_semph_get_ip_addrs' \in {s_semph_get_ip_addrs, NULL, 0, 1}
    BY <2>2 DEF TypeOK, NR_OF_IP_ADDRESSES_TO_WAIT_FOR
  <2>3. WaitForIp \/ s_semph_get_ip_addrs' \in {s_semph_get_ip_addrs, NULL, 0, 1}
    BY DEF NR_OF_IP_ADDRESSES_TO_WAIT_FOR
  <2>. QED  BY <2>1, <2>2, <2>3
<1>7. calibrated' \in BOOLEAN /\ sntp' \in BOOLEAN /\ g_timeInitialized' \in BOOLEAN
  BY DEF TypeOK, WaitForIp
<1>8. tasks' \subseteq Tasks /\ unnoticed' \subseteq Unchecked
  BY DEF TypeOK, Tasks, Unchecked, WaitForIp
<1>. QED  BY <1>1, <1>2, <1>3, <1>4, <1>5, <1>6, <1>7, <1>8 DEF TypeOK

\* An address makes the semaphore free, and app_main is the only one to take it.
LEMMA SemInvStep ==
  ASSUME TypeOK, NetInv, SemInv, [Next]_vars
  PROVE  SemInv'
<1>. USE DEF NoPost, NoGive, Waits, HasIp, HasTime
<1>1. CASE UNCHANGED waiting /\ (step' = step \/ step' = "restarting")
  BY <1>1, Frames DEF SemInv
<1>2. CASE Initialise \/ sensor_calibrate \/ wifi_start \/ WifiConnect
           \/ RegisterShutdownHandler \/ PrintIps \/ StartSntp \/ WaitForTime
           \/ CreateSensorTask \/ CreateCloudTask
  BY <1>2, Frames
  DEF SemInv, Goes, Initialise, sensor_calibrate, wifi_start, WifiConnect,
      RegisterShutdownHandler, PrintIps, StartSntp, WaitForTime, CreateSensorTask,
      CreateCloudTask, xTaskCreate
<1>3. CASE CreateSemaphore
  BY <1>3, NullAssumption DEF SemInv, Goes, CreateSemaphore, NR_OF_IP_ADDRESSES_TO_WAIT_FOR
<1>4. CASE WaitForIp
  <2>1. /\ step = "waitIp" /\ step' = "printIps" /\ hadAddress' = hadAddress
        /\ s_semph_get_ip_addrs > 0
        /\ s_semph_get_ip_addrs' = s_semph_get_ip_addrs - 1
    BY <1>4 DEF WaitForIp, Goes
  <2>2. s_semph_get_ip_addrs = 1
    BY <2>1 DEF SemInv, TypeOK, NR_OF_IP_ADDRESSES_TO_WAIT_FOR
  <2>3. hadAddress
    BY <2>1, <2>2 DEF SemInv, NR_OF_IP_ADDRESSES_TO_WAIT_FOR
  <2>4. s_semph_get_ip_addrs' # NULL
    BY <2>1, <2>2, NullAssumption
  <2>. QED  BY <2>1, <2>3, <2>4 DEF SemInv
<1>5. CASE on_got_ip
  BY <1>5, NullAssumption
  DEF SemInv, on_got_ip, Handles, NR_OF_IP_ADDRESSES_TO_WAIT_FOR
<1>6. CASE on_wifi_disconnect \/ CheckAborts \/ AddressObtained \/ LinkLost
           \/ time_sync_notification_cb \/ Crash \/ UNCHANGED vars
  BY <1>1, <1>6
  DEF on_wifi_disconnect, CheckAborts, AddressObtained, LinkLost,
      time_sync_notification_cb, Crash, vars
<1>7. CASE Reboot
  BY <1>7 DEF SemInv, Reboot
<1>. QED  BY <1>2, <1>3, <1>4, <1>5, <1>6, <1>7 DEF Next, app_main, EventTask, Environment

\* What app_main has brought stays until the restart.
LEMMA ReadyInvStep ==
  ASSUME TypeOK, SemInv, ReadyInv, [Next]_vars
  PROVE  ReadyInv'
<1>. USE DEF HasTime, HasIp, CloudTaskStartsReady
<1>1. CASE Reboot
  BY <1>1 DEF ReadyInv, Reboot
<1>2. CASE CreateCloudTask
  BY <1>2, Frames DEF ReadyInv, SemInv, CreateCloudTask, xTaskCreate, Goes
<1>3. CASE CreateSensorTask
  BY <1>3, Frames DEF ReadyInv, CreateSensorTask, xTaskCreate, Goes
<1>4. CASE sensor_calibrate \/ WaitForTime \/ time_sync_notification_cb \/ StartSntp
  BY <1>4, Frames
  DEF ReadyInv, sensor_calibrate, WaitForTime, time_sync_notification_cb, StartSntp, Goes
<1>5. CASE Initialise \/ wifi_start \/ WifiConnect \/ CreateSemaphore
           \/ RegisterShutdownHandler \/ WaitForIp \/ PrintIps
  BY <1>5, Frames
  DEF ReadyInv, Initialise, wifi_start, WifiConnect, CreateSemaphore,
      RegisterShutdownHandler, WaitForIp, PrintIps, Goes
<1>6. CASE CheckAborts \/ Crash \/ on_got_ip \/ on_wifi_disconnect \/ AddressObtained
           \/ LinkLost \/ UNCHANGED vars
  BY <1>6, Frames
  DEF ReadyInv, CheckAborts, Crash, on_got_ip, on_wifi_disconnect, AddressObtained,
      LinkLost, vars
<1>. QED  BY <1>1, <1>2, <1>3, <1>4, <1>5, <1>6 DEF Next, app_main, EventTask, Environment

--------------------------------------------------------------------------------
(* What holds in every behaviour. *)

\* The invariant is inductive.
LEMMA IInvHolds == Spec => []IInv
<1>1. Init => IInv
  BY IInvInit
<1>2. IInv /\ [Next]_vars => IInv'
  BY NetInvStep, TypeOKStep, SemInvStep, ReadyInvStep DEF IInv
<1>. QED  BY <1>1, <1>2, PTL DEF Spec

\* Every variable keeps its type: the queue never holds more than an address and the
\* link lost after it, and the semaphore's count never leaves its range.
THEOREM TypeCorrect == Spec => []TypeOK
<1>1. IInv => TypeOK
  BY DEF IInv
<1>. QED  BY <1>1, IInvHolds, PTL

\* With every event handled, the flag that the cloud task reads says whether the
\* station has an address.
THEOREM FlagIsRight == Spec => []FlagFollowsNetwork
<1>1. IInv => FlagFollowsNetwork
  BY QueueSteps DEF IInv, TypeOK, NetInv, FlagFollowsNetwork
<1>. QED  BY <1>1, IInvHolds, PTL

\* The semaphore holds an address that came until app_main takes it.
THEOREM NoAddressIsMissed == Spec => []AddressNotMissed
<1>1. IInv => AddressNotMissed
  BY DEF IInv, SemInv, Waits, AddressNotMissed, NR_OF_IP_ADDRESSES_TO_WAIT_FOR
<1>. QED  BY <1>1, IInvHolds, PTL

\* The cloud task exists on a calibrated device only, which had an address and
\* knows the time.
THEOREM CloudTaskIsReady == Spec => []CloudTaskStartsReady
<1>1. IInv => CloudTaskStartsReady
  BY DEF IInv, ReadyInv
<1>. QED  BY <1>1, IInvHolds, PTL

================================================================================

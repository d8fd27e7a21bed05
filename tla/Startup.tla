-------------------------------- MODULE Startup --------------------------------
(* azure_iot_main.c: app_main brings the device up while the event task handles the *)
(* Wi-Fi driver's events.  The driver posts them to the default event loop, a queue; *)
(* the event task may run a handler between any two steps of app_main.  The          *)
(* calibration is one step here (Occupancy has it in detail), and so is the life of  *)
(* the cloud task once it exists (CloudTask).                                        *)
EXTENDS Integers, Sequences

CONSTANTS NULL,       \* no semaphore yet
          MaxFaults   \* bound: failures of any kind in a behaviour

ASSUME NullAssumption == NULL \notin Nat
ASSUME FaultsAssumption == MaxFaults \in Nat

NR_OF_IP_ADDRESSES_TO_WAIT_FOR == 1

VARIABLES
  step,                      \* what app_main does next
  station,                   \* the driver: off, idle, joining a network or up
  events,                    \* posted to the event loop and not handled yet
  s_is_connected_to_internet,
  s_semph_get_ip_addrs,      \* NULL or the semaphore's count
  hadAddress,                \* (history) on_got_ip ran since the start
  calibrated,                \* T_APPS.ulCalibrationDistance was set
  sntp,                      \* the SNTP client runs
  g_timeInitialized,
  tasks,                     \* the tasks app_main created
  unnoticed,                 \* (history) calls that failed and nobody checked
  faults

network == <<station, events, s_is_connected_to_internet>>
waiting == <<s_semph_get_ip_addrs, hadAddress>>
time    == <<sntp, g_timeInitialized>>
vars == <<step, network, waiting, calibrated, time, tasks, unnoticed, faults>>

MainSteps == {"initialise", "calibrate", "wifiStart", "wifiConnect", "createSemaphore",
              "shutdownHandler", "waitIp", "printIps", "startSntp", "waitTime",
              "createSensorTask", "createCloudTask", "ended"}
Steps     == MainSteps \cup {"restarting"}
Tasks     == {"SensorHandlerLoop", "AzureMainLoop"}
Unchecked == {"esp_wifi_connect"} \cup Tasks

\* The driver posts a lost link only after the address it took, and joins again
\* only when told to.
Queues == {<<>>, <<"gotIp">>, <<"disconnected">>, <<"gotIp", "disconnected">>}

TypeOK ==
  /\ step \in Steps
  /\ station \in {"off", "idle", "joining", "up"}
  /\ events \in Queues
  /\ s_is_connected_to_internet \in BOOLEAN
  /\ s_semph_get_ip_addrs \in {NULL} \cup 0 .. NR_OF_IP_ADDRESSES_TO_WAIT_FOR
  /\ hadAddress \in BOOLEAN
  /\ calibrated \in BOOLEAN
  /\ sntp \in BOOLEAN
  /\ g_timeInitialized \in BOOLEAN
  /\ tasks \subseteq Tasks
  /\ unnoticed \subseteq Unchecked
  /\ faults \in 0 .. MaxFaults

Init ==
  /\ step = "initialise"
  /\ station = "off"
  /\ events = <<>>
  /\ s_is_connected_to_internet = FALSE
  /\ s_semph_get_ip_addrs = NULL
  /\ hadAddress = FALSE
  /\ calibrated = FALSE
  /\ sntp = FALSE
  /\ g_timeInitialized = FALSE
  /\ tasks = {}
  /\ unnoticed = {}
  /\ faults = 0

Running == step # "restarting"
Fault == faults < MaxFaults /\ faults' = faults + 1
Goes(at, next) == step = at /\ step' = next

--------------------------------------------------------------------------------
(* app_main. *)

\* Storage, network interface, event loop.
Initialise ==
  /\ Goes("initialise", "calibrate")
  /\ UNCHANGED <<network, waiting, calibrated, time, tasks, unnoticed, faults>>

sensor_calibrate ==
  /\ Goes("calibrate", "wifiStart")
  /\ calibrated' = TRUE
  /\ UNCHANGED <<network, waiting, time, tasks, unnoticed, faults>>

\* wifi_start up to esp_wifi_start: from here on the handlers are registered.
wifi_start ==
  /\ Goes("wifiStart", "wifiConnect")
  /\ station' = "idle"
  /\ UNCHANGED <<events, s_is_connected_to_internet, waiting, calibrated, time, tasks,
                 unnoticed, faults>>

\* Its last call. A refusal is not checked, and no event follows it.
WifiConnect ==
  /\ Goes("wifiConnect", "createSemaphore")
  /\ \/ station' = "joining" /\ UNCHANGED <<unnoticed, faults>>
     \/ Fault /\ unnoticed' = unnoticed \cup {"esp_wifi_connect"} /\ UNCHANGED station
  /\ UNCHANGED <<events, s_is_connected_to_internet, waiting, calibrated, time, tasks>>

\* Mutant: the semaphore is created as if the address had come.
CreateSemaphore_Given ==
  /\ Goes("createSemaphore", "shutdownHandler")
  /\ s_semph_get_ip_addrs' = NR_OF_IP_ADDRESSES_TO_WAIT_FOR
  /\ UNCHANGED <<network, hadAddress, calibrated, time, tasks, unnoticed, faults>>

CreateSemaphore ==
  /\ Goes("createSemaphore", "shutdownHandler")
  /\ s_semph_get_ip_addrs' = 0
  /\ UNCHANGED <<network, hadAddress, calibrated, time, tasks, unnoticed, faults>>

\* The handler registered here runs in esp_restart only, which nothing calls.
RegisterShutdownHandler ==
  /\ Goes("shutdownHandler", "waitIp")
  /\ UNCHANGED <<network, waiting, calibrated, time, tasks, unnoticed, faults>>

\* xSemaphoreTake, without a time-out.
WaitForIp ==
  /\ Goes("waitIp", "printIps")
  /\ s_semph_get_ip_addrs > 0
  /\ s_semph_get_ip_addrs' = s_semph_get_ip_addrs - 1
  /\ UNCHANGED <<network, hadAddress, calibrated, time, tasks, unnoticed, faults>>

PrintIps ==
  /\ Goes("printIps", "startSntp")
  /\ UNCHANGED <<network, waiting, calibrated, time, tasks, unnoticed, faults>>

StartSntp ==
  /\ Goes("startSntp", "waitTime")
  /\ sntp' = TRUE
  /\ UNCHANGED <<network, waiting, calibrated, g_timeInitialized, tasks, unnoticed, faults>>

\* The polling loop of initialize_time leaves it once the callback ran.
WaitForTime ==
  /\ Goes("waitTime", "createSensorTask")
  /\ g_timeInitialized
  /\ UNCHANGED <<network, waiting, calibrated, time, tasks, unnoticed, faults>>

\* xTaskCreate, whose result app_main does not look at.
xTaskCreate(at, task, next) ==
  /\ Goes(at, next)
  /\ \/ tasks' = tasks \cup {task} /\ UNCHANGED <<unnoticed, faults>>
     \/ Fault /\ unnoticed' = unnoticed \cup {task} /\ UNCHANGED tasks
  /\ UNCHANGED <<network, waiting, calibrated, time>>

CreateSensorTask == xTaskCreate("createSensorTask", "SensorHandlerLoop", "createCloudTask")
CreateCloudTask  == xTaskCreate("createCloudTask", "AzureMainLoop", "ended")

app_main ==
  \/ Initialise \/ sensor_calibrate \/ wifi_start \/ WifiConnect \/ CreateSemaphore
  \/ RegisterShutdownHandler \/ WaitForIp \/ PrintIps \/ StartSntp \/ WaitForTime
  \/ CreateSensorTask \/ CreateCloudTask

\* ESP_ERROR_CHECK aborts at the steps that use it.
CheckAborts ==
  /\ step \in {"initialise", "wifiStart", "shutdownHandler", "printIps"}
  /\ Fault
  /\ step' = "restarting"
  /\ UNCHANGED <<network, waiting, calibrated, time, tasks, unnoticed>>

--------------------------------------------------------------------------------
(* The event task. *)

Handles(event) == Running /\ events # <<>> /\ Head(events) = event /\ events' = Tail(events)

\* Mutant: without a semaphore the address is only noted.
on_got_ip_Unchecked ==
  /\ Handles("gotIp")
  /\ s_is_connected_to_internet' = TRUE
  /\ hadAddress' = TRUE
  /\ s_semph_get_ip_addrs' = IF s_semph_get_ip_addrs = NULL THEN NULL
                             ELSE NR_OF_IP_ADDRESSES_TO_WAIT_FOR
  /\ UNCHANGED <<step, station, calibrated, time, tasks, unnoticed, faults>>

\* Mutant: the count has no maximum.
on_got_ip_Uncapped ==
  /\ Handles("gotIp")
  /\ s_is_connected_to_internet' = TRUE
  /\ hadAddress' = TRUE
  /\ s_semph_get_ip_addrs # NULL
  /\ s_semph_get_ip_addrs' = s_semph_get_ip_addrs + 1
  /\ UNCHANGED <<step, station, calibrated, time, tasks, unnoticed, faults>>

\* The semaphore is given up to its maximum. The kernel asserts that there is one: a
\* join that outruns app_main restarts the device, and counts as a failure.
on_got_ip ==
  /\ Handles("gotIp")
  /\ s_is_connected_to_internet' = TRUE
  /\ hadAddress' = TRUE
  /\ \/ /\ s_semph_get_ip_addrs = NULL
        /\ Fault
        /\ step' = "restarting"
        /\ UNCHANGED s_semph_get_ip_addrs
     \/ /\ s_semph_get_ip_addrs # NULL
        /\ s_semph_get_ip_addrs' = NR_OF_IP_ADDRESSES_TO_WAIT_FOR
        /\ UNCHANGED <<step, faults>>
  /\ UNCHANGED <<station, calibrated, time, tasks, unnoticed>>

\* Mutant: the flag is left as it was.
on_wifi_disconnect_KeepsFlag ==
  /\ Handles("disconnected")
  /\ station' = "joining"
  /\ UNCHANGED <<step, s_is_connected_to_internet, waiting, calibrated, time, tasks,
                 unnoticed, faults>>

\* Mutant: the handler does not join again.
on_wifi_disconnect_NoJoin ==
  /\ Handles("disconnected")
  /\ s_is_connected_to_internet' = FALSE
  /\ UNCHANGED <<step, station, waiting, calibrated, time, tasks, unnoticed, faults>>

\* It joins again; ESP_ERROR_CHECK aborts when the driver refuses.
on_wifi_disconnect ==
  /\ Handles("disconnected")
  /\ s_is_connected_to_internet' = FALSE
  /\ \/ station' = "joining" /\ UNCHANGED <<step, faults>>
     \/ Fault /\ step' = "restarting" /\ UNCHANGED station
  /\ UNCHANGED <<waiting, calibrated, time, tasks, unnoticed>>

--------------------------------------------------------------------------------
(* The driver, the time server, the other tasks. *)

Post(event) == events' = Append(events, event)

AddressObtained ==
  /\ Running
  /\ station = "joining"
  /\ station' = "up"
  /\ Post("gotIp")
  /\ UNCHANGED <<step, s_is_connected_to_internet, waiting, calibrated, time, tasks,
                 unnoticed, faults>>

\* An attempt to join fails, or the link is lost.
LinkLost ==
  /\ Running
  /\ station \in {"joining", "up"}
  /\ Fault
  /\ station' = "idle"
  /\ Post("disconnected")
  /\ UNCHANGED <<step, s_is_connected_to_internet, waiting, calibrated, time, tasks,
                 unnoticed>>

time_sync_notification_cb ==
  /\ Running
  /\ sntp /\ station = "up"
  /\ ~g_timeInitialized
  /\ g_timeInitialized' = TRUE
  /\ UNCHANGED <<step, network, waiting, calibrated, sntp, tasks, unnoticed, faults>>

\* A power loss, or an assertion of the cloud task.
Crash ==
  /\ Running
  /\ Fault
  /\ step' = "restarting"
  /\ UNCHANGED <<network, waiting, calibrated, time, tasks, unnoticed>>

Reboot ==
  /\ step = "restarting"
  /\ step' = "initialise"
  /\ station' = "off"
  /\ events' = <<>>
  /\ s_is_connected_to_internet' = FALSE
  /\ s_semph_get_ip_addrs' = NULL
  /\ hadAddress' = FALSE
  /\ calibrated' = FALSE
  /\ sntp' = FALSE
  /\ g_timeInitialized' = FALSE
  /\ tasks' = {}
  /\ unnoticed' = {}
  /\ UNCHANGED faults

EventTask   == on_got_ip \/ on_wifi_disconnect
Environment == AddressObtained \/ LinkLost \/ time_sync_notification_cb \/ Crash

Next == app_main \/ CheckAborts \/ EventTask \/ Environment \/ Reboot

Spec == Init /\ [][Next]_vars

\* Both tasks run; an access point gives an address and the time server the time
\* to a station that stays up; a panic restarts the chip.
Fairness ==
  /\ WF_vars(app_main) /\ WF_vars(EventTask)
  /\ WF_vars(AddressObtained) /\ WF_vars(time_sync_notification_cb)
  /\ WF_vars(Reboot)
FairSpec == Spec /\ Fairness

--------------------------------------------------------------------------------
(* Safety. *)

\* With every event handled, the flag that the cloud task reads says whether the
\* station has an address, through joins that fail, links lost before their
\* address is handled, and restarts (azure_iot_main.c:95-132, 270-272).
FlagFollowsNetwork ==
  Running /\ events = <<>> => (s_is_connected_to_internet <=> station = "up")

\* app_main cannot miss the address it waits for: once on_got_ip ran, the semaphore
\* holds it until it is taken. An address before the semaphore exists does not go
\* unseen either, it restarts the device (azure_iot_main.c:109-113, 239-250).
AddressNotMissed == step = "waitIp" /\ hadAddress => s_semph_get_ip_addrs > 0

\* The cloud task starts on a device that is calibrated, had an address and knows
\* the time: the waits of app_main, the handlers and the callback together order
\* what prvAzureMainLoopTask relies on (azure_iot_main.c:322-353).
CloudTaskStartsReady ==
  "AzureMainLoop" \in tasks => calibrated /\ hadAddress /\ g_timeInitialized

(* Liveness. *)

\* When failures stop, the device comes up with both tasks, whatever happened on
\* the way; the only thing that can keep it from it is one of the three failures
\* that the code does not look at (azure_iot_main.c:196, 335, 345).
ComesUp == <>[](tasks = Tasks \/ unnoticed # {})

\* When failures stop, the flag goes back to TRUE and stays there, however many links
\* were lost and joins refused or failed before, with their events in whatever order
\* against app_main; only a first join that was refused unseen brings no event
\* that would try again.  The cloud task waits for this in every cycle
\* (azure_iot_main.c:95-132, 196, 270-272; azure_iot_cloud.c:355).
FlagRecovers ==
  <>[](s_is_connected_to_internet \/ "esp_wifi_connect" \in unnoticed)

================================================================================

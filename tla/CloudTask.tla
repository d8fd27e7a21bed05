------------------------------- MODULE CloudTask -------------------------------
(* prvAzureMainLoopTask (azure_iot_cloud.c): the loop that opens a session with    *)
(* the IoT hub, sends one report in it and takes it down again, with the Wi-Fi      *)
(* handlers (azure_iot_main.c) that set the flag it reads, and the restarts that    *)
(* its assertions and power losses cause.  pc names the call the task is about to   *)
(* make; the handlers run on the event task and may come between any two steps.     *)
(* What the report says is the subject of Occupancy.                                *)
EXTENDS Backoff, TlsTransport

CONSTANT MaxFaults  \* bound: failures of any kind in a behaviour

ASSUME FaultsAssumption == MaxFaults \in Nat

VARIABLES
  pc,                 \* the step the task is at
  retry,              \* xReconnectParams of prvConnectToServerWithBackoffRetries
  usNextRetryBackOff, \* its delay before the next attempt
  attempts,           \* (history) connects tried by the current call of it
  online,             \* s_is_connected_to_internet
  joining,            \* esp_wifi_connect was called, no address yet
  mqtt,               \* the MQTT connection over the current TLS session
  subs,               \* what is subscribed over it
  sent,               \* (history) reports handed to the hub over the TLS session
  aborted,            \* (history) sessions left open by a "continue"
  faults              \* failures so far

retryVars == <<retry, usNextRetryBackOff, attempts>>
wifiVars  == <<online, joining>>
hubVars   == <<mqtt, subs, sent>>
vars == <<tlsVars, pc, retryVars, wifiVars, hubVars, aborted, faults>>

Topics == {"c2d", "cmd", "prop"}
HubSteps == {"mqttConnect", "subC2D", "subCmd", "subProp", "request", "publish",
             "processLoop", "unsubProp", "unsubCmd", "unsubC2D", "disconnect"}
Steps == HubSteps \cup {"cycle", "tlsConnect", "backoff", "hubInit", "stillOnline",
                        "tlsClose", "delay", "crashed"}

\* The steps that use the TLS transport.
TransportSteps == HubSteps \cup {"hubInit", "stillOnline", "tlsClose"}

\* The steps after which the session only goes down.
ClosingSteps == {"unsubProp", "unsubCmd", "unsubC2D", "disconnect", "tlsClose", "crashed"}

TypeOK ==
  /\ TlsTypeOK
  /\ pc \in Steps
  /\ retry \in Contexts
  /\ usNextRetryBackOff \in 0 .. RETRY_MAX_BACKOFF_DELAY_MS
  /\ attempts \in Nat
  /\ online \in BOOLEAN
  /\ joining \in BOOLEAN
  /\ mqtt \in BOOLEAN
  /\ subs \subseteq Topics
  /\ sent \in Nat
  /\ aborted \in Nat
  /\ faults \in 0 .. MaxFaults

FreshRetry == InitializeParams(RETRY_BACKOFF_BASE_MS, RETRY_MAX_BACKOFF_DELAY_MS,
                               RETRY_MAX_ATTEMPTS)

\* app_main creates the task once example_connect has waited for an address; the
\* link may have been lost again since (Startup).
Init ==
  /\ TlsInit
  /\ pc = "cycle"
  /\ retry = FreshRetry
  /\ usNextRetryBackOff = 0
  /\ attempts = 0
  /\ online \in BOOLEAN
  /\ joining = ~online
  /\ mqtt = FALSE
  /\ subs = {}
  /\ sent = 0
  /\ aborted = 0
  /\ faults = 0

\* A call that fails where it could have succeeded.
Fault == faults < MaxFaults /\ faults' = faults + 1

--------------------------------------------------------------------------------
(* One iteration of the loop. *)

\* The decision on the lot is taken here too (Occupancy); then the online check.
BeginCycle ==
  /\ pc = "cycle"
  /\ IF online
     THEN /\ pc' = "tlsConnect"
          /\ retry' = FreshRetry
          /\ usNextRetryBackOff' = 0
          /\ attempts' = 0
     ELSE /\ pc' = "delay"
          /\ UNCHANGED retryVars
  /\ UNCHANGED <<tlsVars, wifiVars, hubVars, aborted, faults>>

TlsConnect ==
  /\ pc = "tlsConnect"
  /\ TLS_Socket_Connect_Success
  /\ pc' = "hubInit"
  /\ attempts' = attempts + 1
  /\ mqtt' = FALSE
  /\ sent' = 0
  /\ UNCHANGED <<retry, usNextRetryBackOff, wifiVars, subs, aborted, faults>>

\* Mutant: the caller goes on as if the connect had succeeded.
GivesUp_Ignored == pc' = "hubInit"
\* The caller's "continue" when prvConnectToServerWithBackoffRetries returns 1.
GivesUp == pc' = "cycle"

\* A failed attempt draws the wait before the next one, or gives up the call with
\* "continue" when the attempts are exhausted.
TlsConnectFails ==
  /\ pc = "tlsConnect"
  /\ Fault
  /\ TLS_Socket_Connect_Failure \/ TLS_Socket_Connect_NoMemory
  /\ attempts' = attempts + 1
  /\ IF RetriesLeft(retry)
     THEN /\ \E r \in configRAND32 : usNextRetryBackOff' = NextBackOff(retry, r)
          /\ retry' = AfterBackoff(retry)
          /\ pc' = "backoff"
     ELSE /\ GivesUp
          /\ UNCHANGED <<retry, usNextRetryBackOff>>
  /\ UNCHANGED <<wifiVars, hubVars, aborted>>

WaitBackoff ==
  /\ pc = "backoff"
  /\ pc' = "tlsConnect"
  /\ UNCHANGED <<tlsVars, retryVars, wifiVars, hubVars, aborted, faults>>

\* A step of the middleware's client: it succeeds, or fails and goes elsewhere.
Succeeds(at, next) == pc = at /\ pc' = next /\ UNCHANGED faults
Fails(at, next)    == pc = at /\ pc' = next /\ Fault

\* Options, client and symmetric key.
HubInit ==
  /\ Succeeds("hubInit", "mqttConnect")
  /\ UNCHANGED <<tlsVars, retryVars, wifiVars, hubVars, aborted>>

MqttConnect ==
  /\ Succeeds("mqttConnect", "subC2D")
  /\ mqtt' = TRUE
  /\ UNCHANGED <<tlsVars, retryVars, wifiVars, subs, sent, aborted>>

\* Both fail with "continue": nothing is closed and the delay is skipped.
SetupFails ==
  /\ Fails("hubInit", "cycle") \/ Fails("mqttConnect", "cycle")
  /\ aborted' = aborted + 1
  /\ UNCHANGED <<tlsVars, retryVars, wifiVars, hubVars>>

Subscribe(at, topic, next) ==
  /\ Succeeds(at, next)
  /\ subs' = subs \cup {topic}
  /\ UNCHANGED <<tlsVars, retryVars, wifiVars, mqtt, sent, aborted>>

SubscribeCloudToDeviceMessage == Subscribe("subC2D", "c2d", "subCmd")
SubscribeCommand              == Subscribe("subCmd", "cmd", "subProp")
SubscribeProperties           == Subscribe("subProp", "prop", "request")

\* Mutant: two labels swapped.
SubscribeFails_Swapped ==
  /\ \/ Fails("subC2D", "disconnect")
     \/ Fails("subCmd", "unsubCmd")
     \/ Fails("subProp", "unsubC2D")
  /\ UNCHANGED <<tlsVars, retryVars, wifiVars, hubVars, aborted>>

\* Each failure jumps to the label that undoes what was done before it.
SubscribeFails ==
  /\ \/ Fails("subC2D", "disconnect")
     \/ Fails("subCmd", "unsubC2D")
     \/ Fails("subProp", "unsubCmd")
  /\ UNCHANGED <<tlsVars, retryVars, wifiVars, hubVars, aborted>>

\* RequestPropertiesAsync and the property bag.
RequestProperties ==
  /\ Succeeds("request", "publish") \/ Fails("request", "unsubProp")
  /\ UNCHANGED <<tlsVars, retryVars, wifiVars, hubVars, aborted>>

SendTelemetry ==
  /\ Succeeds("publish", "processLoop")
  /\ sent' = sent + 1
  /\ UNCHANGED <<tlsVars, retryVars, wifiVars, mqtt, subs, aborted>>

\* Mutant: a failed send is tried again.
SendTelemetryFails_Retry ==
  /\ Fails("publish", "publish")
  /\ sent' \in {sent, sent + 1}
  /\ UNCHANGED <<tlsVars, retryVars, wifiVars, mqtt, subs, aborted>>

\* The packet may have left before the error.
SendTelemetryFails ==
  /\ Fails("publish", "unsubProp")
  /\ sent' \in {sent, sent + 1}
  /\ UNCHANGED <<tlsVars, retryVars, wifiVars, mqtt, subs, aborted>>

ProcessLoop ==
  /\ Succeeds("processLoop", "stillOnline") \/ Fails("processLoop", "unsubProp")
  /\ UNCHANGED <<tlsVars, retryVars, wifiVars, hubVars, aborted>>

\* Without the Internet the ladder is skipped and only the TLS session is closed.
StillOnline ==
  /\ pc = "stillOnline"
  /\ pc' = IF online THEN "unsubProp" ELSE "tlsClose"
  /\ UNCHANGED <<tlsVars, retryVars, wifiVars, hubVars, aborted, faults>>

Unsubscribe(at, topic, next) ==
  /\ Succeeds(at, next)
  /\ subs' = subs \ {topic}
  /\ UNCHANGED <<tlsVars, retryVars, wifiVars, mqtt, sent, aborted>>

UnsubscribeProperties           == Unsubscribe("unsubProp", "prop", "unsubCmd")
UnsubscribeCommand              == Unsubscribe("unsubCmd", "cmd", "unsubC2D")
UnsubscribeCloudToDeviceMessage == Unsubscribe("unsubC2D", "c2d", "disconnect")

Disconnect ==
  /\ Succeeds("disconnect", "tlsClose")
  /\ mqtt' = FALSE
  /\ UNCHANGED <<tlsVars, retryVars, wifiVars, subs, sent, aborted>>

\* configASSERT after each of the four calls.
TeardownAsserts ==
  /\ \/ Fails("unsubProp", "crashed")
     \/ Fails("unsubCmd", "crashed")
     \/ Fails("unsubC2D", "crashed")
     \/ Fails("disconnect", "crashed")
  /\ UNCHANGED <<tlsVars, retryVars, wifiVars, hubVars, aborted>>

\* Closing the TLS session ends the MQTT connection it carries.
TlsClose ==
  /\ Succeeds("tlsClose", "delay")
  /\ TLS_Socket_Disconnect
  /\ mqtt' = FALSE
  /\ subs' = {}
  /\ sent' = 0
  /\ UNCHANGED <<retryVars, wifiVars, aborted>>

Delay ==
  /\ Succeeds("delay", "cycle")
  /\ UNCHANGED <<tlsVars, retryVars, wifiVars, hubVars, aborted>>

Iteration ==
  \/ BeginCycle \/ TlsConnect \/ TlsConnectFails \/ WaitBackoff
  \/ HubInit \/ MqttConnect \/ SetupFails
  \/ SubscribeCloudToDeviceMessage \/ SubscribeCommand \/ SubscribeProperties
  \/ SubscribeFails \/ RequestProperties
  \/ SendTelemetry \/ SendTelemetryFails \/ ProcessLoop \/ StillOnline
  \/ UnsubscribeProperties \/ UnsubscribeCommand \/ UnsubscribeCloudToDeviceMessage
  \/ Disconnect \/ TeardownAsserts \/ TlsClose \/ Delay

--------------------------------------------------------------------------------
(* The event task and the world. *)

\* Mutant: the handler does not ask for a new connection.
WifiDisconnected_NoReconnect ==
  /\ pc # "crashed"
  /\ Fault
  /\ online' = FALSE
  /\ UNCHANGED <<tlsVars, pc, retryVars, joining, hubVars, aborted>>

\* on_wifi_disconnect: also raised when an attempt to join fails.
WifiDisconnected ==
  /\ pc # "crashed"
  /\ Fault
  /\ online' = FALSE
  /\ joining' = TRUE
  /\ UNCHANGED <<tlsVars, pc, retryVars, hubVars, aborted>>

\* The same handler when ESP_ERROR_CHECK rejects what esp_wifi_connect returns.
WifiReconnectAborts ==
  /\ pc # "crashed"
  /\ Fault
  /\ online' = FALSE
  /\ joining' = FALSE
  /\ pc' = "crashed"
  /\ UNCHANGED <<tlsVars, retryVars, hubVars, aborted>>

\* on_got_ip, once the attempt to join has succeeded.
GotIp ==
  /\ pc # "crashed"
  /\ joining
  /\ joining' = FALSE
  /\ online' = TRUE
  /\ UNCHANGED <<tlsVars, pc, retryVars, hubVars, aborted, faults>>

PowerLoss ==
  /\ pc # "crashed"
  /\ Fault
  /\ pc' = "crashed"
  /\ UNCHANGED <<tlsVars, retryVars, wifiVars, hubVars, aborted>>

\* The panic handler restarts the chip: memory is as at the first start, and
\* app_main brings the network up again before it creates the task.
Reboot ==
  /\ pc = "crashed"
  /\ pc' = "cycle"
  /\ xSSLContext' = NULL
  /\ live' = {}
  /\ caStore' = FALSE
  /\ session' = FALSE
  /\ orphans' = 0
  /\ retry' = FreshRetry
  /\ usNextRetryBackOff' = 0
  /\ attempts' = 0
  /\ online' \in BOOLEAN
  /\ joining' = ~online'
  /\ mqtt' = FALSE
  /\ subs' = {}
  /\ sent' = 0
  /\ aborted' = 0
  /\ UNCHANGED faults

Environment == WifiDisconnected \/ WifiReconnectAborts \/ GotIp \/ PowerLoss

Next == Iteration \/ Environment \/ Reboot

Spec == Init /\ [][Next]_vars

\* The scheduler runs the task (nothing else on its core is ready for long), a
\* restarted chip comes up, and an access point asked for an address gives one.
Fairness == WF_vars(Iteration) /\ WF_vars(Reboot) /\ WF_vars(GotIp)
FairSpec == Spec /\ Fairness

--------------------------------------------------------------------------------
(* Safety. *)

\* The heap holds exactly the block that xSSLContext points to, and the CA store
\* is set exactly while there is one: nothing leaks and nothing is freed twice,
\* through every retry, "continue", jump and close (transport_tls_esp32.c:274-371,
\* 399-410).
ContextOwned ==
  /\ live = {xSSLContext} \ {NULL}
  /\ caStore <=> xSSLContext # NULL
  /\ session <=> xSSLContext # NULL

\* Every step that sends, receives or closes does it on a live block with an open
\* session: TLS_Socket_Send, _Recv and _Disconnect read through xSSLContext
\* unchecked (transport_tls_esp32.c:399-402, 437-439, 473-475), whatever label the
\* task jumped to (azure_iot_cloud.c:409-490).
TransportReady == pc \in TransportSteps => xSSLContext \in live /\ session

\* The goto ladder (azure_iot_cloud.c:407-487) undoes exactly what was done: at
\* every label the connection is up and what is subscribed is what this label and
\* the ones below it undo. Only the offline shortcut closes with subscriptions left.
CleanupLadder ==
  /\ pc \in (HubSteps \ {"mqttConnect"}) \cup {"stillOnline"} => mqtt
  /\ pc \in {"subC2D", "disconnect"} => subs = {}
  /\ pc \in {"subCmd", "unsubC2D"}   => subs = {"c2d"}
  /\ pc \in {"subProp", "unsubCmd"}  => subs = {"c2d", "cmd"}
  /\ pc \in {"request", "publish", "processLoop", "stillOnline", "unsubProp"}
       => subs = Topics
  /\ pc \in {"cycle", "tlsConnect", "backoff", "hubInit", "mqttConnect", "delay"}
       => ~mqtt /\ subs = {}

\* One call of prvConnectToServerWithBackoffRetries (azure_iot_cloud.c:257-311)
\* tries at most one connect more than RETRY_MAX_ATTEMPTS, and a failed one is
\* always counted by the back-off context.
RetriesBounded ==
  /\ attempts <= RETRY_MAX_ATTEMPTS + 1
  /\ pc \in {"tlsConnect", "backoff"} => attempts = retry.attemptsDone

\* A TLS session is lost without being closed only after a "continue" that left it
\* open (azure_iot_cloud.c:376-405), one per "continue" at most.
SessionsAccounted ==
  /\ orphans <= aborted
  /\ pc \in {"cycle", "tlsConnect", "backoff", "delay"} /\ session => orphans < aborted

\* Before a report is handed over none was: with the two properties above, what the
\* refinement of SessionLadder below rests on.
SentAtMostOnce ==
  /\ sent <= 1
  /\ pc \notin {"processLoop", "stillOnline"} \cup ClosingSteps => sent = 0

\* Within one call the range that the wait is drawn from never shrinks and never
\* exceeds the configured maximum, uint16_t arithmetic included
\* (backoff_algorithm.c:55-69, backoff_algorithm.h:114-117).
JitterGrows ==
  [][pc = "tlsConnect" /\ pc' = "backoff" =>
       /\ retry'.nextJitterMax >= retry.nextJitterMax
       /\ retry'.nextJitterMax <= RETRY_MAX_BACKOFF_DELAY_MS
       /\ usNextRetryBackOff' <= retry.nextJitterMax]_vars

One(b) == IF b THEN 1 ELSE 0
Held == One(session) + One(mqtt) + One("c2d" \in subs) + One("cmd" \in subs)
          + One("prop" \in subs)

\* The loop with its jumps, assertions and restarts (azure_iot_cloud.c:345-495)
\* keeps the promises of SessionLadder: at most one report per session, sent with
\* everything held, and release in the reverse order.
Ladder == INSTANCE SessionLadder
            WITH Rungs <- 5, rung <- Held, closing <- pc \in ClosingSteps, reports <- sent
ImplementsLadder == Ladder!Spec

(* Liveness. *)

\* Whatever fails, finitely often, the device reports again and again
\* (README.md:53): no failure leaves the loop stuck.
TelemetryKeepsFlowing == []<>(pc = "processLoop")

(* What the comments say and the code does not do. *)

\* "Time in ticks to wait between each cycle of the main loop"
\* (azure_iot_cloud.c:84): a cycle follows a delay or a restart.
CyclesArePaced == [][pc # "cycle" /\ pc' = "cycle" => pc \in {"delay", "crashed"}]_vars

\* "Timeout value will exponentially increase till maximum attempts are reached"
\* (azure_iot_cloud.c:274): after a failed attempt the longest possible wait is
\* longer than it was before the first.
LongestWait(c) == CHOOSE w \in {NextBackOff(c, r) : r \in configRAND32} :
                    \A r \in configRAND32 : NextBackOff(c, r) <= w
WaitsGrow == pc = "tlsConnect" /\ attempts > 0 => LongestWait(retry) > LongestWait(FreshRetry)

================================================================================

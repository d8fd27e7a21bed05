----------------------------- MODULE CloudTaskProofs -----------------------------
(* CloudTask for every retry configuration, every heap and any number of failures: *)
(* type correctness, the safety invariants, and each step as a step or a stutter of *)
(* SessionLadder.                                                                   *)
EXTENDS CloudTask, BackoffProofs

TlsCall == \/ TLS_Socket_Connect_Success
           \/ TLS_Socket_Connect_Failure
           \/ TLS_Socket_Connect_NoMemory
           \/ TLS_Socket_Disconnect

\* Every call of the transport leaves it well typed (transport_tls_esp32.c:243-411).
LEMMA TlsTypeOKStep ==
  ASSUME TlsTypeOK, TlsCall
  PROVE  TlsTypeOK'
<1> USE DEF TlsTypeOK
<1>1. CASE TLS_Socket_Connect_Success
  BY <1>1 DEF TLS_Socket_Connect_Success, esp_transport_connect
<1>2. CASE TLS_Socket_Connect_Failure
  <2>1. PICK h \in Handles : live' = live \ {h}
    BY <1>2 DEF TLS_Socket_Connect_Failure
  <2>2. orphans' \in Nat
    BY <1>2 DEF TLS_Socket_Connect_Failure, esp_transport_connect
  <2> QED
    BY <1>2, <2>1, <2>2 DEF TLS_Socket_Connect_Failure
<1>3. CASE TLS_Socket_Connect_NoMemory
  BY <1>3 DEF TLS_Socket_Connect_NoMemory, tlsVars
<1>4. CASE TLS_Socket_Disconnect
  BY <1>4 DEF TLS_Socket_Disconnect
<1> QED
  BY <1>1, <1>2, <1>3, <1>4 DEF TlsCall

\* A failure keeps the count of failures within its bound.
LEMMA FaultCounted ==
  ASSUME faults \in 0 .. MaxFaults, Fault
  PROVE  faults' \in 0 .. MaxFaults
BY FaultsAssumption DEF Fault

\* The values that Init and Reboot give are of the right types.
LEMMA InitialValues ==
  /\ FreshRetry \in Contexts
  /\ 0 \in 0 .. RETRY_MAX_BACKOFF_DELAY_MS
  /\ 0 \in 0 .. MaxFaults
BY FreshContext, BackoffAssumption, FaultsAssumption DEF FreshRetry

\* Every step keeps every variable in its type.
LEMMA TypeOKStep ==
  ASSUME TypeOK, [Next]_vars
  PROVE  TypeOK'
<1> USE DEF TypeOK, Steps, HubSteps, Topics, vars, retryVars, wifiVars, hubVars
<1>0. UNCHANGED tlsVars => TlsTypeOK'
  BY DEF TlsTypeOK, tlsVars
<1>1. CASE BeginCycle
  BY <1>0, <1>1, InitialValues DEF BeginCycle
<1>2. CASE TlsConnect
  <2>1. TlsTypeOK'
    BY <1>2, TlsTypeOKStep DEF TlsConnect, TlsCall
  <2>2. pc' \in Steps /\ mqtt' \in BOOLEAN
    BY <1>2 DEF TlsConnect
  <2>3. attempts' \in Nat /\ sent' \in Nat
    BY <1>2 DEF TlsConnect
  <2>4. UNCHANGED <<retry, usNextRetryBackOff, wifiVars, subs, aborted, faults>>
    BY <1>2 DEF TlsConnect
  <2> QED
    BY <2>1, <2>2, <2>3, <2>4
<1>3. CASE TlsConnectFails
  <2>1. TlsTypeOK'
    BY <1>3, TlsTypeOKStep DEF TlsConnectFails, TlsCall
  <2>2. retry' \in Contexts /\ usNextRetryBackOff' \in 0 .. RETRY_MAX_BACKOFF_DELAY_MS
    <3>1. CASE RetriesLeft(retry)
      <4>1. PICK r \in configRAND32 : usNextRetryBackOff' = NextBackOff(retry, r)
        BY <1>3, <3>1 DEF TlsConnectFails
      <4>2. usNextRetryBackOff' \in 0 .. retry.nextJitterMax
        BY <4>1, RandomIsBinary, WaitBounded
      <4>3. retry.nextJitterMax \in 0 .. RETRY_MAX_BACKOFF_DELAY_MS
        BY DEF Contexts
      <4>4. retry' \in Contexts
        BY <1>3, <3>1, RetryCounted DEF TlsConnectFails
      <4> QED
        BY <4>2, <4>3, <4>4, BackoffAssumption
    <3>2. CASE ~RetriesLeft(retry)
      BY <1>3, <3>2 DEF TlsConnectFails
    <3> QED
      BY <3>1, <3>2
  <2> QED
    BY <1>3, <2>1, <2>2, FaultCounted DEF TlsConnectFails, GivesUp
<1>4. CASE WaitBackoff
  BY <1>0, <1>4 DEF WaitBackoff
<1>5. CASE HubInit \/ MqttConnect
  BY <1>0, <1>5 DEF HubInit, MqttConnect, Succeeds
<1>6. CASE SetupFails \/ SubscribeFails \/ TeardownAsserts
  <2>1. Fault /\ faults' \in 0 .. MaxFaults
    BY <1>6, FaultCounted DEF SetupFails, SubscribeFails, TeardownAsserts, Fails
  <2>2. UNCHANGED <<tlsVars, retryVars, wifiVars, hubVars>> /\ aborted' \in Nat
    BY <1>6 DEF SetupFails, SubscribeFails, TeardownAsserts
  <2>3. pc' \in Steps
    BY <1>6 DEF SetupFails, SubscribeFails, TeardownAsserts, Fails
  <2> QED
    BY <1>0, <2>1, <2>2, <2>3
<1>7. CASE SubscribeCloudToDeviceMessage \/ SubscribeCommand \/ SubscribeProperties
  BY <1>0, <1>7 DEF SubscribeCloudToDeviceMessage, SubscribeCommand, SubscribeProperties,
              Subscribe, Succeeds
<1>8. CASE RequestProperties \/ ProcessLoop
  BY <1>0, <1>8, FaultCounted DEF RequestProperties, ProcessLoop, Succeeds, Fails
<1>9. CASE SendTelemetry \/ SendTelemetryFails
  <2>1. faults' \in 0 .. MaxFaults
    BY <1>9, FaultCounted DEF SendTelemetry, SendTelemetryFails, Succeeds, Fails
  <2>2. pc' \in Steps /\ sent' \in Nat
    BY <1>9 DEF SendTelemetry, SendTelemetryFails, Succeeds, Fails
  <2>3. UNCHANGED <<tlsVars, retryVars, wifiVars, mqtt, subs, aborted>>
    BY <1>9 DEF SendTelemetry, SendTelemetryFails
  <2> QED
    BY <1>0, <2>1, <2>2, <2>3
<1>10. CASE StillOnline
  BY <1>0, <1>10 DEF StillOnline
<1>11. CASE UnsubscribeProperties \/ UnsubscribeCommand \/ UnsubscribeCloudToDeviceMessage
  BY <1>0, <1>11 DEF UnsubscribeProperties, UnsubscribeCommand, UnsubscribeCloudToDeviceMessage,
               Unsubscribe, Succeeds
<1>12. CASE Disconnect \/ Delay
  BY <1>0, <1>12 DEF Disconnect, Delay, Succeeds
<1>13. CASE TlsClose
  BY <1>13, TlsTypeOKStep DEF TlsClose, TlsCall, Succeeds
<1>14. CASE Environment
  BY <1>0, <1>14, FaultCounted
     DEF Environment, WifiDisconnected, WifiReconnectAborts, GotIp, PowerLoss
<1>15. CASE Reboot
  BY <1>15, InitialValues DEF Reboot, TlsTypeOK
<1>16. CASE UNCHANGED vars
  BY <1>0, <1>16
<1> QED
  BY <1>1, <1>2, <1>3, <1>4, <1>5, <1>6, <1>7, <1>8, <1>9, <1>10, <1>11, <1>12, <1>13,
     <1>14, <1>15, <1>16 DEF Next, Iteration

\* The initial state is well typed.
LEMMA TypeOKInit == Init => TypeOK
<1> SUFFICES ASSUME Init PROVE TypeOK
  OBVIOUS
<1>1. TlsTypeOK
  BY DEF Init, TlsInit, TlsTypeOK
<1> QED
  BY <1>1, InitialValues DEF Init, TypeOK, Steps, Topics

--------------------------------------------------------------------------------
(* The transport. *)

\* Only the connects, the close and a restart touch the transport.
LEMMA TlsFrame ==
  ASSUME [Next]_vars, ~TlsConnect, ~TlsConnectFails, ~TlsClose, ~Reboot
  PROVE  UNCHANGED tlsVars
<1>1. CASE Iteration
  <2>1. CASE BeginCycle \/ WaitBackoff \/ HubInit \/ MqttConnect \/ SetupFails
    BY <2>1 DEF BeginCycle, WaitBackoff, HubInit, MqttConnect, SetupFails
  <2>2. CASE SubscribeCloudToDeviceMessage \/ SubscribeCommand \/ SubscribeProperties
             \/ SubscribeFails \/ RequestProperties
    BY <2>2 DEF SubscribeCloudToDeviceMessage, SubscribeCommand, SubscribeProperties,
                Subscribe, SubscribeFails, RequestProperties
  <2>3. CASE SendTelemetry \/ SendTelemetryFails \/ ProcessLoop \/ StillOnline
    BY <2>3 DEF SendTelemetry, SendTelemetryFails, ProcessLoop, StillOnline
  <2>4. CASE UnsubscribeProperties \/ UnsubscribeCommand \/ UnsubscribeCloudToDeviceMessage
             \/ Disconnect \/ TeardownAsserts \/ Delay
    BY <2>4 DEF UnsubscribeProperties, UnsubscribeCommand, UnsubscribeCloudToDeviceMessage,
                Unsubscribe, Disconnect, TeardownAsserts, Delay
  <2> QED
    BY <1>1, <2>1, <2>2, <2>3, <2>4 DEF Iteration
<1>2. CASE Environment
  BY <1>2 DEF Environment, WifiDisconnected, WifiReconnectAborts, GotIp, PowerLoss
<1>3. CASE UNCHANGED vars
  BY <1>3 DEF vars
<1> QED
  BY <1>1, <1>2, <1>3 DEF Next

\* The transport steps are entered only by a successful connect.
LEMMA TransportEntry ==
  ASSUME [Next]_vars, ~TlsConnect, pc' \in TransportSteps
  PROVE  pc \in TransportSteps
<1> USE DEF TransportSteps, HubSteps, Succeeds, Fails
<1>1. CASE Iteration
  <2>1. CASE BeginCycle \/ TlsConnectFails \/ WaitBackoff \/ HubInit \/ MqttConnect \/ SetupFails
    BY <2>1 DEF BeginCycle, TlsConnectFails, GivesUp, WaitBackoff, HubInit, MqttConnect,
                SetupFails
  <2>2. CASE SubscribeCloudToDeviceMessage \/ SubscribeCommand \/ SubscribeProperties
             \/ SubscribeFails \/ RequestProperties
    BY <2>2 DEF SubscribeCloudToDeviceMessage, SubscribeCommand, SubscribeProperties,
                Subscribe, SubscribeFails, RequestProperties
  <2>3. CASE SendTelemetry \/ SendTelemetryFails \/ ProcessLoop \/ StillOnline
    BY <2>3 DEF SendTelemetry, SendTelemetryFails, ProcessLoop, StillOnline
  <2>4. CASE UnsubscribeProperties \/ UnsubscribeCommand \/ UnsubscribeCloudToDeviceMessage
             \/ Disconnect \/ TeardownAsserts \/ TlsClose \/ Delay
    BY <2>4 DEF UnsubscribeProperties, UnsubscribeCommand, UnsubscribeCloudToDeviceMessage,
                Unsubscribe, Disconnect, TeardownAsserts, TlsClose, Delay
  <2> QED
    BY <1>1, <2>1, <2>2, <2>3, <2>4 DEF Iteration
<1>2. CASE Environment
  BY <1>2 DEF Environment, WifiDisconnected, WifiReconnectAborts, GotIp, PowerLoss
<1>3. CASE Reboot
  BY <1>3 DEF Reboot
<1>4. CASE UNCHANGED vars
  BY <1>4 DEF vars
<1> QED
  BY <1>1, <1>2, <1>3, <1>4 DEF Next

\* Every connect, close and restart leaves the heap holding what xSSLContext points
\* to, and no other step touches it (transport_tls_esp32.c:274-371, 399-410).
LEMMA ContextOwnedStep ==
  ASSUME TypeOK, ContextOwned, [Next]_vars
  PROVE  ContextOwned'
<1> USE TlsAssumption DEF ContextOwned, TypeOK, TlsTypeOK
<1>1. CASE TlsConnect
  <2>1. PICK h \in Handles : /\ BlockFor(h)
                             /\ xSSLContext' = h
                             /\ live' = live \cup {h}
                             /\ caStore' = (xSSLContext = NULL \/ caStore)
                             /\ session' = TRUE
    BY <1>1 DEF TlsConnect, TLS_Socket_Connect_Success
  <2>2. h # NULL
    BY <2>1
  <2>3. live' = {xSSLContext'} \ {NULL}
    BY <2>1, <2>2 DEF BlockFor
  <2> QED
    BY <2>1, <2>2, <2>3
<1>2. CASE TlsConnectFails
  <2>1. CASE TLS_Socket_Connect_Failure
    <3>1. PICK h \in Handles : BlockFor(h) /\ live' = live \ {h}
      BY <2>1 DEF TLS_Socket_Connect_Failure
    <3>2. xSSLContext' = NULL /\ caStore' = FALSE /\ session' = FALSE
      BY <2>1 DEF TLS_Socket_Connect_Failure
    <3>3. live' = {}
      BY <3>1 DEF BlockFor
    <3> QED
      BY <3>2, <3>3
  <2>2. CASE TLS_Socket_Connect_NoMemory
    BY <2>2 DEF TLS_Socket_Connect_NoMemory, tlsVars
  <2> QED
    BY <1>2, <2>1, <2>2 DEF TlsConnectFails
<1>3. CASE TlsClose
  BY <1>3 DEF TlsClose, TLS_Socket_Disconnect
<1>4. CASE Reboot
  BY <1>4 DEF Reboot
<1>5. CASE UNCHANGED tlsVars
  BY <1>5 DEF tlsVars
<1> QED
  BY <1>1, <1>2, <1>3, <1>4, <1>5, TlsFrame

\* A step that uses the transport follows a successful connect, with no close or
\* failed connect in between (azure_iot_cloud.c:369-490).
LEMMA TransportReadyStep ==
  ASSUME TypeOK, ContextOwned, TransportReady, [Next]_vars
  PROVE  TransportReady'
<1> SUFFICES ASSUME pc' \in TransportSteps
             PROVE  xSSLContext' \in live' /\ session'
  BY DEF TransportReady
<1>1. CASE TlsConnect
  BY <1>1 DEF TlsConnect, TLS_Socket_Connect_Success
<1>2. CASE ~TlsConnect
  <2>1. xSSLContext \in live /\ session
    BY <1>2, TransportEntry DEF TransportReady
  <2>2. ~TlsConnectFails /\ ~TlsClose /\ ~Reboot
    BY DEF TlsConnectFails, GivesUp, TlsClose, Succeeds, Reboot, TransportSteps, HubSteps
  <2>3. UNCHANGED tlsVars
    BY <1>2, <2>2, TlsFrame
  <2> QED
    BY <2>1, <2>3 DEF tlsVars
<1> QED
  BY <1>1, <1>2

--------------------------------------------------------------------------------
(* The labels of the loop. *)

\* Whichever label a step jumps to, what is subscribed there is what that label and
\* the ones below it undo (azure_iot_cloud.c:407-487).
LEMMA CleanupLadderStep ==
  ASSUME TypeOK, CleanupLadder, [Next]_vars
  PROVE  CleanupLadder'
<1> USE DEF CleanupLadder, HubSteps, Topics, hubVars, Succeeds, Fails
<1>1. CASE BeginCycle \/ TlsConnectFails \/ WaitBackoff \/ HubInit \/ SetupFails
  BY <1>1 DEF BeginCycle, TlsConnectFails, GivesUp, WaitBackoff, HubInit, SetupFails
<1>2. CASE TlsConnect
  BY <1>2 DEF TlsConnect
<1>3. CASE MqttConnect
  BY <1>3 DEF MqttConnect
<1>4. CASE SubscribeCloudToDeviceMessage \/ SubscribeCommand \/ SubscribeProperties
  BY <1>4 DEF SubscribeCloudToDeviceMessage, SubscribeCommand, SubscribeProperties, Subscribe
<1>5. CASE SubscribeFails \/ RequestProperties
  BY <1>5 DEF SubscribeFails, RequestProperties
<1>6. CASE SendTelemetry \/ SendTelemetryFails \/ ProcessLoop \/ StillOnline
  BY <1>6 DEF SendTelemetry, SendTelemetryFails, ProcessLoop, StillOnline
<1>7. CASE UnsubscribeProperties \/ UnsubscribeCommand \/ UnsubscribeCloudToDeviceMessage
  BY <1>7 DEF UnsubscribeProperties, UnsubscribeCommand, UnsubscribeCloudToDeviceMessage,
              Unsubscribe
<1>8. CASE Disconnect \/ TeardownAsserts \/ TlsClose \/ Delay
  BY <1>8 DEF Disconnect, TeardownAsserts, TlsClose, Delay
<1>9. CASE Environment
  BY <1>9 DEF Environment, WifiDisconnected, WifiReconnectAborts, GotIp, PowerLoss
<1>10. CASE Reboot
  BY <1>10 DEF Reboot
<1>11. CASE UNCHANGED vars
  BY <1>11 DEF vars
<1> QED
  BY <1>1, <1>2, <1>3, <1>4, <1>5, <1>6, <1>7, <1>8, <1>9, <1>10, <1>11 DEF Next, Iteration

\* A report is handed over from the one step that precedes the closing ones
\* (azure_iot_cloud.c:459-462).
LEMMA SentAtMostOnceStep ==
  ASSUME TypeOK, SentAtMostOnce, [Next]_vars
  PROVE  SentAtMostOnce'
<1> USE DEF SentAtMostOnce, TypeOK, ClosingSteps, hubVars, Succeeds, Fails
<1>1. CASE BeginCycle \/ TlsConnectFails \/ WaitBackoff \/ HubInit \/ MqttConnect \/ SetupFails
  BY <1>1 DEF BeginCycle, TlsConnectFails, GivesUp, WaitBackoff, HubInit, MqttConnect,
              SetupFails
<1>2. CASE TlsConnect \/ TlsClose
  BY <1>2 DEF TlsConnect, TlsClose
<1>3. CASE SubscribeCloudToDeviceMessage \/ SubscribeCommand \/ SubscribeProperties
           \/ SubscribeFails \/ RequestProperties
  BY <1>3 DEF SubscribeCloudToDeviceMessage, SubscribeCommand, SubscribeProperties,
              Subscribe, SubscribeFails, RequestProperties
<1>4. CASE SendTelemetry \/ SendTelemetryFails
  BY <1>4 DEF SendTelemetry, SendTelemetryFails
<1>5. CASE ProcessLoop \/ StillOnline
  BY <1>5 DEF ProcessLoop, StillOnline
<1>6. CASE UnsubscribeProperties \/ UnsubscribeCommand \/ UnsubscribeCloudToDeviceMessage
           \/ Disconnect \/ TeardownAsserts
  BY <1>6 DEF UnsubscribeProperties, UnsubscribeCommand, UnsubscribeCloudToDeviceMessage,
              Unsubscribe, Disconnect, TeardownAsserts
<1>7. CASE Delay
  BY <1>7 DEF Delay
<1>8. CASE Environment
  BY <1>8 DEF Environment, WifiDisconnected, WifiReconnectAborts, GotIp, PowerLoss
<1>9. CASE Reboot
  BY <1>9 DEF Reboot
<1>10. CASE UNCHANGED vars
  BY <1>10 DEF vars
<1> QED
  BY <1>1, <1>2, <1>3, <1>4, <1>5, <1>6, <1>7, <1>8, <1>9, <1>10 DEF Next, Iteration

--------------------------------------------------------------------------------
(* The retries and the sessions they lose. *)

\* Outside a call of prvConnectToServerWithBackoffRetries nothing it counts changes.
LEMMA RetryFrame ==
  ASSUME [Next]_vars, ~BeginCycle, ~TlsConnect, ~TlsConnectFails, ~Reboot
  PROVE  /\ UNCHANGED retryVars
         /\ pc' \in {"tlsConnect", "backoff"} => pc \in {"tlsConnect", "backoff"}
<1> USE DEF retryVars, Succeeds, Fails
<1>1. CASE WaitBackoff \/ HubInit \/ MqttConnect \/ SetupFails
  BY <1>1 DEF WaitBackoff, HubInit, MqttConnect, SetupFails
<1>2. CASE SubscribeCloudToDeviceMessage \/ SubscribeCommand \/ SubscribeProperties
           \/ SubscribeFails \/ RequestProperties
  BY <1>2 DEF SubscribeCloudToDeviceMessage, SubscribeCommand, SubscribeProperties,
              Subscribe, SubscribeFails, RequestProperties
<1>3. CASE SendTelemetry \/ SendTelemetryFails \/ ProcessLoop \/ StillOnline
  BY <1>3 DEF SendTelemetry, SendTelemetryFails, ProcessLoop, StillOnline
<1>4. CASE UnsubscribeProperties \/ UnsubscribeCommand \/ UnsubscribeCloudToDeviceMessage
           \/ Disconnect \/ TeardownAsserts \/ TlsClose \/ Delay
  BY <1>4 DEF UnsubscribeProperties, UnsubscribeCommand, UnsubscribeCloudToDeviceMessage,
              Unsubscribe, Disconnect, TeardownAsserts, TlsClose, Delay
<1>5. CASE Environment
  BY <1>5 DEF Environment, WifiDisconnected, WifiReconnectAborts, GotIp, PowerLoss
<1>6. CASE UNCHANGED vars
  BY <1>6 DEF vars
<1> QED
  BY <1>1, <1>2, <1>3, <1>4, <1>5, <1>6 DEF Next, Iteration

\* A failed connect is counted by the context whenever it is to be retried
\* (azure_iot_cloud.c:277-308).
LEMMA RetriesBoundedStep ==
  ASSUME TypeOK, RetriesBounded, [Next]_vars
  PROVE  RetriesBounded'
<1>1. /\ RETRY_MAX_ATTEMPTS \in Nat
      /\ retry \in Contexts
      /\ retry.attemptsDone \in 0 .. RETRY_MAX_ATTEMPTS
      /\ attempts \in Nat
  BY BackoffAssumption DEF TypeOK, Contexts
<1>2. FreshRetry.attemptsDone = 0
  BY DEF FreshRetry, InitializeParams
<1>3. CASE BeginCycle
  BY <1>1, <1>2, <1>3 DEF BeginCycle, RetriesBounded, retryVars
<1>4. CASE TlsConnect
  BY <1>1, <1>4 DEF TlsConnect, RetriesBounded
<1>5. CASE TlsConnectFails
  <2>1. attempts' = attempts + 1 /\ attempts = retry.attemptsDone
    BY <1>5 DEF TlsConnectFails, RetriesBounded
  <2>2. CASE RetriesLeft(retry)
    <3>1. retry' = AfterBackoff(retry)
      BY <1>5, <2>2 DEF TlsConnectFails
    <3>2. retry'.attemptsDone = retry.attemptsDone + 1
      BY <1>1, <2>2, <3>1, RetryCounted
    <3> QED
      BY <1>1, <2>1, <3>2 DEF RetriesBounded
  <2>3. CASE ~RetriesLeft(retry)
    <3>1. pc' = "cycle"
      BY <1>5, <2>3 DEF TlsConnectFails, GivesUp
    <3> QED
      BY <1>1, <2>1, <3>1 DEF RetriesBounded
  <2> QED
    BY <2>2, <2>3
<1>6. CASE Reboot
  BY <1>1, <1>6 DEF Reboot, RetriesBounded
<1>7. CASE ~BeginCycle /\ ~TlsConnect /\ ~TlsConnectFails /\ ~Reboot
  BY <1>7, RetryFrame DEF RetriesBounded, retryVars
<1> QED
  BY <1>3, <1>4, <1>5, <1>6, <1>7

\* Where a session may be left over, a step that leaves the transport alone starts
\* from such a place too.
LEMMA IdleEntry ==
  ASSUME [Next]_vars, ~TlsConnect, ~TlsConnectFails, ~SetupFails, ~TlsClose, ~Reboot
  PROVE  /\ UNCHANGED aborted
         /\ pc' \in {"cycle", "tlsConnect", "backoff", "delay"} =>
              pc \in {"cycle", "tlsConnect", "backoff", "delay"}
<1> USE DEF Succeeds, Fails
<1>1. CASE BeginCycle \/ WaitBackoff \/ HubInit \/ MqttConnect
  BY <1>1 DEF BeginCycle, WaitBackoff, HubInit, MqttConnect
<1>2. CASE SubscribeCloudToDeviceMessage \/ SubscribeCommand \/ SubscribeProperties
           \/ SubscribeFails \/ RequestProperties
  BY <1>2 DEF SubscribeCloudToDeviceMessage, SubscribeCommand, SubscribeProperties,
              Subscribe, SubscribeFails, RequestProperties
<1>3. CASE SendTelemetry \/ SendTelemetryFails \/ ProcessLoop \/ StillOnline
  BY <1>3 DEF SendTelemetry, SendTelemetryFails, ProcessLoop, StillOnline
<1>4. CASE UnsubscribeProperties \/ UnsubscribeCommand \/ UnsubscribeCloudToDeviceMessage
           \/ Disconnect \/ TeardownAsserts \/ Delay
  BY <1>4 DEF UnsubscribeProperties, UnsubscribeCommand, UnsubscribeCloudToDeviceMessage,
              Unsubscribe, Disconnect, TeardownAsserts, Delay
<1>5. CASE Environment
  BY <1>5 DEF Environment, WifiDisconnected, WifiReconnectAborts, GotIp, PowerLoss
<1>6. CASE UNCHANGED vars
  BY <1>6 DEF vars
<1> QED
  BY <1>1, <1>2, <1>3, <1>4, <1>5, <1>6 DEF Next, Iteration

\* A session is orphaned only by the connect that follows a "continue", and each
\* "continue" leaves at most one open (azure_iot_cloud.c:376-405).
LEMMA SessionsAccountedStep ==
  ASSUME TypeOK, SessionsAccounted, [Next]_vars
  PROVE  SessionsAccounted'
<1>1. orphans \in Nat /\ aborted \in Nat /\ session \in BOOLEAN
  BY DEF TypeOK, TlsTypeOK
<1>2. CASE TlsConnect
  <2>1. /\ pc = "tlsConnect" /\ pc' = "hubInit" /\ aborted' = aborted
        /\ orphans' = IF session THEN orphans + 1 ELSE orphans
    BY <1>2 DEF TlsConnect, TLS_Socket_Connect_Success, esp_transport_connect
  <2> QED
    BY <1>1, <2>1 DEF SessionsAccounted
<1>3. CASE TlsConnectFails
  <2>1. pc = "tlsConnect" /\ aborted' = aborted
    BY <1>3 DEF TlsConnectFails
  <2>2. CASE TLS_Socket_Connect_Failure
    <3>1. orphans' = (IF session THEN orphans + 1 ELSE orphans) /\ session' = FALSE
      BY <2>2 DEF TLS_Socket_Connect_Failure, esp_transport_connect
    <3> QED
      BY <1>1, <2>1, <3>1 DEF SessionsAccounted
  <2>3. CASE TLS_Socket_Connect_NoMemory
    <3>1. UNCHANGED <<orphans, session>>
      BY <2>3 DEF TLS_Socket_Connect_NoMemory, tlsVars
    <3> QED
      BY <1>1, <2>1, <3>1 DEF SessionsAccounted
  <2> QED
    BY <1>3, <2>2, <2>3 DEF TlsConnectFails
<1>4. CASE SetupFails
  <2>1. UNCHANGED orphans /\ aborted' = aborted + 1
    BY <1>4 DEF SetupFails, tlsVars
  <2> QED
    BY <1>1, <2>1 DEF SessionsAccounted
<1>5. CASE TlsClose
  <2>1. UNCHANGED <<orphans, aborted>> /\ session' = FALSE
    BY <1>5 DEF TlsClose, TLS_Socket_Disconnect
  <2> QED
    BY <1>1, <2>1 DEF SessionsAccounted
<1>6. CASE Reboot
  BY <1>6 DEF Reboot, SessionsAccounted
<1>7. CASE ~TlsConnect /\ ~TlsConnectFails /\ ~SetupFails /\ ~TlsClose /\ ~Reboot
  <2>1. UNCHANGED <<orphans, session>>
    BY <1>7, TlsFrame DEF tlsVars
  <2> QED
    BY <1>7, <2>1, IdleEntry DEF SessionsAccounted
<1> QED
  BY <1>2, <1>3, <1>4, <1>5, <1>6, <1>7

--------------------------------------------------------------------------------
(* The invariants. *)

IInv ==
  /\ TypeOK
  /\ ContextOwned
  /\ TransportReady
  /\ CleanupLadder
  /\ SentAtMostOnce
  /\ RetriesBounded
  /\ SessionsAccounted

\* The invariant holds when app_main creates the task.
LEMMA IInvInit == Init => IInv
<1> SUFFICES ASSUME Init PROVE IInv
  OBVIOUS
<1>1. TypeOK
  BY TypeOKInit
<1>2. ContextOwned
  BY DEF Init, TlsInit, ContextOwned
<1>3. TransportReady /\ CleanupLadder /\ SentAtMostOnce
  BY DEF Init, TransportReady, TransportSteps, CleanupLadder, SentAtMostOnce, HubSteps
<1>4. RetriesBounded
  BY BackoffAssumption DEF Init, RetriesBounded
<1>5. SessionsAccounted
  BY DEF Init, TlsInit, SessionsAccounted
<1> QED
  BY <1>1, <1>2, <1>3, <1>4, <1>5 DEF IInv

\* Every step keeps the invariant.
LEMMA IInvStep == IInv /\ [Next]_vars => IInv'
BY TypeOKStep, ContextOwnedStep, TransportReadyStep, CleanupLadderStep, SentAtMostOnceStep,
   RetriesBoundedStep, SessionsAccountedStep DEF IInv

\* The invariant holds always.
LEMMA IInvHolds == Spec => []IInv
BY IInvInit, IInvStep, PTL DEF Spec

\* Every variable of the loop keeps its type (azure_iot_cloud.c:319-496).
THEOREM TypeCorrect == Spec => []TypeOK
BY IInvHolds, PTL DEF IInv

\* The transport's heap block, CA store and session come and go together, for any
\* heap and any sequence of failures (transport_tls_esp32.c:274-371, 399-410).
THEOREM TransportIsOwned == Spec => []ContextOwned
BY IInvHolds, PTL DEF IInv

\* No step of the loop reads through a null or freed transport
\* (azure_iot_cloud.c:369-490).
THEOREM TransportIsReady == Spec => []TransportReady
BY IInvHolds, PTL DEF IInv

\* Each label of the loop undoes exactly what was done (azure_iot_cloud.c:407-487).
THEOREM LadderIsClean == Spec => []CleanupLadder
BY IInvHolds, PTL DEF IInv

\* A session carries at most one report (azure_iot_cloud.c:459-462).
THEOREM OneReportPerSession == Spec => []SentAtMostOnce
BY IInvHolds, PTL DEF IInv

\* A call of prvConnectToServerWithBackoffRetries ends after at most
\* RETRY_MAX_ATTEMPTS + 1 connects (azure_iot_cloud.c:277-308).
THEOREM RetriesAreBounded == Spec => []RetriesBounded
BY IInvHolds, PTL DEF IInv

\* Only a "continue" loses a TLS session (azure_iot_cloud.c:376-405).
THEOREM LostSessionsAreAccounted == Spec => []SessionsAccounted
BY IInvHolds, PTL DEF IInv

\* The range of the waits grows, stays within the maximum and contains the wait
\* drawn (backoff_algorithm.c:55-69).
THEOREM JitterIsMonotone == Spec => JitterGrows
<1> DEFINE A == pc = "tlsConnect" /\ pc' = "backoff" =>
                  /\ retry'.nextJitterMax >= retry.nextJitterMax
                  /\ retry'.nextJitterMax <= RETRY_MAX_BACKOFF_DELAY_MS
                  /\ usNextRetryBackOff' <= retry.nextJitterMax
<1>1. TypeOK /\ [Next]_vars => [A]_vars
  <2> SUFFICES ASSUME TypeOK, [Next]_vars, pc = "tlsConnect", pc' = "backoff"
               PROVE  /\ retry'.nextJitterMax >= retry.nextJitterMax
                      /\ retry'.nextJitterMax <= RETRY_MAX_BACKOFF_DELAY_MS
                      /\ usNextRetryBackOff' <= retry.nextJitterMax
    OBVIOUS
  <2>1. TlsConnectFails
    <3>1. ~BeginCycle /\ ~TlsConnect /\ ~WaitBackoff /\ ~HubInit /\ ~MqttConnect /\ ~SetupFails
      BY DEF BeginCycle, TlsConnect, WaitBackoff, HubInit, MqttConnect, SetupFails, Succeeds,
             Fails
    <3>2. ~SubscribeCloudToDeviceMessage /\ ~SubscribeCommand /\ ~SubscribeProperties
          /\ ~SubscribeFails /\ ~RequestProperties /\ ~SendTelemetry /\ ~SendTelemetryFails
          /\ ~ProcessLoop /\ ~StillOnline
      BY DEF SubscribeCloudToDeviceMessage, SubscribeCommand, SubscribeProperties, Subscribe,
             SubscribeFails, RequestProperties, SendTelemetry, SendTelemetryFails,
             ProcessLoop, StillOnline, Succeeds, Fails
    <3>3. ~UnsubscribeProperties /\ ~UnsubscribeCommand /\ ~UnsubscribeCloudToDeviceMessage
          /\ ~Disconnect /\ ~TeardownAsserts /\ ~TlsClose /\ ~Delay
      BY DEF UnsubscribeProperties, UnsubscribeCommand, UnsubscribeCloudToDeviceMessage,
             Unsubscribe, Disconnect, TeardownAsserts, TlsClose, Delay, Succeeds, Fails
    <3>4. ~Environment /\ ~Reboot /\ ~UNCHANGED vars
      BY DEF Environment, WifiDisconnected, WifiReconnectAborts, GotIp, PowerLoss, Reboot, vars
    <3> QED
      BY <3>1, <3>2, <3>3, <3>4 DEF Next, Iteration
  <2>2. RetriesLeft(retry)
    BY <2>1 DEF TlsConnectFails, GivesUp
  <2>3. retry \in Contexts /\ retry' = AfterBackoff(retry)
    BY <2>1, <2>2 DEF TlsConnectFails, TypeOK
  <2>4. PICK r \in configRAND32 : usNextRetryBackOff' = NextBackOff(retry, r)
    BY <2>1, <2>2 DEF TlsConnectFails
  <2>5. usNextRetryBackOff' \in 0 .. retry.nextJitterMax
    BY <2>3, <2>4, RandomIsBinary, WaitBounded
  <2>6. retry' \in Contexts /\ retry'.nextJitterMax >= retry.nextJitterMax
    BY <2>2, <2>3, RetryCounted
  <2>7. /\ retry.nextJitterMax \in 0 .. RETRY_MAX_BACKOFF_DELAY_MS
        /\ retry'.nextJitterMax \in 0 .. RETRY_MAX_BACKOFF_DELAY_MS
    BY <2>3, <2>6 DEF Contexts
  <2> QED
    BY <2>5, <2>6, <2>7, BackoffAssumption
<1> QED
  BY <1>1, TypeCorrect, PTL DEF Spec, JitterGrows

--------------------------------------------------------------------------------
(* Every cycle ends. *)

\* How many steps of this model a cycle still has before its delay at most, from each
\* of them on.
Ahead ==
  [cycle      |-> 16, backoff     |-> 16, tlsConnect |-> 15, hubInit  |-> 14,
   mqttConnect |-> 13, subC2D     |-> 12, subCmd     |-> 11, subProp  |-> 10,
   request    |-> 9,  publish     |-> 8,  processLoop |-> 7, stillOnline |-> 6,
   unsubProp  |-> 5,  unsubCmd    |-> 4,  unsubC2D   |-> 3,  disconnect |-> 2,
   tlsClose   |-> 1,  delay       |-> 0,  crashed    |-> 0]

\* A failed connect may bring a wait and another connect.
RetriesAhead ==
  IF pc = "cycle" THEN RETRY_MAX_ATTEMPTS
  ELSE IF pc \in {"tlsConnect", "backoff"} THEN RETRY_MAX_ATTEMPTS - retry.attemptsDone
  ELSE 0

CallsLeft == Ahead[pc] + 2 * RetriesAhead

\* Each call of a cycle brings its end nearer, whatever fails; the event task and a
\* power loss, which come between any two, put it off no more than they make calls.
CallsRunOut ==
  /\ [](CallsLeft \in 0 .. 16 + 2 * RETRY_MAX_ATTEMPTS)
  /\ [][/\ Iteration   => pc' \in {"cycle", "crashed"} \/ CallsLeft' < CallsLeft
        /\ Environment => pc' = "crashed" \/ CallsLeft' = CallsLeft]_vars

\* The count of a step is within its bounds.
LEMMA CallsLeftBounded ==
  ASSUME TypeOK
  PROVE  CallsLeft \in 0 .. 16 + 2 * RETRY_MAX_ATTEMPTS
<1>1. Ahead[pc] \in 0 .. 16
  BY DEF TypeOK, Ahead, Steps, HubSteps
<1>2. RetriesAhead \in 0 .. RETRY_MAX_ATTEMPTS
  BY BackoffAssumption DEF TypeOK, RetriesAhead, Contexts
<1> QED
  BY <1>1, <1>2, BackoffAssumption DEF CallsLeft

\* A connect leads to the set-up, or with one retry less to a wait, and that to a connect.
LEMMA ConnectsRunOut ==
  ASSUME TypeOK, TypeOK', BeginCycle \/ TlsConnect \/ TlsConnectFails \/ WaitBackoff
  PROVE  pc' = "cycle" \/ CallsLeft' < CallsLeft
<1>1. /\ RETRY_MAX_ATTEMPTS \in Nat
      /\ retry \in Contexts
      /\ retry.attemptsDone \in 0 .. RETRY_MAX_ATTEMPTS
      /\ retry'.attemptsDone \in 0 .. RETRY_MAX_ATTEMPTS
  BY BackoffAssumption DEF TypeOK, Contexts
<1>2. CASE BeginCycle
  <2>1. CASE online
    <3>1. pc = "cycle" /\ pc' = "tlsConnect" /\ retry'.attemptsDone = 0
      BY <1>2, <2>1 DEF BeginCycle, FreshRetry, InitializeParams
    <3> QED
      BY <1>1, <3>1 DEF CallsLeft, RetriesAhead, Ahead
  <2>2. CASE ~online
    <3>1. pc = "cycle" /\ pc' = "delay"
      BY <1>2, <2>2 DEF BeginCycle
    <3> QED
      BY <1>1, <3>1 DEF CallsLeft, RetriesAhead, Ahead
  <2> QED
    BY <2>1, <2>2
<1>3. CASE TlsConnect
  <2>1. pc = "tlsConnect" /\ pc' = "hubInit"
    BY <1>3 DEF TlsConnect
  <2> QED
    BY <1>1, <2>1 DEF CallsLeft, RetriesAhead, Ahead
<1>4. CASE TlsConnectFails
  <2>1. CASE RetriesLeft(retry)
    <3>1. pc = "tlsConnect" /\ pc' = "backoff" /\ retry' = AfterBackoff(retry)
      BY <1>4, <2>1 DEF TlsConnectFails
    <3>2. retry'.attemptsDone = retry.attemptsDone + 1
      BY <1>1, <2>1, <3>1, RetryCounted
    <3> QED
      BY <1>1, <3>1, <3>2 DEF CallsLeft, RetriesAhead, Ahead
  <2>2. CASE ~RetriesLeft(retry)
    BY <1>4, <2>2 DEF TlsConnectFails, GivesUp
  <2> QED
    BY <2>1, <2>2
<1>5. CASE WaitBackoff
  <2>1. pc = "backoff" /\ pc' = "tlsConnect" /\ retry' = retry
    BY <1>5 DEF WaitBackoff, retryVars
  <2> QED
    BY <1>1, <2>1 DEF CallsLeft, RetriesAhead, Ahead
<1> QED
  BY <1>2, <1>3, <1>4, <1>5

\* No call of the session, and no jump after it, leads back.
LEMMA SessionCallsRunOut ==
  ASSUME TypeOK, TypeOK',
         \/ HubInit \/ MqttConnect \/ SetupFails
         \/ SubscribeCloudToDeviceMessage \/ SubscribeCommand \/ SubscribeProperties
         \/ SubscribeFails \/ RequestProperties
         \/ SendTelemetry \/ SendTelemetryFails \/ ProcessLoop \/ StillOnline
         \/ UnsubscribeProperties \/ UnsubscribeCommand \/ UnsubscribeCloudToDeviceMessage
         \/ Disconnect \/ TeardownAsserts \/ TlsClose \/ Delay
  PROVE  pc' \in {"cycle", "crashed"} \/ CallsLeft' < CallsLeft
<1>1. \/ pc' \in {"cycle", "crashed"}
      \/ <<pc, pc'>> \in {<<"hubInit", "mqttConnect">>, <<"mqttConnect", "subC2D">>,
                          <<"subC2D", "subCmd">>, <<"subC2D", "disconnect">>,
                          <<"subCmd", "subProp">>, <<"subCmd", "unsubC2D">>,
                          <<"subProp", "request">>, <<"subProp", "unsubCmd">>,
                          <<"request", "publish">>, <<"request", "unsubProp">>,
                          <<"publish", "processLoop">>, <<"publish", "unsubProp">>}
      \/ <<pc, pc'>> \in {<<"processLoop", "stillOnline">>, <<"processLoop", "unsubProp">>,
                          <<"stillOnline", "unsubProp">>, <<"stillOnline", "tlsClose">>,
                          <<"unsubProp", "unsubCmd">>, <<"unsubCmd", "unsubC2D">>,
                          <<"unsubC2D", "disconnect">>, <<"disconnect", "tlsClose">>,
                          <<"tlsClose", "delay">>}
  BY DEF HubInit, MqttConnect, SetupFails, SubscribeCloudToDeviceMessage, SubscribeCommand,
         SubscribeProperties, Subscribe, SubscribeFails, RequestProperties, SendTelemetry,
         SendTelemetryFails, ProcessLoop, StillOnline, UnsubscribeProperties,
         UnsubscribeCommand, UnsubscribeCloudToDeviceMessage, Unsubscribe, Disconnect,
         TeardownAsserts, TlsClose, Delay, Succeeds, Fails
<1>2. ASSUME pc \notin {"cycle", "tlsConnect", "backoff"},
             pc' \notin {"cycle", "tlsConnect", "backoff"},
             Ahead[pc'] < Ahead[pc]
      PROVE  CallsLeft' < CallsLeft
  <2>1. Ahead[pc] \in Nat /\ Ahead[pc'] \in Nat
    BY DEF TypeOK, Ahead, Steps, HubSteps
  <2> QED
    BY <1>2, <2>1 DEF CallsLeft, RetriesAhead
<1> QED
  BY <1>1, <1>2 DEF Ahead

\* The event task makes no call of the cycle and touches no retry.
LEMMA WorldMakesNoCalls ==
  ASSUME TypeOK, Environment
  PROVE  pc' = "crashed" \/ CallsLeft' = CallsLeft
<1>1. pc' = "crashed" \/ (pc' = pc /\ retry' = retry)
  BY DEF Environment, WifiDisconnected, WifiReconnectAborts, GotIp, PowerLoss, retryVars
<1> QED
  BY <1>1 DEF CallsLeft, RetriesAhead

\* A cycle comes to its delay or to the next one after at most 16 steps and two more for
\* each retry, whatever fails in it and whatever happens to the network: no jump leads
\* back and no retry is for nothing (azure_iot_cloud.c:277-308, 345-495).
THEOREM CyclesEnd == Spec => CallsRunOut
<1> DEFINE Call  == Iteration => pc' \in {"cycle", "crashed"} \/ CallsLeft' < CallsLeft
           World == Environment => pc' = "crashed" \/ CallsLeft' = CallsLeft
<1>1. TypeOK => CallsLeft \in 0 .. 16 + 2 * RETRY_MAX_ATTEMPTS
  BY CallsLeftBounded
<1>2. TypeOK /\ TypeOK' /\ [Next]_vars => [Call /\ World]_vars
  <2> SUFFICES ASSUME TypeOK, TypeOK' PROVE Call /\ World
    OBVIOUS
  <2>1. Call
    BY ConnectsRunOut, SessionCallsRunOut DEF Iteration
  <2>2. World
    BY WorldMakesNoCalls
  <2> QED
    BY <2>1, <2>2
<1> QED
  BY <1>1, <1>2, TypeCorrect, PTL DEF Spec, CallsRunOut

--------------------------------------------------------------------------------
(* The refinement of SessionLadder. *)

\* How far a session is up, from the labels: the abstract rung at each step.
HeldAt ==
  /\ Held \in 0 .. 5
  /\ sent \in 0 .. 1
  /\ pc \in {"cycle", "tlsConnect", "backoff", "delay"} => Held = One(session)
  /\ pc \in {"hubInit", "mqttConnect"} => Held = 1
  /\ pc \in {"subC2D", "disconnect"} => Held = 2
  /\ pc \in {"subCmd", "unsubC2D"} => Held = 3
  /\ pc \in {"subProp", "unsubCmd"} => Held = 4
  /\ pc \in {"request", "publish", "processLoop", "stillOnline", "unsubProp"} => Held = 5
  /\ pc \notin {"processLoop", "stillOnline"} \cup ClosingSteps => sent = 0

\* At each step of the loop the number of resources held is the one its labels stand
\* for.
LEMMA HeldAtLabels == IInv => HeldAt
<1> SUFFICES ASSUME IInv PROVE HeldAt
  OBVIOUS
<1> USE DEF Held, One
<1>1. TypeOK /\ CleanupLadder /\ TransportReady /\ SentAtMostOnce
  BY DEF IInv
<1>2. session \in BOOLEAN /\ mqtt \in BOOLEAN
  BY <1>1 DEF TypeOK, TlsTypeOK
<1>3. Held \in 0 .. 5
  BY <1>2
<1>4. pc \in TransportSteps => session
  BY <1>1 DEF TransportReady
<1>5. pc \in {"cycle", "tlsConnect", "backoff", "delay"} => Held = One(session)
  BY <1>1, <1>2 DEF CleanupLadder
<1>6. pc \in {"hubInit", "mqttConnect"} => Held = 1
  BY <1>1, <1>4 DEF CleanupLadder, TransportSteps, HubSteps
<1>7. pc \in {"subC2D", "disconnect"} => Held = 2
  BY <1>1, <1>4 DEF CleanupLadder, TransportSteps, HubSteps
<1>8. pc \in {"subCmd", "unsubC2D"} => Held = 3
  BY <1>1, <1>4 DEF CleanupLadder, TransportSteps, HubSteps
<1>9. pc \in {"subProp", "unsubCmd"} => Held = 4
  BY <1>1, <1>4 DEF CleanupLadder, TransportSteps, HubSteps
<1>10. pc \in {"request", "publish", "processLoop", "stillOnline", "unsubProp"} => Held = 5
  BY <1>1, <1>4 DEF CleanupLadder, TransportSteps, HubSteps, Topics
<1>11. sent \in 0 .. 1
  BY <1>1 DEF TypeOK, SentAtMostOnce
<1> QED
  BY <1>1, <1>3, <1>5, <1>6, <1>7, <1>8, <1>9, <1>10, <1>11 DEF HeldAt, SentAtMostOnce

\* Each step of the loop is a step of the ladder or a stutter.
LEMMA LadderStep ==
  ASSUME HeldAt, HeldAt', session \in BOOLEAN, [Next]_vars
  PROVE  [Ladder!Next]_(Ladder!vars)
<1> USE DEF Ladder!Next, Ladder!vars, Ladder!Acquire, Ladder!Report, Ladder!StartClosing,
            Ladder!Release, Ladder!Close, ClosingSteps, Succeeds, Fails
<1>a. ASSUME UNCHANGED <<session, mqtt, subs>>
      PROVE  Held' = Held
  BY <1>a DEF Held
<1>1. CASE BeginCycle \/ WaitBackoff \/ HubInit \/ SetupFails \/ Delay
  <2>1. UNCHANGED <<session, mqtt, subs, sent>>
    BY <1>1 DEF BeginCycle, WaitBackoff, HubInit, SetupFails, Delay, tlsVars, hubVars
  <2>2. pc \notin ClosingSteps /\ pc' \notin ClosingSteps
    BY <1>1 DEF BeginCycle, WaitBackoff, HubInit, SetupFails, Delay
  <2> QED
    BY <1>a, <2>1, <2>2
<1>2. CASE TlsConnect
  <2>1. pc = "tlsConnect" /\ pc' = "hubInit" /\ sent' = 0 /\ sent = 0
    BY <1>2 DEF TlsConnect, HeldAt
  <2>2. Held = One(session) /\ Held' = 1
    BY <2>1 DEF HeldAt
  <2> QED
    BY <2>1, <2>2 DEF One
<1>3. CASE TlsConnectFails
  <2>1. /\ pc = "tlsConnect" /\ sent' = sent /\ sent = 0
        /\ pc' \in {"backoff", "cycle"}
    BY <1>3 DEF TlsConnectFails, GivesUp, hubVars, HeldAt
  <2>2. session' = FALSE \/ session' = session
    BY <1>3 DEF TlsConnectFails, TLS_Socket_Connect_Failure, TLS_Socket_Connect_NoMemory,
                tlsVars
  <2>3. Held = One(session) /\ Held' = One(session')
    BY <2>1 DEF HeldAt, One
  <2> QED
    BY <2>1, <2>2, <2>3 DEF One
<1>4. CASE MqttConnect
  <2>1. pc = "mqttConnect" /\ pc' = "subC2D" /\ sent' = sent /\ sent = 0
    BY <1>4 DEF MqttConnect, HeldAt
  <2> QED
    BY <2>1 DEF HeldAt
<1>5. CASE SubscribeCloudToDeviceMessage \/ SubscribeCommand \/ SubscribeProperties
  <2>1. /\ <<pc, pc'>> \in {<<"subC2D", "subCmd">>, <<"subCmd", "subProp">>,
                            <<"subProp", "request">>}
        /\ sent' = sent /\ sent = 0
    BY <1>5 DEF SubscribeCloudToDeviceMessage, SubscribeCommand, SubscribeProperties,
                Subscribe, HeldAt
  <2> QED
    BY <2>1 DEF HeldAt
<1>6. CASE SubscribeFails \/ RequestProperties \/ ProcessLoop \/ StillOnline
           \/ TeardownAsserts
  <2>1. UNCHANGED <<session, mqtt, subs, sent>>
    BY <1>6 DEF SubscribeFails, RequestProperties, ProcessLoop, StillOnline,
                TeardownAsserts, tlsVars, hubVars
  <2>2. pc \in ClosingSteps => pc' \in ClosingSteps
    BY <1>6 DEF SubscribeFails, RequestProperties, ProcessLoop, StillOnline, TeardownAsserts
  <2> QED
    BY <1>a, <2>1, <2>2
<1>7. CASE SendTelemetry \/ SendTelemetryFails
  <2>1. UNCHANGED <<session, mqtt, subs>>
    BY <1>7 DEF SendTelemetry, SendTelemetryFails, tlsVars
  <2>2. /\ pc = "publish" /\ pc' \in {"processLoop", "unsubProp"}
        /\ sent = 0 /\ sent' \in {0, 1} /\ (pc' = "processLoop" => sent' = 1)
    BY <1>7 DEF SendTelemetry, SendTelemetryFails, HeldAt
  <2>3. Held = 5
    BY <2>2 DEF HeldAt
  <2> QED
    BY <1>a, <2>1, <2>2, <2>3
<1>8. CASE UnsubscribeProperties \/ UnsubscribeCommand \/ UnsubscribeCloudToDeviceMessage
  <2>1. /\ <<pc, pc'>> \in {<<"unsubProp", "unsubCmd">>, <<"unsubCmd", "unsubC2D">>,
                            <<"unsubC2D", "disconnect">>}
        /\ sent' = sent
    BY <1>8 DEF UnsubscribeProperties, UnsubscribeCommand, UnsubscribeCloudToDeviceMessage,
                Unsubscribe
  <2> QED
    BY <2>1 DEF HeldAt
<1>9. CASE Disconnect
  <2>1. pc = "disconnect" /\ pc' = "tlsClose" /\ sent' = sent
    BY <1>9 DEF Disconnect
  <2>2. UNCHANGED <<session, subs>> /\ mqtt' = FALSE
    BY <1>9 DEF Disconnect, tlsVars
  <2>3. Held = 2
    BY <2>1 DEF HeldAt
  <2> QED
    BY <2>1, <2>2, <2>3 DEF Held, One
<1>10. CASE TlsClose
  <2>1. /\ pc' = "delay" /\ sent' = 0 /\ session' = FALSE
    BY <1>10 DEF TlsClose, TLS_Socket_Disconnect
  <2>2. Held' = 0
    BY <2>1 DEF HeldAt, One
  <2> QED
    BY <2>1, <2>2
<1>11. CASE Environment
  <2>1. UNCHANGED <<session, mqtt, subs, sent>>
    BY <1>11 DEF Environment, WifiDisconnected, WifiReconnectAborts, GotIp, PowerLoss,
                 tlsVars, hubVars
  <2>2. pc' = pc \/ pc' = "crashed"
    BY <1>11 DEF Environment, WifiDisconnected, WifiReconnectAborts, GotIp, PowerLoss
  <2> QED
    BY <1>a, <2>1, <2>2
<1>12. CASE Reboot
  <2>1. pc' = "cycle" /\ sent' = 0 /\ session' = FALSE
    BY <1>12 DEF Reboot
  <2>2. Held' = 0
    BY <2>1 DEF HeldAt, One
  <2> QED
    BY <2>1, <2>2
<1>13. CASE UNCHANGED vars
  BY <1>a, <1>13 DEF vars, tlsVars, hubVars
<1> QED
  BY <1>1, <1>2, <1>3, <1>4, <1>5, <1>6, <1>7, <1>8, <1>9, <1>10, <1>11, <1>12, <1>13
     DEF Next, Iteration

\* The loop keeps the promises of SessionLadder (azure_iot_cloud.c:345-495).
THEOREM LoopImplementsLadder == Spec => ImplementsLadder
<1>1. Init => Ladder!Init
  BY DEF Init, TlsInit, Ladder!Init, Held, One, ClosingSteps
<1>2. HeldAt /\ HeldAt' /\ session \in BOOLEAN /\ [Next]_vars => [Ladder!Next]_(Ladder!vars)
  BY LadderStep
<1>3. IInv => HeldAt /\ session \in BOOLEAN
  BY HeldAtLabels DEF IInv, TypeOK, TlsTypeOK
<1> QED
  BY <1>1, <1>2, <1>3, IInvHolds, PTL DEF Spec, ImplementsLadder, Ladder!Spec

================================================================================

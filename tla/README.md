# A verification project for azure-iot-parking-monitoring

The repository is a parking monitor in three parts. An ESP32 measures the distance
under an ultrasonic sensor, decides whether its lot is free and reports that to
Azure IoT Hub every ten seconds; a Spring backend takes the reports from the hub
and pushes them to browsers; a page shows the spot and what a parked car owes.
This directory holds TLA+ models of it, the TLC runs that check them and proofs of
their main properties by TLAPS.

Paths below are relative to the repository. `azure_iot_cloud.c`, `azure_iot_main.c`
are in `device/main`, `hc_sr04.c` in `device/components/HC-SR04`,
`transport_tls_esp32.c`, `backoff_algorithm.c` in `device/components/sample-azure-iot`, the
Java files in `backend/src/main/java/com/iot_parking_monitoring`, `script.js` and
`index.html` in `backend/src/main/resources`.

## The system

| Component | State | Operations | What makes it correct |
|---|---|---|---|
| Cloud task (`azure_iot_cloud.c:319-496`) | the point in the loop, the TLS context, what is subscribed | one iteration: decide, check the Internet flag, connect, set up, subscribe, report, process, unsubscribe, close, delay | cleanup undoes exactly what was done, nothing leaks, one report per session, the loop goes on whatever fails |
| Connect retry (`azure_iot_cloud.c:257-311`, `backoff_algorithm.c`) | the back-off context | initialise, draw a wait | bounded attempts, a wait that grows up to its maximum |
| TLS transport (`transport_tls_esp32.c:243-483`) | `xSSLContext`, its heap block, the global CA store | connect, disconnect, send, receive | the block is live when used and freed once |
| Occupancy (`azure_iot_main.c:302-320`, `azure_iot_cloud.c:347-353, 443-462`) | `T_APPS`: calibration distance, free, changed | calibrate, decide, build the payload | a report says what is under the sensor, a change is seen |
| Sensor driver (`hc_sr04.c`) | `pstart`, `d_raw`, written by an interrupt handler | trigger, edge handler, read | a distance is never nearer than what the last pulse met, a wait outlasts its measurement |
| Wi-Fi and start-up (`azure_iot_main.c`) | the Internet flag, a semaphore, the SNTP flag | event handlers, `app_main` | the flag follows the network, the tasks come up |
| Receiver (`Receiver.java`) | a position in the partition, from the latest event on | subscribe, take an event, add its time, forward it | what arrives while it is up is forwarded in the order of the partition |
| WebSocket broker (`WebSocketConfig`, `WebSocketController`) | subscribed browsers, a pool of threads | send to all | each browser gets each message; the pool does not keep their order |
| Dashboard (`script.js`) | `arrivalTimes`, the label and its popover | load, connect, handle a report | shows the lot's state, charges the parking time |

How they interact. `app_main` calibrates, brings the network up, waits for the time
and creates two tasks. The sensor task triggers the sensor every second; the
interrupt handler overwrites `d_raw`, which the cloud task reads, unsynchronised,
twice per cycle. The event task sets and clears `s_is_connected_to_internet`,
which the cloud task also reads twice per cycle. The cloud task calls the Azure
middleware, which calls back into the TLS transport. From the hub on, reports are
events in a partition, then STOMP messages, then calls of a handler in a page. A report
has no time of its own, though `README.md:54-56` lists one: the hub's enqueued time, which
the receiver adds, is the only one the page computes with.

What is hard in it: seven calls that can fail between connect and close, with
`continue`, `goto` and assertions as three different ways out; a flag and a distance
that change between two reads; unsigned arithmetic around a margin; restarts that
recalibrate; reports that are lost and never repeated, with a change flag that is
relative to the report before; an interrupt that is served after its pulse is over; and
messages that overtake each other on the way to a page that remembers when the car came.
`PROJECT.json` lists each hazard at its line.

## Modules

| Module | Models |
|---|---|
| `Backoff` | the retry arithmetic, as operators on the context record |
| `TlsTransport` | connect (success, failure, no memory) and disconnect, one operator each; they run to completion on the cloud task |
| `CloudTask` | the loop: `EXTENDS` both, adds the program counter, the Wi-Fi handlers and restarts |
| `SessionLadder` | abstract specification of one session: resources taken in order, given back in reverse, one report |
| `Occupancy` | calibration, echo, decision, report and what the hub knows; the abstract specification of the whole device |
| `HcSr04` | the sensor's driver in time: edges, the interrupt and its latency, `pstart`, `d_raw`, the two callers |
| `Sensor` | abstract specification of the driver: measurements that do not overlap, a distance that is that of the last pulse or far |
| `Device` | `CloudTask` and `Occupancy` composed: the data of the one moves at the calls of the other |
| `Startup` | `app_main` step by step, the two event handlers, the queue of events, the driver behind it, the time callback |
| `Dashboard` | what a page makes of an event, as operators on the page's record |
| `Feed` | `EXTENDS Dashboard`: the device's reports, the partition, the receiver, the outbound pool, the pages and their connections |
| `MCCloudTask`, `MCOccupancy`, `MCStartup`, `MCHcSr04`, `MCDevice`, `MCFeed` | the instances for TLC |
| `BackoffProofs`, `CloudTaskProofs`, `OccupancyProofs`, `StartupProofs`, `HcSr04Proofs`, `DeviceProofs`, `FeedProofs` | theorems and proofs |

`CloudTask` has one action per call the loop makes. `pc` names the call about to be
made; between two calls the event task may run, so the interleavings are those of
the code. A middleware call either succeeds, or fails (`Fault`) and takes the way out
the code gives it: `SetupFails` the `continue`s, `SubscribeFails` the labels,
`TeardownAsserts` the assertions. The calls of `RequestProperties` (request and
property bag) share one action: they fail to the same label and change nothing else.
`OptionsInit`, `Init` and `SetSymmetricKey` share `HubInit` for the same reason. The
delays take no time in the model. A failed telemetry call may have delivered its
packet, so `sent` may or may not count it. `on_wifi_disconnect` has two outcomes:
`esp_wifi_connect` is accepted, or `ESP_ERROR_CHECK` restarts the chip. Its early
return for a stopped driver happens only inside `esp_restart` and is not modelled.
`Reboot` stands for the start-up up to the creation of the task, which `Startup` has; the
link that `app_main` waited for may be down again by then, so the task may start offline.

`Occupancy` keeps the same loop by its data: `decide`, `build`, `send`. What fails in
between is one action: `DecideInVain` (offline: the decision is taken all the same and
no session is tried, as often as the network is down), `SessionFails` (a session that was
tried) or `SendFails` (the report is lost). The interrupt handler is `Echo`, which may
come between any two steps while a trigger is unanswered; `EchoLost` is a pulse that
the sensor ends by itself or an edge that never comes. `W` is the width of `uint32_t`
and arithmetic is taken modulo `W` where the code's wraps. History variables, marked
as such, hold what no variable of the code holds but the properties need: what the
last echo came from, the smallest and largest sample, the distance decided on.

`HcSr04` puts the driver in time. The sensor answers a trigger by a pulse or not at all;
each edge latches the interrupt, which is served within `LATENCY` and once for two edges
that came before it; the handler takes the time in one step and reads the level of the pin
in the next, as the code does, so an edge may fall between the two. What the handler then
computes, with `pstart` of whatever pulse it last saw the start of, is the code's
arithmetic in `uint32_t`. The waits of the two callers are lower bounds on the clock, the
network's part of the start-up is a wait of any length. `width`, `measured` and `gap` are
history. What `Occupancy` takes from it: a distance read after a wait is the one of the
pulse of that wait, or of no obstacle. `Sensor` states that without times: `Trigger` opens a
measurement, `End` ends its pulse, `Compute` takes the distance: that of the pulse, which is the
last one of its measurement, or a far one, which a second may follow because the falling edge
is served after the rising one that came late. `NoAnswer` closes a measurement that had no
pulse. `wrapped` is its one excuse, that no start of a pulse was seen for as long as `uint32_t`
holds. It is why `Occupancy` gives a trigger one `Echo` or one `EchoLost`.

`Device` EXTENDS `CloudTask` and INSTANCEs `Occupancy` with the same state variables and a
step, `Phase`, that is a function of the loop's `pc`. Each of its actions conjoins a call of
`CloudTask` with what the code does with the data at that call: `DecideAndCheck` decides
before the online check, `RequestAndBuild` builds the payload after the property bag,
`Publish` hands over the report, which a failed call may have got to the hub and a
successful one may not; `Crash` is each of the assertions and a power loss, with the
calibration that follows, and `CrashAgain` a power loss before that calibration has led to
a task. `lost` counts what
`Occupancy` calls faults, apart from the call failures `CloudTask` counts in `faults`,
because one session lost may be six failed calls.

`Dashboard` is the handler of a message: `ShowOccupied` and `ShowFree` are the two branches,
`Cost` the arithmetic of the payment in tenths of a dollar, with JavaScript's remainder.
`Feed` has one action per handler of the backend and per event of a connection. `Receive` is
the subscriber of the partition with the `convertAndSend` it ends in: the simple broker
gives one task per session to the outbound channel, a pool of `Threads` threads with one
queue, so up to `Threads` of a session's messages are sent at the same time and
`Deliver(c, i)` lets any of them arrive first. `WebSocketConfig` does not ask for
`preservePublishOrder`. `HandlerThrows` drops an event (the exception is printed),
`ReceiverEnds` is an error of either subscription, which has no handler, `BackendCrash`
ends the process with its sessions and its place in the partition, `ConnectionLost` leaves
the page as it is because `stompClient.connect` has no error callback. The device is
`Report`, `ReportMisread` (a cycle without an echo, which may decide wrongly), `ReportLost`
(a decision that never arrives) and `DeviceRestart`, which calibrates again. `Calibrations`
sorts the calibration distances of `Occupancy` by the threshold they give: `floor` is
between vehicles and the floor, and a decision on an echo is right; `vehicle`, from a
calibration over a parked one, makes the lot always free; `off`, beyond the floor or
wrapped around, makes it never free. All vehicles are alike here. `stay`, `told`,
`skipped`, `follows`, `intact` and `last` are history: they remember which events followed
which, so that a property can say what a page owes to the events it really got. The page
has one live spot, 1A, whatever device reports.

`Startup` has one action per call of `app_main` that waits, can fail or changes state:
`step` names the next one. Calls in a row that can only succeed or abort are one action
(`Initialise`, `wifi_start` up to `esp_wifi_start`), and `CheckAborts` is the way out of
the steps with an `ESP_ERROR_CHECK`. The Wi-Fi driver changes `station` and queues an
event; the event task handles it later, between any two steps of `app_main`, so an
address may still be queued when its link is lost. `on_got_ip` has the two outcomes of
giving a semaphore: before it exists the kernel's assertion restarts the device. Such
an early address counts as a failure, because it needs a join that outruns the two
calls between calls between `esp_wifi_connect` and the semaphore. `unnoticed` remembers the calls that
failed without a check; without it "the device comes up" would be false, and with it
the property says exactly what can keep the device down. The code registers no handler of
`IP_EVENT_STA_LOST_IP`: a station that loses its address and keeps its link is not modelled,
and `FlagFollowsNetwork` says nothing of it.

## Runs

| Run | Instance | Shows |
|---|---|---|
| `cloud_task` | the device's own retry parameters, 2 heap blocks, 8 faults | all properties of `CloudTask` below; about 33,000 states |
| `occupancy` | 2 probes, floor 20 or 21 cm, vehicle 8 cm, lost echo 40 cm, margin 5 cm, 2 moves, 2 faults | all properties of `Occupancy` below; about 252,000 states |
| `startup` | 4 failures | all properties of `Startup` below; about 800 states |
| `hc_sr04` | 2 probes, pulses of 1 to 3, latency 2, width 24, the clock up to 42 | all properties of `HcSr04` below; about 1,390,000 states |
| `device` | 1 retry, 1 block, 1 probe, 2 moves, 2 call failures, 2 losses | all properties of `Device` below; about 504,000 states |
| `feed` | 1 page, 2 threads, queues of 2, 2 moves, 2 faults, 2 page loads, a clock step of 1 h 1 min 10 s | all properties of `Feed` below; about 1,996,000 states |
| `paced_cycles` | 1 fault | violated: a failed set-up skips the delay between cycles |
| `waits_grow` | 1 fault | violated: the wait never exceeds 1 ms |
| `vehicle_at_boot` | no fault | violated: calibrated over a vehicle, the lot is reported free |
| `threshold_wrap` | 2 faults | violated: calibration below the margin, never free again |
| `lost_change` | 1 fault | violated: the change of a lost report is never reported |
| `posted_price` | as `feed` | violated: an hour and a minute cost 367 dollars, the price list of the page says 1 dollar an hour |

The last six are `findings` in `PROJECT.json`, with the sentence of the repository
each disagrees with.

Properties of `CloudTask`: the heap holds what `xSSLContext` points to
(`ContextOwned`); no step uses the transport without a live block and an open
session (`TransportReady`); every label is reached with what it undoes
(`CleanupLadder`); attempts are bounded and counted (`RetriesBounded`); a session is
lost only by a `continue` (`SessionsAccounted`); the range of the wait never shrinks
nor wraps (`JitterGrows`); the loop implements `SessionLadder` (`ImplementsLadder`);
reporting goes on (`TelemetryKeepsFlowing`).

Properties of `Occupancy`: the calibration lies within its samples
(`CalibrationWithinSamples`); calibrated on the empty lot, decisions on echoes of the
lot are right (`DecisionMatchesEcho`); the change flag agrees with the hub's reports
as long as none was lost in between (`ChangeFlagAgrees`); a delivered report of a device that
was calibrated on the empty lot tells the hub what the echo it was decided on came from
(`HubTruthful`); the size of a vehicle is
above the margin as long as no echo came between decision and payload
(`SizeExceedsMargin`); the hub ends up knowing the truth (`HubLearnsTruth`).

Properties of `Startup`: with the queue empty the flag says whether the station has an
address (`FlagFollowsNetwork`); `app_main` cannot wait for an address that came already
(`AddressNotMissed`); the cloud task exists only on a device that is calibrated, had an
address and knows the time (`CloudTaskStartsReady`); the device comes up with both tasks
unless a call whose result is ignored failed (`ComesUp`), and the flag comes back to TRUE
unless that call was the first `esp_wifi_connect` (`FlagRecovers`), which is what `CloudTask`
takes from the network by its fairness of `GotIp`.

Properties of `HcSr04`: a reading is that of the last pulse within the latency, or farther
than anything the sensor can see (`ReadingHonest`), as long as the difference it was cut
from fits `uint32_t`, which it may not after 71 minutes without a rising edge served in
time, such as a long wait for the network after the calibration; a wait ends with its
measurement complete (`MeasuredInTime`); the driver implements `Sensor`, so no trigger falls into
an open measurement, no pulse is left without a distance, and a distance once given by a pulse
is not overwritten by a late edge of it (`ImplementsSensor`).

Properties of `Device`: it implements `Occupancy`, so a report is of one decision and is sent
once, and one that is lost, with its session or on its way, is gone (`ImplementsOccupancy`); the hub ends up knowing the
truth with nothing assumed but the fairness of the calls, the network and the sensor
(`HubLearnsTruth`: here sessions are no longer taken for granted).

Properties of `Feed`: a page that got every event since the spot was last free, in order,
asks for a tenth of a dollar per second between the first report of the stay and the first
of the free spot (`PaymentExact`) and shows the arrival if any report of the stay said
"changed" (`ArrivalShown`); a connected page with nothing on its way shows the state the
hub's log ends with unless its last message was overtaken or an event was thrown away
(`QuietPageCurrent`); a connected page ends up showing the state of the lot if the receiver
has not ended and the device's last calibration tells vehicles from the floor
(`PageFollowsLot`): without that premise a restart over a parked vehicle refutes it, as
`vehicle_at_boot` does for the report. A page that missed events, was opened during a stay or
got a late message promises less, and `Feed` shows how much less when these premises are
dropped: it charges from the first report it saw, it may show the arrival of no one, and
after a message that came late it may ask for a negative amount. The payment itself is
shown until the next report of the free spot replaces it, ten seconds later.

Each property of a passing run has a mutant, a `..._Suffix` operator beside the
definition it changes; under it TLC finds the property violated.

### Bounds

`MaxFaults` caps failures in a behaviour, `MaxMoves` arrivals and departures. Eight
faults let all six connects of a call fail (exhaustion, `continue`) with two left, for
the next session or for the Wi-Fi handlers; two heap blocks show a block allocated
while another lives. In `occupancy` two probes can differ, two moves let a vehicle come
and go between two reports, two faults let an echo and a report, or both samples of a
calibration, be lost, or the device restart. `W` is 128 there: as on the device the sum
of the probes fits and the difference of two distances is below half of it. `RAND_MAX`
is 7 in place of 2^31 - 1; only whether the draw equals it matters.

In `startup` four failures let an attempt to join fail, a link go with its address
still queued, a check abort or the power fail, and one more failure come in the start
after it.

In `hc_sr04` the latency lets a pulse of 1 or 2 be over before its first edge is served, so
both edges become one interrupt, and lets the handler of the one pulse be the first to run
after another pulse was missed; the clock goes past the width of the counter; two probes
and then the task give the second configuration of the pin a pulse before it. The times
keep the order of the real ones (a pulse and its latency are shorter than what a missed
edge leaves), which is all that `DelayAssumption` asks, but for a boot that takes less than the
71 minutes of the counter (`app_main` waits 100 ms before the calibration).

In `device` one retry takes the loop through success, retry and exhaustion; failures are
counted twice, as calls and as reports lost. Larger retries, heaps and reading sets are in
`cloud_task` and `occupancy`, and the refinement is proved for all of them.

In `feed` two threads let one message overtake another, two faults let a crash, a wrong or a
lost report or a calibration over a vehicle meet a dropped event or a broken connection, two loads let a page be opened in the
middle of a stay or again after a crash. One step of the clock has an hour, a minute and
ten seconds in it, so every part of the payment is there. One page is enough to check
because pages share nothing but what they are sent; the proofs are for any number. The
inductive invariant of `FeedProofs` was also checked with queues of 3 and 3 threads.

All models cap failures and so let them stop in the end: this is the assumption
"failures stop" of the six liveness properties, not only a bound.

### Fairness

Weak fairness of the cloud task as a whole: the scheduler runs it, and each of its
calls returns because each has a time-out. `Reboot`: the panic handler restarts the
chip. `GotIp`: an access point asked for an address gives one. In `Occupancy` the
calibration, the cloud task and the sensor task run, a trigger is answered, and a cycle
that finds the network down often enough finds it up once (strong fairness of
`DecideAndConnect`, which `Device` does without); an echo that does not come is a fault.
In `Device` the calls of the cycle, the start-up, `GotIp`, the sensor task and its echoes.
In `Feed` the device goes on reporting (which `TelemetryKeepsFlowing` shows), a service that
ends is started again and subscribes, the receiver takes events, and the oldest message to
a page arrives (the pool's queue is served in order). In `Startup` `app_main` and the event task run, a
station that joins gets an address (`AddressObtained`) and one that is up gets the time
(`time_sync_notification_cb`; the SNTP client polls). Nothing is assumed of failures, moves or the
handlers' moments.

## Proofs

All theorems hold for every value of the constants that meets the named assumptions
of the modules: any retry configuration with `RETRY_MAX_ATTEMPTS > 0` and a maximum
delay that fits in `uint16_t`, any heap, any number of faults; any width, margin,
number of probes and set of readings such that the sum of the probes fits in a
`uint32_t` and (`MarginAssumption`) floor readings agree within the margin and vehicles
are nearer than that.

- `BackoffProofs`: a drawn wait lies between 0 and the jitter, a counted retry leaves
  a well-formed context with a jitter that has not shrunk, and `RandomIsBinary`: the
  draw is 0 or 1 for every `RAND_MAX`, the reason of the finding `waits_grow`.
- `CloudTaskProofs`: `IInv` conjoins the type invariant with the safety invariants of the
  run and `SentAtMostOnce`. They are inductive together: `CleanupLadder` fixes what
  is subscribed at every step, `ContextOwned` and `TransportReady` need each other at the
  close, `SessionsAccounted` counts on the state of the session at idle steps. Frame
  lemmas (`TlsFrame`, `RetryFrame`) dispose of the steps that touch none of it.
  `HeldAt`, which follows from `IInv`, says how many resources are held at each step, and
  with it each action maps to one step of `SessionLadder` or a stutter
  (`LoopImplementsLadder`). `JitterIsMonotone` is the action property, from the lemmas of
  `BackoffProofs`. `CyclesEnd` is the safety half of `TelemetryKeepsFlowing`: `CallsLeft`, a
  natural number of at most 16 + 2 * `RETRY_MAX_ATTEMPTS`, falls with each step of a cycle and
  no step of the event task raises it, so a scheduled cycle ends whatever fails.
- `OccupancyProofs`: `IInv` adds four parts to the type invariant. `EchoInv`: a distance
  said to come from the floor or a vehicle could have. `SampleInv`: after n probes the
  sum lies between n times the smallest and n times the largest sample, so it cannot
  wrap and the average lies between them; this is what makes
  `CalibrationWithinSamples` inductive. `DecisionInv`: until the cycle ends the flags are
  those of the distance decided on. `ChangeInv`: the previous decision is the one the
  hub knows when no cycle was lost; together with `DecisionInv` this gives `HubIsTruthful`,
  because nothing moves the decision between payload and delivery. The safety properties of the run then follow
  without looking at the actions again; `DecisionIsRight` also needs that the margin's
  subtraction does not wrap (`ThresholdExact`).

- `StartupProofs`: `IInv` adds three parts to the type invariant. `NetInv`: which queues
  go with each state of the station, and what the flag says while the queue is empty;
  it is what makes the four queues of the type invariant all there are. `SemInv`: while
  `app_main` waits, the semaphore holds an address exactly when one came. `ReadyInv`: what
  the steps before have brought. `QueueSteps` evaluates the queue's operations on those
  four queues once, and each step of `NetInvStep` names the queues before and after.

- `HcSr04Proofs`, for every latency, pulse, delay and width that `DelayAssumption` allows:
  `IInv` adds four parts to the type invariant. `WithinWait`: a measurement and its
  interrupts fall into the wait after the trigger. `PulseTimes`: where in the pulse the
  sensor stands and how late its edges are. `StartKnown`: `pstart` is the start of this
  pulse, or older than anything the sensor can measure; this is what a late handler
  subtracts, and for the first of two late edges it is always older. `GapKnown`: so the
  difference is the pulse within the latency, or too far.
  `CmMonotone` carries that through the division. `DriverImplementsSensor` maps every step to
  one of `Sensor` or a stutter: a measurement is open while anything is on its way
  (`~Settled`), `WithinWait` makes both configurations of the pin and every trigger find none
  open, `PulseTimes` tells an answered measurement from one without an answer, and
  `ReadingHonest` of the state after the handler is the promise of `Compute`.
- `DeviceProofs`: `DInv` counts losses against failures and says what `pc` may be during
  the calibration. `DeviceImplementsCloudTask` is immediate, since each action conjoins one
  of `CloudTask`; it brings `TypeOK` of `CloudTask` into the second proof, and with it
  `DeviceKeepsTheLoop` has the loop's safety, waits and ladder of the whole device.
  `DeviceImplementsOccupancy` maps each call to its step of `Occupancy` or to a stutter.
  `OccupancyProofs` is instantiated with that mapping (its assumptions are
  `OccupancyAssumption`, stated in `Device`), so its theorems hold of the device:
  `DeviceTypeCorrect` takes the type invariant from there, `DeviceReportsTruthfully` the
  five safety properties.
- `FeedProofs`, for any number of pages and threads, any queues, times and failures. An
  event *goes on* from another when it could have come next in the hub's log. The invariant
  `Chain` follows that relation from the log's end (`HubInv`) through the receiver
  (`NextInv`) and the messages on their way (`OutInv`) to what a page handled last; it breaks
  only where a history variable says so. `Shown` is what the page keeps (`PageInv`) and
  the two properties, which need each other: an arrival shown before is one of the reasons
  for the next. `Delivered` says what an overtaking message leaves. `Current` follows the
  state the log ends with through the same queues (`LogEnds`, `PageEnds`): what is taken
  last, sent last and shown is it, which is `QuietPageIsCurrent`. `CostIsPerSecond` puts
  the hours, minutes and seconds together again.

Every invariant and every action property or refinement of a passing run is a theorem. Only
model-checked: the liveness properties `TelemetryKeepsFlowing`, `HubLearnsTruth` (of
`Occupancy` and of `Device`), `ComesUp`, `FlagRecovers` and `PageFollowsLot` (fairness and
ENABLED are beyond the prover), and the six violations.

## Not modelled

- An address lost while the station stays associated: no handler is registered for it, and
  the flag stays TRUE.
- Wire formats, JSON text, tokens, certificates and the HMAC: opaque to the control.
- The HSM code of the transport: not compiled into the configuration.
- The hub's callbacks in `azure_iot_cloud.c`: they log, one answers a command.
- `wifi_stop`, `stop` and `get_example_netif_from_desc`: they run in `esp_restart` only,
  which nothing calls.
- `WebSocketHandler`: no endpoint registers it. `MainController`: no state.
  `handleSpotStatusChange` of `WebSocketController`: nothing sends to its address.
- Partitions other than the one the device's identity maps to, and the spots other than
  1A: the first get no events, the second are coloured once.
- A reopened connection: the page never opens one.
- CSS, page layout, build files.

## Plan

What is left, in this order:

1. `Occupancy` as a reader of `Sensor`: its echoes and lost echoes as the measurements of
   `Sensor`, so that what `HcSr04` promises is literally what the decision is taken on. It
   needs the distances of `Occupancy` as pulses.
2. The start-up's flag and the Wi-Fi actions of `CloudTask`: both models of the two
   handlers follow the same lines. In safety they agree in little that could be wrong; what
   `CloudTask` needs is the liveness that `FlagRecovers` checks.
3. For the other liveness properties what `CyclesEnd` is for `TelemetryKeepsFlowing`: a measure
   that the steps of `app_main` and of a message on its way decrease.

--------------------------------- MODULE Feed ----------------------------------
(* From the device's reports to the pages that show them: the partition of the hub    *)
(* that the device writes to, the receiver that reads it from its latest event on      *)
(* (Receiver.java), the simple broker that hands each message to a pool of threads for  *)
(* every session (WebSocketConfig.java, WebSocketController.java), and the pages, each   *)
(* with a connection it never opens again (script.js).  What a page makes of an event     *)
(* is Dashboard.                                                                            *)
EXTENDS Dashboard, Sequences

CONSTANTS
  Pages,       \* browser pages
  Threads,     \* of the client outbound channel: messages sent at the same time
  TICK,        \* bound: time passes in steps of so many milliseconds
  MaxTime,     \* bound: the clock
  MaxQueue,    \* bound: events or messages on their way, in the hub or to a page
  MaxMoves, MaxFaults, MaxOpens   \* bounds: arrivals and departures, failures, page loads

ASSUME PoolAssumption == Threads \in Nat \ {0}

ASSUME BoundsAssumption ==
  /\ TICK \in Nat \ {0} /\ MaxTime \in Nat /\ MaxQueue \in Nat \ {0}
  /\ MaxMoves \in Nat /\ MaxFaults \in Nat /\ MaxOpens \in Nat

VARIABLES
  clock,     \* the hub's time, in milliseconds
  lot,       \* the lot is free
  decided,   \* bParkingLotIsFree: what the device's last cycle decided
  calibration,  \* what its threshold tells apart
  stay,      \* (history) when the hub's log has the current stay begin, or None
  told,      \* (history) a report of that stay said that the state has changed
  backend,   \* the receiver: off, starting, active, or ended by an error
  hub,       \* events of the partition the receiver has not got yet
  link,      \* per page: closed, loading, live or lost
  page,      \* per page: what it shows
  out,       \* per page: messages handed to the outbound channel for it
  skipped,   \* (history) per page: the next message will not follow the last one
  intact,    \* (history) per page: it got every event since the last free one, in order
  last,      \* (history) per page: the last event it handled, if it was intact with it
  moves, faults, opens

world  == <<clock, lot, moves>>
device == <<decided, calibration, stay, told>>
view   == <<page, intact, last>>
vars == <<world, device, backend, hub, link, view, out, skipped, faults, opens>>

\* ulCalibrationDistance by the threshold it gives: between vehicles and the floor, so that
\* a decision is right; no farther than a vehicle is, so that the lot is always free;
\* or beyond the floor, by lost echoes or because the subtraction wraps, so that it never
\* is.  All vehicles are alike here; Occupancy has the distances.
Calibrations == {"floor", "vehicle", "off"}

Events == [time : Nat, is_free : BOOLEAN, is_state_changed : BOOLEAN,
           stay : Nat \cup {None}, told : BOOLEAN]

NoEvent == [time |-> None, is_free |-> TRUE, is_state_changed |-> FALSE,
            stay |-> None, told |-> FALSE]

\* follows: (history) it is handled right after the event before it in the partition.
Messages == [event : Events, follows : BOOLEAN]

PageStates == [arrival : Nat \cup {None}, label : Labels,
               popover : [text : Texts, arrival : Nat \cup {None}, cost : Int]]

TypeOK ==
  /\ clock \in Nat
  /\ lot \in BOOLEAN /\ decided \in BOOLEAN /\ told \in BOOLEAN
  /\ calibration \in Calibrations
  /\ stay \in Nat \cup {None}
  /\ backend \in {"off", "starting", "active", "ended"}
  /\ hub \in Seq(Events) /\ Len(hub) <= MaxQueue
  /\ link \in [Pages -> {"closed", "loading", "live", "lost"}]
  /\ page \in [Pages -> PageStates]
  /\ out \in [Pages -> Seq(Messages)]
  /\ \A c \in Pages : Len(out[c]) <= MaxQueue /\ (link[c] # "live" => out[c] = <<>>)
  /\ skipped \in [Pages -> BOOLEAN]
  /\ intact \in [Pages -> BOOLEAN]
  /\ last \in [Pages -> Events \cup {NoEvent}]
  /\ moves \in 0 .. MaxMoves /\ faults \in 0 .. MaxFaults /\ opens \in 0 .. MaxOpens

Init ==
  /\ clock = 0
  /\ lot \in BOOLEAN
  /\ decided = TRUE
  /\ calibration \in {"floor", "vehicle"}
  /\ stay = None
  /\ told = FALSE
  /\ backend = "off"
  /\ hub = <<>>
  /\ link = [c \in Pages |-> "closed"]
  /\ page = [c \in Pages |-> NewPage]
  /\ out = [c \in Pages |-> <<>>]
  /\ skipped = [c \in Pages |-> FALSE]
  /\ intact = [c \in Pages |-> FALSE]
  /\ last = [c \in Pages |-> NoEvent]
  /\ moves = 0 /\ faults = 0 /\ opens = 0

Fault == faults < MaxFaults /\ faults' = faults + 1

--------------------------------------------------------------------------------
(* The world and the device. *)

Tick ==
  /\ clock < MaxTime
  /\ clock' = clock + TICK
  /\ UNCHANGED <<lot, moves, device, backend, hub, link, view, out, skipped, faults, opens>>

Move ==
  /\ moves < MaxMoves
  /\ moves' = moves + 1
  /\ lot' = ~lot
  /\ UNCHANGED <<clock, device, backend, hub, link, view, out, skipped, faults, opens>>

\* What a cycle decides on an echo of the lot.
Decision == calibration = "vehicle" \/ (calibration = "floor" /\ lot)

\* A report that says free or not; the partition keeps the order and the time.
Reported(free) ==
  LET changed == free # decided
      begins  == IF stay = None THEN clock ELSE stay
  IN
  /\ Len(hub) < MaxQueue
  /\ decided' = free
  /\ stay' = IF free THEN None ELSE begins
  /\ told' = (~free /\ (changed \/ told))
  /\ hub' = IF backend = "active"
            THEN Append(hub, [time |-> clock, is_free |-> free, is_state_changed |-> changed,
                              stay |-> IF free THEN stay ELSE begins, told |-> told'])
            ELSE <<>>
  /\ UNCHANGED <<world, calibration, backend, link, view, out, skipped, opens>>

Report == Reported(Decision) /\ UNCHANGED faults

\* The echo was lost, and the cycle decides on whatever distance there is.
ReportMisread == Fault /\ Reported(~Decision)

\* The cycle decides, and its report does not reach the hub.
ReportLost ==
  /\ Fault
  /\ decided' = Decision
  /\ UNCHANGED <<world, calibration, stay, told, backend, hub, link, view, out, skipped, opens>>

\* A device that restarts takes the lot for free until its first decision, and calibrates
\* over whatever is under it by then: the floor, a vehicle, or what is left of either when
\* echoes are lost or a vehicle comes or goes between two probes.
DeviceRestart ==
  /\ Fault
  /\ decided' = TRUE
  /\ calibration' \in Calibrations
  /\ UNCHANGED <<world, stay, told, backend, hub, link, view, out, skipped, opens>>

--------------------------------------------------------------------------------
(* The backend. *)

\* main: the web server is up, then Receiver.start.
Start ==
  /\ backend = "off"
  /\ backend' = "starting"
  /\ UNCHANGED <<world, device, hub, link, view, out, skipped, faults, opens>>

\* receiveFromPartition at EventPosition.latest(): what came before is never read.
Subscribed ==
  /\ backend = "starting"
  /\ backend' = "active"
  /\ UNCHANGED <<world, device, hub, link, view, out, skipped, faults, opens>>

\* getPartitionIds or a partition ends with an error that nothing handles.
ReceiverEnds ==
  /\ backend \in {"starting", "active"}
  /\ Fault
  /\ backend' = "ended"
  /\ hub' = <<>>
  /\ UNCHANGED <<world, device, link, view, out, skipped, opens>>

LivePages == {c \in Pages : link[c] = "live"}

\* Mutant: a task for every session, subscribed or not.
SendMessageToClients_Everyone(event) ==
  out' = [c \in Pages |-> Append(out[c], [event |-> event, follows |-> ~skipped[c]])]

\* convertAndSend: one task for every session that has subscribed.
SendMessageToClients(event) ==
  out' = [c \in Pages |->
            IF c \in LivePages
            THEN Append(out[c], [event |-> event, follows |-> ~skipped[c]])
            ELSE out[c]]

Receive ==
  /\ hub # <<>>
  /\ \A c \in LivePages : Len(out[c]) < MaxQueue
  /\ SendMessageToClients(Head(hub))
  /\ skipped' = [c \in Pages |-> FALSE]
  /\ hub' = Tail(hub)
  /\ UNCHANGED <<world, device, backend, link, view, faults, opens>>

\* The handler's exception is printed, and the event is gone.
HandlerThrows ==
  /\ hub # <<>>
  /\ Fault
  /\ skipped' = [c \in Pages |-> TRUE]
  /\ hub' = Tail(hub)
  /\ UNCHANGED <<world, device, backend, link, view, out, opens>>

\* The process ends: its sessions, its tasks and its place in the partition with it.
BackendCrash ==
  /\ backend # "off"
  /\ Fault
  /\ backend' = "off"
  /\ hub' = <<>>
  /\ link' = [c \in Pages |-> IF link[c] = "closed" THEN "closed" ELSE "lost"]
  /\ out' = [c \in Pages |-> <<>>]
  /\ UNCHANGED <<world, device, view, skipped, opens>>

--------------------------------------------------------------------------------
(* A page. *)

\* Opened, or loaded again.
Open(c) ==
  /\ opens < MaxOpens
  /\ opens' = opens + 1
  /\ backend # "off"
  /\ link' = [link EXCEPT ![c] = "loading"]
  /\ page' = [page EXCEPT ![c] = NewPage]
  /\ out' = [out EXCEPT ![c] = <<>>]
  /\ intact' = [intact EXCEPT ![c] = FALSE]
  /\ last' = [last EXCEPT ![c] = NoEvent]
  /\ UNCHANGED <<world, device, backend, hub, skipped, faults>>

\* CONNECTED, and the subscription to /topic/parking.
Connected(c) ==
  /\ link[c] = "loading"
  /\ link' = [link EXCEPT ![c] = "live"]
  /\ UNCHANGED <<world, device, backend, hub, view, out, skipped, faults, opens>>

\* The connection breaks, or the broker closes a slow session.  stompClient.connect has
\* no error callback: the page keeps what it shows.
ConnectionLost(c) ==
  /\ link[c] \in {"loading", "live"}
  /\ Fault
  /\ link' = [link EXCEPT ![c] = "lost"]
  /\ out' = [out EXCEPT ![c] = <<>>]
  /\ UNCHANGED <<world, device, backend, hub, view, skipped, opens>>

\* What is left of messages when the i-th overtakes those before it: those are late, and
\* so is the one that followed it.
Overtaken(messages, i) ==
  [j \in 1 .. (Len(messages) - 1) |->
     LET message == messages[IF j < i THEN j ELSE j + 1]
     IN  [message EXCEPT !.follows = @ /\ (i = 1 \/ j > i)]]

\* One of the messages the pool is sending arrives, and the page handles it.
Deliver(c, i) ==
  LET message == out[c][i]
      event   == message.event
      inOrder == intact[c] /\ message.follows /\ i = 1
  IN
  /\ link[c] = "live"
  /\ i <= Len(out[c]) /\ i <= Threads
  /\ page' = [page EXCEPT ![c] = OnMessage(@, event)]
  /\ intact' = [intact EXCEPT ![c] = event.is_free \/ inOrder]
  /\ last' = [last EXCEPT ![c] = IF inOrder THEN event ELSE NoEvent]
  /\ out' = [out EXCEPT ![c] = Overtaken(@, i)]
  /\ skipped' = [skipped EXCEPT ![c] = @ \/ (i > 1 /\ i = Len(out[c]))]
  /\ UNCHANGED <<world, device, backend, hub, link, faults, opens>>

--------------------------------------------------------------------------------
Device    == Report \/ ReportMisread \/ ReportLost \/ DeviceRestart
Backend   == Start \/ Subscribed \/ ReceiverEnds \/ Receive \/ HandlerThrows \/ BackendCrash
Page(c)   == Open(c) \/ Connected(c) \/ ConnectionLost(c)
             \/ \E i \in 1 .. Threads : Deliver(c, i)

Next == Tick \/ Move \/ Device \/ Backend \/ \E c \in Pages : Page(c)

Spec == Init /\ [][Next]_vars

\* The device goes on reporting (CloudTask), the service is started again when it ends,
\* and the receiver and every thread of the pool get on with their work.
Fairness ==
  /\ WF_vars(Report)
  /\ WF_vars(Start \/ Subscribed)
  /\ WF_vars(Receive)
  /\ \A c \in Pages : WF_vars(Deliver(c, 1))
FairSpec == Spec /\ Fairness

--------------------------------------------------------------------------------
(* Safety. *)

\* A page that got every event since the spot was last free, one after the other, asks
\* for exactly a tenth of a dollar per second between the first report of the stay
\* and the first of the free spot, though the time is cut into hours, minutes and
\* seconds, the arrival is kept in the page, and reports of the device may be missing
\* (script.js:30-33, 60-76, Receiver.java:33-43).
PaymentExact ==
  \A c \in Pages :
    last[c].is_free /\ last[c].stay # None =>
      page[c].popover.cost = (last[c].time - last[c].stay) \div 1000

\* Such a page shows the arrival of a vehicle as long as the spot is occupied, if any
\* report of the stay said that the state had changed: the popover is written by
\* that report only (script.js:30-49, azure_iot_cloud.c:352-353).
ArrivalShown ==
  \A c \in Pages :
    ~last[c].is_free /\ last[c].told =>
      page[c].popover = [text |-> "arrived", arrival |-> last[c].stay, cost |-> None]

\* A connected page with nothing left on its way to it shows the state that the hub's log
\* ends with, whichever reports were lost, came late or repeat a state: only a message that
\* was overtaken as the last one, or an event the handler threw away, leaves it with an old
\* one, until the next report (script.js:17-86, Receiver.java:31-47).
QuietPageCurrent ==
  \A c \in Pages :
    /\ link[c] = "live" /\ backend = "active" /\ ~skipped[c]
    /\ hub = <<>> /\ out[c] = <<>> /\ page[c].label # "none"
    => (page[c].label = "free" <=> stay = None)

(* Liveness. *)

\* Once vehicles and failures stop, a page whose connection is up shows the state of the
\* lot, and no late message puts an old one back, if the receiver has not ended and the
\* device's last calibration tells vehicles from the floor: a restart over a parked
\* vehicle gives one that does not (azure_iot_main.c:302-320, azure_iot_cloud.c:347-353,
\* Receiver.java:31-47, script.js:17-86).
PageFollowsLot ==
  \A c \in Pages :
    <>[](calibration = "floor" /\ link[c] = "live" /\ backend = "active" =>
           page[c].label = IF lot THEN "free" ELSE "occupied")

(* What a document says and the code does not do. *)

\* "Monday-Friday (8:00-17:00) -> 1$ per hour" (index.html:82): nobody is asked for more
\* than ten tenths for every hour begun.
PostedPrice ==
  \A c \in Pages :
    last[c].is_free /\ last[c].stay # None =>
      page[c].popover.cost <= 10 * ((last[c].time - last[c].stay) \div 3600000 + 1)

================================================================================

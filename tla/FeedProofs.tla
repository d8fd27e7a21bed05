------------------------------ MODULE FeedProofs -------------------------------
(* What an intact page shows and asks for, for any number of pages and threads, any     *)
(* queues, times and failures.  The argument follows the events from the hub's log to    *)
(* the page: each one goes on from the one before it wherever two of them lie next to     *)
(* each other on their way, and a message that overtakes others cuts that chain in       *)
(* time.                                                                                  *)
EXTENDS Feed, SequenceTheorems, TLAPS

\* The stay that goes on after an event, and whether a report of it said "changed".
After(event)  == IF event.is_free THEN None ELSE event.stay
ToldBy(event) == ~event.is_free /\ event.told

\* The later event goes on from the earlier one.
GoesOn(earlier, later) ==
  /\ later.is_free => later.stay = After(earlier)
  /\ ~later.is_free =>
       later.stay = IF After(earlier) = None THEN later.time ELSE After(earlier)
  /\ later.told = (~later.is_free /\ (later.is_state_changed \/ ToldBy(earlier)))
  /\ later.stay <= later.time

\* The hub's log ends with this event.
EndsWith(event) == stay = After(event) /\ told = ToldBy(event)

StayInv == stay <= clock

HubInv ==
  /\ hub # <<>> => backend = "active" /\ EndsWith(hub[Len(hub)])
  /\ \A k \in 1 .. Len(hub) - 1 : GoesOn(hub[k], hub[k + 1])

\* Which connections there are while the backend is down or has not subscribed yet.
LinkInv ==
  \A c \in Pages :
    /\ backend = "off" => link[c] \in {"closed", "lost"}
    /\ link[c] = "loading" => ~intact[c]
    /\ backend = "starting" /\ link[c] = "live" => ~intact[c] /\ out[c] = <<>>

\* What an intact page keeps.
PageInv ==
  \A c \in Pages :
    /\ intact[c] => page[c].arrival = After(last[c])
    /\ ~intact[c] => last[c] = NoEvent
    /\ ~last[c].is_free => last[c].stay # None

\* The messages on their way to a page, and how they go on from what it handled.
OutInv ==
  \A c \in Pages : link[c] = "live" =>
    /\ \A k \in 1 .. Len(out[c]) - 1 :
         out[c][k + 1].follows => GoesOn(out[c][k].event, out[c][k + 1].event)
    /\ intact[c] /\ out[c] # <<>> /\ out[c][1].follows => GoesOn(last[c], out[c][1].event)

\* The last event that was sent to a page, if any is known.
Known(c)    == out[c] # <<>> \/ intact[c]
LastSent(c) == IF out[c] # <<>> THEN out[c][Len(out[c])].event ELSE last[c]

\* How the hub goes on from there.
NextInv ==
  \A c \in Pages : backend = "active" /\ link[c] = "live" /\ Known(c) /\ ~skipped[c] =>
    IF hub = <<>> THEN EndsWith(LastSent(c)) ELSE GoesOn(LastSent(c), hub[1])

\* The way of the events, and what the pages made of them; inductive together with TypeOK.
Chain == StayInv /\ HubInv /\ LinkInv /\ OutInv /\ NextInv
Shown == PageInv /\ PaymentExact /\ ArrivalShown

--------------------------------------------------------------------------------
(* The arithmetic of the page. *)

\* Hours, minutes and seconds put together again are the seconds they were cut from, so
\* a payment is a tenth of a dollar per second (script.js:64-70).
THEOREM CostIsPerSecond ==
  ASSUME NEW ms \in Nat
  PROVE  Cost(ms) = ms \div 1000
<1> DEFINE t == ms \div 1000
           h == t \div 3600
           r == t % 3600
           m == r \div 60
<1>1. t \in Nat
  OBVIOUS
<1> HIDE DEF t
<1>2. h \in Nat /\ r \in 0 .. 3599 /\ t = 3600 * h + r
  BY <1>1
<1> HIDE DEF h, r
<1>3. m \in Nat /\ r % 60 \in 0 .. 59 /\ r = 60 * m + (r % 60)
  BY <1>2
<1>4. t % 60 = r % 60
  BY <1>2, <1>3
<1> HIDE DEF m
<1>5. Cost(ms) = (t % 60) + 60 * m + 3600 * h
  BY <1>1 DEF Cost, Remainder, t, h, r, m
<1>6. Cost(ms) = t
  BY <1>1, <1>2, <1>3, <1>4, <1>5
<1> QED
  BY <1>6 DEF t

\* A negative time, which a late message can give, has an integer cost as well.
LEMMA CostType ==
  ASSUME NEW ms \in Int
  PROVE  Cost(ms) \in Int
BY DEF Cost, Remainder

\* What a page shows after an event is well formed.
LEMMA OnMessageType ==
  ASSUME NEW shown \in PageStates, NEW event \in Events
  PROVE  OnMessage(shown, event) \in PageStates
<1>1. event.time \in Nat /\ event.is_free \in BOOLEAN /\ event.is_state_changed \in BOOLEAN
  BY DEF Events
<1>2. shown.arrival \in Nat \cup {None} /\ shown.popover \in
        [text : Texts, arrival : Nat \cup {None}, cost : Int]
  BY DEF PageStates
<1>3. shown.arrival # None => Cost(event.time - shown.arrival) \in Int
  BY <1>1, <1>2, CostType
<1>4. ShowFree(shown, event) \in PageStates
  BY <1>3 DEF ShowFree, PageStates, Labels, Texts, None
<1>5. ShowOccupied(shown, event) \in PageStates
  BY <1>1, <1>2 DEF ShowOccupied, PageStates, Labels, Texts, None
<1> QED
  BY <1>4, <1>5 DEF OnMessage

--------------------------------------------------------------------------------
(* Messages that overtake each other. *)

\* One message is gone; those after it keep what they followed, unless it was that one.
LEMMA OvertakenElements ==
  ASSUME NEW q \in Seq(Messages), NEW i \in 1 .. Len(q)
  PROVE  /\ Overtaken(q, i) \in Seq(Messages)
         /\ Len(Overtaken(q, i)) = Len(q) - 1
         /\ \A j \in 1 .. Len(q) - 1 :
              /\ Overtaken(q, i)[j].event = q[IF j < i THEN j ELSE j + 1].event
              /\ Overtaken(q, i)[j].follows =
                   (q[IF j < i THEN j ELSE j + 1].follows /\ (i = 1 \/ j > i))
<1> DEFINE old(j) == q[IF j < i THEN j ELSE j + 1]
           new(j) == [old(j) EXCEPT !.follows = @ /\ (i = 1 \/ j > i)]
<1>1. Len(q) \in Nat /\ \A k \in 1 .. Len(q) : q[k] \in Messages
  OBVIOUS
<1>2. \A j \in 1 .. Len(q) - 1 : old(j) \in Messages
  BY <1>1
<1>3. ASSUME NEW j \in 1 .. Len(q) - 1
      PROVE  /\ new(j) \in Messages
             /\ new(j).event = old(j).event
             /\ new(j).follows = (old(j).follows /\ (i = 1 \/ j > i))
  <2>1. old(j) \in Messages
    BY <1>2
  <2> HIDE DEF old
  <2> QED
    BY <2>1 DEF Messages
<1>4. Overtaken(q, i) = [j \in 1 .. Len(q) - 1 |-> new(j)]
  BY DEF Overtaken
<1> HIDE DEF new
<1>5. Overtaken(q, i) \in Seq(Messages) /\ Len(Overtaken(q, i)) = Len(q) - 1
  <2>1. Len(q) - 1 \in Nat
    BY <1>1
  <2> QED
    BY <1>3, <1>4, <2>1, IsASeq
<1>6. \A j \in 1 .. Len(q) - 1 : Overtaken(q, i)[j] = new(j)
  BY <1>4
<1> QED
  BY <1>3, <1>5, <1>6

--------------------------------------------------------------------------------
(* Types. *)

\* A cycle decides one way or the other.
LEMMA DecisionType ==
  ASSUME TypeOK
  PROVE  Decision \in BOOLEAN /\ (~Decision) \in BOOLEAN
BY DEF TypeOK, Decision

\* What a report appends is an event.
LEMMA ReportType ==
  ASSUME TypeOK, NEW free \in BOOLEAN, Reported(free)
  PROVE  /\ told' \in BOOLEAN /\ stay' \in Nat \cup {None}
         /\ hub' \in Seq(Events) /\ Len(hub') <= MaxQueue
<1> DEFINE begins == IF stay = None THEN clock ELSE stay
           event  == [time |-> clock, is_free |-> free, is_state_changed |-> free # decided,
                      stay |-> IF free THEN stay ELSE begins, told |-> told']
<1>1. begins \in Nat /\ told' \in BOOLEAN
  BY DEF TypeOK, Reported
<1>2. event \in Events
  BY <1>1 DEF TypeOK, Events
<1>3. hub' = IF backend = "active" THEN Append(hub, event) ELSE <<>>
  BY DEF Reported
<1>4. stay' = IF free THEN None ELSE begins
  BY DEF Reported
<1> HIDE DEF event, begins
<1>5. Len(hub) < MaxQueue /\ hub \in Seq(Events)
  BY DEF Reported, TypeOK
<1>6. hub' \in Seq(Events) /\ Len(hub') <= MaxQueue
  BY <1>2, <1>3, <1>5, BoundsAssumption
<1>7. stay' \in Nat \cup {None}
  BY <1>1, <1>4
<1> QED
  BY <1>1, <1>6, <1>7

\* Who gets a message when the receiver hands on an event.
LEMMA Sent ==
  ASSUME TypeOK, Receive, NEW c \in Pages
  PROVE  /\ Head(hub) \in Events /\ Head(hub) = hub[1]
         /\ link[c] = "live" =>
              /\ out'[c] = Append(out[c], [event |-> Head(hub), follows |-> ~skipped[c]])
              /\ out'[c] \in Seq(Messages)
              /\ Len(out'[c]) = Len(out[c]) + 1 /\ Len(out'[c]) <= MaxQueue
              /\ \A k \in 1 .. Len(out[c]) : out'[c][k] = out[c][k]
              /\ out'[c][Len(out[c]) + 1].event = Head(hub)
              /\ out'[c][Len(out[c]) + 1].follows = ~skipped[c]
         /\ link[c] # "live" => out'[c] = out[c]
<1> DEFINE message == [event |-> Head(hub), follows |-> ~skipped[c]]
<1>1. Head(hub) \in Events /\ Head(hub) = hub[1]
  BY DEF Receive, TypeOK
<1>2. skipped[c] \in BOOLEAN /\ out[c] \in Seq(Messages)
  BY DEF TypeOK
<1>3. out'[c] = IF link[c] = "live" THEN Append(out[c], message) ELSE out[c]
  BY DEF Receive, SendMessageToClients, LivePages
<1>4. message \in Messages /\ message.event = Head(hub) /\ message.follows = ~skipped[c]
  BY <1>1, <1>2 DEF Messages
<1>5. link[c] = "live" => Len(out[c]) < MaxQueue
  BY DEF Receive, LivePages
<1> HIDE DEF message
<1>6. /\ Append(out[c], message) \in Seq(Messages)
      /\ Len(Append(out[c], message)) = Len(out[c]) + 1
      /\ \A k \in 1 .. Len(out[c]) : Append(out[c], message)[k] = out[c][k]
      /\ Append(out[c], message)[Len(out[c]) + 1] = message
  BY <1>2, <1>4, AppendProperties
<1>7. Len(out[c]) \in Nat
  BY <1>2
<1>8. CASE link[c] = "live"
  BY <1>1, <1>3, <1>4, <1>5, <1>6, <1>7, <1>8, BoundsAssumption DEF message
<1>9. CASE link[c] # "live"
  BY <1>1, <1>3, <1>9
<1> QED
  BY <1>8, <1>9

\* The types of what a delivery changes.
LEMMA DeliverType ==
  ASSUME TypeOK, NEW c \in Pages, NEW i \in 1 .. Threads, Deliver(c, i)
  PROVE  TypeOK'
<1> DEFINE message == out[c][i]
           event   == message.event
           inOrder == intact[c] /\ message.follows /\ i = 1
<1>1. out[c] \in Seq(Messages) /\ i \in 1 .. Len(out[c])
  BY PoolAssumption DEF Deliver, TypeOK
<1>0. message \in Messages
  BY <1>1
<1> HIDE DEF message
<1>2. event \in Events /\ event.is_free \in BOOLEAN /\ message.follows \in BOOLEAN
  BY <1>0 DEF Messages, Events
<1>3. page' = [page EXCEPT ![c] = OnMessage(page[c], event)]
  BY DEF Deliver, message
<1>4. page' \in [Pages -> PageStates]
  BY <1>2, <1>3, OnMessageType DEF TypeOK
<1>5. intact' = [intact EXCEPT ![c] = event.is_free \/ inOrder]
  BY DEF Deliver, message
<1>6. last' = [last EXCEPT ![c] = IF inOrder THEN event ELSE NoEvent]
  BY DEF Deliver, message
<1>7. intact' \in [Pages -> BOOLEAN] /\ last' \in [Pages -> Events \cup {NoEvent}]
  BY <1>2, <1>5, <1>6 DEF TypeOK
<1>8. out' = [out EXCEPT ![c] = Overtaken(out[c], i)]
  BY DEF Deliver
<1>9. out' \in [Pages -> Seq(Messages)] /\ Len(out'[c]) = Len(out[c]) - 1
  BY <1>1, <1>8, OvertakenElements DEF TypeOK
<1>10. \A d \in Pages : Len(out'[d]) <= MaxQueue /\ (link[d] # "live" => out'[d] = <<>>)
  <2> SUFFICES ASSUME NEW d \in Pages
               PROVE  Len(out'[d]) <= MaxQueue /\ (link[d] # "live" => out'[d] = <<>>)
    OBVIOUS
  <2>1. CASE d = c
    BY <1>1, <1>9, <2>1, BoundsAssumption DEF Deliver, TypeOK
  <2>2. CASE d # c
    BY <1>8, <2>2 DEF TypeOK
  <2> QED
    BY <2>1, <2>2
<1>11. skipped' \in [Pages -> BOOLEAN]
  BY DEF Deliver, TypeOK
<1> QED
  BY <1>4, <1>7, <1>9, <1>10, <1>11 DEF Deliver, TypeOK, world, device

\* Every step keeps the types.
LEMMA TypeStep ==
  ASSUME TypeOK, [Next]_vars
  PROVE  TypeOK'
<1> USE BoundsAssumption DEF world, device, view
<1>0. CASE UNCHANGED vars
  BY <1>0 DEF vars, TypeOK
<1>1. CASE Tick
  BY <1>1 DEF Tick, TypeOK
<1>2. CASE Move
  BY <1>2 DEF Move, TypeOK
<1>3. ASSUME NEW free \in BOOLEAN, Reported(free), faults' \in 0 .. MaxFaults PROVE TypeOK'
  BY <1>3, ReportType DEF Reported, TypeOK
<1>16. CASE Report
  <2>1. Reported(Decision) /\ faults' \in 0 .. MaxFaults
    BY <1>16 DEF Report, TypeOK
  <2> QED
    BY <1>3, <2>1, DecisionType
<1>17. CASE ReportMisread
  <2>1. Reported(~Decision) /\ faults' \in 0 .. MaxFaults
    BY <1>17 DEF ReportMisread, Fault, TypeOK
  <2> QED
    BY <1>3, <2>1, DecisionType
<1>4. CASE ReportLost
  BY <1>4, DecisionType DEF ReportLost, Fault, TypeOK
<1>5. CASE DeviceRestart
  BY <1>5 DEF DeviceRestart, Fault, TypeOK
<1>6. CASE Start
  BY <1>6 DEF Start, TypeOK
<1>7. CASE Subscribed
  BY <1>7 DEF Subscribed, TypeOK
<1>8. CASE ReceiverEnds
  BY <1>8 DEF ReceiverEnds, Fault, TypeOK
<1>9. CASE Receive
  <2>1. hub' \in Seq(Events) /\ Len(hub') <= MaxQueue
    BY <1>9 DEF Receive, TypeOK
  <2>2. \A c \in Pages : /\ out'[c] \in Seq(Messages) /\ Len(out'[c]) <= MaxQueue
                         /\ link[c] # "live" => out'[c] = <<>>
    BY <1>9, Sent DEF TypeOK
  <2>3. out' = [c \in Pages |-> out'[c]]
    BY <1>9 DEF Receive, SendMessageToClients
  <2> HIDE DEF world, device, view
  <2>4. out' \in [Pages -> Seq(Messages)]
    BY <2>2, <2>3
  <2>5. skipped' \in [Pages -> BOOLEAN]
    BY <1>9 DEF Receive
  <2> QED
    BY <1>9, <2>1, <2>2, <2>4, <2>5 DEF Receive, TypeOK, world, device, view
<1>10. CASE HandlerThrows
  BY <1>10 DEF HandlerThrows, Fault, TypeOK
<1>11. CASE BackendCrash
  <2>1. out' \in [Pages -> Seq(Messages)] /\ \A c \in Pages : out'[c] = <<>>
    BY <1>11 DEF BackendCrash
  <2>2. link' \in [Pages -> {"closed", "loading", "live", "lost"}]
    BY <1>11 DEF BackendCrash
  <2> QED
    BY <1>11, <2>1, <2>2 DEF BackendCrash, Fault, TypeOK
<1>12. ASSUME NEW c \in Pages, Open(c) PROVE TypeOK'
  <2>1. NewPage \in PageStates
    BY DEF NewPage, PageStates, Labels, Texts, None
  <2>2. page' \in [Pages -> PageStates]
    BY <1>12, <2>1 DEF Open, TypeOK
  <2>3. out' \in [Pages -> Seq(Messages)] /\ out'[c] = <<>>
        /\ \A d \in Pages : d # c => out'[d] = out[d] /\ link'[d] = link[d]
    BY <1>12 DEF Open, TypeOK
  <2> QED
    BY <1>12, <2>2, <2>3 DEF Open, TypeOK
<1>13. ASSUME NEW c \in Pages, Connected(c) PROVE TypeOK'
  BY <1>13 DEF Connected, TypeOK
<1>14. ASSUME NEW c \in Pages, ConnectionLost(c) PROVE TypeOK'
  <2>1. out' \in [Pages -> Seq(Messages)] /\ out'[c] = <<>>
        /\ \A d \in Pages : d # c => out'[d] = out[d] /\ link'[d] = link[d]
    BY <1>14 DEF ConnectionLost, TypeOK
  <2> QED
    BY <1>14, <2>1 DEF ConnectionLost, Fault, TypeOK
<1>15. ASSUME NEW c \in Pages, NEW i \in 1 .. Threads, Deliver(c, i) PROVE TypeOK'
  BY <1>15, DeliverType
<1> QED
  BY <1>0, <1>1, <1>2, <1>3, <1>4, <1>5, <1>6, <1>7, <1>8, <1>9, <1>10, <1>11, <1>12,
     <1>13, <1>14, <1>15, <1>16, <1>17 DEF Next, Device, Backend, Page

--------------------------------------------------------------------------------
(* The invariant, action by action. *)

\* What the pages show and have seen is as it was.
LEMMA ShownFrame ==
  ASSUME Shown, UNCHANGED view
  PROVE  Shown'
BY DEF Shown, PageInv, PaymentExact, ArrivalShown, view

\* Steps of the world and of the device without a report.
LEMMA QuietStep ==
  ASSUME TypeOK, Chain, UNCHANGED <<stay, told, backend, hub, link, view, out, skipped>>,
         clock' \in Nat, clock' >= clock
  PROVE  Chain'
<1> USE DEF view
<1>1. StayInv'
  BY DEF Chain, StayInv, TypeOK, None
<1>2. HubInv'
  BY DEF Chain, HubInv, EndsWith
<1>3. LinkInv'
  BY DEF Chain, LinkInv
<1>4. OutInv'
  BY DEF Chain, OutInv
<1>5. NextInv'
  BY DEF Chain, NextInv, Known, LastSent, EndsWith
<1> QED
  BY <1>1, <1>2, <1>3, <1>4, <1>5 DEF Chain

\* A report that the hub keeps goes on from the event its log ended with.
LEMMA ReportedGoesOn ==
  ASSUME TypeOK, StayInv, NEW free \in BOOLEAN, Reported(free), backend = "active"
  PROVE  /\ hub' \in Seq(Events)
         /\ Len(hub') = Len(hub) + 1
         /\ \A k \in 1 .. Len(hub) : hub'[k] = hub[k]
         /\ stay' = After(hub'[Len(hub) + 1]) /\ told' = ToldBy(hub'[Len(hub) + 1])
         /\ \A event \in Events \cup {NoEvent} :
              EndsWith(event) => GoesOn(event, hub'[Len(hub) + 1])
<1> DEFINE begins == IF stay = None THEN clock ELSE stay
           new == [time |-> clock, is_free |-> free, is_state_changed |-> free # decided,
                   stay |-> IF free THEN stay ELSE begins, told |-> told']
<1>1. begins \in Nat /\ told' \in BOOLEAN /\ begins <= clock
  BY DEF TypeOK, Reported, StayInv
<1>2. new \in Events
  BY <1>1 DEF TypeOK, Events
<1>3. hub' = Append(hub, new)
  BY DEF Reported
<1>4. stay' = IF free THEN None ELSE begins
  BY DEF Reported
<1>5. told' = (~free /\ (free # decided \/ told))
  BY DEF Reported
<1>6. hub \in Seq(Events) /\ free \in BOOLEAN
  BY DEF TypeOK
<1>7. /\ new.time = clock /\ new.is_free = free /\ new.is_state_changed = (free # decided)
      /\ new.stay = (IF free THEN stay ELSE begins) /\ new.told = told'
  OBVIOUS
<1> HIDE DEF new
<1>8. stay' = After(new) /\ told' = ToldBy(new)
  BY <1>1, <1>4, <1>5, <1>6, <1>7 DEF After, ToldBy
<1>9. ASSUME NEW event \in Events \cup {NoEvent}, EndsWith(event) PROVE GoesOn(event, new)
  BY <1>1, <1>5, <1>6, <1>7, <1>9 DEF GoesOn, EndsWith, StayInv, TypeOK
<1>10. /\ hub' \in Seq(Events) /\ Len(hub') = Len(hub) + 1
       /\ \A k \in 1 .. Len(hub) : hub'[k] = hub[k]
       /\ hub'[Len(hub) + 1] = new
  BY <1>2, <1>3, <1>6, AppendProperties
<1> QED
  BY <1>8, <1>9, <1>10

\* The last event sent to a page is an event, or none is known.
LEMMA LastSentType ==
  ASSUME TypeOK, NEW c \in Pages
  PROVE  LastSent(c) \in Events \cup {NoEvent}
<1>1. out[c] \in Seq(Messages) /\ last[c] \in Events \cup {NoEvent}
  BY DEF TypeOK
<1>2. CASE out[c] # <<>>
  <2>1. out[c][Len(out[c])] \in Messages
    BY <1>1, <1>2
  <2> QED
    BY <1>2, <2>1 DEF LastSent, Messages
<1> QED
  BY <1>1, <1>2 DEF LastSent

\* A report reaches the log, or nobody listens and nothing is queued.
LEMMA ReportStep ==
  ASSUME TypeOK, Chain, NEW free \in BOOLEAN, Reported(free)
  PROVE  Chain'
<1> USE DEF Chain
<1>1. UNCHANGED <<clock, backend, link, intact, last, out, skipped>>
  BY DEF Reported, world, view
<1>2. StayInv'
  BY <1>1 DEF Reported, StayInv, TypeOK, None
<1>3. LinkInv' /\ OutInv'
  BY <1>1 DEF LinkInv, OutInv
<1>4. CASE backend # "active"
  <2>1. hub' = <<>>
    BY <1>4 DEF Reported
  <2>2. Len(hub') = 0
    BY <2>1
  <2> QED
    BY <1>1, <1>2, <1>3, <1>4, <2>1, <2>2 DEF HubInv, NextInv
<1>5. CASE backend = "active"
  <2>1. HubInv'
    <3>1. hub' # <<>>
      BY <1>5, ReportedGoesOn, EmptySeq DEF TypeOK
    <3>2. EndsWith(hub[Len(hub)])'
      BY <1>5, ReportedGoesOn DEF EndsWith
    <3>3. ASSUME NEW k \in 1 .. Len(hub') - 1 PROVE GoesOn(hub'[k], hub'[k + 1])
      <4>1. Len(hub) \in Nat /\ k \in 1 .. Len(hub) /\ hub'[k] = hub[k] /\ hub \in Seq(Events)
        BY <1>5, ReportedGoesOn DEF TypeOK
      <4>2. CASE k < Len(hub)
        BY <1>5, <4>1, <4>2, ReportedGoesOn DEF HubInv
      <4>3. CASE k = Len(hub)
        <5>1. hub[k] \in Events /\ hub # <<>>
          BY <4>1, <4>3
        <5> QED
          BY <1>5, <4>1, <4>3, <5>1, ReportedGoesOn DEF HubInv
      <4> QED
        BY <4>1, <4>2, <4>3
    <3> QED
      BY <1>1, <1>5, <3>1, <3>2, <3>3 DEF HubInv
  <2>2. NextInv'
    <3> SUFFICES ASSUME NEW c \in Pages, link[c] = "live", Known(c), ~skipped[c]
                 PROVE  hub' # <<>> /\ GoesOn(LastSent(c), hub'[1])
      BY <1>1 DEF NextInv, Known, LastSent
    <3>1. hub' # <<>> /\ hub \in Seq(Events)
      BY <1>5, ReportedGoesOn, EmptySeq DEF TypeOK
    <3>2. CASE hub = <<>>
      BY <1>5, <3>1, <3>2, ReportedGoesOn, LastSentType DEF NextInv
    <3>3. CASE hub # <<>>
      <4>1. hub'[1] = hub[1]
        BY <1>5, <3>1, <3>3, ReportedGoesOn
      <4> QED
        BY <1>5, <3>1, <3>3, <4>1 DEF NextInv
    <3> QED
      BY <3>2, <3>3
  <2> QED
    BY <1>2, <1>3, <2>1, <2>2
<1> QED
  BY <1>4, <1>5

\* Without its first event the log is still one.
LEMMA HubTail ==
  ASSUME TypeOK, HubInv, hub # <<>>, hub' = Tail(hub), UNCHANGED <<stay, told, backend>>
  PROVE  /\ HubInv'
         /\ IF hub' = <<>> THEN EndsWith(hub[1]) ELSE GoesOn(hub[1], hub'[1])
<1>1. /\ hub \in Seq(Events) /\ Len(hub) \in Nat \ {0} /\ hub' \in Seq(Events)
      /\ Len(hub') = Len(hub) - 1
      /\ \A k \in 1 .. Len(hub') : hub'[k] = hub[k + 1]
  BY HeadTailProperties, EmptySeq DEF TypeOK
<1>2. hub' # <<>> => hub'[Len(hub')] = hub[Len(hub)] /\ hub'[1] = hub[2] /\ Len(hub) >= 2
  BY <1>1
<1>3. hub' = <<>> => Len(hub) = 1
  BY <1>1
<1>4. HubInv'
  <2>1. hub' # <<>> => backend' = "active" /\ stay' = After(hub'[Len(hub')])
                      /\ told' = ToldBy(hub'[Len(hub')])
    BY <1>2 DEF HubInv, EndsWith
  <2>2. ASSUME NEW k \in 1 .. Len(hub') - 1 PROVE GoesOn(hub'[k], hub'[k + 1])
    <3>1. hub'[k] = hub[k + 1] /\ hub'[k + 1] = hub[(k + 1) + 1] /\ k + 1 \in 1 .. Len(hub) - 1
      BY <1>1
    <3> QED
      BY <3>1 DEF HubInv
  <2> QED
    BY <2>1, <2>2 DEF HubInv, EndsWith
<1>5. CASE hub' = <<>>
  BY <1>3, <1>5 DEF HubInv, EndsWith
<1>6. CASE hub' # <<>>
  <2>1. 1 \in 1 .. Len(hub) - 1 /\ hub'[1] = hub[1 + 1]
    BY <1>1, <1>2, <1>6
  <2> QED
    BY <1>4, <1>6, <2>1 DEF HubInv
<1> QED
  BY <1>4, <1>5, <1>6

\* The receiver hands on the first event of the log to every live page.
LEMMA ReceiveStep ==
  ASSUME TypeOK, Chain, Receive
  PROVE  Chain'
<1> USE DEF Chain
<1>1. /\ UNCHANGED <<clock, stay, told, backend, link, intact, last>>
      /\ hub # <<>> /\ hub' = Tail(hub) /\ \A c \in Pages : ~skipped'[c]
  BY DEF Receive, world, device, view
<1>2. backend = "active"
  BY <1>1 DEF HubInv
<1>3. StayInv' /\ LinkInv'
  BY <1>1, <1>2 DEF StayInv, LinkInv
<1>4. HubInv' /\ IF hub' = <<>> THEN EndsWith(hub[1]) ELSE GoesOn(hub[1], hub'[1])
  BY <1>1, HubTail
<1>5. OutInv'
  <2> SUFFICES ASSUME NEW c \in Pages, link[c] = "live"
      PROVE  /\ \A k \in 1 .. Len(out'[c]) - 1 :
                  out'[c][k + 1].follows => GoesOn(out'[c][k].event, out'[c][k + 1].event)
             /\ intact[c] /\ out'[c] # <<>> /\ out'[c][1].follows =>
                  GoesOn(last[c], out'[c][1].event)
    BY <1>1 DEF OutInv
  <2>1. out[c] \in Seq(Messages) /\ Len(out[c]) \in Nat
    BY DEF TypeOK
  <2>0. /\ Len(out'[c]) = Len(out[c]) + 1 /\ out'[c] \in Seq(Messages)
        /\ \A k \in 1 .. Len(out[c]) : out'[c][k] = out[c][k]
        /\ out'[c][Len(out[c]) + 1].event = hub[1]
        /\ out'[c][Len(out[c]) + 1].follows = ~skipped[c]
    BY Sent
  <2>2. Known(c) /\ ~skipped[c] => GoesOn(LastSent(c), hub[1])
    BY <1>1, <1>2 DEF NextInv
  <2>3. ASSUME NEW k \in 1 .. Len(out'[c]) - 1, out'[c][k + 1].follows
        PROVE  GoesOn(out'[c][k].event, out'[c][k + 1].event)
    <3>1. k \in 1 .. Len(out[c]) /\ out'[c][k] = out[c][k]
      BY <2>0, <2>1
    <3>2. CASE k = Len(out[c])
      <4>1. LastSent(c) = out[c][k].event /\ Known(c)
        BY <2>1, <3>1, <3>2 DEF LastSent, Known
      <4> QED
        BY <2>0, <2>2, <2>3, <3>1, <3>2, <4>1
    <3>3. CASE k < Len(out[c])
      <4>1. k \in 1 .. Len(out[c]) - 1 /\ k + 1 \in 1 .. Len(out[c])
        BY <2>1, <3>1, <3>3
      <4> QED
        BY <2>0, <2>3, <3>1, <4>1 DEF OutInv
    <3> QED
      BY <2>1, <3>1, <3>2, <3>3
  <2>4. ASSUME intact[c], out'[c][1].follows
        PROVE  GoesOn(last[c], out'[c][1].event)
    <3>1. CASE out[c] = <<>>
      <4>1. LastSent(c) = last[c] /\ Known(c) /\ Len(out[c]) + 1 = 1
        BY <2>4, <3>1, EmptySeq DEF LastSent, Known
      <4>2. out'[c][1].event = hub[1] /\ out'[c][1].follows = ~skipped[c]
        BY <2>0, <4>1
      <4>3. ~skipped[c]
        BY <2>4, <4>2
      <4> QED
        BY <2>2, <4>1, <4>2, <4>3
    <3>2. CASE out[c] # <<>>
      <4>1. 1 \in 1 .. Len(out[c])
        BY <2>1, <3>2
      <4> QED
        BY <2>0, <2>4, <3>2, <4>1 DEF OutInv
    <3> QED
      BY <3>1, <3>2
  <2> QED
    BY <2>3, <2>4
<1>6. NextInv'
  <2> SUFFICES ASSUME NEW c \in Pages, link[c] = "live"
               PROVE  IF hub' = <<>> THEN EndsWith(LastSent(c)') ELSE GoesOn(LastSent(c)', hub'[1])
    BY <1>1 DEF NextInv, EndsWith
  <2>0. /\ Len(out'[c]) = Len(out[c]) + 1 /\ out'[c] \in Seq(Messages)
        /\ out'[c][Len(out[c]) + 1].event = hub[1]
    BY Sent
  <2>1. out'[c] # <<>>
    <3>1. Len(out[c]) \in Nat
      BY DEF TypeOK
    <3> QED
      BY <2>0, <3>1, EmptySeq
  <2>2. LastSent(c)' = hub[1]
    BY <2>0, <2>1 DEF LastSent
  <2> QED
    BY <1>4, <2>2
<1> QED
  BY <1>3, <1>4, <1>5, <1>6

\* What goes on from a free event goes on from a page that has forgotten it.
LEMMA FreeForgets ==
  ASSUME NEW event, event.is_free
  PROVE  /\ EndsWith(event) <=> EndsWith(NoEvent)
         /\ \A later : GoesOn(event, later) <=> GoesOn(NoEvent, later)
BY DEF EndsWith, GoesOn, After, ToldBy, NoEvent

\* A delivery, in the order of the messages or before its turn.
LEMMA Delivered ==
  ASSUME TypeOK, NEW c \in Pages, NEW i \in 1 .. Threads, Deliver(c, i)
  PROVE  /\ i \in 1 .. Len(out[c]) /\ Len(out[c]) \in Nat
         /\ out[c][i] \in Messages
         /\ intact'[c] = (out[c][i].event.is_free \/ (intact[c] /\ out[c][i].follows /\ i = 1))
         /\ last'[c] = (IF intact[c] /\ out[c][i].follows /\ i = 1
                        THEN out[c][i].event ELSE NoEvent)
         /\ page'[c] = OnMessage(page[c], out[c][i].event)
         /\ Len(out'[c]) = Len(out[c]) - 1 /\ out'[c] \in Seq(Messages)
         /\ \A j \in 1 .. Len(out[c]) - 1 :
              /\ j < i => out'[c][j].event = out[c][j].event /\ ~out'[c][j].follows
              /\ j >= i => out'[c][j].event = out[c][j + 1].event
              /\ out'[c][j].follows => out[c][j + 1].follows /\ (i = 1 \/ j > i)
         /\ skipped'[c] = (skipped[c] \/ (i > 1 /\ i = Len(out[c])))
         /\ \A d \in Pages : d # c => /\ out'[d] = out[d] /\ skipped'[d] = skipped[d]
                                      /\ intact'[d] = intact[d] /\ last'[d] = last[d]
                                      /\ page'[d] = page[d]
<1>1. out[c] \in Seq(Messages) /\ i \in 1 .. Len(out[c]) /\ Len(out[c]) \in Nat
  BY PoolAssumption DEF Deliver, TypeOK
<1>2. out[c][i] \in Messages
  BY <1>1
<1>3. out'[c] = Overtaken(out[c], i) /\ \A d \in Pages : d # c => out'[d] = out[d]
  BY DEF Deliver, TypeOK
<1>4. /\ intact'[c] = (out[c][i].event.is_free \/ (intact[c] /\ out[c][i].follows /\ i = 1))
      /\ \A d \in Pages : d # c => intact'[d] = intact[d]
  BY DEF Deliver, TypeOK
<1>5. /\ last'[c] = (IF intact[c] /\ out[c][i].follows /\ i = 1
                     THEN out[c][i].event ELSE NoEvent)
      /\ \A d \in Pages : d # c => last'[d] = last[d]
  BY DEF Deliver, TypeOK
<1>6. page'[c] = OnMessage(page[c], out[c][i].event) /\ \A d \in Pages : d # c => page'[d] = page[d]
  BY DEF Deliver, TypeOK
<1>7. /\ skipped'[c] = (skipped[c] \/ (i > 1 /\ i = Len(out[c])))
      /\ \A d \in Pages : d # c => skipped'[d] = skipped[d]
  BY DEF Deliver, TypeOK
<1>8. Len(out'[c]) = Len(out[c]) - 1 /\ out'[c] \in Seq(Messages)
  BY <1>1, <1>3, OvertakenElements
<1>9. ASSUME NEW j \in 1 .. Len(out[c]) - 1
      PROVE  /\ j < i => out'[c][j].event = out[c][j].event /\ ~out'[c][j].follows
             /\ j >= i => out'[c][j].event = out[c][j + 1].event
             /\ out'[c][j].follows => out[c][j + 1].follows /\ (i = 1 \/ j > i)
  <2> DEFINE k == IF j < i THEN j ELSE j + 1
  <2>1. /\ Overtaken(out[c], i)[j].event = out[c][k].event
        /\ Overtaken(out[c], i)[j].follows = (out[c][k].follows /\ (i = 1 \/ j > i))
    BY <1>1, OvertakenElements
  <2>2. /\ out'[c][j].event = out[c][k].event
        /\ out'[c][j].follows = (out[c][k].follows /\ (i = 1 \/ j > i))
    BY <1>3, <2>1
  <2> HIDE DEF k
  <2>3. out'[c][j].follows <=> out[c][k].follows /\ (i = 1 \/ j > i)
    BY <2>2
  <2>4. (j < i => k = j /\ i # 1) /\ (j >= i => k = j + 1) /\ (j > i => j >= i)
    BY <1>1 DEF k
  <2>5. j >= i \/ j < i
    BY <1>1
  <2>6. CASE j < i
    <3>1. ~(j > i) /\ ~(j >= i)
      BY <1>1, <2>6
    <3> QED
      BY <2>2, <2>3, <2>4, <2>6, <3>1
  <2>7. CASE j >= i
    <3>1. ~(j < i)
      BY <1>1, <2>7
    <3> QED
      BY <2>2, <2>3, <2>4, <2>7, <3>1
  <2> QED
    BY <2>5, <2>6, <2>7
<1> QED
  BY <1>1, <1>2, <1>3, <1>4, <1>5, <1>6, <1>7, <1>8, <1>9

\* An event handled in its turn by an intact page goes on from the last one.
LEMMA DeliveredNext ==
  ASSUME TypeOK, OutInv, NEW c \in Pages, NEW i \in 1 .. Threads, Deliver(c, i),
         intact[c], out[c][i].follows, i = 1
  PROVE  GoesOn(last[c], out[c][1].event)
<1>1. link[c] = "live" /\ out[c] # <<>>
  BY Delivered, EmptySeq DEF Deliver
<1> QED
  BY <1>1 DEF OutInv

\* A page that handles a message keeps its account of the last event, asks for what is
\* due and shows the arrival.
LEMMA DeliverShown ==
  ASSUME TypeOK, OutInv, Shown, NEW c \in Pages, NEW i \in 1 .. Threads, Deliver(c, i)
  PROVE  Shown'
<1> DEFINE event   == out[c][i].event
           inOrder == intact[c] /\ out[c][i].follows /\ i = 1
<1>1. event \in Events
  BY Delivered DEF Messages
<1>2. /\ intact'[c] = (event.is_free \/ inOrder)
      /\ last'[c] = (IF inOrder THEN event ELSE NoEvent)
      /\ page'[c] = OnMessage(page[c], event)
      /\ \A d \in Pages : d # c => intact'[d] = intact[d] /\ last'[d] = last[d] /\ page'[d] = page[d]
  BY Delivered
<1>3. inOrder => GoesOn(last[c], event)
  BY DeliveredNext
<1> HIDE DEF event, inOrder
<1>4. inOrder => page[c].arrival = After(last[c]) /\ (~last[c].is_free => last[c].stay # None)
  BY DEF Shown, PageInv, inOrder
<1>5. /\ event.time \in Nat /\ event.is_free \in BOOLEAN /\ event.is_state_changed \in BOOLEAN
      /\ event.stay \in Nat \cup {None} /\ event.told \in BOOLEAN
  BY <1>1 DEF Events
<1>6. CASE event.is_free
  <2>0. intact'[c]
    BY <1>2, <1>6
  <2>1. /\ page'[c].arrival = None
        /\ page'[c].popover.cost =
             IF page[c].arrival = None THEN None ELSE Cost(event.time - page[c].arrival)
    <3>1. page'[c] = ShowFree(page[c], event)
      BY <1>2, <1>6 DEF OnMessage
    <3> QED
      BY <3>1 DEF ShowFree
  <2>2. last'[c].is_free /\ After(last'[c]) = None
    BY <1>2, <1>6 DEF After, NoEvent
  <2>3. last'[c].stay # None => page'[c].popover.cost = (last'[c].time - last'[c].stay) \div 1000
    <3> SUFFICES ASSUME last'[c].stay # None
                 PROVE  page'[c].popover.cost = (last'[c].time - last'[c].stay) \div 1000
      OBVIOUS
    <3>1. inOrder /\ last'[c] = event
      BY <1>2 DEF NoEvent
    <3>2. event.stay = page[c].arrival /\ event.stay <= event.time /\ event.stay # None
      BY <1>3, <1>4, <1>6, <3>1 DEF GoesOn
    <3>3. event.time - event.stay \in Nat
      BY <1>5, <3>2
    <3> QED
      BY <2>1, <3>1, <3>2, <3>3, CostIsPerSecond
  <2> QED
    BY <1>2, <2>0, <2>1, <2>2, <2>3 DEF Shown, PageInv, PaymentExact, ArrivalShown
<1>7. CASE ~event.is_free /\ ~inOrder
  <2>1. last'[c] = NoEvent /\ ~intact'[c]
    BY <1>2, <1>7
  <2>2. NoEvent.is_free /\ NoEvent.stay = None
    BY DEF NoEvent
  <2>3. PageInv'
    BY <1>2, <2>1, <2>2 DEF Shown, PageInv
  <2>4. PaymentExact'
    BY <1>2, <2>1, <2>2 DEF Shown, PaymentExact
  <2>5. ArrivalShown'
    BY <1>2, <2>1, <2>2 DEF Shown, ArrivalShown
  <2> QED
    BY <2>3, <2>4, <2>5 DEF Shown
<1>8. CASE ~event.is_free /\ inOrder
  <2>1. last'[c] = event /\ intact'[c]
    BY <1>2, <1>8
  <2>2. event.stay = IF page[c].arrival = None THEN event.time ELSE page[c].arrival
    BY <1>3, <1>4, <1>8 DEF GoesOn
  <2>3. /\ page'[c].arrival = event.stay
        /\ page'[c].popover = IF event.is_state_changed
             THEN [text |-> "arrived", arrival |-> event.stay, cost |-> None]
             ELSE page[c].popover
    BY <1>2, <1>8, <2>2 DEF OnMessage, ShowOccupied
  <2>4. event.stay # None
    BY <1>5, <2>2 DEF None
  <2>5. event.told => page'[c].popover = [text |-> "arrived", arrival |-> event.stay, cost |-> None]
    <3>1. CASE event.is_state_changed
      BY <2>3, <3>1
    <3>2. CASE ~event.is_state_changed /\ event.told
      <4>1. ~last[c].is_free /\ last[c].told
        BY <1>3, <1>8, <3>2 DEF GoesOn, ToldBy
      <4>2. page[c].popover = [text |-> "arrived", arrival |-> last[c].stay, cost |-> None]
        BY <4>1 DEF Shown, ArrivalShown
      <4>3. event.stay = last[c].stay
        BY <1>4, <1>8, <2>2, <4>1 DEF After
      <4> QED
        BY <2>3, <3>2, <4>2, <4>3
    <3> QED
      BY <3>1, <3>2
  <2>6. After(event) = event.stay
    BY <1>8 DEF After
  <2> QED
    BY <1>2, <1>8, <2>1, <2>3, <2>4, <2>5, <2>6 DEF Shown, PageInv, PaymentExact, ArrivalShown
<1> QED
  BY <1>5, <1>6, <1>7, <1>8

\* What is left of a page's messages still goes on, and so does the log from there.
LEMMA DeliverStep ==
  ASSUME TypeOK, Chain, NEW c \in Pages, NEW i \in 1 .. Threads, Deliver(c, i)
  PROVE  Chain'
<1> USE DEF Chain
<1>1. UNCHANGED <<clock, stay, told, backend, hub, link>> /\ link[c] = "live"
  BY DEF Deliver, world, device
<1>2. StayInv' /\ HubInv'
  BY <1>1 DEF StayInv, HubInv, EndsWith
<1>3. LinkInv'
  <2>1. backend # "starting"
    BY <1>1, Delivered, EmptySeq DEF LinkInv
  <2> QED
    BY <1>1, <2>1, Delivered DEF LinkInv
<1> DEFINE q == out[c]
           r == out'[c]
           event == q[i].event
           inOrder == intact[c] /\ q[i].follows /\ i = 1
<1>4. /\ i \in 1 .. Len(q) /\ Len(q) \in Nat /\ q \in Seq(Messages) /\ r \in Seq(Messages)
      /\ Len(r) = Len(q) - 1
      /\ intact'[c] = (event.is_free \/ inOrder)
      /\ last'[c] = (IF inOrder THEN event ELSE NoEvent)
      /\ skipped'[c] = (skipped[c] \/ (i > 1 /\ i = Len(q)))
  BY Delivered DEF TypeOK
<1>5. ~skipped'[c] => ~skipped[c] /\ (i = Len(q) => i = 1)
  <2>1. i \in Nat /\ (i > 1 \/ i = 1)
    BY <1>4
  <2> QED
    BY <1>4, <2>1
<1>6. q # <<>> /\ (r = <<>> => Len(q) = 1) /\ (r # <<>> => Len(r) \in 1 .. Len(q) - 1)
  <2>1. (q = <<>> => Len(q) = 0) /\ (r = <<>> => Len(r) = 0) /\ (r # <<>> => Len(r) # 0)
    BY <1>4, EmptySeq
  <2> QED
    BY <1>4, <2>1
<1>7. \A j \in 1 .. Len(q) - 1 :
        /\ j >= i => r[j].event = q[j + 1].event
        /\ r[j].follows => q[j + 1].follows /\ (i = 1 \/ j > i)
  BY Delivered
<1>8. \A k \in 1 .. Len(q) - 1 : q[k + 1].follows => GoesOn(q[k].event, q[k + 1].event)
  BY <1>1 DEF OutInv
<1>9. \A d \in Pages : d # c => /\ out'[d] = out[d] /\ skipped'[d] = skipped[d]
                                /\ intact'[d] = intact[d] /\ last'[d] = last[d]
  BY Delivered
<1>10. i = 1 /\ intact'[c] =>
        \A later : GoesOn(event, later) <=> GoesOn(last'[c], later)
  BY <1>4, FreeForgets
<1>11. i = 1 /\ intact'[c] => (EndsWith(event) <=> EndsWith(last'[c]))
  BY <1>4, FreeForgets
<1> HIDE DEF event, inOrder
<1>12. ASSUME NEW k \in 1 .. Len(r) - 1, r[k + 1].follows
       PROVE  GoesOn(r[k].event, r[k + 1].event)
  <2>1. k \in 1 .. Len(q) - 1 /\ k + 1 \in 1 .. Len(q) - 1
    BY <1>4
  <2>2. q[(k + 1) + 1].follows /\ (i = 1 \/ k + 1 > i)
    BY <1>7, <1>12, <2>1
  <2>3. k >= i /\ k + 1 >= i
    BY <1>4, <2>1, <2>2
  <2> QED
    BY <1>7, <1>8, <2>1, <2>2, <2>3
<1>13. ASSUME intact'[c], r # <<>>, r[1].follows
       PROVE  GoesOn(last'[c], r[1].event)
  <2>1. 1 \in 1 .. Len(q) - 1
    BY <1>4, <1>13, EmptySeq
  <2>2. q[1 + 1].follows /\ (i = 1 \/ 1 > i)
    BY <1>7, <1>13, <2>1
  <2>3. i = 1
    BY <1>4, <2>2
  <2>4. r[1].event = q[1 + 1].event
    BY <1>7, <2>1, <2>3
  <2>5. GoesOn(event, r[1].event)
    BY <1>8, <2>1, <2>2, <2>3, <2>4 DEF event
  <2> QED
    BY <1>10, <1>13, <2>3, <2>5
<1>14. OutInv'
  BY <1>1, <1>9, <1>12, <1>13 DEF OutInv
<1>15. ASSUME backend = "active", Known(c)', ~skipped'[c]
       PROVE  IF hub = <<>> THEN EndsWith(LastSent(c)') ELSE GoesOn(LastSent(c)', hub[1])
  <2>1. q # <<>> /\ Known(c) /\ LastSent(c) = q[Len(q)].event /\ ~skipped[c]
    BY <1>15, <1>5, <1>6 DEF Known, LastSent
  <2>2. IF hub = <<>> THEN EndsWith(LastSent(c)) ELSE GoesOn(LastSent(c), hub[1])
    BY <1>1, <1>15, <2>1 DEF NextInv
  <2>3. CASE r # <<>>
    <3>1. Len(r) \in 1 .. Len(q) - 1 /\ Len(r) + 1 = Len(q)
      BY <1>4, <1>6, <2>3
    <3>2. Len(r) >= i
      BY <1>4, <1>15, <1>5, <3>1
    <3>3. LastSent(c)' = q[Len(q)].event
      BY <1>7, <2>3, <3>1, <3>2 DEF LastSent
    <3> QED
      BY <2>1, <2>2, <3>3
  <2>4. CASE r = <<>>
    <3>0. Len(q) = 1
      BY <1>6, <2>4
    <3>1. i = 1
      BY <1>4, <3>0
    <3>2. LastSent(c)' = last'[c] /\ intact'[c] /\ LastSent(c) = event
      BY <1>15, <2>1, <2>4, <3>0, <3>1 DEF LastSent, Known, event
    <3> QED
      BY <1>10, <1>11, <2>2, <3>1, <3>2
  <2> QED
    BY <2>3, <2>4
<1>16. NextInv'
  <2> SUFFICES ASSUME NEW d \in Pages, backend = "active", link[d] = "live", Known(d)', ~skipped'[d]
               PROVE  IF hub = <<>> THEN EndsWith(LastSent(d)') ELSE GoesOn(LastSent(d)', hub[1])
    BY <1>1 DEF NextInv, EndsWith
  <2>1. CASE d = c
    BY <1>15, <2>1
  <2>2. CASE d # c
    <3>1. Known(d) /\ LastSent(d)' = LastSent(d) /\ ~skipped[d]
      BY <1>9, <2>2 DEF Known, LastSent
    <3> QED
      BY <3>1 DEF NextInv
  <2> QED
    BY <2>1, <2>2
<1> QED
  BY <1>2, <1>3, <1>14, <1>16

\* Steps of the backend but Receive: before it subscribes no live page knows anything,
\* after an error or a crash nothing is queued.
LEMMA BackendStep ==
  ASSUME TypeOK, Chain,
         Start \/ Subscribed \/ ReceiverEnds \/ HandlerThrows \/ BackendCrash
  PROVE  Chain' /\ UNCHANGED view
<1> USE DEF Chain, world, device, view
<1>1. CASE Start
  <2>1. StayInv' /\ HubInv'
    BY <1>1 DEF Start, StayInv, HubInv, EndsWith
  <2>2. LinkInv' /\ OutInv' /\ NextInv'
    BY <1>1 DEF Start, LinkInv, OutInv, NextInv
  <2> QED
    BY <1>1, <2>1, <2>2 DEF Start
<1>2. CASE Subscribed
  <2>1. StayInv' /\ HubInv'
    BY <1>2 DEF Subscribed, StayInv, HubInv, EndsWith
  <2>2. LinkInv' /\ OutInv' /\ NextInv'
    BY <1>2 DEF Subscribed, LinkInv, OutInv, NextInv, Known
  <2> QED
    BY <1>2, <2>1, <2>2 DEF Subscribed
<1>3. CASE ReceiverEnds
  <2>1. Len(hub') = 0 /\ hub' = <<>> /\ backend' = "ended"
    BY <1>3 DEF ReceiverEnds
  <2>2. StayInv' /\ HubInv'
    BY <1>3, <2>1 DEF ReceiverEnds, StayInv, HubInv
  <2>3. LinkInv' /\ OutInv' /\ NextInv'
    BY <1>3, <2>1 DEF ReceiverEnds, LinkInv, OutInv, NextInv
  <2> QED
    BY <1>3, <2>2, <2>3 DEF ReceiverEnds
<1>4. CASE HandlerThrows
  <2>1. StayInv' /\ HubInv'
    BY <1>4, HubTail DEF HandlerThrows, StayInv
  <2>2. LinkInv' /\ OutInv' /\ NextInv'
    BY <1>4 DEF HandlerThrows, LinkInv, OutInv, NextInv
  <2> QED
    BY <1>4, <2>1, <2>2 DEF HandlerThrows
<1>5. CASE BackendCrash
  <2>1. Len(hub') = 0 /\ hub' = <<>> /\ backend' = "off"
    BY <1>5 DEF BackendCrash
  <2>2. \A c \in Pages : link'[c] \in {"closed", "lost"}
    BY <1>5 DEF BackendCrash
  <2>3. StayInv' /\ HubInv'
    BY <1>5, <2>1 DEF BackendCrash, StayInv, HubInv
  <2>4. LinkInv' /\ OutInv' /\ NextInv'
    BY <2>1, <2>2 DEF LinkInv, OutInv, NextInv
  <2> QED
    BY <1>5, <2>3, <2>4 DEF BackendCrash
<1> QED
  BY <1>1, <1>2, <1>3, <1>4, <1>5

\* A page that is opened knows nothing, and its connection comes and goes.
LEMMA PageStep ==
  ASSUME TypeOK, Chain, Shown, NEW c \in Pages,
         Open(c) \/ Connected(c) \/ ConnectionLost(c)
  PROVE  Chain' /\ Shown'
<1> USE DEF Chain
<1>1. CASE Open(c)
  <2>1. /\ UNCHANGED <<clock, stay, told, backend, hub, skipped>> /\ backend # "off"
        /\ link'[c] = "loading" /\ ~intact'[c] /\ last'[c] = NoEvent
        /\ \A d \in Pages : d # c => /\ link'[d] = link[d] /\ out'[d] = out[d]
                                     /\ intact'[d] = intact[d] /\ last'[d] = last[d]
                                     /\ page'[d] = page[d]
    BY <1>1 DEF Open, TypeOK, world, device
  <2>2. NoEvent.is_free /\ NoEvent.stay = None
    BY DEF NoEvent
  <2>3. StayInv' /\ HubInv'
    BY <2>1 DEF StayInv, HubInv, EndsWith
  <2>4. LinkInv'
    BY <2>1 DEF LinkInv
  <2>5. OutInv'
    BY <2>1 DEF OutInv
  <2>6. NextInv'
    BY <2>1 DEF NextInv, Known, LastSent, EndsWith
  <2>7. PageInv'
    BY <2>1, <2>2 DEF Shown, PageInv
  <2>8. PaymentExact' /\ ArrivalShown'
    BY <2>1, <2>2 DEF Shown, PaymentExact, ArrivalShown
  <2> QED
    BY <2>3, <2>4, <2>5, <2>6, <2>7, <2>8 DEF Shown
<1>2. CASE Connected(c)
  <2>1. /\ UNCHANGED <<clock, stay, told, backend, hub, view, out, skipped>>
        /\ link[c] = "loading" /\ link'[c] = "live" /\ out[c] = <<>> /\ Len(out[c]) = 0
        /\ \A d \in Pages : d # c => link'[d] = link[d]
    BY <1>2, EmptySeq DEF Connected, TypeOK, world, device
  <2>2. ~intact[c] /\ backend # "off"
    BY <2>1 DEF LinkInv
  <2>3. StayInv' /\ HubInv'
    BY <2>1 DEF StayInv, HubInv, EndsWith
  <2>4. LinkInv' /\ OutInv'
    BY <2>1, <2>2 DEF LinkInv, OutInv, view
  <2>5. NextInv'
    BY <2>1, <2>2 DEF NextInv, Known, LastSent, EndsWith, view
  <2> QED
    BY <2>1, <2>3, <2>4, <2>5, ShownFrame
<1>3. CASE ConnectionLost(c)
  <2>1. /\ UNCHANGED <<clock, stay, told, backend, hub, view, skipped>> /\ link'[c] = "lost"
        /\ \A d \in Pages : d # c => link'[d] = link[d] /\ out'[d] = out[d]
    BY <1>3 DEF ConnectionLost, TypeOK, world, device
  <2>2. StayInv' /\ HubInv'
    BY <2>1 DEF StayInv, HubInv, EndsWith
  <2>3. LinkInv'
    BY <2>1 DEF LinkInv, view
  <2>4. OutInv'
    BY <2>1 DEF OutInv, view
  <2>5. NextInv'
    BY <2>1 DEF NextInv, Known, LastSent, EndsWith, view
  <2> QED
    BY <2>1, <2>2, <2>3, <2>4, <2>5, ShownFrame
<1> QED
  BY <1>1, <1>2, <1>3

\* Nothing has been reported, nobody is there.
LEMMA InitHolds == Init => TypeOK /\ Chain /\ Shown
<1> SUFFICES ASSUME Init PROVE TypeOK /\ Chain /\ Shown
  OBVIOUS
<1>1. NewPage \in PageStates
  BY DEF NewPage, PageStates, Labels, Texts, None
<1>2. TypeOK
  <2>1. hub \in Seq(Events) /\ Len(hub) <= MaxQueue
    BY BoundsAssumption DEF Init
  <2>2. out \in [Pages -> Seq(Messages)] /\ \A c \in Pages : out[c] = <<>> /\ Len(out[c]) <= MaxQueue
    BY BoundsAssumption DEF Init
  <2>3. page \in [Pages -> PageStates]
    BY <1>1 DEF Init
  <2>4. last \in [Pages -> Events \cup {NoEvent}]
    BY DEF Init
  <2>5. /\ link \in [Pages -> {"closed", "loading", "live", "lost"}]
        /\ skipped \in [Pages -> BOOLEAN] /\ intact \in [Pages -> BOOLEAN]
    BY DEF Init
  <2>6. moves \in 0 .. MaxMoves /\ faults \in 0 .. MaxFaults /\ opens \in 0 .. MaxOpens
    BY BoundsAssumption DEF Init
  <2>7. /\ clock \in Nat /\ lot \in BOOLEAN /\ decided \in BOOLEAN /\ told \in BOOLEAN
        /\ calibration \in Calibrations
        /\ stay \in Nat \cup {None} /\ backend \in {"off", "starting", "active", "ended"}
    BY DEF Init, Calibrations
  <2> QED
    BY <2>1, <2>2, <2>3, <2>4, <2>5, <2>6, <2>7 DEF TypeOK
<1>3. NoEvent.is_free /\ NoEvent.stay = None /\ Len(<<>>) = 0
  BY DEF NoEvent
<1>4. Chain
  BY <1>3 DEF Init, Chain, StayInv, HubInv, LinkInv, OutInv, NextInv, None
<1>5. Shown
  BY <1>3 DEF Init, Shown, PageInv, PaymentExact, ArrivalShown
<1> QED
  BY <1>2, <1>4, <1>5

\* The invariant is inductive.
LEMMA InvStep == TypeOK /\ Chain /\ Shown /\ [Next]_vars => (TypeOK /\ Chain /\ Shown)'
<1> SUFFICES ASSUME TypeOK, Chain, Shown, [Next]_vars PROVE Chain' /\ Shown'
  BY TypeStep
<1>1. CASE Tick \/ Move \/ ReportLost \/ DeviceRestart \/ UNCHANGED vars
  <2>1. UNCHANGED <<stay, told, backend, hub, link, view, out, skipped>>
    BY <1>1 DEF Tick, Move, ReportLost, DeviceRestart, vars, device, world
  <2>2. clock' \in Nat /\ clock' >= clock
    BY <1>1, BoundsAssumption
    DEF Tick, Move, ReportLost, DeviceRestart, vars, world, TypeOK
  <2> QED
    BY <2>1, <2>2, QuietStep, ShownFrame
<1>2. CASE Report \/ ReportMisread
  <2>1. PICK free \in BOOLEAN : Reported(free)
    BY <1>2, DecisionType DEF Report, ReportMisread
  <2> QED
    BY <2>1, ReportStep, ShownFrame DEF Reported
<1>3. CASE Receive
  BY <1>3, ReceiveStep, ShownFrame DEF Receive
<1>4. CASE Start \/ Subscribed \/ ReceiverEnds \/ HandlerThrows \/ BackendCrash
  BY <1>4, BackendStep, ShownFrame
<1>5. ASSUME NEW c \in Pages, Open(c) \/ Connected(c) \/ ConnectionLost(c)
      PROVE  Chain' /\ Shown'
  BY <1>5, PageStep
<1>6. ASSUME NEW c \in Pages, NEW i \in 1 .. Threads, Deliver(c, i)
      PROVE  Chain' /\ Shown'
  BY <1>6, DeliverStep, DeliverShown DEF Chain
<1> QED
  BY <1>1, <1>2, <1>3, <1>4, <1>5, <1>6 DEF Next, Device, Backend, Page

--------------------------------------------------------------------------------
(* Quiet pages. *)

\* The hub's log ends with the state it is in.
LogEnds == hub # <<>> => (hub[Len(hub)].is_free <=> stay = None)

\* A page that can have got nothing shows nothing.
Unlabelled ==
  \A c \in Pages :
    link[c] = "loading" \/ (backend = "starting" /\ link[c] = "live") => page[c].label = "none"

\* With the log read to its end, the last message on its way to a page, and without one
\* its label, is the state of the log.
PageEnds ==
  \A c \in Pages : backend = "active" /\ link[c] = "live" /\ ~skipped[c] /\ hub = <<>> =>
    IF out[c] # <<>> THEN out[c][Len(out[c])].event.is_free <=> stay = None
    ELSE page[c].label # "none" => (page[c].label = "free" <=> stay = None)

Current == LogEnds /\ Unlabelled /\ PageEnds

\* Nothing that the pages' state depends on is touched.
LEMMA CurrentFrame ==
  ASSUME Current, UNCHANGED <<stay, hub, backend, link, page, out, skipped>>
  PROVE  Current'
BY DEF Current, LogEnds, Unlabelled, PageEnds

\* The report that the log takes is the state it is in from then on.
LEMMA CurrentReport ==
  ASSUME TypeOK, Chain, Current, NEW free \in BOOLEAN, Reported(free)
  PROVE  Current'
<1>1. UNCHANGED <<backend, link, page, out, skipped>>
  BY DEF Reported, view
<1>2. CASE backend = "active"
  <2>1. hub' # <<>> /\ Len(hub') = Len(hub) + 1 /\ hub'[Len(hub')] \in Events
        /\ stay' = After(hub'[Len(hub')])
    <3>1. /\ hub' \in Seq(Events) /\ Len(hub') = Len(hub) + 1 /\ Len(hub) \in Nat
          /\ stay' = After(hub'[Len(hub) + 1])
      BY <1>2, ReportedGoesOn DEF TypeOK, Chain
    <3> QED
      BY <3>1, EmptySeq
  <2>2. hub'[Len(hub')].is_free <=> stay' = None
    <3>1. hub'[Len(hub')].is_free = free /\ stay' = IF free THEN None ELSE IF stay = None THEN clock ELSE stay
      BY <1>2, AppendProperties, <2>1 DEF Reported, TypeOK
    <3> QED
      BY <3>1 DEF TypeOK, None
  <2> QED
    BY <1>1, <2>1, <2>2 DEF Current, LogEnds, Unlabelled, PageEnds
<1>3. CASE backend # "active"
  <2>1. hub' = <<>>
    BY <1>3 DEF Reported
  <2> QED
    BY <1>1, <1>3, <2>1 DEF Current, LogEnds, Unlabelled, PageEnds
<1> QED
  BY <1>2, <1>3

\* The receiver sends the first event of the log to every live page, and the last one it
\* sends is the state of the log.
LEMMA CurrentReceive ==
  ASSUME TypeOK, Chain, Current, Receive
  PROVE  Current'
<1>1. UNCHANGED <<stay, backend, link, page>> /\ hub # <<>> /\ hub' = Tail(hub)
  BY DEF Receive, device, view
<1>2. /\ Len(hub) \in Nat \ {0} /\ hub' \in Seq(Events) /\ Len(hub') = Len(hub) - 1
      /\ \A k \in 1 .. Len(hub') : hub'[k] = hub[k + 1]
  BY <1>1, HeadTailProperties, EmptySeq DEF TypeOK
<1>3. LogEnds'
  <2>1. hub' # <<>> => hub'[Len(hub')] = hub[Len(hub)]
    BY <1>2
  <2> QED
    BY <1>1, <2>1 DEF Current, LogEnds
<1>4. Unlabelled'
  BY <1>1 DEF Current, Unlabelled
<1>5. PageEnds'
  <2> SUFFICES ASSUME NEW c \in Pages, link[c] = "live", hub' = <<>>
               PROVE  /\ out'[c] # <<>>
                      /\ out'[c][Len(out'[c])].event.is_free <=> stay = None
    BY <1>1 DEF PageEnds
  <2>1. Len(hub) = 1
    BY <1>2
  <2>2. /\ Len(out'[c]) = Len(out[c]) + 1 /\ out'[c] \in Seq(Messages)
        /\ out'[c][Len(out[c]) + 1].event = hub[1]
    BY Sent
  <2>3. /\ Len(out'[c]) = Len(out[c]) + 1 /\ Len(out[c]) \in Nat
        /\ out'[c] \in Seq(Messages)
        /\ out'[c][Len(out'[c])].event = hub[1]
    BY <2>2 DEF TypeOK
  <2>4. out'[c] # <<>>
    BY <2>3, EmptySeq
  <2>5. hub[1].is_free <=> stay = None
    BY <1>1, <2>1 DEF Current, LogEnds
  <2> QED
    BY <2>3, <2>4, <2>5
<1> QED
  BY <1>3, <1>4, <1>5 DEF Current

\* A page that handles the last message shows its state; if another one was handled, the
\* last one is still to come, or it was overtaken.
LEMMA CurrentDeliver ==
  ASSUME TypeOK, Chain, Current, NEW c \in Pages, NEW i \in 1 .. Threads, Deliver(c, i)
  PROVE  Current'
<1>1. UNCHANGED <<stay, hub, backend, link>> /\ link[c] = "live"
  BY DEF Deliver, device
<1> DEFINE q == out[c]
           r == out'[c]
<1>2. /\ i \in 1 .. Len(q) /\ Len(q) \in Nat /\ r \in Seq(Messages) /\ Len(r) = Len(q) - 1
      /\ q[i] \in Messages /\ page'[c] = OnMessage(page[c], q[i].event)
      /\ skipped'[c] = (skipped[c] \/ (i > 1 /\ i = Len(q)))
      /\ \A j \in 1 .. Len(q) - 1 : j >= i => r[j].event = q[j + 1].event
      /\ \A d \in Pages : d # c => /\ out'[d] = out[d] /\ skipped'[d] = skipped[d]
                                   /\ page'[d] = page[d]
  BY Delivered
<1>3. q # <<>> /\ backend # "starting"
  BY <1>1, <1>2, EmptySeq DEF Chain, LinkInv
<1>4. page'[c].label = IF q[i].event.is_free THEN "free" ELSE "occupied"
  BY <1>2 DEF OnMessage, ShowFree, ShowOccupied
<1>5. LogEnds' /\ Unlabelled'
  BY <1>1, <1>2, <1>3 DEF Current, LogEnds, Unlabelled
<1>6. Len(q) \in Nat /\ i \in 1 .. Len(q)
  BY <1>2
<1>7. ASSUME backend = "active", ~skipped'[c], hub = <<>>
      PROVE  IF r # <<>> THEN r[Len(r)].event.is_free <=> stay = None
             ELSE page'[c].label # "none" => (page'[c].label = "free" <=> stay = None)
  <2>1. ~skipped[c] /\ ~(i > 1 /\ i = Len(q))
    BY <1>2, <1>7
  <2>2. q[Len(q)].event.is_free <=> stay = None
    BY <1>1, <1>3, <1>7, <2>1 DEF Current, PageEnds
  <2>3. CASE r # <<>>
    <3>1. Len(r) \in 1 .. Len(q) - 1 /\ Len(r) + 1 = Len(q)
      <4>1. Len(r) # 0
        BY <1>2, <2>3, EmptySeq
      <4>2. Len(q) \in Nat /\ Len(r) = Len(q) - 1
        BY <1>2
      <4> HIDE DEF q, r
      <4> QED
        BY <4>1, <4>2
    <3>2. Len(r) >= i
      BY <1>6, <2>1, <3>1
    <3>3. r[Len(r)].event = q[Len(q)].event
      BY <1>2, <3>1, <3>2
    <3> QED
      BY <2>2, <2>3, <3>3
  <2>4. CASE r = <<>>
    <3>1. Len(r) = 0
      BY <2>4, EmptySeq
    <3>2. i = Len(q)
      BY <1>2, <3>1
    <3> QED
      BY <1>4, <2>2, <2>4, <3>2
  <2> QED
    BY <2>3, <2>4
<1>8. PageEnds'
  <2> SUFFICES ASSUME NEW d \in Pages, backend = "active", link[d] = "live", ~skipped'[d],
                      hub = <<>>
      PROVE  IF out'[d] # <<>> THEN out'[d][Len(out'[d])].event.is_free <=> stay = None
             ELSE page'[d].label # "none" => (page'[d].label = "free" <=> stay = None)
    BY <1>1 DEF PageEnds
  <2>1. CASE d = c
    BY <1>7, <2>1
  <2>2. CASE d # c
    BY <1>2, <2>2 DEF Current, PageEnds
  <2> QED
    BY <2>1, <2>2
<1> QED
  BY <1>5, <1>8 DEF Current

\* The other steps of the backend end the log, or the pages' connections, or are noted.
LEMMA CurrentBackend ==
  ASSUME TypeOK, Chain, Current,
         Start \/ Subscribed \/ ReceiverEnds \/ HandlerThrows \/ BackendCrash
  PROVE  Current'
<1> USE DEF device, view
<1>1. CASE Start
  BY <1>1 DEF Start, Chain, LinkInv, Current, LogEnds, Unlabelled, PageEnds
<1>2. CASE Subscribed
  BY <1>2 DEF Subscribed, Chain, LinkInv, Current, LogEnds, Unlabelled, PageEnds
<1>3. CASE ReceiverEnds
  BY <1>3 DEF ReceiverEnds, Current, LogEnds, Unlabelled, PageEnds
<1>4. CASE HandlerThrows
  <2>1. UNCHANGED <<stay, backend, link, page, out>> /\ hub # <<>> /\ hub' = Tail(hub)
        /\ \A c \in Pages : skipped'[c]
    BY <1>4 DEF HandlerThrows
  <2>2. hub' # <<>> => hub'[Len(hub')] = hub[Len(hub)]
    <3>1. /\ Len(hub) \in Nat \ {0} /\ hub' \in Seq(Events) /\ Len(hub') = Len(hub) - 1
          /\ \A k \in 1 .. Len(hub') : hub'[k] = hub[k + 1]
      BY <2>1, HeadTailProperties, EmptySeq DEF TypeOK
    <3> QED
      BY <3>1
  <2> QED
    BY <2>1, <2>2 DEF Current, LogEnds, Unlabelled, PageEnds
<1>5. CASE BackendCrash
  <2>1. hub' = <<>> /\ backend' = "off"
    BY <1>5 DEF BackendCrash
  <2>2. \A c \in Pages : link'[c] \in {"closed", "lost"}
    BY <1>5 DEF BackendCrash
  <2> QED
    BY <2>1, <2>2 DEF Current, LogEnds, Unlabelled, PageEnds
<1> QED
  BY <1>1, <1>2, <1>3, <1>4, <1>5

\* A page that is opened shows nothing, and one that loses its connection is not quiet.
LEMMA CurrentPage ==
  ASSUME TypeOK, Current, NEW c \in Pages, Open(c) \/ Connected(c) \/ ConnectionLost(c)
  PROVE  Current'
<1>1. CASE Open(c)
  <2>1. /\ UNCHANGED <<stay, backend, hub, skipped>>
        /\ link'[c] = "loading" /\ page'[c].label = "none"
        /\ \A d \in Pages : d # c => /\ link'[d] = link[d] /\ out'[d] = out[d]
                                     /\ page'[d] = page[d]
    BY <1>1 DEF Open, NewPage, TypeOK, device
  <2> QED
    BY <2>1 DEF Current, LogEnds, Unlabelled, PageEnds
<1>2. CASE Connected(c)
  <2>1. /\ UNCHANGED <<stay, backend, hub, page, out, skipped>>
        /\ link[c] = "loading" /\ out[c] = <<>> /\ page[c].label = "none"
        /\ \A d \in Pages : d # c => link'[d] = link[d]
    BY <1>2 DEF Connected, TypeOK, device, view, Current, Unlabelled
  <2> QED
    BY <2>1 DEF Current, LogEnds, Unlabelled, PageEnds
<1>3. CASE ConnectionLost(c)
  <2>1. /\ UNCHANGED <<stay, backend, hub, page, skipped>> /\ link'[c] = "lost"
        /\ \A d \in Pages : d # c => link'[d] = link[d] /\ out'[d] = out[d]
    BY <1>3 DEF ConnectionLost, TypeOK, device, view
  <2> QED
    BY <2>1 DEF Current, LogEnds, Unlabelled, PageEnds
<1> QED
  BY <1>1, <1>2, <1>3

\* With the way of the events it is inductive.
LEMMA CurrentStep ==
  ASSUME TypeOK, Chain, Current, [Next]_vars
  PROVE  Current'
<1>1. CASE Tick \/ Move \/ ReportLost \/ DeviceRestart \/ UNCHANGED vars
  <2>1. UNCHANGED <<stay, hub, backend, link, page, out, skipped>>
    BY <1>1 DEF Tick, Move, ReportLost, DeviceRestart, vars, device, world, view
  <2> QED
    BY <2>1, CurrentFrame
<1>2. CASE Report \/ ReportMisread
  <2>1. PICK free \in BOOLEAN : Reported(free)
    BY <1>2, DecisionType DEF Report, ReportMisread
  <2> QED
    BY <2>1, CurrentReport
<1>3. CASE Receive
  BY <1>3, CurrentReceive
<1>4. CASE Start \/ Subscribed \/ ReceiverEnds \/ HandlerThrows \/ BackendCrash
  BY <1>4, CurrentBackend
<1>5. ASSUME NEW c \in Pages, Open(c) \/ Connected(c) \/ ConnectionLost(c)
      PROVE  Current'
  BY <1>5, CurrentPage
<1>6. ASSUME NEW c \in Pages, NEW i \in 1 .. Threads, Deliver(c, i)
      PROVE  Current'
  BY <1>6, CurrentDeliver
<1> QED
  BY <1>1, <1>2, <1>3, <1>4, <1>5, <1>6 DEF Next, Device, Backend, Page

--------------------------------------------------------------------------------
(* The theorems. *)

\* The queues hold events and messages within their bounds, nothing is on its way to a
\* page without a connection, and what a page shows is well formed.
THEOREM TypeCorrect == Spec => []TypeOK
<1> QED
  BY InitHolds, TypeStep, PTL DEF Spec

\* An intact page asks for a tenth of a dollar per second of the stay, for any number of
\* pages and threads and any failures (script.js:60-76).
THEOREM PaymentIsExact == Spec => []PaymentExact
<1>1. TypeOK /\ Chain /\ Shown => PaymentExact
  BY DEF Shown
<1> QED
  BY InitHolds, InvStep, <1>1, PTL DEF Spec

\* An intact page shows the arrival once a report of the stay said "changed"
\* (script.js:30-49).
THEOREM ArrivalIsShown == Spec => []ArrivalShown
<1>1. TypeOK /\ Chain /\ Shown => ArrivalShown
  BY DEF Shown
<1> QED
  BY InitHolds, InvStep, <1>1, PTL DEF Spec

\* A quiet page shows the state that the hub's log ends with, for any number of pages and
\* threads and through any loss and overtaking that is not its last message's
\* (script.js:17-86, Receiver.java:31-47).
THEOREM QuietPageIsCurrent == Spec => []QuietPageCurrent
<1>1. Init => Current
  BY DEF Init, Current, LogEnds, Unlabelled, PageEnds
<1>2. TypeOK /\ Chain /\ Current /\ [Next]_vars => Current'
  BY CurrentStep
<1>3. Current => QuietPageCurrent
  BY DEF Current, PageEnds, QuietPageCurrent
<1> QED
  BY InitHolds, InvStep, <1>1, <1>2, <1>3, PTL DEF Spec

================================================================================

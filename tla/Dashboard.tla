------------------------------- MODULE Dashboard -------------------------------
(* What one page of the dashboard shows of spot 1A (script.js): its label, its        *)
(* popover and the arrival time it keeps, as functions of the page before and of the   *)
(* event.  Times are milliseconds, as in a JavaScript Date; amounts are tenths of a      *)
(* dollar, as toFixed(1) shows them.                                                      *)
EXTENDS Integers

None == -1   \* no arrival time, no amount

\* A page that has loaded: every spot but 1A is coloured, the popover has the date.
NewPage == [arrival |-> None, label |-> "none",
            popover |-> [text |-> "today", arrival |-> None, cost |-> None]]

Labels == {"none", "occupied", "free"}
Texts  == {"today", "arrived", "free"}

\* JavaScript's remainder has the sign of its first operand.
Remainder(a, b) == IF a >= 0 THEN a % b ELSE -((-a) % b)

\* Mutant: the hours are not taken out of the minutes.
Cost_HoursTwice(ms) ==
  LET totalSeconds == ms \div 1000
      hours   == totalSeconds \div 3600
      minutes == totalSeconds \div 60
      seconds == Remainder(totalSeconds, 60)
  IN  seconds + 60 * minutes + 3600 * hours

\* seconds * 0.1 + 6 * minutes + 360 * hours, in tenths.
Cost(ms) ==
  LET totalSeconds == ms \div 1000
      hours   == totalSeconds \div 3600
      minutes == Remainder(totalSeconds, 3600) \div 60
      seconds == Remainder(totalSeconds, 60)
  IN  seconds + 60 * minutes + 3600 * hours

\* The first event of a stay that this page sees sets its arrival.
ShowOccupied(page, event) ==
  LET arrival == IF page.arrival = None THEN event.time ELSE page.arrival
  IN  [arrival |-> arrival, label |-> "occupied",
       popover |-> IF event.is_state_changed
                   THEN [text |-> "arrived", arrival |-> arrival, cost |-> None]
                   ELSE page.popover]

\* Mutant: the arrival time is not deleted.
ShowFree_KeepsArrival(page, event) ==
  [arrival |-> page.arrival, label |-> "free",
   popover |-> [text |-> "free", arrival |-> None,
                cost |-> IF page.arrival = None THEN None ELSE Cost(event.time - page.arrival)]]

\* The payment is shown once: the next report of the free spot replaces it.
ShowFree(page, event) ==
  [arrival |-> None, label |-> "free",
   popover |-> [text |-> "free", arrival |-> None,
                cost |-> IF page.arrival = None THEN None ELSE Cost(event.time - page.arrival)]]

\* Mutant: a report that repeats the state is ignored.
OnMessage_OnlyChanges(page, event) ==
  IF ~event.is_state_changed THEN page
  ELSE IF event.is_free THEN ShowFree(page, event) ELSE ShowOccupied(page, event)

OnMessage(page, event) ==
  IF event.is_free THEN ShowFree(page, event) ELSE ShowOccupied(page, event)

================================================================================

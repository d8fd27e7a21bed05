------------------------------ MODULE SessionLadder ------------------------------
(* What one cloud session of the device promises, whatever fails in it: resources  *)
(* are taken in one order and given back in the reverse order, a report is sent     *)
(* only with everything in place and at most once, and once the session starts to   *)
(* close nothing is taken until it is gone.  Losing everything at once (the         *)
(* network connection is closed, the device restarts) is always possible.           *)
EXTENDS Integers

CONSTANT Rungs   \* how many resources make a session, two at least

VARIABLES rung,      \* how many of them are held: always the first ones
          closing,   \* the session is being taken down
          reports    \* how many reports were sent in it

vars == <<rung, closing, reports>>

TypeOK ==
  /\ rung \in 0 .. Rungs
  /\ closing \in BOOLEAN
  /\ reports \in 0 .. 1

Init ==
  /\ rung = 0
  /\ closing = FALSE
  /\ reports = 0

Acquire ==
  /\ ~closing
  /\ reports = 0
  /\ rung < Rungs
  /\ rung' = rung + 1
  /\ UNCHANGED <<closing, reports>>

Report ==
  /\ ~closing
  /\ reports = 0
  /\ rung = Rungs
  /\ reports' = 1
  /\ closing' \in BOOLEAN   \* the sender may learn only of a failure
  /\ UNCHANGED rung

StartClosing ==
  /\ closing' = TRUE
  /\ UNCHANGED <<rung, reports>>

\* The last resource taken goes first; the network connection only with Close.
Release ==
  /\ closing
  /\ rung > 1
  /\ rung' = rung - 1
  /\ UNCHANGED <<closing, reports>>

Close ==
  /\ rung' = 0
  /\ closing' = FALSE
  /\ reports' = 0

Next == Acquire \/ Report \/ StartClosing \/ Release \/ Close
Spec == Init /\ [][Next]_vars

================================================================================

--------------------------------- MODULE Sensor ----------------------------------
(* What the driver of the ultrasonic sensor promises those who read a distance from   *)
(* it, without times, edges or interrupts: measurements never overlap, the distance      *)
(* changes only while one is open, only after its pulse ended and only to what that       *)
(* pulse or none can have given, the distance of a pulse is the last one of its            *)
(* measurement, and a pulse that ended is never left without a distance.  The one           *)
(* exception is the width of the counter: a distance taken after too long without a          *)
(* pulse whose start was seen can be any.                                                     *)
EXTENDS Integers

CONSTANTS W, US_PER_CM, MAX_PULSE, LATENCY, FAR   \* see HcSr04

VARIABLES
  measuring,  \* a measurement is open
  pulse,      \* the width of its pulse, 0 until that has ended
  reading,    \* the distance, in centimetres
  wrapped     \* the start of a pulse was last seen longer ago than the counter holds

vars == <<measuring, pulse, reading, wrapped>>

\* What a pulse of w can be read as: itself within the latency, or nothing near.
Near(w)   == (w - LATENCY) \div US_PER_CM .. (w + LATENCY) \div US_PER_CM
IsFar(cm) == cm >= FAR \div US_PER_CM

Readings == 0 .. (W - 1) \div US_PER_CM

Init ==
  /\ measuring = FALSE
  /\ pulse = 0
  /\ reading = 0
  /\ wrapped = FALSE

Trigger ==
  /\ ~measuring
  /\ measuring' = TRUE
  /\ pulse' = 0
  /\ UNCHANGED <<reading, wrapped>>

\* Seen or not, a pulse starts; the first sight of it ends every doubt.
Start ==
  /\ measuring
  /\ pulse = 0
  /\ wrapped' = FALSE
  /\ UNCHANGED <<measuring, pulse, reading>>

End ==
  /\ measuring
  /\ pulse = 0
  /\ pulse' \in 1 .. MAX_PULSE
  /\ UNCHANGED <<measuring, reading, wrapped>>

\* A start seen too late gives no distance, and the measurement may stay open for its
\* end; a distance that is that of the pulse is the last one.
Compute ==
  /\ measuring
  /\ pulse # 0
  /\ reading' \in Readings
  /\ measuring' \in BOOLEAN
  /\ \/ wrapped
     \/ IsFar(reading')
     \/ ~measuring' /\ reading' \in Near(pulse)
  /\ UNCHANGED <<pulse, wrapped>>

NoAnswer ==
  /\ measuring
  /\ pulse = 0
  /\ measuring' = FALSE
  /\ UNCHANGED <<pulse, reading, wrapped>>

\* Time passes.
Wrap ==
  /\ wrapped' = TRUE
  /\ UNCHANGED <<measuring, pulse, reading>>

Next == Trigger \/ Start \/ End \/ Compute \/ NoAnswer \/ Wrap

Spec == Init /\ [][Next]_vars

================================================================================

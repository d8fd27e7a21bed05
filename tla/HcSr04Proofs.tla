----------------------------- MODULE HcSr04Proofs ------------------------------
(* What the sensor's driver reads and when, for every latency, pulse and delay that   *)
(* the assumptions of HcSr04 allow.  Everything follows from one account of the times:  *)
(* when the pin rose, how late an edge can still be served, and how old pstart is.      *)
EXTENDS HcSr04, TLAPS

Waiting == pc \in {"sample", "pause"}

\* A measurement, and the interrupts it causes, fall into the wait after its trigger;
\* the calibration has probes left.
WithinWait ==
  /\ pc \in {"init", "trigger", "sample"} => probe < PROBES
  /\ ~Settled => Waiting
  /\ Waiting => trig # NoTime /\ trig <= now
  /\ edge # NoTime => edge <= now /\ now <= edge + LATENCY
  /\ isr # NoTime => isr = now

\* Where the sensor stands, and how late its edges are.
PulseTimes ==
  /\ phase = "triggered" => now <= trig + MAX_RISE /\ edge = NoTime /\ isr = NoTime /\ width = 0
  /\ phase = "high" =>
       /\ rise # NoTime /\ trig <= rise /\ rise <= trig + MAX_RISE
       /\ rise <= now /\ now <= rise + MAX_PULSE
       /\ width = 0
       /\ edge # NoTime => edge = rise /\ isr = NoTime
       /\ isr # NoTime => now <= rise + LATENCY
  /\ width # 0 =>
       /\ phase = "quiet"
       /\ rise # NoTime /\ trig <= rise /\ rise <= trig + MAX_RISE
       /\ rise + width <= now
       /\ edge # NoTime => edge <= rise + width
       /\ isr # NoTime => now <= rise + width + LATENCY
  /\ ~Settled /\ phase = "quiet" => width # 0

\* pstart is the start of this pulse, or too old for anything the sensor can measure; it
\* is too old while the handler has not left the first edge, or left it for the second.
StartKnown ==
  /\ \/ phase = "high" /\ (edge # NoTime \/ isr # NoTime)
     \/ phase = "quiet" /\ edge # NoTime /\ isr # NoTime
     => pstart + FAR <= trig
  /\ Waiting =>
       \/ pstart + FAR <= trig
       \/ /\ phase # "triggered" /\ rise # NoTime
          /\ trig <= rise /\ rise <= trig + MAX_RISE
          /\ rise <= pstart /\ pstart <= rise + LATENCY /\ pstart <= now
  /\ ~Waiting => pstart + FAR <= now

\* What the last difference was, and which pulse it measured.
GapKnown ==
  /\ d_raw = Uint32(gap)
  /\ \/ measured - LATENCY <= gap /\ gap <= measured + LATENCY
     \/ gap >= FAR
  /\ width # 0 => edge # NoTime \/ isr # NoTime \/ measured = width

IInv == TypeOK /\ WithinWait /\ PulseTimes /\ StartKnown /\ GapKnown

\* Cut to uint32_t, a difference keeps its range.
LEMMA Uint32Range ==
  ASSUME NEW x \in Nat
  PROVE  Uint32(x) \in 0 .. (W - 1)
BY WidthAssumption DEF Uint32

\* Below the width nothing is cut.
LEMMA Uint32Exact ==
  ASSUME NEW x \in Nat, x < W
  PROVE  Uint32(x) = x
BY WidthAssumption DEF Uint32

\* Division into centimetres keeps the order.
LEMMA CmMonotone ==
  ASSUME NEW x \in Int, NEW y \in Int, x <= y
  PROVE  x \div US_PER_CM <= y \div US_PER_CM
<1> DEFINE q == x \div US_PER_CM
           r == y \div US_PER_CM
<1>1. US_PER_CM \in Nat \ {0}
  BY WidthAssumption
<1>2. q \in Int /\ r \in Int /\ US_PER_CM * q <= x /\ y < US_PER_CM * (r + 1)
  BY <1>1
<1> HIDE DEF q, r
<1>3. US_PER_CM * q < US_PER_CM * (r + 1)
  BY <1>1, <1>2
<1>4. ~(q >= r + 1)
  <2> SUFFICES ASSUME q >= r + 1 PROVE FALSE
    OBVIOUS
  <2> DEFINE d == q - (r + 1)
  <2>1. d \in Nat /\ q = r + 1 + d
    BY <1>2
  <2> HIDE DEF d
  <2>2. US_PER_CM * q = US_PER_CM * (r + 1) + US_PER_CM * d
    BY <1>1, <1>2, <2>1
  <2>3. US_PER_CM * d >= 0
    BY <1>1, <2>1
  <2> QED
    BY <1>1, <1>2, <1>3, <2>2, <2>3
<1>5. q <= r
  BY <1>2, <1>4
<1> QED
  BY <1>5 DEF q, r

\* A duration is a distance of none or more centimetres.
LEMMA CmNatural ==
  ASSUME NEW x \in Nat
  PROVE  x \div US_PER_CM \in Nat
<1>1. US_PER_CM \in Nat \ {0}
  BY WidthAssumption
<1>2. x \div US_PER_CM \in Int /\ 0 \div US_PER_CM = 0
  BY <1>1
<1>3. 0 \div US_PER_CM <= x \div US_PER_CM
  BY CmMonotone
<1> QED
  BY <1>2, <1>3

\* The device boots long after any time pstart could be mistaken for.
LEMMA InvInit == Init => IInv
<1> SUFFICES ASSUME Init PROVE IInv
  OBVIOUS
<1> USE DEF Init
<1>1. TypeOK
  BY WidthAssumption, TimesAreNatural, DelayAssumption DEF TypeOK, Times, Steps, NoTime
<1>2. WithinWait
  BY WidthAssumption DEF WithinWait, Settled, Waiting, NoTime
<1>3. PulseTimes
  BY DEF PulseTimes, Settled, NoTime
<1>4. StartKnown
  BY WidthAssumption, TimesAreNatural, DelayAssumption DEF StartKnown, Waiting, FAR
<1>5. GapKnown
  BY WidthAssumption, TimesAreNatural, DelayAssumption, Uint32Exact DEF GapKnown, NoTime
<1> QED
  BY <1>1, <1>2, <1>3, <1>4, <1>5 DEF IInv

\* Time never passes what is due, and makes pstart older.
LEMMA TickKeepsInv == IInv /\ Tick => IInv'
<1> SUFFICES ASSUME IInv, Tick PROVE IInv'
  OBVIOUS
<1> USE WidthAssumption, TimesAreNatural, DelayAssumption
    DEF IInv, Tick, sensor, driver, control
<1>1. TypeOK'
  BY DEF TypeOK, Times, Steps, NoTime, WithinWait, PulseTimes
<1>2. WithinWait'
  BY DEF TypeOK, Times, NoTime, WithinWait, PulseTimes, Settled, Waiting, FAR
<1>3. PulseTimes'
  BY DEF TypeOK, Times, NoTime, WithinWait, PulseTimes, Settled, Waiting, FAR
<1>4. StartKnown'
  BY DEF TypeOK, Times, NoTime, WithinWait, PulseTimes, StartKnown, Settled, Waiting, FAR
<1>5. GapKnown'
  BY DEF TypeOK, Times, NoTime, WithinWait, GapKnown, Settled, Waiting, Uint32
<1> QED
  BY <1>1, <1>2, <1>3, <1>4, <1>5

\* The pin rises within MAX_RISE of its trigger.
LEMMA RiseKeepsInv == IInv /\ Rise => IInv'
<1> SUFFICES ASSUME IInv, Rise PROVE IInv'
  OBVIOUS
<1> USE WidthAssumption, TimesAreNatural, DelayAssumption
    DEF IInv, Rise, Latch, sensor, driver, control
<1>1. TypeOK'
  BY DEF TypeOK, Times, Steps, NoTime, WithinWait, PulseTimes
<1>2. WithinWait'
  BY DEF TypeOK, Times, NoTime, WithinWait, PulseTimes, Settled, Waiting, FAR
<1>3. PulseTimes'
  BY DEF TypeOK, Times, NoTime, WithinWait, PulseTimes, Settled, Waiting, FAR
<1>4. StartKnown'
  BY DEF TypeOK, Times, NoTime, WithinWait, PulseTimes, StartKnown, Settled, Waiting, FAR
<1>5. GapKnown'
  BY DEF TypeOK, Times, NoTime, WithinWait, GapKnown, Settled, Waiting, Uint32
<1> QED
  BY <1>1, <1>2, <1>3, <1>4, <1>5

\* Without an answer nothing was measured.
LEMMA NoEchoKeepsInv == IInv /\ NoEcho => IInv'
<1> SUFFICES ASSUME IInv, NoEcho PROVE IInv'
  OBVIOUS
<1> USE WidthAssumption, TimesAreNatural, DelayAssumption
    DEF IInv, NoEcho, sensor, driver, control
<1>1. TypeOK'
  BY DEF TypeOK, Times, Steps, NoTime, WithinWait, PulseTimes
<1>2. WithinWait'
  BY DEF TypeOK, Times, NoTime, WithinWait, PulseTimes, Settled, Waiting, FAR
<1>3. PulseTimes'
  BY DEF TypeOK, Times, NoTime, WithinWait, PulseTimes, Settled, Waiting, FAR
<1>4. StartKnown'
  BY DEF TypeOK, Times, NoTime, WithinWait, PulseTimes, StartKnown, Settled, Waiting, FAR
<1>5. GapKnown'
  BY DEF TypeOK, Times, NoTime, WithinWait, GapKnown, Settled, Waiting, Uint32
<1> QED
  BY <1>1, <1>2, <1>3, <1>4, <1>5

\* The pin falls within MAX_PULSE of its rise.
LEMMA FallKeepsInv == IInv /\ Fall => IInv'
<1> SUFFICES ASSUME IInv, Fall PROVE IInv'
  OBVIOUS
<1> USE WidthAssumption, TimesAreNatural, DelayAssumption
    DEF IInv, Fall, Latch, sensor, driver, control
<1>1. TypeOK'
  BY DEF TypeOK, Times, Steps, NoTime, WithinWait, PulseTimes
<1>2. WithinWait'
  BY DEF TypeOK, Times, NoTime, WithinWait, PulseTimes, Settled, Waiting, FAR
<1>3. PulseTimes'
  BY DEF TypeOK, Times, NoTime, WithinWait, PulseTimes, Settled, Waiting, FAR
<1>4. StartKnown'
  BY DEF TypeOK, Times, NoTime, WithinWait, PulseTimes, StartKnown, Settled, Waiting, FAR
<1>5. GapKnown'
  BY DEF TypeOK, Times, NoTime, WithinWait, GapKnown, Settled, Waiting, Uint32
<1> QED
  BY <1>1, <1>2, <1>3, <1>4, <1>5

\* The handler starts within the latency of the edge it serves.
LEMMA IsrEnterKeepsInv == IInv /\ IsrEnter => IInv'
<1> SUFFICES ASSUME IInv, IsrEnter PROVE IInv'
  OBVIOUS
<1> USE WidthAssumption, TimesAreNatural, DelayAssumption
    DEF IInv, IsrEnter, sensor, driver, control
<1>1. TypeOK'
  BY DEF TypeOK, Times, Steps, NoTime, WithinWait, PulseTimes
<1>2. WithinWait'
  BY DEF TypeOK, Times, NoTime, WithinWait, PulseTimes, Settled, Waiting, FAR
<1>3. PulseTimes'
  BY DEF TypeOK, Times, NoTime, WithinWait, PulseTimes, Settled, Waiting, FAR
<1>4. StartKnown'
  BY DEF TypeOK, Times, NoTime, WithinWait, PulseTimes, StartKnown, Settled, Waiting, FAR
<1>5. GapKnown'
  BY DEF TypeOK, Times, NoTime, WithinWait, GapKnown, Settled, Waiting, Uint32
<1> QED
  BY <1>1, <1>2, <1>3, <1>4, <1>5

\* The handler takes the time of a rising edge, or measures from the last one it took.
LEMMA IsrExitKeepsInv == IInv /\ IsrExit => IInv'
<1> SUFFICES ASSUME IInv, IsrExit PROVE IInv'
  OBVIOUS
<1> USE WidthAssumption, TimesAreNatural, DelayAssumption
    DEF IInv, IsrExit, sensor, driver, control
<1>1. isr - pstart \in Nat
  BY DEF TypeOK, Times, NoTime, WithinWait, StartKnown, Settled, Waiting, FAR
<1>2. Uint32(isr - pstart) \in 0 .. (W - 1)
  BY <1>1, Uint32Range
<1>3. TypeOK'
  BY <1>1, <1>2 DEF TypeOK, Times, Steps, NoTime
<1>4. WithinWait'
  BY DEF TypeOK, Times, NoTime, WithinWait, Settled, Waiting
<1>5. PulseTimes'
  BY DEF TypeOK, Times, NoTime, WithinWait, PulseTimes, Settled, Waiting
<1>6. StartKnown'
  BY DEF TypeOK, Times, NoTime, WithinWait, PulseTimes, StartKnown, Settled, Waiting, FAR
<1>7. GapKnown'
  BY <1>1 DEF TypeOK, Times, NoTime, WithinWait, PulseTimes, StartKnown, GapKnown, Settled, Waiting, FAR
<1> QED
  BY <1>3, <1>4, <1>5, <1>6, <1>7

\* Nothing is pending at the first configuration.
LEMMA StartCalibrationKeepsInv == IInv /\ StartCalibration => IInv'
<1> SUFFICES ASSUME IInv, StartCalibration PROVE IInv'
  OBVIOUS
<1> USE WidthAssumption, TimesAreNatural, DelayAssumption
    DEF IInv, StartCalibration, vInitHCSR04, sensor, driver, control
<1>1. TypeOK'
  BY DEF TypeOK, Times, Steps, NoTime, WithinWait, PulseTimes
<1>2. WithinWait'
  BY DEF TypeOK, Times, NoTime, WithinWait, PulseTimes, Settled, Waiting, FAR
<1>3. PulseTimes'
  BY DEF TypeOK, Times, NoTime, WithinWait, PulseTimes, Settled, Waiting, FAR
<1>4. StartKnown'
  BY DEF TypeOK, Times, NoTime, WithinWait, PulseTimes, StartKnown, Settled, Waiting, FAR
<1>5. GapKnown'
  BY DEF TypeOK, Times, NoTime, WithinWait, GapKnown, Settled, Waiting, Uint32
<1> QED
  BY <1>1, <1>2, <1>3, <1>4, <1>5

\* A probe starts with nothing on its way and pstart old.
LEMMA TriggerProbeKeepsInv == IInv /\ TriggerProbe => IInv'
<1> SUFFICES ASSUME IInv, TriggerProbe PROVE IInv'
  OBVIOUS
<1> USE WidthAssumption, TimesAreNatural, DelayAssumption
    DEF IInv, TriggerProbe, vMeasureDistance, sensor, driver, control
<1>1. TypeOK'
  BY DEF TypeOK, Times, Steps, NoTime, WithinWait, PulseTimes
<1>2. WithinWait'
  BY DEF TypeOK, Times, NoTime, WithinWait, PulseTimes, Settled, Waiting, FAR
<1>3. PulseTimes'
  BY DEF TypeOK, Times, NoTime, WithinWait, PulseTimes, Settled, Waiting, FAR
<1>4. StartKnown'
  BY DEF TypeOK, Times, NoTime, WithinWait, PulseTimes, StartKnown, Settled, Waiting, FAR
<1>5. GapKnown'
  BY DEF TypeOK, Times, NoTime, WithinWait, GapKnown, Settled, Waiting, Uint32
<1> QED
  BY <1>1, <1>2, <1>3, <1>4, <1>5

\* The wait of a probe outlasts its measurement.
LEMMA SampleProbeKeepsInv == IInv /\ SampleProbe => IInv'
<1> SUFFICES ASSUME IInv, SampleProbe PROVE IInv'
  OBVIOUS
<1> USE WidthAssumption, TimesAreNatural, DelayAssumption
    DEF IInv, SampleProbe, ProbeDelayOver, sensor, driver, control
<1>1. TypeOK'
  BY DEF TypeOK, Times, Steps, NoTime, WithinWait, PulseTimes
<1>2. WithinWait'
  BY DEF TypeOK, Times, NoTime, WithinWait, PulseTimes, Settled, Waiting, FAR
<1>3. PulseTimes'
  BY DEF TypeOK, Times, NoTime, WithinWait, PulseTimes, Settled, Waiting, FAR
<1>4. StartKnown'
  BY DEF TypeOK, Times, NoTime, WithinWait, PulseTimes, StartKnown, Settled, Waiting, FAR
<1>5. GapKnown'
  BY DEF TypeOK, Times, NoTime, WithinWait, GapKnown, Settled, Waiting, Uint32
<1> QED
  BY <1>1, <1>2, <1>3, <1>4, <1>5

\* Nothing is pending at the second configuration.
LEMMA StartSensorTaskKeepsInv == IInv /\ StartSensorTask => IInv'
<1> SUFFICES ASSUME IInv, StartSensorTask PROVE IInv'
  OBVIOUS
<1> USE WidthAssumption, TimesAreNatural, DelayAssumption
    DEF IInv, StartSensorTask, vInitHCSR04, sensor, driver, control
<1>1. TypeOK'
  BY DEF TypeOK, Times, Steps, NoTime, WithinWait, PulseTimes
<1>2. WithinWait'
  BY DEF TypeOK, Times, NoTime, WithinWait, PulseTimes, Settled, Waiting, FAR
<1>3. PulseTimes'
  BY DEF TypeOK, Times, NoTime, WithinWait, PulseTimes, Settled, Waiting, FAR
<1>4. StartKnown'
  BY DEF TypeOK, Times, NoTime, WithinWait, PulseTimes, StartKnown, Settled, Waiting, FAR
<1>5. GapKnown'
  BY DEF TypeOK, Times, NoTime, WithinWait, GapKnown, Settled, Waiting, Uint32
<1> QED
  BY <1>1, <1>2, <1>3, <1>4, <1>5

\* A turn of the task starts with nothing on its way and pstart old.
LEMMA MeasureKeepsInv == IInv /\ Measure => IInv'
<1> SUFFICES ASSUME IInv, Measure PROVE IInv'
  OBVIOUS
<1> USE WidthAssumption, TimesAreNatural, DelayAssumption
    DEF IInv, Measure, vMeasureDistance, sensor, driver, control
<1>1. TypeOK'
  BY DEF TypeOK, Times, Steps, NoTime, WithinWait, PulseTimes
<1>2. WithinWait'
  BY DEF TypeOK, Times, NoTime, WithinWait, PulseTimes, Settled, Waiting, FAR
<1>3. PulseTimes'
  BY DEF TypeOK, Times, NoTime, WithinWait, PulseTimes, Settled, Waiting, FAR
<1>4. StartKnown'
  BY DEF TypeOK, Times, NoTime, WithinWait, PulseTimes, StartKnown, Settled, Waiting, FAR
<1>5. GapKnown'
  BY DEF TypeOK, Times, NoTime, WithinWait, GapKnown, Settled, Waiting, Uint32
<1> QED
  BY <1>1, <1>2, <1>3, <1>4, <1>5

\* The wait of the task outlasts its measurement.
LEMMA ResumeKeepsInv == IInv /\ Resume => IInv'
<1> SUFFICES ASSUME IInv, Resume PROVE IInv'
  OBVIOUS
<1> USE WidthAssumption, TimesAreNatural, DelayAssumption
    DEF IInv, Resume, sensor, driver, control
<1>1. TypeOK'
  BY DEF TypeOK, Times, Steps, NoTime, WithinWait, PulseTimes
<1>2. WithinWait'
  BY DEF TypeOK, Times, NoTime, WithinWait, PulseTimes, Settled, Waiting, FAR
<1>3. PulseTimes'
  BY DEF TypeOK, Times, NoTime, WithinWait, PulseTimes, Settled, Waiting, FAR
<1>4. StartKnown'
  BY DEF TypeOK, Times, NoTime, WithinWait, PulseTimes, StartKnown, Settled, Waiting, FAR
<1>5. GapKnown'
  BY DEF TypeOK, Times, NoTime, WithinWait, GapKnown, Settled, Waiting, Uint32
<1> QED
  BY <1>1, <1>2, <1>3, <1>4, <1>5

\* Every step keeps the invariant.
LEMMA InvStep == IInv /\ [Next]_vars => IInv'
<1> SUFFICES ASSUME IInv, [Next]_vars PROVE IInv'
  OBVIOUS
<1>1. CASE UNCHANGED vars
  BY <1>1 DEF IInv, TypeOK, WithinWait, PulseTimes, StartKnown, GapKnown, Settled, Waiting,
              Uint32, vars, sensor, driver, control
<1>2. CASE Tick
  BY <1>2, TickKeepsInv
<1>3. CASE HcSr04Sensor
  BY <1>3, RiseKeepsInv, NoEchoKeepsInv, FallKeepsInv DEF HcSr04Sensor
<1>4. CASE hc_sr04_isr_handler
  BY <1>4, IsrEnterKeepsInv, IsrExitKeepsInv DEF hc_sr04_isr_handler
<1>5. CASE sensor_calibrate
  BY <1>5, StartCalibrationKeepsInv, TriggerProbeKeepsInv, SampleProbeKeepsInv
     DEF sensor_calibrate
<1>6. CASE vSensorHandlingTask
  BY <1>6, StartSensorTaskKeepsInv, MeasureKeepsInv, ResumeKeepsInv DEF vSensorHandlingTask
<1> QED
  BY <1>1, <1>2, <1>3, <1>4, <1>5, <1>6 DEF Next

\* The invariant holds in every reachable state.
LEMMA Invariance == Spec => []IInv
BY InvInit, InvStep, PTL DEF Spec

\* The invariant gives an honest reading: in centimetres as in microseconds.
LEMMA InvReading == IInv => ReadingHonest
<1> SUFFICES ASSUME IInv, gap < W PROVE Near(ulGetDistanceCm) \/ ulGetDistanceCm >= FAR \div US_PER_CM
  BY DEF ReadingHonest
<1>1. /\ gap \in Nat /\ measured \in Nat /\ LATENCY \in Nat /\ FAR \in Nat
      /\ US_PER_CM \in Nat \ {0}
  BY WidthAssumption, TimesAreNatural, DelayAssumption DEF IInv, TypeOK, FAR
<1>2. ulGetDistanceCm = gap \div US_PER_CM
  BY <1>1, Uint32Exact DEF IInv, GapKnown, ulGetDistanceCm
<1>3. CASE measured - LATENCY <= gap /\ gap <= measured + LATENCY
  <2>1. (measured - LATENCY) \div US_PER_CM <= gap \div US_PER_CM
    BY <1>1, <1>3, CmMonotone
  <2>2. gap \div US_PER_CM <= (measured + LATENCY) \div US_PER_CM
    BY <1>1, <1>3, CmMonotone
  <2>3. gap \div US_PER_CM \in Int
    BY <1>1
  <2> QED
    BY <1>1, <1>2, <2>1, <2>2, <2>3 DEF Near
<1>4. CASE gap >= FAR
  <2>1. FAR \div US_PER_CM <= gap \div US_PER_CM
    BY <1>1, <1>4, CmMonotone
  <2> QED
    BY <1>1, <1>2, <2>1
<1> QED
  BY <1>3, <1>4 DEF IInv, GapKnown

\* The invariant settles every measurement before the wait that follows it ends.
LEMMA InvMeasured == IInv => MeasuredInTime
<1> SUFFICES ASSUME IInv,
                    \/ pc = "sample" /\ ProbeDelayOver
                    \/ pc \in {"trigger", "bringUp", "measure"}
             PROVE  Settled /\ (width # 0 => measured = width)
  BY DEF MeasuredInTime
<1> USE WidthAssumption, TimesAreNatural, DelayAssumption
<1>1. Settled
  <2>1. CASE pc \in {"trigger", "bringUp", "measure"}
    BY <2>1 DEF IInv, WithinWait, Waiting
  <2>2. CASE pc = "sample" /\ ProbeDelayOver
    BY <2>2 DEF IInv, TypeOK, Times, NoTime, WithinWait, PulseTimes, Settled, Waiting,
                ProbeDelayOver, FAR
  <2> QED
    BY <2>1, <2>2
<1> QED
  BY <1>1 DEF IInv, GapKnown, Settled

\* Every variable of the driver keeps its type, for every width, latency, pulse and delay
\* that the assumptions allow (hc_sr04.c).
THEOREM TypeCorrect == Spec => []TypeOK
<1>1. IInv => TypeOK
  BY DEF IInv
<1> QED
  BY Invariance, <1>1, PTL

\* No late or merged interrupt ever gives a distance nearer than what is under the
\* sensor, at any time and on any schedule (hc_sr04.c:24-33, 65-69).
THEOREM ReadingIsHonest == Spec => []ReadingHonest
BY Invariance, InvReading, PTL

\* Every sample and every new trigger finds the measurement before it complete
\* (azure_iot_main.c:307-315, hc_sr04.c:80-83).
THEOREM MeasurementIsOver == Spec => []MeasuredInTime
BY Invariance, InvMeasured, PTL

--------------------------------------------------------------------------------
(* The refinement of Sensor. *)

\* A step that touches neither the sensor's rest, its pulse, the distance nor the age of
\* the last start is a stutter of the promise.
LEMMA PromiseStutter ==
  ASSUME Settled' <=> Settled, width' = width, d_raw' = d_raw, Wrapped' <=> Wrapped
  PROVE  UNCHANGED Promised!vars
<1>1. (~Settled)' = ~Settled /\ Wrapped' = Wrapped
  BY DEF Settled, Wrapped
<1>2. ulGetDistanceCm' = ulGetDistanceCm
  BY DEF ulGetDistanceCm
<1> QED
  BY <1>1, <1>2 DEF Promised!vars

\* A trigger, which comes only when nothing is on its way, opens a measurement.
LEMMA TriggerIsPromised ==
  ASSUME IInv, pc \in {"trigger", "measure"}, vMeasureDistance
  PROVE  Promised!Trigger
<1>1. Settled
  BY DEF IInv, WithinWait, Waiting
<1>2. ~Settled' /\ width' = 0 /\ d_raw' = d_raw /\ now' = now /\ pstart' = pstart
  BY <1>1 DEF vMeasureDistance, Settled, driver
<1>3. Wrapped' = Wrapped /\ ulGetDistanceCm' = ulGetDistanceCm
  BY <1>2 DEF Wrapped, ulGetDistanceCm
<1> QED
  BY <1>1, <1>2, <1>3 DEF Promised!Trigger

\* The end of a pulse, whose start has opened no other measurement.
LEMMA FallIsPromised ==
  ASSUME IInv, TypeOK', Fall
  PROVE  Promised!End
<1>1. ~Settled /\ width = 0
  BY DEF IInv, PulseTimes, Fall, Settled
<1>2. ~Settled'
  BY DEF IInv, TypeOK, Times, NoTime, Fall, Latch, Settled
<1>3. width' \in 1 .. MAX_PULSE
  BY TimesAreNatural DEF IInv, TypeOK, Times, NoTime, PulseTimes, Fall
<1>4. now' = now /\ pstart' = pstart /\ d_raw' = d_raw
  BY DEF Fall, driver
<1>5. Wrapped' = Wrapped /\ ulGetDistanceCm' = ulGetDistanceCm
  BY <1>4 DEF Wrapped, ulGetDistanceCm
<1> QED
  BY <1>1, <1>2, <1>3, <1>5 DEF Promised!End

\* A sensor that does not answer closes the measurement: no edge waits.
LEMMA NoEchoIsPromised ==
  ASSUME IInv, NoEcho
  PROVE  Promised!NoAnswer
<1>1. ~Settled /\ width = 0 /\ Settled'
  BY DEF IInv, PulseTimes, NoEcho, Settled
<1>2. now' = now /\ pstart' = pstart /\ d_raw' = d_raw /\ width' = width
  BY DEF NoEcho, driver
<1>3. Wrapped' = Wrapped /\ ulGetDistanceCm' = ulGetDistanceCm
  BY <1>2 DEF Wrapped, ulGetDistanceCm
<1> QED
  BY <1>1, <1>2, <1>3 DEF Promised!NoAnswer

\* The handler that reads a high level saw the start of the pulse.
LEMMA RisingEdgeIsPromised ==
  ASSUME IInv, IsrExit, phase = "high"
  PROVE  Promised!Start
<1>1. ~Settled /\ width = 0 /\ isr = now
  BY DEF IInv, WithinWait, PulseTimes, IsrExit, Settled
<1>2. /\ ~Settled'
      /\ now' = now /\ pstart' = now /\ d_raw' = d_raw /\ width' = width
  BY <1>1 DEF IsrExit, Settled, sensor
<1>3. ~Wrapped'
  BY <1>2, WidthAssumption DEF Wrapped, IInv, TypeOK
<1>4. ulGetDistanceCm' = ulGetDistanceCm
  BY <1>2 DEF ulGetDistanceCm
<1> QED
  BY <1>1, <1>2, <1>3, <1>4 DEF Promised!Start

\* The handler that reads a low level computes the distance: of the pulse that ended, as
\* its last, or from a start too old, and then perhaps once more.
LEMMA FallingEdgeIsPromised ==
  ASSUME IInv, IInv', ReadingHonest', IsrExit, phase # "high"
  PROVE  Promised!Compute
<1>1. ~Settled /\ width # 0 /\ isr = now
  BY DEF IInv, TypeOK, WithinWait, PulseTimes, IsrExit, Settled
<1>2. /\ now' = now /\ pstart' = pstart /\ width' = width
      /\ gap' = now - pstart /\ measured' = width
  BY <1>1 DEF IsrExit, sensor
<1>3. Wrapped' = Wrapped
  BY <1>2 DEF Wrapped
<1>4. ulGetDistanceCm' \in Promised!Readings
  <2>1. d_raw' \in Nat /\ d_raw' <= W - 1 /\ W - 1 \in Nat /\ US_PER_CM \in Nat \ {0}
    BY WidthAssumption DEF IInv, TypeOK
  <2>2. d_raw' \div US_PER_CM <= (W - 1) \div US_PER_CM
    BY <2>1, CmMonotone
  <2>3. d_raw' \div US_PER_CM \in Nat /\ (W - 1) \div US_PER_CM \in Nat
    BY <2>1, CmNatural
  <2> QED
    BY <2>2, <2>3 DEF ulGetDistanceCm, Promised!Readings
<1>5. ASSUME ~Wrapped
      PROVE  \/ Promised!IsFar(ulGetDistanceCm')
             \/ Settled' /\ ulGetDistanceCm' \in Promised!Near(width)
  <2>1. gap' < W /\ gap' \in Nat
    BY <1>2, <1>5, WidthAssumption DEF Wrapped, IInv, TypeOK
  <2>2. CASE Settled'
    BY <1>2, <2>1, <2>2 DEF ReadingHonest, Near, Promised!IsFar, Promised!Near
  <2>3. CASE ~Settled'
    <3>1. edge # NoTime /\ isr # NoTime /\ phase = "quiet"
      BY <1>1, <2>3 DEF IInv, PulseTimes, TypeOK, IsrExit, Settled, sensor
    <3>2. pstart + FAR <= trig /\ trig <= now
      BY <3>1 DEF IInv, StartKnown, WithinWait, Settled
    <3>3. FAR <= gap' /\ FAR \in Int
      BY <1>2, <3>2, TimesAreNatural DEF IInv, TypeOK, Times, NoTime, FAR
    <3>4. ulGetDistanceCm' = gap' \div US_PER_CM
      BY <2>1, Uint32Exact DEF IInv, GapKnown, ulGetDistanceCm
    <3>5. FAR \div US_PER_CM <= gap' \div US_PER_CM
      BY <2>1, <3>3, CmMonotone
    <3>6. FAR \div US_PER_CM \in Int /\ gap' \div US_PER_CM \in Int
      BY <2>1, <3>3, WidthAssumption
    <3> QED
      BY <3>4, <3>5, <3>6 DEF Promised!IsFar
  <2> QED
    BY <2>2, <2>3
<1>6. (~Settled)' \in BOOLEAN
  BY DEF Settled
<1> QED
  BY <1>1, <1>2, <1>3, <1>4, <1>5, <1>6 DEF Promised!Compute

\* Time can only make the last start too old.
LEMMA TickIsPromised ==
  ASSUME IInv, Tick
  PROVE  Promised!Wrap \/ UNCHANGED Promised!vars
<1>1. /\ Settled' <=> Settled
      /\ width' = width /\ d_raw' = d_raw /\ pstart' = pstart /\ now' = now + 1
  BY DEF Tick, Settled, sensor, driver
<1>2. Wrapped => Wrapped'
  BY <1>1, WidthAssumption DEF Wrapped, IInv, TypeOK
<1>3. CASE Wrapped' <=> Wrapped
  BY <1>1, <1>3, PromiseStutter
<1>4. CASE Wrapped'
  <2>1. (~Settled)' = ~Settled
    BY <1>1 DEF Settled
  <2>2. ulGetDistanceCm' = ulGetDistanceCm
    BY <1>1 DEF ulGetDistanceCm
  <2> QED
    BY <1>1, <1>4, <2>1, <2>2 DEF Promised!Wrap
<1> QED
  BY <1>2, <1>3, <1>4

\* Each step of the sensor, the handler and the callers is one of the promise's, or
\* a stutter of it.
LEMMA PromiseStep ==
  ASSUME IInv, IInv', ReadingHonest', [Next]_vars
  PROVE  [Promised!Next]_(Promised!vars)
<1>1. CASE Tick
  BY <1>1, TickIsPromised DEF Promised!Next
<1>2. CASE Rise
  <2>1. (Settled' <=> Settled) /\ width' = width /\ d_raw' = d_raw
    BY <1>2 DEF Rise, Settled, driver
  <2>2. Wrapped' <=> Wrapped
    BY <1>2 DEF Rise, Wrapped, driver
  <2> QED
    BY <2>1, <2>2, PromiseStutter
<1>3. CASE NoEcho
  BY <1>3, NoEchoIsPromised DEF Promised!Next
<1>4. CASE Fall
  BY <1>4, FallIsPromised DEF IInv, Promised!Next
<1>5. CASE IsrEnter
  <2>1. (Settled' <=> Settled) /\ width' = width /\ d_raw' = d_raw
    BY <1>5 DEF IsrEnter, Settled, sensor, driver, IInv, TypeOK, NoTime
  <2>2. Wrapped' <=> Wrapped
    BY <1>5 DEF IsrEnter, Wrapped, driver
  <2> QED
    BY <2>1, <2>2, PromiseStutter
<1>6. CASE IsrExit
  BY <1>6, RisingEdgeIsPromised, FallingEdgeIsPromised DEF Promised!Next
<1>7. CASE StartCalibration \/ StartSensorTask
  <2>1. Settled
    BY <1>7 DEF StartCalibration, StartSensorTask, IInv, WithinWait, Waiting
  <2>2. Settled' /\ width' = width /\ d_raw' = d_raw
    BY <1>7, <2>1 DEF StartCalibration, StartSensorTask, vInitHCSR04, Settled, sensor, driver
  <2>3. Wrapped' <=> Wrapped
    BY <1>7 DEF StartCalibration, StartSensorTask, vInitHCSR04, Wrapped, driver
  <2> QED
    BY <2>1, <2>2, <2>3, PromiseStutter
<1>8. CASE TriggerProbe \/ Measure
  BY <1>8, TriggerIsPromised DEF TriggerProbe, Measure, Promised!Next
<1>9. CASE SampleProbe \/ Resume \/ UNCHANGED vars
  <2>1. (Settled' <=> Settled) /\ width' = width /\ d_raw' = d_raw
    BY <1>9 DEF SampleProbe, Resume, vars, Settled, sensor, driver
  <2>2. Wrapped' <=> Wrapped
    BY <1>9 DEF SampleProbe, Resume, vars, Wrapped, driver
  <2> QED
    BY <2>1, <2>2, PromiseStutter
<1> QED
  BY <1>1, <1>2, <1>3, <1>4, <1>5, <1>6, <1>7, <1>8, <1>9
     DEF Next, HcSr04Sensor, hc_sr04_isr_handler, sensor_calibrate, vSensorHandlingTask

\* The driver starts as the promise does.
LEMMA PromiseInit == Init => Promised!Init
<1> SUFFICES ASSUME Init PROVE Promised!Init
  OBVIOUS
<1>1. Settled /\ width = 0
  BY DEF Init, Settled
<1>2. ulGetDistanceCm = 0
  BY WidthAssumption DEF Init, ulGetDistanceCm
<1>3. ~Wrapped
  BY WidthAssumption, TimesAreNatural, DelayAssumption DEF Init, Wrapped
<1> QED
  BY <1>1, <1>2, <1>3 DEF Promised!Init

\* On every schedule of edges, interrupts and waits the driver keeps the promises of
\* Sensor: measurements never overlap, a distance is always that of the pulse that just
\* ended, or far, and no pulse is left without one (hc_sr04.c:24-33, 57-83).
THEOREM DriverImplementsSensor == Spec => ImplementsSensor
<1>1. IInv /\ IInv' /\ ReadingHonest' /\ [Next]_vars => [Promised!Next]_(Promised!vars)
  BY PromiseStep
<1> QED
  BY <1>1, PromiseInit, Invariance, ReadingIsHonest, PTL DEF Spec, ImplementsSensor, Promised!Spec

================================================================================

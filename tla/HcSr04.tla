-------------------------------- MODULE HcSr04 ---------------------------------
(* The driver of the ultrasonic sensor (hc_sr04.c) in time: a trigger, the pulse of   *)
(* the sensor whose width is the distance, the interrupt both edges of it raise,        *)
(* served some time later and at most once for both, the handler that tells the edges    *)
(* apart by the level it then reads, and the two callers that trigger:                    *)
(* sensor_calibrate, and vSensorHandlingTask once the network is up.                       *)
EXTENDS Integers

CONSTANTS
  W,             \* 2^32: the width of uint32_t
  US_PER_CM,     \* 58
  BOOT,          \* esp_timer_get_time() when the calibration starts, at least
  MAX_RISE,      \* the sensor raises its pin that long after a trigger, at most
  MAX_PULSE,     \* and lowers it that long after, at most (its time-out)
  LATENCY,       \* an edge waits that long for the interrupt handler, at most
  PROBE_DELAY,   \* vTaskDelay of the calibration, 100 ms
  TASK_DELAY,    \* and of vSensorHandlingTask, 1000 ms
  PROBES,        \* appconfigSENSOR_CALIBRATION_PROBES
  MaxTime        \* bound: the clock

ASSUME WidthAssumption == W \in Nat \ {0} /\ US_PER_CM \in Nat \ {0} /\ PROBES \in Nat \ {0}

ASSUME TimesAreNatural ==
  /\ MAX_RISE \in Nat /\ MAX_PULSE \in Nat /\ LATENCY \in Nat
  /\ PROBE_DELAY \in Nat /\ TASK_DELAY \in Nat /\ BOOT \in Nat

\* What an interrupt that came too late for the rising edge leaves is longer than this.
FAR == PROBE_DELAY - MAX_RISE - LATENCY

\* The delays are longer than a measurement, the boot longer than either, and
\* nothing in it takes the 71 minutes that uint32_t holds.
ASSUME DelayAssumption ==
  /\ MAX_PULSE + LATENCY < FAR
  /\ FAR <= BOOT /\ BOOT < W
  /\ PROBE_DELAY <= TASK_DELAY

VARIABLES
  now,       \* esp_timer_get_time()
  phase,     \* the sensor: at rest, triggered, or its echo pin high
  trig,      \* the time of the last trigger
  rise,      \* the time the pin last rose
  width,     \* (history) the pulse since the last trigger, 0 if none ended
  edge,      \* the time of the oldest edge not served, or NoTime
  isr,       \* now of the running handler, or NoTime
  pstart,
  d_raw,
  measured,  \* (history) the width of the last pulse the handler saw the end of
  gap,       \* (history) the difference d_raw was cut from
  pc,        \* the step of sensor_calibrate, then of vSensorHandlingTask
  probe      \* i of the calibration loop

sensor  == <<phase, trig, rise, width>>
driver  == <<pstart, d_raw, measured, gap>>
control == <<pc, probe>>
vars == <<now, sensor, edge, isr, driver, control>>

NoTime   == -1
Times    == Nat \cup {NoTime}
Steps    == {"init", "trigger", "sample", "bringUp", "measure", "pause"}

\* Mutant: the difference is not cut.
Uint32_Whole(x) == x
Uint32(x) == x % W

TypeOK ==
  /\ now \in Nat
  /\ phase \in {"quiet", "triggered", "high"}
  /\ trig \in Times /\ rise \in Times
  /\ width \in 0 .. MAX_PULSE
  /\ edge \in Times /\ isr \in Times
  /\ pstart \in Nat
  /\ d_raw \in 0 .. (W - 1)
  /\ measured \in 0 .. MAX_PULSE
  /\ gap \in Nat
  /\ pc \in Steps
  /\ probe \in 0 .. PROBES

Init ==
  /\ now = BOOT
  /\ phase = "quiet"
  /\ trig = NoTime /\ rise = NoTime
  /\ width = 0
  /\ edge = NoTime
  /\ isr = NoTime
  /\ pstart = 0
  /\ d_raw = 0
  /\ measured = 0
  /\ gap = 0
  /\ pc = "init"
  /\ probe = 0

--------------------------------------------------------------------------------
(* Time, the sensor and the pin. *)

\* Time passes unless something is overdue; the handler takes none to speak of.
Tick ==
  /\ now < MaxTime
  /\ isr = NoTime
  /\ phase = "triggered" => now < trig + MAX_RISE
  /\ phase = "high" => now < rise + MAX_PULSE
  /\ edge # NoTime => now < edge + LATENCY
  /\ now' = now + 1
  /\ UNCHANGED <<sensor, edge, isr, driver, control>>

\* An edge latches the interrupt; a latched one stays as it is.
Latch == edge' = IF edge = NoTime THEN now ELSE edge

Rise ==
  /\ phase = "triggered"
  /\ phase' = "high"
  /\ rise' = now
  /\ Latch
  /\ UNCHANGED <<now, trig, width, isr, driver, control>>

\* The sensor does not answer.
NoEcho ==
  /\ phase = "triggered"
  /\ phase' = "quiet"
  /\ UNCHANGED <<now, trig, rise, width, edge, isr, driver, control>>

Fall ==
  /\ phase = "high"
  /\ now > rise
  /\ phase' = "quiet"
  /\ width' = now - rise
  /\ Latch
  /\ UNCHANGED <<now, trig, rise, isr, driver, control>>

--------------------------------------------------------------------------------
(* hc_sr04_isr_handler: first the time, then the level. *)

IsrEnter ==
  /\ edge # NoTime
  /\ isr = NoTime
  /\ isr' = now
  /\ edge' = NoTime
  /\ UNCHANGED <<now, sensor, driver, control>>

\* Mutant: every edge is taken for the start of a pulse as well.
IsrExit_BothEdges ==
  /\ isr # NoTime
  /\ pstart' = isr
  /\ IF phase = "high"
     THEN UNCHANGED <<d_raw, gap, measured>>
     ELSE /\ gap' = isr - pstart
          /\ d_raw' = Uint32(isr - pstart)
          /\ measured' = width
  /\ isr' = NoTime
  /\ UNCHANGED <<now, sensor, edge, control>>

IsrExit ==
  /\ isr # NoTime
  /\ IF phase = "high"
     THEN pstart' = isr /\ UNCHANGED <<d_raw, gap, measured>>
     ELSE /\ gap' = isr - pstart
          /\ d_raw' = Uint32(isr - pstart)
          /\ measured' = width
          /\ UNCHANGED pstart
  /\ isr' = NoTime
  /\ UNCHANGED <<now, sensor, edge, control>>

--------------------------------------------------------------------------------
(* The callers. *)

\* Configuring the pin drops an interrupt that is latched; pstart and d_raw stay.
vInitHCSR04 ==
  /\ edge' = NoTime
  /\ UNCHANGED <<now, sensor, isr, driver>>

\* The sensor ignores a trigger while it measures.
vMeasureDistance ==
  /\ IF phase = "quiet"
     THEN phase' = "triggered" /\ trig' = now /\ width' = 0
     ELSE UNCHANGED <<phase, trig, width>>
  /\ UNCHANGED <<now, rise, edge, isr, driver>>

ulGetDistanceCm == d_raw \div US_PER_CM

StartCalibration ==
  /\ pc = "init"
  /\ pc' = "trigger"
  /\ vInitHCSR04
  /\ UNCHANGED probe

TriggerProbe ==
  /\ pc = "trigger"
  /\ pc' = "sample"
  /\ vMeasureDistance
  /\ UNCHANGED probe

\* Mutant: the sample is read at once.
ProbeDelayOver_NoDelay == TRUE
ProbeDelayOver == now >= trig + PROBE_DELAY

\* The sample goes into the sum, which is the subject of Occupancy.
SampleProbe ==
  /\ pc = "sample"
  /\ ProbeDelayOver
  /\ probe' = probe + 1
  /\ pc' = IF probe' < PROBES THEN "trigger" ELSE "bringUp"
  /\ UNCHANGED <<now, sensor, edge, isr, driver>>

\* example_connect and initialize_time wait without limit; then the task starts.
StartSensorTask ==
  /\ pc = "bringUp"
  /\ pc' = "measure"
  /\ vInitHCSR04
  /\ UNCHANGED probe

Measure ==
  /\ pc = "measure"
  /\ pc' = "pause"
  /\ vMeasureDistance
  /\ UNCHANGED probe

Resume ==
  /\ pc = "pause"
  /\ now >= trig + TASK_DELAY
  /\ pc' = "measure"
  /\ UNCHANGED <<now, sensor, edge, isr, driver, probe>>

sensor_calibrate    == StartCalibration \/ TriggerProbe \/ SampleProbe
vSensorHandlingTask == StartSensorTask \/ Measure \/ Resume
hc_sr04_isr_handler == IsrEnter \/ IsrExit
HcSr04Sensor        == Rise \/ NoEcho \/ Fall

Next == Tick \/ HcSr04Sensor \/ hc_sr04_isr_handler \/ sensor_calibrate \/ vSensorHandlingTask

Spec == Init /\ [][Next]_vars

--------------------------------------------------------------------------------
(* Safety. *)

\* A distance (cm) that the last pulse can have given.
Near(cm) == cm \in (measured - LATENCY) \div US_PER_CM .. (measured + LATENCY) \div US_PER_CM

\* Whatever edges were served late, or as one, the distance read at any moment is
\* that of the last pulse within the latency (0 before the first), or farther than every
\* obstacle the sensor can see: never nearer than what is there, which would be a
\* phantom vehicle (hc_sr04.c:24-33, 65-69).  The difference has to fit uint32_t:
\* after 71 minutes without a rising edge served in time it may not.
ReadingHonest ==
  gap < W => Near(ulGetDistanceCm) \/ ulGetDistanceCm >= FAR \div US_PER_CM

\* Nothing is on its way: no trigger, pulse, edge or handler.
Settled == phase = "quiet" /\ edge = NoTime /\ isr = NoTime

\* When a wait ends, of the calibration or of the task, the measurement it follows is
\* over, and it is the one the distance was computed from: a sample is never
\* that of another probe that answered, and no trigger falls into a pulse
\* (azure_iot_main.c:307-315, hc_sr04.c:80-83).
MeasuredInTime ==
  \/ pc = "sample" /\ ProbeDelayOver
  \/ pc \in {"trigger", "bringUp", "measure"}
  => Settled /\ (width # 0 => measured = width)

--------------------------------------------------------------------------------
(* Refinement. *)

\* The last start of a pulse is older than uint32_t can tell.
Wrapped == now - pstart >= W

Promised == INSTANCE Sensor WITH
  measuring <- ~Settled,
  pulse     <- width,
  reading   <- ulGetDistanceCm,
  wrapped   <- Wrapped

\* Every schedule of edges, interrupts and waits keeps the promises of Sensor: no
\* trigger falls into an open measurement, the distance changes only in one whose
\* pulse has ended, to what that pulse can have given, once given it stays until the next
\* trigger, and no pulse is left without a distance, whichever of its edges were served
\* late or as one (hc_sr04.c:24-33, 57-69).
ImplementsSensor == Promised!Spec

================================================================================

----------------------------- MODULE Gyroscope -----------------------------
(***************************************************************************)
(* The gyroscope driver of the glasses, gyroscope.c: set-up, calibration   *)
(* and the classification of one rate after the other.                     *)
(*                                                                         *)
(* The sensor goes on sampling while the program reads it byte by byte, so *)
(* the two bytes of a rate may belong to two samples.  A byte whose bus    *)
(* transfer fails reads 0xFF, and nobody looks: lsm6dsl_read_gyro always   *)
(* succeeds.  Of the six bytes of a measurement the model reads the two    *)
(* the program uses: the calibration those of z, the classification those  *)
(* of x.                                                                   *)
(*                                                                         *)
(* A sample is the pair of its high byte, which carries the sign, and its  *)
(* low byte.  Rates are exact; the code computes them in floating point.   *)
(***************************************************************************)
EXTENDS Integers

CONSTANTS
  Sample,     \* the samples the sensor may hold
  Samples     \* the number of samples of the calibration (the code: 100)

ASSUME SampleAssumption ==
  Sample \subseteq (-128 .. 127) \X (0 .. 255) /\ Sample # {}
ASSUME SamplesAssumption == Samples \in Nat \ {0}

VARIABLES
  x, z,           \* the sensor's samples
  stage,          \* where the program is
  low,            \* the low byte it has read
  lost,           \* history: the bytes of this measurement that were not read
  sumZ,           \* the sum of the samples taken ...
  taken,          \* ... and their number
  currentState,   \* the head's position, as far as the program knows
  motion          \* history: what the sensor has seen of the head

sensor == <<x, z, motion>>
vars == <<sensor, stage, low, lost, sumZ, taken, currentState>>

-----------------------------------------------------------------------------
Value(sample) == 256 * sample[1] + sample[2]

\* Both bytes of a sample within one step of zero: less than 2.3 degrees per
\* second, the noise of a head that does not move.
Still(sample) == sample[1] \in {-1, 0}

\* A rate in 1/800 degrees per second, times Samples so that the offset
\* sumZ / Samples is subtracted without a division: the raw unit is 0.00875.
Rate(raw) ==
  LET calibrated == 7 * (Samples * raw - sumZ)
      DeadZone   == 80 * Samples
  IN  IF -DeadZone < calibrated /\ calibrated < DeadZone THEN 0 ELSE calibrated

TurnThreshold == 12000 * Samples

\* The side the head turns to, fast enough to count; its position otherwise.
Seen(state, rate) ==
  IF rate < -TurnThreshold THEN "right"
  ELSE IF rate > TurnThreshold THEN "left"
  ELSE state

\* Faulty: there is no way back to the center.
Classified_Stuck(state, rate) ==
  IF state = "center" THEN Seen(state, rate) ELSE state

\* Faulty: the head is taken to pass the center at once.
Classified_Flip(state, rate) == Seen(state, rate)

Classified(state, rate) ==
  IF state \in {"center", Seen(state, rate)} THEN Seen(state, rate)
  ELSE "center"

Init ==
  /\ x \in Sample /\ z \in Sample
  /\ motion = IF Still(x) /\ Still(z) THEN "none" ELSE "turn"
  /\ stage = "who" /\ low = 0 /\ lost = {}
  /\ sumZ = 0 /\ taken = 0
  /\ currentState = "center"

-----------------------------------------------------------------------------
\* The sensor takes its next samples.
Sense ==
  /\ x' \in Sample /\ z' \in Sample
  /\ motion' = IF x' = x /\ z' = z THEN motion
               ELSE IF Still(x') /\ Still(z') /\ motion # "turn" THEN "noise"
               ELSE "turn"
  /\ UNCHANGED <<stage, low, lost, sumZ, taken, currentState>>

\* lsm6dsl_init: each of the three transfers has to succeed, the first with
\* the expected answer, or main returns.
Start ==
  /\ \/ stage = "who" /\ stage' \in {"accelerometer", "dead"}
     \/ stage = "accelerometer" /\ stage' \in {"gyroscope", "dead"}
     \/ stage = "gyroscope" /\ stage' \in {"low", "dead"}
  /\ UNCHANGED <<sensor, low, lost, sumZ, taken, currentState>>

\* The axis whose bytes are used: z as long as the program calibrates.
Axis == IF taken < Samples THEN z ELSE x

ReadLow ==
  /\ stage = "low"
  /\ low' \in {Axis[2], 255}
  /\ lost' = IF low' = Axis[2] THEN {} ELSE {"low"}
  /\ stage' = "high"
  /\ UNCHANGED <<sensor, sumZ, taken, currentState>>

\* Faulty: the bytes are put together without a sign.
Raw_Unsigned(high) == 256 * (high % 256) + low

\* The raw rate, once the high byte has been read as well, or has not.
Raw(high) == 256 * high + low

ReadHigh(high) ==
  /\ stage = "high"
  /\ lost' = lost \cup IF high = Axis[1] THEN {} ELSE {"high"}
  /\ stage' = "low"
  /\ UNCHANGED <<sensor, low>>

\* Faulty: one sample more than their number.
calibrateGyroscope_OneMore ==
  /\ taken <= Samples
  /\ \E high \in {z[1], -1} : ReadHigh(high) /\ sumZ' = sumZ + Raw(high)
  /\ taken' = taken + 1
  /\ UNCHANGED currentState

\* The rest of one turn of the calibration's loop.
calibrateGyroscope ==
  /\ taken < Samples
  /\ \E high \in {z[1], -1} : ReadHigh(high) /\ sumZ' = sumZ + Raw(high)
  /\ taken' = taken + 1
  /\ UNCHANGED currentState

\* The rest of one call by the glasses' loop.
processGyroscopeData ==
  /\ taken = Samples
  /\ \E high \in {x[1], -1} :
       ReadHigh(high) /\ currentState' = Classified(currentState, Rate(Raw(high)))
  /\ UNCHANGED <<sumZ, taken>>

Program == Start \/ ReadLow \/ calibrateGyroscope \/ processGyroscopeData

Next == Program \/ Sense

Spec == Init /\ [][Next]_vars

\* The glasses call the driver again and again.
FairSpec == Spec /\ WF_vars(Program)

-----------------------------------------------------------------------------
(***************************************************************************)
(* Properties.                                                             *)
(***************************************************************************)
TypeOK ==
  /\ x \in Sample /\ z \in Sample
  /\ motion \in {"none", "noise", "turn"}
  /\ stage \in {"who", "accelerometer", "gyroscope", "low", "high", "dead"}
  /\ low \in 0 .. 255 /\ lost \subseteq {"low", "high"}
  /\ taken \in 0 .. Samples
  /\ sumZ \in -32768 * taken .. 32767 * taken
  /\ currentState \in {"left", "center", "right"}

\* A head that has been still since the start is never taken to have turned:
\* no failed transfer, no rate put together from two samples and no offset
\* computed from such rates reaches the threshold (gyroscope.c:84-93, 172-191).
NoGhostTurn == motion # "turn" => currentState = "center"

\* The driver implements the dial: it turns by one position at a time, and
\* not before the head has moved (gyroscope.c:183-212).
TheDial == INSTANCE Dial WITH heading <- currentState, still <- motion # "turn"

Implements == TheDial!Spec

\* A head that keeps turning to the left, read without failures and after a
\* calibration of a still sensor, is found to be on the left, whatever the
\* position the program started from (gyroscope.c:188-198).
TurningLeft ==
  /\ stage # "dead" /\ lost = {}
  /\ taken = Samples => sumZ \in -256 * Samples .. 255 * Samples
  /\ Value(x) > 2300

TurnIsSeen == <>[]TurningLeft => <>[](currentState = "left")

\* No single measurement of a fast head is wasted: after a calibration of a
\* still sensor, it moves the position by one to the side the head turns to,
\* also when the low byte was not read or belongs to another sample
\* (gyroscope.c:84-93, 172-203).
EachCounts ==
  [][processGyroscopeData /\ sumZ \in -256 * Samples .. 255 * Samples /\ "high" \notin lost'
       => /\ x[1] >= 8  => currentState' = IF currentState = "right" THEN "center" ELSE "left"
          /\ x[1] <= -9 => currentState' = IF currentState = "left" THEN "center" ELSE "right"]_vars

-----------------------------------------------------------------------------
\* gyroscope.c:171 "Apply calibration": after an undisturbed calibration of a
\* sensor whose samples do not change, the rate of the head is zero.
StillReadsZero ==
  taken = Samples /\ motion = "none" /\ sumZ = Samples * Value(z)
    => Rate(Value(x)) = 0
=============================================================================

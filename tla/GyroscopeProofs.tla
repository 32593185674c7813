-------------------------- MODULE GyroscopeProofs --------------------------
(***************************************************************************)
(* Proofs about the gyroscope driver, for every set of samples the sensor  *)
(* may hold and every length of the calibration.                           *)
(***************************************************************************)
EXTENDS Gyroscope, TLAPS

\* Why NoGhostTurn holds: as long as the head is still, every rate, garbled or
\* not, has a high byte of a still sample, and the offset is the average of such
\* rates.
StillInv ==
  /\ TypeOK
  /\ motion # "turn" =>
       /\ Still(x) /\ Still(z)
       /\ sumZ \in -256 * taken .. 255 * taken
       /\ currentState = "center"

\* The bytes of a sample.
LEMMA SampleType ==
  ASSUME NEW s \in Sample
  PROVE  s[1] \in -128 .. 127 /\ s[2] \in 0 .. 255
BY SampleAssumption

\* A rate is small if its high byte is a still sample's, or has not been read.
LEMMA SmallRaw ==
  ASSUME TypeOK, NEW high \in {-1, 0}
  PROVE  Raw(high) \in -256 .. 255
BY DEF TypeOK, Raw

\* No small rate reaches the threshold after a calibration with small rates.
LEMMA SmallRate ==
  ASSUME NEW raw \in -256 .. 255, sumZ \in -256 * Samples .. 255 * Samples
  PROVE  -TurnThreshold <= Rate(raw) /\ Rate(raw) <= TurnThreshold
<1> DEFINE product == Samples * raw
<1>1. Samples \in Nat \ {0} /\ sumZ \in Int /\ product \in Int
  BY SamplesAssumption
<1>2. -256 * Samples <= product /\ product <= 255 * Samples
  BY <1>1
<1>3. Rate(raw) = 0 \/ Rate(raw) = 7 * (product - sumZ)
  BY DEF Rate
<1> HIDE DEF product
<1> QED BY <1>1, <1>2, <1>3 DEF TurnThreshold

\* The program starts with nothing summed up and the head in the center.
LEMMA StillInit == Init => StillInv
<1> SUFFICES ASSUME Init PROVE StillInv
  OBVIOUS
<1>1. taken = 0 /\ sumZ = 0 /\ currentState = "center" /\ x \in Sample /\ z \in Sample
  BY DEF Init
<1>2. sumZ \in -32768 * taken .. 32767 * taken /\ taken \in 0 .. Samples
      /\ sumZ \in -256 * taken .. 255 * taken
  BY <1>1, SamplesAssumption
<1>3. motion \in {"none", "noise", "turn"}
      /\ (motion # "turn" => Still(x) /\ Still(z))
  BY DEF Init
<1>4. TypeOK
  BY <1>1, <1>2, <1>3 DEF Init, TypeOK
<1> QED BY <1>1, <1>2, <1>3, <1>4 DEF StillInv

\* One more sample keeps the sum of small rates within its bounds.
LEMMA SmallSum ==
  ASSUME TypeOK, NEW raw \in -256 .. 255, sumZ \in -256 * taken .. 255 * taken,
         sumZ' = sumZ + raw, taken' = taken + 1
  PROVE  sumZ' \in -256 * taken' .. 255 * taken'
<1>1. taken \in Int /\ sumZ \in Int
  BY SamplesAssumption DEF TypeOK
<1> QED BY <1>1

\* The high byte of a sample, or of none.
LEMMA HighByte ==
  ASSUME NEW s \in Sample, NEW high \in {s[1], -1}
  PROVE  high \in -128 .. 127 /\ (Still(s) => high \in {-1, 0})
BY SampleType DEF Still

\* The reading of the high byte ends the measurement.
LEMMA ReadHighType ==
  ASSUME TypeOK, NEW high, ReadHigh(high)
  PROVE  /\ UNCHANGED <<x, z, motion, low>>
         /\ stage' = "low" /\ lost' \subseteq {"low", "high"}
BY DEF ReadHigh, TypeOK, sensor

\* No step breaks the invariant.
LEMMA StillStep == StillInv /\ [Next]_vars => StillInv'
<1> SUFFICES ASSUME StillInv, [Next]_vars PROVE StillInv'
  OBVIOUS
<1>1. TypeOK
  BY DEF StillInv
<1>2. CASE Sense
  BY <1>1, <1>2 DEF Sense, StillInv, TypeOK
<1>3. CASE Start
  BY <1>1, <1>3 DEF Start, StillInv, TypeOK, sensor
<1>4. CASE ReadLow
  <2>1. Axis \in Sample
    BY <1>1 DEF Axis, TypeOK
  <2>2. low' \in 0 .. 255 /\ lost' \subseteq {"low", "high"}
    BY <1>4, <2>1, SampleType DEF ReadLow
  <2> QED BY <1>1, <1>4, <2>2 DEF ReadLow, StillInv, TypeOK, sensor
<1>5. CASE calibrateGyroscope
  <2>1. PICK high \in {z[1], -1} : ReadHigh(high) /\ sumZ' = sumZ + Raw(high)
    BY <1>5 DEF calibrateGyroscope
  <2>2. high \in -128 .. 127
    BY <1>1, HighByte DEF TypeOK
  <2>3. taken < Samples /\ taken' = taken + 1 /\ currentState' = currentState
    BY <1>5 DEF calibrateGyroscope
  <2>4. sumZ' \in -32768 * taken' .. 32767 * taken'
    <3> DEFINE raw == Raw(high)
    <3>1. raw \in Int /\ -32768 <= raw /\ raw <= 32767
      <4>1. low \in 0 .. 255
        BY <1>1 DEF TypeOK
      <4> QED BY <2>2, <4>1 DEF Raw
    <3>2. sumZ' = sumZ + raw
      BY <2>1
    <3> HIDE DEF raw
    <3>3. taken \in Nat /\ sumZ \in -32768 * taken .. 32767 * taken
      BY <1>1, SamplesAssumption DEF TypeOK
    <3>4. sumZ + raw \in -32768 * (taken + 1) .. 32767 * (taken + 1)
      BY <3>1, <3>3
    <3> QED BY <2>3, <3>2, <3>4
  <2>5. /\ UNCHANGED <<x, z, motion, low>>
        /\ stage' = "low" /\ lost' \subseteq {"low", "high"}
    BY <1>1, <2>1, ReadHighType
  <2>6. TypeOK'
    <3>1. taken' \in 0 .. Samples
      BY <1>1, <2>3, SamplesAssumption DEF TypeOK
    <3> QED BY <1>1, <2>3, <2>4, <2>5, <3>1 DEF TypeOK
  <2>7. motion # "turn" => sumZ' \in -256 * taken' .. 255 * taken'
    <3> SUFFICES ASSUME motion # "turn"
                 PROVE  sumZ' \in -256 * taken' .. 255 * taken'
      OBVIOUS
    <3>1. Still(z) /\ sumZ \in -256 * taken .. 255 * taken
      BY DEF StillInv
    <3>2. Raw(high) \in -256 .. 255
      <4>1. high \in {-1, 0}
        BY <1>1, <3>1, HighByte DEF TypeOK
      <4> QED BY <1>1, <4>1, SmallRaw
    <3> QED BY <1>1, <2>1, <2>3, <3>1, <3>2, SmallSum
  <2> QED BY <2>3, <2>5, <2>6, <2>7 DEF StillInv, Still
<1>6. CASE processGyroscopeData
  <2>1. PICK high \in {x[1], -1} :
          /\ ReadHigh(high)
          /\ currentState' = Classified(currentState, Rate(Raw(high)))
    BY <1>6 DEF processGyroscopeData
  <2>2. /\ UNCHANGED <<x, z, motion, low>>
        /\ stage' = "low" /\ lost' \subseteq {"low", "high"}
    BY <1>1, <2>1, ReadHighType
  <2>3. sumZ' = sumZ /\ taken' = taken /\ taken = Samples
    BY <1>6 DEF processGyroscopeData
  <2>4. currentState' \in {"left", "center", "right"}
    BY <1>1, <2>1 DEF Classified, Seen, TypeOK
  <2>5. TypeOK'
    BY <1>1, <2>2, <2>3, <2>4 DEF TypeOK
  <2>6. motion # "turn" => currentState' = "center"
    <3> SUFFICES ASSUME motion # "turn" PROVE currentState' = "center"
      OBVIOUS
    <3>1. Raw(high) \in -256 .. 255
      <4>1. high \in {-1, 0}
        BY <1>1, HighByte DEF StillInv, TypeOK
      <4> QED BY <1>1, <4>1, SmallRaw
    <3>2. sumZ \in -256 * Samples .. 255 * Samples /\ currentState = "center"
      BY <2>3 DEF StillInv
    <3> DEFINE rate == Rate(Raw(high))
    <3>3. -TurnThreshold <= rate /\ rate <= TurnThreshold
      BY <3>1, <3>2, SmallRate
    <3>4. rate \in Int /\ TurnThreshold \in Int
      BY <3>1, <3>2, SamplesAssumption DEF Rate, TurnThreshold
    <3>5. currentState' = Classified("center", rate)
      BY <2>1, <3>2
    <3> HIDE DEF rate
    <3>6. ~(rate < -TurnThreshold) /\ ~(rate > TurnThreshold)
      BY <3>3, <3>4
    <3> QED BY <3>5, <3>6 DEF Classified, Seen
  <2> QED BY <2>2, <2>3, <2>5, <2>6 DEF StillInv, Still
<1>7. CASE UNCHANGED vars
  BY <1>1, <1>7 DEF vars, sensor, StillInv, TypeOK, Still
<1> QED BY <1>2, <1>3, <1>4, <1>5, <1>6, <1>7 DEF Next, Program

\* A still head is never taken to have turned, whatever fails and however the
\* bytes of two samples mix.
THEOREM NoGhost == Spec => []NoGhostTurn
<1>1. StillInv => NoGhostTurn
  BY DEF StillInv, NoGhostTurn
<1> QED BY <1>1, StillInit, StillStep, PTL DEF Spec

-----------------------------------------------------------------------------
\* Every step of the driver turns the dial by at most one position, and only
\* after the head has moved.
LEMMA DialStep ==
  StillInv /\ StillInv' /\ [Next]_vars
    => [TheDial!Move \/ TheDial!Turn]_<<currentState, motion # "turn">>
<1> SUFFICES ASSUME StillInv, StillInv', [Next]_vars
             PROVE  \/ TheDial!Move \/ TheDial!Turn
                    \/ /\ currentState' = currentState
                       /\ (motion' # "turn") = (motion # "turn")
  OBVIOUS
<1>1. CASE Sense
  <2>1. currentState' = currentState
    BY <1>1 DEF Sense
  <2>2. CASE motion' = "turn"
    BY <2>1, <2>2 DEF TheDial!Move
  <2>3. CASE motion' # "turn"
    <3>1. motion # "turn"
      BY <1>1, <2>3 DEF Sense
    <3> QED BY <2>1, <2>3, <3>1
  <2> QED BY <2>2, <2>3
<1>2. CASE Start \/ ReadLow \/ calibrateGyroscope
  BY <1>2 DEF Start, ReadLow, calibrateGyroscope, ReadHigh, sensor
<1>3. CASE processGyroscopeData
  <2>1. PICK high \in {x[1], -1} :
          /\ motion' = motion
          /\ currentState' = Classified(currentState, Rate(Raw(high)))
    BY <1>3 DEF processGyroscopeData, ReadHigh, sensor
  <2>2. CASE currentState' = currentState
    BY <2>1, <2>2
  <2>3. CASE currentState' # currentState
    <3>1. motion = "turn"
      BY <2>1, <2>3 DEF StillInv
    <3>2. currentState \in {"left", "center", "right"}
      BY DEF StillInv, TypeOK
    <3>3. \E side \in {"left", "right"} :
            currentState' = TheDial!Turned(currentState, side)
      BY <2>1, <2>3, <3>2 DEF Classified, Seen, TheDial!Turned
    <3> QED BY <2>1, <3>1, <3>3 DEF TheDial!Turn
  <2> QED BY <2>2, <2>3
<1>4. CASE UNCHANGED vars
  BY <1>4 DEF vars, sensor
<1> QED BY <1>1, <1>2, <1>3, <1>4 DEF Next, Program

\* The driver implements the dial.
THEOREM Refinement == Spec => Implements
<1>1. Init => TheDial!Init
  BY DEF Init, TheDial!Init
<1>2. Spec => []StillInv
  BY StillInit, StillStep, PTL DEF Spec
<1> QED BY <1>1, <1>2, DialStep, PTL DEF Spec, Implements, TheDial!Spec

\* While every sample is still, every high byte read, every sum and every rate
\* stays in the few values a still head can give, failed reads included.
THEOREM StillHead == Spec => []StillInv
BY StillInit, StillStep, PTL DEF Spec

\* Every variable keeps its type, whatever the bus and the head do.
THEOREM TypeCorrect == Spec => []TypeOK
<1>1. StillInv => TypeOK
  BY DEF StillInv
<1> QED BY <1>1, StillHead, PTL

-----------------------------------------------------------------------------
\* A rate as large as these two high bytes make it, whatever the low byte, is
\* beyond the threshold after a calibration with small rates.
LEMMA LargeRate ==
  ASSUME NEW raw \in Int, sumZ \in -256 * Samples .. 255 * Samples
  PROVE  /\ raw >= 2048  => Rate(raw) > TurnThreshold
         /\ raw <= -2049 => Rate(raw) < -TurnThreshold
<1> DEFINE product == Samples * raw
<1>1. Samples \in Nat \ {0} /\ sumZ \in Int /\ product \in Int
  BY SamplesAssumption
<1>2. -256 * Samples <= sumZ /\ sumZ <= 255 * Samples
  BY <1>1
<1>3. Rate(raw) = LET calibrated == 7 * (product - sumZ)
                  IN  IF -(80 * Samples) < calibrated /\ calibrated < 80 * Samples
                      THEN 0 ELSE calibrated
  BY DEF Rate
<1>4. ASSUME raw >= 2048 PROVE Rate(raw) > TurnThreshold
  <2>1. product >= 2048 * Samples
    BY <1>1, <1>4
  <2> HIDE DEF product
  <2> QED BY <1>1, <1>2, <1>3, <2>1 DEF TurnThreshold
<1>5. ASSUME raw <= -2049 PROVE Rate(raw) < -TurnThreshold
  <2>1. product <= -2049 * Samples
    BY <1>1, <1>5
  <2> HIDE DEF product
  <2> QED BY <1>1, <1>2, <1>3, <2>1 DEF TurnThreshold
<1> QED
  BY <1>4, <1>5

\* A fast head is found by the first measurement whose high byte is read.
LEMMA FastStep ==
  ASSUME TypeOK, processGyroscopeData, sumZ \in -256 * Samples .. 255 * Samples,
         "high" \notin lost'
  PROVE  /\ x[1] >= 8  => currentState' = IF currentState = "right" THEN "center" ELSE "left"
         /\ x[1] <= -9 => currentState' = IF currentState = "left" THEN "center" ELSE "right"
<1>1. PICK high \in {x[1], -1} :
        /\ ReadHigh(high)
        /\ currentState' = Classified(currentState, Rate(Raw(high)))
  BY DEF processGyroscopeData
<1>2. high = x[1]
  <2>1. Axis = x
    BY SamplesAssumption DEF processGyroscopeData, Axis
  <2> QED
    BY <1>1, <2>1 DEF ReadHigh
<1>3. high \in -128 .. 127 /\ low \in 0 .. 255
  BY <1>2, SampleType DEF TypeOK
<1> DEFINE raw == Raw(high)
           rate == Rate(raw)
<1>4. raw \in Int /\ (high >= 8 => raw >= 2048) /\ (high <= -9 => raw <= -2049)
  BY <1>3 DEF Raw
<1>5. rate \in Int /\ TurnThreshold \in Int /\ TurnThreshold > 0
  <2>1. Samples \in Nat \ {0} /\ sumZ \in Int
    BY SamplesAssumption
  <2> HIDE DEF raw
  <2> QED
    BY <1>4, <2>1 DEF Rate, TurnThreshold
<1>6. /\ high >= 8  => rate > TurnThreshold
      /\ high <= -9 => rate < -TurnThreshold
  <2> HIDE DEF raw
  <2> QED
    BY <1>4, LargeRate
<1>7. currentState' = Classified(currentState, rate)
  BY <1>1
<1>8. currentState \in {"left", "center", "right"}
  BY DEF TypeOK
<1> HIDE DEF rate
<1>9. ASSUME x[1] >= 8
      PROVE  currentState' = IF currentState = "right" THEN "center" ELSE "left"
  <2>1. rate > TurnThreshold /\ ~(rate < -TurnThreshold)
    BY <1>2, <1>5, <1>6, <1>9
  <2> QED
    BY <1>7, <1>8, <2>1 DEF Classified, Seen
<1>10. ASSUME x[1] <= -9
       PROVE  currentState' = IF currentState = "left" THEN "center" ELSE "right"
  <2>1. rate < -TurnThreshold
    BY <1>2, <1>6, <1>10
  <2> QED
    BY <1>7, <1>8, <2>1 DEF Classified, Seen
<1> QED
  BY <1>9, <1>10

\* No measurement of a fast head is wasted, whatever its low byte.
THEOREM FastHead == Spec => EachCounts
BY TypeCorrect, FastStep, PTL DEF Spec, EachCounts

=============================================================================

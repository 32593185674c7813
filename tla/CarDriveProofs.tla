--------------------------- MODULE CarDriveProofs ---------------------------
(***************************************************************************)
(* Proofs about the wheels of the car, for every set of distances, every   *)
(* set of commands and every number of parameters in a request: the        *)
(* firmware, register by register, implements Drive.                       *)
(***************************************************************************)
EXTENDS CarProofs

-----------------------------------------------------------------------------
(***************************************************************************)
(* The inductive invariant.                                                *)
(***************************************************************************)
Input  == {"IN1", "IN2", "IN3", "IN4"}
Enable == {"EN1", "EN2"}

\* The calls of the loop that address the motors.
MotorGoal == Drive \cup {"stop"}

\* Levels fit the wrap value 255, the one the loop is about to flip included.
LevelsOK ==
  /\ \A r \in Input : reg[r] \in {Low, High}
  /\ DutyInRange
  /\ latched /\ Order[k] \in Enable => latch \subseteq 0 .. 7

\* The registers that only motor commands and the loop write: the motors', and
\* the lamp's if no request paints it.
Kept == IF Commands \cap DOMAIN Color = {} THEN 1 .. 9 ELSE 1 .. 6

\* As long as no command comes, what the loop has written stays.
Holds(g, j) == reg[Order[j]] = Target[g][Order[j]]

Written ==
  ~raced =>
    /\ Window => "forward" \in moving
    /\ goal \in MotorGoal => \A j \in Kept : j < k => Holds(goal, j)
    /\ goal = "hush" \/ pc \in {"beep", "clear"} => \A j \in Kept : Holds("stop", j)
    /\ latched /\ k \in Kept => latch = reg[Order[k]]

\* What a "backward" and the loop's writes leave of the two bridges.  A wheel
\* set back by the handler has a level; and a bridge braked with both inputs
\* high, the first, leaves the other wheel driving.
Braked == reg["IN1"] = High /\ reg["IN2"] = High

SecondForth == reg["IN3"] = High /\ reg["IN4"] = Low /\ reg["EN2"] # {}

Mixed ==
  /\ goal \in MotorGoal /\ k = 2 /\ reg["IN1"] = High
       => reg["IN2"] = Low /\ reg["EN1"] # {} /\ reg["EN2"] # {}
  /\ goal \in MotorGoal /\ k \in 3 .. 5 /\ reg["IN1"] = High /\ reg["IN2"] = Low
       => reg["EN1"] # {}
  /\ reg["IN3"] = High /\ reg["IN4"] = High => goal \in Drive /\ k = 4
  /\ goal \in MotorGoal /\ k \in 5 .. 6 /\ reg["IN3"] = Low /\ reg["IN4"] = High
       => reg["EN2"] # {}
  /\ Braked =>
       /\ \/ SecondForth /\ (goal = "stop" => k = 1)
          \/ goal \in Drive /\ k = 3 /\ reg["EN2"] # {}
          \/ goal \in Drive /\ k = 4 /\ reg["EN2"] # {} /\ reg["IN3"] = High
       /\ latched /\ k = 6 => latch = reg["EN2"]

DriveInv == TypeOK /\ LevelsOK /\ Written /\ Mixed

-----------------------------------------------------------------------------
(***************************************************************************)
(* The levels and the calls.                                               *)
(***************************************************************************)
\* A level that drives a motor: not zero, and within the wrap value 255.
Level == (SUBSET (0 .. 7)) \ {{}}

\* A level up to 255 needs eight bits.
LEMMA BitsFit ==
  ASSUME NEW n \in 0 .. 255
  PROVE  Bits(n) \subseteq 0 .. 7
<1> SUFFICES ASSUME NEW i \in 8 .. 15 PROVE (n \div 2^i) % 2 = 0
  <2>1. \A i \in Bit : i \in 0 .. 7 \/ i \in 8 .. 15
    BY DEF Bit
  <2> QED
    BY <2>1 DEF Bits
<1>1. CASE i = 8
  BY <1>1
<1>2. CASE i = 9
  BY <1>2
<1>3. CASE i = 10
  BY <1>3
<1>4. CASE i = 11
  BY <1>4
<1>5. CASE i = 12
  BY <1>5
<1>6. CASE i = 13
  BY <1>6
<1>7. CASE i = 14
  BY <1>7
<1>8. CASE i = 15
  BY <1>8
<1> QED
  BY <1>1, <1>2, <1>3, <1>4, <1>5, <1>6, <1>7, <1>8

\* Zero has no bit.
LEMMA NoBit ==
  ASSUME NEW i \in 0 .. 7
  PROVE  (0 \div 2^i) % 2 # 1
<1>1. CASE i = 0
  BY <1>1
<1>2. CASE i = 1
  BY <1>2
<1>3. CASE i = 2
  BY <1>3
<1>4. CASE i = 3
  BY <1>4
<1>5. CASE i = 4
  BY <1>5
<1>6. CASE i = 5
  BY <1>6
<1>7. CASE i = 6
  BY <1>7
<1>8. CASE i = 7
  BY <1>8
<1> QED
  BY <1>1, <1>2, <1>3, <1>4, <1>5, <1>6, <1>7, <1>8

\* The level 0 has no bit ...
LEMMA BitsOff == Bits(0) = {}
<1>1. Bits(0) \subseteq 0 .. 7
  BY BitsFit
<1>2. \A i \in Bits(0) : (0 \div 2^i) % 2 = 1
  BY DEF Bits
<1>3. ASSUME NEW i \in Bits(0) PROVE FALSE
  <2>1. i \in 0 .. 7
    BY <1>1
  <2>2. (0 \div 2^i) % 2 # 1
    BY <2>1, NoBit
  <2> QED
    BY <1>2, <2>2
<1> QED
  BY <1>3

\* ... and the levels of the moves have some, and fit.
LEMMA BitsOn == \A n \in {125, 131, 140, 143, 149} : Bits(n) \in Level
<1>1. \A n \in {125, 131, 143, 149} : 0 \in Bits(n)
  BY DEF Bits, Bit
<1>2. 2 \in Bits(140)
  BY DEF Bits, Bit
<1> QED
  BY <1>1, <1>2, BitsFit DEF Level

\* What the motors' part of a call does.
DrivesOn(f) ==
  /\ f["IN1"] = Low /\ f["IN2"] = High /\ f["IN3"] = High /\ f["IN4"] = Low
  /\ f["EN1"] \in Level /\ f["EN2"] \in Level

Reverses(f) ==
  /\ f["IN1"] = High /\ f["IN2"] = Low /\ f["IN3"] = Low /\ f["IN4"] = High
  /\ f["EN1"] \in Level /\ f["EN2"] \in Level

Stands(f) ==
  /\ f["IN1"] = Low /\ f["IN2"] = Low /\ f["IN3"] = Low /\ f["IN4"] = Low
  /\ f["EN1"] = {} /\ f["EN2"] = {}

\* What the driver's calls make of the wheels.
LEMMA Moves ==
  /\ DrivesOn(move_forward(Speed)) /\ DrivesOn(move_left(Speed))
  /\ DrivesOn(move_right(Speed)) /\ Reverses(move_backward(Speed))
  /\ Stands(stop_car)
<1>1. (Speed \div 2) + 18 = 143 /\ Speed \div 2 = 125 /\ (Speed \div 2) + 24 = 149
      /\ (Speed \div 2) + 6 = 131 /\ (Speed \div 2) + 15 = 140
  BY DEF Speed
<1> QED
  BY <1>1, BitsOn, BitsOff
     DEF move_forward, move_left, move_right, move_backward, stop_car, Bridges,
         DrivesOn, Reverses, Stands

\* The motors' part is the same whatever a call does besides.
LEMMA MotorPart ==
  ASSUME NEW m \in [MotorReg -> SUBSET Bit]
  PROVE  /\ \A f : \A r \in MotorReg : (m ++ f)[r] = m[r]
         /\ \A l \in [LedReg -> SUBSET Bit] : \A r \in MotorReg : (l ++ m)[r] = m[r]
BY DEF ++, MotorReg, LedReg

\* The wheels depend on the motors' registers alone.
LEMMA SameMotors ==
  ASSUME NEW f, NEW g, \A r \in MotorReg : f[r] = g[r]
  PROVE  /\ DrivesOn(f) <=> DrivesOn(g)
         /\ Reverses(f) <=> Reverses(g)
         /\ Stands(f) <=> Stands(g)
BY DEF DrivesOn, Reverses, Stands, MotorReg

\* The loop's calls drive on, or halt.
LEMMA LoopCalls == (\A g \in Drive : DrivesOn(Target[g])) /\ Stands(Target["stop"])
<1>1. DrivesOn(Target["forward"])
  <2>1. Target["forward"] = move_forward(Speed) ++ set_rgb_color(0, 255, 0)
    BY DEF Target
  <2>2. \A r \in MotorReg : Target["forward"][r] = move_forward(Speed)[r]
    BY <2>1, MotorPart, MoveType
  <2> QED
    BY <2>2, Moves, SameMotors
<1>2. DrivesOn(Target["left"])
  <2>1. Target["left"] = move_left(Speed) ++ set_rgb_color(0, 255, 0)
    BY DEF Target
  <2>2. \A r \in MotorReg : Target["left"][r] = move_left(Speed)[r]
    BY <2>1, MotorPart, MoveType
  <2> QED
    BY <2>2, Moves, SameMotors
<1>3. DrivesOn(Target["right"])
  <2>1. Target["right"] = move_right(Speed) ++ set_rgb_color(0, 255, 0)
    BY DEF Target
  <2>2. \A r \in MotorReg : Target["right"][r] = move_right(Speed)[r]
    BY <2>1, MotorPart, MoveType
  <2> QED
    BY <2>2, Moves, SameMotors
<1>4. Stands(Target["stop"])
  <2>1. Target["stop"]
          = (stop_car ++ set_rgb_color(0, 0, 255)) ++ buzzer_start(25000)
    BY DEF Target
  <2>2. \A r \in MotorReg :
          /\ r \in DOMAIN (stop_car ++ set_rgb_color(0, 0, 255))
          /\ (stop_car ++ set_rgb_color(0, 0, 255))[r] = stop_car[r]
    BY MotorPart, MoveType DEF ++
  <2>3. \A r \in MotorReg : Target["stop"][r] = stop_car[r]
    BY <2>1, <2>2 DEF ++
  <2> QED
    BY <2>3, Moves, SameMotors
<1> QED
  BY <1>1, <1>2, <1>3, <1>4 DEF Drive

\* A handler's call: lamp, motors and buzzer in any order.
LEMMA ApplyMotors ==
  ASSUME NEW w, MotorReg \subseteq DOMAIN w
  PROVE  \A r \in MotorReg : Apply(reg, w)[r] = w[r]
BY DEF Apply, Reg, PlainReg, PwmReg, MotorReg

\* The handler's calls leave in the motors what the driver says.
LEMMA HandlerCalls ==
  /\ \A r \in MotorReg :
       /\ Apply(reg, ForwardCall)[r] = move_forward(Speed)[r]
       /\ Apply(reg, LeftCall)[r] = move_left(Speed)[r]
       /\ Apply(reg, RightCall)[r] = move_right(Speed)[r]
       /\ Apply(reg, BackwardCall)[r] = move_backward(Speed)[r]
       /\ Apply(reg, StopCall)[r] = stop_car[r]
       /\ Apply(reg, RefuseCall)[r] = stop_car[r]
  /\ DrivesOn(Apply(reg, ForwardCall)) /\ DrivesOn(Apply(reg, LeftCall))
  /\ DrivesOn(Apply(reg, RightCall)) /\ Reverses(Apply(reg, BackwardCall))
  /\ Stands(Apply(reg, StopCall)) /\ Stands(Apply(reg, RefuseCall))
<1> DEFINE Carries(w, m) == \A r \in MotorReg : r \in DOMAIN w /\ w[r] = m[r]
<1>1. ASSUME NEW m \in [MotorReg -> SUBSET Bit]
      PROVE  /\ \A f : Carries(m ++ f, m)
             /\ \A l \in [LedReg -> SUBSET Bit] : Carries(l ++ m, m)
  BY MotorPart DEF ++
<1>2. ASSUME NEW w, NEW m, Carries(w, m)
      PROVE  \A f : Carries(w ++ f, m)
  BY <1>2 DEF ++
<1>3. ASSUME NEW w, NEW m, Carries(w, m)
      PROVE  \A r \in MotorReg : Apply(reg, w)[r] = m[r]
  BY <1>3, ApplyMotors
<1> HIDE DEF Carries
<1>4. /\ Carries(ForwardCall, move_forward(Speed))
      /\ Carries(RightCall, move_right(Speed)) /\ Carries(RefuseCall, stop_car)
  BY <1>1, <1>2, MoveType DEF ForwardCall, RightCall, RefuseCall
<1>5. Carries(StopCall, stop_car)
  BY <1>1, MoveType, ColorType DEF StopCall
<1>6. Carries(LeftCall, move_left(Speed)) /\ Carries(BackwardCall, move_backward(Speed))
  BY <1>1, <1>2, MoveType, ColorType DEF LeftCall, BackwardCall
<1>7. \A r \in MotorReg :
       /\ Apply(reg, ForwardCall)[r] = move_forward(Speed)[r]
       /\ Apply(reg, LeftCall)[r] = move_left(Speed)[r]
       /\ Apply(reg, RightCall)[r] = move_right(Speed)[r]
       /\ Apply(reg, BackwardCall)[r] = move_backward(Speed)[r]
       /\ Apply(reg, StopCall)[r] = stop_car[r]
       /\ Apply(reg, RefuseCall)[r] = stop_car[r]
  BY <1>3, <1>4, <1>5, <1>6
<1> QED
  BY <1>7, Moves, SameMotors

-----------------------------------------------------------------------------
(***************************************************************************)
(* A write of the loop.                                                    *)
(***************************************************************************)
\* The loop writes v into its next register: a whole store, or a flip, which
\* is whole if what was latched is still there.
Writes(v) ==
  /\ pc = "write" /\ Advance
  /\ reg' = [reg EXCEPT ![Order[k]] = v]
  /\ UNCHANGED <<distance, moving, echo, raced>>
  /\ Order[k] \in PlainReg => v = Target[goal][Order[k]]
  /\ Order[k] \in PwmReg =>
       latched /\ (latch = reg[Order[k]] => v = Target[goal][Order[k]])
  /\ Order[k] \in Enable => v \subseteq 0 .. 7

\* The loop writes the motors first.
LEMMA OrderIs ==
  /\ Order[1] = "IN1" /\ Order[2] = "IN2" /\ Order[3] = "IN3" /\ Order[4] = "IN4"
  /\ Order[5] = "EN1" /\ Order[6] = "EN2"
  /\ \A j \in 7 .. 11 : Order[j] \in Reg \ MotorReg
BY DEF Order, Reg, PlainReg, PwmReg, MotorReg, LedReg

\* The levels the loop writes fit.
LEMMA MotorLevels ==
  ASSUME NEW g \in MotorGoal, NEW r \in Enable
  PROVE  Target[g][r] \subseteq 0 .. 7
BY LoopCalls DEF MotorGoal, DrivesOn, Stands, Level, Enable

\* Outputs and levels are different registers.
LEMMA PlainOrPwm == PlainReg \cap PwmReg = {} /\ Enable \subseteq PwmReg
BY DEF PlainReg, PwmReg, LedReg, Enable

\* Where the loop is in its call.
LEMMA Place ==
  ASSUME TypeOK, pc = "write"
  PROVE  /\ goal \in MotorGoal \/ (goal = "hush" /\ k = 11)
         /\ goal \in Drive => k \in 1 .. 9 /\ LastWrite(goal) = 9
         /\ goal = "stop" => k \in 1 .. 11 /\ LastWrite(goal) = 11
         /\ goal = "hush" => LastWrite(goal) = 11
BY DEF TypeOK, Goal, MotorGoal, Drive, FirstWrite, LastWrite

\* A store or a flip gives one register of the loop's call one value.
LEMMA Write ==
  ASSUME TypeOK, LevelsOK, Store \/ Flip
  PROVE  \E v : Writes(v)
<1>1. CASE Store
  <2>1. Order[k] \notin PwmReg /\ Order[k] \notin Enable
    BY <1>1, PlainOrPwm DEF Store
  <2> QED
    BY <1>1, <2>1 DEF Store, Writes
<1>2. CASE Flip
  <2> DEFINE v == Xor(reg[Order[k]], Xor(latch, Target[goal][Order[k]]))
  <2>1. Order[k] \in PwmReg /\ Order[k] \notin PlainReg /\ latched /\ pc = "write"
    BY <1>2, PlainOrPwm DEF Flip, TypeOK
  <2>2. latch = reg[Order[k]] => v = Target[goal][Order[k]]
    BY DEF Xor
  <2>3. ASSUME Order[k] \in Enable PROVE v \subseteq 0 .. 7
    <3>1. goal \in MotorGoal
      <4>1. k # 11
        BY <2>3 DEF Order, Enable
      <4> QED
        BY <2>1, <4>1, Place
    <3>2. Target[goal][Order[k]] \subseteq 0 .. 7
      BY <2>3, <3>1, MotorLevels
    <3>3. latch \subseteq 0 .. 7 /\ reg[Order[k]] \subseteq 0 .. 7
      BY <2>1, <2>3 DEF LevelsOK, DutyInRange, Enable
    <3> QED
      BY <3>2, <3>3 DEF Xor
  <2>4. reg' = [reg EXCEPT ![Order[k]] = v] /\ Advance
        /\ UNCHANGED <<distance, moving, echo, raced>>
    BY <1>2 DEF Flip
  <2> HIDE DEF v
  <2> QED
    BY <2>1, <2>2, <2>3, <2>4 DEF Writes
<1> QED
  BY <1>1, <1>2

\* Where the loop is after its write.
LEMMA Advanced ==
  ASSUME TypeOK, NEW v, Writes(v)
  PROVE  /\ latched' = FALSE /\ reg \in [Reg -> SUBSET Bit]
         /\ goal \in MotorGoal /\ k \in 1 .. 6
              => pc' = "write" /\ goal' = goal /\ k' = k + 1
         /\ goal \in Drive /\ k = 9 => pc' = "sleep" /\ goal' = "none" /\ k' = 1
         /\ goal = "stop" /\ k = 11 => pc' = "beep" /\ goal' = "none" /\ k' = 1
         /\ goal = "hush" => pc' = "clear" /\ goal' = "none" /\ k' = 1
         /\ (goal \in Drive /\ k \in 7 .. 8) \/ (goal = "stop" /\ k \in 7 .. 10)
              => pc' = "write" /\ goal' = goal /\ k' = k + 1
<1>1. /\ pc = "write" /\ latched' = FALSE /\ reg \in [Reg -> SUBSET Bit]
      /\ IF k = LastWrite(goal)
         THEN pc' = AfterWrites(goal) /\ goal' = "none" /\ k' = 1
         ELSE pc' = "write" /\ goal' = goal /\ k' = k + 1
  BY DEF Writes, Advance, TypeOK
<1>2. /\ goal \in Drive => LastWrite(goal) = 9
      /\ goal \in {"stop", "hush"} => LastWrite(goal) = 11
      /\ goal = "hush" => k = 11
  BY <1>1, Place DEF MotorGoal, Drive, LastWrite
<1>3. /\ goal \in Drive => AfterWrites(goal) = "sleep"
      /\ goal = "stop" => AfterWrites(goal) = "beep"
      /\ goal = "hush" => AfterWrites(goal) = "clear"
  BY DEF AfterWrites, Drive
<1> QED
  BY <1>1, <1>2, <1>3 DEF MotorGoal

\* The motors' registers after a write.
LEMMA MotorsWritten ==
  ASSUME TypeOK, NEW v, Writes(v)
  PROVE  /\ k = 1 => reg' = [reg EXCEPT !["IN1"] = v]
         /\ k = 2 => reg' = [reg EXCEPT !["IN2"] = v]
         /\ k = 3 => reg' = [reg EXCEPT !["IN3"] = v]
         /\ k = 4 => reg' = [reg EXCEPT !["IN4"] = v]
         /\ k = 5 => reg' = [reg EXCEPT !["EN1"] = v]
         /\ k = 6 => reg' = [reg EXCEPT !["EN2"] = v]
         /\ k \in 1 .. 4 => v = Target[goal][Order[k]]
         /\ k \in 7 .. 11 => \A r \in MotorReg : reg'[r] = reg[r]
<1>1. reg \in [Reg -> SUBSET Bit] /\ MotorReg \subseteq Reg
  BY DEF TypeOK, Reg, MotorReg, PlainReg, PwmReg
<1>2. k \in 1 .. 4 => Order[k] \in PlainReg
  BY DEF Order, PlainReg
<1>3. reg' = [reg EXCEPT ![Order[k]] = v]
  BY DEF Writes
<1>4. k \in 7 .. 11 => \A r \in MotorReg : reg'[r] = reg[r]
  BY <1>1, <1>3, OrderIs
<1> QED
  BY <1>2, <1>3, <1>4, OrderIs DEF Writes

\* The loop's writes keep the levels in their range.
LEMMA LevelsWrite ==
  ASSUME TypeOK, LevelsOK, NEW v, Writes(v)
  PROVE  LevelsOK'
<1>1. latched' = FALSE /\ reg \in [Reg -> SUBSET Bit]
  BY Advanced
<1>2. k \in 1 .. 11 /\ (k \in 1 .. 6 => goal \in MotorGoal)
  BY Place DEF Writes, MotorGoal
<1>3. k \in 1 .. 4 => v \in {Low, High}
  <2>1. k \in 1 .. 4 => v = Target[goal][Order[k]] /\ goal \in MotorGoal
    BY <1>2, MotorsWritten
  <2>2. \A g \in MotorGoal : \A r \in Input : Target[g][r] \in {Low, High}
    BY LoopCalls DEF MotorGoal, DrivesOn, Stands, Input
  <2>3. k \in 1 .. 4 => Order[k] \in Input
    BY DEF Order, Input
  <2> QED
    BY <2>1, <2>2, <2>3
<1>4. k \in 5 .. 6 => v \subseteq 0 .. 7
  BY OrderIs DEF Writes, Enable
<1>5. \A r \in Input \cup Enable :
        reg'[r] = reg[r] \/ (reg'[r] = v /\ r = Order[k])
  BY <1>1 DEF Writes, Input, Enable, Reg, PlainReg, PwmReg
<1>6. \A r \in Input : reg'[r] \in {Low, High}
  <2>1. \A r \in Input : r = Order[k] => k \in 1 .. 4
    BY <1>2, OrderIs DEF Input, MotorReg
  <2> QED
    BY <1>3, <1>5, <2>1 DEF LevelsOK
<1>7. DutyInRange'
  <2>1. \A r \in Enable : r = Order[k] => k \in 5 .. 6
    BY <1>2, OrderIs DEF Enable, MotorReg
  <2> QED
    BY <1>4, <1>5, <2>1 DEF LevelsOK, DutyInRange, Enable
<1> QED
  BY <1>1, <1>6, <1>7 DEF LevelsOK

\* The loop's writes leave no more of a backward than there was.
LEMMA MixedWrite ==
  ASSUME TypeOK, LevelsOK, Mixed, NEW v, Writes(v)
  PROVE  Mixed'
<1>1. latched' = FALSE /\ reg \in [Reg -> SUBSET Bit] /\ MotorReg \subseteq Reg
  BY Advanced DEF Reg, MotorReg, PlainReg, PwmReg
<1>2. k \in 1 .. 11 /\ (k \in 1 .. 6 => goal \in MotorGoal)
  BY Place DEF Writes, MotorGoal
<1>3. k \in 1 .. 6 => goal' = goal /\ k' = k + 1
  BY <1>2, Advanced
<1>4. /\ \A g \in Drive : DrivesOn(Target[g])
      /\ Stands(Target["stop"])
  BY LoopCalls
<1>5. Low # High /\ {} \notin Level
  BY DEF Low, High, Level
<1>6. \A r \in Input : reg[r] \in {Low, High}
  BY DEF LevelsOK
<1> USE DEF MotorReg, Input
<1>7. CASE k = 1
  <2>1. reg' = [reg EXCEPT !["IN1"] = Low] /\ k' = 2 /\ goal' = goal
    BY <1>2, <1>3, <1>4, <1>7, OrderIs, MotorsWritten DEF MotorGoal, DrivesOn, Stands
  <2> QED
    BY <1>1, <1>5, <1>7, <2>1 DEF Mixed, Braked, SecondForth
<1>8. CASE k = 2
  <2>1. k' = 3 /\ goal' = goal
    BY <1>3, <1>8
  <2>2. CASE goal \in Drive
    <3>1. reg' = [reg EXCEPT !["IN2"] = High]
      BY <1>4, <1>8, <2>2, OrderIs, MotorsWritten DEF DrivesOn
    <3> QED
      BY <1>1, <1>5, <1>8, <2>1, <2>2, <3>1 DEF Mixed, Braked, SecondForth, MotorGoal
  <2>3. CASE goal = "stop"
    <3>1. reg' = [reg EXCEPT !["IN2"] = Low]
      BY <1>4, <1>8, <2>3, OrderIs, MotorsWritten DEF Stands
    <3> QED
      BY <1>1, <1>5, <1>8, <2>1, <2>3, <3>1 DEF Mixed, Braked, SecondForth, MotorGoal
  <2> QED
    BY <1>2, <1>8, <2>2, <2>3 DEF MotorGoal
<1>9. CASE k = 3
  <2>1. k' = 4 /\ goal' = goal
    BY <1>3, <1>9
  <2>2. CASE goal \in Drive
    <3>1. reg' = [reg EXCEPT !["IN3"] = High]
      BY <1>4, <1>9, <2>2, OrderIs, MotorsWritten DEF DrivesOn
    <3> QED
      BY <1>1, <1>5, <1>9, <2>1, <2>2, <3>1 DEF Mixed, Braked, SecondForth, MotorGoal
  <2>3. CASE goal = "stop"
    <3>1. reg' = [reg EXCEPT !["IN3"] = Low]
      BY <1>4, <1>9, <2>3, OrderIs, MotorsWritten DEF Stands
    <3>2. goal \notin Drive
      BY <2>3 DEF Drive
    <3> QED
      BY <1>1, <1>5, <1>9, <2>1, <2>3, <3>1, <3>2
         DEF Mixed, Braked, SecondForth, MotorGoal
  <2> QED
    BY <1>2, <1>9, <2>2, <2>3 DEF MotorGoal
<1>10. CASE k = 4
  <2>1. reg' = [reg EXCEPT !["IN4"] = Low] /\ k' = 5 /\ goal' = goal
    BY <1>2, <1>3, <1>4, <1>10, OrderIs, MotorsWritten DEF MotorGoal, DrivesOn, Stands
  <2> QED
    BY <1>1, <1>5, <1>10, <2>1 DEF Mixed, Braked, SecondForth, MotorGoal, Drive
<1>11. CASE k = 5
  <2>1. reg' = [reg EXCEPT !["EN1"] = v] /\ k' = 6 /\ goal' = goal
    BY <1>3, <1>11, MotorsWritten
  <2> QED
    BY <1>1, <1>5, <1>11, <2>1 DEF Mixed, Braked, SecondForth, MotorGoal
<1>12. CASE k = 6
  <2>1. reg' = [reg EXCEPT !["EN2"] = v] /\ k' = 7 /\ goal' = goal
    BY <1>3, <1>12, MotorsWritten
  <2>2. Braked => v # {}
    <3>1. Braked => goal \in Drive
      BY <1>2, <1>12 DEF Mixed, MotorGoal
    <3>2. latched /\ (latch = reg["EN2"] => v = Target[goal]["EN2"])
      BY <1>12, OrderIs, PlainOrPwm DEF Writes, Enable
    <3> QED
      BY <1>4, <1>5, <1>12, <3>1, <3>2 DEF Mixed, DrivesOn
  <2> QED
    BY <1>1, <1>5, <1>12, <2>1, <2>2 DEF Mixed, Braked, SecondForth, MotorGoal
<1>13. CASE k \in 7 .. 11
  <2>1. \A r \in MotorReg : reg'[r] = reg[r]
    BY <1>13, MotorsWritten
  <2>2. (goal' = goal /\ k' \in 7 .. 11) \/ (goal' = "none" /\ k' = 1)
    <3>1. CASE goal \in Drive
      <4>1. k \in 7 .. 8 \/ k = 9
        BY <1>13, <3>1, Place DEF Writes
      <4>2. /\ k = 9 => goal' = "none" /\ k' = 1
            /\ k \in 7 .. 8 => goal' = goal /\ k' = k + 1
        BY <3>1, Advanced
      <4> QED
        BY <4>1, <4>2
    <3>2. CASE goal = "stop"
      <4>1. k \in 7 .. 10 \/ k = 11
        BY <1>13
      <4>2. /\ k = 11 => goal' = "none" /\ k' = 1
            /\ k \in 7 .. 10 => goal' = goal /\ k' = k + 1
        BY <3>2, Advanced
      <4> QED
        BY <4>1, <4>2
    <3>3. CASE goal = "hush"
      BY <3>3, Advanced
    <3> QED
      BY <3>1, <3>2, <3>3, Place DEF Writes, MotorGoal
  <2>3. "none" \notin MotorGoal /\ "none" # "stop" /\ "none" \notin Drive
    BY DEF MotorGoal, Drive
  <2> QED
    BY <1>1, <1>13, <2>1, <2>2, <2>3 DEF Mixed, Braked, SecondForth
<1> QED
  BY <1>2, <1>7, <1>8, <1>9, <1>10, <1>11, <1>12, <1>13

\* No register is written twice in a call.
LEMMA OrderDiffers == \A i, j \in 1 .. 11 : i # j => Order[i] # Order[j]
BY DEF Order

\* The registers that are kept, as numbers.
LEMMA KeptIs == Kept \in {1 .. 6, 1 .. 9}
BY DEF Kept

\* What is written stays, and one register more is.
LEMMA WrittenWrite ==
  ASSUME TypeOK, Written, NEW v, Writes(v)
  PROVE  Written'
<1> SUFFICES ASSUME ~raced PROVE Written'
  BY DEF Written, Writes
<1>1. /\ latched' = FALSE /\ reg \in [Reg -> SUBSET Bit] /\ moving' = moving
      /\ "forward" \in moving /\ k \in 1 .. 11
  <2>1. pc = "write" /\ moving' = moving
    BY DEF Writes
  <2>2. Window
    BY <2>1 DEF Window
  <2>3. goal \in Drive => k \in 1 .. 11
    BY <2>1, Place
  <2>4. goal = "stop" \/ goal = "hush" => k \in 1 .. 11
    BY <2>1, Place DEF MotorGoal, Drive
  <2>5. k \in 1 .. 11
    BY <2>1, <2>3, <2>4, Place DEF MotorGoal
  <2> QED
    BY <2>1, <2>2, <2>5, Advanced DEF Written
<1>2. \A j \in 1 .. 11 : j # k => reg'[Order[j]] = reg[Order[j]]
  <2>1. \A j \in 1 .. 11 : Order[j] \in Reg
    BY DEF Order, Reg, PlainReg, PwmReg, LedReg
  <2> QED
    BY <1>1, <2>1, OrderDiffers DEF Writes
<1>3. k \in Kept => reg'[Order[k]] = Target[goal][Order[k]]
  <2>1. Order[k] \in Reg
    BY <1>1 DEF Order, Reg, PlainReg, PwmReg, LedReg
  <2>2. k \in Kept => v = Target[goal][Order[k]]
    BY <2>1 DEF Writes, Written, Reg
  <2> QED
    BY <1>1, <2>1, <2>2 DEF Writes
<1>4. Kept \subseteq 1 .. 9
  BY KeptIs
<1>5. CASE goal \in MotorGoal
  <2>1. \A j \in Kept : j < k + 1 => reg'[Order[j]] = Target[goal][Order[j]]
    BY <1>1, <1>2, <1>3, <1>4, <1>5 DEF Written, Holds
  <2>2. CASE pc' = "write" /\ goal' = goal /\ k' = k + 1
    BY <1>1, <1>5, <2>1, <2>2 DEF Written, Holds, MotorGoal, Drive
  <2>3. CASE goal \in Drive /\ k = 9
    <3>1. pc' = "sleep" /\ goal' = "none"
      BY <2>3, Advanced
    <3> QED
      BY <1>1, <3>1 DEF Written, Window, MotorGoal, Drive
  <2>4. CASE goal = "stop" /\ k = 11
    <3>1. pc' = "beep" /\ goal' = "none"
      BY <2>4, Advanced
    <3>2. \A j \in Kept : Holds("stop", j)'
      BY <1>4, <2>1, <2>4 DEF Holds
    <3> QED
      BY <1>1, <3>1, <3>2 DEF Written, MotorGoal, Drive
  <2> QED
    <3>1. goal \in Drive => k \in 1 .. 6 \/ k \in 7 .. 8 \/ k = 9
      BY Place DEF Writes
    <3>2. goal = "stop" => k \in 1 .. 6 \/ k \in 7 .. 10 \/ k = 11
      BY <1>1
    <3> QED
      BY <1>5, <2>2, <2>3, <2>4, <3>1, <3>2, Advanced DEF MotorGoal
<1>6. CASE goal = "hush"
  <2>1. pc' = "clear" /\ goal' = "none" /\ k = 11
    BY <1>6, Advanced, Place DEF Writes, MotorGoal, Drive
  <2>2. \A j \in Kept : Holds("stop", j)'
    BY <1>1, <1>2, <1>4, <1>6, <2>1 DEF Written, Holds
  <2> QED
    BY <1>1, <2>1, <2>2 DEF Written, MotorGoal, Drive
<1> QED
  BY <1>5, <1>6, Place DEF Writes

\* What a write does to the wheels.
LEMMA WriteTurns ==
  ASSUME DriveInv, NEW v, Writes(v)
  PROVE  /\ TurnsBackward(reg') => TurnsBackward(reg)
         /\ ~raced /\ goal \in Drive /\ TurnsForward(reg) => TurnsForward(reg')
         /\ ~raced /\ goal \in {"stop", "hush"} /\ TurnsForward(reg')
              => TurnsForward(reg)
<1>1. reg \in [Reg -> SUBSET Bit] /\ MotorReg \subseteq Reg
  BY Advanced DEF DriveInv, Reg, MotorReg, PlainReg, PwmReg
<1>2. k \in 1 .. 11 /\ (k \in 1 .. 6 => goal \in MotorGoal)
  BY Place DEF DriveInv, Writes, MotorGoal
<1>4. /\ \A g \in Drive : DrivesOn(Target[g])
      /\ Stands(Target["stop"])
  BY LoopCalls
<1>5. Low # High /\ {} \notin Level /\ "stop" \notin Drive /\ "hush" \notin MotorGoal
  BY DEF Low, High, Level, Drive, MotorGoal
<1>6. \A r \in Input : reg[r] \in {Low, High}
  BY DEF DriveInv, LevelsOK
<1>7. Mixed
  BY DEF DriveInv
<1>8. ~raced /\ goal \in MotorGoal =>
        \A j \in 1 .. 6 : j < k => reg[Order[j]] = Target[goal][Order[j]]
  BY KeptIs DEF DriveInv, Written, Holds
<1> USE DEF MotorReg, Input
<1>9. CASE k = 1
  <2>1. reg' = [reg EXCEPT !["IN1"] = Low]
    BY <1>2, <1>4, <1>9, OrderIs, MotorsWritten
       DEF DriveInv, MotorGoal, DrivesOn, Stands
  <2>2. goal = "stop" /\ Braked => SecondForth
    BY <1>5, <1>7 DEF Mixed
  <2> QED
    BY <1>1, <1>2, <1>5, <1>6, <1>9, <2>1, <2>2
       DEF TurnsForward, TurnsBackward, Braked, SecondForth, MotorGoal
<1>10. CASE k = 2
  <2>1. reg["IN1"] = High => reg["IN2"] = Low /\ reg["EN1"] # {}
    BY <1>2, <1>7, <1>10 DEF Mixed
  <2>2. CASE goal \in Drive
    <3>1. reg' = [reg EXCEPT !["IN2"] = High]
      BY <1>4, <1>10, <2>2, OrderIs, MotorsWritten DEF DriveInv, DrivesOn
    <3> QED
      BY <1>1, <1>5, <1>6, <2>1, <2>2, <3>1 DEF TurnsForward, TurnsBackward, MotorGoal
  <2>3. CASE goal = "stop"
    <3>1. reg' = [reg EXCEPT !["IN2"] = Low]
      BY <1>4, <1>10, <2>3, OrderIs, MotorsWritten DEF DriveInv, Stands
    <3> QED
      BY <1>1, <1>5, <1>6, <2>1, <2>3, <3>1 DEF TurnsForward, TurnsBackward
  <2> QED
    BY <1>2, <1>10, <2>2, <2>3 DEF MotorGoal
<1>11. CASE k = 3
  <2>1. ~(reg["IN3"] = High /\ reg["IN4"] = High)
    BY <1>7, <1>11 DEF Mixed
  <2>2. CASE goal \in Drive
    <3>1. reg' = [reg EXCEPT !["IN3"] = High]
      BY <1>4, <1>11, <2>2, OrderIs, MotorsWritten DEF DriveInv, DrivesOn
    <3> QED
      BY <1>1, <1>5, <1>6, <2>1, <2>2, <3>1 DEF TurnsForward, TurnsBackward, MotorGoal
  <2>3. CASE goal = "stop"
    <3>1. reg' = [reg EXCEPT !["IN3"] = Low]
      BY <1>4, <1>11, <2>3, OrderIs, MotorsWritten DEF DriveInv, Stands
    <3> QED
      BY <1>1, <1>5, <1>6, <2>1, <2>3, <3>1 DEF TurnsForward, TurnsBackward
  <2> QED
    BY <1>2, <1>11, <2>2, <2>3 DEF MotorGoal
<1>12. CASE k = 4
  <2>1. reg' = [reg EXCEPT !["IN4"] = Low]
    BY <1>2, <1>4, <1>12, OrderIs, MotorsWritten
       DEF DriveInv, MotorGoal, DrivesOn, Stands
  <2>2. ~raced /\ goal = "stop" => reg["IN3"] = Low
    BY <1>2, <1>4, <1>8, <1>12, OrderIs DEF Stands
  <2> QED
    BY <1>1, <1>2, <1>5, <1>6, <2>1, <2>2, <1>12
       DEF TurnsForward, TurnsBackward, MotorGoal
<1>13. CASE k \in {5, 6}
  <2> DEFINE en == IF k = 5 THEN "EN1" ELSE "EN2"
  <2>1. reg' = [reg EXCEPT ![en] = v]
    BY <1>13, MotorsWritten DEF DriveInv
  <2>2. TurnsBackward(reg') => TurnsBackward(reg)
    BY <1>1, <1>2, <1>5, <1>7, <1>13, <2>1 DEF Mixed, TurnsBackward
  <2>3. ASSUME ~raced, goal \in Drive PROVE v # {}
    <3>1. latched /\ (latch = reg[Order[k]] => v = Target[goal][Order[k]])
          /\ Order[k] \in Enable
      BY <1>13, OrderIs, PlainOrPwm DEF Writes, Enable
    <3>2. latch = reg[Order[k]]
      BY <1>13, <2>3, <3>1, KeptIs DEF DriveInv, Written
    <3> QED
      BY <1>4, <1>5, <1>13, <2>3, <3>1, <3>2, OrderIs DEF DrivesOn
  <2>4. ASSUME ~raced, goal = "stop" PROVE reg["IN2"] = Low /\ reg["IN3"] = Low
    BY <1>4, <1>8, <1>13, <2>4, OrderIs DEF Stands, MotorGoal
  <2> QED
    BY <1>1, <1>2, <1>5, <1>13, <2>1, <2>2, <2>3, <2>4 DEF TurnsForward, MotorGoal
<1>14. CASE k \in 7 .. 11
  <2>1. \A r \in MotorReg : reg'[r] = reg[r]
    BY <1>14, MotorsWritten DEF DriveInv
  <2> QED
    BY <2>1 DEF TurnsForward, TurnsBackward
<1> QED
  BY <1>2, <1>9, <1>10, <1>11, <1>12, <1>13, <1>14

\* A write is a step of the plan, or, the last one of a drive, its end.
LEMMA WriteRefines ==
  ASSUME DriveInv, NEW v, Writes(v)
  PROVE  Drives!Work \/ Drives!Finish
<1>1. TypeOK /\ pc = "write" /\ raced' = raced /\ moving' = moving /\ Deciding # "none"
      /\ Deciding = (IF goal \in {"stop", "hush"} THEN "halt" ELSE "go")
  BY DEF DriveInv, Writes, Deciding, Window
<1>2. /\ TurnsBackward(reg') => TurnsBackward(reg)
      /\ TurnsForward(reg') \in BOOLEAN /\ TurnsBackward(reg') \in BOOLEAN
  BY WriteTurns DEF TurnsForward, TurnsBackward
<1>3. CASE Deciding' = Deciding
  <2>1. ~raced => IF Deciding = "go" THEN TurnsForward(reg) => TurnsForward(reg')
                  ELSE TurnsForward(reg') => TurnsForward(reg)
    BY <1>1, WriteTurns, Place DEF MotorGoal
  <2> QED
    BY <1>1, <1>2, <1>3, <2>1 DEF Drives!Work, Drives!Set
<1>4. CASE goal \in Drive /\ k = 9
  <2>1. pc' = "sleep" /\ Deciding' = "none" /\ Deciding = "go"
    BY <1>1, <1>4, Advanced DEF Deciding, Window, Drive
  <2>2. ASSUME ~raced PROVE TurnsForward(reg') /\ ~TurnsBackward(reg')
    <3>1. \A r \in MotorReg : reg'[r] = reg[r]
      BY <1>1, <1>4, MotorsWritten
    <3>2. \A j \in 1 .. 6 : reg[Order[j]] = Target[goal][Order[j]]
      BY <1>1, <1>4, <2>2, KeptIs DEF DriveInv, Written, Holds, MotorGoal
    <3>3. DrivesOn(Target[goal])
      BY <1>4, LoopCalls
    <3>4. DrivesOn(reg)
      BY <3>2, <3>3, OrderIs DEF DrivesOn
    <3> QED
      BY <3>1, <3>4 DEF DrivesOn, TurnsForward, TurnsBackward, MotorReg, Low, High, Level
  <2> QED
    BY <1>1, <1>2, <2>1, <2>2 DEF Drives!Finish, Drives!Set
<1>5. ~(goal \in Drive /\ k = 9) => Deciding' = Deciding
  <2>1. CASE goal \in Drive /\ k # 9
    <3>1. k \in 1 .. 6 \/ k \in 7 .. 8
      BY <1>1, <2>1, Place
    <3>2. pc' = "write" /\ goal' = goal
      BY <1>1, <2>1, <3>1, Advanced DEF MotorGoal
    <3> QED
      BY <1>1, <3>2 DEF Deciding, Window
  <2>2. CASE goal = "stop" /\ k # 11
    <3>1. k \in 1 .. 6 \/ k \in 7 .. 10
      BY <1>1, <2>2, Place
    <3>2. pc' = "write" /\ goal' = goal
      BY <1>1, <2>2, <3>1, Advanced DEF MotorGoal
    <3> QED
      BY <1>1, <3>2 DEF Deciding, Window
  <2>3. CASE goal = "hush" \/ (goal = "stop" /\ k = 11)
    <3>1. pc' \in {"beep", "clear"}
      BY <1>1, <2>3, Advanced
    <3> QED
      BY <1>1, <2>3, <3>1 DEF Deciding, Window
  <2> QED
    BY <1>1, <2>1, <2>2, <2>3, Place DEF MotorGoal
<1> QED
  BY <1>3, <1>4, <1>5

-----------------------------------------------------------------------------
(***************************************************************************)
(* The steps of the loop that write no register.                           *)
(***************************************************************************)
\* Between two calls, the levels and the bridges stay as they are.
LEMMA BetweenCalls ==
  ASSUME DriveInv, goal = "none", reg' = reg, latched' = FALSE,
         goal' \in MotorGoal => k' = 1
  PROVE  LevelsOK' /\ Mixed'
<1>1. "none" \notin MotorGoal /\ "none" \notin Drive /\ Drive \subseteq MotorGoal
  BY DEF MotorGoal, Drive
<1>2. LevelsOK /\ Mixed
  BY DEF DriveInv
<1>3. LevelsOK'
  BY <1>2 DEF LevelsOK, DutyInRange
<1>4. ~(reg["IN3"] = High /\ reg["IN4"] = High) /\ (Braked => SecondForth)
  BY <1>1, <1>2 DEF Mixed
<1>5. goal' = "stop" => goal' \in MotorGoal
  BY DEF MotorGoal
<1>6. goal' \in MotorGoal => k' # 2 /\ k' \notin 3 .. 5 /\ k' \notin 5 .. 6
  OBVIOUS
<1>7. (Braked' <=> Braked) /\ (SecondForth' <=> SecondForth)
  BY DEF Braked, SecondForth
<1> QED
  BY <1>3, <1>4, <1>5, <1>6, <1>7 DEF Mixed

\* The reading of a level that is to be flipped.
LEMMA FetchKeeps ==
  ASSUME DriveInv, Fetch
  PROVE  LevelsOK' /\ Written' /\ Mixed'
<1>1. /\ reg' = reg /\ moving' = moving /\ raced' = raced /\ pc' = pc
      /\ goal' = goal /\ k' = k /\ latch' = reg[Order[k]]
  BY DEF Fetch
<1>2. LevelsOK /\ Written /\ Mixed
  BY DEF DriveInv
<1>3. LevelsOK'
  BY <1>1, <1>2 DEF LevelsOK, DutyInRange, Enable
<1>4. Written'
  BY <1>1, <1>2 DEF Written, Window, Holds
<1>5. Mixed'
  <2>1. (Braked' <=> Braked) /\ (SecondForth' <=> SecondForth)
    BY <1>1 DEF Braked, SecondForth
  <2>2. k = 6 => latch' = reg["EN2"]
    BY <1>1, OrderIs
  <2> QED
    BY <1>1, <1>2, <2>1, <2>2 DEF Mixed
<1> QED
  BY <1>3, <1>4, <1>5

\* A halt that nobody disturbed leaves the motors standing.
LEMMA Halted ==
  ASSUME \A j \in Kept : Holds("stop", j)
  PROVE  ~TurnsForward(reg) /\ ~TurnsBackward(reg)
<1>1. \A j \in 1 .. 6 : reg[Order[j]] = Target["stop"][Order[j]]
  BY KeptIs DEF Holds
<1>2. Stands(reg)
  BY <1>1, LoopCalls, OrderIs DEF Stands
<1> QED
  BY <1>2 DEF Stands, TurnsForward, TurnsBackward, Low, High

\* What the loop is carrying out is "none", "go" or "halt".
LEMMA DecidingType == Deciding \in {"none", "go", "halt"}
BY DEF Deciding

\* No step of the loop breaks the invariant, and each is one of the plan or
\* changes nothing of it.
LEMMA DriveMain ==
  ASSUME DriveInv, MainStep
  PROVE  DriveInv' /\ [Drives!Next]_(Drives!vars)
<1>1. TypeOK /\ TypeOK' /\ LevelsOK /\ Written /\ Mixed
  BY TypeMain DEF DriveInv
<1>2. CASE Store \/ Flip
  <2>1. PICK v : Writes(v)
    BY <1>1, <1>2, Write
  <2>2. LevelsOK' /\ Written' /\ Mixed'
    BY <1>1, <2>1, LevelsWrite, WrittenWrite, MixedWrite
  <2>3. Drives!Work \/ Drives!Finish
    BY <2>1, WriteRefines
  <2> QED
    BY <1>1, <2>2, <2>3 DEF DriveInv, Drives!Next, Drives!Loop
<1>3. CASE Fetch
  <2>1. Deciding' = Deciding /\ reg' = reg /\ moving' = moving /\ raced' = raced
    BY <1>3 DEF Fetch, Deciding, Window
  <2> QED
    BY <1>1, <1>3, <2>1, FetchKeeps DEF DriveInv, Drives!vars
<1>4. CASE Measure \/ Wake
  <2>1. /\ pc \notin {"write"} /\ pc' \in {"check", "ping"} /\ reg' = reg
        /\ moving' = moving /\ raced' = raced /\ goal' = goal /\ latched' = latched
        /\ pc \in {"ping", "sleep"}
    BY <1>4 DEF Measure, Wake, Goto
  <2>2. goal = "none" /\ latched = FALSE
    BY <1>1, <2>1 DEF TypeOK
  <2>3. Deciding = "none" /\ Deciding' = "none" /\ ~Window'
    BY <2>1 DEF Deciding, Window
  <2>4. LevelsOK' /\ Mixed'
    BY <2>1, <2>2, BetweenCalls DEF MotorGoal, Drive
  <2>5. Written'
    BY <2>1, <2>2, <2>3 DEF Written, MotorGoal, Drive
  <2> QED
    BY <1>1, <2>1, <2>3, <2>4, <2>5 DEF DriveInv, Drives!vars
<1>5. CASE Check /\ "forward" \notin moving
  <2>1. /\ pc = "check" /\ pc' = "sleep" /\ reg' = reg
        /\ moving' = moving /\ raced' = raced /\ goal' = goal /\ latched' = latched
    BY <1>5 DEF Check, Goto
  <2>2. goal = "none" /\ latched = FALSE
    BY <1>1, <2>1 DEF TypeOK
  <2>3. Deciding = "none" /\ Deciding' = "none" /\ ~Window'
    BY <2>1 DEF Deciding, Window
  <2>4. LevelsOK' /\ Mixed'
    BY <2>1, <2>2, BetweenCalls DEF MotorGoal, Drive
  <2>5. Written'
    BY <2>1, <2>2, <2>3 DEF Written, MotorGoal, Drive
  <2> QED
    BY <1>1, <2>1, <2>3, <2>4, <2>5 DEF DriveInv, Drives!vars
<1>6. CASE Check /\ "forward" \in moving
  <2>1. /\ pc = "check" /\ reg' = reg /\ moving' = moving /\ raced' = FALSE
        /\ latched' = latched /\ (Begin("stop") \/ Goto("left"))
    BY <1>6 DEF Check, Goto, Begin
  <2>2. goal = "none" /\ latched = FALSE
    BY <1>1, <2>1 DEF TypeOK
  <2>3. \/ pc' = "write" /\ goal' = "stop" /\ k' = 1
        \/ pc' = "left" /\ goal' = "none"
    BY <2>1, <2>2 DEF Begin, Goto, FirstWrite
  <2>4. Deciding = "none" /\ Deciding' \in {"go", "halt"}
    BY <2>1, <2>3 DEF Deciding, Window
  <2>5. LevelsOK' /\ Mixed'
    BY <2>1, <2>2, <2>3, BetweenCalls DEF MotorGoal, Drive
  <2>6. Written'
    <3>1. \A j \in Kept : ~(j < 1)
      BY KeptIs
    <3> QED
      BY <1>6, <2>1, <2>2, <2>3, <3>1 DEF Written, MotorGoal, Drive
  <2>7. Drives!Plan
    BY <1>6, <2>1, <2>4 DEF Drives!Plan
  <2> QED
    BY <1>1, <2>5, <2>6, <2>7 DEF DriveInv, Drives!Next, Drives!Loop
<1>7. CASE CheckLeft \/ CheckRight
  <2>1. /\ pc \in {"left", "right"} /\ reg' = reg /\ moving' = moving
        /\ raced' = raced /\ latched' = latched
        /\ (Goto("right") \/ \E g \in Drive : Begin(g))
    BY <1>7 DEF CheckLeft, CheckRight, Goto, Begin, Drive
  <2>2. goal = "none" /\ latched = FALSE
    BY <1>1, <2>1 DEF TypeOK
  <2>3. \/ pc' = "write" /\ goal' \in Drive /\ k' = 1
        \/ pc' = "right" /\ goal' = "none"
    BY <2>1, <2>2 DEF Begin, Goto, FirstWrite, Drive
  <2>4. Deciding = "go" /\ Deciding' = "go" /\ Window
    BY <2>1, <2>2, <2>3 DEF Deciding, Window, Drive
  <2>5. LevelsOK' /\ Mixed'
    BY <2>1, <2>2, <2>3, BetweenCalls DEF MotorGoal, Drive
  <2>6. Written'
    <3>1. \A j \in Kept : ~(j < 1)
      BY KeptIs
    <3>2. ~raced => "forward" \in moving
      BY <1>1, <2>4 DEF Written
    <3> QED
      BY <2>1, <2>2, <2>3, <3>1, <3>2 DEF Written, MotorGoal, Drive
  <2> QED
    BY <1>1, <2>1, <2>4, <2>5, <2>6 DEF DriveInv, Drives!vars
<1>8. CASE BeepDone
  <2>1. /\ pc = "beep" /\ reg' = reg /\ moving' = moving
        /\ raced' = raced /\ latched' = latched
        /\ pc' = "write" /\ goal' = "hush" /\ k' = 11
    BY <1>8 DEF BeepDone, Begin, FirstWrite
  <2>2. goal = "none" /\ latched = FALSE
    BY <1>1, <2>1 DEF TypeOK
  <2>3. Deciding = "halt" /\ Deciding' = "halt" /\ Window
    BY <2>1 DEF Deciding, Window
  <2>4. LevelsOK' /\ Mixed'
    BY <2>1, <2>2, BetweenCalls DEF MotorGoal, Drive
  <2>5. Written'
    BY <1>1, <2>1, <2>2, <2>3 DEF Written, Holds, MotorGoal, Drive
  <2> QED
    BY <1>1, <2>1, <2>3, <2>4, <2>5 DEF DriveInv, Drives!vars
<1>9. CASE Clear
  <2>1. /\ pc = "clear" /\ reg' = reg /\ moving' = moving \ {"forward"}
        /\ raced' = raced /\ latched' = latched
        /\ pc' = "sleep" /\ goal' = goal
    BY <1>9 DEF Clear, Goto
  <2>2. goal = "none" /\ latched = FALSE
    BY <1>1, <2>1 DEF TypeOK
  <2>3. Deciding = "halt" /\ Deciding' = "none" /\ ~Window'
    BY <2>1 DEF Deciding, Window
  <2>4. LevelsOK' /\ Mixed'
    BY <2>1, <2>2, BetweenCalls DEF MotorGoal, Drive
  <2>5. Written'
    BY <2>1, <2>2, <2>3 DEF Written, MotorGoal, Drive
  <2>6. ~raced => ~TurnsForward(reg) /\ ~TurnsBackward(reg)
    BY <1>1, <2>1, Halted DEF Written
  <2>7. Drives!Finish
    BY <2>1, <2>3, <2>6
       DEF Drives!Finish, Drives!Set, TurnsForward, TurnsBackward
  <2> QED
    BY <1>1, <2>4, <2>5, <2>7 DEF DriveInv, Drives!Next, Drives!Loop
<1> QED
  BY <1>2, <1>3, <1>4, <1>5, <1>6, <1>7, <1>8, <1>9 DEF MainStep

-----------------------------------------------------------------------------
(***************************************************************************)
(* The handler and the rest.                                               *)
(***************************************************************************)
\* The handler's command, made whole, leaves nothing mixed.
LEMMA CommandKeeps ==
  ASSUME DriveInv, TypeOK', Raced, UNCHANGED mainVars,
         DrivesOn(reg') \/ Reverses(reg') \/ Stands(reg')
  PROVE  DriveInv' /\ (raced' <=> Deciding # "none") /\ raced' \in BOOLEAN
         /\ Deciding' = Deciding
<1>1. /\ pc' = pc /\ goal' = goal /\ k' = k /\ latched' = latched
      /\ latch' = latch /\ raced' \in BOOLEAN /\ (raced' <=> Window)
  BY DEF mainVars, Raced
<1>2. (Window' <=> Window) /\ (Deciding # "none" <=> Window) /\ Deciding' = Deciding
  BY <1>1 DEF Window, Deciding
<1>3. LevelsOK /\ TypeOK
  BY DEF DriveInv
<1>4. LevelsOK'
  <2>1. DutyInRange'
    BY DEF DrivesOn, Reverses, Stands, DutyInRange, Level
  <2>2. \A r \in Input : reg'[r] \in {Low, High}
    BY DEF DrivesOn, Reverses, Stands, Input
  <2> QED
    BY <1>1, <1>3, <2>1, <2>2 DEF LevelsOK
<1>5. Written'
  <2>1. ~raced' => goal' = "none" /\ ~latched' /\ pc' \notin {"beep", "clear"} /\ ~Window'
    BY <1>1, <1>2, <1>3 DEF TypeOK, Window
  <2> QED
    BY <2>1 DEF Written, MotorGoal, Drive
<1>6. Mixed'
  BY DEF Mixed, DrivesOn, Reverses, Stands, Braked, Level, Low, High
<1> QED
  BY <1>1, <1>2, <1>4, <1>5, <1>6 DEF DriveInv

\* What a whole command makes of the wheels.
LEMMA WholeTurns ==
  ASSUME NEW f
  PROVE  /\ DrivesOn(f) => TurnsForward(f) /\ ~TurnsBackward(f)
         /\ Reverses(f) => ~TurnsForward(f) /\ TurnsBackward(f)
         /\ Stands(f)   => ~TurnsForward(f) /\ ~TurnsBackward(f)
BY DEF DrivesOn, Reverses, Stands, TurnsForward, TurnsBackward, Low, High, Level

\* A step that leaves the loop where it is, the registers the invariant speaks
\* of as they are and the loop armed if it was.
LEMMA OtherKeeps ==
  ASSUME DriveInv, TypeOK', UNCHANGED mainVars, raced' = raced,
         "forward" \in moving => "forward" \in moving',
         \A j \in Kept : reg'[Order[j]] = reg[Order[j]]
  PROVE  /\ DriveInv' /\ Deciding' = Deciding
         /\ TurnsForward(reg') = TurnsForward(reg)
         /\ TurnsBackward(reg') = TurnsBackward(reg)
<1>1. /\ pc' = pc /\ goal' = goal /\ k' = k /\ latched' = latched
      /\ latch' = latch
  BY DEF mainVars
<1>2. \A j \in 1 .. 6 : reg'[Order[j]] = reg[Order[j]]
  BY KeptIs
<1>3. \A r \in Input \cup Enable : reg'[r] = reg[r]
  BY <1>2, OrderIs DEF Input, Enable
<1>4. LevelsOK /\ Written /\ Mixed
  BY DEF DriveInv
<1>5. LevelsOK'
  BY <1>1, <1>3, <1>4 DEF LevelsOK, DutyInRange, Enable
<1>6. Written'
  <2>1. (Window' <=> Window) /\ \A g : \A j \in Kept : Holds(g, j)' <=> Holds(g, j)
    BY <1>1 DEF Window, Holds
  <2>2. k \in Kept => reg'[Order[k]] = reg[Order[k]]
    OBVIOUS
  <2> QED
    BY <1>1, <1>4, <2>1, <2>2 DEF Written
<1>7. Mixed'
  <2>1. /\ reg'["IN1"] = reg["IN1"] /\ reg'["IN2"] = reg["IN2"]
        /\ reg'["IN3"] = reg["IN3"] /\ reg'["IN4"] = reg["IN4"]
        /\ reg'["EN1"] = reg["EN1"] /\ reg'["EN2"] = reg["EN2"]
    BY <1>3 DEF Input, Enable
  <2>2. (Braked' <=> Braked) /\ (SecondForth' <=> SecondForth)
    BY <2>1 DEF Braked, SecondForth
  <2> QED
    BY <1>1, <1>4, <2>1, <2>2 DEF Mixed
<1>8. Deciding' = Deciding
  BY <1>1 DEF Deciding, Window
<1> QED
  BY <1>3, <1>5, <1>6, <1>7, <1>8
     DEF DriveInv, TurnsForward, TurnsBackward, Input, Enable

\* No step of the handler breaks the invariant, and a motor parameter is the
\* command it names, or arms the loop, or nothing at all.
LEMMA DriveHandler ==
  ASSUME DriveInv, HandlerStep
  PROVE  DriveInv' /\ [Drives!Next]_(Drives!vars)
<1>1. TypeOK' /\ UNCHANGED mainVars
  BY TypeHandler DEF DriveInv, HandlerStep, Process, BeepEnd
<1>2. CASE Forward
  <2>1. Raced /\ "forward" \in moving' /\ DrivesOn(reg')
    BY <1>2, HandlerCalls DEF Forward
  <2>2. DriveInv' /\ Drives!Obey("forward")
    BY <1>1, <2>1, CommandKeeps, WholeTurns DEF Drives!Obey, Drives!Moves
  <2> QED
    BY <2>2 DEF Drives!Next, Drives!Command
<1>3. CASE Refuse
  <2>1. Raced /\ "forward" \notin moving' /\ Stands(reg')
    BY <1>3, HandlerCalls DEF Refuse
  <2>2. DriveInv' /\ Drives!Obey("forward")
    BY <1>1, <2>1, CommandKeeps, WholeTurns DEF Drives!Obey, Drives!Moves
  <2> QED
    BY <2>2 DEF Drives!Next, Drives!Command
<1>4. CASE Left \/ Right
  <2>1. Raced /\ "forward" \in moving' /\ DrivesOn(reg')
    BY <1>4, HandlerCalls DEF Left, Right
  <2>2. DriveInv' /\ Drives!Obey("left")
    BY <1>1, <2>1, CommandKeeps, WholeTurns DEF Drives!Obey, Drives!Moves
  <2> QED
    BY <2>2 DEF Drives!Next, Drives!Command
<1>5. CASE Backward
  <2>1. Raced /\ "forward" \notin moving' /\ Reverses(reg')
    BY <1>5, HandlerCalls DEF Backward
  <2>2. DriveInv' /\ Drives!Obey("backward")
    BY <1>1, <2>1, CommandKeeps, WholeTurns DEF Drives!Obey, Drives!Moves
  <2> QED
    BY <2>2 DEF Drives!Next, Drives!Command
<1>6. CASE Stop
  <2>1. Raced /\ "forward" \notin moving' /\ Stands(reg')
    BY <1>6, HandlerCalls DEF Stop
  <2>2. DriveInv' /\ Drives!Obey("stop")
    BY <1>1, <2>1, CommandKeeps, WholeTurns DEF Drives!Obey, Drives!Moves
  <2> QED
    BY <2>2 DEF Drives!Next, Drives!Command
<1>7. CASE OtherMotor
  <2>1. raced' = raced /\ reg' = reg /\ "forward" \in moving'
    BY <1>7 DEF OtherMotor
  <2>2. DriveInv' /\ Deciding' = Deciding
    BY <1>1, <2>1, OtherKeeps
  <2>3. Drives!Arm
    BY <2>1, <2>2 DEF Drives!Arm
  <2> QED
    BY <2>2, <2>3 DEF Drives!Next
<1>8. CASE Buzzer \/ BeepEnd
  <2>1. /\ raced' = raced /\ moving' = moving
        /\ reg' \in {Apply(reg, buzzer_on), Apply(reg, buzzer_off)}
    BY <1>8 DEF Buzzer, BeepEnd
  <2>2. \A r \in Reg \ {"BUZ"} : reg'[r] = reg[r]
    BY <2>1 DEF Apply, buzzer_on, buzzer_off
  <2>3. \A j \in 1 .. 9 : Order[j] \in Reg \ {"BUZ"}
    BY DEF Order, Reg, PlainReg, PwmReg, LedReg
  <2>4. \A j \in Kept : reg'[Order[j]] = reg[Order[j]]
    BY <2>2, <2>3, KeptIs
  <2> QED
    BY <1>1, <2>1, <2>4, OtherKeeps DEF Drives!vars
<1>9. CASE Rgbled
  <2>1. PICK c \in Commands \cap DOMAIN Color : reg' = Apply(reg, Color[c])
    BY <1>9 DEF Rgbled
  <2>2. Color[c] \in [LedReg -> SUBSET Bit]
    BY ColorType DEF Color
  <2>3. \A r \in MotorReg : reg'[r] = reg[r]
    BY <2>1, <2>2, HandlerLeavesMotors DEF MotorReg, LedReg
  <2>4. Kept = 1 .. 6
    BY DEF Kept
  <2>5. \A j \in 1 .. 6 : Order[j] \in MotorReg
    BY DEF Order, MotorReg
  <2>6. \A j \in Kept : reg'[Order[j]] = reg[Order[j]]
    BY <2>3, <2>4, <2>5
  <2>7. raced' = raced /\ moving' = moving
    BY <1>9 DEF Rgbled
  <2> QED
    BY <1>1, <2>6, <2>7, OtherKeeps DEF Drives!vars
<1>10. CASE Led \/ Other
  <2>1. reg' = reg /\ raced' = raced /\ moving' = moving
    BY <1>10 DEF Led, Other
  <2> QED
    BY <1>1, <2>1, OtherKeeps DEF Drives!vars
<1> QED
  BY <1>2, <1>3, <1>4, <1>5, <1>6, <1>7, <1>8, <1>9, <1>10 DEF HandlerStep, Process

\* No step, of whomever, breaks the invariant, and each is one of Drive's.
LEMMA DriveStep ==
  ASSUME DriveInv, [Next]_vars
  PROVE  DriveInv' /\ [Drives!Next]_(Drives!vars)
<1>1. TypeOK'
  BY TypeStep DEF DriveInv
<1>2. CASE MainStep
  BY <1>2, DriveMain
<1>3. CASE HandlerStep
  BY <1>3, DriveHandler
<1>4. CASE (\E n \in 0 .. MaxParams : Request(n)) \/ Move \/ UNCHANGED vars
  <2>1. UNCHANGED mainVars /\ reg' = reg /\ raced' = raced /\ moving' = moving
    BY <1>4 DEF Request, Move, vars
  <2> QED
    BY <1>1, <2>1, OtherKeeps DEF Drives!vars
<1> QED
  BY <1>2, <1>3, <1>4 DEF Next

\* The program starts with the motors at rest.
LEMMA DriveStart == Init => DriveInv /\ Drives!Init
<1> SUFFICES ASSUME Init PROVE DriveInv /\ Drives!Init
  OBVIOUS
<1>1. \A r \in MotorReg : reg[r] = Low
  BY DEF Init, InitialReg, ++, motor_init
<1>2. /\ reg["IN1"] = Low /\ reg["IN2"] = Low /\ reg["IN3"] = Low
      /\ reg["IN4"] = Low /\ reg["EN1"] = Low /\ reg["EN2"] = Low
  BY <1>1 DEF MotorReg
<1>3. /\ pc = "ping" /\ goal = "none" /\ latched = FALSE /\ moving = {}
      /\ raced = FALSE
  BY DEF Init
<1>4. Deciding = "none" /\ ~Window
  BY <1>3 DEF Deciding, Window
<1>5. ~TurnsForward(reg) /\ ~TurnsBackward(reg)
  BY <1>2 DEF TurnsForward, TurnsBackward, Low, High
<1>6. LevelsOK
  BY <1>2, <1>3 DEF LevelsOK, DutyInRange, Input, Low
<1>7. Written
  BY <1>3, <1>4 DEF Written, MotorGoal, Drive
<1>8. Mixed
  BY <1>2, <1>3 DEF Mixed, Braked, MotorGoal, Drive, Low, High
<1> QED
  BY <1>3, <1>4, <1>5, <1>6, <1>7, <1>8, TypeInit DEF DriveInv, Drives!Init

-----------------------------------------------------------------------------
(***************************************************************************)
(* What the car promises of its wheels.                                    *)
(***************************************************************************)
\* The firmware implements Drive: a command is obeyed at once, the loop carries
\* its plans out register by register, and only a command that comes into a
\* plan mixes with it.
THEOREM Refinement == Spec => DriveOK
<1>1. Init => DriveInv /\ Drives!Init
  BY DriveStart
<1>2. DriveInv /\ [Next]_vars => DriveInv' /\ [Drives!Next]_(Drives!vars)
  BY DriveStep
<1> QED
  BY <1>1, <1>2, PTL DEF Spec, DriveOK, Drives!Spec

\* The duty cycle of a motor never exceeds 255, torn updates included.
THEOREM DutyBounded == Spec => []DutyInRange
<1>1. DriveInv => DutyInRange
  BY DEF DriveInv, LevelsOK
<1>2. Init => DriveInv
  BY DriveStart
<1>3. DriveInv /\ [Next]_vars => DriveInv'
  BY DriveStep
<1> QED
  BY <1>1, <1>2, <1>3, PTL DEF Spec

\* The loop never sets a wheel turning backward.
THEOREM NeverReverses == Spec => MainNeverReverses
<1>1. Init => DriveInv
  BY DriveStart
<1>2. DriveInv /\ [Next]_vars => DriveInv'
  BY DriveStep
<1>3. ASSUME DriveInv, MainStep, TurnsBackward(reg') PROVE TurnsBackward(reg)
  <2>1. CASE Store \/ Flip
    <3>1. PICK v : Writes(v)
      BY <1>3, <2>1, Write DEF DriveInv
    <3> QED
      BY <1>3, <3>1, WriteTurns
  <2>2. CASE reg' = reg
    BY <1>3, <2>2
  <2>3. Store \/ Flip \/ reg' = reg
    BY <1>3 DEF MainStep, Measure, Check, CheckLeft, CheckRight, Fetch, BeepDone,
       Clear, Wake
  <2> QED
    BY <2>1, <2>2, <2>3
<1>4. DriveInv /\ [Next]_vars
        => [MainStep /\ TurnsBackward(reg') => TurnsBackward(reg)]_vars
  BY <1>3
<1> QED
  BY <1>1, <1>2, <1>4, PTL DEF Spec, MainNeverReverses

-----------------------------------------------------------------------------
(***************************************************************************)
(* Whole calls, under a true lamp.                                         *)
(***************************************************************************)
\* The loop ends what it decided with every register of one call in place.
LEMMA WindowEnds ==
  ASSUME DriveInv, MainStep, ~raced', Window, ~Window'
  PROVE  \/ /\ goal \in Drive /\ ~raced /\ moving' = moving
            /\ \A j \in Kept : reg'[Order[j]] = Target[goal][Order[j]]
         \/ /\ moving' = moving \ {"forward"}
            /\ \A j \in Kept : reg'[Order[j]] = Target["stop"][Order[j]]
<1>1. TypeOK /\ LevelsOK /\ Written
  BY DEF DriveInv
<1>2. CASE Store \/ Flip
  <2>1. PICK v : Writes(v)
    BY <1>1, <1>2, Write
  <2>2. /\ pc = "write" /\ ~raced /\ pc' \notin {"write", "beep", "clear"}
        /\ moving' = moving
    BY <2>1 DEF Writes, Window
  <2>3. goal \in Drive /\ k = 9
    <3>1. CASE goal \in Drive /\ k # 9
      <4>1. k \in 1 .. 6 \/ k \in 7 .. 8
        BY <1>1, <2>2, <3>1, Place
      <4> QED
        BY <1>1, <2>1, <2>2, <3>1, <4>1, Advanced DEF MotorGoal
    <3>2. CASE goal = "stop"
      <4>1. k \in 1 .. 6 \/ k \in 7 .. 10 \/ k = 11
        BY <1>1, <2>2, <3>2, Place
      <4> QED
        BY <1>1, <2>1, <2>2, <3>2, <4>1, Advanced DEF MotorGoal
    <3>3. CASE goal = "hush"
      BY <1>1, <2>1, <2>2, <3>3, Advanced
    <3> QED
      BY <1>1, <2>2, <3>1, <3>2, <3>3, Place DEF MotorGoal
  <2>4. \A j \in Kept : reg'[Order[j]] = Target[goal][Order[j]]
    <3>1. \A j \in Kept : j < 9 => reg[Order[j]] = Target[goal][Order[j]]
      BY <1>1, <2>2, <2>3 DEF Written, Holds, MotorGoal
    <3>2. reg' = [reg EXCEPT ![Order[9]] = v] /\ Order[9] \in PwmReg /\ latched
          /\ (latch = reg[Order[9]] => v = Target[goal][Order[9]])
      BY <2>1, <2>3 DEF Writes, Order, PwmReg, LedReg
    <3>3. 9 \in Kept => v = Target[goal][Order[9]]
      BY <1>1, <2>2, <2>3, <3>2 DEF Written
    <3>4. \A j \in 1 .. 8 : Order[j] # Order[9]
      BY OrderDiffers
    <3>5. Order[9] \in Reg /\ reg \in [Reg -> SUBSET Bit]
      BY <3>2, <1>1 DEF Reg, TypeOK
    <3>6. \A j \in Kept : j = 9 \/ (j \in 1 .. 8 /\ j < 9)
      BY KeptIs
    <3> QED
      BY <3>1, <3>2, <3>3, <3>4, <3>5, <3>6
  <2> QED
    BY <2>2, <2>3, <2>4
<1>3. CASE Clear
  <2>1. pc = "clear" /\ ~raced /\ reg' = reg /\ moving' = moving \ {"forward"}
    BY <1>3 DEF Clear
  <2> QED
    BY <1>1, <2>1 DEF Written, Holds
<1>4. CASE Measure \/ Check \/ Wake
  BY <1>4 DEF Measure, Check, Wake, Window
<1>5. CASE CheckLeft \/ CheckRight \/ Fetch \/ BeepDone
  BY <1>5 DEF CheckLeft, CheckRight, Fetch, BeepDone, Goto, Begin, Window
<1> QED
  BY <1>2, <1>3, <1>4, <1>5 DEF MainStep

\* Outside its window the loop touches no register.
LEMMA OutsideLoop ==
  ASSUME TypeOK, MainStep, ~Window
  PROVE  reg' = reg
BY DEF MainStep, Measure, Check, CheckLeft, CheckRight, Store, Fetch, Flip,
       BeepDone, Clear, Wake, Window, TypeOK

\* The motors' part of the registers.
LEMMA MotorsAre ==
  ASSUME NEW f, NEW m \in [MotorReg -> SUBSET Bit],
         \A j \in 1 .. 6 : f[Order[j]] = m[Order[j]]
  PROVE  [r \in MotorReg |-> f[r]] = m
<1>1. \A r \in MotorReg : \E j \in 1 .. 6 : r = Order[j]
  BY OrderIs DEF MotorReg
<1> QED
  BY <1>1

\* What the loop's calls set the motors to.
LEMMA LoopMotors ==
  /\ \A g \in Drive : \E m \in Calls : m \in [MotorReg -> SUBSET Bit]
                                       /\ \A r \in MotorReg : Target[g][r] = m[r]
  /\ \A r \in MotorReg : Target["stop"][r] = stop_car[r]
<1>1. \A r \in MotorReg : Target["forward"][r] = move_forward(Speed)[r]
  BY MotorPart, MoveType DEF Target
<1>2. \A r \in MotorReg : Target["left"][r] = move_left(Speed)[r]
  BY MotorPart, MoveType DEF Target
<1>3. \A r \in MotorReg : Target["right"][r] = move_right(Speed)[r]
  BY MotorPart, MoveType DEF Target
<1>4. \A r \in MotorReg : Target["stop"][r] = stop_car[r]
  <2>1. Target["stop"]
          = (stop_car ++ set_rgb_color(0, 0, 255)) ++ buzzer_start(25000)
    BY DEF Target
  <2>2. \A r \in MotorReg :
          /\ r \in DOMAIN (stop_car ++ set_rgb_color(0, 0, 255))
          /\ (stop_car ++ set_rgb_color(0, 0, 255))[r] = stop_car[r]
    BY MotorPart, MoveType DEF ++
  <2> QED
    BY <2>1, <2>2 DEF ++
<1> QED
  BY <1>1, <1>2, <1>3, <1>4, MoveType DEF Drive, Calls

\* A step of the handler leaves the motors as they are, or one whole call in
\* them.
LEMMA HandlerWhole ==
  ASSUME HandlerStep
  PROVE  \/ Raced /\ Motors' \in Calls
         \/ raced' = raced /\ \A r \in MotorReg : reg'[r] = reg[r]
<1>1. CASE Forward \/ Refuse \/ Left \/ Right \/ Backward \/ Stop
  <2>1. Raced
    BY <1>1 DEF Forward, Refuse, Left, Right, Backward, Stop
  <2>2. \E w \in {ForwardCall, RefuseCall, LeftCall, RightCall, BackwardCall, StopCall} :
          reg' = Apply(reg, w)
    BY <1>1 DEF Forward, Refuse, Left, Right, Backward, Stop
  <2>3. \E m \in Calls : m \in [MotorReg -> SUBSET Bit] /\ \A r \in MotorReg : reg'[r] = m[r]
    BY <2>2, HandlerCalls, MoveType DEF Calls
  <2>4. Motors' \in Calls
    BY <2>3 DEF Motors
  <2> QED
    BY <2>1, <2>4
<1>2. CASE OtherMotor \/ Led \/ Other
  BY <1>2 DEF OtherMotor, Led, Other
<1>3. CASE Buzzer \/ BeepEnd
  <2>1. raced' = raced /\ reg' \in {Apply(reg, buzzer_on), Apply(reg, buzzer_off)}
    BY <1>3 DEF Buzzer, BeepEnd
  <2>2. \A r \in MotorReg : reg'[r] = reg[r]
    BY <2>1, BuzzerType, HandlerLeavesMotors DEF MotorReg
  <2> QED
    BY <2>1, <2>2
<1>4. CASE Rgbled
  <2>1. PICK c \in DOMAIN Color : reg' = Apply(reg, Color[c])
    BY <1>4 DEF Rgbled
  <2>2. Color[c] \in [LedReg -> SUBSET Bit]
    BY ColorType DEF Color
  <2>3. \A r \in MotorReg : reg'[r] = reg[r]
    BY <2>1, <2>2, HandlerLeavesMotors DEF MotorReg, LedReg
  <2> QED
    BY <1>4, <2>3 DEF Rgbled
<1> QED
  BY <1>1, <1>2, <1>3, <1>4 DEF HandlerStep, Process

\* No step leaves a mixture of two calls outside the window.
LEMMA WholeStep == DriveInv /\ WholeCall /\ [Next]_vars => WholeCall'
<1> SUFFICES ASSUME DriveInv, WholeCall, [Next]_vars, ~raced', ~Window'
             PROVE  Motors' \in Calls
  BY DEF WholeCall
<1>1. ASSUME \A r \in MotorReg : reg'[r] = reg[r], ~raced, ~Window
      PROVE  Motors' \in Calls
  BY <1>1 DEF WholeCall, Motors
<1>2. CASE MainStep /\ Window
  <2>1. ASSUME NEW g \in Drive, \A j \in Kept : reg'[Order[j]] = Target[g][Order[j]]
        PROVE  Motors' \in Calls
    <3>1. PICK m \in Calls : m \in [MotorReg -> SUBSET Bit]
                            /\ \A r \in MotorReg : Target[g][r] = m[r]
      BY LoopMotors
    <3>2. \A j \in 1 .. 6 : Order[j] \in MotorReg /\ j \in Kept
      BY KeptIs DEF Order, MotorReg
    <3>3. \A j \in 1 .. 6 : reg'[Order[j]] = m[Order[j]]
      BY <2>1, <3>1, <3>2
    <3> QED
      BY <3>1, <3>3, MotorsAre DEF Motors
  <2>2. ASSUME \A j \in Kept : reg'[Order[j]] = Target["stop"][Order[j]]
        PROVE  Motors' \in Calls
    <3>1. \A j \in 1 .. 6 : Order[j] \in MotorReg /\ j \in Kept
      BY KeptIs DEF Order, MotorReg
    <3>2. \A j \in 1 .. 6 : reg'[Order[j]] = stop_car[Order[j]]
      BY <2>2, <3>1, LoopMotors
    <3>3. stop_car \in Calls /\ stop_car \in [MotorReg -> SUBSET Bit]
      BY MoveType DEF Calls
    <3> QED
      BY <3>2, <3>3, MotorsAre DEF Motors
  <2> QED
    BY <1>2, <2>1, <2>2, WindowEnds
<1>3. CASE MainStep /\ ~Window
  <2>1. reg' = reg
    BY <1>3, OutsideLoop DEF DriveInv
  <2>2. raced' = raced
    BY <1>3 DEF MainStep, Measure, Check, CheckLeft, CheckRight, Store, Fetch, Flip,
       BeepDone, Clear, Wake, Begin, Goto, Window
  <2> QED
    BY <1>1, <1>3, <2>1, <2>2
<1>4. CASE HandlerStep
  <2>1. Window' <=> Window
    BY <1>4 DEF HandlerStep, Process, BeepEnd, mainVars, Window
  <2> QED
    BY <1>1, <1>4, <2>1, HandlerWhole
<1>5. CASE (\E n \in 0 .. MaxParams : Request(n)) \/ Move \/ UNCHANGED vars
  <2>1. UNCHANGED <<pc, reg, raced>>
    BY <1>5 DEF Request, Move, vars, mainVars
  <2> QED
    BY <1>1, <2>1 DEF Window
<1> QED
  BY <1>2, <1>3, <1>4, <1>5 DEF Next

\* The two sides never leave a mixture of their calls in the motors, nor a torn
\* duty cycle, unless a command came into the loop's window.
THEOREM WholeCalls == Spec => []WholeCall
<1>1. Init => WholeCall
  <2> SUFFICES ASSUME Init PROVE Motors \in Calls
    BY DEF WholeCall
  <2>1. \A r \in MotorReg : reg[r] = {}
    BY DEF Init, InitialReg, ++, motor_init, Low
  <2>2. \A r \in MotorReg : stop_car[r] = {}
    BY BitsOff DEF stop_car, Bridges, Low, MotorReg
  <2>3. \A j \in 1 .. 6 : Order[j] \in MotorReg
    BY DEF Order, MotorReg
  <2>4. \A j \in 1 .. 6 : reg[Order[j]] = stop_car[Order[j]]
    BY <2>1, <2>2, <2>3
  <2> QED
    BY <2>4, MotorsAre, MoveType DEF Motors, Calls
<1>2. Init => DriveInv
  BY DriveStart
<1>3. DriveInv /\ [Next]_vars => DriveInv'
  BY DriveStep
<1> QED
  BY <1>1, <1>2, <1>3, WholeStep, PTL DEF Spec

-----------------------------------------------------------------------------
(***************************************************************************)
(* The flags.                                                              *)
(***************************************************************************)
\* Why the car moves as flagged: without a command in the window, the loop
\* goes on with the move it has found flagged.
FlagGoal ==
  IF "left" \in moving THEN "left" ELSE IF "right" \in moving THEN "right" ELSE "forward"

FlagInv ==
  /\ SteersAsFlagged
  /\ ~raced /\ pc = "right" => "left" \notin moving
  /\ ~raced /\ goal \in Drive => goal = FlagGoal

\* The loop's call for a move has the move in it.
LEMMA FlagCall ==
  /\ FlagMove \in [MotorReg -> SUBSET Bit]
  /\ \A r \in MotorReg : Target[FlagGoal][r] = FlagMove[r]
<1>1. \A r \in MotorReg : Target["forward"][r] = move_forward(Speed)[r]
  BY MotorPart, MoveType DEF Target
<1>2. \A r \in MotorReg : Target["left"][r] = move_left(Speed)[r]
  BY MotorPart, MoveType DEF Target
<1>3. \A r \in MotorReg : Target["right"][r] = move_right(Speed)[r]
  BY MotorPart, MoveType DEF Target
<1> QED
  BY <1>1, <1>2, <1>3, MoveType DEF FlagMove, FlagGoal

\* The motors are one call if every register of theirs is.
LEMMA MotorsBecome ==
  ASSUME NEW m \in [MotorReg -> SUBSET Bit], \A r \in MotorReg : reg'[r] = m[r]
  PROVE  Motors' = m
BY DEF Motors

\* A parameter of the handler, outside the loop's window, gives the motors the
\* move it flags, disarms the loop, or touches neither.
LEMMA HandlerFlags ==
  ASSUME HandlerStep, "motor=other" \notin Commands
  PROVE  \/ Raced /\ ("forward" \in moving' => Motors' = FlagMove')
         \/ UNCHANGED <<raced, moving>> /\ \A r \in MotorReg : reg'[r] = reg[r]
<1>1. CASE Forward
  <2>1. Raced /\ moving' = {"forward"} /\ reg' = Apply(reg, ForwardCall)
    BY <1>1 DEF Forward
  <2>2. FlagMove' = move_forward(Speed)
    BY <2>1 DEF FlagMove
  <2> QED
    BY <2>1, <2>2, HandlerCalls, MoveType, MotorsBecome
<1>2. CASE Left
  <2>1. Raced /\ moving' = {"forward", "left"} /\ reg' = Apply(reg, LeftCall)
    BY <1>2 DEF Left
  <2>2. FlagMove' = move_left(Speed)
    BY <2>1 DEF FlagMove
  <2> QED
    BY <2>1, <2>2, HandlerCalls, MoveType, MotorsBecome
<1>3. CASE Right
  <2>1. Raced /\ moving' = {"forward", "right"} /\ reg' = Apply(reg, RightCall)
    BY <1>3 DEF Right
  <2>2. FlagMove' = move_right(Speed)
    BY <2>1 DEF FlagMove
  <2> QED
    BY <2>1, <2>2, HandlerCalls, MoveType, MotorsBecome
<1>4. CASE Refuse \/ Backward \/ Stop
  BY <1>4 DEF Refuse, Backward, Stop
<1>5. CASE Led \/ Other \/ OtherMotor
  BY <1>5 DEF Led, Other, OtherMotor
<1>6. CASE Buzzer \/ BeepEnd
  <2>1. /\ UNCHANGED <<raced, moving>>
        /\ reg' \in {Apply(reg, buzzer_on), Apply(reg, buzzer_off)}
    BY <1>6 DEF Buzzer, BeepEnd
  <2>2. \A r \in MotorReg : reg'[r] = reg[r]
    BY <2>1, BuzzerType, HandlerLeavesMotors DEF MotorReg
  <2> QED
    BY <2>1, <2>2
<1>7. CASE Rgbled
  <2>1. PICK c \in DOMAIN Color : reg' = Apply(reg, Color[c])
    BY <1>7 DEF Rgbled
  <2>2. Color[c] \in [LedReg -> SUBSET Bit]
    BY ColorType DEF Color
  <2>3. \A r \in MotorReg : reg'[r] = reg[r]
    BY <2>1, <2>2, HandlerLeavesMotors DEF MotorReg, LedReg
  <2> QED
    BY <1>7, <2>3 DEF Rgbled
<1> QED
  BY <1>1, <1>2, <1>3, <1>4, <1>5, <1>6, <1>7 DEF HandlerStep, Process

\* No step makes an armed car move otherwise than flagged.
LEMMA FlagStep ==
  ASSUME "motor=other" \notin Commands, DriveInv, FlagInv, [Next]_vars
  PROVE  FlagInv'
<1> SUFFICES ASSUME ~raced' PROVE FlagInv'
  BY DEF FlagInv, SteersAsFlagged
<1>1. TypeOK
  BY DEF DriveInv
<1>2. ASSUME UNCHANGED <<pc, goal, raced, moving>>, \A r \in MotorReg : reg'[r] = reg[r]
      PROVE  FlagInv'
  <2>1. Motors' = Motors /\ FlagMove' = FlagMove /\ FlagGoal' = FlagGoal
    BY <1>2 DEF Motors, FlagMove, FlagGoal
  <2>2. Window' <=> Window
    BY <1>2 DEF Window
  <2> QED
    BY <1>2, <2>1, <2>2 DEF FlagInv, SteersAsFlagged
<1>3. CASE MainStep /\ Window
  <2>1. ~raced
    BY <1>3 DEF MainStep, Measure, Check, CheckLeft, CheckRight, Store, Fetch, Flip,
       BeepDone, Clear, Wake, Window
  <2>2. ASSUME ~Window' PROVE "forward" \in moving' => Motors' = FlagMove'
    <3>1. CASE /\ goal \in Drive /\ moving' = moving
               /\ \A j \in Kept : reg'[Order[j]] = Target[goal][Order[j]]
      <4>1. goal = FlagGoal /\ FlagMove' = FlagMove
        BY <2>1, <3>1 DEF FlagInv, FlagMove
      <4>2. \A j \in 1 .. 6 : Order[j] \in MotorReg /\ j \in Kept
        BY KeptIs DEF Order, MotorReg
      <4>3. \A j \in 1 .. 6 : reg'[Order[j]] = FlagMove[Order[j]]
        BY <3>1, <4>1, <4>2, FlagCall
      <4> QED
        BY <4>1, <4>3, FlagCall, MotorsAre DEF Motors
    <3>2. CASE moving' = moving \ {"forward"}
      BY <3>2
    <3> QED
      BY <1>3, <2>2, <3>1, <3>2, WindowEnds
  <2>3. pc' = "right" => "left" \notin moving'
    <3>1. CASE CheckLeft \/ CheckRight \/ BeepDone \/ Clear \/ Fetch
      BY <2>1, <3>1 DEF CheckLeft, CheckRight, BeepDone, Clear, Fetch, Begin, Goto, FlagInv
    <3>2. CASE Store \/ Flip
      <4>1. pc = "write" /\ goal \in Goal
        BY <1>1, <3>2 DEF Store, Flip, TypeOK
      <4>2. AfterWrites(goal) \in {"sleep", "beep", "clear"}
        BY <4>1 DEF Goal, Drive, AfterWrites
      <4> QED
        BY <3>2, <4>1, <4>2 DEF Store, Flip, Advance
    <3> QED
      BY <1>3, <3>1, <3>2 DEF MainStep, Measure, Check, Wake, Window
  <2>4. goal' \in Drive => goal' = FlagGoal'
    <3>1. CASE CheckLeft \/ CheckRight
      BY <1>1, <2>1, <3>1 DEF CheckLeft, CheckRight, Begin, Goto, FlagInv, FlagGoal,
         TypeOK, Drive
    <3>2. CASE BeepDone \/ Clear
      BY <1>1, <3>2 DEF BeepDone, Clear, Begin, Goto, TypeOK, Drive
    <3>3. CASE Store \/ Fetch \/ Flip
      <4>1. (goal' = goal \/ goal' = "none") /\ moving' = moving
        BY <3>3 DEF Store, Fetch, Flip, Advance
      <4> QED
        BY <2>1, <4>1 DEF FlagInv, FlagGoal, Drive
    <3> QED
      BY <1>3, <3>1, <3>2, <3>3 DEF MainStep, Measure, Check, Wake, Window
  <2> QED
    BY <2>2, <2>3, <2>4 DEF FlagInv, SteersAsFlagged
<1>4. CASE MainStep /\ ~Window
  <2>1. reg' = reg /\ moving' = moving
    BY <1>1, <1>4, OutsideLoop
       DEF MainStep, Measure, Check, CheckLeft, CheckRight, Store, Fetch, Flip,
           BeepDone, Clear, Wake, Window, TypeOK
  <2>2. pc' # "right" /\ (goal' = "none" \/ goal' = "stop")
    BY <1>1, <1>4
       DEF MainStep, Measure, Check, CheckLeft, CheckRight, Store, Fetch, Flip,
           BeepDone, Clear, Wake, Begin, Goto, Window, TypeOK
  <2>3. ~Window' => raced' = raced
    BY <1>4 DEF MainStep, Measure, Check, CheckLeft, CheckRight, Store, Fetch, Flip,
       BeepDone, Clear, Wake, Begin, Goto, Window
  <2>4. Motors' = Motors /\ FlagMove' = FlagMove
    BY <2>1 DEF Motors, FlagMove
  <2> QED
    BY <1>4, <2>1, <2>2, <2>3, <2>4 DEF FlagInv, SteersAsFlagged, Drive
<1>5. CASE HandlerStep
  <2>1. UNCHANGED mainVars
    BY <1>5 DEF HandlerStep, Process, BeepEnd
  <2>2. CASE Raced /\ ("forward" \in moving' => Motors' = FlagMove')
    <3>1. pc' = pc /\ goal' = goal /\ ~Window
      BY <2>1, <2>2 DEF mainVars, Raced
    <3>2. goal' \notin Drive /\ pc' # "right"
      BY <1>1, <3>1 DEF TypeOK, Window, Drive
    <3> QED
      BY <2>2, <3>2 DEF FlagInv, SteersAsFlagged
  <2>3. CASE UNCHANGED <<raced, moving>> /\ \A r \in MotorReg : reg'[r] = reg[r]
    BY <1>2, <2>1, <2>3 DEF mainVars
  <2> QED
    BY <1>5, <2>2, <2>3, HandlerFlags
<1>6. CASE (\E n \in 0 .. MaxParams : Request(n)) \/ Move \/ UNCHANGED vars
  <2>1. UNCHANGED <<pc, goal, reg, raced, moving>>
    BY <1>6 DEF Request, Move, vars, mainVars
  <2> QED
    BY <1>2, <2>1
<1> QED
  BY <1>3, <1>4, <1>5, <1>6 DEF Next

\* Unless a command came into the loop's window, an armed car moves as the
\* flags say, as long as no unknown value arms it.
THEOREM AsFlagged ==
  ASSUME "motor=other" \notin Commands
  PROVE  Spec => []SteersAsFlagged
<1>1. Init => FlagInv
  BY DEF Init, FlagInv, SteersAsFlagged, Drive
<1>2. Init => DriveInv
  BY DriveStart
<1>3. DriveInv /\ [Next]_vars => DriveInv'
  BY DriveStep
<1>4. DriveInv /\ FlagInv /\ [Next]_vars => FlagInv'
  BY FlagStep
<1>5. FlagInv => SteersAsFlagged
  BY DEF FlagInv
<1> QED
  BY <1>1, <1>2, <1>3, <1>4, <1>5, PTL DEF Spec

-----------------------------------------------------------------------------
(***************************************************************************)
(* What sets a standing wheel turning forward.                             *)
(***************************************************************************)
\* A halt under way finds a wheel that is set to turn forward turning: the
\* handler's commands give it a level, and the halt's own writes leave it its
\* level as long as its inputs are on.  And a drive was decided on a reading of
\* 10 cm or more.
Reasons ==
  /\ goal = "stop" /\ k \in 3 .. 5 /\ reg["IN1"] = Low /\ reg["IN2"] = High
       => reg["EN1"] # {}
  /\ goal = "stop" /\ k \in 4 .. 6 /\ reg["IN3"] = High /\ reg["IN4"] = Low
       => reg["EN2"] # {}
  /\ pc \in {"left", "right"} \/ goal \in Drive => distance >= 10

\* A write keeps the reasons, and starts a wheel only for one.
LEMMA ReasonsWrite ==
  ASSUME DriveInv, Reasons, NEW v, Writes(v)
  PROVE  Reasons' /\ (~TurnsForward(reg) /\ TurnsForward(reg') => distance >= 10)
<1>1. /\ TypeOK /\ LevelsOK /\ Mixed /\ reg \in [Reg -> SUBSET Bit]
      /\ MotorReg \subseteq Reg /\ pc = "write" /\ distance' = distance
  BY Advanced DEF DriveInv, Writes, Reg, MotorReg, PlainReg, PwmReg
<1>2. k \in 1 .. 11 /\ (k \in 1 .. 6 => goal \in MotorGoal)
  BY <1>1, Place DEF MotorGoal
<1>3. Low # High /\ "stop" \notin Drive /\ "hush" \notin Drive /\ "none" \notin Drive
  BY DEF Low, High, Drive
<1>4. \A r \in Input : reg[r] \in {Low, High}
  BY <1>1 DEF LevelsOK
<1>5. CASE goal \in Drive
  <2>1. distance >= 10
    BY <1>5 DEF Reasons
  <2>2. /\ goal' # "stop" /\ pc' \notin {"left", "right"}
    <3>1. k \in 1 .. 6 \/ k \in 7 .. 8 \/ k = 9
      BY <1>1, <1>5, Place
    <3>2. \/ pc' = "write" /\ goal' = goal
          \/ pc' = "sleep" /\ goal' = "none"
      BY <1>1, <1>5, <3>1, Advanced DEF MotorGoal
    <3> QED
      BY <1>3, <1>5, <3>2
  <2> QED
    BY <1>1, <2>1, <2>2 DEF Reasons
<1>6. CASE goal = "hush"
  <2>1. pc' = "clear" /\ goal' = "none" /\ k = 11
    BY <1>1, <1>3, <1>6, Advanced, Place DEF MotorGoal
  <2>2. \A r \in MotorReg : reg'[r] = reg[r]
    BY <1>1, <2>1, MotorsWritten
  <2> QED
    BY <1>3, <2>1, <2>2 DEF Reasons, TurnsForward, MotorReg
<1>7. CASE goal = "stop"
  <2>1. Stands(Target["stop"])
    BY LoopCalls
  <2>2. k \in 1 .. 6 => pc' = "write" /\ goal' = "stop" /\ k' = k + 1
    BY <1>1, <1>7, Advanced DEF MotorGoal
  <2>3. /\ k = 1 => reg' = [reg EXCEPT !["IN1"] = Low]
        /\ k = 2 => reg' = [reg EXCEPT !["IN2"] = Low]
        /\ k = 3 => reg' = [reg EXCEPT !["IN3"] = Low]
        /\ k = 4 => reg' = [reg EXCEPT !["IN4"] = Low]
        /\ k = 5 => reg' = [reg EXCEPT !["EN1"] = v]
        /\ k = 6 => reg' = [reg EXCEPT !["EN2"] = v]
    BY <1>1, <1>7, <2>1, OrderIs, MotorsWritten DEF Stands
  <2> USE DEF MotorReg, Input
  <2>4. CASE k = 1
    <3>1. Braked => SecondForth
      BY <1>1, <1>3, <1>7 DEF Mixed
    <3> QED
      BY <1>1, <1>3, <1>4, <2>2, <2>3, <2>4, <3>1
         DEF Reasons, TurnsForward, Braked, SecondForth
  <2>5. CASE k = 2
    BY <1>1, <1>3, <1>4, <2>2, <2>3, <2>5 DEF Reasons, TurnsForward
  <2>6. CASE k = 3
    BY <1>1, <1>3, <1>4, <1>7, <2>2, <2>3, <2>6 DEF Reasons, TurnsForward
  <2>7. CASE k = 4
    <3>1. ~(reg["IN3"] = High /\ reg["IN4"] = High)
      BY <1>1, <1>3, <1>7 DEF Mixed
    <3> QED
      BY <1>1, <1>3, <1>4, <1>7, <2>2, <2>3, <2>7, <3>1 DEF Reasons, TurnsForward
  <2>8. CASE k = 5
    BY <1>1, <1>3, <1>4, <1>7, <2>2, <2>3, <2>8 DEF Reasons, TurnsForward
  <2>9. CASE k = 6
    BY <1>1, <1>3, <1>4, <1>7, <2>2, <2>3, <2>9 DEF Reasons, TurnsForward
  <2>10. CASE k \in 7 .. 11
    <3>1. \A r \in MotorReg : reg'[r] = reg[r]
      BY <1>1, <2>10, MotorsWritten
    <3>2. \/ pc' = "beep" /\ goal' = "none"
          \/ pc' = "write" /\ goal' = "stop" /\ k' \in 8 .. 11
      <4>1. k = 11 => pc' = "beep" /\ goal' = "none"
        BY <1>1, <1>7, Advanced
      <4>2. k \in 7 .. 10 => pc' = "write" /\ goal' = goal /\ k' = k + 1
        BY <1>1, <1>7, Advanced
      <4> QED
        BY <1>7, <2>10, <4>1, <4>2
    <3> QED
      BY <1>3, <3>1, <3>2 DEF Reasons, TurnsForward
  <2> QED
    BY <1>2, <2>4, <2>5, <2>6, <2>7, <2>8, <2>9, <2>10
<1> QED
  BY <1>1, <1>5, <1>6, <1>7, Place DEF MotorGoal

\* No step breaks the reasons, and the loop starts a wheel only for one.
LEMMA ReasonsStep ==
  ASSUME DriveInv, Reasons, [Next]_vars
  PROVE  /\ Reasons'
         /\ MainStep /\ ~TurnsForward(reg) /\ TurnsForward(reg') => distance >= 10
<1>1. TypeOK
  BY DEF DriveInv
<1>2. CASE MainStep /\ (Store \/ Flip)
  <2>1. PICK v : Writes(v)
    BY <1>2, Write DEF DriveInv
  <2> QED
    BY <2>1, ReasonsWrite
<1>3. CASE MainStep /\ ~(Store \/ Flip)
  <2>1. reg' = reg
    BY <1>3 DEF MainStep, Measure, Check, CheckLeft, CheckRight, Fetch, BeepDone,
       Clear, Wake
  <2>2. CASE Measure \/ Wake \/ Clear
    <3>1. pc' \notin {"left", "right"} /\ goal' = goal /\ pc # "write"
      BY <2>2 DEF Measure, Wake, Clear, Goto
    <3>2. goal' = "none"
      BY <1>1, <3>1 DEF TypeOK
    <3> QED
      BY <2>1, <3>1, <3>2 DEF Reasons, Drive
  <2>3. CASE Check
    <3>1. distance' = distance /\ goal = "none" /\ distance \in Int
      BY <1>1, <2>3, DistanceAssumption DEF Check, TypeOK
    <3>2. \/ pc' = "sleep" /\ goal' = "none"
          \/ pc' = "write" /\ goal' = "stop" /\ k' = 1
          \/ pc' = "left" /\ goal' = "none" /\ ~(distance < 10)
      BY <2>3, <3>1 DEF Check, Begin, Goto, FirstWrite
    <3> QED
      BY <2>1, <3>1, <3>2 DEF Reasons, Drive
  <2>4. CASE CheckLeft \/ CheckRight
    <3>1. distance' = distance /\ distance >= 10
      BY <2>4 DEF CheckLeft, CheckRight, Reasons
    <3>2. goal' # "stop"
      BY <1>1, <2>4 DEF CheckLeft, CheckRight, Begin, Goto, TypeOK
    <3> QED
      BY <2>1, <3>1, <3>2 DEF Reasons
  <2>5. CASE Fetch
    BY <2>5 DEF Fetch, Reasons
  <2>6. CASE BeepDone
    BY <2>1, <2>6 DEF BeepDone, Begin, Reasons, Drive
  <2> QED
    BY <1>3, <2>1, <2>2, <2>3, <2>4, <2>5, <2>6 DEF MainStep
<1>4. ASSUME UNCHANGED mainVars, ~MainStep,
             \/ \A r \in MotorReg : reg'[r] = reg[r]
             \/ DrivesOn(reg') \/ Reverses(reg') \/ Stands(reg')
      PROVE  Reasons'
  <2>1. UNCHANGED <<pc, goal, k, distance>>
    BY <1>4 DEF mainVars
  <2> QED
    BY <1>4, <2>1 DEF Reasons, DrivesOn, Reverses, Stands, MotorReg, Low, High, Level
<1>5. CASE HandlerStep /\ ~MainStep
  <2>1. UNCHANGED mainVars
    BY <1>5 DEF HandlerStep, Process, BeepEnd
  <2>2. CASE Motors' \in Calls
    <3>1. \E m \in Calls : \A r \in MotorReg : reg'[r] = m[r]
      BY <2>2 DEF Motors
    <3>2. \A m \in Calls : DrivesOn(m) \/ Reverses(m) \/ Stands(m)
      BY Moves DEF Calls
    <3>3. DrivesOn(reg') \/ Reverses(reg') \/ Stands(reg')
      BY <3>1, <3>2, SameMotors
    <3> QED
      BY <1>4, <1>5, <2>1, <3>3
  <2> QED
    BY <1>4, <1>5, <2>1, <2>2, HandlerWhole
<1>6. CASE ((\E n \in 0 .. MaxParams : Request(n)) \/ Move \/ UNCHANGED vars) /\ ~MainStep
  <2>1. UNCHANGED mainVars /\ reg' = reg
    BY <1>6 DEF Request, Move, vars
  <2> QED
    BY <1>4, <1>6, <2>1
<1> QED
  BY <1>2, <1>3, <1>5, <1>6 DEF Next

\* The loop sets no standing wheel turning forward unless its own measurement
\* of this turn saw a free road.
THEOREM StartsOnFreeRoad == Spec => ClearReadingStarts
<1>1. Init => DriveInv /\ Reasons
  BY DriveStart DEF Init, Reasons, Drive
<1>2. DriveInv /\ Reasons /\ [Next]_vars => DriveInv' /\ Reasons'
  BY DriveStep, ReasonsStep
<1>3. DriveInv /\ Reasons /\ [Next]_vars
        => [MainStep /\ ~TurnsForward(reg) /\ TurnsForward(reg')
              => distance >= 10]_vars
  BY ReasonsStep
<1> QED
  BY <1>1, <1>2, <1>3, PTL DEF Spec, ClearReadingStarts

-----------------------------------------------------------------------------
(***************************************************************************)
(* The lamp.                                                               *)
(***************************************************************************)
\* The lamp's colour of a call, whatever it does besides.
LEMMA LampPart ==
  ASSUME NEW l \in [LedReg -> SUBSET Bit]
  PROVE  /\ \A m \in [MotorReg -> SUBSET Bit] : \A r \in LedReg : (m ++ l)[r] = l[r]
         /\ \A f : \A r \in LedReg : (l ++ f)[r] = l[r]
BY DEF ++, MotorReg, LedReg

Green == set_rgb_color(0, 255, 0)
Red   == set_rgb_color(255, 0, 0)

\* The lamp as it has to be, given how the wheels turn.
LampTrue ==
  /\ TurnsForward(reg)  => Lamp = Green
  /\ TurnsBackward(reg) => Lamp = Red

\* Green over a drive, red over a way back, and whatever over a car that stands.
LEMMA LampOfDrive ==
  \A g \in Drive : \A r \in LedReg : Target[g][r] = Green[r]
<1>1. \A r \in LedReg : Target["forward"][r] = Green[r]
  BY LampPart, MoveType, ColorType DEF Target, Green
<1>2. \A r \in LedReg : Target["left"][r] = Green[r]
  BY LampPart, MoveType, ColorType DEF Target, Green
<1>3. \A r \in LedReg : Target["right"][r] = Green[r]
  BY LampPart, MoveType, ColorType DEF Target, Green
<1> QED
  BY <1>1, <1>2, <1>3 DEF Drive

\* The handler's calls paint the lamp as well.
LEMMA LampOfHandler ==
  \A r \in LedReg :
    /\ Apply(reg, ForwardCall)[r] = Green[r]
    /\ Apply(reg, LeftCall)[r] = Green[r]
    /\ Apply(reg, RightCall)[r] = Green[r]
    /\ Apply(reg, BackwardCall)[r] = Red[r]
<1> DEFINE Paints(w, l) == \A r \in LedReg : r \in DOMAIN w /\ w[r] = l[r]
<1>1. ASSUME NEW l \in [LedReg -> SUBSET Bit]
      PROVE  /\ \A m \in [MotorReg -> SUBSET Bit] : Paints(m ++ l, l)
             /\ \A m \in [MotorReg \cup {"BUZ"} -> SUBSET Bit] : Paints(m ++ l, l)
             /\ \A f : Paints(l ++ f, l)
  BY DEF ++, MotorReg, LedReg
<1>2. ASSUME NEW w, NEW l, Paints(w, l)
      PROVE  \A f : Paints(w ++ f, l)
  BY <1>2 DEF ++
<1>3. ASSUME NEW w, NEW l, Paints(w, l)
      PROVE  \A r \in LedReg : Apply(reg, w)[r] = l[r]
  BY <1>3 DEF Apply, Reg, PwmReg
<1>4. /\ move_forward(Speed) ++ buzzer_off \in [MotorReg \cup {"BUZ"} -> SUBSET Bit]
      /\ move_right(Speed) ++ buzzer_off \in [MotorReg \cup {"BUZ"} -> SUBSET Bit]
  BY OverType, MoveType, BuzzerType
<1> HIDE DEF Paints
<1>5. Paints(ForwardCall, Green) /\ Paints(RightCall, Green)
  BY <1>1, <1>4, ColorType DEF ForwardCall, RightCall, Green
<1>6. Paints(LeftCall, Green) /\ Paints(BackwardCall, Red)
  BY <1>1, <1>2, ColorType DEF LeftCall, BackwardCall, Green, Red
<1> QED
  BY <1>3, <1>5, <1>6

\* Without a request that paints it, the lamp follows the wheels.
LEMMA LampStep ==
  ASSUME Commands \cap DOMAIN Color = {}, DriveInv, LampTells, [Next]_vars
  PROVE  LampTells'
<1> SUFFICES ASSUME ~raced', ~Window' PROVE LampTrue'
  BY DEF LampTells, LampTrue, Green, Red
<1>1. ASSUME \A r \in MotorReg \cup LedReg : reg'[r] = reg[r], ~raced, ~Window
      PROVE  LampTrue'
  <2>1. LampTrue
    BY <1>1 DEF LampTells, LampTrue, Green, Red
  <2>2. Lamp' = Lamp
    BY <1>1 DEF Lamp
  <2>3. (TurnsForward(reg') <=> TurnsForward(reg))
        /\ (TurnsBackward(reg') <=> TurnsBackward(reg))
    BY <1>1 DEF TurnsForward, TurnsBackward, MotorReg
  <2> QED
    BY <2>1, <2>2, <2>3 DEF LampTrue
<1>2. ASSUME \A r \in LedReg : reg'[r] = Green[r] PROVE Lamp' = Green
  BY <1>2, ColorType DEF Lamp, Green
<1>3. ASSUME \A r \in LedReg : reg'[r] = Red[r] PROVE Lamp' = Red
  BY <1>3, ColorType DEF Lamp, Red
<1>4. CASE MainStep /\ Window
  <2>1. Kept = 1 .. 9
    BY DEF Kept
  <2>2. \A j \in 1 .. 6 : j \in Kept
    BY <2>1
  <2>3. ASSUME NEW g \in Drive, \A j \in Kept : reg'[Order[j]] = Target[g][Order[j]]
        PROVE  LampTrue'
    <3>1. DrivesOn(reg')
      <4>1. DrivesOn(Target[g])
        BY LoopCalls
      <4> QED
        BY <2>2, <2>3, <4>1, OrderIs DEF DrivesOn
    <3>2. \A r \in LedReg : \E j \in 7 .. 9 : r = Order[j]
      BY DEF LedReg, Order
    <3>3. \A r \in LedReg : reg'[r] = Green[r]
      BY <2>1, <2>3, <3>2, LampOfDrive
    <3> QED
      BY <1>2, <3>1, <3>3, WholeTurns DEF LampTrue
  <2>4. ASSUME \A j \in Kept : reg'[Order[j]] = Target["stop"][Order[j]]
        PROVE  LampTrue'
    <3>1. Stands(reg')
      BY <2>2, <2>4, LoopCalls, OrderIs DEF Stands
    <3> QED
      BY <3>1, WholeTurns DEF LampTrue
  <2> QED
    BY <1>4, <2>3, <2>4, WindowEnds
<1>5. CASE MainStep /\ ~Window
  <2>1. reg' = reg
    BY <1>5, OutsideLoop DEF DriveInv
  <2>2. raced' = raced
    BY <1>5 DEF MainStep, Measure, Check, CheckLeft, CheckRight, Store, Fetch, Flip,
       BeepDone, Clear, Wake, Begin, Goto, Window
  <2> QED
    BY <1>1, <1>5, <2>1, <2>2
<1>6. CASE HandlerStep
  <2>1. Window' <=> Window
    BY <1>6 DEF HandlerStep, Process, BeepEnd, mainVars, Window
  <2>2. CASE Forward \/ Left \/ Right
    <3>1. reg' \in {Apply(reg, ForwardCall), Apply(reg, LeftCall), Apply(reg, RightCall)}
      BY <2>2 DEF Forward, Left, Right
    <3>2. DrivesOn(reg') /\ \A r \in LedReg : reg'[r] = Green[r]
      BY <3>1, HandlerCalls, LampOfHandler
    <3> QED
      BY <1>2, <3>2, WholeTurns DEF LampTrue
  <2>3. CASE Backward
    <3>1. Reverses(reg') /\ \A r \in LedReg : reg'[r] = Red[r]
      BY <2>3, HandlerCalls, LampOfHandler DEF Backward
    <3> QED
      BY <1>3, <3>1, WholeTurns DEF LampTrue
  <2>4. CASE Refuse \/ Stop
    <3>1. Stands(reg')
      BY <2>4, HandlerCalls DEF Refuse, Stop
    <3> QED
      BY <3>1, WholeTurns DEF LampTrue
  <2>5. CASE OtherMotor \/ Led \/ Other
    <3>1. reg' = reg /\ raced' = raced
      BY <2>5 DEF OtherMotor, Led, Other
    <3> QED
      BY <1>1, <2>1, <3>1
  <2>6. CASE Buzzer \/ BeepEnd
    <3>1. raced' = raced /\ reg' \in {Apply(reg, buzzer_on), Apply(reg, buzzer_off)}
      BY <2>6 DEF Buzzer, BeepEnd
    <3>2. \A r \in MotorReg \cup LedReg : reg'[r] = reg[r]
      BY <3>1 DEF Apply, buzzer_on, buzzer_off, Reg, PlainReg, PwmReg, MotorReg, LedReg
    <3> QED
      BY <1>1, <2>1, <3>1, <3>2
  <2>7. CASE Rgbled
    BY <2>7 DEF Rgbled
  <2> QED
    BY <1>6, <2>2, <2>3, <2>4, <2>5, <2>6, <2>7 DEF HandlerStep, Process
<1>7. CASE (\E n \in 0 .. MaxParams : Request(n)) \/ Move \/ UNCHANGED vars
  <2>1. UNCHANGED <<pc, reg, raced>>
    BY <1>7 DEF Request, Move, vars, mainVars
  <2> QED
    BY <1>1, <2>1 DEF Window
<1> QED
  BY <1>4, <1>5, <1>6, <1>7 DEF Next

\* While no request paints the lamp, it tells how the car moves.
THEOREM LampIsTrue ==
  ASSUME Commands \cap DOMAIN Color = {}
  PROVE  Spec => []LampTells
<1>1. Init => LampTells
  BY DriveStart DEF LampTells, Drives!Init
<1>2. Init => DriveInv
  BY DriveStart
<1>3. DriveInv /\ [Next]_vars => DriveInv'
  BY DriveStep
<1>4. DriveInv /\ LampTells /\ [Next]_vars => LampTells'
  BY LampStep
<1> QED
  BY <1>1, <1>2, <1>3, <1>4, PTL DEF Spec
=============================================================================

----------------------------- MODULE CarProofs -----------------------------
(***************************************************************************)
(* Proofs about the car's firmware, for every set of distances, every set  *)
(* of commands and every number of parameters in a request.                *)
(***************************************************************************)
EXTENDS Car, TLAPS

\* Why Armed holds: while the loop halts the car, the direction inputs it has
\* written stay low up to the moment it clears is_moving_forward (main.c:225-228).
NoDrive == reg["IN2"] = Low /\ reg["IN3"] = Low

HaltingSoFar ==
  /\ goal = "stop" /\ k > 2 => reg["IN2"] = Low
  /\ goal = "stop" /\ k > 3 => reg["IN3"] = Low
  /\ goal = "hush" => NoDrive
  /\ pc \in {"beep", "clear"} => NoDrive

ArmedInv ==
  /\ TypeOK
  /\ ~raced => /\ Window => "forward" \in moving
               /\ HaltingSoFar
               /\ TurnsForward(reg) => "forward" \in moving

-----------------------------------------------------------------------------
(***************************************************************************)
(* The driver calls.                                                       *)
(***************************************************************************)

\* A level is a set of bits.
LEMMA BitsType == \A n : Bits(n) \in SUBSET Bit
BY DEF Bits

\* So is the value of a direction input.
LEMMA PinsType == Low \in SUBSET Bit /\ High \in SUBSET Bit
BY DEF Low, High, Bit

\* The exclusive-or of two levels is a level.
LEMMA XorType ==
  \A a, b \in SUBSET Bit : Xor(a, b) \in SUBSET Bit
BY DEF Xor

\* The motor part of a driver call: six registers, each set to a level.
LEMMA BridgesType ==
  ASSUME NEW in1 \in {Low, High}, NEW in2 \in {Low, High},
         NEW in3 \in {Low, High}, NEW in4 \in {Low, High},
         NEW en1, NEW en2
  PROVE  Bridges(in1, in2, in3, in4, en1, en2)
           \in [MotorReg -> SUBSET Bit]
BY BitsType, PinsType DEF Bridges, MotorReg

\* The lamp's part of a driver call: three registers.
LEMMA ColorType ==
  ASSUME NEW r, NEW g, NEW b
  PROVE  set_rgb_color(r, g, b) \in [LedReg -> SUBSET Bit]
BY BitsType DEF set_rgb_color, LedReg

\* The buzzer's part: the level, and the wrap value when a tone is set up.
LEMMA BuzzerType ==
  /\ \A f : buzzer_start(f) \in [{"TOP", "BUZ"} -> SUBSET Bit]
  /\ buzzer_off \in [{"BUZ"} -> SUBSET Bit]
  /\ buzzer_on \in [{"BUZ"} -> SUBSET Bit]
BY BitsType, PinsType DEF buzzer_start, buzzer_off, buzzer_on

\* Two calls, the first over the second, set the registers of both.
LEMMA OverType ==
  ASSUME NEW S, NEW T, NEW V, NEW f \in [S -> V], NEW g \in [T -> V]
  PROVE  f ++ g \in [S \cup T -> V]
BY DEF ++

\* A call made at one go leaves levels in the registers.
LEMMA ApplyType ==
  ASSUME NEW S, NEW w \in [S -> SUBSET Bit], NEW r \in [Reg -> SUBSET Bit]
  PROVE  Apply(r, w) \in [Reg -> SUBSET Bit]
BY DEF Apply

\* The five calls of the motor driver set the six motor registers to levels.
LEMMA MoveType ==
  /\ move_forward(Speed) \in [MotorReg -> SUBSET Bit]
  /\ move_backward(Speed) \in [MotorReg -> SUBSET Bit]
  /\ move_left(Speed) \in [MotorReg -> SUBSET Bit]
  /\ move_right(Speed) \in [MotorReg -> SUBSET Bit]
  /\ stop_car \in [MotorReg -> SUBSET Bit]
BY BridgesType DEF move_forward, move_backward, move_left, move_right, stop_car

\* What the loop's calls write: a drive the motors and the lamp, a halt every
\* register, the end of a tone the buzzer.
LEMMA TargetType ==
  /\ \A g \in Drive : Target[g] \in [MotorReg \cup LedReg -> SUBSET Bit]
  /\ Target["stop"]
       \in [MotorReg \cup LedReg \cup {"TOP", "BUZ"} -> SUBSET Bit]
  /\ Target["hush"] \in [{"BUZ"} -> SUBSET Bit]
<1>1. \A m \in [MotorReg -> SUBSET Bit], l \in [LedReg -> SUBSET Bit] :
        m ++ l \in [MotorReg \cup LedReg -> SUBSET Bit]
  BY OverType
<1>2. \A m \in [MotorReg \cup LedReg -> SUBSET Bit],
         b \in [{"TOP", "BUZ"} -> SUBSET Bit] :
        m ++ b \in [MotorReg \cup LedReg \cup {"TOP", "BUZ"} -> SUBSET Bit]
  BY OverType
<1>3. Target["stop"]
        \in [MotorReg \cup LedReg \cup {"TOP", "BUZ"} -> SUBSET Bit]
  <2>1. Target["stop"]
          = stop_car ++ set_rgb_color(0, 0, 255) ++ buzzer_start(25000)
    BY DEF Target
  <2>2. stop_car ++ set_rgb_color(0, 0, 255)
          \in [MotorReg \cup LedReg -> SUBSET Bit]
    BY <1>1, MoveType, ColorType
  <2> QED BY <1>2, <2>1, <2>2, BuzzerType
<1>4. \A m \in [MotorReg -> SUBSET Bit] :
        m ++ set_rgb_color(0, 255, 0)
          \in [MotorReg \cup LedReg -> SUBSET Bit]
  BY <1>1, ColorType
<1>5. Target["forward"] \in [MotorReg \cup LedReg -> SUBSET Bit]
  <2>1. Target["forward"] = move_forward(Speed) ++ set_rgb_color(0, 255, 0)
    BY DEF Target
  <2>2. move_forward(Speed) \in [MotorReg -> SUBSET Bit]
    BY MoveType
  <2>3. move_forward(Speed) ++ set_rgb_color(0, 255, 0)
          \in [MotorReg \cup LedReg -> SUBSET Bit]
    BY <1>4, <2>2
  <2> QED BY <2>1, <2>3
<1>6. Target["left"] \in [MotorReg \cup LedReg -> SUBSET Bit]
  <2>1. Target["left"] = move_left(Speed) ++ set_rgb_color(0, 255, 0)
    BY DEF Target
  <2>2. move_left(Speed) \in [MotorReg -> SUBSET Bit]
    BY MoveType
  <2>3. move_left(Speed) ++ set_rgb_color(0, 255, 0)
          \in [MotorReg \cup LedReg -> SUBSET Bit]
    BY <1>4, <2>2
  <2> QED BY <2>1, <2>3
<1>7. Target["right"] \in [MotorReg \cup LedReg -> SUBSET Bit]
  <2>1. Target["right"] = move_right(Speed) ++ set_rgb_color(0, 255, 0)
    BY DEF Target
  <2>2. move_right(Speed) \in [MotorReg -> SUBSET Bit]
    BY MoveType
  <2>3. move_right(Speed) ++ set_rgb_color(0, 255, 0)
          \in [MotorReg \cup LedReg -> SUBSET Bit]
    BY <1>4, <2>2
  <2> QED BY <2>1, <2>3
<1>8. Target["hush"] = buzzer_off
  BY DEF Target
<1> QED BY <1>3, <1>5, <1>6, <1>7, <1>8, BuzzerType DEF Drive

\* The register the loop writes next is one its call sets, to a level.
LEMMA TargetOfOrder ==
  ASSUME NEW g \in Goal, NEW j \in FirstWrite(g) .. LastWrite(g)
  PROVE  /\ j \in 1 .. 11
         /\ Order[j] \in Reg
         /\ Target[g][Order[j]] \in SUBSET Bit
<1>1. CASE g \in Drive
  <2>1. j \in 1 .. 9
    BY <1>1 DEF Drive, FirstWrite, LastWrite
  <2>2. Order[j] \in MotorReg \cup LedReg
    BY <2>1 DEF Order, MotorReg, LedReg
  <2> QED BY <1>1, <2>1, <2>2, TargetType
          DEF Reg, PlainReg, PwmReg, MotorReg, LedReg
<1>2. CASE g = "stop"
  <2>1. j \in 1 .. 11
    BY <1>2 DEF FirstWrite, LastWrite, Drive
  <2>2. Order[j] \in MotorReg \cup LedReg \cup {"TOP", "BUZ"}
    BY <2>1 DEF Order, MotorReg, LedReg
  <2> QED BY <1>2, <2>1, <2>2, TargetType
          DEF Reg, PlainReg, PwmReg, MotorReg, LedReg
<1>3. CASE g = "hush"
  BY <1>3, TargetType DEF FirstWrite, LastWrite, Drive, Order, Reg, PwmReg
<1> QED BY <1>1, <1>2, <1>3 DEF Goal

-----------------------------------------------------------------------------
(***************************************************************************)
(* Type correctness.                                                       *)
(***************************************************************************)

\* The drivers' init functions leave levels in the registers.
LEMMA InitialRegType == InitialReg \in [Reg -> SUBSET Bit]
<1>1. motor_init \in [MotorReg -> SUBSET Bit]
  BY PinsType DEF motor_init
<1>2. buzzer_init \in [{"TOP", "BUZ"} -> SUBSET Bit]
  BY BitsType, PinsType DEF buzzer_init
<1>3. rgb_led_init \in [LedReg -> SUBSET Bit]
  BY ColorType DEF rgb_led_init
<1>4. motor_init ++ buzzer_init \in [MotorReg \cup {"TOP", "BUZ"} -> SUBSET Bit]
  BY <1>1, <1>2, OverType
<1>5. InitialReg \in [(MotorReg \cup {"TOP", "BUZ"}) \cup LedReg -> SUBSET Bit]
  BY <1>3, <1>4, OverType DEF InitialReg
<1>6. (MotorReg \cup {"TOP", "BUZ"}) \cup LedReg = Reg
  BY DEF Reg, MotorReg, PlainReg, PwmReg
<1> QED BY <1>5, <1>6

\* A measurement returns -1 or a distance.
LEMMA ReadingType == Reading \subseteq {-1} \cup Distance \cup {ahead}
BY DEF Reading, Disturbed, Measured

\* One write of the loop: its counter stays within the call or the call ends.
LEMMA AdvanceType ==
  ASSUME TypeOK, pc = "write", Advance
  PROVE  /\ pc' \in Pc
         /\ IF pc' = "write"
            THEN goal' \in Goal /\ k' \in FirstWrite(goal') .. LastWrite(goal')
            ELSE goal' = "none" /\ k' = 1
         /\ latched' = FALSE /\ latch' \in SUBSET Bit
<1>1. goal \in Goal /\ k \in FirstWrite(goal) .. LastWrite(goal)
  BY DEF TypeOK
<1>2. CASE k = LastWrite(goal)
  BY <1>1, <1>2, PinsType DEF Advance, AfterWrites, Goal, Drive, Pc
<1>3. CASE k # LastWrite(goal)
  BY <1>1, <1>3, PinsType
     DEF Advance, FirstWrite, LastWrite, Goal, Drive, Pc
<1> QED BY <1>2, <1>3

\* A call begins at a write of its own.
LEMMA BeginType ==
  ASSUME NEW g \in Goal, Begin(g)
  PROVE  /\ pc' = "write" /\ goal' \in Goal
         /\ k' \in FirstWrite(goal') .. LastWrite(goal')
BY DEF Begin, Goal, Drive, FirstWrite, LastWrite

\* The program starts in a well-typed state.
LEMMA TypeInit == Init => TypeOK
<1> SUFFICES ASSUME Init PROVE TypeOK
  OBVIOUS
<1>1. moving \subseteq Flag
  BY DEF Init
<1>2. reg \in [Reg -> SUBSET Bit] /\ latch \in SUBSET Bit
  BY InitialRegType, PinsType DEF Init
<1>3. params \in 0 .. MaxParams
  BY MaxParamsAssumption DEF Init
<1> QED BY <1>1, <1>2, <1>3 DEF Init, TypeOK, Pc

\* No step of the loop breaks the types.
LEMMA TypeMain == TypeOK /\ MainStep => TypeOK'
<1> SUFFICES ASSUME TypeOK, MainStep PROVE TypeOK'
  OBVIOUS
<1> USE DEF TypeOK
<1>1. CASE Measure
  BY <1>1, ReadingType DEF Measure, MainStep, Goto, EchoLeftBy,
     handlerVars, Pc
<1>2. CASE Check
  <2>1. UNCHANGED <<distance, moving, reg, led, params, beeping, ahead, echo,
                    latched, latch>>
        /\ raced' \in BOOLEAN /\ ~latched
    BY <1>2 DEF Check, MainStep, Goto, Begin, handlerVars
  <2>2. CASE Begin("stop")
    <3>1. pc' \in Pc /\ IF pc' = "write"
            THEN goal' \in Goal /\ k' \in FirstWrite(goal') .. LastWrite(goal')
            ELSE goal' = "none" /\ k' = 1
      BY <2>2, BeginType DEF Goal, Pc
    <3> QED BY <2>1, <3>1
  <2>3. CASE \E p \in {"sleep", "left"} : Goto(p)
    BY <1>2, <2>1, <2>3 DEF Check, Goto, Pc
  <2> QED BY <1>2, <2>2, <2>3 DEF Check
<1>3. CASE CheckLeft
  BY <1>3 DEF CheckLeft, MainStep, Goto, Begin, handlerVars, Pc,
     Goal, Drive, FirstWrite, LastWrite
<1>4. CASE CheckRight
  BY <1>4 DEF CheckRight, MainStep, Begin, handlerVars, Pc, Goal,
     Drive, FirstWrite, LastWrite
<1>5. CASE Store
  <2>1. Order[k] \in Reg /\ Target[goal][Order[k]] \in SUBSET Bit
    BY <1>5, TargetOfOrder DEF Store
  <2>2. reg' \in [Reg -> SUBSET Bit]
    BY <1>5, <2>1 DEF Store
  <2> QED BY <1>5, <2>2, AdvanceType DEF Store, MainStep, handlerVars
<1>6. CASE Fetch
  <2>1. Order[k] \in Reg
    BY <1>6, TargetOfOrder DEF Fetch
  <2> QED BY <1>6, <2>1 DEF Fetch, MainStep, handlerVars
<1>7. CASE Flip
  <2>1. Order[k] \in Reg /\ Target[goal][Order[k]] \in SUBSET Bit
    BY <1>7, TargetOfOrder DEF Flip
  <2>2. Xor(reg[Order[k]], Xor(latch, Target[goal][Order[k]])) \in SUBSET Bit
    BY <2>1, XorType
  <2>3. reg' \in [Reg -> SUBSET Bit]
    BY <1>7, <2>2 DEF Flip
  <2> QED BY <1>7, <2>3, AdvanceType DEF Flip, MainStep, handlerVars
<1>8. CASE BeepDone
  BY <1>8 DEF BeepDone, MainStep, Begin, handlerVars, Pc, Goal,
     Drive, FirstWrite, LastWrite
<1>9. CASE Clear
  BY <1>9 DEF Clear, MainStep, Goto, handlerVars, Pc
<1>10. CASE Wake
  BY <1>10 DEF Wake, MainStep, Goto, handlerVars, Pc
<1> QED BY <1>1, <1>2, <1>3, <1>4, <1>5, <1>6, <1>7, <1>8, <1>9, <1>10
        DEF MainStep

\* What the handler's calls leave in the registers.
LEMMA HandlerCallType ==
  ASSUME reg \in [Reg -> SUBSET Bit]
  PROVE  /\ \A w \in {RefuseCall, ForwardCall, BackwardCall, LeftCall,
                      RightCall, StopCall, buzzer_on, buzzer_off} :
              Apply(reg, w) \in [Reg -> SUBSET Bit]
         /\ \A c \in DOMAIN Color : Apply(reg, Color[c]) \in [Reg -> SUBSET Bit]
<1> DEFINE Call(w) == \E S : w \in [S -> SUBSET Bit]
<1>1. \A w : Call(w) => Apply(reg, w) \in [Reg -> SUBSET Bit]
  BY ApplyType
<1>2. \A v, w : Call(v) /\ Call(w) => Call(v ++ w)
  BY OverType
<1>3. Call(stop_car) /\ Call(move_forward(Speed)) /\ Call(move_right(Speed))
      /\ Call(move_left(Speed)) /\ Call(move_backward(Speed))
  BY MoveType
<1>4. \A x, y, z : Call(set_rgb_color(x, y, z))
  BY ColorType
<1>5. Call(buzzer_on) /\ Call(buzzer_off) /\ \A f : Call(buzzer_start(f))
  BY BuzzerType
<1>6. \A c \in DOMAIN Color : Call(Color[c])
  BY <1>4 DEF Color
<1> HIDE DEF Call
<1>7. /\ Call(RefuseCall) /\ Call(ForwardCall) /\ Call(BackwardCall)
      /\ Call(LeftCall) /\ Call(RightCall) /\ Call(StopCall)
  BY <1>2, <1>3, <1>4, <1>5
     DEF RefuseCall, ForwardCall, BackwardCall, LeftCall, RightCall, StopCall
<1> QED BY <1>1, <1>5, <1>6, <1>7

\* The count of parameters stays in range, and the handler sleeps only inside
\* a parameter.
LEMMA ParamsType ==
  ASSUME TypeOK, params > 0, ~beeping, Processed \/ Sounding
  PROVE  /\ params' \in 0 .. MaxParams /\ beeping' \in BOOLEAN
         /\ beeping' => params' > 0
<1>1. params \in 0 .. MaxParams /\ MaxParams \in Nat
  BY MaxParamsAssumption DEF TypeOK
<1>2. params' \in 0 .. MaxParams
  BY <1>1 DEF Processed, Sounding
<1>3. CASE Processed
  <2>1. beeping' = FALSE
    BY <1>3 DEF Processed, TypeOK
  <2> QED BY <1>2, <2>1
<1>4. CASE Sounding
  <2>1. params' > 0
    BY <1>4 DEF Sounding
  <2>2. beeping' = TRUE
    BY <1>4 DEF Sounding
  <2> QED BY <1>2, <2>1, <2>2
<1> QED BY <1>3, <1>4

\* No step of the handler breaks the types.
LEMMA TypeHandler == TypeOK /\ HandlerStep => TypeOK'
<1> SUFFICES ASSUME TypeOK, HandlerStep PROVE TypeOK'
  OBVIOUS
<1>1. CASE Process
  <2>1. UNCHANGED <<pc, goal, k, latched, latch, distance, ahead>>
        /\ params > 0 /\ ~beeping
    BY <1>1 DEF Process, mainVars
  <2>2. /\ params' \in 0 .. MaxParams /\ beeping' \in BOOLEAN
        /\ beeping' => params' > 0
    <3>1. Processed \/ Sounding
      <4>1. CASE Refuse \/ Forward
        BY <4>1 DEF Refuse, Forward
      <4>2. CASE Backward \/ Left \/ Right \/ Stop \/ OtherMotor
        BY <4>2 DEF Backward, Left, Right, Stop, OtherMotor
      <4>3. CASE Buzzer \/ Rgbled \/ Led \/ Other
        BY <4>3 DEF Buzzer, Rgbled, Led, Other
      <4> QED BY <1>1, <4>1, <4>2, <4>3 DEF Process
    <3> QED BY <2>1, <3>1, ParamsType
  <2>3. SUFFICES
          /\ moving' \subseteq Flag
          /\ reg' \in [Reg -> SUBSET Bit]
          /\ led' \in {0, 1}
          /\ echo' \in {"quiet", "main", "handler"}
          /\ raced' \in BOOLEAN
    BY <2>1, <2>2 DEF TypeOK
  <2>4. /\ moving \subseteq Flag
        /\ reg \in [Reg -> SUBSET Bit]
        /\ led \in {0, 1}
        /\ echo \in {"quiet", "main", "handler"}
        /\ raced \in BOOLEAN
    BY DEF TypeOK
  <2>5. EchoLeftBy("handler") \in {"quiet", "main", "handler"}
    BY DEF EchoLeftBy
  <2>6. CASE Refuse
    <3>1. moving' \subseteq Flag /\ reg' \in [Reg -> SUBSET Bit]
      BY <2>6, <2>4, HandlerCallType DEF Refuse, Flag
    <3>2. raced' \in BOOLEAN
      BY <2>6 DEF Refuse, Raced
    <3> QED BY <2>6, <2>4, <2>5, <3>1, <3>2 DEF Refuse
  <2>7. CASE Forward
    <3>1. moving' \subseteq Flag /\ reg' \in [Reg -> SUBSET Bit]
      BY <2>7, <2>4, HandlerCallType DEF Forward, Flag
    <3>2. raced' \in BOOLEAN
      BY <2>7 DEF Forward, Raced
    <3> QED BY <2>7, <2>4, <2>5, <3>1, <3>2 DEF Forward
  <2>8. CASE Backward
    <3>1. moving' \subseteq Flag /\ reg' \in [Reg -> SUBSET Bit]
      BY <2>8, <2>4, HandlerCallType DEF Backward, Flag
    <3>2. raced' \in BOOLEAN
      BY <2>8 DEF Backward, Raced
    <3> QED BY <2>8, <2>4, <3>1, <3>2 DEF Backward
  <2>9. CASE Left
    <3>1. moving' \subseteq Flag /\ reg' \in [Reg -> SUBSET Bit]
      BY <2>9, <2>4, HandlerCallType DEF Left, Flag
    <3>2. raced' \in BOOLEAN
      BY <2>9 DEF Left, Raced
    <3> QED BY <2>9, <2>4, <3>1, <3>2 DEF Left
  <2>10. CASE Right
    <3>1. moving' \subseteq Flag /\ reg' \in [Reg -> SUBSET Bit]
      BY <2>10, <2>4, HandlerCallType DEF Right, Flag
    <3>2. raced' \in BOOLEAN
      BY <2>10 DEF Right, Raced
    <3> QED BY <2>10, <2>4, <3>1, <3>2 DEF Right
  <2>11. CASE Stop
    <3>1. moving' \subseteq Flag /\ reg' \in [Reg -> SUBSET Bit]
      BY <2>11, <2>4, HandlerCallType DEF Stop, Flag
    <3>2. raced' \in BOOLEAN
      BY <2>11 DEF Stop, Raced
    <3> QED BY <2>11, <2>4, <3>1, <3>2 DEF Stop
  <2>12. CASE OtherMotor
    BY <2>12, <2>4 DEF OtherMotor, Flag
  <2>13. CASE Buzzer
    <3>1. reg' \in [Reg -> SUBSET Bit]
      BY <2>13, <2>4, HandlerCallType DEF Buzzer
    <3> QED BY <2>13, <2>4, <3>1 DEF Buzzer
  <2>14. CASE Rgbled
    <3>1. reg' \in [Reg -> SUBSET Bit]
      BY <2>14, <2>4, HandlerCallType DEF Rgbled
    <3> QED BY <2>14, <2>4, <3>1 DEF Rgbled
  <2>15. CASE Led
    BY <2>15, <2>4 DEF Led
  <2>16. CASE Other
    BY <2>16, <2>4 DEF Other
  <2> QED BY <1>1, <2>6, <2>7, <2>8, <2>9, <2>10, <2>11, <2>12, <2>13, <2>14,
             <2>15, <2>16 DEF Process
<1>2. CASE BeepEnd
  <2>1. reg' \in [Reg -> SUBSET Bit]
    BY <1>2, HandlerCallType DEF BeepEnd, TypeOK
  <2>2. params' \in 0 .. MaxParams
    BY <1>2, MaxParamsAssumption DEF BeepEnd, TypeOK
  <2>3. UNCHANGED <<pc, goal, k, latched, latch, distance, moving, led, ahead,
                    raced>>
        /\ beeping' = FALSE /\ echo' \in {"quiet", "main", "handler"}
    BY <1>2 DEF BeepEnd, mainVars
  <2> QED BY <2>1, <2>2, <2>3 DEF TypeOK
<1> QED BY <1>1, <1>2 DEF HandlerStep

\* No step, of whomever, breaks the types.
LEMMA TypeStep == TypeOK /\ [Next]_vars => TypeOK'
<1> SUFFICES ASSUME TypeOK, [Next]_vars PROVE TypeOK'
  OBVIOUS
<1>1. CASE MainStep
  BY <1>1, TypeMain
<1>2. ASSUME NEW n \in 0 .. MaxParams, Request(n)
      PROVE  TypeOK'
  BY <1>2, MaxParamsAssumption DEF Request, mainVars, TypeOK
<1>3. CASE HandlerStep
  BY <1>3, TypeHandler
<1>4. CASE Move
  BY <1>4 DEF Move, mainVars, handlerVars, TypeOK
<1>5. CASE UNCHANGED vars
  BY <1>5 DEF vars, mainVars, handlerVars, TypeOK
<1> QED BY <1>1, <1>2, <1>3, <1>4, <1>5 DEF Next

\* Every variable keeps its type, and the loop never writes a register that is
\* not one of the call it is making.
THEOREM TypeCorrect == Spec => []TypeOK
<1> QED BY TypeInit, TypeStep, PTL DEF Spec

-----------------------------------------------------------------------------
(***************************************************************************)
(* Wheels that turn forward are under guard.                               *)
(*                                                                         *)
(* Armed alone is not inductive: when the loop clears is_moving_forward,   *)
(* nothing in it says that the motors stand.  They do because the loop has *)
(* halted them since its test, and no command came in between.  So the     *)
(* invariant follows the halt: once the second and the third direction     *)
(* input have been written they are low, and no motor turns forward with   *)
(* its input low.                                                          *)
(***************************************************************************)
\* Neither motor turns forward while IN2 and IN3 are low.
LEMMA NoDriveStands == NoDrive => ~TurnsForward(reg)
BY DEF NoDrive, TurnsForward, Low, High

\* Outside its window the loop is in no halt.
LEMMA OutsideWindow == TypeOK' /\ ~Window' => HaltingSoFar'
BY DEF TypeOK, Window, HaltingSoFar, Pc

\* The loop's halt sets both inputs low.
LEMMA HaltTarget ==
  Target["stop"]["IN2"] = Low /\ Target["stop"]["IN3"] = Low
BY DEF Target, ++, stop_car, Bridges, set_rgb_color, buzzer_start

\* So do the handler's two halts, and "backward".
LEMMA HandlerHalts ==
  \A w \in {RefuseCall, StopCall, BackwardCall} :
    Apply(reg, w)["IN2"] = Low /\ Apply(reg, w)["IN3"] = Low
BY DEF RefuseCall, StopCall, BackwardCall, Apply, ++, stop_car, move_backward,
       Bridges, set_rgb_color, buzzer_start, Reg, PlainReg

\* A call that does not address the motors leaves them as they are.
LEMMA HandlerLeavesMotors ==
  ASSUME NEW S, NEW w \in [S -> SUBSET Bit], S \cap MotorReg = {},
         NEW r \in MotorReg
  PROVE  Apply(reg, w)[r] = reg[r]
BY DEF Apply, MotorReg, Reg, PlainReg, PwmReg

\* At the start the wheels stand and the loop is outside its window.
LEMMA ArmedInit == Init => ArmedInv
<1> SUFFICES ASSUME Init PROVE ArmedInv
  OBVIOUS
<1>1. ~TurnsForward(reg)
  <2>1. reg["IN2"] = Low /\ reg["IN3"] = Low
    BY DEF Init, InitialReg, ++, motor_init, MotorReg
  <2> QED BY <2>1 DEF TurnsForward, Low, High
<1>2. ~Window /\ HaltingSoFar
  BY DEF Init, Window, HaltingSoFar
<1> QED BY <1>1, <1>2, TypeInit DEF ArmedInv

\* A step that changes neither the motors nor is_moving_forward, and neither
\* enters nor leaves the window, keeps what the invariant says.
LEMMA ArmedUnchanged ==
  ASSUME ArmedInv, TypeOK', raced' = raced, UNCHANGED <<pc, goal, k>>,
         moving' = moving,
         \A r \in MotorReg : reg'[r] = reg[r]
  PROVE  ArmedInv'
<1>1. Window' <=> Window
  BY DEF Window
<1>2. reg'["IN1"] = reg["IN1"] /\ reg'["IN2"] = reg["IN2"]
      /\ reg'["IN3"] = reg["IN3"] /\ reg'["IN4"] = reg["IN4"]
      /\ reg'["EN1"] = reg["EN1"] /\ reg'["EN2"] = reg["EN2"]
  BY DEF MotorReg
<1>3. TurnsForward(reg') <=> TurnsForward(reg)
  BY <1>2 DEF TurnsForward
<1>4. HaltingSoFar => HaltingSoFar'
  BY <1>2 DEF HaltingSoFar, NoDrive
<1> QED BY <1>1, <1>3, <1>4 DEF ArmedInv

\* A write of the loop, plain or the second half of an update.
LEMMA ArmedWrite ==
  ASSUME ArmedInv, TypeOK', pc = "write", Advance,
         raced' = raced, moving' = moving,
         \A r \in Reg : r # Order[k] => reg'[r] = reg[r],
         Order[k] \in PlainReg => reg'[Order[k]] = Target[goal][Order[k]]
  PROVE  ArmedInv'
<1> SUFFICES ASSUME ~raced
             PROVE  /\ "forward" \in moving
                    /\ HaltingSoFar'
  BY DEF ArmedInv
<1>1. "forward" \in moving /\ HaltingSoFar
  BY DEF ArmedInv, Window
<1>2. goal \in Goal /\ k \in FirstWrite(goal) .. LastWrite(goal)
  BY DEF ArmedInv, TypeOK
<1>3. CASE goal \in Drive
  BY <1>1, <1>2, <1>3 DEF Advance, AfterWrites, HaltingSoFar, Drive
<1>4. CASE goal = "hush"
  <2>1. k = 11 /\ LastWrite(goal) = 11
    BY <1>2, <1>4 DEF FirstWrite, LastWrite, Drive
  <2>2. NoDrive'
    BY <1>1, <1>4, <2>1 DEF HaltingSoFar, NoDrive, Order, Reg, PlainReg
  <2> QED BY <1>1, <1>4, <2>1, <2>2
          DEF Advance, AfterWrites, HaltingSoFar, Drive
<1>5. CASE goal = "stop"
  <2>1. k \in 1 .. 11 /\ LastWrite(goal) = 11
    BY <1>2, <1>5 DEF FirstWrite, LastWrite, Drive
  <2>2. k >= 2 => reg'["IN2"] = Low
    <3>1. CASE k = 2
      <4>1. Order[k] = "IN2" /\ Order[k] \in PlainReg
        BY <3>1 DEF Order, PlainReg
      <4> QED BY <1>5, <4>1, HaltTarget
    <3>2. CASE k > 2
      <4>1. Order[k] # "IN2"
        BY <2>1, <3>2 DEF Order
      <4>2. reg["IN2"] = Low
        BY <1>1, <1>5, <3>2 DEF HaltingSoFar
      <4> QED BY <4>1, <4>2 DEF Reg, PlainReg
    <3> QED BY <2>1, <3>1, <3>2
  <2>3. k >= 3 => reg'["IN3"] = Low
    <3>1. CASE k = 3
      <4>1. Order[k] = "IN3" /\ Order[k] \in PlainReg
        BY <3>1 DEF Order, PlainReg
      <4> QED BY <1>5, <4>1, HaltTarget
    <3>2. CASE k > 3
      <4>1. Order[k] # "IN3"
        BY <2>1, <3>2 DEF Order
      <4>2. reg["IN3"] = Low
        BY <1>1, <1>5, <3>2 DEF HaltingSoFar
      <4> QED BY <4>1, <4>2 DEF Reg, PlainReg
    <3> QED BY <2>1, <3>1, <3>2
  <2>4. CASE k = 11
    BY <1>1, <1>5, <2>1, <2>2, <2>3, <2>4
       DEF Advance, AfterWrites, HaltingSoFar, NoDrive, Drive
  <2>5. CASE k # 11
    BY <1>1, <1>5, <2>1, <2>2, <2>3, <2>5 DEF Advance, HaltingSoFar
  <2> QED BY <2>4, <2>5
<1> QED BY <1>1, <1>2, <1>3, <1>4, <1>5 DEF Goal

\* No step of the loop breaks it.
LEMMA ArmedMain == ArmedInv /\ MainStep => ArmedInv'
<1> SUFFICES ASSUME ArmedInv, MainStep PROVE ArmedInv'
  OBVIOUS
<1>1. TypeOK /\ TypeOK'
  BY TypeMain DEF ArmedInv
<1>2. CASE Measure \/ Wake
  <2>1. /\ ~Window' /\ raced' = raced /\ moving' = moving /\ reg' = reg
    BY <1>2 DEF Measure, Wake, Goto, Window
  <2>2. HaltingSoFar'
    BY <1>1, <2>1, OutsideWindow
  <2> QED BY <1>1, <2>1, <2>2 DEF ArmedInv
<1>3. CASE Check
  <2>1. moving' = moving /\ reg' = reg
    BY <1>3 DEF Check
  <2>2. CASE "forward" \in moving
    <3>1. goal' \notin {"hush"} /\ pc' \notin {"beep", "clear"}
          /\ (goal' = "stop" => k' = 1)
      BY <1>1, <1>3, <2>2
         DEF Check, Begin, Goto, FirstWrite, TypeOK
    <3>2. HaltingSoFar'
      BY <3>1 DEF HaltingSoFar
    <3> QED BY <1>1, <2>1, <2>2, <3>2 DEF ArmedInv
  <2>3. CASE "forward" \notin moving
    <3>1. ~Window' /\ raced' = raced
      BY <1>3, <2>3 DEF Check, Goto, Window
    <3>2. HaltingSoFar'
      BY <1>1, <3>1, OutsideWindow
    <3> QED BY <1>1, <2>1, <3>1, <3>2 DEF ArmedInv
  <2> QED BY <2>2, <2>3
<1>4. CASE CheckLeft \/ CheckRight
  <2>1. /\ moving' = moving /\ reg' = reg /\ raced' = raced /\ Window
        /\ goal' \notin {"stop", "hush"} /\ pc' \notin {"beep", "clear"}
    BY <1>1, <1>4
       DEF CheckLeft, CheckRight, Begin, Goto, Window, TypeOK
  <2>2. HaltingSoFar'
    BY <2>1 DEF HaltingSoFar
  <2> QED BY <1>1, <2>1, <2>2 DEF ArmedInv
<1>5. CASE Store
  <2>1. Order[k] \in Reg
    BY <1>1, <1>5, TargetOfOrder DEF Store, TypeOK
  <2>2. /\ pc = "write" /\ Advance /\ raced' = raced /\ moving' = moving
        /\ \A r \in Reg : r # Order[k] => reg'[r] = reg[r]
        /\ reg'[Order[k]] = Target[goal][Order[k]]
    BY <1>1, <1>5, <2>1 DEF Store, TypeOK
  <2> QED BY <1>1, <2>2, ArmedWrite
<1>6. CASE Fetch
  BY <1>1, <1>6, ArmedUnchanged DEF Fetch
<1>7. CASE Flip
  <2>1. Order[k] \in PwmReg
    BY <1>1, <1>7 DEF Flip, TypeOK
  <2>2. Order[k] \notin PlainReg
    BY <2>1 DEF PwmReg, PlainReg, LedReg
  <2>3. /\ pc = "write" /\ Advance /\ raced' = raced /\ moving' = moving
        /\ \A r \in Reg : r # Order[k] => reg'[r] = reg[r]
    BY <1>1, <1>7 DEF Flip, TypeOK
  <2> QED BY <1>1, <2>2, <2>3, ArmedWrite
<1>8. CASE BeepDone
  <2>1. /\ moving' = moving /\ reg' = reg /\ raced' = raced /\ Window
        /\ goal' = "hush" /\ pc' = "write" /\ pc = "beep"
    BY <1>8 DEF BeepDone, Begin, Window
  <2>2. ~raced => HaltingSoFar'
    BY <2>1 DEF ArmedInv, HaltingSoFar, NoDrive
  <2> QED BY <1>1, <2>1, <2>2 DEF ArmedInv
<1>9. CASE Clear
  <2>1. ~Window' /\ raced' = raced /\ reg' = reg /\ pc = "clear"
    BY <1>9 DEF Clear, Goto, Window
  <2>2. HaltingSoFar'
    BY <1>1, <2>1, OutsideWindow
  <2>3. ~raced => ~TurnsForward(reg')
    BY <2>1, NoDriveStands DEF ArmedInv, HaltingSoFar
  <2> QED BY <1>1, <2>1, <2>2, <2>3 DEF ArmedInv
<1> QED BY <1>2, <1>3, <1>4, <1>5, <1>6, <1>7, <1>8, <1>9 DEF MainStep

\* A motor command with a known value, if it halts the wheels' forward drive
\* or sets is_moving_forward.
LEMMA ArmedCommand ==
  ASSUME TypeOK', Raced, UNCHANGED <<pc, goal, k>>,
         "forward" \in moving' \/ NoDrive'
  PROVE  ArmedInv'
<1>1. ~raced' => ~Window'
  BY DEF Raced, Window
<1>2. ~raced' => HaltingSoFar'
  BY <1>1, OutsideWindow
<1>3. NoDrive' => ~TurnsForward(reg')
  BY DEF NoDrive, TurnsForward, Low, High
<1> QED BY <1>1, <1>2, <1>3 DEF ArmedInv

\* No step of the handler breaks it.
LEMMA ArmedHandler == ArmedInv /\ HandlerStep => ArmedInv'
<1> SUFFICES ASSUME ArmedInv, HandlerStep PROVE ArmedInv'
  OBVIOUS
<1>1. TypeOK /\ TypeOK' /\ UNCHANGED <<pc, goal, k>>
  BY TypeHandler DEF ArmedInv, HandlerStep, Process, BeepEnd, mainVars
<1>2. CASE Forward \/ Left \/ Right
  <2>1. Raced /\ "forward" \in moving'
    BY <1>2 DEF Forward, Left, Right
  <2> QED BY <1>1, <2>1, ArmedCommand
<1>3. CASE Refuse \/ Stop \/ Backward
  <2>1. NoDrive'
    BY <1>3, HandlerHalts DEF Refuse, Stop, Backward, NoDrive
  <2>2. Raced
    BY <1>3 DEF Refuse, Stop, Backward
  <2> QED BY <1>1, <2>1, <2>2, ArmedCommand
<1>4. CASE OtherMotor
  <2>1. raced' = raced /\ reg' = reg /\ "forward" \in moving'
    BY <1>4 DEF OtherMotor
  <2>2. HaltingSoFar => HaltingSoFar'
    BY <1>1, <2>1 DEF HaltingSoFar, NoDrive
  <2> QED BY <1>1, <2>1, <2>2 DEF ArmedInv
<1>5. CASE Buzzer \/ BeepEnd
  <2>1. \A r \in MotorReg : Apply(reg, buzzer_on)[r] = reg[r]
                            /\ Apply(reg, buzzer_off)[r] = reg[r]
    BY HandlerLeavesMotors, BuzzerType DEF MotorReg
  <2>2. \A r \in MotorReg : reg'[r] = reg[r]
    BY <1>5, <2>1 DEF Buzzer, BeepEnd
  <2>3. raced' = raced /\ moving' = moving
    BY <1>5 DEF Buzzer, BeepEnd
  <2> QED BY <1>1, <2>2, <2>3, ArmedUnchanged
<1>6. CASE Rgbled
  <2>1. PICK c \in DOMAIN Color : reg' = Apply(reg, Color[c])
    BY <1>6 DEF Rgbled
  <2>2. Color[c] \in [LedReg -> SUBSET Bit]
    BY ColorType DEF Color
  <2>3. \A r \in MotorReg : reg'[r] = reg[r]
    BY <2>1, <2>2, HandlerLeavesMotors DEF MotorReg, LedReg
  <2>4. raced' = raced /\ moving' = moving
    BY <1>6 DEF Rgbled
  <2> QED BY <1>1, <2>3, <2>4, ArmedUnchanged
<1>7. CASE Led \/ Other
  BY <1>1, <1>7, ArmedUnchanged DEF Led, Other
<1> QED BY <1>2, <1>3, <1>4, <1>5, <1>6, <1>7 DEF HandlerStep, Process

\* No step, of whomever, breaks the invariant.
LEMMA ArmedStep == ArmedInv /\ [Next]_vars => ArmedInv'
<1> SUFFICES ASSUME ArmedInv, [Next]_vars PROVE ArmedInv'
  OBVIOUS
<1>1. TypeOK'
  BY TypeStep DEF ArmedInv
<1>2. CASE MainStep
  BY <1>2, ArmedMain
<1>3. CASE HandlerStep
  BY <1>3, ArmedHandler
<1>4. CASE \E n \in 0 .. MaxParams : Request(n)
  BY <1>1, <1>4, ArmedUnchanged DEF Request, mainVars
<1>5. CASE Move
  BY <1>1, <1>5, ArmedUnchanged DEF Move, mainVars
<1>6. CASE UNCHANGED vars
  BY <1>1, <1>6, ArmedUnchanged DEF vars, mainVars
<1> QED BY <1>2, <1>3, <1>4, <1>5, <1>6 DEF Next

\* Wheels that turn forward are under the loop's guard, unless a command came
\* into its window.
THEOREM Guarded == Spec => []Armed
<1>1. ArmedInv => Armed
  BY DEF ArmedInv, Armed
<1> QED BY <1>1, ArmedInit, ArmedStep, PTL DEF Spec

\* While the loop halts the car, the inputs it has written stay low, and no
\* wheel turns forward unguarded: the invariant from which Guarded follows.
THEOREM HaltFollowed == Spec => []ArmedInv
<1> QED BY ArmedInit, ArmedStep, PTL DEF Spec

-----------------------------------------------------------------------------
(***************************************************************************)
(* The handler sleeps with the car halted or going back.                   *)
(***************************************************************************)
\* As long as the handler sleeps, neither the loop nor another parameter moves
\* the car.
LEMMA BeepsStep == TypeOK /\ BeepsAtRest /\ [Next]_vars => BeepsAtRest'
<1> SUFFICES ASSUME TypeOK, BeepsAtRest, [Next]_vars, beeping' PROVE BeepsAtRest'
  BY DEF BeepsAtRest
<1>1. beeping => params > 0
  BY DEF TypeOK
<1>2. CASE Refuse \/ Backward
  <2>1. "forward" \notin moving'
    BY <1>2 DEF Refuse, Backward
  <2>2. NoDrive'
    BY <1>2, HandlerHalts DEF Refuse, Backward, NoDrive
  <2>3. ~TurnsForward(reg')
    BY <2>2 DEF NoDrive, TurnsForward, Low, High
  <2> QED BY <2>1, <2>3 DEF BeepsAtRest
<1>3. CASE UNCHANGED <<beeping, reg, moving>>
  BY <1>3 DEF BeepsAtRest
<1>4. CASE MainStep
  BY <1>1, <1>4 DEF MainStep, handlerVars, BeepsAtRest
<1>5. CASE Process
  <2>1. ~beeping
    BY <1>5 DEF Process
  <2>2. ~Processed
    BY <2>1 DEF Processed
  <2> QED BY <1>2, <1>5, <2>2
          DEF Process, Forward, Left, Right, Stop, OtherMotor, Buzzer, Rgbled,
              Led, Other
<1>6. CASE BeepEnd
  BY <1>6 DEF BeepEnd
<1> QED BY <1>3, <1>4, <1>5, <1>6
        DEF Next, HandlerStep, Request, Move, vars, handlerVars

\* No tone of the handler sounds while the car drives forward.
THEOREM SleepsAtRest == Spec => []BeepsAtRest
<1>1. Init => BeepsAtRest
  BY DEF Init, BeepsAtRest
<1> QED BY <1>1, TypeInit, TypeStep, BeepsStep, PTL DEF Spec
=============================================================================

------------------------------ MODULE Drivers ------------------------------
(***************************************************************************)
(* The output drivers of the car: motor_driver.c, led.c and buzzer.c.      *)
(*                                                                         *)
(* A driver call is the function from the registers it writes to the value *)
(* it writes in each.  A register value is the SET OF ITS ONE-BITS: a GPIO *)
(* output is Low or High, a PWM compare level (16 bits) is Bits(level).    *)
(* The representation makes the exclusive-or with which the Pico SDK       *)
(* updates a compare level a symmetric difference of sets.                 *)
(***************************************************************************)
EXTENDS Integers, Sequences

Bit == 0 .. 15
Low == {}
High == {0}

\* The one-bits of the 16-bit number n.
Bits(n) == {i \in Bit : (n \div 2^i) % 2 = 1}

Xor(a, b) == (a \ b) \cup (b \ a)

-----------------------------------------------------------------------------
(***************************************************************************)
(* Registers.  IN1..IN4 are the direction inputs of the two H-bridges      *)
(* (gpio_put: an atomic set or clear), TOP is the wrap value of the        *)
(* buzzer's PWM slice (a plain store).  EN1, EN2 (the motors' enable       *)
(* pins), RED, GREEN, BLUE and BUZ are PWM compare levels: the SDK reads   *)
(* the level, exclusive-ors the new one with it and writes the difference  *)
(* to the register's XOR alias, so an update is two accesses.              *)
(***************************************************************************)
MotorReg == {"IN1", "IN2", "IN3", "IN4", "EN1", "EN2"}
LedReg   == {"RED", "GREEN", "BLUE"}
PlainReg == {"IN1", "IN2", "IN3", "IN4", "TOP"}
PwmReg   == {"EN1", "EN2", "BUZ"} \cup LedReg
Reg      == PlainReg \cup PwmReg

\* The order in which the drivers write: a move or stop_car writes the first
\* six, set_rgb_color the next three, buzzer_sound the last two.
Order == <<"IN1", "IN2", "IN3", "IN4", "EN1", "EN2",
           "RED", "GREEN", "BLUE", "TOP", "BUZ">>

-----------------------------------------------------------------------------
Bridges(in1, in2, in3, in4, en1, en2) ==
  [IN1 |-> in1, IN2 |-> in2, IN3 |-> in3, IN4 |-> in4,
   EN1 |-> Bits(en1), EN2 |-> Bits(en2)]

move_backward(speed) ==
  Bridges(High, Low, Low, High, (speed \div 2) + 15, speed \div 2)

\* Faulty: the speed is not halved.
move_forward_Unhalved(speed) ==
  Bridges(Low, High, High, Low, speed + 18, speed \div 2)

move_forward(speed) ==
  Bridges(Low, High, High, Low, (speed \div 2) + 18, speed \div 2)

\* Faulty: the inputs of the first bridge are swapped.
move_left_OnTheSpot(speed) ==
  Bridges(High, Low, High, Low, (speed \div 2) + 24, speed \div 2)

move_left(speed) ==
  Bridges(Low, High, High, Low, (speed \div 2) + 24, speed \div 2)

move_right(speed) ==
  Bridges(Low, High, High, Low, (speed \div 2) + 18, (speed \div 2) + 6)

\* Faulty: the second bridge is left driving.
stop_car_HalfDone == Bridges(Low, Low, High, Low, 0, 125)

stop_car == Bridges(Low, Low, Low, Low, 0, 0)

set_rgb_color(red, green, blue) ==
  [RED |-> Bits(red), GREEN |-> Bits(green), BLUE |-> Bits(blue)]

\* The first half of buzzer_sound: the tone is set up and starts.  The caller
\* then sleeps, and the second half is buzzer_off.
Wrap(frequency) == 125000000 \div frequency

buzzer_start(frequency) ==
  [TOP |-> Bits(Wrap(frequency)), BUZ |-> Bits(Wrap(frequency) \div 2)]

buzzer_on  == [BUZ |-> Bits(500)]
buzzer_off == [BUZ |-> Low]

\* Two calls, one after the other: they write different registers.
f ++ g == [r \in DOMAIN f \cup DOMAIN g |->
             IF r \in DOMAIN f THEN f[r] ELSE g[r]]

\* The registers after the three init functions.  motor_init leaves the motors'
\* registers as the reset did.
motor_init   == [r \in MotorReg |-> Low]
buzzer_init  == [TOP |-> Bits(1000), BUZ |-> Low]
rgb_led_init == set_rgb_color(0, 0, 0)

InitialReg == motor_init ++ buzzer_init ++ rgb_led_init

\* The registers after the call w, made where nothing can come between its
\* accesses.
Apply(regs, w) == [r \in Reg |-> IF r \in DOMAIN w THEN w[r] ELSE regs[r]]

-----------------------------------------------------------------------------
(***************************************************************************)
(* What the H-bridges make of the registers.  A motor turns when its two   *)
(* inputs differ and its duty cycle is not zero.                           *)
(***************************************************************************)
TurnsForward(regs) ==
  \/ regs["IN1"] = Low /\ regs["IN2"] = High /\ regs["EN1"] # {}
  \/ regs["IN3"] = High /\ regs["IN4"] = Low /\ regs["EN2"] # {}

TurnsBackward(regs) ==
  \/ regs["IN1"] = High /\ regs["IN2"] = Low /\ regs["EN1"] # {}
  \/ regs["IN3"] = Low /\ regs["IN4"] = High /\ regs["EN2"] # {}
=============================================================================

-------------------------------- MODULE Car --------------------------------
(***************************************************************************)
(* The car's firmware: the main loop of main.c and the CGI handler of      *)
(* cgi.h, which share the four is_moving_* flags, the ultrasonic sensor    *)
(* and the output registers, with no lock.                                 *)
(*                                                                         *)
(* Both run on one core.  The lwIP stack runs in the background            *)
(* (pico_cyw43_arch_lwip_threadsafe_background, CMakeLists.txt:113): a     *)
(* request is served in an interrupt, which preempts the main loop between *)
(* any two of its accesses and runs to its end before the loop resumes.    *)
(* Hence every access of the loop to shared state is a step of its own,    *)
(* while the handler is cut only where it sleeps and the world may move.   *)
(***************************************************************************)
EXTENDS Drivers

CONSTANTS
  Distance,   \* the distances, in cm, an obstacle ahead may be at
  Commands,   \* the name=value parameters the requests carry
  MaxParams   \* bound: the number of parameters of one request

AllCommands ==
  {"motor=forward", "motor=backward", "motor=left", "motor=right",
   "motor=stop", "motor=other", "buzzer=on", "buzzer=off",
   "rgbled=red", "rgbled=green", "rgbled=blue", "rgbled=off",
   "led=0", "led=1", "other"}

ASSUME DistanceAssumption == Distance \subseteq Nat /\ Distance # {}
ASSUME CommandsAssumption == Commands \subseteq AllCommands /\ Commands # {}
ASSUME MaxParamsAssumption == MaxParams \in Nat

VARIABLES
  pc,         \* where the main loop is
  goal,       \* the calls it is making, "none" when it writes nothing
  k,          \* its next register, an index of Order
  latched,    \* it has read a compare level it is about to flip ...
  latch,      \* ... and this is what it read
  distance,   \* main's local distance
  moving,     \* the set of those of the four is_moving_* flags that are true
  reg,        \* the output registers
  led,        \* the Wi-Fi chip's LED
  params,     \* parameters the handler has still to process, 0: not running
  beeping,    \* the handler sleeps inside buzzer_sound
  ahead,      \* environment: the true distance ahead
  echo,       \* whose late echo the next measurement would hear, if any
  raced       \* history: a command came between main's test and its effect

mainVars    == <<pc, goal, k, latched, latch, distance>>
handlerVars == <<params, beeping>>
vars == <<mainVars, moving, reg, led, handlerVars, ahead, echo, raced>>

-----------------------------------------------------------------------------
(***************************************************************************)
(* The sensor.  ECHO is high for 2 * d / 0.0343 microseconds and the wait  *)
(* for its fall gives up after 20 ms, that is beyond 343 cm.  Below 2 cm   *)
(* the result is invalid.  Both come back as -1.                           *)
(***************************************************************************)
Open(d) == d > 343

Measured(d) == IF d < 2 \/ Open(d) THEN -1 ELSE d

\* What a measurement returns that was preempted, or that found ECHO still
\* high from an earlier one: any duration up to the limit of 400 cm.
Disturbed == {-1} \cup {d \in Distance : 2 <= d /\ d <= 400}

Reading == IF echo = "quiet" THEN {Measured(ahead)} ELSE Disturbed

\* A measurement that gave up leaves ECHO high for a while.
EchoLeftBy(who) == IF Open(ahead) THEN who ELSE "quiet"

-----------------------------------------------------------------------------
(***************************************************************************)
(* The calls of the main loop: the registers they write and their values,  *)
(* from the first to the last index of Order, and where the loop goes next.*)
(***************************************************************************)
Speed == 250

Drive == {"forward", "left", "right"}
Goal  == Drive \cup {"stop", "hush"}

Target ==
  [forward |-> move_forward(Speed) ++ set_rgb_color(0, 255, 0),
   left    |-> move_left(Speed)    ++ set_rgb_color(0, 255, 0),
   right   |-> move_right(Speed)   ++ set_rgb_color(0, 255, 0),
   stop    |-> stop_car ++ set_rgb_color(0, 0, 255) ++ buzzer_start(25000),
   hush    |-> buzzer_off]

FirstWrite(g) == IF g = "hush" THEN 11 ELSE 1

\* Faulty: a drive leaves the lamp as it is.
LastWrite_NoLamp(g) == IF g \in Drive THEN 6 ELSE 11

LastWrite(g) == IF g \in Drive THEN 9 ELSE 11

AfterWrites(g) ==
  CASE g \in Drive -> "sleep"
    [] g = "stop"  -> "beep"
    [] g = "hush"  -> "clear"

Pc == {"ping", "check", "left", "right", "write", "beep", "clear", "sleep"}

Flag == {"forward", "left", "right", "backward"}

\* From the loop's test of is_moving_forward to the end of what it decided.
Window == pc \in {"left", "right", "write", "beep", "clear"}

Init ==
  /\ pc = "ping" /\ goal = "none" /\ k = 1
  /\ latched = FALSE /\ latch = Low
  /\ distance = -1
  /\ moving = {}
  /\ reg = InitialReg
  /\ led = 0
  /\ params = 0 /\ beeping = FALSE
  /\ ahead \in Distance
  /\ echo = "quiet"
  /\ raced = FALSE

-----------------------------------------------------------------------------
(***************************************************************************)
(* The main loop.  It runs only while no request is being served.          *)
(***************************************************************************)
Goto(next) ==
  /\ pc' = next
  /\ UNCHANGED <<goal, k, latched, latch>>

Begin(g) ==
  /\ pc' = "write" /\ goal' = g /\ k' = FirstWrite(g)
  /\ UNCHANGED <<latched, latch>>

Measure ==
  /\ pc = "ping"
  /\ distance' \in Reading
  /\ echo' = EchoLeftBy("main")
  /\ Goto("check")
  /\ UNCHANGED <<moving, reg, raced>>

\* Faulty: half the distance counts as free.
Check_TooClose ==
  /\ pc = "check"
  /\ \/ "forward" \notin moving /\ Goto("sleep") /\ UNCHANGED raced
     \/ /\ "forward" \in moving
        /\ raced' = FALSE
        /\ IF distance < 5 THEN Begin("stop") ELSE Goto("left")
  /\ UNCHANGED <<distance, moving, reg, echo>>

Check ==
  /\ pc = "check"
  /\ \/ "forward" \notin moving /\ Goto("sleep") /\ UNCHANGED raced
     \/ /\ "forward" \in moving
        /\ raced' = FALSE
        /\ IF distance < 10 THEN Begin("stop") ELSE Goto("left")
  /\ UNCHANGED <<distance, moving, reg, echo>>

CheckLeft ==
  /\ pc = "left"
  /\ IF "left" \in moving THEN Begin("left") ELSE Goto("right")
  /\ UNCHANGED <<distance, moving, reg, echo, raced>>

\* Faulty: the test of is_moving_right is missing.
CheckRight_Missing ==
  /\ pc = "right"
  /\ Begin("forward")
  /\ UNCHANGED <<distance, moving, reg, echo, raced>>

CheckRight ==
  /\ pc = "right"
  /\ Begin(IF "right" \in moving THEN "right" ELSE "forward")
  /\ UNCHANGED <<distance, moving, reg, echo, raced>>

\* The write of the k-th register is done.
Advance ==
  /\ latched' = FALSE /\ latch' = Low
  /\ IF k = LastWrite(goal)
     THEN pc' = AfterWrites(goal) /\ goal' = "none" /\ k' = 1
     ELSE pc' = pc /\ goal' = goal /\ k' = k + 1

Store ==
  /\ pc = "write" /\ Order[k] \in PlainReg
  /\ reg' = [reg EXCEPT ![Order[k]] = Target[goal][Order[k]]]
  /\ Advance
  /\ UNCHANGED <<distance, moving, echo, raced>>

\* Faulty: the level is taken to be zero.
Fetch_Unread ==
  /\ pc = "write" /\ Order[k] \in PwmReg /\ ~latched
  /\ latched' = TRUE /\ latch' = Low
  /\ UNCHANGED <<pc, goal, k, distance, moving, reg, echo, raced>>

\* pwm_set_gpio_level: read the level ...
Fetch ==
  /\ pc = "write" /\ Order[k] \in PwmReg /\ ~latched
  /\ latched' = TRUE /\ latch' = reg[Order[k]]
  /\ UNCHANGED <<pc, goal, k, distance, moving, reg, echo, raced>>

\* ... and flip the bits in which what was read differs from the new level.
Flip ==
  /\ pc = "write" /\ latched
  /\ reg' = [reg EXCEPT ![Order[k]] =
               Xor(@, Xor(latch, Target[goal][Order[k]]))]
  /\ Advance
  /\ UNCHANGED <<distance, moving, echo, raced>>

BeepDone ==
  /\ pc = "beep"
  /\ Begin("hush")
  /\ UNCHANGED <<distance, moving, reg, echo, raced>>

\* Faulty: the flag is not reset.
Clear_Forgotten ==
  /\ pc = "clear"
  /\ Goto("sleep")
  /\ UNCHANGED <<distance, moving, reg, echo, raced>>

Clear ==
  /\ pc = "clear"
  /\ moving' = moving \ {"forward"}
  /\ Goto("sleep")
  /\ UNCHANGED <<distance, reg, echo, raced>>

\* After 100 ms only an echo the handler provoked meanwhile can still be there.
Wake ==
  /\ pc = "sleep"
  /\ Goto("ping")
  /\ echo' \in {"quiet"} \cup ({echo} \cap {"handler"})
  /\ UNCHANGED <<distance, moving, reg, raced>>

MainStep ==
  /\ params = 0
  /\ \/ Measure \/ Check \/ CheckLeft \/ CheckRight \/ Store \/ Fetch
     \/ Flip \/ BeepDone \/ Clear \/ Wake
  /\ UNCHANGED <<led, handlerVars, ahead>>

-----------------------------------------------------------------------------
(***************************************************************************)
(* The CGI handler.                                                        *)
(***************************************************************************)

\* The interrupt: n parameters are to be processed (none: the traffic did not
\* call the handler).  Whatever it does, it delays a measurement of the loop.
Request(n) ==
  /\ params = 0
  /\ params' = n
  /\ echo' = IF pc = "ping" THEN "handler" ELSE echo
  /\ UNCHANGED <<mainVars, moving, reg, led, beeping, ahead, raced>>

\* What a motor parameter makes the handler write, up to its end or its sleep.
RefuseCall   == stop_car ++ set_rgb_color(0, 0, 255) ++ buzzer_start(25000)
ForwardCall  == move_forward(Speed) ++ buzzer_off ++ set_rgb_color(0, 255, 0)
BackwardCall == set_rgb_color(255, 0, 0) ++ move_backward(Speed)
                                         ++ buzzer_start(10000)
LeftCall     == set_rgb_color(0, 255, 0) ++ move_left(Speed) ++ buzzer_off
RightCall    == move_right(Speed) ++ buzzer_off ++ set_rgb_color(0, 255, 0)
StopCall     == set_rgb_color(0, 0, 255) ++ stop_car

\* Faulty: the index is advanced twice.
Processed_Twice == params' = params - 2 /\ UNCHANGED beeping

\* A parameter is done with: the loop over the parameters goes on.
Processed == params' = params - 1 /\ UNCHANGED beeping

\* The parameter is not done with: the handler sleeps in buzzer_sound.
Sounding == beeping' = TRUE /\ UNCHANGED params

\* A command has come: into the loop's window, or outside it.
Raced == raced' \in BOOLEAN /\ (raced' <=> Window)

\* "forward" with an obstacle ahead, or no valid reading ...
Refuse ==
  /\ "motor=forward" \in Commands
  /\ \E d \in Reading : d < 10
  /\ moving' = {}
  /\ reg' = Apply(reg, RefuseCall)
  /\ Sounding
  /\ Raced
  /\ echo' = EchoLeftBy("handler")
  /\ UNCHANGED led

\* Faulty: the flags of the last move are not reset.
Forward_Stale ==
  /\ "motor=forward" \in Commands
  /\ \E d \in Reading : ~(d < 10)
  /\ moving' = moving \cup {"forward"}
  /\ reg' = Apply(reg, ForwardCall)
  /\ Processed
  /\ Raced
  /\ echo' = EchoLeftBy("handler")
  /\ UNCHANGED led

\* ... and with the road free.
Forward ==
  /\ "motor=forward" \in Commands
  /\ \E d \in Reading : ~(d < 10)
  /\ moving' = {"forward"}
  /\ reg' = Apply(reg, ForwardCall)
  /\ Processed
  /\ Raced
  /\ echo' = EchoLeftBy("handler")
  /\ UNCHANGED led

\* Faulty: is_moving_forward stays set, as every motor parameter sets it.
Backward_Armed ==
  /\ "motor=backward" \in Commands
  /\ moving' = {"forward", "backward"}
  /\ reg' = Apply(reg, BackwardCall)
  /\ Sounding
  /\ Raced
  /\ UNCHANGED <<led, echo>>

Backward ==
  /\ "motor=backward" \in Commands
  /\ moving' = {"backward"}
  /\ reg' = Apply(reg, BackwardCall)
  /\ Sounding
  /\ Raced
  /\ UNCHANGED <<led, echo>>

Left ==
  /\ "motor=left" \in Commands
  /\ moving' = {"forward", "left"}
  /\ reg' = Apply(reg, LeftCall)
  /\ Processed
  /\ Raced
  /\ UNCHANGED <<led, echo>>

Right ==
  /\ "motor=right" \in Commands
  /\ moving' = {"forward", "right"}
  /\ reg' = Apply(reg, RightCall)
  /\ Processed
  /\ Raced
  /\ UNCHANGED <<led, echo>>

\* Faulty: the loop is not disarmed.
Stop_Armed ==
  /\ "motor=stop" \in Commands
  /\ reg' = Apply(reg, StopCall)
  /\ Processed
  /\ Raced
  /\ UNCHANGED <<moving, led, echo>>

Stop ==
  /\ "motor=stop" \in Commands
  /\ moving' = {}
  /\ reg' = Apply(reg, StopCall)
  /\ Processed
  /\ Raced
  /\ UNCHANGED <<led, echo>>

\* Any other value of "motor" has set is_moving_forward and does nothing else.
OtherMotor ==
  /\ "motor=other" \in Commands
  /\ moving' = moving \cup {"forward"}
  /\ Processed
  /\ UNCHANGED <<reg, led, echo, raced>>

Buzzer ==
  /\ \/ "buzzer=on" \in Commands /\ reg' = Apply(reg, buzzer_on)
     \/ "buzzer=off" \in Commands /\ reg' = Apply(reg, buzzer_off)
  /\ Processed
  /\ UNCHANGED <<moving, led, echo, raced>>

\* As in the code, "red" lights the third channel and "blue" the first.
Color == [x \in {"rgbled=red", "rgbled=green", "rgbled=blue", "rgbled=off"} |->
            CASE x = "rgbled=red"   -> set_rgb_color(0, 0, 255)
              [] x = "rgbled=green" -> set_rgb_color(0, 255, 0)
              [] x = "rgbled=blue"  -> set_rgb_color(255, 0, 0)
              [] x = "rgbled=off"   -> set_rgb_color(0, 0, 0)]

Rgbled ==
  /\ \E c \in Commands \cap DOMAIN Color : reg' = Apply(reg, Color[c])
  /\ Processed
  /\ UNCHANGED <<moving, led, echo, raced>>

Led ==
  /\ \/ "led=0" \in Commands /\ led' = 0
     \/ "led=1" \in Commands /\ led' = 1
  /\ Processed
  /\ UNCHANGED <<moving, reg, echo, raced>>

\* An unknown parameter, or a known one other than motor with an unknown value.
Other ==
  /\ "other" \in Commands
  /\ Processed
  /\ UNCHANGED <<moving, reg, led, echo, raced>>

\* One parameter, up to its end or to the sleep in buzzer_sound.
Process ==
  /\ params > 0 /\ ~beeping
  /\ \/ Refuse \/ Forward \/ Backward \/ Left \/ Right \/ Stop
     \/ OtherMotor \/ Buzzer \/ Rgbled \/ Led \/ Other
  /\ UNCHANGED <<mainVars, ahead>>

\* buzzer_sound wakes up: by now no echo is left but for the loop's own
\* interrupted measurement.
BeepEnd ==
  /\ beeping
  /\ beeping' = FALSE
  /\ params' = params - 1
  /\ reg' = Apply(reg, buzzer_off)
  /\ echo' = IF pc = "ping" THEN "handler" ELSE "quiet"
  /\ UNCHANGED <<mainVars, moving, led, ahead, raced>>

HandlerStep == Process \/ BeepEnd

-----------------------------------------------------------------------------
\* The environment: whatever is ahead of the car comes or goes.
Move ==
  /\ ahead' \in Distance
  /\ UNCHANGED <<mainVars, moving, reg, led, handlerVars, echo, raced>>

Next ==
  \/ MainStep
  \/ \E n \in 0 .. MaxParams : Request(n)
  \/ HandlerStep
  \/ Move

Spec == Init /\ [][Next]_vars

\* The loop runs whenever no interrupt is being served, and an interrupt that
\* has begun is served to its end.  Nobody is obliged to send a request.
Fairness == WF_vars(MainStep) /\ WF_vars(HandlerStep)

FairSpec == Spec /\ Fairness
-----------------------------------------------------------------------------
(***************************************************************************)
(* Properties.                                                             *)
(***************************************************************************)

\* The type of every variable; the main loop writes a register of the calls it
\* is making, and is halfway through an update only of a compare level.
TypeOK ==
  /\ pc \in Pc
  /\ IF pc = "write"
     THEN goal \in Goal /\ k \in FirstWrite(goal) .. LastWrite(goal)
     ELSE goal = "none" /\ k = 1
  /\ latched \in BOOLEAN /\ latch \in SUBSET Bit
  /\ latched => pc = "write" /\ Order[k] \in PwmReg
  /\ distance \in {-1} \cup Distance
  /\ moving \subseteq Flag
  /\ reg \in [Reg -> SUBSET Bit]
  /\ led \in {0, 1}
  /\ params \in 0 .. MaxParams
  /\ beeping \in BOOLEAN /\ (beeping => params > 0)
  /\ ahead \in Distance
  /\ echo \in {"quiet", "main", "handler"}
  /\ raced \in BOOLEAN

\* Wheels that turn forward are under guard: unless a command came into the
\* loop's window, a motor turns forward only while is_moving_forward is set,
\* so that the loop (main.c:222) goes on watching for an obstacle.
Armed == ~raced /\ TurnsForward(reg) => "forward" \in moving

\* Unless a command came into the loop's window, the motors hold one whole
\* driver call whenever the loop is outside it: the two sides never leave a
\* mixture of their calls (motor_driver.c:36-97), nor a torn duty cycle.
Calls == {stop_car, move_forward(Speed), move_backward(Speed),
          move_left(Speed), move_right(Speed)}

Motors == [r \in MotorReg |-> reg[r]]

WholeCall == ~raced /\ ~Window => Motors \in Calls

\* The move the flags say.
FlagMove ==
  IF "left" \in moving THEN move_left(Speed)
  ELSE IF "right" \in moving THEN move_right(Speed)
  ELSE move_forward(Speed)

\* While no request arms the loop by an unknown motor value: unless a command
\* came into the loop's window, an armed car moves as the flags say whenever the
\* loop is outside it; no flag outlives its move, and the loop puts no other
\* move in its place (main.c:222-240, cgi.h:27-89).
SteersAsFlagged == ~raced /\ ~Window /\ "forward" \in moving => Motors = FlagMove

\* While no request paints the lamp, it tells how the car moves: whenever the
\* loop is outside its window and no command came into it, the second channel
\* shines on a car that drives forward, the first on one that goes back.
Lamp == [r \in LedReg |-> reg[r]]

LampTells ==
  ~raced /\ ~Window =>
    /\ TurnsForward(reg)  => Lamp = set_rgb_color(0, 255, 0)
    /\ TurnsBackward(reg) => Lamp = set_rgb_color(255, 0, 0)

\* The handler sleeps only with the car halted or going back: the time in
\* which the loop cannot watch the road (cgi.h:39, 57) is never spent driving
\* forward.
BeepsAtRest == beeping => ~TurnsForward(reg) /\ "forward" \notin moving

\* The duty cycle stays in 0..255 (motor_driver.c:15) even when an interrupt
\* falls between the two accesses of an update and the flip garbles the level.
DutyInRange == \A r \in {"EN1", "EN2"} : reg[r] \subseteq 0 .. 7

\* The loop sets no standing wheel turning forward unless its own measurement
\* of this turn saw 10 cm or more of free road (main.c:223), torn or not.
ClearReadingStarts ==
  [][MainStep /\ ~TurnsForward(reg) /\ TurnsForward(reg')
       => distance >= 10]_vars

\* The loop never sets a wheel turning backward, not even halfway through a
\* call that the handler cut and overwrote.
MainNeverReverses ==
  [][MainStep /\ TurnsBackward(reg') => TurnsBackward(reg)]_vars

-----------------------------------------------------------------------------
Idle == params = 0

\* An obstacle the car has to stop for, whatever the sensor makes of it.
Near == ahead < 10

\* A free road of which the sensor can tell so.
Free == Measured(ahead) >= 10

\* No request is being served, nor does the traffic disturb the measurements.
Quiet == Idle /\ echo # "handler"

\* If the traffic ceases and an obstacle stays ahead, the car disarms itself and,
\* unless a command had come into the loop's window, stands (main.c:222-228).
ObstacleHalts ==
  <>[](Quiet /\ Near)
    => <>[]("forward" \notin moving /\ (raced \/ ~TurnsForward(reg)))

\* If the traffic ceases and the road stays free within the sensor's reach, an
\* armed car ends up driving exactly as the flags say, under a green lamp:
\* whatever the handler tore or repainted, the loop rewrites (main.c:229-242).
Steered == Motors = FlagMove /\ Lamp = set_rgb_color(0, 255, 0)

Heals == <>[](Quiet /\ Free) => <>[]("forward" \in moving => Steered)

-----------------------------------------------------------------------------
(***************************************************************************)
(* The car as a plan to go on or to halt, with the registers left out.     *)
(***************************************************************************)
Deciding ==
  IF ~Window THEN "none"
  ELSE IF pc \in {"beep", "clear"} \/ goal \in {"stop", "hush"} THEN "halt"
  ELSE "go"

Drives == INSTANCE Drive WITH
  armed <- "forward" \in moving, forth <- TurnsForward(reg),
  back  <- TurnsBackward(reg), plan <- Deciding

\* The firmware implements Drive (main.c:219-244, cgi.h:27-89): register by
\* register, torn or overwritten, the wheels do what the last command or the
\* plan of the loop says, and a command that races a plan spoils no other.
DriveOK == Drives!Spec

-----------------------------------------------------------------------------
(***************************************************************************)
(* What comments say of the program, and the code does not do.             *)
(***************************************************************************)

\* main.c:224 "Only stop if obstacle detected while moving forward": an
\* obstacle that stays stops a car that moves forward.
ObstacleStops == <>[](Quiet /\ Near) => <>[](~TurnsForward(reg))

\* main.c:238 "Keep moving forward if no obstacle": an armed car that moves
\* forward as the loop begins a turn goes on, if from then on no request comes
\* and nothing is within 10 cm of it, be it within the sensor's range or not.
KeepsMoving ==
  [](pc = "ping" /\ moving = {"forward"} /\ TurnsForward(reg)
       /\ [](Quiet /\ ~Near)
     => []TurnsForward(reg))

\* buzzer.c:45 "Turn off the buzzer after the sound duration".
OffAfterSound == Idle /\ pc = "clear" => reg["BUZ"] = Low
=============================================================================

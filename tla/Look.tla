-------------------------------- MODULE Look --------------------------------
(***************************************************************************)
(* The main loop of the glasses, main.c:106-148: in each turn it reads the *)
(* eye sensor and the gyroscope, reads the infrared sensor up to three     *)
(* times, and sends one command.  The sensors change between any two reads *)
(* of a turn, and a turn takes seconds.                                    *)
(*                                                                         *)
(* The gyroscope driver is what Dial promises, the Wi-Fi code what Post    *)
(* does.                                                                   *)
(***************************************************************************)
EXTENDS Integers, Sequences

CONSTANTS
  Reading,    \* the readings of the eye sensor's 12-bit ADC
  Unposted    \* bound: commands on their way

ASSUME ReadingAssumption == Reading \subseteq 0 .. 4095 /\ Reading # {}
ASSUME UnpostedAssumption == Unposted \in Nat \ {0}

VARIABLES
  at,                             \* where the loop is
  sensor_value,                   \* its reading of the eye
  isIR,
  heading,                        \* the gyroscope driver's currentState
  eye,                            \* environment: what the eye sensor sees
  object,                         \* environment: the infrared sensor sees one
  request, open, queue, got,      \* of Post
  flicker,    \* history: the object left or came between the first two reads
  last        \* history: the last command but for the stops of a blink

sensors == <<eye, object>>
post == <<request, open, queue, got>>
glasses == <<at, sensor_value, isIR, heading, flicker, last>>

-----------------------------------------------------------------------------
Dial == INSTANCE Dial WITH still <- FALSE

CarCommand == {"stop", "forward", "left", "right", "backward"}

Post == INSTANCE Post WITH Command <- CarCommand

EYE_BLINK_THRESHOLD == 4095

\* Faulty: the comparison is the wrong way round.
eye_detect_blink_Reversed == sensor_value > EYE_BLINK_THRESHOLD

eye_detect_blink == sensor_value < EYE_BLINK_THRESHOLD

ir_sensor_detected == object

\* Faulty: the position is sent for the command.
Steer_Position(state) == state

\* The command for the head's position.
Steer(state) ==
  CASE state = "left"   -> "left"
    [] state = "right"  -> "right"
    [] state = "center" -> "forward"
    [] OTHER            -> "stop"

\* Its places.  At the last three it waits for the end of the request it has
\* begun, and reads the infrared sensor once more at the end of the last two.
Place == {"look", "test", "second", "stopping", "driving", "reversing"}

Init ==
  /\ at = "look" /\ sensor_value = 0 /\ isIR = FALSE /\ heading = "center"
  /\ eye \in Reading /\ object \in BOOLEAN
  /\ Post!Init
  /\ flicker = FALSE /\ last = "none"

-----------------------------------------------------------------------------
\* The eye is read, and processGyroscopeData is called.
Read ==
  /\ at = "look" /\ at' = "test"
  /\ sensor_value' = eye
  /\ heading' \in {heading} \cup {Dial!Turned(heading, side) : side \in {"left", "right"}}
  /\ UNCHANGED <<sensors, post, isIR, flicker, last>>

Blink ==
  /\ at = "test" /\ eye_detect_blink
  /\ Post!Begin("stop") /\ at' = "stopping"
  /\ UNCHANGED <<sensors, sensor_value, isIR, heading, flicker, last>>

\* The first read of the infrared sensor finds a new object ...
Detect ==
  /\ at = "test" /\ ~eye_detect_blink /\ ir_sensor_detected /\ ~isIR
  /\ at' = "second" /\ flicker' = FALSE
  /\ UNCHANGED <<sensors, post, sensor_value, isIR, heading, last>>

\* ... or none, or the one it has found before.
Reverse ==
  /\ at = "test" /\ ~eye_detect_blink /\ ~(ir_sensor_detected /\ ~isIR)
  /\ Post!Begin("backward") /\ at' = "reversing"
  /\ last' = "backward" /\ flicker' = FALSE
  /\ UNCHANGED <<sensors, sensor_value, isIR, heading>>

\* Faulty: the object found is not remembered.
Steered_Forgotten ==
  /\ at = "second" /\ at' = "driving"
  /\ Post!Begin(Steer(heading)) /\ last' = Steer(heading)
  /\ UNCHANGED <<sensors, sensor_value, isIR, heading, flicker>>

\* The object is remembered if it is still there, and the head steers.
Steered ==
  /\ at = "second" /\ at' = "driving"
  /\ isIR' = (isIR \/ ir_sensor_detected)
  /\ Post!Begin(Steer(heading)) /\ last' = Steer(heading)
  /\ UNCHANGED <<sensors, sensor_value, heading, flicker>>

\* Faulty: once set, isIR stays set.
Answered_Found ==
  /\ at \in {"stopping", "driving", "reversing"} /\ ~open
  /\ at' = "look"
  /\ isIR' = (isIR \/ (at = "driving" /\ ir_sensor_detected))
  /\ UNCHANGED <<sensors, post, sensor_value, heading, flicker, last>>

\* send_http_request has returned.
Answered ==
  /\ at \in {"stopping", "driving", "reversing"} /\ ~open
  /\ at' = "look"
  /\ isIR' = CASE at = "stopping"  -> isIR
               [] at = "driving"   -> isIR \/ ir_sensor_detected
               [] at = "reversing" -> isIR /\ ~ir_sensor_detected
  /\ UNCHANGED <<sensors, post, sensor_value, heading, flicker, last>>

Loop == Read \/ Blink \/ Detect \/ Reverse \/ Steered \/ Answered

-----------------------------------------------------------------------------
\* send_http_request and the network.
Send == Post!Send /\ Len(queue) < Unposted /\ UNCHANGED <<sensors, glasses>>

GiveUp == Post!GiveUp /\ UNCHANGED <<sensors, glasses>>

Lose == Post!Lose /\ UNCHANGED <<sensors, glasses>>

\* The world before the sensors.
Sight ==
  /\ eye' \in Reading /\ object' \in BOOLEAN
  /\ flicker' = (flicker \/ (object' # object /\ at = "second"))
  /\ UNCHANGED <<post, at, sensor_value, isIR, heading, last>>
=============================================================================

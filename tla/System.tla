------------------------------- MODULE System -------------------------------
(***************************************************************************)
(* The glasses and the car together: the loop of the glasses (Look) sends  *)
(* its commands through what the Wi-Fi code promises (Post) to what the    *)
(* car's firmware promises (Drive).                                        *)
(***************************************************************************)
EXTENDS Look

VARIABLES
  armed, forth, back, plan, raced,    \* of Drive
  obeyed                              \* history: the command obeyed last

wheels == <<armed, forth, back, plan, raced>>
vars == <<sensors, post, glasses, wheels, obeyed>>

Drive == INSTANCE Drive

SystemInit == Init /\ Drive!Init /\ obeyed = "none"

\* A request reaches the car and is served there.
Obey ==
  /\ Post!Deliver
  /\ Drive!Obey(Head(queue)) /\ obeyed' = Head(queue)
  /\ UNCHANGED <<sensors, glasses>>

Glasses == (Loop \/ Send \/ GiveUp \/ Lose \/ Sight) /\ UNCHANGED <<wheels, obeyed>>

Car == Drive!Loop /\ UNCHANGED <<sensors, post, glasses, obeyed>>

Next == Glasses \/ Obey \/ Car

Spec == SystemInit /\ [][Next]_vars

FairSpec ==
  /\ Spec
  /\ WF_vars(Loop /\ UNCHANGED <<wheels, obeyed>>)
  /\ WF_vars((Send \/ GiveUp) /\ UNCHANGED <<wheels, obeyed>>)
  /\ WF_vars(Drive!Plan /\ UNCHANGED <<sensors, post, glasses, obeyed>>)
  /\ WF_vars(Drive!Finish /\ UNCHANGED <<sensors, post, glasses, obeyed>>)

-----------------------------------------------------------------------------
DriveCommand == {"forward", "left", "right"}

TypeOK ==
  /\ at \in Place /\ sensor_value \in Reading \cup {0} /\ isIR \in BOOLEAN
  /\ heading \in Dial!Heading
  /\ eye \in Reading /\ object \in BOOLEAN
  /\ request \in CarCommand \cup {"none"} /\ open \in BOOLEAN
  /\ queue \in Seq(CarCommand) /\ Len(queue) <= Unposted
  /\ got \in CarCommand \cup {"none"}
  /\ flicker \in BOOLEAN /\ last \in CarCommand \cup {"none"}
  /\ {armed, forth, back, raced} \subseteq BOOLEAN
  /\ plan \in {"go", "halt", "none"}
  /\ obeyed \in CarCommand \cup {"none"}

\* The car does what the wearer's last command to reach it says, and nothing
\* the loop has planned since then undoes it, unless the command came while a
\* plan was being carried out (main.c:222-242, cgi.h:27-89): after a stop it
\* stands, after a backward it goes back, after a drive it goes forward or
\* stands before an obstacle.
AsTold ==
  ~raced =>
    /\ obeyed \in {"stop", "none"} => ~forth /\ ~back
    /\ obeyed = "backward" => ~forth /\ back
    /\ obeyed \in DriveCommand => ~back

\* The toggle isIR (main.c:116-145): between two drives the glasses ask for a
\* backward, whatever is asked for in blinks, comes and goes, and however long
\* a request takes, unless the object came or went just between the test and
\* the line behind it (main.c:116, 118).
Alternates ==
  [][at = "test" /\ at' = "second" => last \notin DriveCommand \/ flicker]_vars

-----------------------------------------------------------------------------
\* What Resync of Glasses says of a calm modem: once a turn is over, the car
\* has got its command.
Reliable == <>[](at \in {"look", "test", "second"} => got = request)

Open == eye >= EYE_BLINK_THRESHOLD

\* If the eye stays below the threshold, the car stands in the end and keeps
\* standing, wherever the loops of both programs were (main.c:110-114).  With the
\* threshold at the ADC's largest value that is any reading but one (eye.c:19).
EyeStops == Reliable /\ <>[]~Open => <>[](~forth /\ ~back)

\* If the eye stays open and an object stays before the infrared sensor, the
\* car is sent to and fro for ever: the object is found, and forgotten after
\* one backward (main.c:116-145).
RoundTrips ==
  Reliable /\ <>[](Open /\ object) =>
     []<>(got \in DriveCommand) /\ []<>(got = "backward")

\* If the eye stays open and no object is there, the car ends up going back
\* (main.c:143), and the car's loop never turns it round.
Leaves == Reliable /\ <>[](Open /\ ~object) => <>[](back /\ ~forth)
=============================================================================

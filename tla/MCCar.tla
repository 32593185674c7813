------------------------------- MODULE MCCar -------------------------------
(***************************************************************************)
(* Instances of Car for TLC.  5 cm is an obstacle, 10 cm the first distance*)
(* that is none, 500 cm a road too long for the sensor (-1).               *)
(***************************************************************************)
EXTENDS Car

BoundaryDistances == {5, 10}
RoadDistances     == {5, 10, 500}

MotorCommands ==
  {"motor=forward", "motor=backward", "motor=left", "motor=right",
   "motor=stop", "motor=other"}

\* With the parameters that leave the lamp alone, for the safety properties.
RoadCommands == MotorCommands \cup {"led=0", "led=1", "buzzer=off", "other"}

\* With those the loop repaints and rewrites, for liveness.
SteerCommands ==
  (MotorCommands \ {"motor=other"}) \cup {"rgbled=red", "buzzer=on"}

\* The commands of the shortest counterexamples.
ForwardAndStop == {"motor=forward", "motor=stop"}
=============================================================================

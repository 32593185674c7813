------------------------------- MODULE Drive -------------------------------
(***************************************************************************)
(* What the car's firmware promises of its wheels, registers and driver    *)
(* calls left out: a command is obeyed at once; while is_moving_forward is *)
(* set the loop plans, again and again, to go on or to halt, and carries   *)
(* the plan out.  A command that comes while a plan is being carried out   *)
(* races it: from then to the end of the plan the two mix, but even then   *)
(* no wheel is set turning back by the loop.                               *)
(***************************************************************************)
VARIABLES
  armed,      \* is_moving_forward
  forth,      \* a wheel turns forward
  back,       \* a wheel turns backward
  plan,       \* what the loop is carrying out: "go", "halt" or "none"
  raced       \* a command came meanwhile

vars == <<armed, forth, back, plan, raced>>

Init ==
  /\ armed = FALSE /\ forth = FALSE /\ back = FALSE
  /\ plan = "none" /\ raced = FALSE

Moves(f, b) == forth' = f /\ back' = b

\* Faulty: "stop" leaves the loop armed.
Obey_StillArmed(command) ==
  /\ \/ command = "forward" /\ Moves(TRUE, FALSE) /\ armed' = TRUE
     \/ command = "forward" /\ Moves(FALSE, FALSE) /\ armed' = FALSE
     \/ command \in {"left", "right"} /\ Moves(TRUE, FALSE) /\ armed' = TRUE
     \/ command = "backward" /\ Moves(FALSE, TRUE) /\ armed' = FALSE
     \/ command = "stop" /\ Moves(FALSE, FALSE) /\ armed' = armed
  /\ raced' = (plan # "none") /\ UNCHANGED plan

\* Faulty: "backward" leaves the loop armed.
Obey_BackArmed(command) ==
  /\ \/ command = "forward" /\ Moves(TRUE, FALSE) /\ armed' = TRUE
     \/ command = "forward" /\ Moves(FALSE, FALSE) /\ armed' = FALSE
     \/ command \in {"left", "right"} /\ Moves(TRUE, FALSE) /\ armed' = TRUE
     \/ command = "backward" /\ Moves(FALSE, TRUE) /\ armed' = TRUE
     \/ command = "stop" /\ Moves(FALSE, FALSE) /\ armed' = FALSE
  /\ raced' = (plan # "none") /\ UNCHANGED plan

\* A command is obeyed at once, and what it leaves of armed and the wheels is
\* the whole of it; "forward" is refused when an obstacle is near.
Obey(command) ==
  /\ \/ command = "forward" /\ Moves(TRUE, FALSE) /\ armed' = TRUE
     \/ command = "forward" /\ Moves(FALSE, FALSE) /\ armed' = FALSE
     \/ command \in {"left", "right"} /\ Moves(TRUE, FALSE) /\ armed' = TRUE
     \/ command = "backward" /\ Moves(FALSE, TRUE) /\ armed' = FALSE
     \/ command = "stop" /\ Moves(FALSE, FALSE) /\ armed' = FALSE
  /\ raced' = (plan # "none") /\ UNCHANGED plan

\* A value of "motor" the handler does not know.
Arm == armed' = TRUE /\ UNCHANGED <<forth, back, plan, raced>>

Plan ==
  /\ plan = "none" /\ armed
  /\ plan' \in {"go", "halt"} /\ raced' = FALSE
  /\ UNCHANGED <<armed, forth, back>>

\* Some wheels are set; none of them back.
Set ==
  /\ plan # "none"
  /\ forth' \in BOOLEAN /\ back' \in BOOLEAN
  /\ back' => back

Work ==
  /\ Set
  /\ ~raced => IF plan = "go" THEN forth => forth' ELSE forth' => forth
  /\ UNCHANGED <<armed, plan, raced>>

Finish ==
  /\ Set
  /\ ~raced => ~back' /\ (forth' <=> plan = "go")
  /\ armed' = (armed /\ plan = "go")
  /\ plan' = "none" /\ UNCHANGED raced

Loop == Plan \/ Work \/ Finish

Command == {"forward", "left", "right", "backward", "stop"}

Next == (\E c \in Command : Obey(c)) \/ Arm \/ Loop

Spec == Init /\ [][Next]_vars
=============================================================================

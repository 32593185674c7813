-------------------------------- MODULE Dial --------------------------------
(***************************************************************************)
(* What the gyroscope driver promises: a dial with three positions that a  *)
(* head movement turns by one, never beyond its ends, and that nothing     *)
(* turns while the head has been still.                                    *)
(***************************************************************************)
VARIABLES
  heading,    \* the position of the dial
  still       \* the head has not moved so far

Heading == {"left", "center", "right"}

\* The dial, turned by one to a side.
Turned(position, side) ==
  IF position \in {"center", side} THEN side ELSE "center"

Init == heading = "center" /\ still \in BOOLEAN

Move == still' = FALSE /\ UNCHANGED heading

Turn ==
  /\ ~still
  /\ \E side \in {"left", "right"} : heading' = Turned(heading, side)
  /\ UNCHANGED still

Spec == Init /\ [][Move \/ Turn]_<<heading, still>>
=============================================================================

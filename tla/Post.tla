-------------------------------- MODULE Post --------------------------------
(***************************************************************************)
(* What the glasses' Wi-Fi code promises of the requests it sends: in each *)
(* turn of the loop one command is posted or given up, and the car gets    *)
(* the posted commands in their order, each at most once.  A command may   *)
(* be lost, and it may come turns late.                                    *)
(***************************************************************************)
EXTENDS Sequences

CONSTANT Command

VARIABLES
  request,    \* the command of the present turn
  open,       \* it is still to be posted
  queue,      \* commands posted and on their way
  got         \* the command the car has got last in this turn

vars == <<request, open, queue, got>>

Init == request = "none" /\ open = FALSE /\ queue = <<>> /\ got = "none"

Begin(c) ==
  /\ ~open
  /\ request' = c /\ open' = TRUE /\ got' = "none"
  /\ UNCHANGED queue

Send ==
  /\ open /\ open' = FALSE
  /\ queue' = Append(queue, request)
  /\ UNCHANGED <<request, got>>

GiveUp == open /\ open' = FALSE /\ UNCHANGED <<request, queue, got>>

Deliver ==
  /\ queue # <<>>
  /\ got' = Head(queue) /\ queue' = Tail(queue)
  /\ UNCHANGED <<request, open>>

Lose == queue # <<>> /\ queue' = Tail(queue) /\ UNCHANGED <<request, open, got>>

Next == (\E c \in Command : Begin(c)) \/ Send \/ GiveUp \/ Deliver \/ Lose

Spec == Init /\ [][Next]_vars
=============================================================================

---------------------------- MODULE SystemProofs ----------------------------
(***************************************************************************)
(* Proofs about glasses and car together, for all sets of readings and     *)
(* however many commands are on their way.                                 *)
(***************************************************************************)
EXTENDS System, TLAPS

-----------------------------------------------------------------------------
(***************************************************************************)
(* Types.                                                                  *)
(***************************************************************************)
LEMMA SteerType == \A state : Steer(state) \in CarCommand
BY DEF Steer, CarCommand

\* A head that turns stays on the dial.
LEMMA TurnedType ==
  \A p \in Dial!Heading : \A side \in {"left", "right"} :
    Dial!Turned(p, side) \in Dial!Heading
BY DEF Dial!Heading, Dial!Turned

\* The types of the glasses, of the requests and of the car.
GlassesOK ==
  /\ at \in Place /\ sensor_value \in Reading \cup {0} /\ isIR \in BOOLEAN
  /\ heading \in Dial!Heading
  /\ eye \in Reading /\ object \in BOOLEAN
  /\ flicker \in BOOLEAN /\ last \in CarCommand \cup {"none"}

PostOK ==
  /\ request \in CarCommand \cup {"none"} /\ open \in BOOLEAN
  /\ open => request \in CarCommand
  /\ queue \in Seq(CarCommand) /\ Len(queue) <= Unposted
  /\ got \in CarCommand \cup {"none"}

CarOK ==
  /\ {armed, forth, back, raced} \subseteq BOOLEAN
  /\ plan \in {"go", "halt", "none"}
  /\ obeyed \in CarCommand \cup {"none"}

TypeInv == GlassesOK /\ PostOK /\ CarOK

\* At the start, the variables have their types.
LEMMA TypeInit == SystemInit => TypeInv
<1> SUFFICES ASSUME SystemInit PROVE TypeInv
  OBVIOUS
<1>1. GlassesOK
  BY DEF SystemInit, Init, GlassesOK, Place, Dial!Heading
<1>2. PostOK
  <2>1. request = "none" /\ ~open /\ open \in BOOLEAN /\ queue = <<>> /\ got = "none"
    BY DEF SystemInit, Init, Post!Init
  <2>2. queue \in Seq(CarCommand) /\ Len(queue) <= Unposted
    BY <2>1, UnpostedAssumption
  <2> QED
    BY <2>1, <2>2 DEF PostOK
<1>3. CarOK
  BY DEF SystemInit, Drive!Init, CarOK
<1> QED
  BY <1>1, <1>2, <1>3 DEF TypeInv

\* The loop of the glasses keeps the types.
LEMMA LoopType ==
  ASSUME GlassesOK, PostOK, Loop
  PROVE  GlassesOK' /\ PostOK'
<1>1. CASE Read
  BY <1>1, TurnedType DEF Read, GlassesOK, PostOK, sensors, post, Place
<1>2. CASE Blink
  BY <1>2 DEF Blink, Post!Begin, GlassesOK, PostOK, sensors, Place, CarCommand
<1>3. CASE Detect
  BY <1>3 DEF Detect, GlassesOK, PostOK, sensors, post, Place
<1>4. CASE Reverse
  BY <1>4 DEF Reverse, Post!Begin, GlassesOK, PostOK, sensors, Place, CarCommand
<1>5. CASE Steered
  BY <1>5, SteerType
     DEF Steered, Post!Begin, GlassesOK, PostOK, sensors, Place, ir_sensor_detected
<1>6. CASE Answered
  <2>1. isIR' \in BOOLEAN
    BY <1>6 DEF Answered, GlassesOK, ir_sensor_detected
  <2> QED
    BY <1>6, <2>1 DEF Answered, GlassesOK, PostOK, sensors, post, Place
<1> QED
  BY <1>1, <1>2, <1>3, <1>4, <1>5, <1>6 DEF Loop

\* Requests on their way keep the types.
LEMMA PostType ==
  ASSUME PostOK
  PROVE  /\ Send => PostOK'
         /\ Post!GiveUp => PostOK'
         /\ Post!Lose => PostOK'
         /\ Post!Deliver => PostOK' /\ Head(queue) \in CarCommand
<1>1. ASSUME Send PROVE PostOK'
  <2>1. /\ queue' = Append(queue, request) /\ queue \in Seq(CarCommand)
        /\ request \in CarCommand /\ Len(queue) < Unposted
    BY <1>1 DEF Send, Post!Send, PostOK
  <2>2. queue' \in Seq(CarCommand) /\ Len(queue') <= Unposted
    BY <2>1, UnpostedAssumption
  <2> QED
    BY <1>1, <2>2 DEF Send, Post!Send, PostOK
<1>2. ASSUME Post!GiveUp PROVE PostOK'
  BY <1>2 DEF Post!GiveUp, PostOK
<1>3. ASSUME queue # <<>>
      PROVE  /\ Head(queue) \in CarCommand /\ Tail(queue) \in Seq(CarCommand)
             /\ Len(Tail(queue)) <= Unposted
  <2>1. queue \in Seq(CarCommand) /\ Len(queue) <= Unposted
    BY DEF PostOK
  <2> QED
    BY <1>3, <2>1, UnpostedAssumption
<1>4. ASSUME Post!Lose PROVE PostOK'
  BY <1>3, <1>4 DEF Post!Lose, PostOK
<1>5. ASSUME Post!Deliver PROVE PostOK' /\ Head(queue) \in CarCommand
  BY <1>3, <1>5 DEF Post!Deliver, PostOK
<1> QED
  BY <1>1, <1>2, <1>4, <1>5

\* The car keeps the types.
LEMMA WheelsType ==
  ASSUME CarOK
  PROVE  /\ Drive!Loop /\ UNCHANGED obeyed => CarOK'
         /\ \A c \in CarCommand : Drive!Obey(c) /\ obeyed' = c => CarOK'
<1>1. CASE Drive!Loop /\ UNCHANGED obeyed
  BY <1>1 DEF Drive!Loop, Drive!Plan, Drive!Work, Drive!Finish, Drive!Set, CarOK
<1>2. ASSUME NEW c \in CarCommand, Drive!Obey(c), obeyed' = c
      PROVE  CarOK'
  BY <1>2 DEF Drive!Obey, Drive!Moves, CarOK
<1> QED
  BY <1>1, <1>2

\* No step breaks the types.
LEMMA TypeStep ==
  ASSUME TypeInv, [Next]_vars
  PROVE  TypeInv'
<1>1. CASE Loop /\ UNCHANGED <<wheels, obeyed>>
  BY <1>1, LoopType DEF TypeInv, wheels, CarOK
<1>2. CASE (Send \/ GiveUp \/ Lose) /\ UNCHANGED <<wheels, obeyed>>
  BY <1>2, PostType
     DEF TypeInv, wheels, sensors, glasses, CarOK, GlassesOK, Send, GiveUp, Lose
<1>3. CASE Sight /\ UNCHANGED <<wheels, obeyed>>
  BY <1>3 DEF TypeInv, wheels, Sight, post, CarOK, GlassesOK, PostOK
<1>4. CASE Obey
  BY <1>4, PostType, WheelsType DEF TypeInv, Obey, sensors, glasses, GlassesOK
<1>5. CASE Car
  BY <1>5, WheelsType DEF TypeInv, Car, sensors, post, glasses, GlassesOK, PostOK
<1>6. CASE UNCHANGED vars
  BY <1>6 DEF TypeInv, vars, sensors, post, glasses, wheels, GlassesOK, PostOK, CarOK
<1> QED
  BY <1>1, <1>2, <1>3, <1>4, <1>5, <1>6 DEF Next, Glasses

\* The variables keep their types.
THEOREM TypeCorrect == Spec => []TypeOK
<1>1. TypeInv => TypeOK
  BY DEF TypeInv, TypeOK, GlassesOK, PostOK, CarOK
<1> QED
  BY <1>1, TypeInit, TypeStep, PTL DEF Spec

-----------------------------------------------------------------------------
(***************************************************************************)
(* The car does as told.                                                   *)
(***************************************************************************)
\* The loop is armed by a drive only, and carries out what a drive has asked
\* for, unless another command has come meanwhile; no wheel turns back after a
\* drive, not even then.
ToldInv ==
  /\ AsTold
  /\ armed => obeyed \in DriveCommand
  /\ ~raced /\ plan # "none" => obeyed \in DriveCommand
  /\ obeyed \in DriveCommand => ~back

\* No step breaks the invariant.
LEMMA ToldStep ==
  ASSUME TypeInv, ToldInv, [Next]_vars
  PROVE  ToldInv'
<1> USE DEF DriveCommand
<1>1. CASE Glasses \/ UNCHANGED vars
  BY <1>1 DEF Glasses, vars, wheels, ToldInv, AsTold
<1>2. CASE Obey
  <2>1. PICK c \in CarCommand : Drive!Obey(c) /\ obeyed' = c
    BY <1>2, PostType DEF Obey, TypeInv
  <2> QED
    BY <2>1 DEF Drive!Obey, Drive!Moves, ToldInv, AsTold, CarCommand, TypeInv, CarOK
<1>3. CASE Car
  <2>1. CASE Drive!Plan
    BY <1>3, <2>1 DEF Car, Drive!Plan, ToldInv, AsTold
  <2>2. CASE Drive!Work
    BY <1>3, <2>2 DEF Car, Drive!Work, Drive!Set, ToldInv, AsTold
  <2>3. CASE Drive!Finish
    BY <1>3, <2>3 DEF Car, Drive!Finish, Drive!Set, ToldInv, AsTold
  <2> QED
    BY <1>3, <2>1, <2>2, <2>3 DEF Car, Drive!Loop
<1> QED
  BY <1>1, <1>2, <1>3 DEF Next

\* The car does what it was told last.
THEOREM Obedience == Spec => []AsTold
<1>1. SystemInit => TypeInv /\ ToldInv
  BY TypeInit DEF SystemInit, Drive!Init, ToldInv, AsTold, DriveCommand
<1>2. TypeInv /\ ToldInv /\ [Next]_vars => TypeInv' /\ ToldInv'
  BY TypeStep, ToldStep
<1>3. ToldInv => AsTold
  BY DEF ToldInv
<1> QED
  BY <1>1, <1>2, <1>3, PTL DEF Spec

-----------------------------------------------------------------------------
(***************************************************************************)
(* An object is found once.                                                *)
(***************************************************************************)
\* After a drive the object is remembered, unless it came or went in between.
FoundInv ==
  /\ at = "second" => object \/ flicker
  /\ at = "reversing" => last = "backward"
  /\ at # "second" /\ last \in DriveCommand => isIR \/ flicker

\* No step breaks the invariant.
LEMMA FoundStep ==
  ASSUME TypeInv, FoundInv, [Next]_vars
  PROVE  FoundInv'
<1> USE DEF DriveCommand, ir_sensor_detected
<1>1. CASE Loop
  <2>1. CASE Read \/ Blink \/ Detect
    BY <2>1 DEF Read, Blink, Detect, Post!Begin, post, sensors, FoundInv
  <2>2. CASE Reverse
    BY <2>2 DEF Reverse, sensors, FoundInv
  <2>3. CASE Steered
    BY <2>3 DEF Steered, sensors, FoundInv
  <2>4. CASE Answered
    <3>1. /\ at \in {"stopping", "driving", "reversing"} /\ at' = "look"
          /\ UNCHANGED <<last, flicker>>
      BY <2>4 DEF Answered
    <3>2. at # "reversing" => (isIR => isIR')
      BY <2>4 DEF Answered
    <3> QED
      BY <3>1, <3>2 DEF FoundInv
  <2> QED
    BY <1>1, <2>1, <2>2, <2>3, <2>4 DEF Loop
<1>2. CASE Sight
  BY <1>2 DEF Sight, FoundInv
<1>3. CASE Send \/ GiveUp \/ Lose \/ Obey \/ Car \/ UNCHANGED vars
  BY <1>3 DEF Send, GiveUp, Lose, Obey, Car, vars, sensors, glasses, FoundInv
<1> QED
  BY <1>1, <1>2, <1>3 DEF Next, Glasses

\* Between two drives a backward is asked for, unless the object came or went
\* between the two reads of a turn.
THEOREM Alternation == Spec => Alternates
<1>1. SystemInit => TypeInv /\ FoundInv
  BY TypeInit DEF SystemInit, Init, FoundInv, DriveCommand
<1>2. TypeInv /\ FoundInv /\ [Next]_vars => TypeInv' /\ FoundInv'
  BY TypeStep, FoundStep
<1>3. FoundInv /\ [Next]_vars
        => [at = "test" /\ at' = "second" => last \notin DriveCommand \/ flicker]_vars
  <2> SUFFICES ASSUME FoundInv, [Next]_vars, at = "test", at' = "second"
               PROVE  last \notin DriveCommand \/ flicker
    OBVIOUS
  <2>1. Detect
    BY DEF Next, Glasses, Loop, Read, Blink, Detect, Reverse, Steered, Answered, Send,
           GiveUp, Lose, Sight, Obey, Car, vars, glasses
  <2> QED
    BY <2>1 DEF Detect, FoundInv
<1> QED
  BY <1>1, <1>2, <1>3, PTL DEF Spec, Alternates
=============================================================================

-------------------------- MODULE UltrasonicProofs --------------------------
(***************************************************************************)
(* Proofs about Ultrasonic, for all times and echoes.                      *)
(***************************************************************************)
EXTENDS Ultrasonic, TLAPS

-----------------------------------------------------------------------------
(***************************************************************************)
(* Types.                                                                  *)
(***************************************************************************)
LEMMA UpType ==
  ASSUME NEW cap \in Nat, NEW n \in 0 .. cap
  PROVE  Up(n, cap) \in 0 .. cap /\ (n < cap => Up(n, cap) = n + 1) /\ Up(n, cap) >= n
BY DEF Up

\* The bounds of the clocks are numbers.
LEMMA Caps == {AgeCap, RunCap, SinceCap} \subseteq Nat
BY TimesAssumption DEF AgeCap, RunCap, SinceCap

\* The clocks and the line's part of the type, which a tick preserves.
LineOK ==
  /\ line \in {"idle", "rising", "high"} /\ pulse \in Echo \cup {0}
  /\ left \in Nat /\ (line = "idle" <=> left = 0)
  /\ line = "rising" => left <= Delay /\ pulse # 0
  /\ line = "high" => left <= pulse

\* Time that passes keeps the types.
LEMMA TickType ==
  ASSUME TypeOK, Tick
  PROVE  /\ age' \in [Caller -> 0 .. AgeCap] /\ run' \in [Caller -> 0 .. RunCap]
         /\ LineOK' /\ since' \in 0 .. SinceCap
         /\ UNCHANGED <<reading, pulse, alive, pure>>
<1>1. age' \in [Caller -> 0 .. AgeCap] /\ run' \in [Caller -> 0 .. RunCap]
  BY Caps, UpType DEF TypeOK, Tick
<1>2. since' \in 0 .. SinceCap
  BY Caps, UpType DEF TypeOK, Tick
<1>3. LineOK'
  <2>1. pulse \in Nat
    BY EchoAssumption DEF TypeOK
  <2>2. CASE ~alive \/ line = "idle"
    BY <2>2 DEF TypeOK, Tick, LineOK, Edge
  <2>3. CASE alive /\ line # "idle" /\ left > 1
    BY <2>1, <2>3, TimesAssumption DEF TypeOK, Tick, LineOK, Edge
  <2>4. CASE alive /\ line # "idle" /\ left = 1
    BY <2>1, <2>4, EchoAssumption, TimesAssumption DEF TypeOK, Tick, LineOK, Edge
  <2> QED
    BY <2>1, <2>2, <2>3, <2>4 DEF TypeOK
<1> QED
  BY <1>1, <1>2, <1>3 DEF Tick

\* What a step of a call of c does to the program, without the clocks.
LEMMA MeasureType ==
  ASSUME TypeOK, NEW c \in Caller, Measure(c)
  PROVE  TypeOK'
<1> USE DEF Caller
<1>1. CASE Trigger(c)
  <2>1. at' \in [Caller -> Place] /\ at'["main"] \notin {"out", "hold"}
    BY <1>1 DEF TypeOK, Trigger, Goto, Place, Measuring
  <2>2. pure' \in [Caller -> BOOLEAN] /\ alive' \in BOOLEAN
    BY <1>1 DEF TypeOK, Trigger
  <2>4. LineOK'
    <3>1. CASE alive /\ line = "idle"
      BY <1>1, <3>1, EchoAssumption, TimesAssumption DEF TypeOK, Trigger, LineOK
    <3>2. CASE ~(alive /\ line = "idle")
      BY <1>1, <3>2 DEF TypeOK, Trigger, LineOK
    <3> QED
      BY <3>1, <3>2
  <2>3. since' \in 0 .. SinceCap
    BY <1>1, Caps DEF TypeOK, Trigger
  <2> QED
    BY <1>1, <2>1, <2>2, <2>3, <2>4 DEF TypeOK, Trigger, LineOK
<1>2. ASSUME NEW from \in {"arm", "rearm"}, NEW next \in {"rise", "fall"},
             SetTimeout(c, from, next)
      PROVE  TypeOK'
  BY <1>2, Caps DEF TypeOK, SetTimeout, NoTick, Goto, Place, Measuring
<1>3. ASSUME NEW from, NEW level, NEW next \in {"start", "end"},
             NEW test \in {"riseTest", "fallTest"}, Poll(c, from, level, next, test)
      PROVE  TypeOK'
  BY <1>3 DEF TypeOK, Poll, NoTick, Goto, Place, Measuring
<1>4. ASSUME NEW r \in {-1} \cup Near .. Far, Return(c, r)
      PROVE  TypeOK'
  BY <1>4, Caps DEF TypeOK, Return, NoTick, Goto, Place, Measuring
<1>5. ASSUME NEW from, NEW again \in {"rise", "fall"}, Test(c, from, again)
      PROVE  TypeOK'
  <2>1. CASE Return(c, -1)
    BY <2>1, <1>4
  <2>2. CASE Goto(c, again) /\ Tick
    <3>1. at' \in [Caller -> Place] /\ at'["main"] \notin {"out", "hold"}
      BY <2>2 DEF TypeOK, Goto, Place, Measuring
    <3> QED
      BY <2>2, <3>1, TickType DEF TypeOK, LineOK
  <2> QED
    BY <1>5, <2>1, <2>2 DEF Test
<1>6. CASE Start(c)
  BY <1>6, Caps DEF TypeOK, Start, NoTick, Goto, Place, Measuring
<1>7. CASE End(c)
  BY <1>7, <1>4, Caps, TimesAssumption DEF TypeOK, End
<1> QED
  BY <1>1, <1>2, <1>3, <1>5, <1>6, <1>7 DEF Measure

\* No step breaks the types.
LEMMA TypeStep ==
  ASSUME TypeOK, [Next]_vars
  PROVE  TypeOK'
<1> USE DEF Caller
<1>1. ASSUME NEW c \in Caller, Measure(c)
      PROVE  TypeOK'
  BY <1>1, MeasureType
<1>2. ASSUME UNCHANGED at, Tick
      PROVE  TypeOK'
  BY <1>2, TickType DEF TypeOK, LineOK
<1>3. ASSUME NEW c \in Caller, NEW next \in Place, c = "main" => next = "trigger",
             Wake(c, next)
      PROVE  TypeOK'
  BY <1>3 DEF TypeOK, Wake, NoTick, Goto
<1>4. CASE Interrupt \/ Ask \/ Leave
  BY <1>4 DEF TypeOK, Interrupt, Ask, Leave, NoTick, Goto, Place, Measuring
<1>5. CASE Break
  BY <1>5 DEF TypeOK, Break, calls
<1>6. CASE UNCHANGED vars
  BY <1>6 DEF TypeOK, vars, calls, sensor, history
<1> QED
  BY <1>1, <1>2, <1>3, <1>4, <1>5, <1>6
     DEF Next, Main, Handler, Sleep, Hold, Place, Measuring

\* The variables keep their types, for all times and echoes.
THEOREM TypeCorrect == Spec => []TypeOK
<1>1. Init => TypeOK
  BY Caps, EchoAssumption, TimesAssumption
     DEF Init, TypeOK, Caller, Place, Measuring
<1> QED
  BY <1>1, TypeStep, PTL DEF Spec

-----------------------------------------------------------------------------
(***************************************************************************)
(* Exactness.                                                              *)
(***************************************************************************)
\* Where ECHO is while c, undisturbed so far, is at a place of its call.
Phase(c) ==
  /\ at[c] = "arm" => line = "rising" /\ left = Delay
  /\ at[c] \in {"rise", "riseTest"} =>
       \/ line = "rising" /\ age[c] + left = Delay
       \/ line = "high" /\ left = pulse /\ at[c] = "rise"
  /\ at[c] = "start" => line = "high" /\ left = pulse
  /\ at[c] = "rearm" => line = "high" /\ left = pulse /\ run[c] = 0
  /\ at[c] \in {"fall", "fallTest", "end"} =>
       /\ run[c] <= Limit + 1
       /\ at[c] # "end" => age[c] = run[c]
       /\ \/ line = "high" /\ run[c] + left = pulse /\ at[c] # "end"
          \/ line = "idle" /\ run[c] = pulse /\ at[c] # "fallTest"

Alone(c) == pure[c] /\ at[c] \in Measuring \ {"trigger"}

PhaseInv ==
  \A c \in Caller : Alone(c) =>
    /\ alive /\ pulse # 0 /\ Phase(c)
    /\ c = "main" => at["handler"] = "out"

IInv == TypeOK /\ PhaseInv

\* A step of c's call keeps the phase of c.
LEMMA MeasurePhase ==
  ASSUME IInv, NEW c \in Caller, Measure(c), Alone(c)'
  PROVE  alive' /\ pulse' # 0 /\ Phase(c)'
<1>1. /\ age[c] \in Nat /\ run[c] \in Nat /\ left \in Nat /\ pulse \in Nat
      /\ (line = "idle" <=> left = 0) /\ age[c] <= AgeCap /\ run[c] <= RunCap
  BY EchoAssumption, Caps DEF IInv, TypeOK
<1>3. Alone(c) => alive /\ pulse # 0 /\ Phase(c)
  BY DEF IInv, PhaseInv
<1>t. /\ at \in [Caller -> Place] /\ age \in [Caller -> 0 .. AgeCap]
      /\ run \in [Caller -> 0 .. RunCap] /\ pure \in [Caller -> BOOLEAN]
  BY DEF IInv, TypeOK
<1>l. Limit \in Nat /\ Delay \in Nat \ {0} /\ Delay <= Limit
  BY TimesAssumption
<1>4. CASE Trigger(c)
  <2>1. at'[c] = "arm" /\ pure'[c]
    BY <1>t, <1>4 DEF Trigger, Goto, Alone
  <2>2. alive /\ line = "idle"
    BY <1>4, <2>1 DEF Trigger, IInv, TypeOK
  <2> QED
    BY <1>4, <2>1, <2>2, EchoAssumption DEF Trigger, Phase
<1>5. CASE SetTimeout(c, "arm", "rise")
  <2>1. at[c] = "arm" /\ at'[c] = "rise" /\ age'[c] = 0
    BY <1>t, <1>5 DEF SetTimeout, Goto
  <2>2. UNCHANGED <<line, left, pulse, alive, pure>>
    BY <1>5 DEF SetTimeout, NoTick
  <2>3. Alone(c)
    BY <2>1, <2>2 DEF Alone, Measuring
  <2> QED
    BY <1>1, <1>3, <1>l, <2>1, <2>2, <2>3 DEF Phase
<1>6. ASSUME NEW from \in {"rise", "fall"}, NEW level \in BOOLEAN, NEW next, NEW test,
             Poll(c, from, level, next, test)
      PROVE  /\ at[c] = from /\ UNCHANGED <<line, left, pulse, alive, pure, age, run>>
             /\ at'[c] = (IF (line = "high") = level THEN next ELSE test) /\ Alone(c)
  <2>1. /\ at[c] = from /\ UNCHANGED <<line, left, pulse, alive, pure, age, run>>
        /\ at'[c] = (IF (line = "high") = level THEN next ELSE test)
    BY <1>t, <1>6 DEF Poll, NoTick, Goto
  <2> QED
    BY <2>1 DEF Alone, Measuring
<1>7. CASE Poll(c, "rise", TRUE, "start", "riseTest")
  <2>1. /\ at[c] = "rise" /\ UNCHANGED <<line, left, pulse, alive, pure, age, run>>
        /\ at'[c] = (IF (line = "high") = TRUE THEN "start" ELSE "riseTest") /\ Alone(c)
    BY <1>6, <1>7
  <2> QED
    BY <1>1, <1>3, <2>1 DEF Phase
<1>8. CASE Poll(c, "fall", FALSE, "end", "fallTest")
  <2>1. /\ at[c] = "fall" /\ UNCHANGED <<line, left, pulse, alive, pure, age, run>>
        /\ at'[c] = (IF (line = "high") = FALSE THEN "end" ELSE "fallTest") /\ Alone(c)
    BY <1>6, <1>8
  <2> QED
    BY <1>1, <1>3, <2>1 DEF Phase
<1>9. ASSUME NEW from \in {"riseTest", "fallTest"}, NEW again \in {"rise", "fall"},
             Test(c, from, again)
      PROVE  /\ at[c] = from /\ age[c] <= Limit /\ at'[c] = again
             /\ Tick /\ Alone(c)
  <2>1. CASE Return(c, -1)
    BY <1>t, <2>1 DEF Return, Goto, Alone, Measuring
  <2>2. CASE age[c] <= Limit /\ Goto(c, again) /\ Tick
    <3>1. at[c] = from /\ at'[c] = again /\ pure' = pure
      BY <1>9, <1>t, <2>2 DEF Goto, Test, Tick
    <3> QED
      BY <2>2, <3>1 DEF Alone, Measuring
  <2> QED
    BY <1>9, <2>1, <2>2 DEF Test
<1>10. ASSUME Tick, age[c] <= Limit, run[c] <= Limit
       PROVE  /\ age'[c] = age[c] + 1 /\ run'[c] = run[c] + 1
              /\ UNCHANGED <<pulse, alive>>
  BY <1>t, <1>10, TimesAssumption DEF Tick, Up, AgeCap, RunCap
<1>11. CASE Test(c, "riseTest", "rise")
  <2>1. /\ at[c] = "riseTest" /\ age[c] <= Limit /\ at'[c] = "rise" /\ Tick /\ Alone(c)
    BY <1>9, <1>11
  <2>2. alive /\ line = "rising" /\ age[c] + left = Delay /\ pulse # 0
    BY <1>3, <2>1 DEF Phase
  <2>3. age'[c] = age[c] + 1 /\ UNCHANGED <<pulse, alive>>
    BY <1>t, <2>1, TimesAssumption DEF Tick, Up, AgeCap
  <2>4. CASE left > 1
    BY <1>1, <1>l, <2>1, <2>2, <2>3, <2>4 DEF Phase, Tick, Edge
  <2>5. CASE left = 1
    BY <1>1, <1>l, <2>1, <2>2, <2>3, <2>5 DEF Phase, Tick, Edge
  <2> QED
    BY <1>1, <2>2, <2>4, <2>5
<1>12. CASE Start(c)
  <2>1. /\ at[c] = "start" /\ UNCHANGED <<line, left, pulse, alive, pure>>
        /\ at'[c] = "rearm" /\ run'[c] = 0
    BY <1>t, <1>12 DEF Start, NoTick, Goto
  <2>2. Alone(c)
    BY <2>1 DEF Alone, Measuring
  <2> QED
    BY <1>3, <2>1, <2>2 DEF Phase
<1>13. CASE SetTimeout(c, "rearm", "fall")
  <2>1. at[c] = "rearm" /\ at'[c] = "fall" /\ age'[c] = 0
    BY <1>t, <1>13 DEF SetTimeout, Goto
  <2>2. UNCHANGED <<line, left, pulse, alive, pure, run>>
    BY <1>13 DEF SetTimeout, NoTick
  <2>3. Alone(c)
    BY <2>1, <2>2 DEF Alone, Measuring
  <2> QED
    BY <1>1, <1>3, <1>l, <2>1, <2>2, <2>3 DEF Phase
<1>14. CASE Test(c, "fallTest", "fall")
  <2>1. /\ at[c] = "fallTest" /\ age[c] <= Limit /\ at'[c] = "fall" /\ Tick /\ Alone(c)
    BY <1>9, <1>14
  <2>2. /\ alive /\ line = "high" /\ run[c] + left = pulse /\ age[c] = run[c]
        /\ pulse # 0
    BY <1>3, <2>1 DEF Phase
  <2>3. /\ age'[c] = age[c] + 1 /\ run'[c] = run[c] + 1
        /\ UNCHANGED <<pulse, alive>>
    BY <1>10, <2>1, <2>2
  <2>4. CASE left > 1
    BY <1>1, <1>l, <2>1, <2>2, <2>3, <2>4 DEF Phase, Tick, Edge
  <2>5. CASE left = 1
    BY <1>1, <1>l, <2>1, <2>2, <2>3, <2>5 DEF Phase, Tick, Edge
  <2> QED
    BY <1>1, <2>2, <2>4, <2>5
<1>15. CASE End(c)
  BY <1>15, <1>t DEF End, Return, Goto, Alone, Measuring
<1> QED
  BY <1>4, <1>5, <1>7, <1>8, <1>11, <1>12, <1>13, <1>14, <1>15 DEF Measure

\* An interrupt ends the undisturbed part of the loop's call.
LEMMA Preempted ==
  ASSUME IInv, at["handler"] # "out"
  PROVE  ~Alone("main")
BY DEF IInv, PhaseInv, Caller

\* No step breaks the phases of either caller.
LEMMA PhaseStep ==
  ASSUME IInv, [Next]_vars
  PROVE  PhaseInv'
<1> SUFFICES ASSUME NEW d \in Caller, Alone(d)'
             PROVE  /\ alive' /\ pulse' # 0 /\ Phase(d)'
                    /\ d = "main" => at'["handler"] = "out"
  BY DEF PhaseInv
<1>t. at \in [Caller -> Place] /\ pure \in [Caller -> BOOLEAN]
      /\ at["main"] \notin {"out", "hold"}
  BY DEF IInv, TypeOK
<1>h. "main" \in Caller /\ "handler" \in Caller /\ d \in {"main", "handler"}
  BY DEF Caller
<1>1. CASE Measure("main") /\ at["handler"] = "out"
  <2>1. at'["handler"] = "out"
    BY <1>1, <1>t, <1>h DEF Measure, Trigger, SetTimeout, Poll, Test, Return, Start,
                            End, Goto
  <2>2. d = "main"
    BY <1>h, <2>1 DEF Alone, Measuring
  <2> QED
    BY <1>1, <1>h, <2>1, <2>2, MeasurePhase
<1>2. CASE Measure("handler")
  <2>1. /\ at["handler"] \in Measuring /\ at'["main"] = at["main"]
        /\ pure'["main"] = pure["main"]
    BY <1>2, <1>t, <1>h DEF Measure, Trigger, SetTimeout, Poll, Test, Return, Start,
                            End, Goto, Measuring, Tick
  <2>2. ~Alone("main")'
    BY <2>1, Preempted DEF Alone, Measuring
  <2> QED
    BY <1>2, <1>h, <2>2, MeasurePhase
<1>3. CASE Sleep("main") /\ at["handler"] = "out"
  BY <1>3, <1>h DEF Sleep, Alone, Measuring
<1>4. CASE Sleep("handler") \/ Hold
  <2>1. at["handler"] \in {"pause", "hold"} /\ UNCHANGED <<at, pure>>
    BY <1>4 DEF Sleep, Hold, Tick
  <2> QED
    BY <1>h, <2>1, Preempted DEF Alone, Measuring
<1>5. CASE Wake("main", "trigger") /\ at["handler"] = "out"
  BY <1>5, <1>h, <1>t DEF Wake, Goto, Alone, Measuring
<1>6. CASE Wake("handler", "hold") \/ Ask \/ Leave
  <2>1. /\ at["handler"] # "out" /\ at'["handler"] \in {"hold", "trigger", "out"}
        /\ at'["main"] = at["main"] /\ pure' = pure
    BY <1>6, <1>h, <1>t DEF Wake, Ask, Leave, Goto
  <2> QED
    BY <1>h, <2>1, Preempted DEF Alone, Measuring
<1>7. CASE Interrupt
  BY <1>7, <1>h, <1>t DEF Interrupt, Goto, Alone, Measuring
<1>8. CASE Break
  BY <1>8, <1>h DEF Break, Alone
<1>9. CASE UNCHANGED vars
  BY <1>9 DEF vars, calls, sensor, history, IInv, PhaseInv, Alone, Phase
<1> QED
  BY <1>1, <1>2, <1>3, <1>4, <1>5, <1>6, <1>7, <1>8, <1>9 DEF Next, Main, Handler

\* What c is returned is what it would be returned for the echo it triggered.
LEMMA ExactStep ==
  ASSUME IInv, [Next]_vars, NEW c \in Caller,
         at[c] \in Measuring, at'[c] \notin Measuring, pure[c]
  PROVE  reading'[c] = Measured(pulse)
<1>t. /\ at \in [Caller -> Place] /\ reading \in [Caller -> {-1} \cup Near .. Far]
      /\ at["main"] \notin {"out", "hold"}
      /\ age[c] \in Nat /\ run[c] \in Nat /\ left \in Nat /\ pulse \in Nat
      /\ (line = "idle" <=> left = 0)
  BY EchoAssumption, Caps DEF IInv, TypeOK
<1>h. "main" \in Caller /\ "handler" \in Caller /\ c \in {"main", "handler"}
  BY DEF Caller
<1>l. Limit \in Nat /\ Delay \in Nat /\ Delay <= Limit
  BY TimesAssumption
<1>1. Measure(c)
  <2>1. CASE Measure("main") /\ at["handler"] = "out"
    <3>1. c # "handler"
      BY <2>1 DEF Measuring
    <3> QED
      BY <1>h, <2>1, <3>1
  <2>2. CASE Measure("handler")
    <3>1. at'["main"] = at["main"]
      BY <2>2, <1>t, <1>h DEF Measure, Trigger, SetTimeout, Poll, Test, Return, Start,
                              End, Goto
    <3> QED
      BY <1>h, <2>2, <3>1
  <2>3. CASE Sleep("main") \/ Sleep("handler") \/ Hold \/ Break \/ UNCHANGED vars
    BY <2>3 DEF Sleep, Hold, Break, vars, calls
  <2>4. CASE Wake("main", "trigger") \/ Wake("handler", "hold")
    BY <2>4, <1>h, <1>t DEF Wake, Goto, Measuring
  <2>5. CASE Interrupt \/ Ask \/ Leave
    BY <2>5, <1>h, <1>t DEF Interrupt, Ask, Leave, Goto, Measuring
  <2> QED
    BY <2>1, <2>2, <2>3, <2>4, <2>5 DEF Next, Main, Handler
<1>2. ASSUME NEW r, Return(c, r)
      PROVE  reading'[c] = r
  BY <1>2, <1>t DEF Return
<1>3. at[c] # "trigger" => Alone(c) /\ Phase(c)
  BY DEF IInv, PhaseInv, Alone
<1>4. at[c] \in {"riseTest", "fallTest", "end"}
  BY <1>1, <1>t DEF Measure, Trigger, SetTimeout, Poll, Start, Test, End, Goto, Measuring
<1>5. CASE at[c] = "end"
  <2>1. /\ run[c] = pulse /\ run[c] <= Limit + 1
    BY <1>3, <1>5 DEF Phase
  <2>2. reading'[c] = (IF run[c] > Far \/ run[c] < Near THEN -1 ELSE run[c])
    BY <1>1, <1>2, <1>5 DEF Measure, Trigger, SetTimeout, Poll, Start, Test, End
  <2>3. ~(pulse > Limit + 1)
    BY <1>t, <1>l, <2>1
  <2> QED
    BY <2>1, <2>2, <2>3 DEF Measured
<1>6. CASE at[c] \in {"riseTest", "fallTest"}
  <2>1. age[c] > Limit /\ reading'[c] = -1
    <3>1. Test(c, "riseTest", "rise") \/ Test(c, "fallTest", "fall")
      BY <1>1, <1>6 DEF Measure, Trigger, SetTimeout, Poll, Start, End
    <3>2. ~(\E again \in {"rise", "fall"} : Goto(c, again))
      BY <1>t DEF Goto, Measuring
    <3> QED
      BY <1>2, <3>1, <3>2 DEF Test
  <2>2. at[c] = "fallTest"
    BY <1>3, <1>6, <1>t, <1>l, <2>1 DEF Phase
  <2>3. line = "high" /\ run[c] + left = pulse /\ age[c] = run[c]
    BY <1>3, <2>2 DEF Phase
  <2>4. pulse > Limit + 1
    BY <1>t, <1>l, <2>1, <2>3
  <2> QED
    BY <2>1, <2>4 DEF Measured
<1> QED
  BY <1>4, <1>5, <1>6

\* A call with the sensor for itself returns the length of its echo, for every
\* echo and all times for which the sensor's answer fits the waits.
THEOREM Exactness == Spec => Exact
<1>1. Init => IInv
  <2>1. Init => TypeOK
    BY Caps, EchoAssumption, TimesAssumption
       DEF Init, TypeOK, Caller, Place, Measuring
  <2>2. Init => PhaseInv
    BY DEF Init, PhaseInv, Alone, Caller
  <2> QED
    BY <2>1, <2>2 DEF IInv
<1>2. IInv /\ [Next]_vars => IInv'
  BY TypeStep, PhaseStep DEF IInv
<1>3. IInv /\ [Next]_vars
        => [\A c \in Caller :
              at[c] \in Measuring /\ at'[c] \notin Measuring /\ pure[c]
                => reading'[c] = Measured(pulse)]_vars
  BY ExactStep
<1> QED
  BY <1>1, <1>2, <1>3, PTL DEF Spec, Exact

-----------------------------------------------------------------------------
(***************************************************************************)
(* The time for which the handler holds the interrupt.                     *)
(***************************************************************************)
\* Each wait has a limit of its own, and nothing between them takes time.
BoundInv ==
  /\ at["handler"] = "arm" => since = 0
  /\ at["handler"] \in {"rise", "riseTest"} =>
       since = age["handler"] /\ age["handler"] <= Limit + 1
  /\ at["handler"] \in {"start", "rearm"} => since <= Limit + 1
  /\ at["handler"] \in {"fall", "fallTest"} =>
       since <= Limit + 1 + age["handler"] /\ age["handler"] <= Limit + 1
  /\ at["handler"] = "end" => since <= 2 * (Limit + 1)

\* No step breaks the bounds of the handler's measurement.
LEMMA BoundStep ==
  ASSUME TypeOK, BoundInv, [Next]_vars
  PROVE  BoundInv'
<1>t. /\ at \in [Caller -> Place] /\ age \in [Caller -> 0 .. AgeCap]
      /\ "main" \in Caller /\ "handler" \in Caller
  BY DEF TypeOK, Caller
<1>n. since \in Nat /\ age["handler"] \in Nat /\ Limit \in Nat
  BY Caps, TimesAssumption, <1>t DEF TypeOK
<1>1. CASE at["handler"] \notin Measuring
  <2>1. at'["handler"] = at["handler"] \/ at'["handler"] \in {"hold", "trigger", "out"}
    BY <1>1, <1>t DEF Next, Main, Handler, Measure, Trigger, SetTimeout, Poll, Test,
                      Return, Start, End, Goto, Sleep, Wake, Interrupt, Hold, Ask,
                      Leave, Break, vars, calls, Measuring
  <2> QED
    BY <1>1, <2>1 DEF BoundInv, Measuring
<1>2. CASE Measure("handler")
  <2>1. CASE Trigger("handler")
    BY <1>t, <2>1 DEF Trigger, Goto, BoundInv
  <2>2. CASE SetTimeout("handler", "arm", "rise")
    <3>1. /\ at["handler"] = "arm" /\ at'["handler"] = "rise"
          /\ age'["handler"] = 0 /\ since' = since
      BY <1>t, <2>2 DEF SetTimeout, Goto, NoTick
    <3> QED
      BY <1>n, <3>1 DEF BoundInv
  <2>3. CASE Poll("handler", "rise", TRUE, "start", "riseTest")
    <3>1. /\ at["handler"] = "rise" /\ at'["handler"] \in {"start", "riseTest"}
          /\ age' = age /\ since' = since
      BY <1>t, <2>3 DEF Poll, Goto, NoTick
    <3> QED
      BY <1>n, <3>1 DEF BoundInv
  <2>4. CASE Start("handler")
    <3>1. /\ at["handler"] = "start" /\ at'["handler"] = "rearm" /\ since' = since
      BY <1>t, <2>4 DEF Start, Goto, NoTick
    <3> QED
      BY <1>n, <3>1 DEF BoundInv
  <2>5. CASE SetTimeout("handler", "rearm", "fall")
    <3>1. /\ at["handler"] = "rearm" /\ at'["handler"] = "fall"
          /\ age'["handler"] = 0 /\ since' = since
      BY <1>t, <2>5 DEF SetTimeout, Goto, NoTick
    <3> QED
      BY <1>n, <3>1 DEF BoundInv
  <2>6. CASE Poll("handler", "fall", FALSE, "end", "fallTest")
    <3>1. /\ at["handler"] = "fall" /\ at'["handler"] \in {"end", "fallTest"}
          /\ age' = age /\ since' = since
      BY <1>t, <2>6 DEF Poll, Goto, NoTick
    <3> QED
      BY <1>n, <3>1 DEF BoundInv
  <2>7. ASSUME NEW r, Return("handler", r)
        PROVE  BoundInv'
    BY <1>t, <2>7 DEF Return, Goto, BoundInv
  <2>8. ASSUME Tick, age["handler"] <= Limit, since <= Limit + 1 + age["handler"]
        PROVE  age'["handler"] = age["handler"] + 1 /\ since' = since + 1
    BY <1>t, <1>n, <2>8, TimesAssumption DEF Tick, Up, AgeCap, SinceCap
  <2>9. CASE Test("handler", "riseTest", "rise")
    <3>1. CASE Goto("handler", "rise") /\ Tick /\ age["handler"] <= Limit
      <4>1. at["handler"] = "riseTest" /\ at'["handler"] = "rise"
        BY <1>t, <2>9, <3>1 DEF Test, Goto
      <4>2. since = age["handler"]
        BY <4>1 DEF BoundInv
      <4>3. age'["handler"] = age["handler"] + 1 /\ since' = since + 1
        BY <1>n, <2>8, <3>1, <4>2
      <4> QED
        BY <1>n, <3>1, <4>1, <4>2, <4>3 DEF BoundInv
    <3> QED
      BY <2>7, <2>9, <3>1 DEF Test
  <2>10. CASE Test("handler", "fallTest", "fall")
    <3>1. CASE Goto("handler", "fall") /\ Tick /\ age["handler"] <= Limit
      <4>1. at["handler"] = "fallTest" /\ at'["handler"] = "fall"
        BY <1>t, <2>10, <3>1 DEF Test, Goto
      <4>2. since <= Limit + 1 + age["handler"]
        BY <4>1 DEF BoundInv
      <4>3. age'["handler"] = age["handler"] + 1 /\ since' = since + 1
        BY <2>8, <3>1, <4>2
      <4> QED
        BY <1>n, <3>1, <4>1, <4>2, <4>3 DEF BoundInv
    <3> QED
      BY <2>7, <2>10, <3>1 DEF Test
  <2>11. CASE End("handler")
    BY <2>7, <2>11 DEF End
  <2> QED
    BY <1>2, <2>1, <2>2, <2>3, <2>4, <2>5, <2>6, <2>9, <2>10, <2>11 DEF Measure
<1>3. CASE at["handler"] \in Measuring /\ (Break \/ UNCHANGED vars)
  BY <1>3 DEF Break, vars, calls, sensor, history, BoundInv
<1> QED
  BY <1>1, <1>2, <1>3 DEF Next, Main, Handler, Sleep, Wake, Interrupt, Hold, Ask, Leave,
                          Measuring

\* The handler measures for no longer than its two waits, whatever the sensor
\* does: the time for which the loop and the server stand still.
THEOREM Boundedness == Spec => []Bounded
<1>1. Init => TypeOK /\ BoundInv
  BY Caps, EchoAssumption, TimesAssumption
     DEF Init, TypeOK, BoundInv, Caller, Place, Measuring
<1>2. TypeOK /\ BoundInv /\ [Next]_vars => TypeOK' /\ BoundInv'
  BY TypeStep, BoundStep
<1>3. TypeOK /\ BoundInv => Bounded
  <2>1. TypeOK => since \in Nat /\ age["handler"] \in Nat /\ Limit \in Nat
    BY Caps, TimesAssumption DEF TypeOK, Caller
  <2> QED
    BY <2>1 DEF BoundInv, Bounded, Measuring
<1> QED
  BY <1>1, <1>2, <1>3, PTL DEF Spec

-----------------------------------------------------------------------------
(***************************************************************************)
(* No measurement of the loop begins in an old echo.                       *)
(***************************************************************************)
\* The time until ECHO is idle, if the sensor works.
Rest == IF line = "rising" THEN left + pulse ELSE left

\* The handler is between two measurements, or has left.
Between == at["handler"] \in {"out", "hold", "trigger"}

\* A handler that has set the sensor off waits for the end of the echo, or gives
\* up and sleeps; either way ECHO is idle when it is between two measurements.
QuietInv ==
  alive =>
    /\ Rest <= Pause
    /\ at["handler"] \in {"start", "rearm", "fall", "fallTest"} => line # "rising"
    /\ at["handler"] = "end" => line = "idle"
    /\ at["handler"] = "pause" => Rest = 0 \/ Rest + age["handler"] <= Pause
    /\ Between /\ at["main"] = "pause" => Rest = 0 \/ Rest + age["main"] <= Pause
    /\ Between /\ at["main"] = "trigger" => Rest = 0

\* What is left of an echo is a number, zero on a quiet line.
LEMMA RestType ==
  ASSUME TypeOK
  PROVE  Rest \in Nat /\ (Rest = 0 <=> line = "idle")
BY EchoAssumption DEF TypeOK, Rest

\* Time that passes shortens it.
LEMMA RestTick ==
  ASSUME TypeOK, Tick, alive
  PROVE  Rest' = (IF Rest = 0 THEN 0 ELSE Rest - 1)
<1>1. pulse \in Nat /\ left \in Nat /\ pulse' = pulse
  BY EchoAssumption DEF TypeOK, Tick
<1>2. CASE line = "idle"
  BY <1>1, <1>2 DEF TypeOK, Tick, Edge, Rest
<1>3. CASE line # "idle" /\ left > 1
  BY <1>1, <1>3 DEF TypeOK, Tick, Edge, Rest
<1>4. CASE line # "idle" /\ left = 1
  BY <1>1, <1>4 DEF TypeOK, Tick, Edge, Rest
<1> QED
  BY <1>1, <1>2, <1>3, <1>4 DEF TypeOK

\* ECHO does not begin to rise by itself.
LEMMA LineTick ==
  ASSUME TypeOK, Tick
  PROVE  line # "rising" => line' # "rising"
BY DEF TypeOK, Tick, Edge

\* No step, of the callers, the line or the sensor, breaks the invariant.
LEMMA QuietStep ==
  ASSUME TypeOK, QuietInv, [Next]_vars
  PROVE  QuietInv'
<1> SUFFICES ASSUME alive' PROVE QuietInv'
  BY DEF QuietInv
<1>t. /\ at \in [Caller -> Place] /\ age \in [Caller -> 0 .. AgeCap]
      /\ at["main"] \notin {"out", "hold"} /\ "main" \in Caller /\ "handler" \in Caller
  BY DEF TypeOK, Caller
<1>n. /\ age["main"] \in Nat /\ age["handler"] \in Nat /\ Pause \in Nat /\ Rest \in Nat
      /\ (Rest = 0 <=> line = "idle") /\ age["main"] <= Pause /\ age["handler"] <= Pause
  BY Caps, TimesAssumption, <1>t, RestType DEF AgeCap
<1>b. CASE Break
  BY <1>b DEF Break
<1>a. alive
  BY DEF Next, Main, Handler, Measure, Trigger, SetTimeout, Poll, Test, Return, Start,
         End, Sleep, Wake, Interrupt, Hold, Ask, Leave, Break, NoTick, Tick, vars, sensor
<1>k. ASSUME Tick
      PROVE  /\ Rest' \in Nat /\ Rest' <= Rest /\ Rest' <= Pause
             /\ \A c \in Caller :
                  (Rest = 0 \/ Rest + age[c] <= Pause)
                    => Rest' = 0 \/ Rest' + age'[c] <= Pause
             /\ line # "rising" => line' # "rising"
  <2>1. Rest' = (IF Rest = 0 THEN 0 ELSE Rest - 1)
    BY <1>a, <1>k, RestTick
  <2>2. \A c \in Caller : age'[c] \in Nat /\ age'[c] <= age[c] + 1
    BY <1>t, <1>n, <1>k, Caps, UpType DEF Tick, Up
  <2>3. Rest <= Pause
    BY <1>a DEF QuietInv
  <2>4. \A c \in Caller : age[c] \in Nat
    BY <1>t, Caps
  <2>5. Rest' \in Nat /\ Rest' <= Rest /\ Rest' <= Pause
    BY <1>n, <2>1, <2>3
  <2>6. ASSUME NEW c \in Caller, Rest = 0 \/ Rest + age[c] <= Pause
        PROVE  Rest' = 0 \/ Rest' + age'[c] <= Pause
    BY <1>n, <2>1, <2>2, <2>4, <2>6
  <2> QED
    BY <1>k, <2>5, <2>6, LineTick
<1>1. ASSUME NEW c \in Caller, Trigger(c), c = "main" => at["handler"] = "out"
      PROVE  QuietInv'
  <2>1. at'[c] = "arm" /\ \A d \in Caller : d # c => at'[d] = at[d]
    BY <1>1, <1>t DEF Trigger, Goto
  <2>2. Rest' <= Pause
    <3>1. CASE alive /\ line = "idle"
      <4>1. line' = "rising" /\ left' = Delay /\ pulse' \in Echo
        BY <1>1, <3>1 DEF Trigger
      <4> QED
        BY <4>1, EchoAssumption DEF Rest
    <3>2. CASE ~(alive /\ line = "idle")
      BY <1>1, <1>a, <3>2 DEF Trigger, QuietInv, Rest
    <3> QED
      BY <3>1, <3>2
  <2> QED
    BY <1>1, <1>t, <2>1, <2>2 DEF QuietInv, Between, Caller
<1>2. ASSUME NEW c \in Caller, c = "main" => at["handler"] = "out",
             at'[c] \in Measuring \ {"trigger"},
             \A d \in Caller : d # c => at'[d] = at[d],
             c = "handler" /\ at'[c] \in {"start", "rearm", "fall", "fallTest"}
               => line' # "rising",
             c = "handler" /\ at'[c] = "end" => line' = "idle",
             NoTick \/ Tick
      PROVE  QuietInv'
  <2>1. Rest' <= Pause
    BY <1>2, <1>a, <1>k DEF NoTick, QuietInv, Rest
  <2>3. CASE c = "main"
    BY <1>2, <1>t, <2>1, <2>3 DEF QuietInv, Between, Measuring
  <2>4. CASE c = "handler"
    BY <1>2, <1>t, <2>1, <2>4 DEF QuietInv, Between, Measuring
  <2> QED
    BY <2>3, <2>4 DEF Caller
<1>3. ASSUME NEW c \in Caller, NEW r, Return(c, r), at[c] \in Measuring \ {"trigger"},
             c = "main" => at["handler"] = "out",
             c = "handler" /\ r # -1 => at[c] = "end"
      PROVE  QuietInv'
  <2>1. /\ at'[c] \in {"pause", "hold"} /\ age'[c] = 0 /\ Rest' = Rest
        /\ (c = "main" \/ r = -1 => at'[c] = "pause")
        /\ \A d \in Caller : d # c => at'[d] = at[d] /\ age'[d] = age[d]
        /\ Rest <= Pause
    BY <1>3, <1>t, <1>a DEF Return, Goto, NoTick, Rest, QuietInv
  <2>2. Rest' = 0 \/ Rest' + age'[c] <= Pause
    BY <1>n, <2>1
  <2>3. CASE c = "main"
    BY <1>3, <1>t, <2>1, <2>2, <2>3 DEF QuietInv, Between
  <2>4. CASE c = "handler" /\ r = -1
    BY <1>t, <2>1, <2>2, <2>4 DEF QuietInv, Between
  <2>5. CASE c = "handler" /\ r # -1
    <3>1. Rest' = 0
      BY <1>3, <1>n, <1>a, <2>1, <2>5 DEF QuietInv
    <3>2. at'["handler"] \in {"pause", "hold"} /\ at'["main"] = at["main"]
      BY <1>t, <2>1, <2>5
    <3> QED
      BY <1>n, <3>1, <3>2, TimesAssumption DEF QuietInv
  <2> QED
    BY <2>3, <2>4, <2>5 DEF Caller
<1>4. ASSUME NEW c \in Caller, Measure(c), c = "main" => at["handler"] = "out"
      PROVE  QuietInv'
  <2>a. \A d \in Caller : d # c => at'[d] = at[d]
    BY <1>4, <1>t DEF Measure, Trigger, SetTimeout, Poll, Test, Return, Start, End, Goto
  <2>b. c = "handler" \/ at["handler"] = "out"
    BY <1>4 DEF Caller
  <2>1. CASE Trigger(c)
    BY <1>1, <1>4, <2>1
  <2>2. CASE SetTimeout(c, "arm", "rise")
    <3>1. at[c] = "arm" /\ at'[c] = "rise" /\ NoTick
      BY <1>t, <2>2 DEF SetTimeout, Goto
    <3> QED
      BY <1>2, <1>4, <2>a, <3>1 DEF Measuring
  <2>3. CASE Poll(c, "rise", TRUE, "start", "riseTest")
    <3>1. /\ at[c] = "rise" /\ at'[c] = (IF line = "high" THEN "start" ELSE "riseTest")
          /\ NoTick
      BY <1>t, <2>3 DEF Poll, Goto
    <3>2. at'[c] = "start" => line' # "rising"
      BY <3>1 DEF NoTick
    <3> QED
      BY <1>2, <1>4, <2>a, <3>1, <3>2 DEF Measuring
  <2>4. CASE Start(c)
    <3>1. at[c] = "start" /\ at'[c] = "rearm" /\ NoTick
      BY <1>t, <2>4 DEF Start, Goto
    <3> QED
      BY <1>2, <1>4, <1>a, <2>a, <3>1 DEF Measuring, NoTick, QuietInv
  <2>5. CASE SetTimeout(c, "rearm", "fall")
    <3>1. at[c] = "rearm" /\ at'[c] = "fall" /\ NoTick
      BY <1>t, <2>5 DEF SetTimeout, Goto
    <3> QED
      BY <1>2, <1>4, <1>a, <2>a, <3>1 DEF Measuring, NoTick, QuietInv
  <2>6. CASE Poll(c, "fall", FALSE, "end", "fallTest")
    <3>1. /\ at[c] = "fall" /\ at'[c] = (IF line # "high" THEN "end" ELSE "fallTest")
          /\ NoTick
      BY <1>t, <2>6 DEF Poll, Goto
    <3>2. c = "handler" => line # "rising"
      BY <1>a, <3>1 DEF QuietInv
    <3>3. c = "handler" /\ at'[c] = "end" => line = "idle"
      BY <3>1, <3>2 DEF TypeOK
    <3> QED
      BY <1>2, <1>4, <2>a, <3>1, <3>2, <3>3 DEF Measuring, NoTick
  <2>7. CASE Test(c, "riseTest", "rise")
    <3>1. CASE Return(c, -1)
      BY <1>3, <1>4, <2>7, <3>1 DEF Test, Measuring
    <3>2. CASE Goto(c, "rise") /\ Tick
      <4>1. at'[c] = "rise"
        BY <1>t, <3>2 DEF Goto
      <4> QED
        BY <1>2, <1>4, <2>a, <3>2, <4>1 DEF Measuring
    <3> QED
      BY <2>7, <3>1, <3>2 DEF Test
  <2>8. CASE Test(c, "fallTest", "fall")
    <3>1. CASE Return(c, -1)
      BY <1>3, <1>4, <2>8, <3>1 DEF Test, Measuring
    <3>2. CASE Goto(c, "fall") /\ Tick
      <4>1. at[c] = "fallTest" /\ at'[c] = "fall"
        BY <1>t, <2>8, <3>2 DEF Goto, Test
      <4>2. c = "handler" => line' # "rising"
        BY <1>a, <1>k, <3>2, <4>1 DEF QuietInv
      <4> QED
        BY <1>2, <1>4, <2>a, <3>2, <4>1, <4>2 DEF Measuring
    <3> QED
      BY <2>8, <3>1, <3>2 DEF Test
  <2>9. CASE End(c)
    BY <1>3, <1>4, <2>9 DEF End, Measuring
  <2> QED
    BY <1>4, <2>1, <2>2, <2>3, <2>4, <2>5, <2>6, <2>7, <2>8, <2>9 DEF Measure
<1>5. CASE Sleep("main") /\ at["handler"] = "out"
  BY <1>5, <1>t, <1>a, <1>k DEF Sleep, QuietInv, Between
<1>6. CASE Sleep("handler")
  BY <1>6, <1>t, <1>a, <1>k DEF Sleep, QuietInv, Between
<1>7. CASE Hold
  BY <1>7, <1>t, <1>n, <1>a, <1>k DEF Hold, QuietInv, Between
<1>8. CASE Wake("main", "trigger") /\ at["handler"] = "out"
  <2>1. /\ at["main"] = "pause" /\ age["main"] >= Pause
        /\ at' = [at EXCEPT !["main"] = "trigger"] /\ Rest' = Rest
    BY <1>8 DEF Wake, Goto, NoTick, Rest
  <2>2. Rest = 0
    BY <1>8, <1>a, <1>n, <2>1 DEF QuietInv, Between
  <2> QED
    BY <1>8, <1>t, <1>n, <2>1, <2>2, TimesAssumption DEF QuietInv, Between
<1>9. CASE Wake("handler", "hold")
  <2>1. /\ at["handler"] = "pause" /\ age["handler"] >= Pause
        /\ at' = [at EXCEPT !["handler"] = "hold"] /\ Rest' = Rest
    BY <1>9 DEF Wake, Goto, NoTick, Rest
  <2>2. Rest = 0
    BY <1>a, <1>n, <2>1 DEF QuietInv
  <2> QED
    BY <1>t, <1>n, <2>1, <2>2, TimesAssumption DEF QuietInv, Between
<1>10. CASE Interrupt \/ Ask \/ Leave
  <2>1. /\ Between /\ Between' /\ at'["main"] = at["main"] /\ age' = age
        /\ at'["handler"] \in {"out", "hold", "trigger"} /\ Rest' = Rest
    BY <1>10, <1>t DEF Interrupt, Ask, Leave, Goto, NoTick, Between, Rest
  <2> QED
    BY <1>a, <2>1 DEF QuietInv
<1>11. CASE UNCHANGED vars
  BY <1>11 DEF vars, calls, sensor, history, QuietInv, Between, Rest
<1> QED
  BY <1>t, <1>b, <1>4, <1>5, <1>6, <1>7, <1>8, <1>9, <1>10, <1>11
     DEF Next, Main, Handler

\* The sleeps after a measurement outlast every echo that fits Pause, so the loop
\* never takes an old echo for its own.
THEOREM Quietness == Spec => []StartsQuiet
<1>1. Init => TypeOK /\ QuietInv
  <2>1. Init => TypeOK
    BY Caps, EchoAssumption, TimesAssumption
       DEF Init, TypeOK, Caller, Place, Measuring
  <2>2. Init => QuietInv
    BY TimesAssumption DEF Init, QuietInv, Between, Rest, Caller
  <2> QED
    BY <2>1, <2>2
<1>2. TypeOK /\ QuietInv /\ [Next]_vars => TypeOK' /\ QuietInv'
  BY TypeStep, QuietStep
<1>3. TypeOK /\ QuietInv => StartsQuiet
  BY RestType DEF QuietInv, StartsQuiet, Between
<1> QED
  BY <1>1, <1>2, <1>3, PTL DEF Spec
=============================================================================

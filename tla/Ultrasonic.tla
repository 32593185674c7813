----------------------------- MODULE Ultrasonic -----------------------------
(***************************************************************************)
(* ultrasonic_get_distance, timed, and its two callers: the main loop      *)
(* (main.c:220, then a sleep of 100 ms) and the CGI handler (cgi.h:31),    *)
(* whose interrupt preempts the loop inside a measurement and runs to its  *)
(* end.  Both use the one sensor and its line ECHO.                        *)
(*                                                                         *)
(* A unit of time is a round of a waiting loop.  Distances are the times   *)
(* their echoes take: a constant stands for the limit of 20 ms, and so on. *)
(***************************************************************************)
EXTENDS Integers

CONSTANTS
  Limit,      \* the wait for an edge (20 ms)
  Near, Far,  \* the valid echoes (2 cm, 400 cm)
  Delay,      \* from the trigger to the rise of ECHO
  Echo,       \* how long ECHO may stay high (38 ms if nothing is there)
  Pause       \* the shorter of the callers' sleeps (100 ms; 500 ms in a refusal)

ASSUME TimesAssumption ==
  /\ {Limit, Near, Far, Delay, Pause} \subseteq Nat \ {0}
  /\ Delay <= Limit /\ Limit < Far /\ Limit < Pause

ASSUME EchoAssumption ==
  Echo \subseteq Nat \ {0} /\ \A e \in Echo : Delay + e <= Pause

Caller == {"main", "handler"}

VARIABLES
  at,         \* where each caller is
  age,        \* the time since it set timeout, or fell asleep
  run,        \* the time since its start_time
  reading,    \* what it was returned last
  line,       \* ECHO: "idle", "rising" (low after a trigger) or "high"
  left,       \* the time to its next edge
  pulse,      \* how long the echo of the last trigger is
  alive,      \* the sensor works
  pure,       \* history: the caller has had the sensor for itself so far
  since       \* history: the time since the handler's trigger

calls == <<at, age, run, reading>>
sensor == <<line, left, pulse, alive>>
history == <<pure, since>>
vars == <<calls, sensor, history>>

-----------------------------------------------------------------------------
\* The places in a call, and those outside.
Measuring == {"trigger", "arm", "rise", "riseTest", "start", "rearm", "fall",
              "fallTest", "end"}
Place == Measuring \cup {"out", "hold", "pause"}

\* Bounds: no test tells greater times apart.
AgeCap   == Pause
RunCap   == Far + 1
SinceCap == 2 * Limit + 3

Up(n, cap) == IF n < cap THEN n + 1 ELSE cap

\* What a measurement with the sensor for itself returns.
Measured(e) == IF e > Limit + 1 \/ e < Near \/ e > Far THEN -1 ELSE e

Init ==
  /\ at = [c \in Caller |-> IF c = "main" THEN "trigger" ELSE "out"]
  /\ age = [c \in Caller |-> 0] /\ run = [c \in Caller |-> 0]
  /\ reading = [c \in Caller |-> -1]
  /\ line = "idle" /\ left = 0 /\ pulse = 0 /\ alive = TRUE
  /\ pure = [c \in Caller |-> FALSE] /\ since = 0

-----------------------------------------------------------------------------
\* A unit of time passes, for the timers and for ECHO.
Edge ==
  /\ left = 1
  /\ \/ line = "rising" /\ line' = "high" /\ left' = pulse
     \/ line = "high"   /\ line' = "idle" /\ left' = 0

Tick ==
  /\ age' = [c \in Caller |-> Up(age[c], AgeCap)]
  /\ run' = [c \in Caller |-> Up(run[c], RunCap)]
  /\ since' = Up(since, SinceCap)
  /\ \/ (~alive \/ line = "idle") /\ UNCHANGED <<line, left>>
     \/ alive /\ line # "idle" /\ left > 1 /\ left' = left - 1 /\ UNCHANGED line
     \/ alive /\ Edge
  /\ UNCHANGED <<reading, pulse, alive, pure>>

NoTick == UNCHANGED <<line, left, pulse, alive, since>>

Goto(c, next) == at' = [at EXCEPT ![c] = next]

-----------------------------------------------------------------------------
(***************************************************************************)
(* ultrasonic_get_distance, called by c.                                   *)
(***************************************************************************)
\* A sensor that is busy ignores the trigger.
Trigger(c) ==
  /\ at[c] = "trigger" /\ Goto(c, "arm")
  /\ IF alive /\ line = "idle"
     THEN /\ line' = "rising" /\ left' = Delay /\ pulse' \in Echo
          /\ pure' = [pure EXCEPT ![c] = TRUE]
     ELSE /\ UNCHANGED <<line, left, pulse>>
          /\ pure' = [pure EXCEPT ![c] = FALSE]
  /\ since' = IF c = "handler" THEN 0 ELSE since
  /\ UNCHANGED <<age, run, reading, alive>>

\* make_timeout_time_us, before each of the two waits.
SetTimeout(c, from, next) ==
  /\ at[c] = from /\ Goto(c, next)
  /\ age' = [age EXCEPT ![c] = 0]
  /\ UNCHANGED <<run, reading, pure>> /\ NoTick

\* gpio_get(ECHO_PIN), until it reads the level.
Poll(c, from, level, next, test) ==
  /\ at[c] = from /\ Goto(c, IF (line = "high") = level THEN next ELSE test)
  /\ UNCHANGED <<age, run, reading, pure>> /\ NoTick

\* Faulty: the handler refuses without a sleep.
Return_Awake(c, r) ==
  /\ reading' = [reading EXCEPT ![c] = r]
  /\ Goto(c, IF c = "main" THEN "pause" ELSE "hold")
  /\ age' = [age EXCEPT ![c] = 0]
  /\ UNCHANGED <<run, pure>> /\ NoTick

\* The call returns.  The handler refuses to drive without a valid reading, and
\* sleeps; the loop sleeps after every turn.
Return(c, r) ==
  /\ reading' = [reading EXCEPT ![c] = r]
  /\ Goto(c, IF c = "main" \/ r = -1 THEN "pause" ELSE "hold")
  /\ age' = [age EXCEPT ![c] = 0]
  /\ UNCHANGED <<run, pure>> /\ NoTick

\* Faulty: no timeout.
Test_Endless(c, from, again) ==
  /\ at[c] = from
  /\ Goto(c, again) /\ Tick

\* The timeout is over, or the wait goes on.
Test(c, from, again) ==
  /\ at[c] = from
  /\ \/ age[c] > Limit /\ Return(c, -1)
     \/ age[c] <= Limit /\ Goto(c, again) /\ Tick

\* Faulty: the clock is started with the trigger.
Start_Early(c) ==
  /\ at[c] = "start" /\ Goto(c, "rearm")
  /\ UNCHANGED <<age, run, reading, pure>> /\ NoTick

\* start_time
Start(c) ==
  /\ at[c] = "start" /\ Goto(c, "rearm")
  /\ run' = [run EXCEPT ![c] = 0]
  /\ UNCHANGED <<age, reading, pure>> /\ NoTick

\* Faulty: the distance is not checked.
End_Unchecked(c) == at[c] = "end" /\ Return(c, run[c])

\* end_time, and the check of the distance.
End(c) ==
  /\ at[c] = "end"
  /\ Return(c, IF run[c] > Far \/ run[c] < Near THEN -1 ELSE run[c])

Measure(c) ==
  \/ Trigger(c)
  \/ SetTimeout(c, "arm", "rise")
  \/ Poll(c, "rise", TRUE, "start", "riseTest") \/ Test(c, "riseTest", "rise")
  \/ Start(c)
  \/ SetTimeout(c, "rearm", "fall")
  \/ Poll(c, "fall", FALSE, "end", "fallTest") \/ Test(c, "fallTest", "fall")
  \/ End(c)

-----------------------------------------------------------------------------
(***************************************************************************)
(* The callers.                                                            *)
(***************************************************************************)
\* sleep_ms
Sleep(c) == at[c] = "pause" /\ age[c] < Pause /\ UNCHANGED at /\ Tick

Wake(c, next) ==
  /\ at[c] = "pause" /\ age[c] >= Pause /\ Goto(c, next)
  /\ UNCHANGED <<age, run, reading, pure>> /\ NoTick

Main ==
  /\ at["handler"] = "out"
  /\ Measure("main") \/ Sleep("main") \/ Wake("main", "trigger")

\* The interrupt begins.
Interrupt ==
  /\ at["handler"] = "out" /\ Goto("handler", "hold")
  /\ pure' = [pure EXCEPT !["main"] = FALSE]
  /\ UNCHANGED <<age, run, reading>> /\ NoTick

\* It does something else, measures, or ends.
Hold == at["handler"] = "hold" /\ UNCHANGED at /\ Tick

Ask ==
  /\ at["handler"] = "hold" /\ Goto("handler", "trigger")
  /\ UNCHANGED <<age, run, reading, pure>> /\ NoTick

Leave ==
  /\ at["handler"] = "hold" /\ Goto("handler", "out")
  /\ UNCHANGED <<age, run, reading, pure>> /\ NoTick

Handler == Measure("handler") \/ Sleep("handler") \/ Wake("handler", "hold")

\* The sensor breaks down, and ECHO stays at its level.
Break ==
  /\ alive /\ alive' = FALSE
  /\ pure' = [c \in Caller |-> FALSE]
  /\ UNCHANGED <<calls, line, left, pulse, since>>

Next == Main \/ Interrupt \/ Hold \/ Ask \/ Leave \/ Handler \/ Break

Spec == Init /\ [][Next]_vars

\* The loop runs unless it is preempted; a measurement of the handler runs.
FairSpec == Spec /\ WF_vars(Main) /\ WF_vars(Handler)

-----------------------------------------------------------------------------
TypeOK ==
  /\ at \in [Caller -> Place] /\ at["main"] \notin {"out", "hold"}
  /\ age \in [Caller -> 0 .. AgeCap] /\ run \in [Caller -> 0 .. RunCap]
  /\ reading \in [Caller -> {-1} \cup Near .. Far]
  /\ line \in {"idle", "rising", "high"}
  /\ pulse \in Echo \cup {0}
  /\ left \in Nat /\ (line = "idle" <=> left = 0)
  /\ line = "rising" => left <= Delay /\ pulse # 0
  /\ line = "high" => left <= pulse
  /\ alive \in BOOLEAN /\ pure \in [Caller -> BOOLEAN]
  /\ since \in 0 .. SinceCap

\* A call that had the sensor for itself returns the length of the echo it has
\* triggered, neither more nor less, or -1 (ultrasonic.c:28-66).  Car takes this
\* for Measured(ahead), and any reading for the others.
Exact ==
  [][\A c \in Caller :
       at[c] \in Measuring /\ at'[c] \notin Measuring /\ pure[c]
         => reading'[c] = Measured(pulse)]_vars

\* No measurement of the loop begins with ECHO still high or about to rise from
\* an earlier one, its own or the handler's: 100 ms (main.c:243) and the 500 ms
\* of a refusal (cgi.h:39) outlast the longest echo.
StartsQuiet ==
  alive /\ at["main"] = "trigger" /\ at["handler"] = "out" => line = "idle"

\* The handler holds the interrupt for a measurement no longer than for the two
\* waits, also with a sensor that is broken or busy with another's measurement.
Bounded == at["handler"] \in Measuring \ {"trigger"} => since <= 2 * (Limit + 1)

\* The loop gets its measurement done in the end, with ECHO dead or stuck high,
\* unless the interrupts do not cease.
Returns == <>[](at["handler"] = "out") => []<>(at["main"] = "pause")
=============================================================================

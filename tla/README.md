# The glasses-controlled car: a verification project

Two microcontrollers make up the system.  A Raspberry Pi Pico W drives the car:
it serves a web page, and a request such as `/led.cgi?motor=forward` moves it.
An Arduino Nano RP2040 on a pair of glasses turns head movements, blinks and an
infrared sensor into such requests, which it sends through an ESP-01S modem.
This directory holds TLA+ models of the program, the TLC runs that check them
and the proofs TLAPS checks.

## Inventory

The first-party code is about 1200 lines.  `arduino/` and `WifiNINA/` are
vendored, `build/` and `htmldata.c` are generated, and the glasses' `main` is
the commented-out first half of `main.c` (its binary is `build/pico-w-server.*`).

| component | code | state | operations |
|---|---|---|---|
| car main loop | `main.c:185-246` | local `distance`, where it is | boot; measure, test, halt or drive, sleep 100 ms |
| CGI handler | `cgi.h` | the four `is_moving_*` flags (shared with the loop) | one per parameter: `led`, `motor`, `buzzer`, `rgbled` |
| motor driver | `motor_driver.c` | 4 direction outputs, 2 PWM levels | five moves and `stop_car` |
| lamp, buzzer | `led.c`, `buzzer.c` | 3 + 1 PWM levels, the buzzer's wrap value | `set_rgb_color`, `buzzer_on/off/sound` |
| ultrasonic sensor | `ultrasonic.c` | none of its own: the line ECHO | trigger, timed wait for both edges |
| status page, boot | `ssi.h`, `html_files/`, `main.c:185-216` | ADC, Wi-Fi LED, lwIP's handler tables | one tag per call of `ssi_handler`; the order of the initialisations |
| lwIP port, page data | `sys_arch.c`, `makefsdata.py` | outside the running program | not modelled, see below |
| glasses main loop | `main.c:1-166` | `isIR`, `retry_count` | connect with retries; read sensors, choose a command, send |
| gyroscope | `gyroscope.c` | `currentState`, `gyroZ_offset` | init, calibrate, classify |
| modem | `wifi_module.c` | the UART, a 512-byte buffer per wait | send a command, wait for a response, connect |
| eye and IR sensors | `eye.c`, `ir_sensor.c` | none | read, compare |

How they interact.  On the car, the loop and the handler share the flags, the
sensor and the output registers and take no lock.  They run on one core.
`CMakeLists.txt:113` links lwIP as `threadsafe_background`, so a request is
served in a low-priority interrupt: it preempts the loop between any two
accesses and runs to its end, its sleeps included, before the loop goes on.  The
disassembly (`build/pico_w_webserver.dis`) shows that the loop loads each flag
when it tests it and that `pwm_set_gpio_level` is a load, an exclusive-or and a
store to the register's XOR alias.  The glasses talk to the car by HTTP requests
only, one TCP connection each, and ignore most failures.

What is hard: the handler's command between the loop's test and its effect;
driver calls that mix; level updates that tear; half a second of sleep inside an
interrupt; measurements that are preempted or hear another measurement's echo;
on the glasses, rates put together from two samples, bus failures nobody looks
at, responses matched by substring, timeouts and retries.
`PROJECT.json` lists each hazard at its line.

What makes each component correct:

- **Car loop and handler**: a car that drives forward is watched; an obstacle
  that stays stops it; the outputs are those of one driver call, never of two;
  the loop rewrites whatever the handler tore; a blind sleep is never spent
  driving; nothing the loop does reverses the car.
- **Drivers**: duty cycles stay in their range, also after a garbled update.
- **Ultrasonic sensor**: an undisturbed call measures its own echo; a measurement
  of the loop never begins in an old one; every call ends.
- **Gyroscope**: a still head never turns, a turning head is found, the position
  moves by one.
- **Modem, glasses loop**: the program never gets stuck, drives only once
  connected, no command is obeyed in a later turn than its own, and the two sides
  fall into step again after any failure.
- **Eye and IR sensors, glasses loop**: a blink stops the car, an object sends it
  to and fro, whatever changes between two reads and however late a request is.
- **Status page, boot**: no request, however early, meets a handler whose pins or
  ADC are not set up; the page tells the LED as it is.

## Modules

| module | models | state ↔ code |
|---|---|---|
| `Drivers` | `motor_driver.c`, `led.c`, `buzzer.c` | a register file: outputs as 0/1, PWM levels as sets of bits so that the exclusive-or of an update is exact; each driver call is the function from registers to values it writes |
| `Car` | `main.c:185-246`, `cgi.h`, what `ultrasonic.c` returns | `pc`, `goal`, `k`: the place in the loop, the calls it makes and its next register; `latched`, `latch`: halfway through a level update; `moving`: the four flags; `params`, `beeping`: the handler |
| `Drive` | what `Car` promises | `armed`: `is_moving_forward`; `forth`, `back`: some wheel turns so; `plan`: the loop has decided and is writing; `raced` |
| `Ultrasonic` | `ultrasonic.c` and its callers, timed | `at`: where the loop and the handler are in their calls; `age`, `run`: `timeout`, `start_time`; `line`, `left`, `pulse`, `alive`: ECHO (external) |
| `Boot` | `main.c:185-216`, `ssi.h`, the registration in `cgi.h` | `step`: the next store of the start; `led`; `open`, `shown`: lwIP's pages, tag by tag (external) |
| `Gyroscope` | `gyroscope.c` | `low`, `stage`: the measurement being read byte by byte; `sumZ`, `taken`: the calibration, its average never divided; `currentState` |
| `Dial` | what `gyroscope.c` promises | a heading that turns by one, and not before the head has moved |
| `Modem` | the ESP-01S and the serial line (external) | `todo`, `out`, `rx`: lines not yet looked at, responses not yet sent, responses not yet read; `link`, `joined`, `data` |
| `Glasses` | `wifi_module.c`, `main.c:30-63, 87-163` | `pc`: the wait or the line to write next; `retry_count`, `got_ip`, `full`, `command` |
| `Post` | what `Glasses` promises | `request`, `open`: the command of the turn; `queue`: commands on their way; `got` |
| `Look` | `main.c:105-148`, `eye.c`, `ir_sensor.c`, over `Dial` and `Post` | `at`: the place in the turn; `sensor_value`, `isIR`; `eye`, `object`: the world before the sensors |
| `System` | both programs: `Look`, `Post` and `Drive` | `obeyed`: the last command the car has obeyed |
| `MC*` | | instances for TLC |
| `*Proofs` | | theorems and proofs |

The levels fit together by refinement.  `Car` implements `Drive`, `Glasses`
implements `Post`, `Gyroscope` implements `Dial`; `System` composes the three
abstractions with the sensors, so what it shows rests on what the detailed
modules show.  `Car` uses of a measurement only what `Exact` says of an
undisturbed one, and takes any reading for the others.

Granularity.  In `Car` the loop makes one access to shared state per step, and a
level update two (`Fetch`, `Flip`).  The handler cannot be interrupted by the
loop, so one parameter is one step (`Forward`, `Refuse`, ...), cut only where it
sleeps in `buzzer_sound` (`BeepEnd`).  In `Gyroscope` each byte is a step, as the
sensor goes on sampling.  In `Glasses` a step is what happens between two points
where the modem may come in: a line written, a response read, a wait given up.
In `Ultrasonic` each test and each access to the clock or the pin is a step, time
passes in between, and the handler comes in between any two of the loop's.  In
`Boot` each store that lwIP's interrupt can see is a step of `main`.  In `Look` each
read of a sensor is a step, and the world may change before the next.

Variables marked *history* are not in the code.  `raced` records that a command
came between the loop's test and the end of what it decided; several properties
hold up to that race, and `car_lost_command` shows what it costs.  `motion` says
what the sensor has seen of the head, `lost` which bytes were not read, `arrived`
which command the car got in this turn, and `late` that a request was given up
unconfirmed.  In `Ultrasonic`, `pure` says that a call has had the sensor for itself
and `since` how long the handler has been measuring; in `Boot`, `answer` and `set`
say what a page answers and `handled` that a motor command was obeyed; in `Look`,
`flicker` that the object came or went just between the first two reads.

## Runs

| run | asks | result |
|---|---|---|
| `car_motor` | all motor commands, in requests of up to two parameters, at every point of the loop | holds: `Armed`, `WholeCall`, `LampTells`, `BeepsAtRest`, `DutyInRange`, `ClearReadingStarts`, `MainNeverReverses`, and the refinement `DriveOK` |
| `car_steer` | does a real obstacle (below 10 cm) that stays halt the car, does a road free within the sensor's reach bring the wheels and the lamp back to the flags? | `ObstacleHalts`, `Heals` hold; and `SteersAsFlagged`: but for a race, an armed car moves as the flags say |
| `ultrasonic` | both callers, one preempting the other, echoes of every kind, a sensor that breaks | `Exact`, `StartsQuiet`, `Bounded`, `Returns` hold |
| `boot` | requests at every moment of the start, pages and commands on two connections | `SetUp`, `Whole`, `NeverStuck`, `LedTells`, `ComesUp` hold |
| `gyro` | failed transfers, mixed samples, still and turning heads | `NoGhostTurn`, `EachCounts`, `TurnIsSeen` hold; the driver implements `Dial` |
| `glasses` | a modem that is late, silent, busy or talkative, and may calm down | `OwnTurn`, `StaysInStep`, `Resync`, `KeepsGoing` hold; the program implements `Post` (`Posts`) |
| `system` | glasses and car together: sensors that change between reads, requests lost, late or given up, commands that race the car's loop | `AsTold`, `Alternates`, `EyeStops`, `RoundTrips`, `Leaves` hold |
| `car_lost_command` | main.c:224, "Only stop if obstacle detected while moving forward" | violated: `is_moving_forward = false` (main.c:228) comes after half a second of tone; a `forward` served meanwhile turns the wheels and loses its guard |
| `car_open_road` | main.c:238, "Keep moving forward if no obstacle" | violated: on a road free beyond the sensor's reach the measurement returns -1, which is less than 10 (main.c:223), and a moving car halts |
| `car_tone` | buzzer.c:45, "Turn off the buzzer after the sound duration" | violated: an interrupt inside the update turns the tone on |
| `gyro_offset` | gyroscope.c:171, "Apply calibration" | violated: the z offset is subtracted from x |
| `glasses_give_up` | main.c:101, "Failed to connect to WiFi" | violated: printed when the third retry has connected |

No run of its own: a failed transfer reads as 0xFF and `lsm6dsl_read_gyro` returns
true all the same, so `STATE_ERROR` and its message (gyroscope.c:215-216) are never
reached.  `TypeOK` of `Gyroscope` has only the three positions, and `TypeCorrect`
proves that no other occurs.

Other things the models show, for which no text in the repository makes a claim:
a value of `motor` that is none of the five arms the loop, which then sets a
standing car moving (`OtherMotor`, cgi.h:29); a refused `forward` in the loop's
window does not stop the move the loop has decided on; after `buzzer_sound` the
level of `buzzer_on` is no longer the middle of the wrap value;
`EYE_BLINK_THRESHOLD` is 4095, so every reading of the 12-bit ADC but the largest
is a blink; a `forward` on a road free beyond the sensor's reach is refused, for
the reason `car_open_road` shows in the loop (cgi.h:31); `WIFI DISCONNECT` contains `CONNECT`, so a wait for a connection
may find one in the notice that the network is gone (wifi_module.c:50); and a
`forward` served during the loop's measurement takes its echo, after which the
loop may read -1 and halt the car it has just started.

### Bounds, and why they are enough

- **Distances** 5, 10 and 500 cm: one on each side of the test `distance < 10`
  and one beyond the sensor's 20 ms.  A disturbed measurement returns any of
  the distances that are valid readings, or -1.
- **Parameters**: two per request are enough for every pair of handler branches
  to follow each other inside one interrupt; requests follow each other without
  bound.  The runs under fairness use one.
- **Samples**: the high and low bytes for which mixing two samples changes most
  (-1 and 0, -256 and 255), one on each side whose high byte is just large enough
  for 15 degrees per second whatever the low byte and the offset, and the largest
  rate.  Three calibration samples instead of 100, enough for a
  sum that mixes them; the proofs hold for every number.
- **Times of the ultrasonic sensor** are in units of 7 ms, rounded up: a limit of 3
  (20 ms), a farthest valid distance of 4 (400 cm take 23 ms), a pause of 7 (more
  than the longest echo, as 100 ms is).  The nearest valid distance would be 1
  (2 cm take 0.1 ms) and is 2, so that there is a shorter echo.  Echoes are below
  the nearest valid distance, at it, at the last one the limit lets through (the
  loop tests the time after the pin, so one unit late), and 6 for nothing in
  reach (38 ms).  Clocks stop counting where no test tells greater times apart
  (`AgeCap`, `RunCap`, `SinceCap`).  The proofs hold for all values.
- **Boot**: two connections, since each property relates one page to at most one
  other request.
- **System**: readings of the eye on both sides of the threshold, 4094 and 4095,
  and one command on its way (`Unposted`); a turn lasts seconds, and a later
  command overtakes none.
- **Modem**: two responses in the receive buffer, two lines waiting: enough for a
  line, a confirmation and the remains of the previous turn to be under way
  together.  With three responses the result is the same (3.3 million states).
  One retry, three in `glasses_give_up`.  Two commands, so that an order can be
  told; `OwnTurn` also tells a late request by the place the program has reached.
- **Registers** have their real width; the level updates are exact.

### Fairness, and why the code justifies it

`Car`: `WF(MainStep)` and `WF(HandlerStep)`.  The loop has no blocking call but
sleeps, and runs whenever no interrupt is being served; an interrupt that has
begun ends.  Nobody has to send requests or move obstacles; `ObstacleHalts` and
`Heals` assume that the traffic ceases and, the one, that an obstacle stays within
10 cm, the other, that the road stays free within the sensor's reach.
`Gyroscope`: the glasses' loop calls the driver again and again.  `Glasses`: the
program runs; `WF(Timeout)`, because every wait compares the clock with its start
(wifi_module.c:38) and no response starts it anew; the modem gets on with its
work, which only `Resync` needs.  `Resync` also assumes that the modem is calm
from some time on: it answers before the program gives up and the network stays.
`Ultrasonic`: `WF(Main)` and `WF(Handler)`, the latter for a call that has begun;
`Returns` assumes that interrupts cease.  `Boot`: `WF(Main)`, since nothing blocks the
start but the access point; `ComesUp` assumes that this stays.  `System`: the
glasses' loop goes on; a request that is open is sent or given up, because every
wait has its timeout (wifi_module.c:38); the car's loop plans, and carries every
plan out, because it runs whenever no request is served, and the glasses sleep
more than a second for each request (main.c:32, 53) while a handler or a plan
takes less.  `EyeStops`, `RoundTrips` and `Leaves` assume `Reliable`: from some time
on, each turn's command has arrived when the turn is over, which is what `Resync`
shows of `Glasses` once the modem is calm.

`CHECK_DEADLOCK FALSE` stands in the glasses' configurations because the program
really ends when it gives up.

## Proofs

All theorems hold for every value of the constants, from the named assumptions of
the modules (`DistanceAssumption`, `SampleAssumption`, ...); `LampIsTrue` and
`AsFlagged` have one of their own.

**The car.**  `CarProofs` and `CarDriveProofs`.

- `TypeCorrect`: `Spec => []TypeOK`, with lemmas on the drivers (what a call writes
  is a level of the register's type, and `Apply` keeps the rest).
- `Guarded`: `Spec => []Armed`.  `Armed` is not inductive: when the loop clears the
  flag, nothing in `Armed` says that the wheels stand.  `ArmedInv` (`HaltFollowed`)
  adds that in the window the flag is still set and that the direction inputs the
  halt has written so far are low (`HaltingSoFar`), which makes the motors stand
  when the last is written, hold through the tone, and let `Clear` drop the flag.
  A command in the window sets `raced`; outside it the handler's own call and
  flags agree.
- `SleepsAtRest`: `Spec => []BeepsAtRest`: nothing but the handler itself runs
  during its tone, and it has stopped the car before.
- `Refinement`: `Spec => DriveOK`.  Every write of a register must be a step of
  `Drive` or a stutter, so the invariant `DriveInv` says of every register what it
  may hold at every point of the loop: `LevelsOK` (inputs are high or low, a duty
  level has at most eight bits, also the one about to be flipped), `Written` (what
  the loop has written in this window stays unless a command came), and `Mixed`
  (what a `backward` and the loop's writes can leave of a bridge together).
- From the same invariant `DutyBounded` (an exclusive-or of levels of eight bits
  has eight bits), `NeverReverses`, `WholeCalls` and, with the reasons of each plan (`Reasons`),
  `StartsOnFreeRoad`.  `LampIsTrue` has the assumption that no request
  paints the lamp, `Commands \cap DOMAIN Color = {}`: one that does is meant to.
- `AsFlagged`: `Spec => []SteersAsFlagged`, if no request arms the loop by an unknown
  motor value, which sets a flag and no wheel (cgi.h:29).  `FlagInv` follows the
  loop's tests: unless a command races it, `left` is not flagged when it tests
  `right`, and the call it makes is the one for the flags (`FlagGoal`); `WindowEnds`
  says that this call is whole when the loop leaves its window, or that the loop
  is disarmed.

**The ultrasonic sensor.**  `UltrasonicProofs`, for every limit, delay, range of
echoes and pause that satisfy `TimesAssumption` and `EchoAssumption`.

- `Exactness`: `Spec => Exact`.  The phases (`PhaseInv`) of an undisturbed call are tied to the
  line: while it waits for the rise, ECHO is low or has just risen; after
  `start_time` the time since is what has passed of the pulse.
- `Boundedness`: `Spec => []Bounded`, by `BoundInv`: each wait adds at most the limit and one round.
- `Quietness`: `Spec => []StartsQuiet`, by `QuietInv`: a caller that sleeps has slept at least as
  long as the echo has been getting shorter, and sleeps as long as the longest.
- `TypeCorrect`, with the clocks' caps.

**The gyroscope.**  `GyroscopeProofs`.

- `NoGhost`: `Spec => []NoGhostTurn`.  `StillInv` (`StillHead`) says why: while every
  sample is still, each high byte read is 0 or -1, also one that failed, so every
  rate lies in -256..255 and so does the average; their difference is below the
  threshold of 15 degrees per second, whatever the number of samples.
- `FastHead`: `Spec => EachCounts`, the converse: after a calibration of a still
  sensor, a high byte of 8 or more, or of -9 or less, makes a rate of 2048 - 255
  units at least, or of -2049 + 256 at most, with whatever low byte it is put
  together; both are beyond 15 degrees per second, so the position moves.
- `Refinement`: `Spec => Implements`: every step is a step of `Dial` or a stutter.
- `TypeCorrect`.

**The glasses.**  `GlassesProofs` and `GlassesPostProofs`, for every size of the buffers.

- `Connection`: `Spec => []DrivesConnected`, commands are sent only once the
  connection stands, with the bound on the retries as the strengthening.  `TypeCorrect`: `Spec => []TypeOK`, for which it must be known
  that a line is only written with a command, and that tests are counted up to 3.
- `OwnTurns`: `Spec => []OwnTurn`.  `OwnTurn` says
  nothing of what is still on its way; `OwnInv` follows it.  As long as no request
  was given up: at most one line of a request waits, behind `CIPSEND` nothing but
  the request, and only while the request is made (`Requested`); there is at most
  one `SEND OK` on the line, it is the first word of an answer, and while it is
  there no request is (`Confirming`).  So when it is read, and the wait for it
  ends, nothing of the turn is left, and the modem is not in the middle of a
  request when the next turn begins.
- `InStepForever`: `Spec => StaysInStep`, the safety half of `Resync`: once a calm
  modem is ready at the beginning of a turn, every later command arrives in its
  own turn.  `InStep` says for each wait which words the UART and the modem may
  still hold (`Only`) and that the one which ends the wait is the last of the
  answer (`Ends`).  The two that matter: what is left when a prompt is waited for
  contains no other prompt, and what is left when `SEND OK` is waited for contains no
  `SEND OK`; so neither wait ends early, and the request has reached the car
  when the turn goes on.
- `Posting`: `Spec => Posts`.  The refinement mapping takes the requests out of the
  modem's queue of lines (`Requests`, a recursive function; the run also
  compares it with `SelectSeq` on every sequence of up to three lines).  The lemmas
  `RequestsOfAppend` and `RequestsOfTail` say how a new line and the loss of the first
  change it; they go by induction on the length of the queue (`Induction`, for
  a set of numbers instead of a predicate, from the well-foundedness of `<`).
  The step that could fail is the modem's reset, which drops all its lines at
  once, while `Post` loses one command at a time: `NoneYet` (`NothingLostInReset`) says
  that while the program connects no request is among them.

**The start.**  `BootProofs`, for every number of connections.

- `PinsFirst`: `Spec => []SetUp`, `Pages`: `Spec => []Whole`, `NeverWaits`:
  `Spec => []NeverStuck`, `LedIsTold`: `Spec => LedTells`, and `TypeCorrect`.  `Progress` turns "this store has
  been made" into how far `main` has come, and `GoesOn` shows that it only goes on;
  `BootInv` adds that a command or an answer to one means that the table of
  handlers is complete, that the LED is what the last such request set, and
  that before the tags are registered every tag is unknown (`Early`).

**Both together.**  `SystemProofs`, for every set of readings.

- `Obedience`: `Spec => []AsTold`: without a race, the flag says what the last
  command was, and a plan is made only while the flag is set (`ToldInv`).
- `Alternation`: `Spec => Alternates`: an object found is remembered by the second
  read unless it went away between the two (`FoundInv`).
- `TypeCorrect`.

Only model-checked.  Every safety property and every refinement the passing runs
check has a theorem.  Liveness (`ObstacleHalts`, `Heals`, `TurnIsSeen`, `Resync`,
`KeepsGoing`, `Returns`, `ComesUp`, `EyeStops`, `RoundTrips`, `Leaves`) is out of the prover's
reach; of `Heals`, `TurnIsSeen` and `Resync` the safety halves are proved
(`SteersAsFlagged`, `EachCounts`, `StaysInStep`).

## Not modelled

The four `gyroscope_is...1` predicates, `test_rgb_led`, `move_backward_left` and
`move_backward_right` are never called.  Rates and distances are exact where the
code computes in floating point; no property rests on the last digit.  The
transfers and answers of the sensors' buses, the modem and lwIP are external.
`arduino/` (mbed with the vendors' HALs), `WifiNINA/`, `build/` and `htmldata.c` are
vendored or generated: 3600 of the repository's files, and almost all of its
lines, are none of this program's own code.

`sys_arch.c` saves the interrupt state in one static variable, so nested critical
sections would not restore it.  The file is not in `CMakeLists.txt`, the SDK's
own port is linked, and nothing calls it: there is no behaviour to model.
`makefsdata.py` is a build script over a fixed directory of one page, without
state, concurrency or failure handling.

lwIP's own data structures are external; that `httpd_init` runs without
`cyw43_arch_lwip_begin` (main.c:209) is listed as a hazard, but what could go
wrong is inside lwIP.  `buzzer_on`'s level after `buzzer_sound` is modelled, but
nothing in the repository says what it should be.

## Plan

What the code of this repository does while it runs is modelled, and its safety
properties are proved.  What would come next is the composition without
abstractions: `Glasses`, `Gyroscope` and `Car` side by side, on a machine larger than
these runs need, or a proof that their refinements carry over to `System`.

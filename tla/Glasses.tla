------------------------------ MODULE Glasses ------------------------------
(***************************************************************************)
(* The program of the glasses as the modem sees it: the first half of      *)
(* main.c with wifi_module.c.  It joins the network, and then sends one    *)
(* command after the other to the car.  Which command the sensors make it  *)
(* send is left open here.                                                 *)
(*                                                                         *)
(* One step is what the program does between two points where the modem    *)
(* may come in: a line written, a response read, a wait given up.          *)
(***************************************************************************)
EXTENDS Modem

CONSTANTS
  Commands,   \* the commands the sensors may ask for
  Retries     \* how often a connection is tried again (the code: 3)

ASSUME CommandsAssumption == Commands \subseteq CarCommand /\ Commands # {}
ASSUME RetriesAssumption == Retries \in Nat

VARIABLES
  pc,             \* where the program is
  i,              \* the commands of connect_to_wifi that are done
  retry_count,
  got_ip,         \* what connect_to_wifi returned last
  full,           \* the wait's buffer takes no more characters
  command,        \* the command of this turn
  late            \* history: a request was given up before it was confirmed

program == <<pc, i, retry_count, got_ip, full, command, late>>
vars == <<rx, modem, calm, program>>

-----------------------------------------------------------------------------
\* Faulty: any OK confirms a request.
Expected_AnyOk ==
  [testing  |-> "OK",      joining   |-> "WIFI GOT IP", closing |-> "OK",
   starting |-> "CONNECT", prompting |-> ">",           sending |-> "OK",
   ending   |-> "CLOSED"]

\* What each wait waits for.
Expected ==
  [testing  |-> "OK",      joining   |-> "WIFI GOT IP", closing |-> "OK",
   starting |-> "CONNECT", prompting |-> ">",           sending |-> "SEND OK",
   ending   |-> "CLOSED"]

Waiting == DOMAIN Expected

Pc == Waiting \cup
  {"reset", "test", "join", "over",
   "sense", "close", "start", "prompt", "payload", "done"}

Init ==
  /\ ModemInit
  /\ pc = "reset" /\ i = 0 /\ retry_count = 0 /\ got_ip = FALSE /\ full = FALSE
  /\ command = "none" /\ late = FALSE

-----------------------------------------------------------------------------
Goto(next) == pc' = next

KeepUart == UNCHANGED rx

flush_uart_input == rx' = <<>>

\* The line is written and the wait begins with an empty buffer.
Ask(line, next) ==
  /\ Write(line)
  /\ Goto(next) /\ full' = FALSE
  /\ UNCHANGED <<out, joined, link, data, calm>>

\* send_at_command, up to its wait.
send_at_command(line, next) == flush_uart_input /\ Ask(line, next)

-----------------------------------------------------------------------------
(***************************************************************************)
(* connect_to_wifi and main's retries.                                     *)
(***************************************************************************)
\* hardware_reset_esp.
Reset ==
  /\ pc = "reset" /\ Goto("test") /\ i' = 0
  /\ ModemReset
  /\ UNCHANGED <<rx, calm, arrived, retry_count, got_ip, full, command, late>>

\* AT three times, then AT+CWMODE.
Test ==
  /\ pc = "test" /\ send_at_command(IF i < 3 THEN "AT" ELSE "CWMODE", "testing")
  /\ UNCHANGED <<arrived, i, retry_count, got_ip, command, late>>

\* Not through send_at_command: what has been received stays.
JoinNetwork ==
  /\ pc = "join" /\ Ask("CWJAP", "joining") /\ KeepUart
  /\ UNCHANGED <<arrived, i, retry_count, got_ip, command, late>>

\* One second of the thirty is over: the next wait starts with a new buffer,
\* and a response of which this one has read a part is lost.
Second ==
  /\ pc = "joining" /\ full' = FALSE
  /\ rx # <<>> /\ rx' = Tail(rx)
  /\ UNCHANGED <<modem, calm, pc, i, retry_count, got_ip, command, late>>

\* Faulty: one retry more than their number.
Connected_OnceMore(found) ==
  /\ got_ip' = found
  /\ IF ~found /\ retry_count <= Retries
       THEN retry_count' = retry_count + 1 /\ Goto("reset")
       ELSE /\ UNCHANGED retry_count
            /\ Goto(IF retry_count >= Retries THEN "over" ELSE "sense")

\* main's loop over connect_to_wifi, and the test behind it.
Connected(found) ==
  /\ got_ip' = found
  /\ IF ~found /\ retry_count < Retries
       THEN retry_count' = retry_count + 1 /\ Goto("reset")
       ELSE /\ UNCHANGED retry_count
            /\ Goto(IF retry_count >= Retries THEN "over" ELSE "sense")

-----------------------------------------------------------------------------
(***************************************************************************)
(* main's loop and send_http_request.                                      *)
(***************************************************************************)
Sense ==
  /\ pc = "sense" /\ Goto("close")
  /\ command' \in Commands
  /\ arrived' = "none"
  /\ UNCHANGED <<rx, todo, out, joined, link, data, calm, i, retry_count, got_ip,
                 full, late>>

Close ==
  /\ pc = "close" /\ send_at_command("CIPCLOSE", "closing")
  /\ UNCHANGED <<arrived, i, retry_count, got_ip, command, late>>

\* Not through send_at_command either.
Start ==
  /\ pc = "start" /\ Ask("CIPSTART", "starting") /\ KeepUart
  /\ UNCHANGED <<arrived, i, retry_count, got_ip, command, late>>

Prompt ==
  /\ pc = "prompt" /\ send_at_command("CIPSEND", "prompting")
  /\ UNCHANGED <<arrived, i, retry_count, got_ip, command, late>>

Payload ==
  /\ pc = "payload" /\ Ask(command, "sending") /\ KeepUart
  /\ UNCHANGED <<arrived, i, retry_count, got_ip, command, late>>

Done ==
  /\ pc = "done" /\ Goto("sense")
  /\ UNCHANGED <<rx, modem, calm, i, retry_count, got_ip, full, command, late>>

-----------------------------------------------------------------------------
(***************************************************************************)
(* wait_for_response, and what follows each wait.                          *)
(***************************************************************************)
\* Faulty: no request is sent if no connection could be closed.
AfterRequest_Strict(found) ==
  /\ Goto(CASE pc = "closing"   -> IF found THEN "start" ELSE "done"
            [] pc = "starting"  -> IF found THEN "prompt" ELSE "done"
            [] pc = "prompting" -> "payload"
            [] pc = "sending"   -> "ending"
            [] pc = "ending"    -> "done")
  /\ late' = (late \/ (pc = "sending" /\ ~found))
  /\ UNCHANGED <<i, retry_count, got_ip>>

\* Faulty: a request that is not confirmed is sent again.
AfterRequest_Resend(found) ==
  /\ Goto(CASE pc = "closing"   -> "start"
            [] pc = "starting"  -> IF found THEN "prompt" ELSE "done"
            [] pc = "prompting" -> "payload"
            [] pc = "sending"   -> IF found THEN "ending" ELSE "payload"
            [] pc = "ending"    -> "done")
  /\ late' = (late \/ (pc = "sending" /\ ~found))
  /\ UNCHANGED <<i, retry_count, got_ip>>

\* send_http_request goes on whatever its waits return, but for the second.
AfterRequest(found) ==
  /\ Goto(CASE pc = "closing"   -> "start"
            [] pc = "starting"  -> IF found THEN "prompt" ELSE "done"
            [] pc = "prompting" -> "payload"
            [] pc = "sending"   -> "ending"
            [] pc = "ending"    -> "done")
  /\ late' = (late \/ (pc = "sending" /\ ~found))
  /\ UNCHANGED <<i, retry_count, got_ip>>

AfterWait(found) ==
  \/ /\ pc = "testing"
     /\ i' = i + 1 /\ Goto(IF i < 3 THEN "test" ELSE "join")
     /\ UNCHANGED <<retry_count, got_ip, late>>
  \/ pc = "joining" /\ Connected(found) /\ UNCHANGED <<i, late>>
  \/ pc \in Waiting \ {"testing", "joining"} /\ AfterRequest(found)

\* A response is read.  Behind a page, or a part of one, the buffer is full and
\* nothing is found any more.
Receive ==
  /\ pc \in Waiting /\ rx # <<>>
  /\ rx' = Tail(rx)
  /\ IF ~full /\ Contains(Head(rx), Expected[pc])
       THEN AfterWait(TRUE) /\ full' = FALSE
       ELSE /\ full' \in IF Head(rx) = "page" THEN {full, TRUE} ELSE {full}
            /\ UNCHANGED <<pc, i, retry_count, got_ip, late>>
  /\ UNCHANGED <<modem, calm, command>>

\* Faulty: every response starts the wait's time anew.
Timeout_Restarted ==
  /\ pc \in Waiting
  /\ rx = <<>> /\ todo = <<>> /\ out = <<>>
  /\ AfterWait(FALSE) /\ full' = FALSE
  /\ UNCHANGED <<rx, modem, calm, command>>

\* The wait's time is over: not while a calm modem has something to say.
Timeout ==
  /\ pc \in Waiting
  /\ calm => rx = <<>> /\ todo = <<>> /\ out = <<>>
  /\ AfterWait(FALSE) /\ full' = FALSE
  /\ UNCHANGED <<rx, modem, calm, command>>

-----------------------------------------------------------------------------
Step ==
  \/ Reset \/ Test \/ JoinNetwork \/ Sense \/ Close \/ Start \/ Prompt \/ Payload
  \/ Done \/ Receive

Program == Step \/ Second \/ Timeout

Others == UNCHANGED program

Next ==
  \/ Program
  \/ (ModemStep \/ Notice \/ Settle) /\ Others

Spec == Init /\ [][Next]_vars

\* The program runs, its waits end, and the modem gets on with its work.
FairSpec ==
  /\ Spec
  /\ WF_vars(Step) /\ WF_vars(Timeout)
  /\ WF_vars(ModemStep /\ Others)

-----------------------------------------------------------------------------
(***************************************************************************)
(* Properties.                                                             *)
(***************************************************************************)
TypeOK ==
  /\ pc \in Pc
  /\ i \in 0 .. 4 /\ retry_count \in 0 .. Retries
  /\ {got_ip, full, calm, joined, link, late} \subseteq BOOLEAN
  /\ command \in CarCommand \cup {"none"}
  /\ arrived \in CarCommand \cup {"none"}
  /\ rx \in Seq(Response) /\ Len(rx) <= RxLimit
  /\ todo \in Seq(Line) /\ Len(todo) <= Backlog
  /\ out \in Seq(Response)
  /\ data \in 0 .. Swallowed

\* As long as every request was confirmed, the car gets no command but that of
\* the present turn, and not before the program has sent it (main.c:55-58): the
\* request of one turn is never obeyed in the next.
OwnTurn ==
  ~late /\ arrived # "none"
    => arrived = command /\ pc \in {"sending", "ending", "done", "sense"}

\* Whatever has gone wrong before, in step or not with the modem's answers,
\* once the modem is calm every command reaches the car in its turn
\* (main.c:30-63, wifi_module.c:27-72).
Resync == <>[]calm => <>[](pc = "done" => arrived = command)

\* A calm modem that is in the network and has nothing left to do.
Ready == calm /\ joined /\ todo = <<>> /\ out = <<>> /\ data = 0

\* Program and modem stay in step: from the first turn that begins with a calm
\* modem that is ready, every command reaches the car in its turn, whatever is
\* left in the UART and whichever answer a wait takes for its own (main.c:30-63,
\* wifi_module.c:27-72).
StaysInStep ==
  [](pc = "sense" /\ Ready => [](pc = "done" => arrived = command))

\* No wait keeps the program: it reads its sensors again and again, unless it
\* has given up (main.c:94-107, wifi_module.c:38).
KeepsGoing == []<>(pc = "sense") \/ <>[](pc = "over")

\* The program drives only after connect_to_wifi has succeeded (main.c:94-103).
DrivesConnected ==
  pc \notin {"reset", "test", "testing", "join", "joining", "over"} => got_ip

-----------------------------------------------------------------------------
\* The requests among the lines on their way to the modem.
Requests(lines) ==
  LET among[n \in 0 .. Len(lines)] ==   \* the first n lines
        IF n = 0 THEN <<>>
        ELSE IF lines[n] \in CarCommand THEN Append(among[n - 1], lines[n])
        ELSE among[n - 1]
  IN  among[Len(lines)]

ToPost == INSTANCE Post WITH
  Command <- Commands,
  request <- command,
  open    <- pc \in {"close", "closing", "start", "starting", "prompt",
                     "prompting", "payload"},
  queue   <- Requests(todo),
  got     <- arrived

\* The Wi-Fi code implements Post (main.c:30-63, 107-145), whatever the modem
\* does: every turn posts its command once or gives it up, and the car gets the
\* posted commands in their order, late or never, but none twice.
Posts == ToPost!Spec

-----------------------------------------------------------------------------
\* main.c:101 "Failed to connect to WiFi": when the program gives up, it has
\* not connected.
GivesUpOnlyUnconnected == pc = "over" => ~got_ip

=============================================================================

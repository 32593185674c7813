------------------------------- MODULE Modem -------------------------------
(***************************************************************************)
(* The ESP-01S modem of the glasses and the serial line to it, as          *)
(* wifi_module.c and the first half of main.c use them.  All of it is      *)
(* external to the program: what the modem answers to each command, the    *)
(* notices it sends unasked, the responses that get lost because the       *)
(* program reads one character a millisecond and the line is faster.       *)
(*                                                                         *)
(* A response, a command and a request are one token each.  From some time *)
(* on, if ever, the modem is calm: it answers every command before the     *)
(* program stops waiting, it loses nothing but the end of a long page, the *)
(* network stays up and the car accepts the connection.                    *)
(***************************************************************************)
EXTENDS Naturals, Sequences

CONSTANTS
  RxLimit,    \* the responses the UART holds (the code: 32 characters)
  Backlog     \* bound: the commands the modem holds

ASSUME RxLimitAssumption == RxLimit \in Nat \ {0}
ASSUME BacklogAssumption == Backlog \in Nat \ {0}

VARIABLES
  rx,         \* responses received, not yet read
  todo,       \* commands and requests the modem has not looked at
  out,        \* responses the modem is about to send
  joined,     \* it is in the wireless network
  link,       \* it has a connection to the car
  data,       \* lines it takes as a request's text whatever they are; 0: none
  calm,       \* environment: nothing goes wrong from now on
  arrived     \* history: the command the car got in this turn of the loop

modem == <<todo, out, joined, link, data, arrived>>

-----------------------------------------------------------------------------
CarCommand == {"stop", "forward", "left", "right", "backward"}

ATCommand == {"AT", "CWMODE", "CWJAP", "CIPCLOSE", "CIPSTART", "CIPSEND"}

\* A request is named by the command it carries.
Line == ATCommand \cup CarCommand

Response ==
  {"OK", "ERROR", "CONNECT", "ALREADY CONNECTED", "CLOSED", ">", "SEND OK",
   "WIFI DISCONNECT", "WIFI CONNECTED", "WIFI GOT IP", "page"}

\* The text of the second contains that of the first.  The page starts with
\* HTTP/1.0 200 OK and is full of tags.
Within ==
  {<<"OK", "SEND OK">>, <<"OK", "page">>, <<">", "page">>,
   <<"CONNECT", "ALREADY CONNECTED">>, <<"CONNECT", "WIFI CONNECTED">>,
   <<"CONNECT", "WIFI DISCONNECT">>}

Contains(response, expected) ==
  response = expected \/ <<expected, response>> \in Within

\* A request is longer than the lines of a turn without CIPSEND: taken as its
\* text, it swallows those of two turns before it is complete.
Swallowed == 4

ModemInit ==
  /\ rx = <<>> /\ todo = <<>> /\ out = <<>>
  /\ joined = FALSE /\ link = FALSE /\ data = 0
  /\ calm = FALSE
  /\ arrived = "none"

-----------------------------------------------------------------------------
\* The program writes a line.  A modem that is busy may ignore it.
Write(line) ==
  \/ Len(todo) < Backlog /\ todo' = Append(todo, line)
  \/ ~calm /\ (todo # <<>> \/ out # <<>>) /\ todo' = todo

\* Pulling its reset line: it forgets everything and leaves the network.
ModemReset ==
  /\ todo' = <<>> /\ out' = <<>>
  /\ joined' = FALSE /\ link' = FALSE /\ data' = 0

Answer(responses) == out' = responses

Join ==
  /\ link' = FALSE
  /\ \/ joined' = TRUE /\ Answer(<<"WIFI CONNECTED", "WIFI GOT IP", "OK">>)
     \/ ~calm /\ joined' = FALSE /\ Answer(<<"WIFI DISCONNECT", "ERROR">>)
  /\ UNCHANGED <<data, arrived>>

CloseLink ==
  /\ Answer(IF link THEN <<"CLOSED", "OK">> ELSE <<"ERROR">>)
  /\ link' = FALSE
  /\ UNCHANGED <<joined, data, arrived>>

OpenLink ==
  /\ \/ link /\ link' = TRUE /\ Answer(<<"ALREADY CONNECTED", "ERROR">>)
     \/ ~link /\ joined /\ link' = TRUE /\ Answer(<<"CONNECT", "OK">>)
     \/ ~link /\ ~(calm /\ joined) /\ link' = FALSE /\ Answer(<<"ERROR", "CLOSED">>)
  /\ UNCHANGED <<joined, data, arrived>>

Prepare ==
  /\ IF link THEN Answer(<<"OK", ">">>) /\ data' = Swallowed
             ELSE Answer(<<"ERROR">>) /\ data' = data
  /\ UNCHANGED <<joined, link, arrived>>

\* The request goes to the car, which answers with the page and closes.
Deliver(command) ==
  /\ data' = 0 /\ link' = FALSE
  /\ \/ link /\ arrived' = command /\ Answer(<<"SEND OK", "page", "CLOSED">>)
     \/ ~(link /\ calm) /\ arrived' = arrived /\ Answer(<<"ERROR">>)
  /\ UNCHANGED joined

\* A line that is taken as a part of the request's text.
Swallow ==
  /\ data' = data - 1
  /\ Answer(IF data = 1 THEN <<"SEND OK", "ERROR">> ELSE <<>>)
  /\ UNCHANGED <<joined, link, arrived>>

\* A line that is no command.
Reject == Answer(<<"ERROR">>) /\ UNCHANGED <<joined, link, data, arrived>>

Execute ==
  /\ todo # <<>> /\ out = <<>>
  /\ todo' = Tail(todo)
  /\ LET line == Head(todo)
     IN  \/ data = Swallowed /\ line \in CarCommand /\ Deliver(line)
         \/ data > 0 /\ (data = Swallowed => line \in ATCommand) /\ Swallow
         \/ /\ data = 0
            /\ \/ line \in {"AT", "CWMODE"} /\ Answer(<<"OK">>)
                  /\ UNCHANGED <<joined, link, data, arrived>>
               \/ line = "CWJAP" /\ Join
               \/ line = "CIPCLOSE" /\ CloseLink
               \/ line = "CIPSTART" /\ OpenLink
               \/ line = "CIPSEND" /\ Prepare
               \/ line \in CarCommand /\ Reject
  /\ UNCHANGED <<rx, calm>>

\* A response reaches the UART.  It is lost if there is no room for it, and
\* that behind a page may be.
Emit ==
  /\ out # <<>>
  /\ out' = Tail(out)
  /\ \/ rx' = IF Len(rx) < RxLimit THEN Append(rx, Head(out)) ELSE rx
     \/ (~calm \/ Head(out) = "CLOSED") /\ rx' = rx
  /\ UNCHANGED <<todo, joined, link, data, calm, arrived>>

\* What the network does unasked.
Notice ==
  /\ ~calm /\ out = <<>>
  /\ \/ joined /\ joined' = FALSE /\ Answer(<<"WIFI DISCONNECT">>)
     \/ ~joined /\ joined' = TRUE /\ Answer(<<"WIFI CONNECTED", "WIFI GOT IP">>)
     \/ link /\ joined' = joined /\ Answer(<<"CLOSED">>)
  /\ link' = FALSE
  /\ UNCHANGED <<rx, todo, data, calm, arrived>>

Settle ==
  /\ ~calm /\ joined
  /\ calm' = TRUE
  /\ UNCHANGED <<rx, modem>>

ModemStep == Execute \/ Emit
=============================================================================

--------------------------- MODULE GlassesProofs ---------------------------
(***************************************************************************)
(* Proofs about the program of the glasses, for every set of commands,     *)
(* every number of retries and every size of the buffers.                  *)
(***************************************************************************)
EXTENDS Glasses, SequenceTheorems, TLAPS

\* DrivesConnected with what the tests of main's retries need: the counter is a
\* number, and never passes their bound.
DriveInv == DrivesConnected /\ retry_count \in 0 .. Retries

\* Every wait ends in the part of the program it was begun in.
LEMMA WaitEnds ==
  ASSUME DriveInv, NEW found \in BOOLEAN, pc \in Waiting, AfterWait(found)
  PROVE  DriveInv'
<1>1. CASE pc = "testing"
  BY <1>1 DEF AfterWait, AfterRequest, Goto, DriveInv, DrivesConnected
<1>2. CASE pc = "joining"
  <2>1. Connected(found)
    BY <1>2 DEF AfterWait
  <2>2. retry_count \in 0 .. Retries
    BY DEF DriveInv
  <2>3. CASE ~found /\ retry_count < Retries
    <3>1. pc' = "reset" /\ retry_count' = retry_count + 1
      BY <2>1, <2>3 DEF Connected, Goto
    <3>2. retry_count' \in 0 .. Retries
      BY <2>2, <2>3, <3>1, RetriesAssumption
    <3> QED BY <3>1, <3>2 DEF DriveInv, DrivesConnected
  <2>4. CASE retry_count >= Retries
    <3>1. pc' = "over" /\ retry_count' = retry_count
      BY <2>1, <2>2, <2>4, RetriesAssumption DEF Connected, Goto
    <3> QED BY <2>2, <3>1 DEF DriveInv, DrivesConnected
  <2>5. CASE found
    <3>1. got_ip' /\ retry_count' = retry_count
      BY <2>1, <2>5 DEF Connected
    <3> QED BY <2>2, <3>1 DEF DriveInv, DrivesConnected
  <2> QED BY <2>2, <2>3, <2>4, <2>5, RetriesAssumption
<1>3. CASE pc \in Waiting \ {"testing", "joining"}
  <2>1. UNCHANGED <<got_ip, retry_count>>
    BY <1>3 DEF AfterWait, AfterRequest
  <2>2. got_ip
    BY <1>3 DEF DriveInv, DrivesConnected, Waiting, Expected
  <2> QED BY <2>1, <2>2 DEF DriveInv, DrivesConnected
<1> QED BY <1>1, <1>2, <1>3

\* No step leads into the loop but the success of connect_to_wifi.
LEMMA DrivesStep == DriveInv /\ [Next]_vars => DriveInv'
<1> SUFFICES ASSUME DriveInv, [Next]_vars PROVE DriveInv'
  OBVIOUS
<1>1. CASE Reset \/ Test \/ JoinNetwork
  BY <1>1 DEF Reset, Test, JoinNetwork, send_at_command, Ask, Goto, DriveInv, DrivesConnected
<1>2. CASE Sense \/ Close \/ Start \/ Prompt \/ Payload \/ Done
  BY <1>2 DEF Sense, Close, Start, Prompt, Payload, Done, send_at_command, Ask,
              Goto, DriveInv, DrivesConnected
<1>3. CASE Receive
  <2>1. CASE AfterWait(TRUE)
    BY <1>3, <2>1, WaitEnds DEF Receive
  <2>2. CASE UNCHANGED <<pc, got_ip, retry_count>>
    BY <2>2 DEF DriveInv, DrivesConnected
  <2> QED BY <1>3, <2>1, <2>2 DEF Receive
<1>4. CASE Second
  BY <1>4 DEF Second, DriveInv, DrivesConnected
<1>5. CASE Timeout
  BY <1>5, WaitEnds DEF Timeout
<1>6. CASE UNCHANGED <<pc, got_ip, retry_count>>
  BY <1>6 DEF DriveInv, DrivesConnected
<1> QED BY <1>1, <1>2, <1>3, <1>4, <1>5, <1>6
        DEF Next, Program, Step, Others, program, vars

\* The program sends commands only after connect_to_wifi has succeeded.
THEOREM Connection == Spec => []DrivesConnected
<1>1. Init => DriveInv
  BY RetriesAssumption DEF Init, DriveInv, DrivesConnected
<1>2. DriveInv => DrivesConnected
  BY DEF DriveInv
<1> QED BY <1>1, <1>2, DrivesStep, PTL DEF Spec

-----------------------------------------------------------------------------
(***************************************************************************)
(* Type correctness.                                                       *)
(***************************************************************************)
\* The part of the program in which it has a command to send.
Turn ==
  {"close", "closing", "start", "starting", "prompt", "prompting", "payload",
   "sending", "ending", "done"}

\* TypeOK with what the lines written and the counting of the tests rest on.
TypeInv ==
  /\ TypeOK /\ DriveInv
  /\ pc \in Turn => command \in CarCommand
  /\ pc \in {"test", "testing"} => i <= 3

\* A line written is queued or ignored.
LEMMA WriteIs ==
  ASSUME todo \in Seq(Line), Len(todo) <= Backlog, NEW line \in Line, Write(line)
  PROVE  /\ todo' \in Seq(Line) /\ Len(todo') <= Backlog
         /\ \/ todo' = todo
            \/ /\ Len(todo') = Len(todo) + 1 /\ todo'[Len(todo')] = line
               /\ \A j \in 1 .. Len(todo) : todo'[j] = todo[j]
<1>1. Len(todo) \in Nat /\ Backlog \in Nat
  BY LenProperties, BacklogAssumption
<1>2. CASE todo' = todo
  BY <1>2
<1>3. CASE Len(todo) < Backlog /\ todo' = Append(todo, line)
  BY <1>1, <1>3, AppendProperties
<1> QED
  BY <1>2, <1>3 DEF Write

\* The first of a sequence taken away.
LEMMA TailIs ==
  ASSUME NEW S, NEW s \in Seq(S), s # <<>>
  PROVE  /\ Tail(s) \in Seq(S) /\ Len(s) \in Nat \ {0} /\ Len(Tail(s)) = Len(s) - 1
         /\ Head(s) = s[1] /\ s[1] \in S
         /\ \A j \in 1 .. Len(Tail(s)) : j + 1 \in 1 .. Len(s) /\ Tail(s)[j] = s[j + 1]
BY HeadTailProperties, LenProperties, EmptySeq

\* The responses to a command are responses.
LEMMA Responses ==
  /\ <<>> \in Seq(Response)
  /\ \A a \in Response :
       /\ <<a>> \in Seq(Response)
       /\ \A b \in Response :
            /\ <<a, b>> \in Seq(Response)
            /\ \A c \in Response : <<a, b, c>> \in Seq(Response)
OBVIOUS

\* The replies the modem gives.
LEMMA Replies ==
  /\ <<"SEND OK", "page", "CLOSED">> \in Seq(Response)
  /\ <<"SEND OK", "ERROR">> \in Seq(Response) /\ <<"OK", ">">> \in Seq(Response)
  /\ <<"ERROR">> \in Seq(Response) /\ <<>> \in Seq(Response)
BY Responses DEF Response

\* The end of a wait keeps the types.
LEMMA TypeWait ==
  ASSUME TypeInv, DriveInv', NEW found \in BOOLEAN, pc \in Waiting, AfterWait(found),
         command' = command
  PROVE  /\ pc' \in Pc /\ i' \in 0 .. 4 /\ late' \in BOOLEAN /\ got_ip' \in BOOLEAN
         /\ pc' \in Turn => command' \in CarCommand
         /\ pc' \in {"test", "testing"} => i' <= 3
<1>1. /\ TypeOK /\ i \in 0 .. 4 /\ late \in BOOLEAN /\ got_ip \in BOOLEAN
  BY DEF TypeInv, TypeOK
<1>2. CASE pc = "testing"
  <2>1. i' = i + 1 /\ late' = late /\ got_ip' = got_ip
        /\ pc' = (IF i < 3 THEN "test" ELSE "join") /\ i <= 3
    BY <1>2 DEF AfterWait, AfterRequest, Goto, TypeInv
  <2> QED
    BY <1>1, <2>1 DEF Pc, Turn
<1>3. CASE pc = "joining"
  <2>1. i' = i /\ late' = late /\ got_ip' = found /\ pc' \in {"reset", "over", "sense"}
    BY <1>3 DEF AfterWait, AfterRequest, Connected, Goto
  <2> QED
    BY <1>1, <2>1 DEF Pc, Turn
<1>4. CASE pc \in Waiting \ {"testing", "joining"}
  <2>1. /\ i' = i /\ got_ip' = got_ip /\ late' \in BOOLEAN
        /\ pc' \in {"start", "prompt", "payload", "ending", "done"}
    BY <1>1, <1>4 DEF AfterWait, AfterRequest, Goto, Waiting, Expected
  <2>2. pc \in Turn
    BY <1>4 DEF Turn, Waiting, Expected
  <2> QED
    BY <1>1, <2>1, <2>2 DEF Pc, Turn, TypeInv, Waiting, Expected
<1> QED
  BY <1>2, <1>3, <1>4

\* No step of the program breaks the types.
LEMMA TypeProgram == TypeInv /\ Program => TypeInv'
<1> SUFFICES ASSUME TypeInv, Program PROVE TypeInv'
  OBVIOUS
<1>1. DriveInv'
  BY DrivesStep DEF TypeInv, Next
<1>2. /\ pc \in Pc /\ i \in 0 .. 4 /\ retry_count \in 0 .. Retries
      /\ got_ip \in BOOLEAN /\ full \in BOOLEAN /\ calm \in BOOLEAN
      /\ joined \in BOOLEAN /\ link \in BOOLEAN /\ late \in BOOLEAN
      /\ command \in CarCommand \cup {"none"} /\ arrived \in CarCommand \cup {"none"}
      /\ rx \in Seq(Response) /\ Len(rx) <= RxLimit
      /\ todo \in Seq(Line) /\ Len(todo) <= Backlog
      /\ out \in Seq(Response) /\ data \in 0 .. Swallowed
      /\ (pc \in Turn => command \in CarCommand)
      /\ (pc \in {"test", "testing"} => i <= 3)
  BY DEF TypeInv, TypeOK
<1>3. RxLimit \in Nat /\ Backlog \in Nat /\ <<>> \in Seq(Response) /\ <<>> \in Seq(Line)
      /\ Len(<<>>) = 0
  BY RxLimitAssumption, BacklogAssumption
<1>4. retry_count' \in 0 .. Retries
  BY <1>1 DEF DriveInv
<1> DEFINE Kept ==
      /\ pc' \in Pc /\ i' \in 0 .. 4 /\ late' \in BOOLEAN /\ got_ip' \in BOOLEAN
      /\ full' \in BOOLEAN /\ command' \in CarCommand \cup {"none"}
      /\ (pc' \in Turn => command' \in CarCommand)
      /\ (pc' \in {"test", "testing"} => i' <= 3)
    Modem ==
      /\ rx' \in Seq(Response) /\ Len(rx') <= RxLimit
      /\ todo' \in Seq(Line) /\ Len(todo') <= Backlog
      /\ out' \in Seq(Response) /\ data' \in 0 .. Swallowed
      /\ calm' \in BOOLEAN /\ joined' \in BOOLEAN /\ link' \in BOOLEAN
      /\ arrived' \in CarCommand \cup {"none"}
<1>5. ASSUME Kept, Modem PROVE TypeInv'
  BY <1>1, <1>4, <1>5 DEF TypeInv, TypeOK
<1>6. ASSUME NEW line \in Line, NEW next, Ask(line, next), rx' = rx \/ rx' = <<>>,
             arrived' = arrived
      PROVE  Modem
  <2>1. UNCHANGED <<out, joined, link, data, calm>> /\ Write(line)
    BY <1>6 DEF Ask
  <2>2. todo' \in Seq(Line) /\ Len(todo') <= Backlog
    BY <1>2, <2>1, WriteIs
  <2>3. rx' \in Seq(Response) /\ Len(rx') <= RxLimit
    <3>1. CASE rx' = rx
      BY <1>2, <3>1
    <3>2. CASE rx' = <<>>
      <4>1. rx' \in Seq(Response) /\ Len(rx') = 0
        BY <3>2
      <4> QED
        BY <1>3, <4>1
    <3> QED
      BY <1>6, <3>1, <3>2
  <2>4. out' \in Seq(Response) /\ data' \in 0 .. Swallowed
    BY <1>2, <2>1
  <2> QED
    BY <1>2, <1>6, <2>1, <2>2, <2>3, <2>4
<1>7. CASE Reset
  <2>1. Modem
    <3>1. /\ todo' = <<>> /\ out' = <<>> /\ joined' = FALSE /\ link' = FALSE
          /\ data' = 0 /\ UNCHANGED <<rx, calm, arrived>>
      BY <1>7 DEF Reset, ModemReset
    <3>2. todo' \in Seq(Line) /\ Len(todo') <= Backlog
      BY <1>3, <3>1
    <3>3. out' \in Seq(Response) /\ data' \in 0 .. Swallowed
      BY <1>3, <3>1 DEF Swallowed
    <3> QED
      BY <1>2, <3>1, <3>2, <3>3
  <2>2. Kept
    BY <1>2, <1>7 DEF Reset, Goto, Pc, Turn
  <2> QED
    BY <1>5, <2>1, <2>2
<1>8. CASE Test
  <2>1. Modem
    BY <1>6, <1>8 DEF Test, send_at_command, flush_uart_input, Line, ATCommand
  <2>2. Kept
    BY <1>2, <1>8 DEF Test, send_at_command, Ask, Goto, Pc, Turn, Waiting, Expected
  <2> QED
    BY <1>5, <2>1, <2>2
<1>9. CASE JoinNetwork
  <2>1. Modem
    BY <1>6, <1>9 DEF JoinNetwork, KeepUart, Line, ATCommand
  <2>2. Kept
    BY <1>2, <1>9 DEF JoinNetwork, Ask, Goto, Pc, Turn, Waiting, Expected
  <2> QED
    BY <1>5, <2>1, <2>2
<1>10. CASE Close \/ Prompt
  <2>1. Modem
    BY <1>6, <1>10 DEF Close, Prompt, send_at_command, flush_uart_input, Line, ATCommand
  <2>2. Kept
    BY <1>2, <1>10
       DEF Close, Prompt, send_at_command, Ask, Goto, Pc, Turn, Waiting, Expected
  <2> QED
    BY <1>5, <2>1, <2>2
<1>11. CASE Start
  <2>1. Modem
    BY <1>6, <1>11 DEF Start, KeepUart, Line, ATCommand
  <2>2. Kept
    BY <1>2, <1>11 DEF Start, Ask, Goto, Pc, Turn, Waiting, Expected
  <2> QED
    BY <1>5, <2>1, <2>2
<1>12. CASE Payload
  <2>1. command \in CarCommand
    BY <1>2, <1>12 DEF Payload, Turn
  <2>2. Modem
    BY <1>6, <1>12, <2>1 DEF Payload, KeepUart, Line
  <2>3. Kept
    BY <1>2, <1>12, <2>1 DEF Payload, Ask, Goto, Pc, Turn, Waiting, Expected
  <2> QED
    BY <1>5, <2>2, <2>3
<1>13. CASE Sense \/ Done
  <2>1. Modem
    BY <1>2, <1>13 DEF Sense, Done, modem
  <2>2. Kept
    BY <1>2, <1>13, CommandsAssumption DEF Sense, Done, Goto, Pc, Turn
  <2> QED
    BY <1>5, <2>1, <2>2
<1>14. ASSUME UNCHANGED <<modem, calm>>, rx' = rx \/ (rx # <<>> /\ rx' = Tail(rx))
       PROVE  Modem
  <2>1. rx' \in Seq(Response) /\ Len(rx') <= RxLimit
    <3>1. CASE rx' = rx
      BY <1>2, <3>1
    <3>2. CASE rx # <<>> /\ rx' = Tail(rx)
      <4>1. rx' \in Seq(Response) /\ Len(rx) \in Nat /\ Len(rx') = Len(rx) - 1
        BY <1>2, <3>2, TailIs
      <4> QED
        BY <1>2, <1>3, <4>1
    <3> QED
      BY <1>14, <3>1, <3>2
  <2> QED
    BY <1>2, <1>14, <2>1 DEF modem
<1>15. CASE Second
  <2>1. Modem
    BY <1>14, <1>15 DEF Second
  <2>2. Kept
    BY <1>2, <1>15 DEF Second
  <2> QED
    BY <1>5, <2>1, <2>2
<1>16. CASE Receive
  <2>1. Modem
    BY <1>14, <1>16 DEF Receive
  <2>2. Kept
    <3>1. CASE AfterWait(TRUE) /\ full' = FALSE
      BY <1>1, <1>2, <1>16, <3>1, TypeWait DEF Receive
    <3>2. CASE full' \in {full, TRUE} /\ UNCHANGED <<pc, i, retry_count, got_ip, late>>
      BY <1>2, <1>16, <3>2 DEF Receive
    <3> QED
      BY <1>16, <3>1, <3>2 DEF Receive
  <2> QED
    BY <1>5, <2>1, <2>2
<1>17. CASE Timeout
  <2>1. Modem
    BY <1>14, <1>17 DEF Timeout
  <2>2. Kept
    BY <1>1, <1>2, <1>17, TypeWait DEF Timeout
  <2> QED
    BY <1>5, <2>1, <2>2
<1> QED
  BY <1>7, <1>8, <1>9, <1>10, <1>11, <1>12, <1>13, <1>15, <1>16, <1>17
     DEF Program, Step

\* No step of the modem breaks the types.
LEMMA TypeModem == TypeInv /\ (ModemStep \/ Notice \/ Settle) /\ Others => TypeInv'
<1> SUFFICES ASSUME TypeInv, ModemStep \/ Notice \/ Settle, Others PROVE TypeInv'
  OBVIOUS
<1>1. DriveInv' /\ UNCHANGED <<pc, i, retry_count, got_ip, full, command, late>>
  BY DrivesStep DEF TypeInv, Next, Others, program
<1>2. /\ calm \in BOOLEAN /\ joined \in BOOLEAN /\ link \in BOOLEAN
      /\ arrived \in CarCommand \cup {"none"}
      /\ rx \in Seq(Response) /\ Len(rx) <= RxLimit
      /\ todo \in Seq(Line) /\ Len(todo) <= Backlog
      /\ out \in Seq(Response) /\ data \in 0 .. Swallowed
  BY DEF TypeInv, TypeOK
<1>3. SUFFICES
      /\ rx' \in Seq(Response) /\ Len(rx') <= RxLimit
      /\ todo' \in Seq(Line) /\ Len(todo') <= Backlog
      /\ out' \in Seq(Response) /\ data' \in 0 .. Swallowed
      /\ calm' \in BOOLEAN /\ joined' \in BOOLEAN /\ link' \in BOOLEAN
      /\ arrived' \in CarCommand \cup {"none"}
  BY <1>1 DEF TypeInv, TypeOK
<1>4. RxLimit \in Nat /\ Backlog \in Nat /\ Swallowed = 4
  BY RxLimitAssumption, BacklogAssumption DEF Swallowed
<1>5. CASE Execute
  <2>1. rx' = rx /\ calm' = calm /\ todo # <<>> /\ todo' = Tail(todo)
    BY <1>5 DEF Execute
  <2>2. todo' \in Seq(Line) /\ Len(todo') <= Backlog /\ Head(todo) \in Line
    <3>1. /\ todo' \in Seq(Line) /\ Len(todo) \in Nat /\ Len(todo') = Len(todo) - 1
          /\ Head(todo) \in Line
      BY <1>2, <2>1, TailIs
    <3> QED
      BY <1>2, <1>4, <3>1
  <2>3. /\ out' \in Seq(Response) /\ data' \in 0 .. Swallowed
        /\ joined' \in BOOLEAN /\ link' \in BOOLEAN
        /\ arrived' \in CarCommand \cup {"none"}
    <3> DEFINE line == Head(todo)
    <3>1. CASE data = Swallowed /\ line \in CarCommand /\ Deliver(line)
      <4>1. \/ out' = <<"SEND OK", "page", "CLOSED">> /\ arrived' = line
            \/ out' = <<"ERROR">> /\ arrived' = arrived
        BY <3>1 DEF Deliver, Answer
      <4>2. data' = 0 /\ link' = FALSE /\ joined' = joined /\ line \in CarCommand
        BY <3>1 DEF Deliver
      <4>3. arrived' \in CarCommand \cup {"none"}
        BY <1>2, <4>1, <4>2
      <4>4. out' \in Seq(Response)
        BY <4>1, Replies
      <4>5. data' \in 0 .. Swallowed
        BY <1>4, <4>2
      <4> HIDE DEF line
      <4> QED
        BY <1>2, <4>2, <4>3, <4>4, <4>5
    <3>2. CASE data > 0 /\ Swallow
      <4>1. out' \in {<<"SEND OK", "ERROR">>, <<>>} /\ data' = data - 1
            /\ UNCHANGED <<joined, link, arrived>>
        BY <3>2 DEF Swallow, Answer
      <4>2. out' \in Seq(Response)
        BY <4>1, Replies
      <4>3. data' \in 0 .. Swallowed
        <5>1. data \in 0 .. 4 /\ data > 0 /\ data' = data - 1
          BY <1>2, <1>4, <3>2, <4>1
        <5> QED
          BY <1>4, <5>1
      <4> QED
        BY <1>2, <4>1, <4>2, <4>3
    <3>3. CASE Answer(<<"OK">>) /\ UNCHANGED <<joined, link, data, arrived>>
      BY <1>2, <1>4, <3>3, Responses DEF Answer, Response
    <3>4. CASE Join
      BY <1>2, <1>4, <3>4, Responses DEF Join, Answer, Response
    <3>5. CASE CloseLink
      BY <1>2, <1>4, <3>5, Responses DEF CloseLink, Answer, Response
    <3>6. CASE OpenLink
      BY <1>2, <1>4, <3>6, Responses DEF OpenLink, Answer, Response
    <3>7. CASE Prepare
      <4>1. out' \in {<<"OK", ">">>, <<"ERROR">>} /\ data' \in {Swallowed, data}
            /\ UNCHANGED <<joined, link, arrived>>
        BY <3>7 DEF Prepare, Answer
      <4>2. out' \in Seq(Response)
        BY <4>1, Replies
      <4>3. data' \in 0 .. Swallowed
        BY <1>2, <1>4, <4>1
      <4> QED
        BY <1>2, <4>1, <4>2, <4>3
    <3>8. CASE Reject
      BY <1>2, <1>4, <3>8, Responses DEF Reject, Answer, Response
    <3> QED
      BY <1>5, <3>1, <3>2, <3>3, <3>4, <3>5, <3>6, <3>7, <3>8 DEF Execute
  <2> QED
    BY <1>2, <2>1, <2>2, <2>3
<1>6. CASE Emit
  <2>1. out' \in Seq(Response) /\ Head(out) \in Response
    BY <1>2, <1>6, TailIs DEF Emit
  <2>2. rx' \in Seq(Response) /\ Len(rx') <= RxLimit
    <3>1. CASE rx' = rx
      BY <1>2, <3>1
    <3>2. CASE Len(rx) < RxLimit /\ rx' = Append(rx, Head(out))
      <4>1. rx' \in Seq(Response) /\ Len(rx') = Len(rx) + 1 /\ Len(rx) \in Nat
        BY <1>2, <2>1, <3>2, AppendProperties, LenProperties
      <4> QED
        BY <1>4, <3>2, <4>1
    <3> QED
      BY <1>6, <3>1, <3>2 DEF Emit
  <2> QED
    BY <1>2, <1>6, <2>1, <2>2 DEF Emit
<1>7. CASE Notice
  BY <1>2, <1>7, Responses DEF Notice, Answer, Response
<1>8. CASE Settle
  BY <1>2, <1>8 DEF Settle, modem
<1> QED
  BY <1>5, <1>6, <1>7, <1>8 DEF ModemStep

\* No step, of whomever, breaks the types.
LEMMA TypeStep == TypeInv /\ [Next]_vars => TypeInv'
<1>1. TypeInv /\ UNCHANGED vars => TypeInv'
  BY DEF TypeInv, TypeOK, DriveInv, DrivesConnected, vars, modem, program
<1> QED
  BY <1>1, TypeProgram, TypeModem DEF Next

\* At the start, all queues are empty.
LEMMA TypeInit == Init => TypeInv
<1> SUFFICES ASSUME Init PROVE TypeInv
  OBVIOUS
<1>1. RxLimit \in Nat /\ Backlog \in Nat /\ Retries \in Nat
  BY RxLimitAssumption, BacklogAssumption, RetriesAssumption
<1>2. DriveInv
  BY <1>1 DEF Init, DriveInv, DrivesConnected
<1>3. /\ <<>> \in Seq(Response) /\ <<>> \in Seq(Line) /\ Len(<<>>) = 0
  OBVIOUS
<1>4. TypeOK
  <2>1. /\ rx = <<>> /\ todo = <<>> /\ out = <<>> /\ data = 0 /\ i = 0 /\ retry_count = 0
        /\ pc = "reset" /\ command = "none" /\ arrived = "none"
    BY DEF Init, ModemInit
  <2>2. rx \in Seq(Response) /\ todo \in Seq(Line) /\ out \in Seq(Response)
    BY <1>3, <2>1
  <2>3. Len(rx) <= RxLimit /\ Len(todo) <= Backlog /\ data \in 0 .. Swallowed
        /\ i \in 0 .. 4 /\ retry_count \in 0 .. Retries
    BY <1>1, <1>3, <2>1 DEF Swallowed
  <2>4. {got_ip, full, calm, joined, link, late} \subseteq BOOLEAN
    BY DEF Init, ModemInit
  <2>5. pc \in Pc
    BY <2>1 DEF Pc
  <2> QED
    BY <2>1, <2>2, <2>3, <2>4, <2>5 DEF TypeOK
<1> QED
  BY <1>2, <1>4 DEF Init, TypeInv, Turn

\* Every variable keeps its type: no counter runs away, no queue overflows, no
\* line is written without a command.
THEOREM TypeCorrect == Spec => []TypeOK
<1>1. TypeInv => TypeOK
  BY DEF TypeInv
<1> QED
  BY <1>1, TypeInit, TypeStep, PTL DEF Spec

-----------------------------------------------------------------------------
(***************************************************************************)
(* A request is never obeyed in a later turn.                              *)
(*                                                                         *)
(* OwnTurn says nothing of what is still on its way.  As long as every     *)
(* request was confirmed, the confirmation is the one the request itself   *)
(* caused, and behind it nothing of the turn is left in the modem: so the  *)
(* invariant follows the two lines that make a request, and the one        *)
(* confirmation, through the queues.                                       *)
(***************************************************************************)
\* The lines by which a request is made, and the waits while one is made.
Requesting == {"CIPSEND"} \cup CarCommand
Sending    == {"prompting", "payload", "sending"}

\* Where the program is in the turn in which the car has got its command.
Behind == {"sending", "ending", "done", "sense"}

Confirmed(s) == \E j \in 1 .. Len(s) : s[j] = "SEND OK"

\* What the modem holds of the present request, and nothing of another.
Requested ==
  /\ data \in {0, Swallowed}
  /\ data = Swallowed =>
       pc \in Sending /\ \A j \in 1 .. Len(todo) : todo[j] \in CarCommand
  /\ \A j \in 1 .. Len(todo) : todo[j] \in CarCommand =>
       pc = "sending" /\ todo[j] = command /\ j = Len(todo)
  /\ \A j \in 1 .. Len(todo) : todo[j] = "CIPSEND" =>
       pc \in Sending /\ \A l \in 1 .. Len(todo) : l > j => todo[l] \in CarCommand

\* There is at most one confirmation, and behind it no request.
Confirming ==
  /\ Confirmed(rx) \/ Confirmed(out) =>
       /\ pc = "sending" /\ data = 0
       /\ \A j \in 1 .. Len(todo) : todo[j] \notin Requesting
  /\ \A j, l \in 1 .. Len(rx) : rx[j] = "SEND OK" /\ rx[l] = "SEND OK" => j = l
  /\ \A j \in 1 .. Len(out) : out[j] = "SEND OK" => j = 1 /\ ~Confirmed(rx)

OwnInv ==
  /\ arrived # "none" => arrived = command /\ pc \in Behind
  /\ Requested /\ Confirming

\* Commands of the modem are no commands for the car.
LEMMA TokensDiffer ==
  /\ "CIPSEND" \notin CarCommand /\ Swallowed = 4
  /\ ATCommand \cap CarCommand = {}
  /\ "sending" \in Sending /\ "sending" \in Behind
BY DEF CarCommand, ATCommand, Swallowed, Sending, Behind

\* Nothing of a request is under way while none is made.
LEMMA NotSending ==
  ASSUME OwnInv, pc \notin Sending
  PROVE  /\ data = 0 /\ ~Confirmed(rx) /\ ~Confirmed(out)
         /\ \A j \in 1 .. Len(todo) : todo[j] \notin Requesting
BY TokensDiffer DEF OwnInv, Requested, Confirming, Requesting

\* What is read from the line leaves no confirmation that was not there.
LEMMA ReadOne ==
  ASSUME rx \in Seq(Response), rx' = rx \/ (rx # <<>> /\ rx' = Tail(rx)) \/ rx' = <<>>
  PROVE  /\ Confirmed(rx') => Confirmed(rx)
         /\ (\A j, l \in 1 .. Len(rx) : rx[j] = "SEND OK" /\ rx[l] = "SEND OK" => j = l)
              => \A j, l \in 1 .. Len(rx') : rx'[j] = "SEND OK" /\ rx'[l] = "SEND OK" => j = l
<1>1. CASE rx' = rx
  BY <1>1
<1>2. CASE rx' = <<>>
  <2>1. Len(rx') = 0
    BY <1>2
  <2> QED
    BY <2>1 DEF Confirmed
<1>3. CASE rx # <<>> /\ rx' = Tail(rx)
  <2>1. /\ Len(rx) \in Nat \ {0} /\ Len(rx') = Len(rx) - 1
        /\ \A j \in 1 .. Len(rx') : j + 1 \in 1 .. Len(rx) /\ rx'[j] = rx[j + 1]
    BY <1>3, TailIs
  <2>2. Confirmed(rx') => Confirmed(rx)
    BY <2>1 DEF Confirmed
  <2>3. ASSUME \A j, l \in 1 .. Len(rx) : rx[j] = "SEND OK" /\ rx[l] = "SEND OK" => j = l,
               NEW j \in 1 .. Len(rx'), NEW l \in 1 .. Len(rx'),
               rx'[j] = "SEND OK", rx'[l] = "SEND OK"
        PROVE  j = l
    <3>1. /\ j + 1 \in 1 .. Len(rx) /\ l + 1 \in 1 .. Len(rx)
          /\ rx[j + 1] = "SEND OK" /\ rx[l + 1] = "SEND OK"
      BY <2>1, <2>3
    <3>2. j + 1 = l + 1
      BY <2>3, <3>1
    <3> QED
      BY <2>1, <3>2
  <2> QED
    BY <2>2, <2>3
<1> QED
  BY <1>1, <1>2, <1>3

\* A step in which the modem does nothing and the request under way stays so.
LEMMA OwnStays ==
  ASSUME TypeInv, OwnInv, UNCHANGED <<modem, command>>,
         rx' = rx \/ (rx # <<>> /\ rx' = Tail(rx)) \/ rx' = <<>>,
         pc \in Sending => pc' \in Sending,
         pc = "sending" => pc' = "sending",
         pc \in Behind => pc' \in Behind
  PROVE  OwnInv'
<1>1. /\ todo' = todo /\ out' = out /\ data' = data /\ arrived' = arrived
      /\ command' = command
  BY DEF modem
<1>2. rx \in Seq(Response)
  BY DEF TypeInv, TypeOK
<1>3. Requested'
  BY <1>1 DEF OwnInv, Requested
<1>4. Confirming'
  <2>1. Confirmed(out') <=> Confirmed(out)
    BY <1>1 DEF Confirmed
  <2> QED
    BY <1>1, <1>2, <2>1, ReadOne DEF OwnInv, Confirming
<1> QED
  BY <1>1, <1>3, <1>4 DEF OwnInv

ReadsConfirmation == rx # <<>> /\ rx' = Tail(rx) /\ Head(rx) = "SEND OK"

\* The confirmation is found: nothing of the request is left.
LEMMA OwnFound ==
  ASSUME TypeInv, OwnInv, UNCHANGED <<modem, command>>, pc = "sending", pc' = "ending",
         ReadsConfirmation
  PROVE  OwnInv'
<1>1. /\ todo' = todo /\ out' = out /\ data' = data /\ arrived' = arrived
      /\ command' = command /\ rx \in Seq(Response)
  BY DEF modem, TypeInv, TypeOK
<1>2. /\ 1 \in 1 .. Len(rx) /\ rx[1] = "SEND OK" /\ Len(rx') \in Nat
      /\ \A j \in 1 .. Len(rx') : j + 1 \in 1 .. Len(rx) /\ rx'[j] = rx[j + 1] /\ j + 1 # 1
  <2>1. /\ Len(rx) \in Nat \ {0} /\ Len(rx') = Len(rx) - 1 /\ Head(rx) = rx[1]
        /\ \A j \in 1 .. Len(rx') : j + 1 \in 1 .. Len(rx) /\ rx'[j] = rx[j + 1]
    BY <1>1, TailIs DEF ReadsConfirmation
  <2>2. 1 \in 1 .. Len(rx) /\ Len(rx') \in Nat /\ \A j \in 1 .. Len(rx') : j + 1 # 1
    BY <2>1
  <2> QED
    BY <2>1, <2>2 DEF ReadsConfirmation
<1>3. \A j \in 1 .. Len(rx') : j + 1 # 1
  BY <1>2
<1>4. Confirmed(rx)
  BY <1>2 DEF Confirmed
<1>5. ~Confirmed(rx')
  <2> SUFFICES ASSUME NEW j \in 1 .. Len(rx'), rx'[j] = "SEND OK" PROVE FALSE
    BY DEF Confirmed
  <2>1. j + 1 \in 1 .. Len(rx) /\ rx[j + 1] = "SEND OK"
    BY <1>2
  <2>2. j + 1 = 1
    BY <1>2, <2>1 DEF OwnInv, Confirming
  <2> QED
    BY <1>3, <2>2
<1>6. data = 0 /\ \A j \in 1 .. Len(todo) : todo[j] \notin Requesting
  BY <1>4 DEF OwnInv, Confirming
<1>7. ~Confirmed(out) /\ ~Confirmed(out')
  BY <1>1, <1>4 DEF OwnInv, Confirming, Confirmed
<1>8. Requested'
  <2>1. \A j \in 1 .. Len(todo') : todo'[j] \notin CarCommand /\ todo'[j] # "CIPSEND"
    BY <1>1, <1>6 DEF Requesting
  <2>2. data' = 0 /\ data' # Swallowed
    BY <1>1, <1>6, TokensDiffer
  <2> QED
    BY <2>1, <2>2 DEF Requested
<1>9. Confirming'
  BY <1>5, <1>7 DEF Confirming, Confirmed
<1> QED
  BY <1>1, <1>8, <1>9 DEF OwnInv, Behind

\* A line is written that makes no request.
LEMMA OwnWrites ==
  ASSUME TypeInv, OwnInv, NEW line \in ATCommand, line # "CIPSEND", NEW next, Ask(line, next),
         rx' = rx \/ rx' = <<>>, UNCHANGED <<arrived, command>>,
         pc \notin Sending, pc \notin Behind
  PROVE  OwnInv'
<1>1. /\ todo \in Seq(Line) /\ Len(todo) <= Backlog /\ rx \in Seq(Response)
      /\ Len(todo) \in Nat
  BY LenProperties DEF TypeInv, TypeOK
<1>2. UNCHANGED <<out, data>> /\ Write(line) /\ line \in Line
  BY DEF Ask, Line
<1>3. data = 0 /\ ~Confirmed(rx) /\ ~Confirmed(out)
      /\ \A j \in 1 .. Len(todo) : todo[j] \notin Requesting
  BY NotSending
<1>4. \A j \in 1 .. Len(todo') : todo'[j] \notin Requesting
  <2>1. line \notin Requesting
    BY TokensDiffer DEF Requesting
  <2>2. \/ todo' = todo
        \/ /\ Len(todo') = Len(todo) + 1 /\ todo'[Len(todo')] = line
           /\ \A j \in 1 .. Len(todo) : todo'[j] = todo[j]
    BY <1>1, <1>2, WriteIs
  <2> QED
    BY <1>1, <1>3, <2>1, <2>2
<1>5. ~Confirmed(rx') /\ ~Confirmed(out')
  BY <1>1, <1>2, <1>3, ReadOne DEF Confirmed
<1>6. arrived' = "none" /\ data' = 0
  BY <1>2, <1>3 DEF OwnInv
<1>7. Requested'
  BY <1>4, <1>6, TokensDiffer DEF Requested, Requesting
<1>8. Confirming'
  BY <1>5 DEF Confirming, Confirmed
<1> QED
  BY <1>6, <1>7, <1>8 DEF OwnInv

\* The two lines of a request are written, each behind all others.
LEMMA OwnRequests ==
  ASSUME TypeInv, OwnInv, Prompt \/ Payload
  PROVE  OwnInv'
<1>1. /\ todo \in Seq(Line) /\ Len(todo) <= Backlog /\ rx \in Seq(Response)
      /\ Len(todo) \in Nat
  BY LenProperties DEF TypeInv, TypeOK
<1>2. CASE Prompt
  <2>1. /\ pc = "prompt" /\ pc' = "prompting" /\ rx' = <<>>
        /\ UNCHANGED <<out, data, arrived, command>> /\ Write("CIPSEND")
    BY <1>2 DEF Prompt, send_at_command, flush_uart_input, Ask, Goto
  <2>2. pc \notin Sending /\ pc \notin Behind /\ pc' \in Sending /\ "CIPSEND" \in Line
    BY <2>1 DEF Sending, Behind, Line, ATCommand
  <2>3. data = 0 /\ ~Confirmed(rx) /\ ~Confirmed(out)
        /\ \A j \in 1 .. Len(todo) : todo[j] \notin Requesting
    BY <2>2, NotSending
  <2>4. \/ todo' = todo
        \/ /\ Len(todo') = Len(todo) + 1 /\ todo'[Len(todo')] = "CIPSEND"
           /\ \A j \in 1 .. Len(todo) : todo'[j] = todo[j]
    BY <1>1, <2>1, <2>2, WriteIs
  <2>5. \A j \in 1 .. Len(todo') :
          todo'[j] \notin Requesting \/ (todo'[j] = "CIPSEND" /\ j = Len(todo'))
    BY <1>1, <2>3, <2>4
  <2>6. ~Confirmed(rx') /\ ~Confirmed(out')
    BY <1>1, <2>1, <2>3, ReadOne DEF Confirmed
  <2>7. arrived' = "none" /\ data' = 0
    BY <2>1, <2>2, <2>3 DEF OwnInv
  <2>8. Requested'
    <3>1. \A j \in 1 .. Len(todo') : todo'[j] \notin CarCommand
      BY <2>5, TokensDiffer DEF Requesting
    <3>2. \A j \in 1 .. Len(todo') : todo'[j] = "CIPSEND" =>
            \A l \in 1 .. Len(todo') : ~(l > j)
      <4>1. Len(todo') \in Nat
        BY <1>1, <2>4
      <4> QED
        BY <2>5, <4>1 DEF Requesting
    <3> QED
      BY <2>2, <2>7, <3>1, <3>2, TokensDiffer DEF Requested
  <2>9. Confirming'
    BY <2>6 DEF Confirming, Confirmed
  <2> QED
    BY <2>7, <2>8, <2>9 DEF OwnInv
<1>3. CASE Payload
  <2>1. /\ pc = "payload" /\ pc' = "sending" /\ rx' = rx
        /\ UNCHANGED <<out, data, arrived, command>> /\ Write(command)
    BY <1>3 DEF Payload, KeepUart, Ask, Goto
  <2>2. /\ pc \in Sending /\ pc # "sending" /\ pc \notin Behind /\ pc' \in Sending
        /\ command \in CarCommand /\ command \in Line
    BY <2>1 DEF Sending, Behind, TypeInv, Turn, Line
  <2>3. /\ ~Confirmed(rx) /\ ~Confirmed(out) /\ arrived = "none"
        /\ \A j \in 1 .. Len(todo) : todo[j] \notin CarCommand
    BY <2>2 DEF OwnInv, Confirming, Requested
  <2>4. \/ todo' = todo
        \/ /\ Len(todo') = Len(todo) + 1 /\ todo'[Len(todo')] = command
           /\ \A j \in 1 .. Len(todo) : todo'[j] = todo[j]
    BY <1>1, <2>1, <2>2, WriteIs
  <2>5. \A j \in 1 .. Len(todo') : todo'[j] \in CarCommand =>
          todo'[j] = command /\ j = Len(todo')
    BY <1>1, <2>3, <2>4
  <2>6. data' = Swallowed => \A j \in 1 .. Len(todo') : todo'[j] \in CarCommand
    BY <1>1, <2>1, <2>2, <2>4 DEF OwnInv, Requested
  <2>7. \A j \in 1 .. Len(todo') : todo'[j] = "CIPSEND" =>
          \A l \in 1 .. Len(todo') : l > j => todo'[l] \in CarCommand
    <3>1. CASE todo' = todo
      BY <3>1 DEF OwnInv, Requested
    <3>2. CASE /\ Len(todo') = Len(todo) + 1 /\ todo'[Len(todo')] = command
               /\ \A j \in 1 .. Len(todo) : todo'[j] = todo[j]
      <4> SUFFICES ASSUME NEW j \in 1 .. Len(todo'), todo'[j] = "CIPSEND",
                          NEW l \in 1 .. Len(todo'), l > j
                   PROVE  todo'[l] \in CarCommand
        OBVIOUS
      <4>1. CASE l = Len(todo')
        BY <2>2, <3>2, <4>1
      <4>2. CASE l # Len(todo')
        <5>1. j \in 1 .. Len(todo) /\ l \in 1 .. Len(todo)
          BY <1>1, <3>2, <4>2
        <5>2. todo[j] = "CIPSEND" /\ todo'[l] = todo[l]
          BY <3>2, <5>1
        <5> QED
          BY <5>1, <5>2 DEF OwnInv, Requested
      <4> QED
        BY <4>1, <4>2
    <3> QED
      BY <2>4, <3>1, <3>2
  <2>8. Requested'
    BY <2>1, <2>2, <2>5, <2>6, <2>7 DEF OwnInv, Requested
  <2>9. Confirming'
    BY <2>1, <2>3 DEF Confirming, Confirmed
  <2> QED
    BY <2>1, <2>3, <2>8, <2>9 DEF OwnInv
<1> QED
  BY <1>2, <1>3

\* The places in short sequences.
LEMMA Positions ==
  /\ \A a, j : j \in 1 .. Len(<<a>>) => j = 1
  /\ \A a, b, j : j \in 1 .. Len(<<a, b>>) => j = 1 \/ j = 2
  /\ \A a, b, c, j : j \in 1 .. Len(<<a, b, c>>) => j = 1 \/ j = 2 \/ j = 3
<1>1. \A a, b, c : Len(<<a>>) = 1 /\ Len(<<a, b>>) = 2 /\ Len(<<a, b, c>>) = 3
  OBVIOUS
<1>2. \A n, j : /\ n = 1 /\ j \in 1 .. n => j = 1
                /\ n = 2 /\ j \in 1 .. n => j = 1 \/ j = 2
                /\ n = 3 /\ j \in 1 .. n => j = 1 \/ j = 2 \/ j = 3
  OBVIOUS
<1> QED
  BY <1>1, <1>2

\* What a reply holds besides the confirmation is none.
LEMMA NoneAmong ==
  /\ ~Confirmed(<<>>)
  /\ \A a : a # "SEND OK" => ~Confirmed(<<a>>)
  /\ \A a, b : a # "SEND OK" /\ b # "SEND OK" => ~Confirmed(<<a, b>>)
  /\ \A a, b, c : a # "SEND OK" /\ b # "SEND OK" /\ c # "SEND OK"
                    => ~Confirmed(<<a, b, c>>)
  /\ \A a, b : b # "SEND OK" /\ a # "SEND OK" =>
       \A j \in 1 .. Len(<<"SEND OK", a, b>>) : <<"SEND OK", a, b>>[j] = "SEND OK" => j = 1
<1>1. ~Confirmed(<<>>)
  <2>1. Len(<<>>) = 0
    OBVIOUS
  <2>2. \A j : j \notin 1 .. 0
    OBVIOUS
  <2> QED
    BY <2>1, <2>2 DEF Confirmed
<1>2. ASSUME NEW a, a # "SEND OK" PROVE ~Confirmed(<<a>>)
  <2> SUFFICES ASSUME NEW j \in 1 .. Len(<<a>>) PROVE <<a>>[j] # "SEND OK"
    BY DEF Confirmed
  <2>1. j = 1
    BY Positions
  <2> QED
    BY <1>2, <2>1
<1>3. ASSUME NEW a, NEW b, a # "SEND OK", b # "SEND OK" PROVE ~Confirmed(<<a, b>>)
  <2> SUFFICES ASSUME NEW j \in 1 .. Len(<<a, b>>) PROVE <<a, b>>[j] # "SEND OK"
    BY DEF Confirmed
  <2>1. j = 1 \/ j = 2
    BY Positions
  <2>2. <<a, b>>[1] = a /\ <<a, b>>[2] = b
    OBVIOUS
  <2>3. ASSUME j = 1 PROVE <<a, b>>[j] # "SEND OK"
    BY <1>3, <2>2, <2>3
  <2>4. ASSUME j = 2 PROVE <<a, b>>[j] # "SEND OK"
    BY <1>3, <2>2, <2>4
  <2> QED
    BY <2>1, <2>3, <2>4
<1>4. ASSUME NEW a, NEW b, NEW c, a # "SEND OK", b # "SEND OK", c # "SEND OK"
      PROVE  ~Confirmed(<<a, b, c>>)
  <2> SUFFICES ASSUME NEW j \in 1 .. Len(<<a, b, c>>) PROVE <<a, b, c>>[j] # "SEND OK"
    BY DEF Confirmed
  <2>1. j = 1 \/ j = 2 \/ j = 3
    BY Positions
  <2>2. <<a, b, c>>[1] = a /\ <<a, b, c>>[2] = b /\ <<a, b, c>>[3] = c
    OBVIOUS
  <2>3. ASSUME j = 1 PROVE <<a, b, c>>[j] # "SEND OK"
    BY <1>4, <2>2, <2>3
  <2>4. ASSUME j = 2 PROVE <<a, b, c>>[j] # "SEND OK"
    BY <1>4, <2>2, <2>4
  <2>5. ASSUME j = 3 PROVE <<a, b, c>>[j] # "SEND OK"
    BY <1>4, <2>2, <2>5
  <2> QED
    BY <2>1, <2>3, <2>4, <2>5
<1>5. ASSUME NEW a, NEW b, a # "SEND OK", b # "SEND OK",
             NEW j \in 1 .. Len(<<"SEND OK", a, b>>), <<"SEND OK", a, b>>[j] = "SEND OK"
      PROVE  j = 1
  <2>1. j = 1 \/ j = 2 \/ j = 3
    BY Positions
  <2>2. <<"SEND OK", a, b>>[2] = a /\ <<"SEND OK", a, b>>[3] = b
    OBVIOUS
  <2>3. j # 2 /\ j # 3
    BY <1>5, <2>2
  <2> QED
    BY <2>1, <2>3
<1> QED
  BY <1>1, <1>2, <1>3, <1>4, <1>5

\* The confirmation is the first word of the answer to a request.
LEMMA Confirmations ==
  /\ ~Confirmed(<<>>) /\ ~Confirmed(<<"OK">>) /\ ~Confirmed(<<"ERROR">>)
  /\ ~Confirmed(<<"OK", ">">>) /\ ~Confirmed(<<"CLOSED", "OK">>)
  /\ ~Confirmed(<<"WIFI DISCONNECT", "ERROR">>) /\ ~Confirmed(<<"ALREADY CONNECTED", "ERROR">>)
  /\ ~Confirmed(<<"CONNECT", "OK">>) /\ ~Confirmed(<<"ERROR", "CLOSED">>)
  /\ ~Confirmed(<<"WIFI DISCONNECT">>) /\ ~Confirmed(<<"CLOSED">>)
  /\ ~Confirmed(<<"WIFI CONNECTED", "WIFI GOT IP">>)
  /\ ~Confirmed(<<"WIFI CONNECTED", "WIFI GOT IP", "OK">>)
<1>1. /\ ~Confirmed(<<>>) /\ ~Confirmed(<<"OK">>) /\ ~Confirmed(<<"ERROR">>)
      /\ ~Confirmed(<<"WIFI DISCONNECT">>) /\ ~Confirmed(<<"CLOSED">>)
  BY NoneAmong
<1>2. /\ ~Confirmed(<<"OK", ">">>) /\ ~Confirmed(<<"CLOSED", "OK">>)
      /\ ~Confirmed(<<"WIFI DISCONNECT", "ERROR">>)
      /\ ~Confirmed(<<"ALREADY CONNECTED", "ERROR">>)
      /\ ~Confirmed(<<"CONNECT", "OK">>) /\ ~Confirmed(<<"ERROR", "CLOSED">>)
      /\ ~Confirmed(<<"WIFI CONNECTED", "WIFI GOT IP">>)
  BY NoneAmong
<1>3. ~Confirmed(<<"WIFI CONNECTED", "WIFI GOT IP", "OK">>)
  BY NoneAmong
<1> QED
  BY <1>1, <1>2, <1>3

\* The answer to a request begins with the confirmation.
LEMMA Delivered ==
  ASSUME out' = <<"SEND OK", "page", "CLOSED">>
  PROVE  \A j \in 1 .. Len(out') : out'[j] = "SEND OK" => j = 1
BY NoneAmong

\* What Execute does while no request's text is expected, but for CIPSEND.
LEMMA NoRequest ==
  ASSUME \/ Answer(<<"OK">>) /\ UNCHANGED <<joined, link, data, arrived>>
         \/ Join \/ CloseLink \/ OpenLink \/ Reject
  PROVE  ~Confirmed(out') /\ data' = data /\ arrived' = arrived
<1>1. data' = data /\ arrived' = arrived
  BY DEF Join, CloseLink, OpenLink, Reject
<1>2. CASE Answer(<<"OK">>) \/ Reject
  BY <1>1, <1>2, Confirmations DEF Reject, Answer
<1>3. CASE Join
  BY <1>1, <1>3, Confirmations DEF Join, Answer
<1>4. CASE CloseLink
  BY <1>1, <1>4, Confirmations DEF CloseLink, Answer
<1>5. CASE OpenLink
  BY <1>1, <1>5, Confirmations DEF OpenLink, Answer
<1> QED
  BY <1>2, <1>3, <1>4, <1>5

\* The modem looks at a line.
LEMMA OwnExecutes ==
  ASSUME TypeInv, OwnInv, Execute, Others
  PROVE  OwnInv'
<1>1. /\ todo \in Seq(Line) /\ todo # <<>> /\ todo' = Tail(todo) /\ out = <<>>
      /\ rx' = rx /\ pc' = pc /\ command' = command
  BY DEF TypeInv, TypeOK, Execute, Others, program
<1> DEFINE line == Head(todo)
<1>2. /\ Len(todo) \in Nat \ {0} /\ Len(todo') = Len(todo) - 1 /\ line = todo[1]
      /\ \A j \in 1 .. Len(todo') : j + 1 \in 1 .. Len(todo) /\ todo'[j] = todo[j + 1]
  BY <1>1, TailIs
<1>3. /\ 1 \in 1 .. Len(todo) /\ Len(todo') \in Nat
      /\ \A j \in 1 .. Len(todo') : j + 1 > 1
      /\ \A j, l \in 1 .. Len(todo') : l > j => l + 1 > j + 1
      /\ \A j \in 1 .. Len(todo') : j + 1 = Len(todo) => j = Len(todo')
      /\ Len(todo) = 1 => Len(todo') = 0
  BY <1>2
<1>4. Requested /\ Confirming
  BY DEF OwnInv
<1> HIDE DEF line
<1>5. /\ \A j \in 1 .. Len(todo') : todo'[j] \in CarCommand =>
           pc = "sending" /\ todo'[j] = command /\ j = Len(todo')
      /\ \A j \in 1 .. Len(todo') : todo'[j] = "CIPSEND" =>
           pc \in Sending /\ \A l \in 1 .. Len(todo') : l > j => todo'[l] \in CarCommand
  BY <1>2, <1>3, <1>4 DEF Requested
<1>6. line \in Requesting => ~Confirmed(rx)
  BY <1>2, <1>3, <1>4 DEF Confirming
<1>7. line \in CarCommand => Len(todo') = 0 /\ pc = "sending" /\ line = command
  BY <1>2, <1>3, <1>4 DEF Requested
<1>8. line = "CIPSEND" => \A j \in 1 .. Len(todo') : todo'[j] \in CarCommand
  BY <1>2, <1>3, <1>4 DEF Requested
<1>9. data = Swallowed => line \in CarCommand
  BY <1>2, <1>3, <1>4 DEF Requested
<1>10. \A j \in 1 .. Len(todo') : todo'[j] \in Requesting => ~Confirmed(rx)
  BY <1>2, <1>4 DEF Confirming
<1>11. CASE /\ data' = data \/ data' = 0
            /\ arrived' = arrived
            /\ ~Confirmed(out')
            /\ data = Swallowed => data' = 0
  <2>1. data' = 0
    BY <1>4, <1>11 DEF Requested
  <2>2. Requested'
    BY <1>1, <1>5, <2>1, TokensDiffer DEF Requested
  <2>3. Confirming'
    <3>1. Confirmed(rx) => pc = "sending"
      BY <1>4 DEF Confirming
    <3>2. \A j \in 1 .. Len(out') : out'[j] # "SEND OK"
      BY <1>11 DEF Confirmed
    <3> QED
      BY <1>1, <1>4, <1>10, <1>11, <2>1, <3>1, <3>2 DEF Confirming, Confirmed
  <2> QED
    BY <1>1, <1>11, <2>2, <2>3 DEF OwnInv
<1>12. CASE data = Swallowed /\ line \in CarCommand /\ Deliver(line)
  <2>1. CASE arrived' = line /\ out' = <<"SEND OK", "page", "CLOSED">> /\ data' = 0
    <3>0. data' = 0
      BY <2>1
    <3>1. Requested'
      BY <1>1, <1>5, <3>0, TokensDiffer DEF Requested
    <3>2. ~Confirmed(rx) /\ pc = "sending"
      BY <1>6, <1>7, <1>12 DEF Requesting
    <3>3. \A j \in 1 .. Len(out') : out'[j] = "SEND OK" => j = 1
      BY <2>1, Delivered
    <3>4. \A j \in 1 .. Len(rx) : rx[j] # "SEND OK"
      BY <3>2 DEF Confirmed
    <3>5. \A j \in 1 .. Len(todo') : FALSE
      <4>1. Len(todo') = 0
        BY <1>7, <1>12
      <4> QED
        BY <4>1
    <3>6. Confirming'
      BY <1>1, <2>1, <3>2, <3>3, <3>4, <3>5 DEF Confirming, Confirmed
    <3> QED
      BY <1>1, <1>7, <1>12, <2>1, <3>1, <3>6, TokensDiffer DEF OwnInv
  <2>2. CASE arrived' = arrived /\ out' = <<"ERROR">> /\ data' = 0
    <3>1. ~Confirmed(out')
      BY <2>2, Confirmations
    <3> QED
      BY <1>11, <2>2, <3>1
  <2> QED
    BY <1>12, <2>1, <2>2 DEF Deliver, Answer
<1>13. CASE /\ data = 0 /\ line = "CIPSEND" /\ Prepare
  <2>1. CASE data' = Swallowed /\ out' = <<"OK", ">">> /\ arrived' = arrived
    <3>1. ~Confirmed(out') /\ ~Confirmed(rx)
      BY <1>6, <1>13, <2>1, Confirmations DEF Requesting
    <3>2. pc \in Sending
      BY <1>2, <1>3, <1>4, <1>13 DEF Requested
    <3>3. Requested'
      BY <1>1, <1>5, <1>8, <1>13, <2>1, <3>2 DEF Requested
    <3>4. Confirming'
      BY <1>1, <3>1 DEF Confirming, Confirmed
    <3> QED
      BY <1>1, <2>1, <3>3, <3>4 DEF OwnInv
  <2>2. CASE data' = data /\ out' = <<"ERROR">> /\ arrived' = arrived
    <3>1. ~Confirmed(out')
      BY <2>2, Confirmations
    <3> QED
      BY <1>11, <1>13, <2>2, <3>1, TokensDiffer
  <2> QED
    BY <1>13, <2>1, <2>2 DEF Prepare, Answer
<1>14. CASE data = 0 /\ ~(line = "CIPSEND" /\ Prepare)
  <2>1. \/ Answer(<<"OK">>) /\ UNCHANGED <<joined, link, data, arrived>>
        \/ Join \/ CloseLink \/ OpenLink \/ Reject
    BY <1>14, TokensDiffer DEF Execute, line
  <2>2. ~Confirmed(out') /\ data' = data /\ arrived' = arrived
    BY <2>1, NoRequest
  <2> QED
    BY <1>11, <1>14, <2>2, TokensDiffer
<1>15. data \in {0, Swallowed}
  BY <1>4 DEF Requested
<1>16. CASE data = Swallowed
  <2>1. line \in CarCommand /\ line \notin ATCommand
    BY <1>9, <1>16, TokensDiffer
  <2>2. Deliver(line)
    BY <1>16, <2>1, TokensDiffer DEF Execute, line
  <2> QED
    BY <1>12, <1>16, <2>1, <2>2
<1> QED
  BY <1>13, <1>14, <1>15, <1>16

\* A response gets to the UART, or is lost.
LEMMA OwnEmits ==
  ASSUME TypeInv, OwnInv, Emit, Others
  PROVE  OwnInv'
<1>1. /\ rx \in Seq(Response) /\ out \in Seq(Response) /\ out # <<>> /\ out' = Tail(out)
      /\ pc' = pc /\ command' = command /\ todo' = todo /\ data' = data
      /\ arrived' = arrived /\ (rx' = rx \/ rx' = Append(rx, Head(out)))
  BY DEF TypeInv, TypeOK, Emit, Others, program
<1>2. /\ 1 \in 1 .. Len(out) /\ Head(out) = out[1] /\ Head(out) \in Response
      /\ \A j \in 1 .. Len(out') : j + 1 \in 1 .. Len(out) /\ out'[j] = out[j + 1] /\ j + 1 # 1
  <2>1. /\ Len(out) \in Nat \ {0} /\ Head(out) = out[1] /\ out[1] \in Response
        /\ \A j \in 1 .. Len(out') : j + 1 \in 1 .. Len(out) /\ out'[j] = out[j + 1]
    BY <1>1, TailIs
  <2>2. 1 \in 1 .. Len(out) /\ \A j \in 1 .. Len(out') : j + 1 # 1
    BY <2>1
  <2> QED
    BY <2>1, <2>2
<1>3. Requested /\ Confirming
  BY DEF OwnInv
<1>4. ~Confirmed(out')
  BY <1>2, <1>3 DEF Confirming, Confirmed
<1>5. Requested'
  BY <1>1, <1>3 DEF Requested
<1>6. Confirming'
  <2>1. \A j \in 1 .. Len(out') : out'[j] # "SEND OK"
    BY <1>4 DEF Confirmed
  <2>2. CASE rx' = rx
    BY <1>1, <1>3, <1>4, <2>1, <2>2 DEF Confirming, Confirmed
  <2>3. CASE rx' = Append(rx, Head(out))
    <3>1. /\ Len(rx) \in Nat /\ Len(rx') = Len(rx) + 1 /\ rx'[Len(rx')] = Head(out)
          /\ \A j \in 1 .. Len(rx) : rx'[j] = rx[j]
      BY <1>1, <1>2, <2>3, AppendProperties, LenProperties
    <3>2. \A j \in 1 .. Len(rx') : j = Len(rx') \/ j \in 1 .. Len(rx)
      BY <3>1
    <3>3. CASE Head(out) = "SEND OK"
      <4>1. Confirmed(out) /\ ~Confirmed(rx)
        BY <1>2, <1>3, <3>3 DEF Confirming, Confirmed
      <4>2. \A j \in 1 .. Len(rx') : rx'[j] = "SEND OK" => j = Len(rx')
        BY <3>1, <3>2, <4>1 DEF Confirmed
      <4> QED
        BY <1>1, <1>3, <2>1, <4>1, <4>2 DEF Confirming
    <3>4. CASE Head(out) # "SEND OK"
      <4>1. \A j \in 1 .. Len(rx') : rx'[j] = "SEND OK" => j \in 1 .. Len(rx) /\ rx[j] = "SEND OK"
        BY <3>1, <3>2, <3>4
      <4>2. Confirmed(rx') => Confirmed(rx)
        BY <4>1 DEF Confirmed
      <4> QED
        BY <1>1, <1>3, <1>4, <2>1, <4>1, <4>2 DEF Confirming
    <3> QED
      BY <3>3, <3>4
  <2> QED
    BY <1>1, <2>2, <2>3
<1> QED
  BY <1>1, <1>5, <1>6 DEF OwnInv

\* What the network does unasked is no confirmation, and none of it is a line.
LEMMA OwnNotices ==
  ASSUME TypeInv, OwnInv, Notice \/ Settle, Others
  PROVE  OwnInv'
<1>1. /\ rx' = rx /\ todo' = todo /\ data' = data /\ arrived' = arrived
      /\ pc' = pc /\ command' = command
  BY DEF Notice, Settle, modem, Others, program
<1>2. ~Confirmed(out') \/ out' = out
  <2>1. CASE Notice
    BY <2>1, Confirmations DEF Notice, Answer
  <2>2. CASE Settle
    BY <2>2 DEF Settle, modem
  <2> QED
    BY <2>1, <2>2
<1>3. Requested'
  BY <1>1 DEF OwnInv, Requested
<1>4. CASE out' = out
  BY <1>1, <1>3, <1>4 DEF OwnInv, Confirming, Confirmed
<1>5. CASE ~Confirmed(out')
  <2>1. \A j \in 1 .. Len(out') : out'[j] # "SEND OK"
    BY <1>5 DEF Confirmed
  <2>2. Confirming'
    BY <1>1, <1>5, <2>1 DEF OwnInv, Confirming, Confirmed
  <2> QED
    BY <1>1, <1>3, <2>2 DEF OwnInv
<1> QED
  BY <1>2, <1>4, <1>5

\* A modem that is reset has forgotten every request.
LEMMA OwnResets ==
  ASSUME TypeInv, OwnInv, Reset
  PROVE  OwnInv'
<1>1. /\ pc = "reset" /\ rx' = rx /\ todo' = <<>> /\ out' = <<>> /\ data' = 0
      /\ arrived' = arrived
  BY DEF Reset, ModemReset
<1>2. pc \notin Sending /\ pc \notin Behind
  BY <1>1 DEF Sending, Behind
<1>3. ~Confirmed(rx) /\ arrived = "none"
  BY <1>2, NotSending DEF OwnInv
<1>4. ~Confirmed(rx') /\ ~Confirmed(out') /\ data' # Swallowed /\ data' \in {0, Swallowed}
  <2>1. ~Confirmed(out')
    BY <1>1, Confirmations
  <2>2. ~Confirmed(rx')
    BY <1>1, <1>3 DEF Confirmed
  <2> QED
    BY <1>1, <2>1, <2>2, TokensDiffer
<1>5. \A j \in 1 .. Len(todo') : FALSE
  <2>1. Len(todo') = 0
    BY <1>1
  <2> QED
    BY <2>1
<1>6. Requested'
  BY <1>4, <1>5 DEF Requested
<1>7. Confirming'
  BY <1>4 DEF Confirming, Confirmed
<1> QED
  BY <1>1, <1>3, <1>6, <1>7 DEF OwnInv

\* A new turn: nothing of the last one is under way.
LEMMA OwnSenses ==
  ASSUME TypeInv, OwnInv, Sense
  PROVE  OwnInv'
<1>1. /\ pc = "sense" /\ rx' = rx /\ todo' = todo /\ out' = out /\ data' = data
      /\ arrived' = "none"
  BY DEF Sense
<1>2. pc \notin Sending
  BY <1>1 DEF Sending
<1>3. /\ data = 0 /\ ~Confirmed(rx) /\ ~Confirmed(out)
      /\ \A j \in 1 .. Len(todo) : todo[j] \notin Requesting
  BY <1>2, NotSending
<1>4. data' # Swallowed /\ data' \in {0, Swallowed}
  BY <1>1, <1>3, TokensDiffer
<1>5. ~Confirmed(rx') /\ ~Confirmed(out')
  BY <1>1, <1>3 DEF Confirmed
<1>6. \A j \in 1 .. Len(todo') : todo'[j] \notin CarCommand /\ todo'[j] # "CIPSEND"
  BY <1>1, <1>3 DEF Requesting
<1>7. Requested'
  BY <1>4, <1>6 DEF Requested
<1>8. Confirming'
  BY <1>5 DEF Confirming, Confirmed
<1> QED
  BY <1>1, <1>7, <1>8 DEF OwnInv

\* Where a wait may end, but for that for the confirmation.
LEMMA EndsInTurn ==
  ASSUME NEW found \in BOOLEAN, pc \in Waiting, pc # "sending", AfterWait(found)
  PROVE  /\ pc \in Sending => pc' \in Sending
         /\ pc \in Behind => pc' \in Behind
<1>1. CASE pc \in {"testing", "joining"}
  BY <1>1 DEF Sending, Behind
<1>2. CASE pc \in {"closing", "starting"}
  BY <1>2 DEF Sending, Behind
<1>3. CASE pc = "prompting"
  <2>1. pc' = "payload"
    BY <1>3 DEF AfterWait, AfterRequest, Goto
  <2> QED
    BY <1>3, <2>1 DEF Sending, Behind
<1>4. CASE pc = "ending"
  <2>1. pc' = "done"
    BY <1>4 DEF AfterWait, AfterRequest, Goto
  <2> QED
    BY <1>4, <2>1 DEF Sending, Behind
<1> QED
  BY <1>1, <1>2, <1>3, <1>4 DEF Waiting, Expected

\* A response is read.
LEMMA OwnReceives ==
  ASSUME TypeInv, OwnInv, Receive
  PROVE  OwnInv'
<1>1. rx # <<>> /\ rx' = Tail(rx) /\ UNCHANGED <<modem, command>> /\ pc \in Waiting
  BY DEF Receive
<1>2. CASE pc' = pc
  BY <1>1, <1>2, OwnStays
<1>3. CASE AfterWait(TRUE) /\ Contains(Head(rx), Expected[pc]) /\ pc = "sending"
  <2>1. Head(rx) = "SEND OK"
    BY <1>3 DEF Contains, Expected, Within
  <2>2. pc' = "ending"
    BY <1>3 DEF AfterWait, AfterRequest, Goto
  <2> QED
    BY <1>1, <1>3, <2>1, <2>2, OwnFound DEF ReadsConfirmation
<1>4. CASE AfterWait(TRUE) /\ pc # "sending"
  BY <1>1, <1>4, EndsInTurn, OwnStays
<1> QED
  BY <1>2, <1>3, <1>4 DEF Receive

\* A wait is given up, not that for a confirmation.
LEMMA OwnGivesUp ==
  ASSUME TypeInv, OwnInv, Timeout, ~late'
  PROVE  OwnInv'
<1>1. UNCHANGED <<modem, command>> /\ rx' = rx /\ pc \in Waiting /\ AfterWait(FALSE)
  BY DEF Timeout
<1>2. pc # "sending"
  <2> SUFFICES ASSUME pc = "sending" PROVE FALSE
    OBVIOUS
  <2> QED
    BY <1>1 DEF AfterWait, AfterRequest
<1> QED
  BY <1>1, <1>2, EndsInTurn, OwnStays

\* No step breaks the invariant before a request is given up.
LEMMA OwnStep == TypeInv /\ (~late => OwnInv) /\ [Next]_vars => (~late' => OwnInv')
<1> SUFFICES ASSUME TypeInv, ~late => OwnInv, [Next]_vars, ~late' PROVE OwnInv'
  OBVIOUS
<1>1. ~late
  <2> SUFFICES ASSUME late PROVE FALSE
    OBVIOUS
  <2>1. \A found \in BOOLEAN : pc \in Waiting /\ AfterWait(found) => late'
    BY DEF AfterWait, AfterRequest
  <2> QED
    BY <2>1 DEF Next, Program, Step, Others, program, vars, Reset, Test, JoinNetwork, Sense,
                Close, Start, Prompt, Payload, Done, Receive, Second, Timeout, Ask,
                send_at_command
<1>2. OwnInv
  BY <1>1
<1>3. CASE Reset
  BY <1>2, <1>3, OwnResets
<1>4. CASE Test \/ JoinNetwork \/ Close \/ Start
  <2>1. PICK l \in ATCommand \ {"CIPSEND"} : \E next : Ask(l, next)
    BY <1>4 DEF Test, JoinNetwork, Close, Start, send_at_command, ATCommand
  <2>2. /\ rx' = rx \/ rx' = <<>>
        /\ UNCHANGED <<arrived, command>>
        /\ pc \in {"test", "join", "close", "start"}
    BY <1>4 DEF Test, JoinNetwork, Close, Start, send_at_command, flush_uart_input, KeepUart
  <2>3. pc \notin Sending /\ pc \notin Behind
    BY <2>2 DEF Sending, Behind
  <2> QED
    BY <1>2, <2>1, <2>2, <2>3, OwnWrites
<1>5. CASE Prompt \/ Payload
  BY <1>2, <1>5, OwnRequests
<1>6. CASE Sense
  BY <1>2, <1>6, OwnSenses
<1>7. CASE Done
  <2>1. pc = "done" /\ pc' = "sense" /\ rx' = rx /\ UNCHANGED <<modem, command>>
    BY <1>7 DEF Done, Goto
  <2>2. pc' \in Behind /\ pc \notin Sending
    BY <2>1 DEF Sending, Behind
  <2> QED
    BY <1>2, <2>1, <2>2, OwnStays
<1>8. CASE Receive
  BY <1>2, <1>8, OwnReceives
<1>9. CASE Second
  BY <1>2, <1>9, OwnStays DEF Second
<1>10. CASE Timeout
  BY <1>2, <1>10, OwnGivesUp
<1>11. CASE ModemStep /\ Others
  BY <1>2, <1>11, OwnExecutes, OwnEmits DEF ModemStep
<1>12. CASE (Notice \/ Settle) /\ Others
  BY <1>2, <1>12, OwnNotices
<1>13. CASE UNCHANGED vars
  BY <1>2, <1>13, OwnStays DEF vars, program
<1> QED
  BY <1>3, <1>4, <1>5, <1>6, <1>7, <1>8, <1>9, <1>10, <1>11, <1>12, <1>13
  DEF Next, Program, Step

\* At the start, nothing is under way.
LEMMA OwnStart == Init => OwnInv
<1> SUFFICES ASSUME Init PROVE OwnInv
  OBVIOUS
<1>1. rx = <<>> /\ todo = <<>> /\ out = <<>> /\ data = 0 /\ arrived = "none"
  BY DEF Init, ModemInit
<1>2. ~Confirmed(rx) /\ ~Confirmed(out)
  BY <1>1, Confirmations
<1>3. \A j \in 1 .. Len(todo) : FALSE
  <2>1. Len(todo) = 0
    BY <1>1
  <2> QED
    BY <2>1
<1>4. Requested
  BY <1>1, <1>3, TokensDiffer DEF Requested
<1>5. Confirming
  BY <1>2 DEF Confirming, Confirmed
<1> QED
  BY <1>1, <1>4, <1>5 DEF OwnInv

\* As long as every request was confirmed, the request of one turn is never
\* obeyed in the next, however the modem's answers and the program's waits get
\* out of step.
THEOREM OwnTurns == Spec => []OwnTurn
<1>1. Init => (~late => OwnInv)
  BY OwnStart
<1>2. (~late => OwnInv) => OwnTurn
  BY DEF OwnInv, OwnTurn, Behind
<1> QED
  BY <1>1, <1>2, TypeInit, TypeStep, OwnStep, PTL DEF Spec
-----------------------------------------------------------------------------
(***************************************************************************)
(* Once in step, the program and a calm modem stay in step.                *)
(*                                                                         *)
(* The reason is that each wait of a turn ends with the last response of   *)
(* the answer it waits for, or with nothing left on the line: what may be  *)
(* left in the UART is none of the words a later wait looks for.           *)
(***************************************************************************)
Only(s, tokens) == \A j \in 1 .. Len(s) : s[j] \in tokens

\* The token is the last of the answer and of what has been received.
Ends(token) ==
  /\ \A j \in 1 .. Len(out) : out[j] = token => j = Len(out)
  /\ \A j \in 1 .. Len(rx) : rx[j] = token => j = Len(rx) /\ out = <<>>

AtRest == todo = <<>> /\ out = <<>> /\ data = 0

Closing ==
  /\ data = 0
  /\ \/ todo = <<"CIPCLOSE">> /\ rx = <<>> /\ out = <<>>
     \/ /\ todo = <<>> /\ ~link /\ Ends("OK")
        /\ Only(rx, {"OK", "CLOSED", "ERROR"}) /\ Only(out, {"OK", "CLOSED", "ERROR"})

Starting ==
  /\ data = 0 /\ ~full
  /\ \/ todo = <<"CIPSTART">> /\ rx = <<>> /\ out = <<>> /\ ~link
     \/ todo = <<>> /\ rx = <<>> /\ out = <<"CONNECT", "OK">> /\ link
     \/ todo = <<>> /\ rx # <<>> /\ rx[1] = "CONNECT" /\ Only(out, {"OK"}) /\ link

Prompting ==
  /\ link
  /\ \/ todo = <<"CIPSEND">> /\ data = 0 /\ Only(rx, {"OK"}) /\ Only(out, {"OK"})
     \/ /\ todo = <<>> /\ data = Swallowed /\ Ends(">")
        /\ Only(rx, {"OK", ">"}) /\ Only(out, {"OK", ">"})

Arrived == todo = <<>> /\ data = 0 /\ arrived = command

Handing ==
  \/ /\ todo = <<command>> /\ data = Swallowed /\ link /\ out = <<>>
     /\ Only(rx, {"OK", ">"})
  \/ Arrived /\ Ends("CLOSED")

\* What is under way at each place of a turn.
InStep ==
  /\ calm /\ joined /\ pc \in Turn \cup {"sense"}
  /\ pc \in {"sense", "close"} => AtRest
  /\ pc = "closing"   => Closing
  /\ pc = "start"     => AtRest /\ rx = <<>> /\ ~link
  /\ pc = "starting"  => Starting
  /\ pc = "prompt"    => todo = <<>> /\ data = 0 /\ link /\ Only(out, {"OK"})
  /\ pc = "prompting" => Prompting
  /\ pc = "payload"   => /\ todo = <<>> /\ out = <<>> /\ data = Swallowed /\ link
                         /\ Only(rx, {"OK", ">"})
  /\ pc = "sending"   => Handing
  /\ pc = "ending"    => Arrived /\ Ends("CLOSED")
  /\ pc = "done"      => Arrived /\ out = <<>>

\* A sequence of one line.
LEMMA One ==
  ASSUME NEW e
  PROVE  /\ Append(<<>>, e) = <<e>> /\ <<e>> # <<>> /\ Head(<<e>>) = e /\ Tail(<<e>>) = <<>>
OBVIOUS

\* Nothing is in an empty sequence.
LEMMA OnlyNone == \A tokens : Only(<<>>, tokens)
<1> DEFINE none == <<>>
<1>1. Len(none) = 0
  OBVIOUS
<1> HIDE DEF none
<1>2. \A tokens : Only(none, tokens)
  BY <1>1 DEF Only
<1> QED
  BY <1>2 DEF none

\* The places in a sequence, and in what follows its first.
LEMMA Before ==
  \A n \in Nat : \A m : m = n - 1 => \A j \in 1 .. m : j + 1 = n => j = m
OBVIOUS

\* Taking the first away leaves nothing new.
LEMMA OnlyTail ==
  ASSUME NEW s \in Seq(Response), s # <<>>, NEW tokens, Only(s, tokens)
  PROVE  Only(Tail(s), tokens) /\ Head(s) \in tokens
<1>1. /\ Len(s) \in Nat \ {0} /\ Head(s) = s[1]
      /\ \A j \in 1 .. Len(Tail(s)) : j + 1 \in 1 .. Len(s) /\ Tail(s)[j] = s[j + 1]
  BY TailIs
<1> QED
  BY <1>1 DEF Only

\* Nor does adding one of the tokens.
LEMMA OnlyAppend ==
  ASSUME NEW s \in Seq(Response), NEW e \in Response, NEW tokens, Only(s, tokens), e \in tokens
  PROVE  Only(Append(s, e), tokens)
<1>1. /\ Len(s) \in Nat /\ Len(Append(s, e)) = Len(s) + 1 /\ Append(s, e)[Len(s) + 1] = e
      /\ \A j \in 1 .. Len(s) : Append(s, e)[j] = s[j]
  BY AppendProperties, LenProperties
<1> QED
  BY <1>1 DEF Only

\* A response gets to the UART, or is lost: what ends the answer still does.
LEMMA Emitted ==
  ASSUME rx \in Seq(Response), out \in Seq(Response), Emit
  PROVE  /\ \A token : Ends(token) => Ends(token)'
         /\ \A tokens : Only(out, tokens) => Only(out', tokens)
         /\ \A tokens : Only(rx, tokens) /\ Only(out, tokens) => Only(rx', tokens)
<1>1. /\ out # <<>> /\ out' = Tail(out) /\ (rx' = rx \/ rx' = Append(rx, Head(out)))
      /\ out[1] = Head(out) /\ Head(out) \in Response
      /\ Len(out) \in Nat \ {0} /\ Len(out') = Len(out) - 1
      /\ \A j \in 1 .. Len(out') : j + 1 \in 1 .. Len(out) /\ out'[j] = out[j + 1]
  BY TailIs DEF Emit
<1>0. \A j \in 1 .. Len(out') : j + 1 = Len(out) => j = Len(out')
  BY <1>1, Before
<1>2. ASSUME NEW token, Ends(token) PROVE Ends(token)'
  <2>1. \A j \in 1 .. Len(out') : out'[j] = token => j = Len(out')
    <3> SUFFICES ASSUME NEW j \in 1 .. Len(out'), out'[j] = token PROVE j = Len(out')
      OBVIOUS
    <3>1. j + 1 \in 1 .. Len(out) /\ out[j + 1] = token
      BY <1>1
    <3>2. j + 1 = Len(out)
      BY <1>2, <3>1 DEF Ends
    <3> QED
      BY <1>0, <3>2
  <2>2. \A j \in 1 .. Len(rx) : rx[j] # token
    BY <1>1, <1>2 DEF Ends
  <2>3. CASE rx' = rx
    BY <2>1, <2>2, <2>3 DEF Ends
  <2>4. CASE rx' = Append(rx, Head(out))
    <3>1. /\ Len(rx) \in Nat /\ Len(rx') = Len(rx) + 1 /\ rx'[Len(rx')] = Head(out)
          /\ \A j \in 1 .. Len(rx) : rx'[j] = rx[j]
      BY <1>1, <2>4, AppendProperties, LenProperties
    <3>2. \A j \in 1 .. Len(rx') : j = Len(rx') \/ j \in 1 .. Len(rx)
      BY <3>1
    <3>3. \A j \in 1 .. Len(rx') : rx'[j] = token => j = Len(rx') /\ Head(out) = token
      BY <2>2, <3>1, <3>2
    <3>4. Head(out) = token => out' = <<>>
      <4> SUFFICES ASSUME Head(out) = token PROVE out' = <<>>
        OBVIOUS
      <4>1. 1 \in 1 .. Len(out)
        BY <1>1
      <4>2. 1 = Len(out)
        BY <1>1, <1>2, <4>1 DEF Ends
      <4>3. Len(out') = 0 /\ out' \in Seq(Response)
        BY <1>1, <4>2, TailIs
      <4> QED
        BY <4>3, EmptySeq
    <3> QED
      BY <2>1, <3>3, <3>4 DEF Ends
  <2> QED
    BY <1>1, <2>3, <2>4
<1>3. ASSUME NEW tokens, Only(out, tokens) PROVE Only(out', tokens) /\ Head(out) \in tokens
  BY <1>1, <1>3, OnlyTail
<1>4. ASSUME NEW tokens, Only(out, tokens), Only(rx, tokens) PROVE Only(rx', tokens)
  BY <1>1, <1>3, <1>4, OnlyAppend
<1> QED
  BY <1>2, <1>3, <1>4

\* A response is read: what ends the answer still does, and when it is that,
\* nothing is left of the answer.
LEMMA Received ==
  ASSUME rx \in Seq(Response), rx # <<>>, rx' = Tail(rx), out' = out
  PROVE  /\ \A token : Ends(token) => Ends(token)'
         /\ \A token : Ends(token) /\ Head(rx) = token => rx' = <<>> /\ out = <<>>
         /\ \A tokens : Only(rx, tokens) => Only(rx', tokens) /\ Head(rx) \in tokens
<1>1. /\ Len(rx) \in Nat \ {0} /\ Head(rx) = rx[1] /\ Len(rx') = Len(rx) - 1
      /\ rx' \in Seq(Response)
      /\ \A j \in 1 .. Len(rx') : j + 1 \in 1 .. Len(rx) /\ rx'[j] = rx[j + 1]
  BY TailIs
<1>0. \A j \in 1 .. Len(rx') : j + 1 = Len(rx) => j = Len(rx')
  BY <1>1, Before
<1>2. ASSUME NEW token, Ends(token) PROVE Ends(token)'
  <2> SUFFICES ASSUME NEW j \in 1 .. Len(rx'), rx'[j] = token
               PROVE  j = Len(rx') /\ out' = <<>>
    BY <1>2 DEF Ends
  <2>1. j + 1 \in 1 .. Len(rx) /\ rx[j + 1] = token
    BY <1>1
  <2>2. j + 1 = Len(rx) /\ out = <<>>
    BY <1>2, <2>1 DEF Ends
  <2> QED
    BY <1>0, <2>2
<1>3. ASSUME NEW token, Ends(token), Head(rx) = token PROVE rx' = <<>> /\ out = <<>>
  <2>1. 1 \in 1 .. Len(rx)
    BY <1>1
  <2>2. 1 = Len(rx) /\ out = <<>>
    BY <1>1, <1>3, <2>1 DEF Ends
  <2>3. Len(rx') = 0
    BY <1>1, <2>2
  <2> QED
    BY <1>1, <2>2, <2>3, EmptySeq
<1> QED
  BY <1>2, <1>3, OnlyTail

\* The answers end with the tokens the program waits for.
LEMMA AnswersEnd ==
  /\ \A j \in 1 .. Len(<<"CLOSED", "OK">>) :
       /\ <<"CLOSED", "OK">>[j] \in {"OK", "CLOSED", "ERROR"}
       /\ <<"CLOSED", "OK">>[j] = "OK" => j = 2
  /\ \A j \in 1 .. Len(<<"ERROR">>) : <<"ERROR">>[j] = "ERROR"
  /\ \A j \in 1 .. Len(<<"OK", ">">>) :
       /\ <<"OK", ">">>[j] \in {"OK", ">"}
       /\ <<"OK", ">">>[j] = ">" => j = 2
  /\ \A j \in 1 .. Len(<<"SEND OK", "page", "CLOSED">>) :
       <<"SEND OK", "page", "CLOSED">>[j] = "CLOSED" => j = 3
<1>1. /\ Len(<<"CLOSED", "OK">>) = 2 /\ Len(<<"ERROR">>) = 1 /\ Len(<<"OK", ">">>) = 2
      /\ Len(<<"SEND OK", "page", "CLOSED">>) = 3
  OBVIOUS
<1>2. (\A j \in 1 .. 1 : j = 1) /\ (\A j \in 1 .. 2 : j = 1 \/ j = 2)
      /\ (\A j \in 1 .. 3 : j = 1 \/ j = 2 \/ j = 3)
  OBVIOUS
<1>3. \A j \in 1 .. 2 :
       /\ <<"CLOSED", "OK">>[j] \in {"OK", "CLOSED", "ERROR"}
       /\ <<"CLOSED", "OK">>[j] = "OK" => j = 2
  BY <1>2
<1>4. \A j \in 1 .. 1 : <<"ERROR">>[j] = "ERROR"
  BY <1>2
<1>5. \A j \in 1 .. 2 :
       /\ <<"OK", ">">>[j] \in {"OK", ">"}
       /\ <<"OK", ">">>[j] = ">" => j = 2
  BY <1>2
<1>6. \A j \in 1 .. 3 : <<"SEND OK", "page", "CLOSED">>[j] = "CLOSED" => j = 3
  <2>1. <<"SEND OK", "page", "CLOSED">>[1] # "CLOSED"
    OBVIOUS
  <2>2. <<"SEND OK", "page", "CLOSED">>[2] # "CLOSED"
    OBVIOUS
  <2> QED
    BY <1>2, <2>1, <2>2
<1> QED
  BY <1>1, <1>3, <1>4, <1>5, <1>6

\* A calm modem takes every line.
LEMMA CalmAsk ==
  ASSUME InStep, todo = <<>>, NEW line, NEW next, Ask(line, next)
  PROVE  /\ todo' = <<line>> /\ pc' = next /\ ~full'
         /\ UNCHANGED <<out, joined, link, data, calm>>
<1>1. /\ Write(line) /\ calm /\ pc' = next /\ full' = FALSE
      /\ UNCHANGED <<out, joined, link, data, calm>>
  BY DEF Ask, Goto, InStep
<1>2. todo' = Append(<<>>, line)
  BY <1>1 DEF Write
<1> QED
  BY <1>1, <1>2, One

\* The program goes on to write, and to begin a turn.
LEMMA StepWrites ==
  ASSUME TypeInv, InStep, Sense \/ Close \/ Start \/ Prompt \/ Payload \/ Done
  PROVE  InStep'
<1>1. CASE Sense
  BY <1>1 DEF Sense, Goto, InStep, AtRest, Turn
<1>2. CASE Close
  <2>1. /\ todo' = <<"CIPCLOSE">> /\ rx' = <<>> /\ out' = <<>> /\ data' = 0
        /\ pc' = "closing" /\ calm' /\ joined'
    BY <1>2, CalmAsk DEF Close, send_at_command, flush_uart_input, InStep, AtRest
  <2> QED
    BY <2>1 DEF InStep, Closing, Turn
<1>3. CASE Start
  <2>1. /\ todo' = <<"CIPSTART">> /\ rx' = <<>> /\ out' = <<>> /\ data' = 0 /\ ~link'
        /\ pc' = "starting" /\ calm' /\ joined' /\ ~full'
    BY <1>3, CalmAsk DEF Start, KeepUart, InStep, AtRest
  <2> QED
    BY <2>1 DEF InStep, Starting, Turn
<1>4. CASE Prompt
  <2>1. /\ todo' = <<"CIPSEND">> /\ rx' = <<>> /\ out' = out /\ data' = 0 /\ link'
        /\ pc' = "prompting" /\ calm' /\ joined' /\ Only(out, {"OK"})
    BY <1>4, CalmAsk DEF Prompt, send_at_command, flush_uart_input, InStep
  <2>2. Only(rx', {"OK"}) /\ Only(out', {"OK"})
    BY <2>1, OnlyNone
  <2>3. Prompting'
    BY <2>1, <2>2 DEF Prompting
  <2> QED
    BY <2>1, <2>3 DEF InStep, Turn
<1>5. CASE Payload
  <2>1. /\ todo' = <<command>> /\ rx' = rx /\ out' = <<>> /\ data' = Swallowed /\ link'
        /\ pc' = "sending" /\ calm' /\ joined' /\ Only(rx, {"OK", ">"})
        /\ command' = command
    BY <1>5, CalmAsk DEF Payload, KeepUart, InStep
  <2>2. Handing'
    BY <2>1 DEF Handing, Only, Swallowed
  <2> QED
    BY <2>1, <2>2 DEF InStep, Turn
<1>6. CASE Done
  BY <1>6 DEF Done, Goto, modem, InStep, Arrived, AtRest, Turn
<1> QED
  BY <1>1, <1>2, <1>3, <1>4, <1>5, <1>6

\* The modem carries out the one line it holds.
LEMMA StepExecutes ==
  ASSUME TypeInv, InStep, Execute, Others
  PROVE  InStep'
<1>1. /\ todo # <<>> /\ out = <<>> /\ todo' = Tail(todo) /\ rx' = rx /\ calm' = calm
      /\ UNCHANGED <<pc, command, full>> /\ calm /\ joined
  BY DEF Execute, Others, program, InStep
<1>2. CASE pc = "closing"
  <2>1. todo = <<"CIPCLOSE">> /\ rx = <<>> /\ data = 0
    BY <1>1, <1>2 DEF InStep, Closing
  <2>2. Head(todo) = "CIPCLOSE" /\ todo' = <<>>
    BY <1>1, <2>1, One
  <2>3. CloseLink
    BY <2>1, <2>2, TokensDiffer DEF Execute, ATCommand
  <2>4. /\ ~link' /\ joined' /\ data' = 0
        /\ out' = <<"CLOSED", "OK">> \/ out' = <<"ERROR">>
    BY <1>1, <2>1, <2>3 DEF CloseLink, Answer
  <2>5. Only(rx', {"OK", "CLOSED", "ERROR"}) /\ \A j \in 1 .. Len(rx') : FALSE
    BY <1>1, <2>1, OnlyNone DEF Only
  <2>6. /\ Only(out', {"OK", "CLOSED", "ERROR"})
        /\ \A j \in 1 .. Len(out') : out'[j] = "OK" => j = Len(out')
    <3>1. CASE out' = <<"CLOSED", "OK">>
      <4>1. Len(out') = 2
        BY <3>1
      <4> QED
        BY <3>1, <4>1, AnswersEnd DEF Only
    <3>2. CASE out' = <<"ERROR">>
      BY <3>2, AnswersEnd DEF Only
    <3> QED
      BY <2>4, <3>1, <3>2
  <2>7. Closing'
    BY <2>2, <2>4, <2>5, <2>6 DEF Closing, Ends
  <2> QED
    BY <1>1, <1>2, <2>4, <2>7 DEF InStep
<1>3. CASE pc = "starting"
  <2>1. todo = <<"CIPSTART">> /\ rx = <<>> /\ data = 0 /\ ~link /\ ~full
    BY <1>1, <1>3 DEF InStep, Starting
  <2>2. Head(todo) = "CIPSTART" /\ todo' = <<>>
    BY <1>1, <2>1, One
  <2>3. OpenLink
    BY <2>1, <2>2, TokensDiffer DEF Execute, ATCommand
  <2>4. link' /\ joined' /\ data' = 0 /\ out' = <<"CONNECT", "OK">>
    BY <1>1, <2>1, <2>3 DEF OpenLink, Answer
  <2> QED
    BY <1>1, <1>3, <2>1, <2>2, <2>4 DEF InStep, Starting
<1>4. CASE pc = "prompting"
  <2>1. todo = <<"CIPSEND">> /\ data = 0 /\ link /\ Only(rx, {"OK"})
    BY <1>1, <1>4 DEF InStep, Prompting
  <2>2. Head(todo) = "CIPSEND" /\ todo' = <<>>
    BY <1>1, <2>1, One
  <2>3. Prepare
    BY <2>1, <2>2, TokensDiffer DEF Execute, ATCommand
  <2>4. link' /\ joined' /\ data' = Swallowed /\ out' = <<"OK", ">">>
    BY <1>1, <2>1, <2>3 DEF Prepare, Answer
  <2>5. Only(rx', {"OK", ">"}) /\ \A j \in 1 .. Len(rx') : rx'[j] # ">"
    BY <1>1, <2>1 DEF Only
  <2>6. Len(out') = 2
    BY <2>4
  <2>7. /\ Only(out', {"OK", ">"})
        /\ \A j \in 1 .. Len(out') : out'[j] = ">" => j = Len(out')
    BY <2>4, <2>6, AnswersEnd DEF Only
  <2>8. Prompting'
    BY <2>2, <2>4, <2>5, <2>7 DEF Prompting, Ends, Swallowed
  <2> QED
    BY <1>1, <1>4, <2>4, <2>8 DEF InStep
<1>5. CASE pc = "sending"
  <2>1. todo = <<command>> /\ data = Swallowed /\ link /\ Only(rx, {"OK", ">"})
    BY <1>1, <1>5 DEF InStep, Handing, Arrived
  <2>2. Head(todo) = command /\ todo' = <<>>
    BY <1>1, <2>1, One
  <2>3. command \in CarCommand /\ command \notin ATCommand
    BY <1>5, TokensDiffer DEF TypeInv, Turn
  <2>4. Deliver(command)
    BY <2>1, <2>2, <2>3, TokensDiffer DEF Execute
  <2>5. /\ joined' /\ data' = 0 /\ arrived' = command
        /\ out' = <<"SEND OK", "page", "CLOSED">>
    BY <1>1, <2>1, <2>4 DEF Deliver, Answer
  <2>6. \A j \in 1 .. Len(rx') : rx'[j] # "CLOSED"
    BY <1>1, <2>1 DEF Only
  <2>7. Len(out') = 3
    BY <2>5
  <2>8. \A j \in 1 .. Len(out') : out'[j] = "CLOSED" => j = Len(out')
    BY <2>5, <2>7, AnswersEnd
  <2>9. Handing'
    BY <1>1, <2>2, <2>5, <2>6, <2>8 DEF Handing, Arrived, Ends
  <2> QED
    BY <1>1, <1>5, <2>5, <2>9 DEF InStep
<1>6. CASE pc \in {"sense", "close", "start", "prompt", "payload", "ending", "done"}
  BY <1>1, <1>6 DEF InStep, AtRest, Arrived
<1> QED
  BY <1>2, <1>3, <1>4, <1>5, <1>6 DEF InStep, Turn

\* A response gets to the UART.
LEMMA StepEmits ==
  ASSUME TypeInv, InStep, Emit, Others
  PROVE  InStep'
<1>1. /\ rx \in Seq(Response) /\ out \in Seq(Response) /\ out # <<>> /\ out' = Tail(out)
      /\ UNCHANGED <<todo, joined, link, data, calm, arrived, pc, command, full>>
      /\ calm /\ joined
  BY DEF TypeInv, TypeOK, Emit, Others, program, InStep
<1>2. /\ \A token : Ends(token) => Ends(token)'
      /\ \A tokens : Only(out, tokens) => Only(out', tokens)
      /\ \A tokens : Only(rx, tokens) /\ Only(out, tokens) => Only(rx', tokens)
  BY <1>1, Emitted
<1>3. CASE pc = "closing"
  <2>1. Closing'
    BY <1>1, <1>2, <1>3 DEF InStep, Closing
  <2> QED
    BY <1>1, <1>3, <2>1 DEF InStep
<1>4. CASE pc = "starting"
  <2>1. CASE rx = <<>> /\ out = <<"CONNECT", "OK">>
    <3>1. Head(out) = "CONNECT" /\ out' = <<"OK">> /\ Len(rx) = 0
      BY <1>1, <2>1
    <3>2. rx' = Append(<<>>, "CONNECT")
      BY <1>1, <2>1, <3>1, RxLimitAssumption DEF Emit
    <3>3. rx' # <<>> /\ rx'[1] = "CONNECT"
      BY <3>2, One
    <3>4. Only(out', {"OK"})
      BY <3>1 DEF Only
    <3>5. Starting'
      BY <1>1, <1>4, <2>1, <3>3, <3>4 DEF InStep, Starting
    <3> QED
      BY <1>1, <1>4, <3>5 DEF InStep
  <2>2. CASE rx # <<>> /\ rx[1] = "CONNECT" /\ Only(out, {"OK"}) /\ todo = <<>> /\ link
    <3>1. rx' # <<>> /\ rx'[1] = "CONNECT"
      <4>1. CASE rx' = rx
        BY <2>2, <4>1
      <4>2. CASE rx' = Append(rx, Head(out))
        <5>1. Head(out) \in Response /\ 1 \in 1 .. Len(rx)
          BY <1>1, <2>2, TailIs
        <5> QED
          BY <1>1, <2>2, <4>2, <5>1, AppendProperties
      <4> QED
        BY <1>1, <4>1, <4>2 DEF Emit
    <3>2. Starting'
      BY <1>1, <1>2, <1>4, <2>2, <3>1 DEF InStep, Starting
    <3> QED
      BY <1>1, <1>4, <3>2 DEF InStep
  <2> QED
    BY <1>1, <1>4, <2>1, <2>2 DEF InStep, Starting
<1>5. CASE pc = "prompt"
  BY <1>1, <1>2, <1>5 DEF InStep
<1>6. CASE pc = "prompting"
  <2>1. Prompting'
    BY <1>1, <1>2, <1>6 DEF InStep, Prompting
  <2> QED
    BY <1>1, <1>6, <2>1 DEF InStep
<1>7. CASE pc = "sending"
  <2>1. Handing'
    BY <1>1, <1>2, <1>7 DEF InStep, Handing, Arrived
  <2> QED
    BY <1>1, <1>7, <2>1 DEF InStep
<1>8. CASE pc = "ending"
  BY <1>1, <1>2, <1>8 DEF InStep, Arrived
<1>9. CASE pc \in {"sense", "close", "start", "payload", "done"}
  BY <1>1, <1>9 DEF InStep, AtRest
<1> QED
  BY <1>3, <1>4, <1>5, <1>6, <1>7, <1>8, <1>9 DEF InStep, Turn

\* Which responses end which waits.
LEMMA EndOfWait ==
  ASSUME NEW response
  PROVE  /\ Contains(response, "OK") => response \in {"OK", "SEND OK", "page"}
         /\ Contains(response, ">") => response \in {">", "page"}
         /\ Contains(response, "CLOSED") => response = "CLOSED"
         /\ Contains(response, "SEND OK") => response = "SEND OK"
         /\ Contains("CONNECT", "CONNECT")
         /\ Contains(response, "CONNECT") =>
               response \in {"CONNECT", "ALREADY CONNECTED", "WIFI CONNECTED", "WIFI DISCONNECT"}
BY DEF Contains, Within

\* A wait of a turn is over, with nothing left to answer: it has found what it
\* waits for, or the calm modem had nothing more to say.
LEMMA StepWaits ==
  ASSUME TypeInv, InStep, NEW found \in BOOLEAN, pc \in Waiting, AfterWait(found),
         UNCHANGED <<modem, calm, command>>, Only(rx, {"OK", ">"}) => Only(rx', {"OK", ">"}),
         pc \in {"closing", "prompting", "ending"} => todo = <<>> /\ out = <<>>,
         pc = "closing" => rx' = <<>>,
         pc = "starting" => found /\ todo = <<>> /\ Only(out, {"OK"}) /\ link,
         pc = "sending" => todo = <<>> /\ Ends("CLOSED")'
  PROVE  InStep'
<1>1. /\ UNCHANGED <<todo, out, joined, link, data, arrived, calm, command>>
      /\ calm /\ joined /\ pc \in {"closing", "starting", "prompting", "sending", "ending"}
  BY DEF modem, InStep, Turn, Waiting, Expected
<1>2. /\ pc = "closing" => pc' = "start"
      /\ pc = "starting" => pc' = IF found THEN "prompt" ELSE "done"
      /\ pc = "prompting" => pc' = "payload"
      /\ pc = "sending" => pc' = "ending"
      /\ pc = "ending" => pc' = "done"
  BY <1>1 DEF AfterWait, AfterRequest, Goto
<1>3. CASE pc = "closing"
  <2>1. data = 0 /\ ~link
    BY <1>1, <1>3, One DEF InStep, Closing
  <2> QED
    BY <1>1, <1>2, <1>3, <2>1 DEF InStep, AtRest, Turn
<1>4. CASE pc = "starting"
  <2>1. data = 0
    BY <1>4 DEF InStep, Starting
  <2> QED
    BY <1>1, <1>2, <1>4, <2>1 DEF InStep, Turn
<1>5. CASE pc = "prompting"
  <2>1. data = Swallowed /\ link /\ Only(rx, {"OK", ">"})
    BY <1>1, <1>5, One DEF InStep, Prompting
  <2> QED
    BY <1>1, <1>2, <1>5, <2>1 DEF InStep, Turn, Swallowed
<1>6. CASE pc = "sending"
  <2>1. Arrived
    BY <1>6, One DEF InStep, Handing
  <2> QED
    BY <1>1, <1>2, <1>6, <2>1 DEF InStep, Arrived, Turn
<1>7. CASE pc = "ending"
  BY <1>1, <1>2, <1>7 DEF InStep, Arrived, Turn
<1> QED
  BY <1>1, <1>3, <1>4, <1>5, <1>6, <1>7

\* A response is read: the last the wait looks for, or another.
LEMMA StepReceives ==
  ASSUME TypeInv, InStep, Receive
  PROVE  InStep'
<1>1. /\ rx \in Seq(Response) /\ rx # <<>> /\ rx' = Tail(rx) /\ pc \in Waiting
      /\ UNCHANGED <<todo, out, joined, link, data, arrived, calm, command>>
      /\ UNCHANGED <<modem, calm, command>>
      /\ calm /\ joined
  BY DEF TypeInv, TypeOK, Receive, modem, InStep
<1>2. /\ \A token : Ends(token) => Ends(token)'
      /\ \A token : Ends(token) /\ Head(rx) = token => rx' = <<>> /\ out = <<>>
      /\ \A tokens : Only(rx, tokens) => Only(rx', tokens) /\ Head(rx) \in tokens
  BY <1>1, Received
<1>3. Head(rx) = rx[1]
  BY <1>1, TailIs
<1>4. pc \in {"closing", "starting", "prompting", "sending", "ending"}
  BY <1>1 DEF InStep, Turn, Waiting, Expected
<1>5. CASE ~full /\ Contains(Head(rx), Expected[pc]) /\ AfterWait(TRUE)
  <2>1. CASE pc = "closing"
    <3>1. Contains(Head(rx), "OK")
      BY <1>5, <2>1 DEF Expected
    <3>2. todo = <<>> /\ Ends("OK") /\ Only(rx, {"OK", "CLOSED", "ERROR"})
      BY <1>1, <2>1 DEF InStep, Closing
    <3>3. Head(rx) = "OK"
      BY <1>2, <3>1, <3>2, EndOfWait
    <3>4. rx' = <<>> /\ out = <<>>
      BY <1>2, <3>2, <3>3
    <3> QED
      BY <1>1, <1>2, <1>5, <2>1, <3>2, <3>4, StepWaits
  <2>2. CASE pc = "starting"
    <3>1. todo = <<>> /\ Only(out, {"OK"}) /\ link
      BY <1>1, <2>2 DEF InStep, Starting
    <3> QED
      BY <1>1, <1>2, <1>5, <2>2, <3>1, StepWaits
  <2>3. CASE pc = "prompting"
    <3>1. Contains(Head(rx), ">")
      BY <1>5, <2>3 DEF Expected
    <3>2. Head(rx) = ">"
      <4>1. Only(rx, {"OK", ">"})
        BY <2>3 DEF InStep, Prompting, Only
      <4> QED
        BY <1>2, <3>1, <4>1, EndOfWait
    <3>3. todo = <<>> /\ Ends(">")
      <4>1. ~Only(rx, {"OK"})
        BY <1>2, <3>2
      <4> QED
        BY <2>3, <4>1 DEF InStep, Prompting
    <3>4. out = <<>>
      BY <1>2, <3>2, <3>3
    <3> QED
      BY <1>1, <1>2, <1>5, <2>3, <3>3, <3>4, StepWaits
  <2>4. CASE pc = "sending"
    <3>1. Contains(Head(rx), "SEND OK")
      BY <1>5, <2>4 DEF Expected
    <3>2. Head(rx) = "SEND OK"
      BY <3>1, EndOfWait
    <3>3. todo = <<>> /\ Ends("CLOSED")
      <4>1. ~Only(rx, {"OK", ">"})
        BY <1>2, <3>2
      <4> QED
        BY <2>4, <4>1 DEF InStep, Handing, Arrived
    <3> QED
      BY <1>1, <1>2, <1>5, <2>4, <3>3, StepWaits
  <2>5. CASE pc = "ending"
    <3>1. Contains(Head(rx), "CLOSED")
      BY <1>5, <2>5 DEF Expected
    <3>2. todo = <<>> /\ Ends("CLOSED") /\ Head(rx) = "CLOSED"
      BY <2>5, <3>1, EndOfWait DEF InStep, Arrived
    <3>3. out = <<>>
      BY <1>2, <3>2
    <3> QED
      BY <1>1, <1>2, <1>5, <2>5, <3>2, <3>3, StepWaits
  <2> QED
    BY <1>4, <2>1, <2>2, <2>3, <2>4, <2>5
<1>6. CASE pc' = pc /\ ~(~full /\ Contains(Head(rx), Expected[pc]))
  <2>1. CASE pc = "closing"
    <3>1. Closing'
      BY <1>1, <1>2, <2>1 DEF InStep, Closing
    <3> QED
      BY <1>1, <1>6, <2>1, <3>1 DEF InStep
  <2>2. CASE pc = "starting"
    <3>1. ~full /\ rx[1] = "CONNECT"
      BY <1>1, <2>2 DEF InStep, Starting
    <3>2. Contains(Head(rx), Expected[pc])
      BY <1>3, <2>2, <3>1, EndOfWait DEF Expected
    <3> QED
      BY <1>6, <3>1, <3>2
  <2>3. CASE pc = "prompting"
    <3>1. Prompting'
      BY <1>1, <1>2, <2>3 DEF InStep, Prompting
    <3> QED
      BY <1>1, <1>6, <2>3, <3>1 DEF InStep
  <2>4. CASE pc = "sending"
    <3>1. Handing'
      BY <1>1, <1>2, <2>4 DEF InStep, Handing, Arrived
    <3> QED
      BY <1>1, <1>6, <2>4, <3>1 DEF InStep
  <2>5. CASE pc = "ending"
    BY <1>1, <1>2, <1>6, <2>5 DEF InStep, Arrived
  <2> QED
    BY <1>4, <2>1, <2>2, <2>3, <2>4, <2>5
<1> QED
  BY <1>5, <1>6 DEF Receive

\* A wait is given up: the calm modem has nothing more to say, and the wait for
\* a connection is not given up at all.
LEMMA StepGivesUp ==
  ASSUME TypeInv, InStep, Timeout
  PROVE  InStep'
<1>1. /\ rx = <<>> /\ todo = <<>> /\ out = <<>> /\ rx' = rx /\ AfterWait(FALSE)
      /\ UNCHANGED <<modem, calm, command>> /\ pc \in Waiting
  BY DEF Timeout, InStep
<1>2. pc # "starting"
  <2>1. <<"CONNECT", "OK">> # <<>>
    OBVIOUS
  <2> QED
    BY <1>1, <2>1, One DEF InStep, Starting
<1>3. pc = "sending" => Ends("CLOSED")'
  <2> SUFFICES ASSUME pc = "sending" PROVE Ends("CLOSED")'
    OBVIOUS
  <2>1. Ends("CLOSED")
    BY <1>1, One DEF InStep, Handing
  <2> QED
    BY <1>1, <2>1 DEF Ends, modem
<1> QED
  BY <1>1, <1>2, <1>3, StepWaits

\* Nothing gets them out of step.
LEMMA StepStays == TypeInv /\ InStep /\ [Next]_vars => InStep'
<1> SUFFICES ASSUME TypeInv, InStep, [Next]_vars PROVE InStep'
  OBVIOUS
<1>1. calm /\ pc \notin {"reset", "test", "join", "joining"}
  BY DEF InStep, Turn
<1>2. CASE Sense \/ Close \/ Start \/ Prompt \/ Payload \/ Done
  BY <1>2, StepWrites
<1>3. CASE Receive
  BY <1>3, StepReceives
<1>4. CASE Timeout
  BY <1>4, StepGivesUp
<1>5. CASE Execute /\ Others
  BY <1>5, StepExecutes
<1>6. CASE Emit /\ Others
  BY <1>6, StepEmits
<1>7. CASE UNCHANGED vars
  <2>1. UNCHANGED <<rx, todo, out, joined, link, data, arrived, calm, pc, command, full>>
    BY <1>7 DEF vars, program, modem
  <2> QED
    BY <2>1 DEF InStep, AtRest, Closing, Starting, Prompting, Handing, Arrived, Ends, Only
<1> QED
  BY <1>1, <1>2, <1>3, <1>4, <1>5, <1>6, <1>7
  DEF Next, Program, Step, ModemStep, Reset, Test, JoinNetwork, Second, Notice, Settle

\* From the first turn that begins with a calm modem that is ready, every
\* command reaches the car in its turn.
THEOREM InStepForever == Spec => StaysInStep
<1>1. pc = "sense" /\ Ready => InStep
  BY DEF Ready, InStep, AtRest
<1>2. InStep => (pc = "done" => arrived = command)
  BY DEF InStep, Arrived
<1> QED
  BY <1>1, <1>2, TypeInit, TypeStep, StepStays, PTL DEF Spec, StaysInStep

=============================================================================

------------------------- MODULE GlassesPostProofs -------------------------
(***************************************************************************)
(* The proof that the Wi-Fi code of the glasses implements Post, for every *)
(* set of commands, every number of retries and every size of the buffers. *)
(***************************************************************************)
EXTENDS GlassesProofs, WellFoundedInduction

-----------------------------------------------------------------------------
(***************************************************************************)
(* The requests among a sequence of lines.                                 *)
(***************************************************************************)
\* A set of numbers with 0, and with the successor of each of its own, is Nat.
LEMMA Induction ==
  ASSUME NEW S, 0 \in S, \A n \in Nat : n \in S => n + 1 \in S
  PROVE  Nat \subseteq S
<1> SUFFICES ASSUME Nat \ S # {} PROVE FALSE
  OBVIOUS
<1> DEFINE Less == OpToRel(<, Nat)
<1>1. IsWellFoundedOn(Less, Nat)
  BY NatLessThanWellFounded
<1>2. PICK n \in Nat \ S : \A m \in Nat \ S : ~ (<<m, n>> \in Less)
  <2> HIDE DEF Less
  <2> QED BY <1>1, WFMin
<1>3. \A m \in Nat \ S : ~ (m < n)
  BY <1>2 DEF Less, OpToRel
<1> HIDE DEF Less
<1>4. n # 0 /\ n - 1 \in Nat /\ n - 1 < n /\ n = (n - 1) + 1
  BY <1>2
<1>5. n - 1 \in S
  BY <1>3, <1>4
<1> QED BY <1>2, <1>4, <1>5

\* The requests among the first n lines, from those among the first n - 1.
NextAmong(f, s, n) ==
  IF n = 0 THEN <<>>
  ELSE IF s[n] \in CarCommand THEN Append(f[n - 1], s[n])
  ELSE f[n - 1]

\* f[n] holds the requests among the first n lines of s, for n up to m.
Filters(f, s, m) == f = [n \in 0 .. m |-> NextAmong(f, s, n)]

\* There is such a function.
LEMMA FilterExists ==
  ASSUME NEW s
  PROVE  \A m \in Nat : \E f : Filters(f, s, m)
<1> DEFINE Defined == {m \in Nat : \E f : Filters(f, s, m)}
<1>1. 0 \in Defined
  <2>1. Filters([n \in 0 .. 0 |-> <<>>], s, 0)
    BY DEF Filters, NextAmong
  <2> QED BY <2>1
<1>2. ASSUME NEW m \in Nat, m \in Defined PROVE m + 1 \in Defined
  <2>1. PICK f : Filters(f, s, m)
    BY <1>2
  <2> DEFINE g == [n \in 0 .. m + 1 |-> IF n = m + 1 THEN NextAmong(f, s, n) ELSE f[n]]
  <2>2. \A n \in 0 .. m : f[n] = NextAmong(f, s, n) /\ (n # 0 => n - 1 \in 0 .. m)
    BY <2>1 DEF Filters
  <2>3. /\ \A n \in 0 .. m : g[n] = f[n]
        /\ g[m + 1] = NextAmong(f, s, m + 1)
        /\ g = [n \in 0 .. m + 1 |-> g[n]]
    OBVIOUS
  <2> HIDE DEF g
  <2>4. ASSUME NEW n \in 0 .. m + 1 PROVE g[n] = NextAmong(g, s, n)
    <3>1. CASE n = m + 1
      <4>1. n # 0 /\ n - 1 = m /\ m \in 0 .. m
        BY <3>1
      <4> QED BY <2>3, <3>1, <4>1 DEF NextAmong
    <3>2. CASE n \in 0 .. m
      BY <2>2, <2>3, <3>2 DEF NextAmong
    <3> QED BY <3>1, <3>2
  <2>5. Filters(g, s, m + 1)
    BY <2>3, <2>4 DEF Filters
  <2> QED BY <2>5
<1> HIDE DEF Defined
<1>3. Nat \subseteq Defined
  BY <1>1, <1>2, Induction
<1> QED BY <1>3 DEF Defined

\* Requests is the last value of one.
LEMMA RequestsAre ==
  ASSUME NEW s, Len(s) \in Nat
  PROVE  \E f : Filters(f, s, Len(s)) /\ Requests(s) = f[Len(s)]
<1>1. \E f : Filters(f, s, Len(s))
  BY FilterExists
<1>2. Requests(s) = (CHOOSE f : Filters(f, s, Len(s)))[Len(s)]
  BY DEF Requests, Filters, NextAmong
<1> QED BY <1>1, <1>2

\* Its values one after the other.
LEMMA FilterSteps ==
  ASSUME NEW s, NEW m \in Nat, NEW f, Filters(f, s, m)
  PROVE  /\ f[0] = <<>>
         /\ \A n \in Nat : n < m =>
              f[n + 1] = IF s[n + 1] \in CarCommand THEN Append(f[n], s[n + 1]) ELSE f[n]
<1>1. \A n \in 0 .. m : f[n] = NextAmong(f, s, n)
  BY DEF Filters
<1>2. f[0] = <<>>
  BY <1>1 DEF NextAmong
<1>3. ASSUME NEW n \in Nat, n < m
      PROVE  f[n + 1] = IF s[n + 1] \in CarCommand THEN Append(f[n], s[n + 1]) ELSE f[n]
  <2>1. n + 1 \in 0 .. m /\ n + 1 # 0 /\ (n + 1) - 1 = n
    BY <1>3
  <2> QED BY <1>1, <2>1 DEF NextAmong
<1> QED BY <1>2, <1>3

\* All of its values are sequences of requests.
LEMMA FilterType ==
  ASSUME NEW s, NEW m \in Nat, NEW f, Filters(f, s, m)
  PROVE  \A n \in 0 .. m : f[n] \in Seq(CarCommand)
<1> DEFINE Typed == {n \in Nat : n <= m => f[n] \in Seq(CarCommand)}
<1>1. 0 \in Typed
  <2>1. f[0] = <<>> /\ <<>> \in Seq(CarCommand)
    BY FilterSteps, EmptySeq
  <2> QED BY <2>1
<1>2. ASSUME NEW n \in Nat, n \in Typed PROVE n + 1 \in Typed
  <2> SUFFICES ASSUME n + 1 <= m PROVE f[n + 1] \in Seq(CarCommand)
    OBVIOUS
  <2>1. f[n] \in Seq(CarCommand) /\ n < m
    BY <1>2
  <2>2. f[n + 1] = IF s[n + 1] \in CarCommand THEN Append(f[n], s[n + 1]) ELSE f[n]
    BY <2>1, FilterSteps
  <2> QED BY <2>1, <2>2, AppendProperties
<1> HIDE DEF Typed
<1>3. Nat \subseteq Typed
  BY <1>1, <1>2, Induction
<1> QED BY <1>3 DEF Typed

\* Of two sequences that begin with the same lines, the same are requests.
LEMMA FilterAgrees ==
  ASSUME NEW s, NEW t, NEW k \in Nat, NEW m \in Nat, k <= m,
         \A j \in 1 .. k : s[j] = t[j],
         NEW f, Filters(f, s, k), NEW g, Filters(g, t, m)
  PROVE  f[k] = g[k]
<1> DEFINE Same == {n \in Nat : n <= k => f[n] = g[n]}
<1>1. 0 \in Same
  BY FilterSteps
<1>2. ASSUME NEW n \in Nat, n \in Same PROVE n + 1 \in Same
  <2> SUFFICES ASSUME n + 1 <= k PROVE f[n + 1] = g[n + 1]
    OBVIOUS
  <2>1. f[n] = g[n] /\ n < k /\ n < m /\ n + 1 \in 1 .. k
    BY <1>2
  <2> QED BY <2>1, FilterSteps
<1> HIDE DEF Same
<1>3. Nat \subseteq Same
  BY <1>1, <1>2, Induction
<1> QED BY <1>3 DEF Same

\* A modem with nothing to do has no request.
LEMMA RequestsOfNone == Requests(<<>>) = <<>>
<1> DEFINE none == <<>>
<1>1. Len(none) = 0
  OBVIOUS
<1> HIDE DEF none
<1>2. PICK f : Filters(f, none, 0) /\ Requests(none) = f[0]
  BY <1>1, RequestsAre
<1>3. f[0] = <<>>
  BY <1>2, FilterSteps
<1> QED BY <1>2, <1>3 DEF none

\* The requests are requests.
LEMMA RequestsType ==
  ASSUME NEW S, NEW s \in Seq(S)
  PROVE  Requests(s) \in Seq(CarCommand)
<1>1. Len(s) \in Nat /\ Len(s) \in 0 .. Len(s)
  BY LenProperties
<1> QED BY <1>1, RequestsAre, FilterType

\* A line that is added.
LEMMA RequestsOfAppend ==
  ASSUME NEW S, NEW s \in Seq(S), NEW line \in S
  PROVE  Requests(Append(s, line)) =
           IF line \in CarCommand THEN Append(Requests(s), line) ELSE Requests(s)
<1> DEFINE t == Append(s, line)
           k == Len(s)
<1>1. /\ k \in Nat /\ Len(t) = k + 1 /\ k + 1 \in Nat /\ t[k + 1] = line
      /\ \A j \in 1 .. k : s[j] = t[j]
  BY AppendProperties, LenProperties
<1> HIDE DEF t, k
<1>2. PICK f : Filters(f, s, k) /\ Requests(s) = f[k]
  BY <1>1, RequestsAre DEF k
<1>3. PICK g : Filters(g, t, k + 1) /\ Requests(t) = g[k + 1]
  BY <1>1, RequestsAre
<1>4. f[k] = g[k]
  BY <1>1, <1>2, <1>3, FilterAgrees
<1>5. g[k + 1] = IF t[k + 1] \in CarCommand THEN Append(g[k], t[k + 1]) ELSE g[k]
  BY <1>1, <1>3, FilterSteps
<1> QED BY <1>1, <1>2, <1>3, <1>4, <1>5 DEF t

\* What is added to a sequence leaves its head.
LEMMA AppendBehind ==
  ASSUME NEW S, NEW q \in Seq(S), NEW e \in S
  PROVE  /\ Append(q, e) # <<>>
         /\ q = <<>> => Head(Append(q, e)) = e /\ Tail(Append(q, e)) = <<>>
         /\ q # <<>> => /\ Head(Append(q, e)) = Head(q)
                       /\ Tail(Append(q, e)) = Append(Tail(q), e)
<1>1. Append(q, e) # <<>>
  BY AppendProperties
<1>2. /\ Head(Append(q, e)) = IF q = <<>> THEN e ELSE Head(q)
      /\ Tail(Append(q, e)) = IF q = <<>> THEN <<>> ELSE Append(Tail(q), e)
  BY HeadTailAppend
<1> QED BY <1>1, <1>2

\* The first line taken away, a request or not.
LEMMA RequestsOfTail ==
  ASSUME NEW S, NEW s \in Seq(S), s # <<>>
  PROVE  IF Head(s) \in CarCommand
           THEN /\ Requests(s) # <<>>
                /\ Head(Requests(s)) = Head(s)
                /\ Requests(Tail(s)) = Tail(Requests(s))
           ELSE Requests(Tail(s)) = Requests(s)
<1> DEFINE t == Tail(s)
           k == Len(t)
           head == Head(s)
<1>1. /\ k \in Nat /\ Len(s) = k + 1 /\ k + 1 \in Nat /\ s[1] = head
      /\ \A j \in 1 .. k : t[j] = s[j + 1]
  BY TailIs, LenProperties
<1> HIDE DEF t, k, head
<1>2. PICK f : Filters(f, s, k + 1) /\ Requests(s) = f[k + 1]
  BY <1>1, RequestsAre
<1>3. PICK g : Filters(g, t, k) /\ Requests(t) = g[k]
  BY <1>1, RequestsAre DEF k
<1>4. /\ \A n \in 0 .. k + 1 : f[n] \in Seq(CarCommand)
      /\ f[0] = <<>> /\ g[0] = <<>>
  BY <1>1, <1>2, <1>3, FilterSteps, FilterType
<1>5. f[1] = IF head \in CarCommand THEN Append(f[0], head) ELSE f[0]
  <2>1. 0 < k + 1 /\ 0 \in Nat /\ 0 + 1 = 1
    BY <1>1
  <2> QED BY <1>1, <1>2, <2>1, FilterSteps
<1>6. ASSUME NEW n \in Nat, n < k
      PROVE  /\ f[n + 2] = IF t[n + 1] \in CarCommand THEN Append(f[n + 1], t[n + 1])
                                                       ELSE f[n + 1]
             /\ g[n + 1] = IF t[n + 1] \in CarCommand THEN Append(g[n], t[n + 1]) ELSE g[n]
  <2>1. /\ n + 1 \in Nat /\ n + 1 < k + 1 /\ (n + 1) + 1 = n + 2 /\ n + 1 \in 1 .. k
    BY <1>1, <1>6
  <2>2. t[n + 1] = s[n + 2]
    BY <1>1, <2>1
  <2> QED BY <1>1, <1>2, <1>3, <1>6, <2>1, <2>2, FilterSteps
<1>7. CASE head \in CarCommand
  <2> DEFINE Led == {n \in Nat : n <= k =>
                /\ f[n + 1] # <<>> /\ Head(f[n + 1]) = head /\ Tail(f[n + 1]) = g[n]}
  <2>1. 0 \in Led
    <3>1. f[0 + 1] = Append(<<>>, head) /\ <<>> \in Seq(CarCommand)
      BY <1>4, <1>5, <1>7
    <3> DEFINE none == <<>>
    <3>2. none \in Seq(CarCommand) /\ none = <<>>
      BY <3>1
    <3> HIDE DEF none
    <3>3. f[0 + 1] # <<>> /\ Head(f[0 + 1]) = head /\ Tail(f[0 + 1]) = <<>>
      BY <1>7, <3>1, <3>2, AppendBehind
    <3> QED BY <1>4, <3>3
  <2>2. ASSUME NEW n \in Nat, n \in Led PROVE n + 1 \in Led
    <3> SUFFICES ASSUME n + 1 <= k
                 PROVE  /\ f[n + 2] # <<>> /\ Head(f[n + 2]) = head
                        /\ Tail(f[n + 2]) = g[n + 1]
      BY (n + 1) + 1 = n + 2
    <3>1. /\ f[n + 1] # <<>> /\ Head(f[n + 1]) = head /\ Tail(f[n + 1]) = g[n]
          /\ n < k /\ n + 1 \in 0 .. k + 1
      BY <1>1, <2>2
    <3>2. f[n + 1] \in Seq(CarCommand)
      BY <1>4, <3>1
    <3>3. CASE t[n + 1] \in CarCommand
      <4>1. f[n + 2] = Append(f[n + 1], t[n + 1]) /\ g[n + 1] = Append(g[n], t[n + 1])
        BY <1>6, <3>1, <3>3
      <4>2. /\ f[n + 2] # <<>> /\ Head(f[n + 2]) = Head(f[n + 1])
            /\ Tail(f[n + 2]) = Append(Tail(f[n + 1]), t[n + 1])
        BY <3>1, <3>2, <3>3, <4>1, AppendBehind
      <4> QED BY <3>1, <4>1, <4>2
    <3>4. CASE t[n + 1] \notin CarCommand
      BY <1>6, <3>1, <3>4
    <3> QED BY <3>3, <3>4
  <2> HIDE DEF Led
  <2>3. Nat \subseteq Led
    BY <2>1, <2>2, Induction
  <2>4. f[k + 1] # <<>> /\ Head(f[k + 1]) = head /\ Tail(f[k + 1]) = g[k]
    BY <1>1, <2>3 DEF Led
  <2> QED BY <1>2, <1>3, <1>7, <2>4 DEF t, head
<1>8. CASE head \notin CarCommand
  <2> DEFINE Equal == {n \in Nat : n <= k => f[n + 1] = g[n]}
  <2>1. 0 \in Equal
    BY <1>4, <1>5, <1>8
  <2>2. ASSUME NEW n \in Nat, n \in Equal PROVE n + 1 \in Equal
    <3> SUFFICES ASSUME n + 1 <= k PROVE f[n + 2] = g[n + 1]
      BY (n + 1) + 1 = n + 2
    <3>1. f[n + 1] = g[n] /\ n < k
      BY <1>1, <2>2
    <3> QED BY <1>6, <3>1
  <2> HIDE DEF Equal
  <2>3. Nat \subseteq Equal
    BY <2>1, <2>2, Induction
  <2>4. f[k + 1] = g[k]
    BY <1>1, <2>3 DEF Equal
  <2> QED BY <1>2, <1>3, <1>8, <2>4 DEF t, head
<1> QED BY <1>7, <1>8

-----------------------------------------------------------------------------
(***************************************************************************)
(* The refinement.                                                         *)
(***************************************************************************)
\* The part of the program before its first turn, to which it never returns.
Connecting == {"reset", "test", "testing", "join", "joining"}

\* The part of a turn before its command is posted.
Open == {"close", "closing", "start", "starting", "prompt", "prompting", "payload"}

\* While the program connects, no request is on its way: when it resets the
\* modem, it loses none.
NoneYet == pc \in Connecting => Requests(todo) = <<>>

PostInv == TypeInv /\ NoneYet

\* The values of Post's variables before and after a step in which the code
\* posts nothing and the car gets nothing: a stutter, or the end of a turn.
LEMMA Silent ==
  ASSUME UNCHANGED <<command, arrived>>, Requests(todo') = Requests(todo),
         pc' \in Open => pc \in Open
  PROVE  [ToPost!Next]_ToPost!vars
<1>1. CASE pc \in Open /\ pc' \notin Open
  BY <1>1 DEF ToPost!Next, ToPost!GiveUp, Open
<1>2. CASE pc \in Open <=> pc' \in Open
  BY <1>2 DEF ToPost!vars, Open
<1> QED BY <1>1, <1>2

\* A line written is one more request, or none.
LEMMA WriteRequests ==
  ASSUME TypeInv, NEW line \in Line, Write(line)
  PROVE  \/ Requests(todo') = Requests(todo)
         \/ line \in CarCommand /\ Requests(todo') = Append(Requests(todo), line)
<1>1. todo \in Seq(Line)
  BY DEF TypeInv, TypeOK
<1> QED BY <1>1, RequestsOfAppend DEF Write

\* The program asks the modem something.
LEMMA PostAsks ==
  ASSUME TypeInv, NEW line \in ATCommand, NEW next, Ask(line, next)
  PROVE  Requests(todo') = Requests(todo)
<1>1. line \in Line /\ line \notin CarCommand
  BY TokensDiffer DEF Line
<1> QED BY <1>1, WriteRequests DEF Ask

\* The modem looks at a line.
LEMMA PostExecutes ==
  ASSUME TypeInv, Execute, Others
  PROVE  [ToPost!Next]_ToPost!vars
<1>1. /\ todo \in Seq(Line) /\ todo # <<>> /\ todo' = Tail(todo)
      /\ pc' = pc /\ command' = command
  BY DEF TypeInv, TypeOK, Execute, Others, program
<1> DEFINE line == Head(todo)
<1>2. \/ arrived' = arrived
      \/ line \in CarCommand /\ arrived' = line
  BY DEF Execute, Deliver, Swallow, Join, CloseLink, OpenLink, Prepare, Reject
<1>3. CASE line \in CarCommand
  <2>1. /\ Requests(todo) # <<>> /\ Head(Requests(todo)) = line
        /\ Requests(todo') = Tail(Requests(todo))
    BY <1>1, <1>3, RequestsOfTail
  <2>2. CASE arrived' = arrived
    BY <1>1, <2>1, <2>2 DEF ToPost!Next, ToPost!Lose
  <2>3. CASE arrived' = line
    BY <1>1, <2>1, <2>3 DEF ToPost!Next, ToPost!Deliver
  <2> QED BY <1>2, <2>2, <2>3
<1>4. CASE line \notin CarCommand
  <2>1. Requests(todo') = Requests(todo)
    BY <1>1, <1>4, RequestsOfTail
  <2> QED BY <1>1, <1>2, <1>4, <2>1, Silent
<1> QED BY <1>3, <1>4

\* The end of a wait posts nothing and begins nothing.
LEMMA WaitPosts ==
  ASSUME NEW found \in BOOLEAN, pc \in Waiting, AfterWait(found)
  PROVE  /\ pc' \in Open => pc \in Open
         /\ pc' \in Connecting => pc \in Connecting
<1>1. CASE pc = "testing"
  BY <1>1 DEF AfterWait, Goto, Open, Connecting
<1>2. CASE pc = "joining"
  BY <1>2 DEF AfterWait, Connected, AfterRequest, Goto, Open, Connecting
<1>3. CASE pc \in {"closing", "starting", "prompting"}
  BY <1>3 DEF AfterWait, AfterRequest, Goto, Open, Connecting
<1>4. CASE pc \in {"sending", "ending"}
  BY <1>4 DEF AfterWait, AfterRequest, Goto, Open, Connecting
<1> QED BY <1>1, <1>2, <1>3, <1>4 DEF Waiting, Expected

\* Each step of the program and of the modem is one of Post, or none, and
\* keeps the invariant.
LEMMA PostStep ==
  ASSUME PostInv, [Next]_vars
  PROVE  NoneYet' /\ [ToPost!Next]_ToPost!vars
<1>1. TypeInv /\ TypeInv' /\ todo \in Seq(Line) /\ NoneYet
  BY TypeStep DEF PostInv, TypeInv, TypeOK
<1>2. ASSUME UNCHANGED <<command, arrived>>, Requests(todo') = Requests(todo),
             pc' \in Open => pc \in Open, pc' \in Connecting => pc \in Connecting
      PROVE  NoneYet' /\ [ToPost!Next]_ToPost!vars
  BY <1>1, <1>2, Silent DEF NoneYet
<1>3. CASE Reset
  <2>1. /\ pc = "reset" /\ pc' = "test" /\ todo' = <<>>
        /\ UNCHANGED <<command, arrived>>
    BY <1>3 DEF Reset, ModemReset, Goto
  <2>2. Requests(todo) = <<>> /\ Requests(todo') = <<>>
    BY <1>1, <2>1, RequestsOfNone DEF NoneYet, Connecting
  <2> QED BY <1>2, <2>1, <2>2 DEF Open, Connecting
<1>4. CASE Test \/ JoinNetwork \/ Close \/ Start \/ Prompt
  <2>1. \E l \in ATCommand : \E next : Ask(l, next)
    BY <1>4 DEF Test, JoinNetwork, Close, Start, Prompt, send_at_command, ATCommand
  <2>2. UNCHANGED <<command, arrived>>
    BY <1>4 DEF Test, JoinNetwork, Close, Start, Prompt
  <2>3. /\ pc' \in Open => pc \in Open
        /\ pc' \in Connecting => pc \in Connecting
    BY <1>4 DEF Test, JoinNetwork, Close, Start, Prompt, send_at_command, Ask, Goto,
                Open, Connecting
  <2> QED BY <1>1, <1>2, <2>1, <2>2, <2>3, PostAsks
<1>5. CASE Sense
  <2>1. /\ pc = "sense" /\ pc' = "close" /\ command' \in Commands
        /\ arrived' = "none" /\ todo' = todo
    BY <1>5 DEF Sense, Goto
  <2>2. ToPost!Begin(command')
    BY <2>1 DEF ToPost!Begin
  <2> QED BY <2>1, <2>2 DEF ToPost!Next, NoneYet, Connecting
<1>6. CASE Payload
  <2>1. /\ pc = "payload" /\ pc' = "sending" /\ Write(command)
        /\ UNCHANGED <<command, arrived>>
    BY <1>6 DEF Payload, Ask, Goto
  <2>2. command \in Line
    BY <1>1, <2>1 DEF TypeInv, Turn, Line
  <2>3. CASE Requests(todo') = Requests(todo)
    BY <1>2, <2>1, <2>3 DEF Open, Connecting
  <2>4. CASE Requests(todo') = Append(Requests(todo), command)
    BY <2>1, <2>4 DEF ToPost!Next, ToPost!Send, NoneYet, Connecting
  <2> QED BY <1>1, <2>1, <2>2, <2>3, <2>4, WriteRequests
<1>7. CASE Done
  BY <1>2, <1>7 DEF Done, Goto, modem, Open, Connecting
<1>8. CASE Receive
  <2>1. UNCHANGED <<todo, arrived, command>> /\ pc \in Waiting
        /\ (AfterWait(TRUE) \/ pc' = pc)
    BY <1>8 DEF Receive, modem
  <2> QED BY <1>2, <2>1, WaitPosts
<1>9. CASE Timeout
  <2>1. UNCHANGED <<todo, arrived, command>> /\ pc \in Waiting /\ AfterWait(FALSE)
    BY <1>9 DEF Timeout, modem
  <2> QED BY <1>2, <2>1, WaitPosts
<1>10. CASE Second \/ UNCHANGED vars
  BY <1>2, <1>10 DEF Second, modem, vars, program
<1>11. CASE Execute /\ Others
  <2>1. todo # <<>> /\ todo' = Tail(todo) /\ pc' = pc
    BY <1>11 DEF Execute, Others, program
  <2>2. Requests(todo) = <<>> => Requests(todo') = <<>>
    BY <1>1, <2>1, RequestsOfTail
  <2> QED BY <1>1, <1>11, <2>1, <2>2, PostExecutes DEF NoneYet
<1>12. CASE (Emit \/ Notice \/ Settle) /\ Others
  BY <1>2, <1>12 DEF Emit, Notice, Settle, modem, Others, program
<1> QED
  BY <1>3, <1>4, <1>5, <1>6, <1>7, <1>8, <1>9, <1>10, <1>11, <1>12
     DEF Next, Program, Step, ModemStep

\* The program starts where Post does.
LEMMA PostStart == Init => NoneYet /\ ToPost!Init
BY RequestsOfNone DEF Init, ModemInit, NoneYet, ToPost!Init

\* While the program connects to the network, no request is on its way.
THEOREM NothingLostInReset == Spec => []NoneYet
<1>1. Init => PostInv
  BY TypeInit, PostStart DEF PostInv
<1>2. PostInv /\ [Next]_vars => PostInv'
  BY TypeStep, PostStep DEF PostInv
<1>3. PostInv => NoneYet
  BY DEF PostInv
<1> QED BY <1>1, <1>2, <1>3, PTL DEF Spec

\* The Wi-Fi code implements Post, whatever the modem does: every turn posts its
\* command once or gives it up, and the car gets the posted commands in their
\* order, late or never, but none twice.
THEOREM Posting == Spec => Posts
<1>1. Init => PostInv /\ ToPost!Init
  BY TypeInit, PostStart DEF PostInv
<1>2. PostInv /\ [Next]_vars => PostInv' /\ [ToPost!Next]_ToPost!vars
  BY TypeStep, PostStep DEF PostInv
<1> QED BY <1>1, <1>2, PTL DEF Spec, Posts, ToPost!Spec

=============================================================================

----------------------------- MODULE BootProofs -----------------------------
(***************************************************************************)
(* Proofs about the car's start, for every number of connections.          *)
(***************************************************************************)
EXTENDS Boot, SequenceTheorems, TLAPS

-----------------------------------------------------------------------------
(***************************************************************************)
(* The order of the stores.                                                *)
(***************************************************************************)
LEMMA OrderIs ==
  /\ Len(Order) = 16
  /\ Order[1] = "cyw43_arch_init" /\ Order[2] = "cyw43_arch_wifi_connect_timeout_ms"
  /\ Order[3] = "httpd_init"
  /\ Order[4] = "adc_init" /\ Order[5] = "adc_set_temp_sensor_enabled"
  /\ Order[6] = "adc_select_input"
  /\ Order[7] = "g_pfnSSIHandler" /\ Order[8] = "g_ppcTags" /\ Order[9] = "g_iNumTags"
  /\ Order[10] = "motor_init" /\ Order[11] = "buzzer_init" /\ Order[12] = "rgb_led_init"
  /\ Order[13] = "ultrasonic_init"
  /\ Order[14] = "g_pCGIs" /\ Order[15] = "g_iNumCGIs" /\ Order[16] = "loop"
BY DEF Order, Connect, Adc, Ssi, Drivers, Cgi

\* The parts of the start are stretches of its order.
LEMMA PartsAre ==
  /\ DOMAIN Adc = 1 .. 3 /\ Adc[1] = Order[4] /\ Adc[2] = Order[5] /\ Adc[3] = Order[6]
  /\ DOMAIN Ssi = 1 .. 3 /\ Ssi[1] = Order[7] /\ Ssi[2] = Order[8] /\ Ssi[3] = Order[9]
  /\ DOMAIN Drivers = 1 .. 4 /\ Drivers[1] = Order[10] /\ Drivers[2] = Order[11]
  /\ Drivers[3] = Order[12] /\ Drivers[4] = Order[13]
  /\ DOMAIN Cgi = 1 .. 2 /\ Cgi[1] = Order[14] /\ Cgi[2] = Order[15]
  /\ Len(Tags) = 3
BY OrderIs DEF Adc, Ssi, Drivers, Cgi, Tags

\* No two stores that matter here have the same name.
LEMMA Distinct ==
  ASSUME NEW j \in 1 .. 16
  PROVE  /\ Order[j] = "cyw43_arch_init" => j = 1
         /\ Order[j] = "g_iNumTags" => j = 9
         /\ Order[j] = "g_iNumCGIs" => j = 15
         /\ Order[j] # "loop" => j < 16
<1>1. j \in {1, 2, 3, 4, 5, 6, 7, 8, 9, 10, 11, 12, 13, 14, 15, 16}
  OBVIOUS
<1> QED
  BY <1>1, OrderIs

\* What has been done is told by how far main has come.
LEMMA Progress ==
  ASSUME step \in 0 .. 16
  PROVE  /\ step > 6 => AllDone(Adc)
         /\ step > 9 <=> AllDone(Ssi)
         /\ step > 13 => AllDone(Drivers)
         /\ Registered => step > 15
<1>1. \A j \in 1 .. 16 : step > j => Done(Order[j])
  BY DEF Done
<1>2. step > 6 => AllDone(Adc)
  <2> SUFFICES ASSUME step > 6 PROVE AllDone(Adc)
    OBVIOUS
  <2>1. Done(Order[4]) /\ Done(Order[5]) /\ Done(Order[6])
    BY <1>1
  <2> QED
    BY <2>1, PartsAre DEF AllDone
<1>3. step > 9 => AllDone(Ssi)
  <2> SUFFICES ASSUME step > 9 PROVE AllDone(Ssi)
    OBVIOUS
  <2>1. Done(Order[7]) /\ Done(Order[8]) /\ Done(Order[9])
    BY <1>1
  <2> QED
    BY <2>1, PartsAre DEF AllDone
<1>4. step > 13 => AllDone(Drivers)
  <2> SUFFICES ASSUME step > 13 PROVE AllDone(Drivers)
    OBVIOUS
  <2>1. Done(Order[10]) /\ Done(Order[11]) /\ Done(Order[12]) /\ Done(Order[13])
    BY <1>1
  <2> QED
    BY <2>1, PartsAre DEF AllDone
<1>5. AllDone(Ssi) => step > 9
  <2> SUFFICES ASSUME AllDone(Ssi) PROVE step > 9
    OBVIOUS
  <2>1. Done("g_iNumTags")
    BY PartsAre, OrderIs DEF AllDone
  <2>2. PICK j \in 1 .. step - 1 : Order[j] = "g_iNumTags"
    BY <2>1 DEF Done
  <2>3. j \in 1 .. 16 /\ j < step
    BY <2>2
  <2>4. j = 9
    BY <2>2, <2>3, Distinct
  <2> QED
    BY <2>3, <2>4
<1>6. Registered => step > 15
  <2> SUFFICES ASSUME Registered PROVE step > 15
    OBVIOUS
  <2>1. Done("g_iNumCGIs")
    BY PartsAre, OrderIs DEF AllDone, Registered
  <2>2. PICK j \in 1 .. step - 1 : Order[j] = "g_iNumCGIs"
    BY <2>1 DEF Done
  <2>3. j \in 1 .. 16 /\ j < step
    BY <2>2
  <2>4. j = 15
    BY <2>2, <2>3, Distinct
  <2> QED
    BY <2>3, <2>4
<1> QED
  BY <1>2, <1>3, <1>4, <1>5, <1>6

\* main only goes on, but for a Wi-Fi chip that fails at once.
LEMMA GoesOn ==
  ASSUME step \in 0 .. 16, Main
  PROVE  step' \in 0 .. 16 /\ (step' >= step \/ step = 1)
<1>1. step \in 1 .. 16 /\ step < 17
  BY DEF Main
<1>2. CASE Wifi
  <2>1. step = 1
    BY <1>1, <1>2, Distinct DEF Wifi
  <2>2. step' \in {0, step + 1}
    BY <1>2 DEF Wifi
  <2> QED
    BY <2>1, <2>2
<1>3. CASE Join
  <2>1. step < 16
    BY <1>1, <1>3, Distinct DEF Join
  <2>2. step' = step \/ step' = step + 1
    BY <1>3 DEF Join
  <2> QED
    BY <1>1, <2>1, <2>2
<1>4. CASE Initialise
  <2>1. step < 16 /\ step' = step + 1
    BY <1>1, <1>4, Distinct DEF Initialise
  <2> QED
    BY <1>1, <2>1
<1> QED
  BY <1>2, <1>3, <1>4 DEF Main

-----------------------------------------------------------------------------
(***************************************************************************)
(* The pages.                                                              *)
(***************************************************************************)
Text == {"unknown", "reading", "stuck", "ON", "OFF"}

PageOK ==
  /\ step \in 0 .. 16 /\ network \in BOOLEAN /\ led \in {"0", "1"}
  /\ open \subseteq Client
  /\ shown \in [Client -> Seq(Text)] /\ \A c \in Client : Len(shown[c]) <= 3
  /\ set \in [Client -> {"0", "1", "any"}]
  /\ answer \in [Client -> BOOLEAN] /\ handled \in BOOLEAN

\* Only a request that is found is obeyed or answered, the LED is what the last
\* of them has set it to, and before the tags are registered each is unknown.
Early ==
  /\ handled => step > 15
  /\ \A c \in Client : answer[c] => step > 15
  /\ \A c \in Client : set[c] # "any" => led = set[c] /\ step > 15
  /\ step <= 9 => \A c \in Client : \A j \in DOMAIN shown[c] : shown[c][j] = "unknown"

BootInv == PageOK /\ Early /\ Whole /\ NeverStuck

\* At the start, no page is open.
LEMMA BootStart == Init => BootInv
<1> SUFFICES ASSUME Init PROVE BootInv
  OBVIOUS
<1>1. <<>> \in Seq(Text) /\ Len(<<>>) = 0 /\ DOMAIN <<>> = {}
  OBVIOUS
<1>2. PageOK
  <2>1. shown \in [Client -> Seq(Text)] /\ \A c \in Client : Len(shown[c]) <= 3
    <3>1. \A c \in Client : shown[c] = <<>>
      BY DEF Init
    <3> QED
      BY <1>1, <3>1 DEF Init
  <2>2. set \in [Client -> {"0", "1", "any"}] /\ answer \in [Client -> BOOLEAN]
    BY DEF Init
  <2>3. step \in 0 .. 16 /\ open \subseteq Client
    BY DEF Init
  <2> QED
    BY <2>1, <2>2, <2>3 DEF Init, PageOK
<1>3. \A c \in Client : DOMAIN shown[c] = {}
  BY <1>1 DEF Init
<1> QED
  BY <1>2, <1>3 DEF Init, BootInv, Early, Whole, NeverStuck

\* The server's pages stay, and main goes on.
LEMMA BootMain == BootInv /\ Main => BootInv'
<1> SUFFICES ASSUME BootInv, Main PROVE BootInv'
  OBVIOUS
<1>1. step' \in 0 .. 16 /\ (step' >= step \/ step = 1) /\ step \in 0 .. 16
  BY GoesOn DEF BootInv, PageOK
<1>2. UNCHANGED <<network, led, open, shown, answer, set, handled>>
  BY DEF Main
<1>3. (step > 15 => step' > 15) /\ (step' <= 9 => step <= 9)
  BY <1>1
<1>4. PageOK'
  BY <1>1, <1>2 DEF BootInv, PageOK
<1>5. Early'
  BY <1>2, <1>3 DEF BootInv, Early
<1>6. Whole' /\ NeverStuck'
  BY <1>2 DEF BootInv, Whole, NeverStuck
<1> QED
  BY <1>4, <1>5, <1>6 DEF BootInv

\* A page begins without a tag, and only the handler answers a command.
LEMMA BootPage ==
  ASSUME BootInv, NEW c \in Client, NEW answers \in BOOLEAN, Page(c, answers),
         answers => Registered, UNCHANGED <<step, network>>,
         led' \in {"0", "1"}, set' \in [Client -> {"0", "1", "any"}],
         handled' \in BOOLEAN, handled' => handled \/ Registered,
         \A d \in Client : set'[d] # "any" =>
           set'[d] = led' /\ (Registered \/ set'[d] = set[d])
  PROVE  BootInv'
<1>1. PageOK
  BY DEF BootInv
<1>2. /\ open' = open \cup {c}
      /\ shown' = [shown EXCEPT ![c] = <<>>] /\ answer' = [answer EXCEPT ![c] = answers]
  BY DEF Page
<1>3. Registered => step > 15
  BY <1>1, Progress DEF PageOK
<1>4. <<>> \in Seq(Text) /\ Len(<<>>) = 0 /\ DOMAIN <<>> = {}
  OBVIOUS
<1>5. PageOK'
  BY <1>1, <1>2, <1>4 DEF PageOK
<1>6. \A d \in Client :
        \/ DOMAIN shown'[d] = {} /\ answer'[d] = answers
        \/ shown'[d] = shown[d] /\ answer'[d] = answer[d]
  BY <1>1, <1>2, <1>4 DEF PageOK
<1>7. Early'
  BY <1>3, <1>6 DEF BootInv, Early
<1>8. Whole' /\ NeverStuck'
  BY <1>6 DEF BootInv, Whole, NeverStuck
<1> QED
  BY <1>5, <1>7, <1>8 DEF BootInv

\* A tag is replaced: by then its handler's ADC is set up, or all are unknown.
LEMMA BootInsert ==
  ASSUME BootInv, NEW c \in Client, Insert(c), UNCHANGED <<step, network>>
  PROVE  BootInv'
<1> DEFINE tag == Tags[Len(shown[c]) + 1]
           word == IF AllDone(Ssi) THEN ssi_handler(tag) ELSE "unknown"
           n == Len(shown[c])
<1>1. PageOK /\ shown[c] \in Seq(Text) /\ n \in Nat
  BY LenProperties DEF BootInv, PageOK
<1>2. /\ n < 3 /\ shown' = [shown EXCEPT ![c] = Append(shown[c], word)]
      /\ UNCHANGED <<led, open, answer, set, handled>>
  BY PartsAre DEF Insert
<1>3. word = "unknown" <=> step <= 9
  <2>1. ssi_handler(tag) # "unknown"
    BY DEF ssi_handler, LedStatus
  <2> QED
    BY <1>1, <2>1, Progress DEF PageOK
<1>4. word # "stuck" /\ word \in Text
  <2>1. AllDone(Ssi) => AllDone(Adc)
    BY <1>1, Progress DEF PageOK
  <2> QED
    BY <2>1 DEF ssi_handler, LedStatus, Text
<1> HIDE DEF word
<1>5. /\ shown'[c] \in Seq(Text) /\ Len(shown'[c]) = n + 1 /\ shown'[c][n + 1] = word
      /\ \A j \in 1 .. n : shown'[c][j] = shown[c][j]
      /\ DOMAIN shown'[c] = 1 .. n + 1 /\ DOMAIN shown[c] = 1 .. n
      /\ \A d \in Client : d # c => shown'[d] = shown[d]
  <2>1. shown'[c] = Append(shown[c], word) /\ \A d \in Client : d # c => shown'[d] = shown[d]
    BY <1>1, <1>2 DEF PageOK
  <2> QED
    BY <1>1, <1>4, <2>1, AppendProperties, LenProperties
<1>6. \A j \in 1 .. n + 1 : j = n + 1 \/ j \in 1 .. n
  BY <1>1
<1>7. PageOK'
  <2>1. shown' \in [Client -> Seq(Text)]
    BY <1>1, <1>2, <1>5 DEF PageOK
  <2>2. \A d \in Client : Len(shown'[d]) <= 3
    <3>1. Len(shown'[c]) <= 3
      BY <1>1, <1>2, <1>5
    <3> QED
      BY <1>1, <1>5, <3>1 DEF PageOK
  <2> QED
    BY <1>1, <1>2, <2>1, <2>2 DEF PageOK
<1>8. Early'
  <2>1. ASSUME step <= 9, NEW d \in Client, NEW j \in DOMAIN shown'[d]
        PROVE  shown'[d][j] = "unknown"
    BY <1>3, <1>5, <1>6, <2>1 DEF BootInv, Early
  <2> QED
    BY <1>2, <2>1 DEF BootInv, Early
<1>9. NeverStuck'
  <2>1. \A j \in 1 .. n + 1 : shown'[c][j] # "stuck"
    BY <1>4, <1>5, <1>6 DEF BootInv, NeverStuck
  <2> QED
    BY <1>5, <2>1 DEF BootInv, NeverStuck
<1>10. Whole'
  <2>1. CASE step <= 9
    <3>1. \A d \in Client : ~answer'[d]
      BY <1>1, <1>2, <2>1 DEF BootInv, Early, PageOK
    <3>2. \A d \in Client : \A j \in DOMAIN shown'[d] : shown'[d][j] = "unknown"
      BY <1>8, <2>1 DEF Early
    <3>3. \A d \in Client : \A j \in DOMAIN shown'[d] : \A l \in 1 .. j : l \in DOMAIN shown'[d]
      <4>1. \A d \in Client : shown'[d] \in Seq(Text)
        BY <1>7 DEF PageOK
      <4> QED
        BY <4>1, LenProperties
    <3> QED
      BY <3>1, <3>2, <3>3 DEF Whole
  <2>2. CASE ~(step <= 9)
    <3>1. word # "unknown"
      BY <1>3, <2>2
    <3>2. \A j \in 1 .. n + 1 : shown'[c][j] = "unknown" =>
            j \in 1 .. n /\ shown[c][j] = "unknown"
      BY <1>5, <1>6, <3>1
    <3>3. \A j \in 1 .. n : \A l \in 1 .. j : l \in 1 .. n
      BY <1>1
    <3>4. \A j \in 1 .. n + 1 : shown'[c][j] = "unknown" =>
            ~answer'[c] /\ \A l \in 1 .. j : shown'[c][l] = "unknown"
      BY <1>2, <1>5, <3>2, <3>3 DEF BootInv, Whole
    <3> QED
      BY <1>2, <1>5, <3>4 DEF BootInv, Whole
  <2> QED
    BY <2>1, <2>2
<1> QED
  BY <1>7, <1>8, <1>9, <1>10 DEF BootInv

\* No step of main, the server or the network breaks the invariant.
LEMMA BootStep == BootInv /\ [Next]_vars => BootInv'
<1> SUFFICES ASSUME BootInv, [Next]_vars PROVE BootInv'
  OBVIOUS
<1>c. \A d \in Client : set[d] # "any" => led = set[d]
  BY DEF BootInv, Early
<1>1. CASE Main
  BY <1>1, BootMain
<1>2. CASE Server
  <2>1. PICK c \in Client :
          Get(c) \/ (\E value \in {"0", "1"} : SetLed(c, value)) \/ Move(c)
          \/ Insert(c) \/ Close(c)
    BY <1>2 DEF Server
  <2>2. UNCHANGED <<step, network>> /\ PageOK
    BY <1>2 DEF Server, BootInv
  <2>3. CASE Get(c)
    <3>1. \A d \in Client : set'[d] # "any" => set'[d] = set[d] /\ set[d] = led'
      BY <1>c, <2>2, <2>3 DEF Get, PageOK
    <3> QED
      BY <2>2, <2>3, <3>1, BootPage DEF Get, PageOK
  <2>4. CASE \E value \in {"0", "1"} : SetLed(c, value)
    BY <2>2, <2>4, BootPage DEF SetLed, PageOK
  <2>5. CASE Move(c)
    <3>1. \A d \in Client : set'[d] # "any" => set'[d] = set[d] /\ set[d] = led'
      BY <1>c, <2>2, <2>5 DEF Move, PageOK
    <3> QED
      BY <2>2, <2>5, <3>1, BootPage DEF Move, PageOK
  <2>6. CASE Insert(c)
    BY <2>2, <2>6, BootInsert
  <2>7. CASE Close(c)
    BY <2>2, <2>7 DEF Close, BootInv, PageOK, Early, Whole, NeverStuck
  <2> QED
    BY <2>1, <2>3, <2>4, <2>5, <2>6, <2>7
<1>3. CASE Roam
  BY <1>3 DEF Roam, BootInv, PageOK, Early, Whole, NeverStuck
<1>4. CASE UNCHANGED vars
  BY <1>4 DEF vars, BootInv, PageOK, Early, Whole, NeverStuck
<1> QED
  BY <1>1, <1>2, <1>3, <1>4 DEF Next

-----------------------------------------------------------------------------
\* Every variable keeps its type, and no page has more tags than there are.
THEOREM TypeCorrect == Spec => []TypeOK
<1>1. BootInv => TypeOK
  BY OrderIs, PartsAre DEF BootInv, PageOK, TypeOK, Text
<1> QED
  BY <1>1, BootStart, BootStep, PTL DEF Spec

\* No request meets a handler of commands whose pins are not set up.
THEOREM PinsFirst == Spec => []SetUp
<1>1. BootInv => SetUp
  <2> SUFFICES ASSUME BootInv, handled PROVE AllDone(Drivers)
    BY DEF SetUp
  <2>1. step \in 0 .. 16 /\ step > 15
    BY DEF BootInv, PageOK, Early
  <2>2. step > 13
    BY <2>1
  <2> QED
    BY <2>1, <2>2, Progress
<1> QED
  BY <1>1, BootStart, BootStep, PTL DEF Spec

\* Unknown tags are the first of a page, and none of an answer to a command.
THEOREM Pages == Spec => []Whole
<1>1. BootInv => Whole
  BY DEF BootInv
<1> QED
  BY <1>1, BootStart, BootStep, PTL DEF Spec

\* No page, however early, makes the server wait for an ADC that is not set up.
THEOREM NeverWaits == Spec => []NeverStuck
<1>1. BootInv => NeverStuck
  BY DEF BootInv
<1> QED
  BY <1>1, BootStart, BootStep, PTL DEF Spec

\* The answer to a request that sets the LED tells it as it has been set, unless
\* another request came meanwhile.
THEOREM LedIsTold == Spec => LedTells
<1>1. BootInv /\ [Next]_vars =>
        [\A c \in Client : Len(shown[c]) = 2 /\ Len(shown'[c]) = 3 /\ set[c] # "any"
           => shown'[c][3] = (IF set[c] = "1" THEN "ON" ELSE "OFF")]_vars
  <2> SUFFICES ASSUME BootInv, Next, NEW c \in Client,
                      Len(shown[c]) = 2, Len(shown'[c]) = 3, set[c] # "any"
               PROVE  shown'[c][3] = (IF set[c] = "1" THEN "ON" ELSE "OFF")
    OBVIOUS
  <2>1. /\ shown \in [Client -> Seq(Text)] /\ step \in 0 .. 16
        /\ led = set[c] /\ step > 15
    BY DEF BootInv, PageOK, Early
  <2>2. shown' # shown
    <3> SUFFICES ASSUME shown' = shown PROVE FALSE
      OBVIOUS
    <3>1. Len(shown'[c]) = 2
      OBVIOUS
    <3> QED
      BY <3>1
  <2>3. PICK d \in Client : Insert(d) \/ shown' = [shown EXCEPT ![d] = <<>>]
    BY <2>2 DEF Next, Main, Server, Roam, Get, SetLed, Move, Page, Close
  <2>4. shown'[c] # <<>> /\ shown'[c] # shown[c]
    <3>1. Len(<<>>) = 0
      OBVIOUS
    <3> QED
      BY <3>1
  <2>5. Insert(c)
    <3>1. CASE d # c
      BY <2>1, <2>3, <2>4, <3>1 DEF Insert
    <3>2. CASE d = c
      BY <2>1, <2>3, <2>4, <3>2
    <3> QED
      BY <3>1, <3>2
  <2>6. AllDone(Ssi)
    <3>1. step > 9
      BY <2>1
    <3> QED
      BY <2>1, <3>1, Progress
  <2>7. shown'[c] = Append(shown[c], ssi_handler(Tags[3]))
    BY <2>1, <2>5, <2>6 DEF Insert
  <2>8. shown'[c][3] = ssi_handler(Tags[3])
    BY <2>1, <2>7
  <2>9. Tags[3] = "led"
    BY DEF Tags
  <2> QED
    BY <2>1, <2>8, <2>9 DEF ssi_handler, LedStatus
<1> QED
  BY <1>1, BootStart, BootStep, PTL DEF Spec, LedTells
=============================================================================

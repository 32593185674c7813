-------------------------------- MODULE Boot --------------------------------
(***************************************************************************)
(* The car's start, main.c:185-215, and the status page, ssi.h.  The web   *)
(* server answers, in its interrupt, from httpd_init on; the handlers of   *)
(* the page's tags and of /led.cgi are registered later, store by store,   *)
(* and a page is put together tag by tag, in interrupts of its own.        *)
(*                                                                         *)
(* What the handler does with the motors is in Car, which begins where the *)
(* start ends.                                                             *)
(***************************************************************************)
EXTENDS Integers, Sequences

CONSTANT Client     \* the connections the server has open at a time

ASSUME ClientAssumption == Client # {}

VARIABLES
  step,       \* what main does next, an index of Order, 0 when it has ended
  network,    \* environment: the access point is there
  led,        \* the Wi-Fi chip's LED
  open,       \* the connections on which a page is being sent
  shown,      \* what its tags have been replaced with so far
  answer,     \* history: the page is the answer of cgi_led_handler
  set,        \* history: what this request has set the LED to, as far as it stands
  handled     \* history: a motor parameter has been handled

vars == <<step, network, led, open, shown, answer, set, handled>>

-----------------------------------------------------------------------------
Drivers == <<"motor_init", "buzzer_init", "rgb_led_init", "ultrasonic_init">>

\* adc_init and the selection of the temperature sensor; then the stores of
\* http_set_ssi_handler.
Adc == <<"adc_init", "adc_set_temp_sensor_enabled", "adc_select_input">>
Ssi == <<"g_pfnSSIHandler", "g_ppcTags", "g_iNumTags">>

\* Those of http_set_cgi_handlers.
Cgi == <<"g_pCGIs", "g_iNumCGIs">>

Connect == <<"cyw43_arch_init", "cyw43_arch_wifi_connect_timeout_ms", "httpd_init">>

\* Faulty: the handler is registered before the pins are set up.
Order_TableFirst == Connect \o Adc \o Ssi \o Cgi \o Drivers \o <<"loop">>

\* Faulty: the tags are registered before the ADC is set up.
Order_TagsFirst == Connect \o Ssi \o Adc \o Drivers \o Cgi \o <<"loop">>

\* Faulty: cgi_init before ssi_init.
Order_CgiInitFirst == Connect \o Drivers \o Cgi \o Adc \o Ssi \o <<"loop">>

Order == Connect \o Adc \o Ssi \o Drivers \o Cgi \o <<"loop">>

Done(s) == \E j \in 1 .. step - 1 : Order[j] = s

AllDone(part) == \A j \in DOMAIN part : Done(part[j])

Init ==
  /\ step = 1 /\ network \in BOOLEAN /\ led = "0"
  /\ open = {} /\ shown = [c \in Client |-> <<>>]
  /\ answer = [c \in Client |-> FALSE] /\ set = [c \in Client |-> "any"]
  /\ handled = FALSE

-----------------------------------------------------------------------------
(***************************************************************************)
(* main.                                                                   *)
(***************************************************************************)
Wifi ==
  /\ Order[step] = "cyw43_arch_init" /\ step' \in {0, step + 1}

\* Faulty: no retry.
Join_Once ==
  /\ Order[step] = "cyw43_arch_wifi_connect_timeout_ms"
  /\ step' = IF network THEN step + 1 ELSE 0

\* Without the access point it is tried again.
Join ==
  /\ Order[step] = "cyw43_arch_wifi_connect_timeout_ms"
  /\ step' = IF network THEN step + 1 ELSE step

Initialise ==
  /\ Order[step] \notin {"cyw43_arch_init", "cyw43_arch_wifi_connect_timeout_ms", "loop"}
  /\ step' = step + 1

Main ==
  /\ step # 0
  /\ Wifi \/ Join \/ Initialise
  /\ UNCHANGED <<network, led, open, shown, answer, set, handled>>

-----------------------------------------------------------------------------
(***************************************************************************)
(* The server, in its interrupt.                                           *)
(***************************************************************************)
Tags == <<"volt", "temp", "led">>

\* The page's header is sent up to its first tag.
Page(c, answers) ==
  /\ Done("httpd_init") /\ c \notin open
  /\ open' = open \cup {c}
  /\ shown' = [shown EXCEPT ![c] = <<>>]
  /\ answer' = [answer EXCEPT ![c] = answers]

Get(c) ==
  /\ Page(c, FALSE)
  /\ set' = [set EXCEPT ![c] = "any"]
  /\ UNCHANGED <<led, handled>>

\* /led.cgi before it is registered is not found, and its command is lost.
Registered == AllDone(Cgi)

\* /led.cgi?led=
SetLed(c, value) ==
  /\ Registered /\ Page(c, TRUE)
  /\ led' = value
  /\ set' = [d \in Client |-> IF d = c THEN value ELSE "any"]
  /\ UNCHANGED handled

\* /led.cgi?motor=
Move(c) ==
  /\ Registered /\ Page(c, TRUE)
  /\ handled' = TRUE
  /\ set' = [set EXCEPT ![c] = "any"]
  /\ UNCHANGED led

\* Faulty: the test is inverted.
LedStatus_Inverted == IF led = "1" THEN "OFF" ELSE "ON"

LedStatus == IF led = "1" THEN "ON" ELSE "OFF"

\* ssi_handler.  adc_read waits for ever for an ADC that is not set up.
ssi_handler(tag) ==
  IF tag = "led" THEN LedStatus ELSE IF AllDone(Adc) THEN "reading" ELSE "stuck"

\* Faulty: the first tag is found again behind the last.
Insert_Again(c) ==
  /\ c \in open /\ Len(shown[c]) <= Len(Tags)
  /\ LET tag == Tags[(Len(shown[c]) % Len(Tags)) + 1]
     IN  shown' = [shown EXCEPT ![c] =
                     Append(@, IF AllDone(Ssi) THEN ssi_handler(tag) ELSE "unknown")]
  /\ UNCHANGED <<led, open, answer, set, handled>>

\* The next tag of a page is found.
Insert(c) ==
  /\ c \in open /\ Len(shown[c]) < Len(Tags)
  /\ LET tag == Tags[Len(shown[c]) + 1]
     IN  shown' = [shown EXCEPT ![c] =
                     Append(@, IF AllDone(Ssi) THEN ssi_handler(tag) ELSE "unknown")]
  /\ UNCHANGED <<led, open, answer, set, handled>>

Close(c) ==
  /\ c \in open /\ Len(shown[c]) >= Len(Tags)
  /\ open' = open \ {c}
  /\ UNCHANGED <<led, shown, answer, set, handled>>

Server ==
  /\ \E c \in Client :
       \/ Get(c) \/ (\E value \in {"0", "1"} : SetLed(c, value)) \/ Move(c)
       \/ Insert(c) \/ Close(c)
  /\ UNCHANGED <<step, network>>

Roam == network' = ~network /\ UNCHANGED <<step, led, open, shown, answer, set, handled>>

Next == Main \/ Server \/ Roam

Spec == Init /\ [][Next]_vars

\* Nothing holds main up for good but the access point.
FairSpec == Spec /\ WF_vars(Main)

-----------------------------------------------------------------------------
TypeOK ==
  /\ step \in 0 .. Len(Order) /\ network \in BOOLEAN /\ led \in {"0", "1"}
  /\ open \subseteq Client
  /\ \A c \in Client :
       /\ shown[c] \in Seq({"unknown", "reading", "stuck", "ON", "OFF"})
       /\ Len(shown[c]) <= Len(Tags)
       /\ set[c] \in {"0", "1", "any"}
  /\ answer \in [Client -> BOOLEAN] /\ handled \in BOOLEAN

\* No request, however early, makes the handler use pins that are not set up
\* (cgi.h:124-128): a command is obeyed wholly or not at all.
SetUp == handled => AllDone(Drivers)

\* A page asked for while the car starts may show unknown tags, but then the
\* first ones only, and no answer to a command does (main.c:213-215).
Whole ==
  \A c \in Client : \A j \in DOMAIN shown[c] :
    shown[c][j] = "unknown" => ~answer[c] /\ \A l \in 1 .. j : shown[c][l] = "unknown"

\* No page, however early, makes the server wait for an ADC that is not set up
\* (ssi.h:45-50).
NeverStuck == \A c \in Client : \A j \in DOMAIN shown[c] : shown[c][j] # "stuck"

\* The answer to led=1 shows ON and the one to led=0 OFF, unless another request
\* has set the LED since (ssi.h:26-33, cgi.h:20-26).
LedTells ==
  [][\A c \in Client :
       Len(shown[c]) = 2 /\ Len(shown'[c]) = 3 /\ set[c] # "any"
         => shown'[c][3] = (IF set[c] = "1" THEN "ON" ELSE "OFF")]_vars

\* If the access point is there from some time on, the car starts, unless its
\* Wi-Fi chip has failed: it tries again and again (main.c:189, 197).
ComesUp == <>[]network => <>(step = Len(Order)) \/ [](step \in {0, 1})
=============================================================================

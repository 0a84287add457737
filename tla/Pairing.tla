------------------------------- MODULE Pairing -------------------------------
(***************************************************************************)
(* Pairing: which Solo the controller lets in.                             *)
(*                                                                         *)
(* A Solo that does not know the controller's Wi-Fi password asks for it   *)
(* with a WPS PIN request, which hostapd passes on to pair_server.py.  A   *)
(* Solo that knows it joins the network, and pair_solo.py repeats connect  *)
(* requests.  Unless the Solo is the paired one, the server asks the user: *)
(* a pair request goes through the stm32 daemon to the VehicleConnector of *)
(* the STM32, which shows the name; the user's answer comes back as a pair *)
(* confirm, and a pair result takes the prompt down.                       *)
(*                                                                         *)
(* Requests and results reach the STM32 through two sockets, in any order. *)
(* Connect requests and their acknowledgements may be lost.  init starts a *)
(* dead server again, and the whole controller may be started again: only  *)
(* the file of the paired Solo is left.                                    *)
(*                                                                         *)
(* Abstracted: names and MACs identify Solos; versions and the lock-out    *)
(* messages are left out; a message to or from the STM32 arrives before    *)
(* the next one of its kind is sent; a connect request counts for the Solo *)
(* its acknowledgement goes to.  The one address of a Solo is leased, but  *)
(* the lease lapses when its holder is off or out of range, and a reboot   *)
(* of the controller forgets it: so any number of Solos may be at it.      *)
(***************************************************************************)
EXTENDS Integers

CONSTANTS
    Solos,
    MaxCrashes,       \* how often pair_server.py dies, alone or with the controller
    None,             \* no Solo, no message
    Empty             \* the name ""

ASSUME PairingAssumption ==
    /\ MaxCrashes \in Nat
    /\ None \notin Solos /\ Empty \notin Solos /\ None # Empty

VARIABLES
    \* pair_server.py
    state, mac, needPin, confirmed,   \* state, solo.mac, solo.need_pin, solo.confirmed
    paired,           \* the Solo in pairing.conf
    blacklist,
    crashes,
    \* the stm32 daemon and VehicleConnector
    request, result,  \* the name on its way to the STM32
    answer,           \* the pair confirm on its way back
    heard,            \* is the daemon's peer address that of the running server?
    ui, device,       \* VehicleConnector's state and deviceID
    meant,            \* ghost: the name on the screen when the user answered
    current,          \* ghost: is what is on the screen about the wait the server is in?
    \* the Solos
    pc, key,          \* where pair_solo.py is; is there a network in wpa_supplicant.conf?
    linked,           \* confirmed in run_connected
    asked, ack,       \* the connect requests and acknowledgements in flight
    said,             \* ghost: which life of the server last said yes
    pinEvents, pins   \* PIN requests hostapd has passed on, PINs it was given  

server == << state, mac, needPin, confirmed, paired, blacklist, crashes >>
stm32 == << request, result, answer, heard, ui, device, meant, current >>
links == << asked, ack, said >>
wifi == << pinEvents, pins >>
solos == << pc, key, linked >>
vars == << server, stm32, solos, links, wifi >>

Answers == [name : Solos \cup {Empty}, meant : Solos, current : BOOLEAN]

Init ==
    /\ state = "IDLE" /\ mac = None /\ needPin = FALSE /\ confirmed = FALSE
    /\ paired \in Solos \cup {None} /\ blacklist = {} /\ crashes = 0
    /\ request = None /\ result = None /\ answer = None /\ heard = FALSE
    /\ ui = "Idle" /\ device = Empty /\ meant = None /\ current = FALSE
    /\ pc = [s \in Solos |-> "off"] /\ key \in [Solos -> BOOLEAN]
    /\ linked = [s \in Solos |-> FALSE]
    /\ asked = {} /\ ack = [s \in Solos |-> "none"]
    /\ said = [s \in Solos |-> 0]
    /\ pinEvents = {} /\ pins = {}

-----------------------------------------------------------------------------
(* pair_server.py: one pass of the state transition loop per message.      *)

\* What the user was asked, and has perhaps answered, is not asked any more.
Overtaken ==
    /\ current' = FALSE
    /\ answer' = IF answer = None THEN None ELSE [answer EXCEPT !.current = FALSE]

\* The user is asked about a Solo, for its PIN or for its connect request.
AskUser(s, pin) ==
    /\ request = None
    /\ request' = s
    /\ mac' = s /\ needPin' = pin
    /\ state' = "USER_WAIT"

\* solo.reset() and back to IDLE, with an empty result for the STM32.
BackToIdle ==
    /\ result = None
    /\ result' = Empty
    /\ mac' = None /\ needPin' = FALSE /\ confirmed' = FALSE
    /\ state' = "IDLE"

\* Mutant of IgnorePin: the request is parsed into solo before the state is looked at.
ParsedFirst(s) ==
    /\ s \in pinEvents
    /\ state # "IDLE"
    /\ pinEvents' = pinEvents \ {s}
    /\ mac' = s
    /\ UNCHANGED << state, needPin, confirmed, paired, blacklist, crashes, stm32, solos, links,
                    pins >>

\* A PIN request is ignored unless the server is idle.
IgnorePin(s) ==
    /\ s \in pinEvents
    /\ state # "IDLE"
    /\ pinEvents' = pinEvents \ {s}
    /\ UNCHANGED << server, stm32, solos, links, pins >>

\* handle_pin_request: a rejected Solo is ignored ...
PinRejected(s) ==
    /\ s \in pinEvents
    /\ state = "IDLE" /\ s \in blacklist
    /\ pinEvents' = pinEvents \ {s}
    /\ mac' = s
    /\ UNCHANGED << state, needPin, confirmed, paired, blacklist, crashes, stm32, solos, links,
                    pins >>

\* ... the paired one gets the PIN ...
PinPaired(s) ==
    /\ s \in pinEvents
    /\ state = "IDLE" /\ s \notin blacklist /\ s = paired
    /\ pinEvents' = pinEvents \ {s} /\ pins' = pins \cup {s}
    /\ mac' = s /\ confirmed' = FALSE
    /\ state' = "CONNECTED"
    /\ UNCHANGED << needPin, paired, blacklist, crashes, stm32, solos, links >>

\* ... and for any other one the user is asked.
PinUnknown(s) ==
    /\ s \in pinEvents
    /\ state = "IDLE" /\ s \notin blacklist /\ s # paired
    /\ pinEvents' = pinEvents \ {s}
    /\ AskUser(s, TRUE)
    /\ UNCHANGED << confirmed, paired, blacklist, crashes, result, answer, heard, ui, device,
                    meant, current, solos, links, pins >>

\* Mutant of PairConfirm's condition: the server takes an answer in any state.
InAnyState == TRUE

\* A pair confirm only counts while the server waits for the user.
Waiting == state = "USER_WAIT"

\* The user accepted, whatever name the answer carries: set_paired_solo, and the PIN.
PairConfirm ==
    /\ answer # None /\ Waiting
    /\ answer.name # Empty
    /\ paired' = mac
    /\ pins' = IF needPin THEN pins \cup {mac} ELSE pins
    /\ confirmed' = FALSE
    /\ state' = "CONNECTED"
    /\ answer' = None /\ current' = FALSE
    /\ UNCHANGED << mac, needPin, blacklist, crashes, request, result, heard, ui, device, meant,
                    solos, links, pinEvents >>

\* The user rejected.
PairReject ==
    /\ answer # None /\ Waiting
    /\ answer.name = Empty
    /\ BackToIdle
    /\ blacklist' = blacklist \cup {mac}
    /\ answer' = None /\ current' = FALSE
    /\ UNCHANGED << paired, crashes, request, heard, ui, device, meant, solos, links, wifi >>

IgnoreAnswer ==
    /\ answer # None /\ ~Waiting
    /\ answer' = None
    /\ UNCHANGED << server, request, result, heard, ui, device, meant, current, solos, links,
                    wifi >>

\* Mutant of UserTimeout: the timeout also fires when the user has answered.
TimeoutAlways ==
    /\ state # "IDLE"
    /\ BackToIdle
    /\ Overtaken
    /\ UNCHANGED << paired, blacklist, crashes, request, heard, ui, device, meant, solos, links,
                    wifi >>

\* check_user_wait_timeout
UserTimeout ==
    /\ state = "USER_WAIT"
    /\ BackToIdle
    /\ Overtaken
    /\ UNCHANGED << paired, blacklist, crashes, request, heard, ui, device, meant, solos, links,
                    wifi >>

Acknowledge(s, reply) ==
    /\ asked' = asked \ {s}
    /\ ack' = [ack EXCEPT ![s] = reply]
    /\ said' = IF reply = "yes" THEN [said EXCEPT ![s] = crashes] ELSE said

\* Mutant of ConnectYes: only the first request is answered.
YesOnce(s) ==
    /\ s \in asked
    /\ state = "CONNECTED" /\ s = mac /\ ~confirmed
    /\ Acknowledge(s, "yes")
    /\ result = None /\ result' = s
    /\ confirmed' = TRUE
    /\ UNCHANGED << state, mac, needPin, paired, blacklist, crashes, request, answer, heard, ui,
                    device, meant, current, solos, wifi >>

\* Mutant of ConnectYes: whoever asks is told yes.
ConnectYesAnyone(s) ==
    /\ s \in asked
    /\ state = "CONNECTED"
    /\ Acknowledge(s, "yes")
    /\ IF confirmed THEN UNCHANGED result ELSE result = None /\ result' = s
    /\ confirmed' = TRUE
    /\ UNCHANGED << state, mac, needPin, paired, blacklist, crashes, request, answer, heard, ui,
                    device, meant, current, solos, wifi >>

\* Connected: the connected Solo is told yes; the first time the STM32 hears it.
ConnectYes(s) ==
    /\ s \in asked
    /\ state = "CONNECTED" /\ s = mac
    /\ Acknowledge(s, "yes")
    /\ IF confirmed THEN UNCHANGED result ELSE result = None /\ result' = s
    /\ confirmed' = TRUE
    /\ UNCHANGED << state, mac, needPin, paired, blacklist, crashes, request, answer, heard, ui,
                    device, meant, current, solos, wifi >>

\* Mutant of ConnectPaired: any Solo that is not rejected becomes the connected one.
ConnectAny(s) ==
    /\ s \in asked
    /\ state = "IDLE" /\ s \notin blacklist
    /\ Acknowledge(s, "yes")
    /\ mac' = s /\ confirmed' = TRUE
    /\ state' = "CONNECTED"
    /\ UNCHANGED << needPin, paired, blacklist, crashes, stm32, solos, wifi >>

\* Idle: the paired Solo becomes the connected one ...
ConnectPaired(s) ==
    /\ s \in asked
    /\ state = "IDLE" /\ s = paired
    /\ Acknowledge(s, "yes")
    /\ mac' = s /\ confirmed' = TRUE
    /\ state' = "CONNECTED"
    /\ UNCHANGED << needPin, paired, blacklist, crashes, stm32, solos, wifi >>

\* ... and for one that is neither paired nor rejected the user is asked.
ConnectUnknown(s) ==
    /\ s \in asked
    /\ state = "IDLE" /\ s # paired /\ s \notin blacklist
    /\ Acknowledge(s, "pend")
    /\ AskUser(s, FALSE)
    /\ confirmed' = FALSE
    /\ UNCHANGED << paired, blacklist, crashes, result, answer, heard, ui, device, meant, current,
                    solos, wifi >>

\* Waiting: the Solo the user is asked about has to wait too.
ConnectPending(s) ==
    /\ s \in asked
    /\ state = "USER_WAIT" /\ s = mac
    /\ Acknowledge(s, "pend")
    /\ UNCHANGED << server, stm32, solos, wifi >>

\* Every other Solo is told no.
ConnectNo(s) ==
    /\ s \in asked
    /\ IF state = "IDLE" THEN s # paired /\ s \in blacklist ELSE s # mac
    /\ Acknowledge(s, "no")
    /\ UNCHANGED << server, stm32, solos, wifi >>

\* The server dies; what waits in its sockets is lost.
Dies ==
    /\ crashes < MaxCrashes
    /\ crashes' = crashes + 1
    /\ state' = "IDLE" /\ mac' = None /\ needPin' = FALSE /\ confirmed' = FALSE
    /\ blacklist' = {}
    /\ answer' = None /\ heard' = FALSE /\ current' = FALSE
    /\ asked' = {} /\ pinEvents' = {}

\* It is started again; what it sent to the STM32 has arrived when the next one runs.
Restart ==
    /\ Dies
    /\ request = None
    /\ UNCHANGED << request, result, ui, device, meant, solos, ack, said, pins >>

Crash == Restart /\ UNCHANGED paired

\* It dies between truncating and writing pairing.conf.
CrashInWrite ==
    /\ answer # None /\ Waiting /\ answer.name # Empty
    /\ Restart
    /\ paired' = None

\* The controller is started again, with or without the STM32: hostapd has forgotten the
\* PINs, while the Solos go on and associate again.
Reboot ==
    /\ Dies
    /\ \/ UNCHANGED paired
       \/ answer # None /\ Waiting /\ answer.name # Empty /\ paired' = None
    /\ request' = None /\ result' = None
    /\ \/ UNCHANGED << ui, device, meant >>
       \/ ui' = "Idle" /\ device' = Empty /\ meant' = None
    /\ ack' = [s \in Solos |-> "none"] /\ pins' = {}
    /\ UNCHANGED << solos, said >>

ServerNext ==
    \/ \E s \in Solos :
        \/ IgnorePin(s) \/ PinRejected(s) \/ PinPaired(s) \/ PinUnknown(s)
        \/ ConnectYes(s) \/ ConnectPaired(s) \/ ConnectUnknown(s) \/ ConnectPending(s)
        \/ ConnectNo(s)
    \/ PairConfirm \/ PairReject \/ IgnoreAnswer \/ UserTimeout

-----------------------------------------------------------------------------
(* The stm32 daemon and VehicleConnector.                                  *)

\* onPairingRequest; the daemon now knows the address of the server.
RequestArrives ==
    /\ request # None
    /\ request' = None
    /\ heard' = TRUE
    /\ ui' = "RequestReceived" /\ device' = request
    /\ meant' = None /\ current' = (state = "USER_WAIT")
    /\ UNCHANGED << result, answer, server, solos, links, wifi >>

\* Mutant of ResultArrives: a result for another name leaves the prompt alone.
ResultMatches ==
    /\ result # None
    /\ result' = None
    /\ IF result = device THEN ui' = "Idle" /\ device' = Empty ELSE UNCHANGED << ui, device >>
    /\ UNCHANGED << request, answer, heard, meant, current, server, solos, links, wifi >>

\* onPairingResult: any result ends the prompt.
ResultArrives ==
    /\ result # None
    /\ result' = None
    /\ ui' = "Idle" /\ device' = Empty /\ meant' = None /\ current' = FALSE
    /\ UNCHANGED << request, answer, heard, server, solos, links, wifi >>

\* onButtonEvent: A and B held for long accept, a click on B rejects.
Accept ==
    /\ ui = "RequestReceived"
    /\ ui' = "ConfirmationReceived"
    /\ meant' = device
    /\ UNCHANGED << request, result, answer, heard, device, current, server, solos, links, wifi >>

Reject ==
    /\ ui = "RequestReceived"
    /\ ui' = "ConfirmationReceived" /\ device' = Empty
    /\ meant' = device
    /\ UNCHANGED << request, result, answer, heard, current, server, solos, links, wifi >>

\* producePacket; the daemon sends the answer to the last address it heard.
SendConfirm ==
    /\ ui = "ConfirmationReceived" /\ answer = None
    /\ ui' = "ConfirmationSent"
    /\ answer' = IF heard THEN [name |-> device, meant |-> meant, current |-> current] ELSE None
    /\ meant' = None
    /\ UNCHANGED << request, result, heard, device, current, server, solos, links, wifi >>

Stm32Next == RequestArrives \/ ResultArrives \/ Accept \/ Reject \/ SendConfirm

-----------------------------------------------------------------------------
(* pair_solo.py on every Solo.                                             *)

\* pair_solo: is_paired decides whether to bring the network up or wait for the button.
Top(known) == IF known THEN "up" ELSE "button"

PowerOn(s) ==
    /\ pc[s] = "off"
    /\ pc' = [pc EXCEPT ![s] = Top(key[s])]
    /\ UNCHANGED << key, linked, server, stm32, links, wifi >>

\* network_down, and what was in flight is lost.
NetworkDown(s) ==
    /\ linked' = [linked EXCEPT ![s] = FALSE]
    /\ asked' = asked \ {s} /\ ack' = [ack EXCEPT ![s] = "none"]
    /\ said' = [said EXCEPT ![s] = 0]

PowerOff(s) ==
    /\ pc[s] # "off"
    /\ pc' = [pc EXCEPT ![s] = "off"]
    /\ NetworkDown(s)
    /\ UNCHANGED << key, server, stm32, wifi >>

\* The pairing button ends the wait for it or for the network.
Button(s) ==
    /\ pc[s] \in {"button", "up"}
    /\ pc' = [pc EXCEPT ![s] = "pin"]
    /\ UNCHANGED << key, linked, server, stm32, links, wifi >>

\* pin_pair: hostapd reports a Solo it has no PIN for ...
PinScan(s) ==
    /\ pc[s] = "pin" /\ s \notin pins
    /\ pinEvents' = pinEvents \cup {s}
    /\ UNCHANGED << solos, server, stm32, links, pins >>

\* ... and lets in one that it has.
PinCompleted(s) ==
    /\ pc[s] = "pin" /\ s \in pins
    /\ pins' = pins \ {s}
    /\ key' = [key EXCEPT ![s] = TRUE]
    /\ pc' = [pc EXCEPT ![s] = Top(TRUE)]
    /\ UNCHANGED << linked, server, stm32, links, pinEvents >>

\* The attempt ends without.
PinInactive(s) ==
    /\ pc[s] = "pin"
    /\ pc' = [pc EXCEPT ![s] = Top(key[s])]
    /\ UNCHANGED << key, linked, server, stm32, links, wifi >>

\* network_up: associated, and at the address of a Solo, which is tried until the
\* lease of the Solo before has ended.
NetworkUp(s) ==
    /\ pc[s] = "up"
    /\ pc' = [pc EXCEPT ![s] = "conn"]
    /\ UNCHANGED << key, linked, links, server, stm32, wifi >>

\* run_connected sends a connect request ...
Ask(s) ==
    /\ pc[s] = "conn" /\ s \notin asked /\ ack[s] = "none"
    /\ asked' = asked \cup {s}
    /\ UNCHANGED << solos, ack, said, server, stm32, wifi >>

\* ... and takes the acknowledgement: yes and pending ...
Acked(s) ==
    /\ pc[s] = "conn" /\ ack[s] \in {"yes", "pend"}
    /\ ack' = [ack EXCEPT ![s] = "none"]
    /\ linked' = [linked EXCEPT ![s] = linked[s] \/ ack[s] = "yes"]
    /\ UNCHANGED << pc, key, asked, said, server, stm32, wifi >>

\* ... no, when it was not confirmed ...
Refused(s) ==
    /\ pc[s] = "conn" /\ ~linked[s] /\ ack[s] = "no"
    /\ NetworkDown(s)
    /\ pc' = [pc EXCEPT ![s] = "pin"]
    /\ UNCHANGED << key, server, stm32, wifi >>

\* ... the button, when there is no answer ...
GiveUp(s) ==
    /\ pc[s] = "conn" /\ ~linked[s] /\ ack[s] = "none"
    /\ NetworkDown(s)
    /\ pc' = [pc EXCEPT ![s] = "pin"]
    /\ UNCHANGED << key, server, stm32, wifi >>

\* ... and a confirmed Solo ignores a no.
IgnoreNo(s) ==
    /\ pc[s] = "conn" /\ linked[s] /\ ack[s] = "no"
    /\ ack' = [ack EXCEPT ![s] = "none"]
    /\ UNCHANGED << solos, asked, said, server, stm32, wifi >>

\* The network loses a request or an acknowledgement.
Lose(s) ==
    /\ s \in asked \/ ack[s] # "none"
    /\ asked' = asked \ {s} /\ ack' = [ack EXCEPT ![s] = "none"]
    /\ UNCHANGED << solos, said, server, stm32, wifi >>

SoloNext(s) ==
    \/ PowerOn(s) \/ PowerOff(s) \/ Button(s) \/ PinScan(s) \/ PinCompleted(s) \/ PinInactive(s)
    \/ NetworkUp(s) \/ Ask(s) \/ Acked(s) \/ Refused(s) \/ GiveUp(s) \/ IgnoreNo(s)
    \/ Lose(s)

Next ==
    \/ ServerNext \/ Crash \/ CrashInWrite \/ Reboot
    \/ Stm32Next
    \/ \E s \in Solos : SoloNext(s)

Spec == Init /\ [][Next]_vars

\* The server's loop gets to every message and looks at the timeout in every pass;
\* what is sent to the STM32 arrives; a Solo goes on, and gets the address when no other
\* Solo is on the network; and the network does not lose everything.  Nobody has to
\* press a button or answer.
Fairness ==
    /\ WF_vars(UserTimeout) /\ WF_vars(PairConfirm \/ PairReject \/ IgnoreAnswer)
    /\ WF_vars(RequestArrives) /\ WF_vars(ResultArrives) /\ WF_vars(SendConfirm)
    /\ \A s \in Solos :
        /\ WF_vars(PinPaired(s) \/ PinUnknown(s) \/ PinRejected(s) \/ IgnorePin(s))
        /\ SF_vars(ConnectYes(s) \/ ConnectPaired(s) \/ ConnectUnknown(s) \/ ConnectPending(s)
                   \/ ConnectNo(s))
        /\ WF_vars((\A t \in Solos \ {s} : pc[t] # "conn") /\ NetworkUp(s))
        /\ WF_vars(PinInactive(s)) /\ WF_vars(Ask(s))
        /\ SF_vars(Acked(s) \/ Refused(s) \/ IgnoreNo(s))

-----------------------------------------------------------------------------
(* Properties.                                                             *)

\* Every variable has its type.
TypeOK ==
    /\ state \in {"IDLE", "USER_WAIT", "CONNECTED"} /\ mac \in Solos \cup {None}
    /\ needPin \in BOOLEAN /\ confirmed \in BOOLEAN
    /\ paired \in Solos \cup {None} /\ blacklist \subseteq Solos /\ crashes \in 0..MaxCrashes
    /\ request \in Solos \cup {None} /\ result \in Solos \cup {Empty, None}
    /\ answer \in Answers \cup {None} /\ heard \in BOOLEAN
    /\ ui \in {"Idle", "RequestReceived", "ConfirmationReceived", "ConfirmationSent"}
    /\ device \in Solos \cup {Empty} /\ meant \in Solos \cup {None} /\ current \in BOOLEAN
    /\ pc \in [Solos -> {"off", "button", "pin", "up", "conn"}]
    /\ key \in [Solos -> BOOLEAN] /\ linked \in [Solos -> BOOLEAN]
    /\ asked \subseteq Solos /\ ack \in [Solos -> {"none", "yes", "no", "pend"}]
    /\ said \in [Solos -> 0..MaxCrashes]
    /\ pinEvents \subseteq Solos /\ pins \subseteq Solos

\* The Solo the server is connected with is the one the user is taken to have
\* approved last, even after crashes in the middle of a pairing.
ConnectedIsPaired == state = "CONNECTED" => mac = paired

\* As long as the server lives, the Solo that holds itself confirmed - and only
\* that Solo - is the one the server is connected with.
Agreement == crashes = 0 => \A s \in Solos : linked[s] => state = "CONNECTED" /\ mac = s

\* Two Solos that hold themselves confirmed at once were told so by different lives of
\* the server: one life never confirms a second Solo while the first may still believe it.
OnePerLife == \A s, t \in Solos : linked[s] /\ linked[t] /\ s # t => said[s] # said[t]

\* A Solo the server counts as rejected is never asked about or let in and is not
\* the paired one, and as long as the server lives it has no PIN and is not confirmed.
RejectedStaysOut ==
    \A s \in blacklist :
        /\ s # paired
        /\ state # "IDLE" => s # mac
        /\ crashes = 0 => s \notin pins /\ ~linked[s]

\* The password is only given to the paired Solo and to one that the user approved
\* by name, unless the answer was to a question that was not asked any more.
ByNameUnlessLate ==
    [][\A s \in pins' \ pins : s = paired \/ (answer.current => answer.meant = s)]_vars

\* The password is only given to the Solo that the user approved by name.
ApprovedByName == [][\A s \in pins' \ pins : s = paired \/ answer.meant = s]_vars

\* A prompt is taken down in the end, whether the user answers or not, unless the
\* server that asked has died or has taken a late answer to the question before.
PromptEnds ==
    crashes = MaxCrashes /\ ui = "RequestReceived" /\ current
        ~> ui # "RequestReceived" \/ state = "CONNECTED"

\* How often the user has pressed yes, or no, without an effect so far: the press that
\* VehicleConnector has still to send, and the answer on its way to the server.
Count(b) == IF b THEN 1 ELSE 0
Yes ==
    Count(ui = "ConfirmationReceived" /\ device # Empty)
    + Count(answer # None /\ answer.name # Empty)
No ==
    Count(ui = "ConfirmationReceived" /\ device = Empty)
    + Count(answer # None /\ answer.name = Empty)

\* pair_server.py lets in the paired Solo, or for one press of the user one other Solo,
\* and then nobody else until it dies, whatever is lost or late on the way.
Adm == INSTANCE Admission WITH
    owner <- paired, guest <- IF state = "CONNECTED" THEN mac ELSE None,
    barred <- blacklist, granted <- pins, told <- {s \in Solos : linked[s]},
    yes <- Yes, no <- No, restarted <- crashes > 0
AdmissionSpec == Adm!Spec

=============================================================================

--------------------------- MODULE FlightCommands ---------------------------
(***************************************************************************)
(* The one command the controller can have under way to the vehicle        *)
(* (artoo: FlightManager), and the state of the vehicle it decides by.     *)
(*                                                                         *)
(* A command is set by button interrupts, by the main loop when a button   *)
(* has been held, and by the main loop when the vehicle tells something.   *)
(* In the main loop interrupts come between the statements of a set; an    *)
(* interrupt's handler is one step.  The command's argument is a union, so *)
(* a new argument replaces the old command's.  The command leaves when the *)
(* link to the host asks for it: requestTransaction and the completion     *)
(* interrupt are single steps here, their own interleavings are HostLink's.*)
(***************************************************************************)
EXTENDS Naturals

CONSTANTS
    LinkDuration,   \* LINK_CONN_DURATION, in heartbeats
    Modes           \* flight modes of this instance

STABILIZE == 0
ALT_HOLD  == 2
LOITER    == 5
RTL       == 6
SMART_RTL == 21

ASSUME LinkDurationAssumption == LinkDuration \in Nat \ {0}
ASSUME ModesAssumption ==
    /\ Modes \subseteq 0..24
    /\ {STABILIZE, ALT_HOLD, LOITER, RTL, SMART_RTL} \subseteq Modes

\* flightModeIsAutonomous
Autonomous(m) == m \in {3, 4, 5, 6, 7, 11} \cup 16..24

VARIABLES
    cmd,       \* command: its id, state, and the union of arguments
    main,      \* the main loop: position, the request it makes, a heartbeat message
    busy,      \* HostProtocol::txPending
    link,      \* linkConnCounter
    veh,       \* armState, mode and systemStatus, as last told by the vehicle
    flag,      \* flagRCFailsafe
    charged,   \* is the vehicle's battery known not to be critical?
    locked,    \* Lockout::lockedOut
    override,  \* ManualOverride::enabled
    wanted,    \* ghost: the newest request, while it has not been sent
    mixed      \* ghost: cmd may hold parts of two requests

vars == << cmd, main, busy, link, veh, flag, charged, locked, override, wanted, mixed >>

settings == << charged, locked, override >>

-----------------------------------------------------------------------------
(* Requests and messages.  A message is what sendCmd makes of cmd.         *)

NoVal == 99   \* the request has no argument
DISARM_FORCE == 2   \* ArmState DisarmForce

Mode(m)      == [id |-> "SetFlightMode", val |-> m]
ForceDisarm  == [id |-> "SetArmState", val |-> DISARM_FORCE]
HomeWaypoint == [id |-> "GetHomeWaypoint", val |-> 0]
Plain(id)    == [id |-> id, val |-> NoVal]
NoReq        == Plain("None")

Buttons  == {"FlyButtonClick", "FlyButtonHold", "PauseButtonClick"}
Requests == {Mode(m) : m \in Modes} \cup {ForceDisarm, HomeWaypoint}
              \cup {Plain(b) : b \in Buttons}
Ids  == {"None", "SetFlightMode", "SetArmState", "GetHomeWaypoint"} \cup Buttons
Vals == Modes   \* the other arguments are the numbers of two modes

Message(c) ==
    IF c.id \in {"SetFlightMode", "SetArmState", "GetHomeWaypoint"}
      THEN [id |-> c.id, val |-> c.val]
      ELSE Plain(c.id)

WithVal(c, r) == IF r.val = NoVal THEN c ELSE [c EXCEPT !.val = r.val]

\* A request in an interrupt: argument, and Command::set.
Set(c, r) == [WithVal(c, r) EXCEPT !.id = r.id, !.state = "Pending"]

Beats  == [armed : BOOLEAN, mode : Modes, status : {"uninit", "standby", "active"}]
NoBeat == [armed |-> FALSE, mode |-> LOITER, status |-> "none"]
Looping == [pc |-> "loop", req |-> NoReq, beat |-> NoBeat, hit |-> FALSE]

\* Mutant of Connected: one tick more.
ConnectedLong == link <= LinkDuration

Connected == link < LinkDuration
InFlight  == veh.armed /\ veh.status = "active"

Init ==
    /\ cmd = [id |-> "None", state |-> "Complete", val |-> 0]
    /\ main = Looping
    /\ busy = FALSE
    /\ link = LinkDuration
    /\ veh = [armed |-> FALSE, mode |-> STABILIZE, status |-> "uninit"]
    /\ flag = FALSE
    /\ charged = FALSE
    /\ locked = FALSE
    /\ override = FALSE
    /\ wanted = NoReq
    /\ mixed = FALSE

-----------------------------------------------------------------------------
(* The link to the host.                                                   *)

\* Mutant of Sent: the command stays pending.
SentAgain(c) == c

\* The link takes the command, if there is one.
Sent(c) == IF c.state = "Pending" THEN [c EXCEPT !.state = "Sent"] ELSE c

\* requestTransaction after a request r that made the command c: the link is
\* busy, or asks a source before this one, or takes the command.
Ask(c, r) ==
    \/ /\ busy' = TRUE
       /\ cmd' = c
       /\ wanted' = r
    \/ /\ ~busy
       /\ c.state = "Pending"
       /\ busy' = TRUE
       /\ cmd' = Sent(c)
       /\ wanted' = NoReq

\* Mutant of TxComplete: the link becomes idle without looking at the command.
TxCompleteIdle ==
    /\ busy
    /\ busy' = FALSE
    /\ UNCHANGED << cmd, main, link, veh, flag, settings, wanted, mixed >>

\* onTxComplete, when no source before this one has a packet.
TxComplete ==
    /\ busy
    /\ busy' = (cmd.state = "Pending")
    /\ cmd' = Sent(cmd)
    /\ wanted' = NoReq
    /\ UNCHANGED << main, link, veh, flag, settings, mixed >>

\* Another source starts a transmission.
OtherSource ==
    /\ ~busy
    /\ busy' = TRUE
    /\ UNCHANGED << cmd, main, link, veh, flag, settings, wanted, mixed >>

-----------------------------------------------------------------------------
(* Button interrupts.                                                      *)

\* The main loop has written a part of the command, and will write the rest.
HalfSet == main.pc = "state" \/ (main.pc = "id" /\ main.req.val # NoVal)

IsrRequest(r) ==
    /\ mixed' = HalfSet
    /\ main' = IF HalfSet THEN [main EXCEPT !.hit = TRUE] ELSE main
    /\ Ask(Set(cmd, r), IF HalfSet THEN NoReq ELSE r)
    /\ UNCHANGED << link, veh, flag, settings >>

FlyAllowed == ~locked /\ Connected /\ (InFlight \/ charged)
RtlAllowed == ~locked /\ Connected /\ InFlight

FlyClick   == FlyAllowed /\ IsrRequest(Plain("FlyButtonClick"))
PauseClick == InFlight /\ IsrRequest(Plain("PauseButtonClick"))

\* A click of RTL, or its release after a hold.
RtlRelease(m) == RtlAllowed /\ veh.mode # m /\ IsrRequest(Mode(m))

AClick == Connected /\ override /\ veh.mode # ALT_HOLD /\ IsrRequest(Mode(ALT_HOLD))

ButtonIsr == FlyClick \/ PauseClick \/ AClick \/ \E m \in {RTL, SMART_RTL} : RtlRelease(m)

-----------------------------------------------------------------------------
(* Requests in the main loop, statement by statement.                      *)

At(pc) == main.pc = pc
Goto(pc) == main' = [main EXCEPT !.pc = pc]

\* The first statement to come of a request; a request without argument only
\* calls Command::set.
Begin(r, beat) ==
    main' = [pc |-> IF r.val = NoVal THEN "id" ELSE "value",
             req |-> r, beat |-> beat, hit |-> FALSE]

WriteVal ==
    /\ At("value")
    /\ cmd' = [cmd EXCEPT !.val = main.req.val]
    /\ mixed' = (mixed \/ cmd.state = "Pending")
    /\ wanted' = IF mixed' THEN NoReq ELSE wanted
    /\ Goto("id")
    /\ UNCHANGED << busy, link, veh, flag, settings >>

WriteId ==
    /\ At("id")
    /\ cmd' = [cmd EXCEPT !.id = main.req.id]
    /\ mixed' = (mixed \/ cmd.state = "Pending")
    /\ wanted' = IF mixed' THEN NoReq ELSE wanted
    /\ Goto("state")
    /\ UNCHANGED << busy, link, veh, flag, settings >>

WriteState ==
    /\ At("state")
    /\ cmd' = [cmd EXCEPT !.state = "Pending"]
    /\ mixed' = main.hit
    /\ wanted' = IF main.hit THEN NoReq ELSE main.req
    /\ main' = [Looping EXCEPT !.pc = "ask", !.beat = main.beat]
    /\ UNCHANGED << busy, link, veh, flag, settings >>

\* requestTransaction; a message from the vehicle has more to say after it.
\* The interrupts may have sent the command already.
AskHost ==
    /\ At("ask")
    /\ \/ Ask(cmd, wanted)
       \/ ~busy /\ cmd.state # "Pending" /\ UNCHANGED << busy, cmd, wanted >>
    /\ main' = [Looping EXCEPT !.pc = IF main.beat = NoBeat THEN "loop" ELSE "beat",
                               !.beat = main.beat]
    /\ UNCHANGED << link, veh, flag, settings, mixed >>

Statement == WriteVal \/ WriteId \/ WriteState \/ AskHost

-----------------------------------------------------------------------------
(* What the main loop does.                                                *)

\* A held button: FLY, RTL, or A, B and pause together.
FlyHold    == FlyAllowed /\ Begin(Plain("FlyButtonHold"), NoBeat)
RtlHold    == RtlAllowed /\ veh.mode # SMART_RTL /\ Begin(Mode(SMART_RTL), NoBeat)
ForceHold  == veh.armed /\ Begin(ForceDisarm, NoBeat)

HoldTask ==
    /\ At("loop")
    /\ FlyHold \/ RtlHold \/ ForceHold
    /\ UNCHANGED << cmd, busy, link, veh, flag, settings, wanted, mixed >>

\* All five buttons held long.
SetOverride ==
    /\ At("loop")
    /\ ~override /\ override' = TRUE
    /\ UNCHANGED << cmd, main, busy, link, veh, flag, charged, locked, wanted, mixed >>

\* A lock-out message from the host.
HostLock ==
    /\ At("loop")
    /\ locked' = ~locked
    /\ UNCHANGED << cmd, main, busy, link, veh, flag, charged, override, wanted, mixed >>

\* sysHeartbeat counts; when the vehicle has been silent too long it calls
\* linkDisconnected, whose statements the next three steps are: the buttons see
\* the link lost before the vehicle counts as not flying.
SysHeartbeat ==
    /\ At("loop")
    /\ Connected
    /\ link' = link + 1
    /\ IF link' >= LinkDuration THEN Goto("lost") ELSE UNCHANGED main
    /\ UNCHANGED << cmd, busy, veh, flag, settings, wanted, mixed >>

\* if (inFlight()) flagRCFailsafe = true
NoteFailsafe ==
    /\ At("lost")
    /\ flag' = (flag \/ InFlight)
    /\ Goto("forget")
    /\ UNCHANGED << cmd, busy, link, veh, settings, wanted, mixed >>

\* Mutant of ForgetStatus: linkDisconnected leaves the system status.
ForgetNothing ==
    /\ At("forget")
    /\ Goto("clear")
    /\ UNCHANGED << cmd, busy, link, veh, flag, settings, wanted, mixed >>

\* systemStatus = MAV_STATE_UNINIT
ForgetStatus ==
    /\ At("forget")
    /\ veh' = [veh EXCEPT !.status = "uninit"]
    /\ Goto("clear")
    /\ UNCHANGED << cmd, busy, link, flag, settings, wanted, mixed >>

\* telemetryVals.clear()
ClearTelemetry ==
    /\ At("clear")
    /\ charged' = FALSE
    /\ Goto("loop")
    /\ UNCHANGED << cmd, busy, link, veh, flag, locked, override, wanted, mixed >>

LinkDisconnected == NoteFailsafe \/ ForgetStatus \/ ClearTelemetry

\* resetLinkConnCount for a message that is no heartbeat.
KeepAlive == link' = IF Connected THEN 0 ELSE link

\* SYS_STATUS: the battery's level.
SysStatus ==
    /\ At("loop")
    /\ KeepAlive
    /\ charged' \in BOOLEAN
    /\ UNCHANGED << cmd, main, busy, veh, flag, locked, override, wanted, mixed >>

\* STATUSTEXT "Arm: Mode not armable"
NotArmable ==
    /\ At("loop")
    /\ KeepAlive
    /\ IF veh.mode # LOITER THEN Begin(Mode(LOITER), NoBeat) ELSE UNCHANGED main
    /\ UNCHANGED << cmd, busy, veh, flag, settings, wanted, mixed >>

\* HEARTBEAT of the Pixhawk: linkConnected forgets the command; onArmStateChanged
\* may make a request before the rest of the message is looked at.  (The program
\* that speaks as Solo, whose messages do not reset the counter, sends none.)
VehicleBeat(b) ==
    /\ At("loop")
    /\ link' = 0
    /\ IF Connected
         THEN UNCHANGED << cmd, wanted >>
         ELSE cmd' = [cmd EXCEPT !.state = "Complete"] /\ wanted' = NoReq
    /\ IF b.armed /\ ~veh.armed
         THEN Begin(HomeWaypoint, b)
       ELSE IF veh.armed /\ ~b.armed /\ Autonomous(veh.mode) /\ veh.mode # LOITER
         THEN Begin(Mode(LOITER), b)
       ELSE main' = [Looping EXCEPT !.pc = "beat", !.beat = b]
    /\ UNCHANGED << busy, veh, flag, settings, mixed >>

\* updateRCFailsafeState, when the system status has changed
Heard(b) == flag /\ b.status = veh.status

\* The rest of a heartbeat: the interrupts see the state of the vehicle change
\* one variable at a time.
StoreArmed ==
    /\ At("beat")
    /\ veh' = [veh EXCEPT !.armed = main.beat.armed]
    /\ Goto("mode")
    /\ UNCHANGED << cmd, busy, link, flag, settings, wanted, mixed >>

StoreMode ==
    /\ At("mode")
    /\ veh' = [veh EXCEPT !.mode = main.beat.mode]
    /\ Goto("status")
    /\ UNCHANGED << cmd, busy, link, flag, settings, wanted, mixed >>

StoreStatus ==
    /\ At("status")
    /\ veh' = [veh EXCEPT !.status = main.beat.status]
    /\ flag' = Heard(main.beat)
    /\ main' = Looping
    /\ UNCHANGED << cmd, busy, link, settings, wanted, mixed >>

EndBeat == StoreArmed \/ StoreMode \/ StoreStatus

MavlinkMessage == SysStatus \/ NotArmable \/ EndBeat \/ \E b \in Beats : VehicleBeat(b)

Next ==
    \/ ButtonIsr
    \/ TxComplete \/ OtherSource
    \/ Statement
    \/ HoldTask \/ SetOverride \/ HostLock
    \/ SysHeartbeat \/ LinkDisconnected
    \/ MavlinkMessage

Spec == Init /\ [][Next]_vars

-----------------------------------------------------------------------------
(* Properties.                                                             *)

\* Every variable has its type.
TypeOK ==
    /\ cmd \in [id : Ids, state : {"Complete", "Pending", "Sent"}, val : Vals]
    /\ main \in [pc : {"loop", "value", "id", "state", "ask", "beat", "mode", "status",
                       "lost", "forget", "clear"},
                 req : Requests \cup {NoReq}, beat : Beats \cup {NoBeat}, hit : BOOLEAN]
    /\ main.pc \in {"value", "id", "state"} => main.req \in Requests
    /\ main.pc = "value" => main.req.val # NoVal
    /\ main.pc \in {"beat", "mode", "status"} => main.beat \in Beats
    /\ busy \in BOOLEAN
    /\ link \in 0..LinkDuration
    /\ veh \in Beats
    /\ flag \in BOOLEAN
    /\ charged \in BOOLEAN /\ locked \in BOOLEAN /\ override \in BOOLEAN
    /\ wanted \in Requests \cup {NoReq}
    /\ mixed \in BOOLEAN

\* The command that waits is the newest request, whole, and a request leaves
\* once.  The two exceptions make the command a mixture: a set in the main loop
\* that finds a command waiting, until the set is complete, and a set in the
\* main loop that is interrupted by another one.
OneCommand == ~mixed => wanted = IF cmd.state = "Pending" THEN Message(cmd) ELSE NoReq

\* While the link is down, and as long as the loss of the controller in flight
\* has not been answered by a heartbeat, the vehicle counts as not flying,
\* whatever statement of a request or of a heartbeat is under way: no button but
\* a forced disarm flies it.  The exception are the statements of linkDisconnected
\* before it forgets the system status, when a click of pause still sets a command.
LostNotFlying == ~Connected \/ flag => ~InFlight \/ main.pc \in {"lost", "forget"}

\* A command that waits is not stranded: a transmission is under way, whose
\* completion will take the command, or the main loop is about to ask for one.
NeverStranded == cmd.state = "Pending" => busy \/ main.pc = "ask"

=============================================================================

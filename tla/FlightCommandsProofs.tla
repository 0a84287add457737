------------------------ MODULE FlightCommandsProofs ------------------------
(***************************************************************************)
(* Proofs about FlightCommands, for every set of flight modes and every    *)
(* LINK_CONN_DURATION: the command that waits is the newest request,       *)
(* a waiting command is never stranded, and a vehicle that is not heard    *)
(* counts as not flying.                                                   *)
(***************************************************************************)
EXTENDS FlightCommands, TLAPS

USE DEF STABILIZE, ALT_HOLD, LOITER, RTL, SMART_RTL, NoVal, DISARM_FORCE

\* What the main loop has written of its request is still there, unless an
\* interrupt has set a command since.
Written ==
    ~main.hit =>
        /\ main.pc = "state" => cmd.id = main.req.id
        /\ main.pc \in {"id", "state"} /\ main.req.val # NoVal => cmd.val = main.req.val

\* A heartbeat is only looked at while the link is up, and a vehicle that is not
\* heard has no system status once linkDisconnected has forgotten it.
Heeded ==
    /\ main.pc \in {"loop", "lost", "forget", "clear"} => main.beat = NoBeat
    /\ main.beat # NoBeat => Connected
    /\ main.pc \in {"lost", "forget", "clear"} => ~Connected
    /\ ~Connected \/ flag => veh.status = "uninit" \/ main.pc \in {"lost", "forget"}

FlightInv == TypeOK /\ Written /\ OneCommand /\ Heeded /\ NeverStranded

-----------------------------------------------------------------------------
(* The two halves of the type invariant.                                   *)

MainType(m) ==
    /\ m \in [pc : {"loop", "value", "id", "state", "ask", "beat", "mode", "status",
                   "lost", "forget", "clear"},
             req : Requests \cup {NoReq}, beat : Beats \cup {NoBeat}, hit : BOOLEAN]
    /\ m.pc \in {"value", "id", "state"} => m.req \in Requests
    /\ m.pc = "value" => m.req.val # NoVal
    /\ m.pc \in {"beat", "mode", "status"} => m.beat \in Beats

Commands == [id : Ids, state : {"Complete", "Pending", "Sent"}, val : Vals]

RestType ==
    /\ cmd \in Commands
    /\ busy \in BOOLEAN
    /\ link \in 0..LinkDuration
    /\ veh \in Beats
    /\ flag \in BOOLEAN
    /\ charged \in BOOLEAN /\ locked \in BOOLEAN /\ override \in BOOLEAN
    /\ wanted \in Requests \cup {NoReq}
    /\ mixed \in BOOLEAN

\* The type invariant is the type of the main loop and the rest.
LEMMA TypeParts ==
    /\ TypeOK <=> MainType(main) /\ RestType
    /\ TypeOK' <=> MainType(main') /\ RestType'
BY DEF TypeOK, MainType, RestType, Commands

-----------------------------------------------------------------------------
(* Requests.                                                               *)

\* Every request is made of an id and an argument of the command's types.
LEMMA RequestTypes ==
    ASSUME NEW r \in Requests
    PROVE  /\ r.id \in Ids \ {"None"}
           /\ r.val # NoVal => r.val \in Vals
           /\ r = [id |-> r.id, val |-> r.val]
           /\ r.val = NoVal <=> r.id \in Buttons
BY ModesAssumption
   DEF Requests, Ids, Vals, Buttons, Mode, ForceDisarm, HomeWaypoint, Plain

\* The requests the buttons and the vehicle make are requests.
LEMMA TheRequests ==
    /\ \A b \in Buttons : Plain(b) \in Requests
    /\ \A m \in Modes : Mode(m) \in Requests
    /\ ForceDisarm \in Requests /\ HomeWaypoint \in Requests
    /\ Mode(ALT_HOLD) \in Requests /\ Mode(LOITER) \in Requests
    /\ Mode(RTL) \in Requests /\ Mode(SMART_RTL) \in Requests
BY ModesAssumption DEF Requests

\* A command that holds a request sends this request.
LEMMA MessageOfRequest ==
    ASSUME NEW r \in Requests, NEW c, c.id = r.id, r.val # NoVal => c.val = r.val
    PROVE  Message(c) = r
<1>1. CASE r.val = NoVal
  BY <1>1, RequestTypes DEF Message, Plain, Buttons
<1>2. CASE r.val # NoVal
  BY <1>2, RequestTypes DEF Message, Ids
<1> QED
  BY <1>1, <1>2

\* Setting a request makes a pending command that holds it.
LEMMA SetHolds ==
    ASSUME NEW c \in Commands, NEW r \in Requests
    PROVE  /\ Set(c, r) \in Commands
           /\ Set(c, r).state = "Pending"
           /\ Set(c, r).id = r.id
           /\ r.val # NoVal => Set(c, r).val = r.val
           /\ Message(Set(c, r)) = r
<1>1. /\ Set(c, r) \in Commands
      /\ Set(c, r).state = "Pending"
      /\ Set(c, r).id = r.id
      /\ r.val # NoVal => Set(c, r).val = r.val
  BY RequestTypes DEF Set, WithVal, Commands
<1> QED
  BY <1>1, MessageOfRequest

\* A command that was taken is not pending.
LEMMA SentHolds ==
    ASSUME NEW c \in Commands
    PROVE  /\ Sent(c) \in Commands
           /\ Sent(c).state # "Pending"
           /\ Sent(c).id = c.id /\ Sent(c).val = c.val
BY DEF Sent, Commands

-----------------------------------------------------------------------------
(* The invariant.                                                          *)

\* The invariant holds initially: no command waits and the link is down.
LEMMA InitInv == Init => FlightInv
<1> SUFFICES ASSUME Init PROVE FlightInv
  OBVIOUS
<1> USE LinkDurationAssumption, ModesAssumption DEF Init, Looping
<1>1. TypeOK
  <2>1. cmd \in [id : Ids, state : {"Complete", "Pending", "Sent"}, val : Vals]
    BY DEF Ids, Vals
  <2>2. /\ main \in [pc : {"loop", "value", "id", "state", "ask", "beat", "mode", "status",
                          "lost", "forget", "clear"},
                    req : Requests \cup {NoReq}, beat : Beats \cup {NoBeat}, hit : BOOLEAN]
        /\ main.pc = "loop"
    OBVIOUS
  <2>3. veh \in Beats
    BY DEF Beats
  <2>4. link \in 0..LinkDuration
    OBVIOUS
  <2> QED
    BY <2>1, <2>2, <2>3, <2>4 DEF TypeOK
<1>2. Written /\ OneCommand /\ NeverStranded
  BY DEF Written, OneCommand, NeverStranded
<1>3. Heeded
  BY DEF Heeded, Connected
<1> QED
  BY <1>1, <1>2, <1>3 DEF FlightInv

\* Asking the link for a command that is a request, or that nobody wants.
LEMMA AskHolds ==
    ASSUME NEW c \in Commands, NEW r \in Requests \cup {NoReq}, c.state = "Pending", Ask(c, r)
    PROVE  /\ cmd' \in Commands /\ cmd'.id = c.id /\ cmd'.val = c.val
           /\ busy' = TRUE
           /\ wanted' \in Requests \cup {NoReq}
           /\ \/ cmd' = c /\ wanted' = r
              \/ cmd'.state # "Pending" /\ wanted' = NoReq
BY SentHolds DEF Ask

\* A request in an interrupt.
LEMMA IsrStep ==
    ASSUME FlightInv, NEW r \in Requests, IsrRequest(r)
    PROVE  FlightInv'
<1> DEFINE c == Set(cmd, r)
<1>1. /\ c \in Commands /\ c.state = "Pending" /\ Message(c) = r
      /\ c.id = r.id
  BY SetHolds DEF FlightInv, TypeOK, Commands
<1>2. Ask(c, IF HalfSet THEN NoReq ELSE r)
  BY DEF IsrRequest
<1> HIDE DEF c
<1>3. /\ cmd' \in Commands /\ cmd'.id = c.id /\ cmd'.val = c.val
      /\ busy' = TRUE
      /\ wanted' \in Requests \cup {NoReq}
      /\ \/ cmd' = c /\ wanted' = (IF HalfSet THEN NoReq ELSE r)
         \/ cmd'.state # "Pending" /\ wanted' = NoReq
  BY <1>1, <1>2, AskHolds
<1>4. /\ mixed' = HalfSet
      /\ main' = IF HalfSet THEN [main EXCEPT !.hit = TRUE] ELSE main
      /\ UNCHANGED << link, veh, flag, settings >>
  BY DEF IsrRequest
<1>5. TypeOK'
  <2>1. MainType(main) /\ RestType
    BY TypeParts DEF FlightInv
  <2>2. MainType(main')
    BY <1>4, <2>1 DEF MainType
  <2>3. RestType'
    BY <1>3, <1>4, <2>1 DEF RestType, HalfSet, settings
  <2> QED
    BY <2>2, <2>3, TypeParts
<1>6. Written'
  <2>1. CASE HalfSet
    BY <2>1, <1>4 DEF FlightInv, TypeOK, Written
  <2>2. CASE ~HalfSet
    BY <2>2, <1>4 DEF FlightInv, TypeOK, Written, HalfSet
  <2> QED
    BY <2>1, <2>2
<1>7. OneCommand'
  BY <1>1, <1>3, <1>4 DEF OneCommand
<1>8. Heeded'
  BY <1>4 DEF FlightInv, TypeOK, Heeded, Connected
<1>9. NeverStranded'
  BY <1>3 DEF NeverStranded
<1> QED
  BY <1>5, <1>6, <1>7, <1>8, <1>9 DEF FlightInv

\* The main loop begins a request: nothing of the command changes yet.
LEMMA BeginHolds ==
    ASSUME NEW r \in Requests, NEW b \in Beats \cup {NoBeat}, Begin(r, b)
    PROVE  /\ main' \in [pc : {"id", "value"}, req : Requests, beat : {b}, hit : {FALSE}]
           /\ main'.pc = "value" <=> r.val # NoVal
           /\ main'.req = r
           /\ MainType(main')
<1>1. main' = [pc |-> IF r.val = NoVal THEN "id" ELSE "value",
               req |-> r, beat |-> b, hit |-> FALSE]
  BY DEF Begin
<1> QED
  BY <1>1 DEF MainType

\* One statement of a request in the main loop.
LEMMA StatementStep ==
    ASSUME FlightInv, Statement
    PROVE  FlightInv'
<1> USE DEF FlightInv
<1>1. CASE WriteVal
  <2> USE <1>1 DEF WriteVal, At, Goto
  <2>1. main.req \in Requests /\ main.req.val \in Vals
    BY RequestTypes DEF TypeOK
  <2>2. TypeOK'
    BY <2>1 DEF TypeOK, settings
  <2>3. Written' /\ Heeded'
    BY DEF TypeOK, Written, Heeded, Connected
  <2>4. OneCommand' /\ NeverStranded'
    BY DEF TypeOK, OneCommand, NeverStranded
  <2> QED
    BY <2>2, <2>3, <2>4
<1>2. CASE WriteId
  <2> USE <1>2 DEF WriteId, At, Goto
  <2>1. main.req \in Requests /\ main.req.id \in Ids
    BY RequestTypes DEF TypeOK
  <2>2. TypeOK'
    BY <2>1 DEF TypeOK, settings
  <2>3. Written' /\ Heeded'
    BY DEF TypeOK, Written, Heeded, Connected
  <2>4. OneCommand' /\ NeverStranded'
    BY DEF TypeOK, OneCommand, NeverStranded
  <2> QED
    BY <2>2, <2>3, <2>4
<1>3. CASE WriteState
  <2> USE <1>3 DEF WriteState, At
  <2>1. main.req \in Requests
    BY DEF TypeOK
  <2>2. TypeOK'
    BY <2>1 DEF TypeOK, settings, Looping
  <2>3. Written' /\ Heeded'
    BY DEF TypeOK, Written, Heeded, Connected, Looping
  <2>4. OneCommand'
    <3>1. CASE main.hit
      BY <3>1 DEF OneCommand, TypeOK
    <3>2. CASE ~main.hit
      <4>1. Message(cmd') = main.req
        BY <2>1, <3>2, MessageOfRequest DEF Written, TypeOK
      <4> QED
        BY <4>1, <3>2 DEF OneCommand, TypeOK
    <3> QED
      BY <3>1, <3>2
  <2>5. NeverStranded'
    BY DEF NeverStranded, TypeOK, Looping
  <2> QED
    BY <2>2, <2>3, <2>4, <2>5
<1>4. CASE AskHost
  <2> USE <1>4 DEF AskHost, At
  <2>1. cmd \in Commands
    BY DEF TypeOK, Commands
  <2>2. \/ busy' = TRUE /\ cmd' = cmd /\ wanted' = wanted
        \/ busy' = TRUE /\ cmd' = Sent(cmd) /\ wanted' = NoReq
        \/ cmd.state # "Pending" /\ UNCHANGED << busy, cmd, wanted >>
    BY DEF Ask
  <2>3. cmd' \in Commands
    BY <2>1, <2>2, SentHolds
  <2>4. TypeOK'
    <3>1. /\ main.beat \in Beats \cup {NoBeat}
          /\ main' = [pc |-> IF main.beat = NoBeat THEN "loop" ELSE "beat",
                     req |-> NoReq, beat |-> main.beat, hit |-> FALSE]
      BY DEF TypeOK, Looping
    <3>2. UNCHANGED << link, veh, flag, charged, locked, override, mixed >>
      BY DEF settings
    <3> HIDE <1>4 DEF AskHost
    <3>3. MainType(main')
      BY <3>1 DEF MainType
    <3>4. RestType'
      BY <2>2, <2>3, <3>2, TypeParts DEF RestType
    <3> QED
      BY <3>3, <3>4, TypeParts
  <2>5. Written' /\ Heeded'
    BY DEF TypeOK, Written, Heeded, Connected, Looping
  <2>6. OneCommand'
    BY <2>1, <2>2, SentHolds DEF OneCommand
  <2>7. NeverStranded'
    BY <2>2 DEF NeverStranded
  <2> QED
    BY <2>4, <2>5, <2>6, <2>7
<1> QED
  BY <1>1, <1>2, <1>3, <1>4 DEF Statement

\* The completion interrupt.
LEMMA TxStep ==
    ASSUME FlightInv, TxComplete
    PROVE  FlightInv'
<1> USE DEF FlightInv, TxComplete
<1>1. cmd \in Commands
  BY DEF TypeOK, Commands
<1>2. cmd' \in Commands /\ cmd'.state # "Pending" /\ cmd'.id = cmd.id /\ cmd'.val = cmd.val
  BY <1>1, SentHolds
<1>3. TypeOK'
  BY <1>2 DEF TypeOK, settings, Commands
<1>4. Written' /\ Heeded'
  BY <1>2 DEF Written, Heeded, Connected
<1>5. OneCommand' /\ NeverStranded'
  BY <1>2 DEF OneCommand, NeverStranded
<1> QED
  BY <1>3, <1>4, <1>5

\* What the vehicle, the host and held buttons make the main loop do.
LEMMA LoopStep ==
    ASSUME FlightInv,
           \/ HoldTask \/ SetOverride \/ HostLock
           \/ SysHeartbeat \/ LinkDisconnected \/ MavlinkMessage
    PROVE  FlightInv'
<1> USE DEF FlightInv
<1>1. CASE HoldTask
  <2>1. PICK r \in Requests : Begin(r, NoBeat)
    BY <1>1, TheRequests
       DEF HoldTask, FlyHold, RtlHold, ForceHold, Buttons
  <2>2. /\ main' \in [pc : {"id", "value"}, req : Requests, beat : {NoBeat}, hit : {FALSE}]
        /\ main'.pc = "value" <=> r.val # NoVal
        /\ main'.req = r
        /\ MainType(main')
    BY <2>1, BeginHolds
  <2> USE <1>1, <2>2 DEF HoldTask, settings, At
  <2>3. TypeOK'
    <3>1. RestType'
      BY TypeParts DEF RestType
    <3> QED
      BY <3>1, TypeParts
  <2>4. Written' /\ Heeded'
    BY DEF Written, Heeded, Connected
  <2>5. OneCommand' /\ NeverStranded'
    BY DEF OneCommand, NeverStranded
  <2> QED
    BY <2>3, <2>4, <2>5
<1>2. CASE SetOverride \/ HostLock
  <2>1. TypeOK'
    <3>1. CASE SetOverride
      BY <3>1 DEF SetOverride, TypeOK
    <3>2. CASE HostLock
      BY <3>2 DEF HostLock, TypeOK
    <3> QED
      BY <1>2, <3>1, <3>2
  <2>2. UNCHANGED << cmd, main, busy, link, veh, flag, wanted, mixed >>
    BY <1>2 DEF SetOverride, HostLock
  <2>3. Written' /\ Heeded' /\ OneCommand' /\ NeverStranded'
    BY <2>2 DEF Written, OneCommand, Heeded, NeverStranded, Connected
  <2> QED
    BY <2>1, <2>3
<1>3. CASE SysHeartbeat
  <2> USE <1>3, LinkDurationAssumption DEF SysHeartbeat, At, Goto, Connected, settings
  <2>1. TypeOK'
    <3>1. link' \in 0..LinkDuration
      BY DEF TypeOK
    <3> QED
      BY <3>1 DEF TypeOK
  <2>2. Written' /\ Heeded'
    BY DEF TypeOK, Written, Heeded
  <2>3. OneCommand' /\ NeverStranded'
    BY DEF TypeOK, OneCommand, NeverStranded
  <2> QED
    BY <2>1, <2>2, <2>3
<1>8. CASE LinkDisconnected
  <2> USE DEF At, Goto, settings
  <2>1. CASE NoteFailsafe
    <3> USE <2>1 DEF NoteFailsafe
    <3>1. flag' \in BOOLEAN
      <4>1. flag \in BOOLEAN /\ veh.armed \in BOOLEAN
        BY DEF TypeOK, Beats
      <4>2. flag' = (flag \/ InFlight)
        OBVIOUS
      <4> HIDE <2>1 DEF NoteFailsafe
      <4> QED
        BY <4>1, <4>2, Zenon DEF InFlight
    <3>2. TypeOK'
      BY <3>1 DEF TypeOK
    <3>3. Written' /\ Heeded' /\ OneCommand' /\ NeverStranded'
      BY DEF TypeOK, Written, Heeded, Connected, OneCommand, NeverStranded
    <3> QED
      BY <3>2, <3>3
  <2>2. CASE ForgetStatus
    <3> USE <2>2 DEF ForgetStatus
    <3>1. TypeOK'
      BY DEF TypeOK, Beats
    <3>2. Written' /\ Heeded' /\ OneCommand' /\ NeverStranded'
      BY DEF TypeOK, Beats, Written, Heeded, Connected, OneCommand, NeverStranded
    <3> QED
      BY <3>1, <3>2
  <2>3. CASE ClearTelemetry
    <3> USE <2>3 DEF ClearTelemetry
    <3>1. TypeOK'
      BY DEF TypeOK
    <3>2. Written' /\ Heeded' /\ OneCommand' /\ NeverStranded'
      BY DEF TypeOK, Written, Heeded, Connected, OneCommand, NeverStranded
    <3> QED
      BY <3>1, <3>2
  <2> QED
    BY <1>8, <2>1, <2>2, <2>3 DEF LinkDisconnected
<1>4. CASE SysStatus
  <2> USE <1>4, LinkDurationAssumption DEF SysStatus, KeepAlive, At, Connected
  <2>1. TypeOK'
    BY DEF TypeOK
  <2>2. Written' /\ Heeded'
    BY DEF TypeOK, Written, Heeded
  <2>3. OneCommand' /\ NeverStranded'
    BY DEF OneCommand, NeverStranded
  <2> QED
    BY <2>1, <2>2, <2>3
<1>5. CASE NotArmable
  <2> USE <1>5, LinkDurationAssumption DEF NotArmable, KeepAlive, At, Connected, settings
  <2>1. CASE veh.mode # LOITER
    <3>1. PICK r \in Requests : Begin(r, NoBeat)
      BY <2>1, TheRequests
    <3>2. /\ main' \in [pc : {"id", "value"}, req : Requests, beat : {NoBeat}, hit : {FALSE}]
          /\ main'.pc = "value" <=> main'.req.val # NoVal
          /\ MainType(main')
      <4> HIDE <1>5
      <4> QED
        BY <3>1, BeginHolds
    <3>3. TypeOK'
      <4>1. RestType'
        BY TypeParts DEF RestType
      <4> QED
        BY <3>2, <4>1, TypeParts
    <3>4. Written' /\ Heeded'
      BY <3>2 DEF TypeOK, Written, Heeded
    <3>5. OneCommand' /\ NeverStranded'
      BY <3>2 DEF OneCommand, NeverStranded
    <3> QED
      BY <3>3, <3>4, <3>5
  <2>2. CASE veh.mode = LOITER
    BY <2>2 DEF TypeOK, Written, Heeded, OneCommand, NeverStranded
  <2> QED
    BY <2>1, <2>2
<1>6. ASSUME NEW b \in Beats, VehicleBeat(b)
      PROVE  FlightInv'
  <2> USE <1>6, LinkDurationAssumption DEF VehicleBeat, At, settings
  <2>1. /\ main' \in [pc : {"id", "value", "beat"}, req : Requests \cup {NoReq},
                      beat : {b}, hit : {FALSE}]
        /\ main'.pc # "beat" => /\ main'.req \in Requests
                                /\ main'.pc = "value" <=> main'.req.val # NoVal
        /\ MainType(main')
    <3>1. \/ \E r \in Requests : Begin(r, b)
          \/ main' = [Looping EXCEPT !.pc = "beat", !.beat = b]
      BY TheRequests
    <3>2. CASE \E r \in Requests : Begin(r, b)
      <4>1. PICK r \in Requests : Begin(r, b)
        BY <3>2
      <4>2. /\ main' \in [pc : {"id", "value"}, req : Requests, beat : {b}, hit : {FALSE}]
            /\ main'.pc = "value" <=> r.val # NoVal
            /\ main'.req = r
            /\ MainType(main')
        BY <4>1, BeginHolds
      <4> HIDE <1>6
      <4> QED
        BY <4>2
    <3>3. CASE main' = [Looping EXCEPT !.pc = "beat", !.beat = b]
      BY <3>3 DEF Looping, MainType
    <3> QED
      BY <3>1, <3>2, <3>3
  <2>2. TypeOK'
    <3>1. RestType'
      <4>1. cmd' \in Commands /\ wanted' \in Requests \cup {NoReq} /\ link' \in 0..LinkDuration
        BY TypeParts DEF RestType, Commands
      <4> QED
        BY <4>1, TypeParts DEF RestType
    <3> QED
      BY <2>1, <3>1, TypeParts
  <2>3. Written' /\ Heeded'
    BY <2>1 DEF TypeOK, Written, Heeded, Connected
  <2>4. OneCommand'
    BY DEF OneCommand, TypeOK, Message
  <2>5. NeverStranded'
    BY DEF NeverStranded, TypeOK
  <2> QED
    BY <2>2, <2>3, <2>4, <2>5
<1>7. CASE EndBeat
  <2>1. /\ main.beat \in Beats
        /\ veh \in Beats
        /\ Connected
    <3>1. main.beat \in Beats /\ veh \in Beats
      BY <1>7 DEF TypeOK, EndBeat, StoreArmed, StoreMode, StoreStatus, At
    <3> QED
      BY <3>1 DEF Heeded, Beats, NoBeat
  <2>2. /\ veh' \in Beats
        /\ flag' \in BOOLEAN
        /\ flag' => veh'.status = "uninit"
        /\ UNCHANGED << cmd, busy, link, charged, locked, override, wanted, mixed >>
        /\ \/ main'.pc \in {"mode", "status"} /\ main' = [main EXCEPT !.pc = main'.pc]
           \/ main' = Looping
    <3>1. CASE StoreArmed \/ StoreMode
      BY <2>1, <3>1 DEF StoreArmed, StoreMode, Goto, settings, TypeOK, Heeded, Beats
    <3>2. CASE StoreStatus
      BY <2>1, <3>2 DEF StoreStatus, Heard, settings, TypeOK, Heeded, Beats
    <3> QED
      BY <1>7, <3>1, <3>2 DEF EndBeat
  <2>3. TypeOK'
    <3>1. CASE main'.pc \in {"mode", "status"} /\ main' = [main EXCEPT !.pc = main'.pc]
      <4>1. main' \in [pc : {"mode", "status"}, req : Requests \cup {NoReq},
                       beat : Beats, hit : BOOLEAN]
        BY <2>1, <3>1 DEF TypeOK
      <4> QED
        BY <2>2, <4>1 DEF TypeOK
    <3>2. CASE main' = Looping
      BY <2>2, <3>2 DEF TypeOK, Looping
    <3> QED
      BY <2>2, <3>1, <3>2
  <2>4. Written' /\ Heeded'
    BY <2>1, <2>2 DEF Written, Heeded, Connected, Looping, TypeOK
  <2>5. OneCommand' /\ NeverStranded'
    <3>1. main.pc # "ask"
      BY <1>7 DEF EndBeat, StoreArmed, StoreMode, StoreStatus, At
    <3> QED
      BY <2>2, <3>1 DEF OneCommand, NeverStranded
  <2> QED
    BY <2>3, <2>4, <2>5
<1> QED
  BY <1>1, <1>2, <1>3, <1>4, <1>5, <1>6, <1>7, <1>8 DEF MavlinkMessage

\* A transmission of another source, or a step that changes nothing.
LEMMA OtherStep ==
    ASSUME FlightInv, OtherSource \/ UNCHANGED vars
    PROVE  FlightInv'
<1>1. /\ UNCHANGED << cmd, main, link, veh, flag, charged, locked, override, wanted, mixed >>
      /\ busy' = TRUE \/ busy' = busy
  BY DEF OtherSource, vars, settings
<1>2. TypeOK'
  <2>1. busy' \in BOOLEAN
    BY <1>1 DEF FlightInv, TypeOK
  <2> QED
    BY <1>1, <2>1 DEF FlightInv, TypeOK
<1>3. Written' /\ Heeded' /\ OneCommand' /\ NeverStranded'
  BY <1>1 DEF FlightInv, Written, OneCommand, Heeded, NeverStranded, Connected
<1> QED
  BY <1>2, <1>3 DEF FlightInv

\* Every step preserves the invariant.
LEMMA StepInv == FlightInv /\ [Next]_vars => FlightInv'
<1> SUFFICES ASSUME FlightInv, [Next]_vars
             PROVE  FlightInv'
  OBVIOUS
<1>1. CASE ButtonIsr
  <2>1. PICK r \in Requests : IsrRequest(r)
    BY <1>1, TheRequests DEF ButtonIsr, FlyClick, PauseClick, AClick, RtlRelease, Buttons
  <2> QED
    BY <2>1, IsrStep
<1>2. CASE Statement
  BY <1>2, StatementStep
<1>3. CASE TxComplete
  BY <1>3, TxStep
<1>4. CASE \/ HoldTask \/ SetOverride \/ HostLock
           \/ SysHeartbeat \/ LinkDisconnected \/ MavlinkMessage
  BY <1>4, LoopStep
<1>5. CASE OtherSource \/ UNCHANGED vars
  BY <1>5, OtherStep
<1> QED
  BY <1>1, <1>2, <1>3, <1>4, <1>5 DEF Next

\* The invariant holds in every behaviour.
LEMMA Invariance == Spec => []FlightInv
BY InitInv, StepInv, PTL DEF Spec

-----------------------------------------------------------------------------
(* Theorems.                                                               *)

\* Every variable of the controller's command has its type in every run.
THEOREM TypeCorrect == Spec => []TypeOK
<1>1. FlightInv => TypeOK
  BY DEF FlightInv
<1> QED
  BY <1>1, Invariance, PTL

\* However requests of interrupts, of held buttons and of the vehicle's messages
\* interleave, a command that is not a mixture of two requests is the newest
\* request that has not been sent.
THEOREM CommandCorrect == Spec => []OneCommand
<1>1. FlightInv => OneCommand
  BY DEF FlightInv
<1> QED
  BY <1>1, Invariance, PTL

\* A waiting command always has a transmission or a request to the link coming.
THEOREM StrandedCorrect == Spec => []NeverStranded
<1>1. FlightInv => NeverStranded
  BY DEF FlightInv
<1> QED
  BY <1>1, Invariance, PTL

\* A vehicle that is not heard, or whose loss has not been answered, counts as
\* not flying, but for the two statements before linkDisconnected forgets the status.
THEOREM LostCorrect == Spec => []LostNotFlying
<1>1. FlightInv => LostNotFlying
  BY DEF FlightInv, Heeded, LostNotFlying, InFlight
<1> QED
  BY <1>1, Invariance, PTL

=============================================================================

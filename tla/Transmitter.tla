---------------------------- MODULE Transmitter ----------------------------
(***************************************************************************)
(* What HostProtocol promises those who have something to send: a request  *)
(* and the completion of a transmission are single steps, although in the  *)
(* main loop a request takes many statements.  A request to an idle line   *)
(* sends the first packet there is; a request to a busy one needs nothing  *)
(* more, because the completion sends the next packet, or finds that there *)
(* is none.  A packet is on the line once, unchanged, until it has been    *)
(* sent, and button events go in the order in which they were accepted.    *)
(*                                                                         *)
(* The main loop's own requests come some time after what they are for.    *)
(* Nothing is promised any more when `broken'.                             *)
(***************************************************************************)
EXTENDS Sequences

CONSTANTS Events, NoEvent

Sources == {"host", "report", "command"}
Packet(source) == [src |-> source, ev |-> NoEvent]
ButtonPacket(e) == [src |-> "button", ev |-> e]
Idle == Packet("none")

VARIABLES
    waiting,    \* the sources that have a packet
    events,     \* the button events that were accepted
    line,       \* the packet that is sent, or Idle
    asking,     \* will the main loop make a request?
    broken

vars == << waiting, events, line, asking, broken >>

Init ==
    /\ waiting = {} /\ events = << >> /\ line = Idle
    /\ asking = FALSE /\ broken = FALSE

\* The line takes the first packet there is: the host's, then a button event, then
\* the others'.  The events `late' come after that.
Later(w) == IF "report" \in w THEN "report" ELSE "command"

Take(w, q, late) ==
    \/ /\ "host" \in w
       /\ line' = Packet("host") /\ waiting' = w \ {"host"} /\ events' = q \o late
    \/ /\ "host" \notin w /\ q # << >>
       /\ line' = ButtonPacket(Head(q)) /\ waiting' = w /\ events' = Tail(q) \o late
    \/ /\ "host" \notin w /\ q = << >> /\ w # {}
       /\ line' = Packet(Later(w)) /\ waiting' = w \ {Later(w)} /\ events' = late
    \/ /\ w = {} /\ q = << >>
       /\ line' = Idle /\ waiting' = w /\ events' = late

Leave(w, q) == waiting' = w /\ events' = q /\ UNCHANGED line

Request(w, q, late) == IF line = Idle THEN Take(w, q, late) ELSE Leave(w, q \o late)

\* The main loop has something to send, or accepts a button event ...
Want(s) ==
    /\ ~asking /\ asking' = TRUE
    /\ Leave(waiting \cup {s}, events)

Hold(e) ==
    /\ ~asking /\ asking' = TRUE
    /\ Leave(waiting, Append(events, e))

\* ... and makes its request.
Ask ==
    /\ asking /\ asking' = FALSE
    /\ Request(waiting, events, << >>)

\* A button interrupt makes its requests at once: for a command, if the event makes
\* one, and then for the event, if there is room for it.
Press(e) ==
    /\ \/ Request(waiting, Append(events, e), << >>)
       \/ Request(waiting \cup {"command"}, events, << >>)
       \/ Request(waiting \cup {"command"}, events, << e >>)
    /\ UNCHANGED asking

Complete ==
    /\ line # Idle
    /\ Take(waiting, events, << >>)
    /\ UNCHANGED asking

Step ==
    \/ \E s \in Sources : Want(s)
    \/ \E e \in Events : Hold(e) \/ Press(e)
    \/ Ask \/ Complete

Next == broken' \/ (~broken /\ ~broken' /\ Step)

Spec == Init /\ [][Next]_vars

-----------------------------------------------------------------------------
\* Nothing waits for a line that nobody will wake up.
NothingStranded ==
    ~broken /\ (waiting # {} \/ events # << >>) => line # Idle \/ asking

=============================================================================

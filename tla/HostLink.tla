------------------------------ MODULE HostLink ------------------------------
(***************************************************************************)
(* The transmit side of the controller's link to its host processor        *)
(* (artoo: HostProtocol, ButtonManager, RingBuffer).  One packet buffer is *)
(* sent by DMA; requestTransaction starts a transmission when none is      *)
(* pending, and the completion interrupt produces the next packet, until   *)
(* no source has one.                                                      *)
(*                                                                         *)
(* requestTransaction runs in the main loop, where interrupts come between *)
(* its statements, and inside the button interrupt.  All interrupts have   *)
(* the same priority: a handler is one step.  The "critical section" masks *)
(* only the DMA interrupt.                                                 *)
(***************************************************************************)
EXTENDS Naturals, Sequences

CONSTANTS
    Slots,        \* capacity of pendingEventIdxs, and size of events[]
    PacketsPerBeat, \* packets the line carries in a heartbeat period
    ToggleTX      \* does PowerManager switch the transmit line in this instance?

ASSUME LinkAssumption ==
    /\ Slots \in Nat \ {0}
    /\ PacketsPerBeat \in Nat
    /\ ToggleTX \in BOOLEAN

VARIABLES
    link,         \* HostProtocol's and ButtonManager's variables
    main,         \* the main loop: position and locals
    irq,          \* is the DMA interrupt enabled?
    done,         \* is the DMA interrupt pending?
    carried,      \* packets carried since the last heartbeat
    expected,     \* ghost: events accepted and not yet carried
    raced         \* ghost: a button interrupt came where it does harm

vars == << link, main, irq, done, carried, expected, raced >>

-----------------------------------------------------------------------------
(* Packets: where they come from, and the button event they carry.         *)

Events  == 1..(Slots + 3)   \* queued, under way, in the main loop's hands, and new
NoEvent == 0
Packet(source) == [src |-> source, ev |-> NoEvent]
ButtonPacket(e) == [src |-> "button", ev |-> e]
Nothing == Packet("none")      \* an empty buffer, an idle DMA channel
Garbled == Packet("garbled")   \* a packet rewritten while it was sent

\* Sources other than buttons, in the order dispatchProduce asks them: the host's
\* requests come before the buttons, input reports and commands after.
Sources == {"host", "report", "command"}
Packets == {Packet(s) : s \in Sources} \cup {ButtonPacket(e) : e \in Events \cup {NoEvent}}

\* A button event is identified by a number no event in the system has; after a
\* race the ghosts are no longer kept and the numbers tell nothing.
UsedEvents == {expected[k] : k \in DOMAIN expected} \cup {main.ev}
NewEvent == CHOOSE e \in Events : e \notin UsedEvents

Idle == [pc |-> "loop", idx |-> 0, ev |-> NoEvent]

Init ==
    /\ link = [pending |-> FALSE,      \* txPending
               buffer  |-> Nothing,    \* txPacket
               dma     |-> Nothing,    \* what the DMA channel is sending
               sources |-> {},         \* sources other than buttons that have a packet
               queue   |-> << >>,      \* pendingEventIdxs
               slots   |-> [k \in 0..(Slots - 1) |-> NoEvent],   \* events[]
               next    |-> 0]          \* eventIdx
    /\ main = Idle
    /\ irq = FALSE                     \* init ends with disableTX
    /\ done = FALSE
    /\ carried = 0
    /\ expected = << >>
    /\ raced = FALSE

-----------------------------------------------------------------------------
(* What a handler that is not interrupted does to the link.                *)

\* dispatchProduce: the first source that has a packet.
LaterSource(l) == IF "report" \in l.sources THEN "report" ELSE "command"
Produces(l) ==
    IF "host" \in l.sources THEN Packet("host")
    ELSE IF l.queue # << >> THEN ButtonPacket(l.slots[Head(l.queue)])
    ELSE IF l.sources # {} THEN Packet(LaterSource(l))
    ELSE Nothing

Taken(l) ==
    IF "host" \in l.sources THEN [l EXCEPT !.sources = @ \ {"host"}]
    ELSE IF l.queue # << >> THEN [l EXCEPT !.queue = Tail(@)]
    ELSE [l EXCEPT !.sources = @ \ {LaterSource(l)}]

\* Usart::writeDma; a channel that is still sending is not stopped cleanly.
Written(l) == [l EXCEPT !.dma = IF @ = Nothing THEN l.buffer ELSE Garbled]

\* The buffer changes under a DMA channel that is sending it.
Rewritten(l, packet) ==
    [l EXCEPT !.buffer = packet,
              !.dma    = IF @ = Nothing THEN Nothing ELSE Garbled]

\* Mutant of Produced: txPending stays set when no source has a packet.
ProducedAndPending(l) ==
    IF Produces(l) = Nothing
      THEN Rewritten(l, Nothing)
      ELSE Written([Rewritten(Taken(l), Produces(l)) EXCEPT !.pending = TRUE])

\* producePacket
Produced(l) ==
    IF Produces(l) = Nothing
      THEN [Rewritten(l, Nothing) EXCEPT !.pending = FALSE]
      ELSE Written([Rewritten(Taken(l), Produces(l)) EXCEPT !.pending = TRUE])

\* Mutant of Requested: txPending is not tested.
RequestedAnyway(l) == Produced(l)

\* requestTransaction
Requested(l) == IF l.pending THEN l ELSE Produced(l)

\* Mutant of QueueFull: one event too many.
QueueOverfull(l) == Len(l.queue) > Slots

QueueFull(l) == Len(l.queue) >= Slots

\* dispatchEvt: the event's slot, its index in the queue, and the next slot.
Stored(l, e)  == [l EXCEPT !.slots[l.next] = e]
Enqueued(l)   == [l EXCEPT !.queue = Append(@, l.next)]

\* Mutant of Advanced: eventIdx stays where it is.
AdvancedNot(l) == l

Advanced(l)   == [l EXCEPT !.next = (@ + 1) % Slots]

-----------------------------------------------------------------------------
(* Interrupts.                                                             *)

\* Positions of the main loop between the test of txPending and its assignment,
\* and between the test for room in the queue and the last use of eventIdx.
Producing   == {"reset", "host", "buttons", "take", "later", "commit", "clear"}
Dispatching == {"slot", "enqueue", "advance"}

\* An edge of a button: dispatchEvt may set a flight command, which requests a
\* transaction, and then forwards the event, which requests another one.
ButtonIsr(sources) ==
    LET e  == NewEvent
        hit == main.pc \in Dispatching \/ (main.pc \in Producing /\ ~link.pending)
        l1 == IF sources = {} THEN link
              ELSE Requested([link EXCEPT !.sources = @ \cup sources])
        l2 == Requested(Advanced(Enqueued(Stored(l1, e))))
    IN  /\ raced' = (raced \/ hit)
        /\ IF QueueFull(l1)
             THEN /\ link' = l1
                  /\ expected' = IF raced' THEN << >> ELSE expected
             ELSE /\ link' = l2
                  /\ expected' = IF raced' THEN << >> ELSE Append(expected, e)
        /\ irq' = (IF sources = {} /\ QueueFull(l1) THEN irq ELSE TRUE)
        /\ UNCHANGED << main, done, carried >>

\* The DMA channel has sent the buffer.
DmaFinish ==
    /\ link.dma # Nothing
    /\ ~done
    /\ done' = TRUE
    /\ UNCHANGED << link, main, irq, carried, expected, raced >>

\* dmaTXCallback and onTxComplete
DmaIsr ==
    /\ done /\ irq
    /\ done' = FALSE
    /\ expected' = IF link.dma.src = "button" /\ ~raced THEN Tail(expected) ELSE expected
    /\ link' = Produced([link EXCEPT !.dma = Nothing])
    /\ carried' = IF carried < PacketsPerBeat THEN carried + 1 ELSE carried
    /\ UNCHANGED << main, irq, raced >>

-----------------------------------------------------------------------------
(* The main loop's tasks.                                                  *)

At(pc) == main.pc = pc
Goto(pc) == main' = [main EXCEPT !.pc = pc]

\* A source of the main loop's has a packet, and requests a transaction.
Ask(source) ==
    /\ At("loop")
    /\ link' = [link EXCEPT !.sources = @ \cup {source}]
    /\ Goto("mask")
    /\ UNCHANGED << irq, done, expected, raced >>

\* processPacket: SysInfo or ParamStoredVals.
HostTask == Ask("host") /\ UNCHANGED carried

\* A MAVLink message from the vehicle makes FlightManager send a command.
FlightTask == Ask("command") /\ UNCHANGED carried

\* Inputs::fiftyHzWork; the line is fast enough for more than one packet in 20 ms.
Heartbeat ==
    /\ Ask("report")
    /\ \/ carried >= PacketsPerBeat
       \/ ~irq
       \/ link.dma = Nothing /\ link.sources = {} /\ link.queue = << >>
    /\ carried' = 0

\* ButtonManager::task: a button has been held.
HoldTask ==
    /\ At("loop")
    /\ main' = [main EXCEPT !.pc = "check", !.ev = NewEvent]
    /\ UNCHANGED << link, irq, done, carried, expected, raced >>

\* enableTX and disableTX
SwitchTX ==
    /\ ToggleTX
    /\ At("loop")
    /\ irq' = ~irq
    /\ UNCHANGED << link, main, done, carried, expected, raced >>

-----------------------------------------------------------------------------
(* dispatchEvt in the main loop.                                           *)

Check ==
    /\ At("check")
    /\ main' = IF QueueFull(link) THEN Idle ELSE [main EXCEPT !.pc = "slot"]
    /\ UNCHANGED << link, irq, done, carried, expected, raced >>

Store ==
    /\ At("slot")
    /\ link' = Stored(link, main.ev)
    /\ Goto("enqueue")
    /\ UNCHANGED << irq, done, carried, expected, raced >>

Enqueue ==
    /\ At("enqueue")
    /\ Len(link.queue) < Slots   \* otherwise the ring overflows; only after a race
    /\ link' = Enqueued(link)
    /\ expected' = IF raced THEN << >> ELSE Append(expected, main.ev)
    /\ Goto("advance")
    /\ UNCHANGED << irq, done, carried, raced >>

Advance ==
    /\ At("advance")
    /\ link' = Advanced(link)
    /\ main' = [main EXCEPT !.pc = "mask", !.ev = NoEvent]
    /\ UNCHANGED << irq, done, carried, expected, raced >>

-----------------------------------------------------------------------------
(* requestTransaction in the main loop.                                    *)

Mask ==
    /\ At("mask")
    /\ irq' = FALSE
    /\ Goto("test")
    /\ UNCHANGED << link, done, carried, expected, raced >>

Test ==
    /\ At("test")
    /\ Goto(IF link.pending THEN "unmask" ELSE "reset")
    /\ UNCHANGED << link, irq, done, carried, expected, raced >>

Reset ==
    /\ At("reset")
    /\ link' = Rewritten(link, Nothing)
    /\ Goto("host")
    /\ UNCHANGED << irq, done, carried, expected, raced >>

\* produceHostProtocolPacket
Host ==
    /\ At("host")
    /\ IF "host" \in link.sources
         THEN /\ link' = [Rewritten(link, Packet("host")) EXCEPT !.sources = @ \ {"host"}]
              /\ Goto("commit")
         ELSE /\ UNCHANGED link
              /\ Goto("buttons")
    /\ UNCHANGED << irq, done, carried, expected, raced >>

\* ButtonManager::producePacket
Buttons ==
    /\ At("buttons")
    /\ IF link.queue = << >>
         THEN /\ Goto("later")
              /\ UNCHANGED link
         ELSE /\ main' = [main EXCEPT !.pc = "take", !.idx = Head(link.queue)]
              /\ link' = [link EXCEPT !.queue = Tail(@)]
    /\ UNCHANGED << irq, done, carried, expected, raced >>

Take ==
    /\ At("take")
    /\ link' = Rewritten(link, ButtonPacket(link.slots[main.idx]))
    /\ main' = [main EXCEPT !.pc = "commit", !.idx = 0]
    /\ UNCHANGED << irq, done, carried, expected, raced >>

\* Inputs::producePacket and the sources after it
Later ==
    /\ At("later")
    /\ LET s == LaterSource(link)
       IN  IF s \in link.sources
             THEN /\ link' = [Rewritten(link, Packet(s)) EXCEPT !.sources = @ \ {s}]
                  /\ Goto("commit")
             ELSE /\ UNCHANGED link
                  /\ Goto("clear")
    /\ UNCHANGED << irq, done, carried, expected, raced >>

Commit ==
    /\ At("commit")
    /\ link' = [link EXCEPT !.pending = TRUE]
    /\ Goto("write")
    /\ UNCHANGED << irq, done, carried, expected, raced >>

Write ==
    /\ At("write")
    /\ link' = Written(link)
    /\ Goto("unmask")
    /\ UNCHANGED << irq, done, carried, expected, raced >>

Clear ==
    /\ At("clear")
    /\ link' = [link EXCEPT !.pending = FALSE]
    /\ Goto("unmask")
    /\ UNCHANGED << irq, done, carried, expected, raced >>

Unmask ==
    /\ At("unmask")
    /\ irq' = TRUE
    /\ main' = Idle
    /\ UNCHANGED << link, done, carried, expected, raced >>

-----------------------------------------------------------------------------
Interrupt == \/ \E sources \in { {}, {"command"} } : ButtonIsr(sources)
             \/ DmaFinish
             \/ DmaIsr
Task == HostTask \/ FlightTask \/ Heartbeat \/ HoldTask \/ SwitchTX
Statement == \/ Check \/ Store \/ Enqueue \/ Advance
             \/ Mask \/ Test \/ Reset \/ Host \/ Buttons \/ Take \/ Later
             \/ Commit \/ Write \/ Clear \/ Unmask

Next == Interrupt \/ Task \/ Statement

Spec == Init /\ [][Next]_vars

\* The processor runs, the heartbeat comes every 20 ms, and the DMA channel sends.
Fairness ==
    /\ WF_vars(Statement)
    /\ SF_vars(Heartbeat)
    /\ WF_vars(DmaFinish)
    /\ SF_vars(DmaIsr)

FairSpec == Spec /\ Fairness

-----------------------------------------------------------------------------
(* Properties.                                                             *)

\* Every variable has its type.
TypeOK ==
    /\ link \in [pending : BOOLEAN,
                 buffer  : Packets \cup {Nothing},
                 dma     : Packets \cup {Nothing, Garbled},
                 sources : SUBSET Sources,
                 queue   : Seq(0..(Slots - 1)),
                 slots   : [0..(Slots - 1) -> Events \cup {NoEvent}],
                 next    : 0..(Slots - 1)]
    /\ Len(link.queue) <= Slots
    /\ main \in [pc : Producing \cup Dispatching
                        \cup {"loop", "check", "mask", "test", "write", "unmask"},
                 idx : 0..(Slots - 1), ev : Events \cup {NoEvent}]
    /\ irq \in BOOLEAN /\ done \in BOOLEAN /\ raced \in BOOLEAN
    /\ carried \in 0..PacketsPerBeat
    /\ expected \in Seq(Events)

\* txPending tells whether the DMA channel is sending, so a request never starts
\* a second transmission and never waits for a completion that will not come.
PendingMeansSending ==
    ~raced /\ main.pc \notin Producing \cup {"write"}
        => (link.pending <=> link.dma # Nothing)

\* The event a packet on its way carries.
UnderWay ==
    IF link.dma.src = "button" THEN << link.dma.ev >>
    ELSE IF main.pc = "take" THEN << link.slots[main.idx] >>
    ELSE IF main.pc \in {"commit", "write"} /\ link.buffer.src = "button"
      THEN << link.buffer.ev >>
    ELSE << >>

\* The events that wait in the queue.
Queued == [k \in DOMAIN link.queue |-> link.slots[link.queue[k]]]

\* Button events that were accepted reach the host once each and in order: what
\* the packet under way and the queued slots hold is what was accepted, no slot
\* is reused too early and none is read twice.
EventsInOrder ==
    ~raced => UnderWay \o Queued = expected

\* The packet that is sent, or that the main loop is about to send.
OnLine ==
    IF main.pc = "take" THEN ButtonPacket(link.slots[main.idx])
    ELSE IF main.pc \in {"commit", "write"} THEN link.buffer
    ELSE link.dma

\* Requests of the main loop, taken apart into statements, and those of interrupts
\* between them are requests to a Transmitter: whoever asks when, the line takes the
\* first packet there is and keeps it, whole, until it has been sent, and what waits
\* is sent without being asked for again.
Asking == main.pc \in {"advance", "mask", "test", "reset", "host", "buttons", "later"}
Line == INSTANCE Transmitter WITH
    waiting <- link.sources, events <- Queued, line <- OnLine,
    asking <- Asking, broken <- raced
TransmitterSpec == Line!Spec

\* "All sources will eventually get served": once the host stops asking, no
\* button moves and the line is not switched, every source that has a packet gets
\* to send it, if no button interrupt came into the critical section (after one,
\* the link can be left pending with an empty buffer, and stays so).
Busy == HostTask \/ HoldTask \/ SwitchTX \/ \E s \in { {}, {"command"} } : ButtonIsr(s)
Calm == <>[][~Busy]_vars
Served ==
    Calm /\ []~raced =>
        /\ \A s \in Sources : s \in link.sources ~> s \notin link.sources
        /\ link.queue # << >> ~> link.queue = << >>

=============================================================================

--------------------------- MODULE HostLinkProofs ---------------------------
(***************************************************************************)
(* Proofs about HostLink, for a ring of any size, any speed of the line,   *)
(* with and without a switch of the transmit line.                         *)
(***************************************************************************)
EXTENDS HostLink, FiniteSetTheorems, SequenceTheorems, TLAPS

-----------------------------------------------------------------------------
(* Types.                                                                  *)

Buffers  == Packets \cup {Nothing}
Channels == Packets \cup {Nothing, Garbled}
Numbers  == Events \cup {NoEvent}
Indices  == 0..(Slots - 1)
Places   == Producing \cup Dispatching \cup {"loop", "check", "mask", "test", "write", "unmask"}
Links    == [pending : BOOLEAN, buffer : Buffers, dma : Channels, sources : SUBSET Sources,
             queue : Seq(Indices), slots : [Indices -> Numbers], next : Indices]
Mains    == [pc : Places, idx : Indices, ev : Numbers]

\* A link whose ring does not overflow.
Typed(l) == l \in Links /\ Len(l.queue) <= Slots

\* An event is only in the hands of dispatchEvt if there is one; the DMA channel is
\* only done if it was given something; and the ghosts are not kept after a race.
Sound ==
    /\ main.pc \in Dispatching \cup {"check"} => main.ev \in Events
    /\ done => link.dma # Nothing
    /\ raced => expected = << >>

-----------------------------------------------------------------------------
(* What is true of a link and a position of the main loop before a race.   *)

\* While the main loop produces, nothing is pending and nothing is sent; between
\* the assignment of txPending and the start of the DMA channel it is pending;
\* elsewhere it is pending exactly when the channel is sending, and then the
\* channel is sending the buffer.
Sending(l, m) ==
    /\ m.pc \in Producing => ~l.pending /\ l.dma = Nothing
    /\ m.pc = "write" => l.pending /\ l.dma = Nothing
    /\ m.pc \notin Producing \cup {"write"} => (l.pending <=> l.dma # Nothing)
    /\ m.pc \in {"commit", "write"} => l.buffer # Nothing
    /\ l.dma # Nothing => l.buffer = l.dma

\* The index d places before n in a ring.
Back(n, d) == IF d <= n THEN n - d ELSE n - d + Slots

\* How many slots before the next one the newest entry of the queue is.
Behind(m) == IF m.pc = "advance" THEN 0 ELSE 1

\* The queue holds the indices before the next slot, in order; a slot that
\* dispatchEvt is about to fill is not among them.
Ring(l, m) ==
    /\ \A k \in 1..Len(l.queue) : l.queue[k] = Back(l.next, Len(l.queue) - k + Behind(m))
    /\ m.pc \in {"slot", "enqueue"} => Len(l.queue) < Slots
    /\ m.pc = "enqueue" => l.slots[l.next] = m.ev

\* The event under way, and those in the queue.
OnWay(l, m) ==
    IF l.dma.src = "button" THEN << l.dma.ev >>
    ELSE IF m.pc = "take" THEN << l.slots[m.idx] >>
    ELSE IF m.pc \in {"commit", "write"} /\ l.buffer.src = "button" THEN << l.buffer.ev >>
    ELSE << >>
Contents(l) == [k \in DOMAIN l.queue |-> l.slots[l.queue[k]]]

\* The link carries the events x.
Good(l, m, x) == Sending(l, m) /\ Ring(l, m) /\ OnWay(l, m) \o Contents(l) = x

\* A packet does not change while the DMA channel sends it.
PacketIntact == ~raced /\ link.dma # Nothing => link.buffer = link.dma

LinkInv == TypeOK /\ Sound /\ (raced \/ Good(link, main, expected))

-----------------------------------------------------------------------------
(* Packets and what handlers do to the link.                               *)

\* The packets of the sources differ from an empty and a garbled buffer.
LEMMA PacketFacts ==
    /\ \A p \in Packets : p # Nothing /\ p # Garbled
    /\ Nothing # Garbled /\ Nothing.src = "none" /\ Garbled.src = "garbled"
    /\ \A s \in Sources : Packet(s) \in Packets /\ Packet(s).src # "button"
    /\ \A e \in Numbers : /\ ButtonPacket(e) \in Packets
                          /\ ButtonPacket(e).src = "button" /\ ButtonPacket(e).ev = e
    /\ \A p \in Packets : p.src = "button" => p.ev \in Numbers
<1>1. /\ \A s \in {"host", "report", "command", "none", "garbled"} : Packet(s).src = s
      /\ \A e \in Numbers : ButtonPacket(e).src = "button" /\ ButtonPacket(e).ev = e
  BY DEF Packet, ButtonPacket
<1>2. /\ \A s \in Sources : Packet(s) \in Packets
      /\ \A e \in Numbers : ButtonPacket(e) \in Packets
      /\ \A p \in Packets : \/ \E s \in Sources : p = Packet(s)
                            \/ \E e \in Numbers : p = ButtonPacket(e)
  BY DEF Packets, Numbers
<1>3. Nothing = Packet("none") /\ Garbled = Packet("garbled")
  BY DEF Nothing, Garbled
<1>4. Nothing.src = "none" /\ Garbled.src = "garbled"
  BY <1>1, <1>3
<1>5. \A p \in Packets : p.src \notin {"none", "garbled"}
  BY <1>1, <1>2 DEF Sources
<1> QED
  BY <1>1, <1>2, <1>4, <1>5 DEF Sources

\* The next index of a ring.
LEMMA NextIndex ==
    \A n \in Indices : /\ (n + 1) % Slots = IF n + 1 < Slots THEN n + 1 ELSE 0
                       /\ (n + 1) % Slots \in Indices
<1> SUFFICES ASSUME NEW n \in Indices
             PROVE  /\ (n + 1) % Slots = IF n + 1 < Slots THEN n + 1 ELSE 0
                    /\ (n + 1) % Slots \in Indices
  OBVIOUS
<1>1. Slots \in Nat /\ Slots > 0
  BY LinkAssumption DEF LinkAssumption
<1>2. CASE n + 1 < Slots
  BY <1>1, <1>2 DEF Indices
<1>3. CASE n + 1 = Slots
  BY <1>1, <1>3 DEF Indices
<1> QED
  BY <1>1, <1>2, <1>3 DEF Indices

\* What is produced is what the buffer holds afterwards.
LEMMA ProducesType ==
    ASSUME NEW l, Typed(l)
    PROVE  /\ Produces(l) \in Buffers
           /\ Produces(l) = Nothing <=> l.sources = {} /\ l.queue = << >>
           /\ "host" \notin l.sources /\ l.queue # << >> =>
                  Produces(l) = ButtonPacket(l.slots[Head(l.queue)])
           /\ "host" \in l.sources \/ l.queue = << >> => Produces(l).src # "button"
<1>1. CASE "host" \in l.sources
  <2>1. Produces(l) = Packet("host") /\ "host" \in Sources
    BY <1>1 DEF Produces, Sources
  <2> QED
    BY <1>1, <2>1, PacketFacts DEF Buffers
<1>2. CASE "host" \notin l.sources /\ l.queue # << >>
  <2>1. Produces(l) = ButtonPacket(l.slots[Head(l.queue)])
    BY <1>2 DEF Produces
  <2>2. l.slots[Head(l.queue)] \in Numbers
    BY <1>2 DEF Typed, Links
  <2> QED
    BY <1>2, <2>1, <2>2, PacketFacts DEF Buffers
<1>3. CASE "host" \notin l.sources /\ l.queue = << >> /\ l.sources # {}
  <2>1. Produces(l) = Packet(LaterSource(l))
    BY <1>3 DEF Produces
  <2>2. LaterSource(l) \in Sources
    BY DEF LaterSource, Sources
  <2> QED
    BY <1>3, <2>1, <2>2, PacketFacts DEF Buffers
<1>4. CASE l.queue = << >> /\ l.sources = {}
  <2>1. Produces(l) = Nothing
    BY <1>4 DEF Produces
  <2> QED
    BY <1>4, <2>1, PacketFacts DEF Buffers
<1> QED
  BY <1>1, <1>2, <1>3, <1>4

\* producePacket, field by field.
LEMMA ProducedFields ==
    ASSUME NEW l, Typed(l)
    PROVE  /\ Typed(Produced(l))
           /\ Produced(l).pending <=> Produces(l) # Nothing
           /\ Produced(l).buffer = Produces(l)
           /\ Produced(l).dma = IF l.dma = Nothing THEN Produces(l) ELSE Garbled
           /\ Produced(l).slots = l.slots /\ Produced(l).next = l.next
           /\ Produced(l).queue = IF "host" \notin l.sources /\ l.queue # << >>
                                    THEN Tail(l.queue) ELSE l.queue
<1>1. CASE Produces(l) = Nothing
  <2>1. Produced(l) = [l EXCEPT !.buffer = Nothing, !.pending = FALSE,
                                !.dma = IF @ = Nothing THEN Nothing ELSE Garbled]
    BY <1>1 DEF Produced, Rewritten, Typed, Links
  <2>2. l.queue = << >>
    BY <1>1, ProducesType
  <2> QED
    BY <1>1, <2>1, <2>2 DEF Typed, Links, Buffers, Channels
<1>2. CASE Produces(l) # Nothing
  <2> DEFINE t == Taken(l)
  <2>1. /\ t \in Links /\ Len(t.queue) <= Slots
        /\ t.dma = l.dma /\ t.slots = l.slots /\ t.next = l.next
        /\ t.queue = IF "host" \notin l.sources /\ l.queue # << >> THEN Tail(l.queue) ELSE l.queue
    <3>1. CASE "host" \in l.sources
      BY <3>1 DEF Taken, Typed, Links
    <3>2. CASE "host" \notin l.sources /\ l.queue # << >>
      <4>1. Tail(l.queue) \in Seq(Indices) /\ Len(Tail(l.queue)) = Len(l.queue) - 1
        BY <3>2, HeadTailProperties DEF Typed, Links
      <4>2. Len(l.queue) \in Nat /\ Slots \in Nat
        BY LinkAssumption DEF Typed, Links, LinkAssumption
      <4> DEFINE q == Tail(l.queue)
      <4>3. t = [l EXCEPT !.queue = q]
        BY <3>2 DEF Taken
      <4> HIDE DEF t, q
      <4>4. /\ t \in Links /\ t.queue = q
            /\ t.dma = l.dma /\ t.slots = l.slots /\ t.next = l.next
        BY <4>1, <4>3 DEF Typed, Links, q
      <4>5. Len(q) <= Slots
        BY <4>1, <4>2 DEF Typed, q
      <4> QED
        BY <3>2, <4>4, <4>5 DEF q
    <3>3. CASE "host" \notin l.sources /\ l.queue = << >>
      BY <3>3 DEF Taken, Typed, Links
    <3> QED
      BY <3>1, <3>2, <3>3
  <2>2. Produced(l) = Written([Rewritten(t, Produces(l)) EXCEPT !.pending = TRUE])
    BY <1>2 DEF Produced
  <2> HIDE DEF t
  <2> DEFINE p == Produces(l)
  <2>3. p \in Buffers /\ p \in Channels /\ p # Nothing
    BY <1>2, ProducesType DEF Buffers, Channels
  <2> HIDE DEF p
  <2>4. Produced(l) = [t EXCEPT !.buffer = p, !.pending = TRUE,
                                !.dma = IF @ = Nothing THEN p ELSE Garbled]
    <3>1. CASE t.dma = Nothing
      BY <2>1, <2>2, <3>1 DEF Written, Rewritten, Links, p
    <3>2. CASE t.dma # Nothing
      BY <2>1, <2>2, <3>2, PacketFacts DEF Written, Rewritten, Links, p
    <3> QED
      BY <3>1, <3>2
  <2>5. Garbled \in Channels
    BY DEF Channels
  <2> QED
    BY <2>1, <2>3, <2>4, <2>5 DEF Typed, Links, p
<1> QED
  BY <1>1, <1>2

\* requestTransaction, dispatchEvt and a new request keep the types.
LEMMA HandlerTypes ==
    ASSUME NEW l, Typed(l)
    PROVE  /\ Typed(Requested(l))
           /\ \A more \in SUBSET Sources : Typed([l EXCEPT !.sources = @ \cup more])
           /\ Typed(Advanced(l))
           /\ \A e \in Numbers : Typed(Stored(l, e))
           /\ Len(l.queue) < Slots => Typed(Enqueued(l))
           /\ Len(l.queue) \in Nat
<1>1. Typed(Requested(l))
  BY ProducedFields DEF Requested
<1>2. \A more \in SUBSET Sources : Typed([l EXCEPT !.sources = @ \cup more])
  BY DEF Typed, Links
<1>3. Typed(Advanced(l))
  <2>1. l.next \in Indices
    BY DEF Typed, Links
  <2>2. (l.next + 1) % Slots \in Indices
    BY <2>1, NextIndex
  <2> QED
    BY <2>2 DEF Advanced, Typed, Links
<1>4. \A e \in Numbers : Typed(Stored(l, e))
  BY DEF Stored, Typed, Links
<1>5. Len(l.queue) < Slots => Typed(Enqueued(l))
  <2> DEFINE q == Append(l.queue, l.next)
  <2>1. q \in Seq(Indices) /\ Len(q) = Len(l.queue) + 1
    BY AppendProperties DEF Typed, Links
  <2>2. Len(l.queue) \in Nat /\ Slots \in Nat
    BY LinkAssumption DEF Typed, Links, LinkAssumption
  <2>3. Enqueued(l) = [l EXCEPT !.queue = q]
    BY DEF Enqueued
  <2> HIDE DEF q
  <2>4. Enqueued(l) \in Links /\ Enqueued(l).queue = q
    BY <2>1, <2>3 DEF Typed, Links
  <2> QED
    BY <2>1, <2>2, <2>4 DEF Typed
<1>6. Len(l.queue) \in Nat
  BY DEF Typed, Links
<1> QED
  BY <1>1, <1>2, <1>3, <1>4, <1>5, <1>6

-----------------------------------------------------------------------------
(* The ring and its contents.                                              *)

\* An index that is d places back is d + 1 places back from the next one.
LEMMA BackFacts ==
    ASSUME NEW n \in Indices
    PROVE  /\ Back(n, 0) = n
           /\ \A d \in 0..Slots - 1 : Back((n + 1) % Slots, d + 1) = Back(n, d)
           /\ \A d \in 1..Slots - 1 : Back(n, d) # n
<1>1. Slots \in Nat /\ Slots > 0
  BY LinkAssumption DEF LinkAssumption
<1>2. (n + 1) % Slots = IF n + 1 < Slots THEN n + 1 ELSE 0
  BY NextIndex
<1>3. CASE n + 1 < Slots
  BY <1>1, <1>2, <1>3 DEF Back, Indices
<1>4. CASE n + 1 = Slots
  BY <1>1, <1>2, <1>4 DEF Back, Indices
<1> QED
  BY <1>1, <1>3, <1>4 DEF Indices

\* The contents are a sequence as long as the queue.
LEMMA ContentsType ==
    ASSUME NEW l, Typed(l)
    PROVE  /\ Contents(l) \in Seq(Numbers)
           /\ Len(Contents(l)) = Len(l.queue) /\ Len(l.queue) \in Nat
           /\ \A k \in 1..Len(l.queue) : /\ Contents(l)[k] = l.slots[l.queue[k]]
                                         /\ l.queue[k] \in Indices
<1>1. /\ Len(l.queue) \in Nat /\ DOMAIN l.queue = 1..Len(l.queue)
      /\ \A k \in 1..Len(l.queue) : l.queue[k] \in Indices
  BY LenProperties, ElementOfSeq DEF Typed, Links
<1>2. \A k \in 1..Len(l.queue) : l.slots[l.queue[k]] \in Numbers
  BY <1>1 DEF Typed, Links
<1>3. Contents(l) = [k \in 1..Len(l.queue) |-> l.slots[l.queue[k]]]
  BY <1>1 DEF Contents
<1> QED
  BY <1>1, <1>2, <1>3

\* The contents only depend on the slots that are in the queue.
LEMMA ContentsSame ==
    ASSUME NEW l, NEW n, Typed(l), Typed(n), n.queue = l.queue,
           \A k \in 1..Len(l.queue) : n.slots[l.queue[k]] = l.slots[l.queue[k]]
    PROVE  Contents(n) = Contents(l)
<1>1. /\ Contents(l) \in Seq(Numbers) /\ Contents(n) \in Seq(Numbers)
      /\ Len(Contents(n)) = Len(Contents(l)) /\ Len(Contents(l)) = Len(l.queue)
  BY ContentsType
<1>2. \A k \in 1..Len(Contents(l)) : Contents(n)[k] = Contents(l)[k]
  BY <1>1, ContentsType
<1> QED
  BY <1>1, <1>2, SeqEqual

\* Taking an index out of the queue takes the first event out of the contents.
LEMMA ContentsTail ==
    ASSUME NEW l, NEW n, Typed(l), Typed(n), n.slots = l.slots,
           l.queue # << >>, n.queue = Tail(l.queue)
    PROVE  /\ << l.slots[Head(l.queue)] >> \o Contents(n) = Contents(l)
           /\ Len(n.queue) = Len(l.queue) - 1
           /\ \A k \in 1..Len(n.queue) : n.queue[k] = l.queue[k + 1]
<1>1. /\ Contents(l) \in Seq(Numbers) /\ Contents(n) \in Seq(Numbers)
      /\ Len(Contents(n)) = Len(n.queue) /\ Len(Contents(l)) = Len(l.queue)
      /\ Len(l.queue) \in Nat /\ Len(n.queue) \in Nat
  BY ContentsType
<1>2. /\ Head(l.queue) = l.queue[1]
      /\ Len(n.queue) = Len(l.queue) - 1
      /\ \A k \in 1..Len(n.queue) : n.queue[k] = l.queue[k + 1]
  BY HeadTailProperties DEF Typed, Links
<1> DEFINE first == << l.slots[Head(l.queue)] >>
           both  == first \o Contents(n)
<1>3. Len(l.queue) >= 1
  BY <1>1, <1>2
<1>4. l.slots[Head(l.queue)] \in Numbers
  BY <1>1, <1>2, <1>3, ContentsType DEF Typed, Links
<1>5. first \in Seq(Numbers) /\ Len(first) = 1 /\ first[1] = l.slots[l.queue[1]]
  BY <1>2, <1>4
<1> HIDE DEF first
<1>6. /\ both \in Seq(Numbers) /\ Len(both) = Len(l.queue)
      /\ \A i \in 1..Len(l.queue) :
             both[i] = IF i <= 1 THEN first[i] ELSE Contents(n)[i - 1]
  <2>1. /\ both \in Seq(Numbers) /\ Len(both) = Len(first) + Len(Contents(n))
        /\ \A i \in 1..Len(first) + Len(Contents(n)) :
               both[i] = IF i <= Len(first) THEN first[i] ELSE Contents(n)[i - Len(first)]
    <3>1. first \in Seq(Numbers) /\ Contents(n) \in Seq(Numbers)
      BY <1>1, <1>5
    <3> QED
      BY ONLY <3>1, ConcatProperties, Zenon DEF both
  <2> HIDE DEF both
  <2>2. Len(first) + Len(Contents(n)) = Len(l.queue)
    BY <1>1, <1>2, <1>5
  <2> QED
    BY <1>5, <2>1, <2>2
<1> HIDE DEF both
<1>7. ASSUME NEW i \in 1..Len(l.queue) PROVE both[i] = Contents(l)[i]
  <2>1. Contents(l)[i] = l.slots[l.queue[i]]
    BY ContentsType
  <2>2. CASE i = 1
    BY <1>5, <1>6, <2>1, <2>2
  <2>3. CASE i > 1
    <3>1. PICK j \in 1..Len(n.queue) : j = i - 1 /\ j + 1 = i
      BY <1>1, <1>2, <2>3
    <3>2. n.queue[j] = l.queue[i]
      BY <1>2, <3>1
    <3>3. Contents(n)[j] = l.slots[n.queue[j]]
      BY ContentsType
    <3> QED
      BY <1>1, <1>6, <2>1, <2>3, <3>1, <3>2, <3>3
  <2> QED
    BY <1>1, <2>2, <2>3
<1>8. both = Contents(l)
  BY <1>1, <1>6, <1>7, SeqEqual
<1> QED
  BY <1>2, <1>8 DEF both, first

\* Putting an index into the queue puts its event behind the contents.
LEMMA ContentsAppend ==
    ASSUME NEW l, NEW n, Typed(l), Typed(n), n.slots = l.slots,
           NEW j \in Indices, n.queue = Append(l.queue, j)
    PROVE  /\ Contents(n) = Append(Contents(l), l.slots[j])
           /\ Len(n.queue) = Len(l.queue) + 1
           /\ \A k \in 1..Len(l.queue) : n.queue[k] = l.queue[k]
           /\ n.queue[Len(l.queue) + 1] = j
<1>1. /\ Contents(l) \in Seq(Numbers) /\ Contents(n) \in Seq(Numbers)
      /\ Len(Contents(n)) = Len(n.queue) /\ Len(Contents(l)) = Len(l.queue)
      /\ Len(l.queue) \in Nat
  BY ContentsType
<1>2. /\ Len(n.queue) = Len(l.queue) + 1
      /\ \A k \in 1..Len(l.queue) : n.queue[k] = l.queue[k]
      /\ n.queue[Len(l.queue) + 1] = j
  BY AppendProperties DEF Typed, Links
<1> DEFINE e == l.slots[j]
           longer == Append(Contents(l), e)
<1>3. e \in Numbers
  BY DEF Typed, Links
<1>4. /\ longer \in Seq(Numbers) /\ Len(longer) = Len(l.queue) + 1
      /\ \A k \in 1..Len(l.queue) : longer[k] = Contents(l)[k]
      /\ longer[Len(l.queue) + 1] = e
  BY <1>1, <1>3, AppendProperties
<1> HIDE DEF longer
<1>5. ASSUME NEW k \in 1..Len(n.queue) PROVE Contents(n)[k] = longer[k]
  <2>1. Contents(n)[k] = l.slots[n.queue[k]]
    BY ContentsType
  <2>2. CASE k = Len(l.queue) + 1
    BY <1>2, <1>4, <2>1, <2>2
  <2>3. CASE k \in 1..Len(l.queue)
    BY <1>2, <1>4, <2>1, <2>3, ContentsType
  <2> QED
    BY <1>1, <1>2, <2>2, <2>3
<1>6. Contents(n) = longer
  BY <1>1, <1>2, <1>4, <1>5, SeqEqual
<1> QED
  BY <1>2, <1>6 DEF longer

-----------------------------------------------------------------------------
(* What handlers and statements do to a link that carries the events x.    *)

\* A link with nothing under way outside the main loop's production carries its
\* contents, and still does when producePacket has run.
LEMMA ProducedGood ==
    ASSUME NEW l, NEW m \in Mains, Typed(l), l.dma = Nothing, Ring(l, m),
           m.pc \notin Producing \cup {"write"}
    PROVE  Good(Produced(l), m, Contents(l))
<1> DEFINE n == Produced(l)
<1>1. /\ Typed(n)
      /\ n.pending <=> Produces(l) # Nothing
      /\ n.buffer = Produces(l) /\ n.dma = Produces(l)
      /\ n.slots = l.slots /\ n.next = l.next
      /\ n.queue = IF "host" \notin l.sources /\ l.queue # << >> THEN Tail(l.queue) ELSE l.queue
  BY ProducedFields
<1> HIDE DEF n
<1>2. Sending(n, m)
  BY <1>1 DEF Sending, Producing
<1>3. CASE "host" \notin l.sources /\ l.queue # << >>
  <2>1. /\ << l.slots[Head(l.queue)] >> \o Contents(n) = Contents(l)
        /\ Len(n.queue) = Len(l.queue) - 1
        /\ \A k \in 1..Len(n.queue) : n.queue[k] = l.queue[k + 1]
    BY <1>1, <1>3, ContentsTail
  <2>2. l.slots[Head(l.queue)] \in Numbers
    BY <1>3, HeadTailProperties DEF Typed, Links
  <2>3. OnWay(n, m) = << l.slots[Head(l.queue)] >>
    BY <1>1, <1>3, <2>2, ProducesType, PacketFacts DEF OnWay
  <2>4. Ring(n, m)
    <3>1. Len(l.queue) \in Nat /\ Len(n.queue) \in Nat
      BY <1>1, HandlerTypes
    <3>2. \A k \in 1..Len(n.queue) : n.queue[k] = Back(n.next, Len(n.queue) - k + Behind(m))
      <4> TAKE k \in 1..Len(n.queue)
      <4>1. k + 1 \in 1..Len(l.queue) /\ Len(l.queue) - (k + 1) = Len(n.queue) - k
        BY <2>1, <3>1
      <4>2. l.queue[k + 1] = Back(l.next, Len(l.queue) - (k + 1) + Behind(m))
        BY <4>1 DEF Ring
      <4> QED
        BY <1>1, <2>1, <4>1, <4>2
    <3> QED
      BY <1>1, <2>1, <3>1, <3>2, LinkAssumption DEF Ring, LinkAssumption
  <2> QED
    BY <1>2, <2>1, <2>3, <2>4 DEF Good, n
<1>4. CASE "host" \in l.sources \/ l.queue = << >>
  <2>1. n.queue = l.queue
    BY <1>1, <1>4
  <2>2. Contents(n) = Contents(l)
    BY <1>1, <2>1, ContentsSame
  <2>3. OnWay(n, m) = << >>
    <3>1. n.dma.src # "button"
      BY <1>1, <1>4, ProducesType
    <3> QED
      BY <3>1 DEF OnWay, Producing
  <2>4. << >> \o Contents(l) = Contents(l)
    BY ContentsType, ConcatEmptySeq
  <2>5. Ring(n, m)
    BY <1>1, <2>1 DEF Ring
  <2> QED
    BY <1>2, <2>2, <2>3, <2>4, <2>5 DEF Good, n
<1> QED
  BY <1>3, <1>4 DEF n

\* requestTransaction, when it is not called in the middle of the main loop's.
LEMMA RequestedGood ==
    ASSUME NEW l, NEW m \in Mains, NEW x, Typed(l), Good(l, m, x), m.pc \notin Producing
    PROVE  Good(Requested(l), m, x)
<1>1. CASE l.pending
  BY <1>1 DEF Requested
<1>2. CASE ~l.pending
  <2>1. m.pc # "write" /\ l.dma = Nothing
    BY <1>2 DEF Good, Sending, Producing
  <2>2. OnWay(l, m) = << >>
    BY <2>1, PacketFacts DEF OnWay, Producing
  <2>3. x = Contents(l)
    BY <2>2, ContentsType, ConcatEmptySeq DEF Good
  <2>4. Requested(l) = Produced(l)
    BY <1>2 DEF Requested
  <2> QED
    BY <2>1, <2>3, <2>4, ProducedGood DEF Good
<1> QED
  BY <1>1, <1>2

\* A new request of another source changes nothing that is under way.
LEMMA SourcesGood ==
    ASSUME NEW l, NEW m \in Mains, NEW x, Typed(l), Good(l, m, x), NEW more \in SUBSET Sources
    PROVE  Good([l EXCEPT !.sources = @ \cup more], m, x)
<1> DEFINE n == [l EXCEPT !.sources = @ \cup more]
<1>1. /\ n.pending = l.pending /\ n.buffer = l.buffer /\ n.dma = l.dma
      /\ n.queue = l.queue /\ n.slots = l.slots /\ n.next = l.next
  BY DEF Typed, Links
<1> HIDE DEF n
<1>2. Sending(n, m)
  BY <1>1 DEF Good, Sending
<1>3. Ring(n, m)
  BY <1>1 DEF Good, Ring
<1>4. OnWay(n, m) \o Contents(n) = x
  BY <1>1, Zenon DEF Good, OnWay, Contents
<1> QED
  BY <1>2, <1>3, <1>4, Zenon DEF Good, n

\* Storing an event into the next slot.
LEMMA StoredFields ==
    ASSUME NEW l, NEW m \in Mains, NEW e \in Numbers, Typed(l), Ring(l, m),
           Len(l.queue) < Slots, m.pc # "advance"
    PROVE  /\ Stored(l, e) = [l EXCEPT !.slots = [@ EXCEPT ![l.next] = e]]
           /\ Stored(l, e).slots[l.next] = e
           /\ Contents(Stored(l, e)) = Contents(l)
<1> DEFINE n == Stored(l, e)
<1>1. n = [l EXCEPT !.slots = [@ EXCEPT ![l.next] = e]]
  BY DEF Stored
<1>2. /\ n.queue = l.queue /\ n.next = l.next
      /\ n.slots = [l.slots EXCEPT ![l.next] = e]
  BY <1>1 DEF Typed, Links
<1>3. Typed(n) /\ Len(l.queue) \in Nat
  BY HandlerTypes
<1> HIDE DEF n
<1>4. ASSUME NEW k \in 1..Len(l.queue) PROVE l.queue[k] # l.next
  <2>1. l.queue[k] = Back(l.next, Len(l.queue) - k + 1)
    BY DEF Ring, Behind
  <2>2. Len(l.queue) - k + 1 \in 1..Slots - 1
    BY <1>3, LinkAssumption DEF LinkAssumption
  <2>3. l.next \in Indices
    BY DEF Typed, Links
  <2> QED
    BY <2>1, <2>2, <2>3, BackFacts
<1>5. \A k \in 1..Len(l.queue) : n.slots[l.queue[k]] = l.slots[l.queue[k]]
  <2> TAKE k \in 1..Len(l.queue)
  <2>1. l.queue[k] \in Indices
    BY ContentsType
  <2> QED
    BY <1>2, <1>4, <2>1 DEF Typed, Links
<1>6. Contents(n) = Contents(l)
  BY <1>2, <1>3, <1>5, ContentsSame
<1>7. n.slots[l.next] = e
  BY <1>2 DEF Typed, Links
<1> QED
  BY <1>1, <1>6, <1>7 DEF n

\* Appending to the second of two sequences appends to both.
LEMMA AppendBehind ==
    ASSUME NEW s \in Seq(Numbers), NEW t \in Seq(Numbers), NEW e \in Numbers
    PROVE  s \o Append(t, e) = Append(s \o t, e)
<1>1. /\ << e >> \in Seq(Numbers) /\ s \o t \in Seq(Numbers)
      /\ Append(t, e) = t \o << e >> /\ Append(s \o t, e) = (s \o t) \o << e >>
  BY AppendIsConcat, ConcatProperties
<1>2. (s \o t) \o << e >> = s \o (t \o << e >>)
  BY <1>1, ConcatAssociative, SMTT(30)
<1> QED
  BY <1>1, <1>2

\* The main loop's three steps of dispatchEvt, and the same in an interrupt: each
\* keeps the ring, and the event is accepted when its index is put into the queue.
LEMMA StoredGood ==
    ASSUME NEW l, NEW m \in Mains, NEW k \in Mains, NEW x, Typed(l), Good(l, m, x),
           m.pc = "slot", k = [m EXCEPT !.pc = "enqueue"]
    PROVE  Good(Stored(l, m.ev), k, x)
<1> DEFINE n == Stored(l, m.ev)
<1>1. m.ev \in Numbers /\ k.pc = "enqueue" /\ k.ev = m.ev
  BY DEF Mains
<1>2. Ring(l, m) /\ Len(l.queue) < Slots
  BY DEF Good, Ring
<1>3. n = [l EXCEPT !.slots = [@ EXCEPT ![l.next] = m.ev]]
  BY <1>1, <1>2, StoredFields
<1>4. n.slots[l.next] = m.ev /\ Contents(n) = Contents(l)
  BY <1>1, <1>2, StoredFields
<1> HIDE DEF n
<1>5. /\ n.pending = l.pending /\ n.buffer = l.buffer /\ n.dma = l.dma
      /\ n.queue = l.queue /\ n.next = l.next
  BY <1>3 DEF Typed, Links
<1>6. Sending(n, k)
  BY <1>1, <1>5 DEF Good, Sending, Producing
<1>7. Ring(n, k)
  BY <1>1, <1>2, <1>4, <1>5 DEF Ring, Behind
<1>8. OnWay(n, k) = OnWay(l, m)
  BY <1>1, <1>5 DEF OnWay
<1> QED
  BY <1>4, <1>6, <1>7, <1>8 DEF Good, n

\* An index is put into the queue.
LEMMA EnqueuedFields ==
    ASSUME NEW l, Typed(l), Len(l.queue) < Slots
    PROVE  /\ Enqueued(l).pending = l.pending /\ Enqueued(l).buffer = l.buffer
           /\ Enqueued(l).dma = l.dma /\ Enqueued(l).slots = l.slots
           /\ Enqueued(l).next = l.next
           /\ Contents(Enqueued(l)) = Append(Contents(l), l.slots[l.next])
           /\ Len(Enqueued(l).queue) = Len(l.queue) + 1
           /\ \A i \in 1..Len(l.queue) : Enqueued(l).queue[i] = l.queue[i]
           /\ Enqueued(l).queue[Len(l.queue) + 1] = l.next
<1> DEFINE n == Enqueued(l)
           q == Append(l.queue, l.next)
<1>1. n = [l EXCEPT !.queue = q]
  BY DEF Enqueued
<1> HIDE DEF q
<1>2. /\ n.pending = l.pending /\ n.buffer = l.buffer /\ n.dma = l.dma
      /\ n.slots = l.slots /\ n.next = l.next /\ n.queue = q
  BY <1>1 DEF Typed, Links
<1>3. Typed(n) /\ l.next \in Indices
  BY HandlerTypes DEF Typed, Links
<1> HIDE DEF n
<1>4. n.queue = Append(l.queue, l.next)
  BY <1>2 DEF q
<1>5. /\ Contents(n) = Append(Contents(l), l.slots[l.next])
      /\ Len(n.queue) = Len(l.queue) + 1
      /\ \A i \in 1..Len(l.queue) : n.queue[i] = l.queue[i]
      /\ n.queue[Len(l.queue) + 1] = l.next
  BY <1>2, <1>3, <1>4, ContentsAppend
<1> QED
  BY <1>2, <1>5 DEF n

\* The main loop puts the index of its event into the queue.
LEMMA EnqueuedGood ==
    ASSUME NEW l, NEW m \in Mains, NEW k \in Mains, NEW x \in Seq(Numbers), Typed(l),
           Good(l, m, x), m.pc = "enqueue", k = [m EXCEPT !.pc = "advance"]
    PROVE  Good(Enqueued(l), k, Append(x, m.ev))
<1> DEFINE n == Enqueued(l)
<1>1. k.pc = "advance" /\ m.ev \in Numbers
  BY DEF Mains
<1>2. Ring(l, m) /\ Len(l.queue) < Slots /\ l.slots[l.next] = m.ev
  BY DEF Good, Ring
<1>3. /\ n.pending = l.pending /\ n.buffer = l.buffer /\ n.dma = l.dma
      /\ n.slots = l.slots /\ n.next = l.next
      /\ Contents(n) = Append(Contents(l), m.ev)
      /\ Len(n.queue) = Len(l.queue) + 1
      /\ \A i \in 1..Len(l.queue) : n.queue[i] = l.queue[i]
      /\ n.queue[Len(l.queue) + 1] = l.next
  BY <1>2, EnqueuedFields
<1> HIDE DEF n
<1>4. Sending(n, k)
  BY <1>1, <1>3 DEF Good, Sending, Producing
<1>5. Ring(n, k)
  <2>1. Len(l.queue) \in Nat /\ l.next \in Indices
    BY HandlerTypes DEF Typed, Links
  <2>2. Back(l.next, 0) = l.next
    BY <2>1, BackFacts
  <2>3. ASSUME NEW i \in 1..Len(l.queue)
        PROVE  n.queue[i] = Back(n.next, Len(n.queue) - i + 0)
    <3>1. l.queue[i] = Back(l.next, Len(l.queue) - i + 1)
      BY <1>2 DEF Ring, Behind
    <3>2. Len(l.queue) - i + 1 = Len(n.queue) - i + 0
      BY <1>3, <2>1
    <3> QED
      BY <1>3, <3>1, <3>2
  <2>4. \A i \in 1..Len(n.queue) : n.queue[i] = Back(n.next, Len(n.queue) - i + 0)
    <3> TAKE i \in 1..Len(n.queue)
    <3>1. CASE i = Len(l.queue) + 1
      BY <1>3, <2>1, <2>2, <3>1
    <3>2. CASE i \in 1..Len(l.queue)
      BY <2>3, <3>2
    <3> QED
      BY <1>3, <2>1, <3>1, <3>2
  <2> QED
    BY <1>1, <2>4 DEF Ring, Behind
<1>6. OnWay(n, k) = OnWay(l, m)
  BY <1>1, <1>3 DEF OnWay
<1>7. OnWay(l, m) \in Seq(Numbers)
  BY PacketFacts DEF OnWay, Typed, Links, Mains, Buffers, Channels
<1>8. OnWay(l, m) \o Append(Contents(l), m.ev) = Append(x, m.ev)
  BY <1>1, <1>7, ContentsType, AppendBehind, SMTT(30) DEF Good
<1> QED
  BY <1>3, <1>4, <1>5, <1>6, <1>8 DEF Good, n

\* The main loop advances to the next slot.
LEMMA AdvancedGood ==
    ASSUME NEW l, NEW m \in Mains, NEW k \in Mains, NEW x, Typed(l), Good(l, m, x),
           m.pc = "advance", k.pc = "mask"
    PROVE  Good(Advanced(l), k, x)
<1> DEFINE n == Advanced(l)
<1>1. /\ n.pending = l.pending /\ n.buffer = l.buffer /\ n.dma = l.dma
      /\ n.slots = l.slots /\ n.next = (l.next + 1) % Slots /\ n.queue = l.queue
  BY DEF Advanced, Typed, Links
<1> HIDE DEF n
<1>2. Sending(n, k)
  BY <1>1 DEF Good, Sending, Producing
<1>3. Ring(n, k)
  <2>1. Len(l.queue) \in Nat /\ Len(l.queue) <= Slots /\ Slots \in Nat /\ l.next \in Indices
    BY LinkAssumption, HandlerTypes DEF Typed, Links, LinkAssumption
  <2>2. ASSUME NEW i \in 1..Len(l.queue)
        PROVE  n.queue[i] = Back(n.next, Len(n.queue) - i + 1)
    <3>1. l.queue[i] = Back(l.next, Len(l.queue) - i + 0)
      BY DEF Good, Ring, Behind
    <3> DEFINE d == Len(l.queue) - i + 0
    <3>2. d \in 0..Slots - 1 /\ d + 1 = Len(l.queue) - i + 1
      BY <2>1
    <3> HIDE DEF d
    <3>3. Back((l.next + 1) % Slots, d + 1) = Back(l.next, d)
      BY <2>1, <3>2, BackFacts
    <3> QED
      BY <1>1, <3>1, <3>2, <3>3 DEF d
  <2> QED
    BY <1>1, <2>2 DEF Ring, Behind
<1>4. OnWay(n, k) = OnWay(l, m) /\ Contents(n) = Contents(l)
  BY <1>1 DEF OnWay, Contents
<1> QED
  BY <1>2, <1>3, <1>4 DEF Good, n

\* dispatchEvt in an interrupt that does not come into the main loop's.
LEMMA DispatchedGood ==
    ASSUME NEW l, NEW m \in Mains, NEW x \in Seq(Numbers), NEW e \in Numbers, Typed(l),
           Good(l, m, x), m.pc \notin Dispatching \cup Producing, Len(l.queue) < Slots
    PROVE  Good(Advanced(Enqueued(Stored(l, e))), m, Append(x, e))
<1> DEFINE n1 == Stored(l, e)
           n2 == Enqueued(n1)
           n3 == Advanced(n2)
<1>1. Ring(l, m) /\ m.pc # "advance" /\ Behind(m) = 1
  BY DEF Good, Dispatching, Behind
<1>2. n1 = [l EXCEPT !.slots = [@ EXCEPT ![l.next] = e]]
  BY <1>1, StoredFields
<1>3. n1.slots[l.next] = e /\ Contents(n1) = Contents(l)
  BY <1>1, StoredFields
<1>4. Typed(n1)
  BY HandlerTypes
<1> HIDE DEF n1
<1>5. /\ n1.pending = l.pending /\ n1.buffer = l.buffer /\ n1.dma = l.dma
      /\ n1.queue = l.queue /\ n1.next = l.next
      /\ \A i \in Indices : i # l.next => n1.slots[i] = l.slots[i]
  BY <1>2 DEF Typed, Links
<1>6. /\ n2.pending = n1.pending /\ n2.buffer = n1.buffer /\ n2.dma = n1.dma
      /\ n2.slots = n1.slots /\ n2.next = n1.next
      /\ Contents(n2) = Append(Contents(n1), n1.slots[n1.next])
      /\ Len(n2.queue) = Len(n1.queue) + 1
      /\ \A i \in 1..Len(n1.queue) : n2.queue[i] = n1.queue[i]
      /\ n2.queue[Len(n1.queue) + 1] = n1.next
  BY <1>4, <1>5, EnqueuedFields, SMTT(60)
<1>7. Typed(n2)
  BY <1>4, <1>5, HandlerTypes
<1> HIDE DEF n2
<1>8. /\ n2.pending = l.pending /\ n2.buffer = l.buffer /\ n2.dma = l.dma
      /\ n2.slots = n1.slots /\ n2.next = l.next
      /\ Contents(n2) = Append(Contents(l), e)
      /\ Len(n2.queue) = Len(l.queue) + 1
      /\ \A i \in 1..Len(l.queue) : n2.queue[i] = l.queue[i]
      /\ n2.queue[Len(l.queue) + 1] = l.next
  <2>1. n1.queue = l.queue /\ n1.next = l.next
    BY <1>5
  <2>2. Contents(n2) = Append(Contents(l), e)
    BY <1>3, <1>6, <2>1
  <2>3. /\ Len(n2.queue) = Len(l.queue) + 1
        /\ \A i \in 1..Len(l.queue) : n2.queue[i] = l.queue[i]
        /\ n2.queue[Len(l.queue) + 1] = l.next
    BY <1>6, <2>1, Zenon
  <2> QED
    BY <1>5, <1>6, <2>2, <2>3
<1>9. /\ n3.pending = l.pending /\ n3.buffer = l.buffer /\ n3.dma = l.dma
      /\ n3.slots = n1.slots /\ n3.next = (l.next + 1) % Slots /\ n3.queue = n2.queue
  BY <1>8, <1>7 DEF Advanced, Typed, Links
<1> HIDE DEF n3
<1>10. Contents(n3) = Append(Contents(l), e)
  BY <1>8, <1>9, Zenon DEF Contents
<1>11. Sending(n3, m)
  BY <1>9 DEF Good, Sending
<1>12. Ring(n3, m)
  <2>1. Len(l.queue) \in Nat /\ Slots \in Nat /\ l.next \in Indices
    BY LinkAssumption, HandlerTypes DEF Typed, Links, LinkAssumption
  <2>2. ASSUME NEW i \in 1..Len(n3.queue)
        PROVE  n3.queue[i] = Back(n3.next, Len(n3.queue) - i + 1)
    <3> DEFINE d == Len(l.queue) + 1 - i
    <3>1. d \in 0..Slots - 1 /\ d + 1 = Len(n3.queue) - i + 1
      BY <1>8, <1>9, <2>1, SMTT(60)
    <3>2. Back((l.next + 1) % Slots, d + 1) = Back(l.next, d)
      BY <2>1, <3>1, BackFacts
    <3>3. n2.queue[i] = Back(l.next, d)
      <4>1. CASE i = Len(l.queue) + 1
        BY <1>8, <2>1, <3>1, <4>1, BackFacts
      <4>2. CASE i \in 1..Len(l.queue)
        <5>1. l.queue[i] = Back(l.next, Len(l.queue) - i + 1)
          BY <1>1, <4>2 DEF Ring
        <5>2. Len(l.queue) - i + 1 = d
          BY <2>1, <3>1
        <5> QED
          BY <1>8, <4>2, <5>1, <5>2
      <4> QED
        BY <1>8, <1>9, <2>1, <4>1, <4>2
    <3> QED
      BY <1>9, <3>1, <3>2, <3>3
  <2> QED
    BY <1>1, <2>2 DEF Ring, Dispatching
<1>13. OnWay(n3, m) = OnWay(l, m)
  BY <1>9 DEF OnWay, Producing
<1>14. OnWay(l, m) \in Seq(Numbers)
  BY PacketFacts DEF OnWay, Typed, Links, Mains, Buffers, Channels
<1>15. OnWay(l, m) \o Append(Contents(l), e) = Append(x, e)
  BY <1>14, ContentsType, AppendBehind DEF Good
<1> QED
  BY <1>10, <1>11, <1>12, <1>13, <1>15 DEF Good, n1, n2, n3

\* A buffer is rewritten.
LEMMA RewrittenFields ==
    ASSUME NEW l, Typed(l), NEW p \in Buffers
    PROVE  /\ Typed(Rewritten(l, p)) /\ Rewritten(l, p).buffer = p
           /\ Rewritten(l, p).dma = IF l.dma = Nothing THEN Nothing ELSE Garbled
           /\ Rewritten(l, p).pending = l.pending /\ Rewritten(l, p).sources = l.sources
           /\ Rewritten(l, p).queue = l.queue /\ Rewritten(l, p).slots = l.slots
           /\ Rewritten(l, p).next = l.next
<1> DEFINE d == IF l.dma = Nothing THEN Nothing ELSE Garbled
<1>1. d \in Channels
  BY DEF Channels
<1>2. Rewritten(l, p) = [l EXCEPT !.buffer = p, !.dma = d]
  BY DEF Rewritten
<1> HIDE DEF d
<1> QED
  BY <1>1, <1>2 DEF Typed, Links, d

\* Between positions at which the main loop holds nothing.
Quiet == {"loop", "check", "mask", "test", "unmask"}

\* The main loop moves between positions at which it holds nothing.
LEMMA QuietGood ==
    ASSUME NEW l, NEW m \in Mains, NEW k \in Mains, NEW x, Good(l, m, x),
           m.pc \in Quiet, k.pc \in Quiet
    PROVE  Good(l, k, x)
<1>1. Sending(l, k)
  BY DEF Good, Sending, Quiet, Producing
<1>2. Ring(l, k)
  BY DEF Good, Ring, Behind, Quiet
<1>3. OnWay(l, k) = OnWay(l, m)
  BY DEF OnWay, Quiet
<1> QED
  BY <1>1, <1>2, <1>3 DEF Good

\* The statements of requestTransaction in the main loop.  A link on which only the
\* buffer, the sources and txPending change keeps what it carries if the same event
\* is under way.
LEMMA BufferGood ==
    ASSUME NEW l, NEW n, NEW m \in Mains, NEW k \in Mains, NEW x, Good(l, m, x),
           n.queue = l.queue, n.slots = l.slots, n.next = l.next,
           m.pc \notin Dispatching, k.pc \notin Dispatching,
           Sending(n, k), OnWay(n, k) = OnWay(l, m)
    PROVE  Good(n, k, x)
<1>1. Ring(n, k)
  BY DEF Good, Ring, Behind, Dispatching
<1>2. Contents(n) = Contents(l)
  BY DEF Contents
<1> QED
  BY <1>1, <1>2 DEF Good

-----------------------------------------------------------------------------
(* The invariant.                                                          *)

\* The type invariant is the conjunction of its parts.
LEMMA TypeParts ==
    /\ TypeOK <=> /\ Typed(link) /\ main \in Mains
                  /\ irq \in BOOLEAN /\ done \in BOOLEAN /\ raced \in BOOLEAN
                  /\ carried \in 0..PacketsPerBeat /\ expected \in Seq(Events)
    /\ TypeOK' <=> /\ Typed(link)' /\ (main \in Mains)'
                   /\ (irq \in BOOLEAN)' /\ (done \in BOOLEAN)' /\ (raced \in BOOLEAN)'
                   /\ (carried \in 0..PacketsPerBeat)' /\ (expected \in Seq(Events))'
BY DEF TypeOK, Typed, Links, Mains, Buffers, Channels, Numbers, Indices, Places

\* A sequence of events is one of numbers.
LEMMA EventsAreNumbers == Events \subseteq Numbers /\ Seq(Events) \subseteq Seq(Numbers)
<1>1. Events \subseteq Numbers
  BY DEF Numbers
<1> QED
  BY <1>1, SeqMonotonic

\* There is always a number that no event in the system has.
LEMMA NewEventType == LinkInv => NewEvent \in Events
<1> SUFFICES ASSUME LinkInv PROVE NewEvent \in Events
  OBVIOUS
<1>1. /\ Typed(link) /\ main \in Mains /\ expected \in Seq(Events) /\ Slots \in Nat
      /\ Len(expected) \in Nat /\ DOMAIN expected = 1..Len(expected)
  BY TypeParts, LenProperties, LinkAssumption DEF LinkInv, LinkAssumption
<1>2. Len(expected) <= Slots + 1
  <2>1. CASE raced
    <3>1. expected = << >>
      BY <2>1 DEF LinkInv, Sound
    <3> QED
      BY <1>1, <3>1
  <2>2. CASE ~raced
    <3>1. OnWay(link, main) \o Contents(link) = expected
      BY <2>2 DEF LinkInv, Good
    <3>2. OnWay(link, main) \in Seq(Numbers) /\ Len(OnWay(link, main)) <= 1
      BY <1>1, PacketFacts DEF OnWay, Typed, Links, Mains, Buffers, Channels
    <3>3. /\ Contents(link) \in Seq(Numbers) /\ Len(Contents(link)) <= Slots
          /\ Len(Contents(link)) \in Nat
      BY <1>1, ContentsType DEF Typed
    <3>4. Len(OnWay(link, main) \o Contents(link)) = Len(OnWay(link, main)) + Len(Contents(link))
      BY <3>2, <3>3, ConcatProperties
    <3>5. Len(OnWay(link, main)) \in Nat
      BY <3>2, LenProperties
    <3> QED
      BY <1>1, <3>1, <3>2, <3>3, <3>4, <3>5
  <2> QED
    BY <2>1, <2>2
<1> DEFINE known == {expected[k] : k \in DOMAIN expected}
<1>3. IsFiniteSet(known) /\ Cardinality(known) <= Slots + 1 /\ Cardinality(known) \in Nat
  <2>1. IsFiniteSet(1..Len(expected)) /\ Cardinality(1..Len(expected)) = Len(expected)
    BY <1>1, FS_Interval
  <2>2. expected \in Surjection(1..Len(expected), known)
    BY <1>1 DEF Surjection
  <2>3. IsFiniteSet(known) /\ Cardinality(known) <= Cardinality(1..Len(expected))
    BY <2>1, <2>2, FS_Surjection
  <2>4. Cardinality(known) \in Nat
    BY <2>3, FS_CardinalityType
  <2> QED
    BY <1>1, <1>2, <2>1, <2>3, <2>4
<1>4. UsedEvents = known \cup {main.ev}
  BY DEF UsedEvents
<1> HIDE DEF known
<1>5. /\ IsFiniteSet(UsedEvents) /\ Cardinality(UsedEvents) <= Slots + 2
      /\ Cardinality(UsedEvents) \in Nat
  <2>1. /\ IsFiniteSet(known \cup {main.ev})
        /\ Cardinality(known \cup {main.ev}) =
               IF main.ev \in known THEN Cardinality(known) ELSE Cardinality(known) + 1
    BY <1>3, FS_AddElement
  <2> QED
    BY <1>1, <1>3, <1>4, <2>1
<1>6. Cardinality(Events) = Slots + 3
  BY <1>1, FS_Interval DEF Events
<1>7. ~(Events \subseteq UsedEvents)
  <2> SUFFICES ASSUME Events \in SUBSET UsedEvents PROVE FALSE
    OBVIOUS
  <2>1. Cardinality(Events) <= Cardinality(UsedEvents)
    BY <1>5, FS_Subset
  <2> QED
    BY <1>1, <1>5, <1>6, <2>1
<1>8. \E e \in Events : e \notin UsedEvents
  BY <1>7
<1> QED
  BY <1>8 DEF NewEvent

\* The invariant holds when the controller starts.
LEMMA InitInv == Init => LinkInv
<1> SUFFICES ASSUME Init PROVE LinkInv
  OBVIOUS
<1>1. Slots \in Nat /\ Slots > 0 /\ PacketsPerBeat \in Nat
  BY LinkAssumption DEF LinkAssumption
<1>2. main = [pc |-> "loop", idx |-> 0, ev |-> NoEvent] /\ main \in Mains
  BY <1>1 DEF Init, Idle, Mains, Places, Indices, Numbers
<1>3. Nothing \in Buffers /\ Nothing \in Channels
  BY DEF Buffers, Channels
<1>4. /\ link \in Links /\ link.queue = << >> /\ link.pending = FALSE
      /\ link.dma = Nothing
  BY <1>1, <1>3 DEF Init, Links, Indices, Numbers
<1>5. Typed(link)
  BY <1>1, <1>4 DEF Typed
<1>6. TypeOK
  <2>1. /\ irq = FALSE /\ done = FALSE /\ raced = FALSE /\ carried = 0 /\ expected = << >>
    BY DEF Init
  <2>2. << >> \in Seq(Events) /\ 0 \in 0..PacketsPerBeat
    BY <1>1
  <2> QED
    BY <1>2, <1>5, <2>1, <2>2, TypeParts
<1>7. Sound
  BY <1>2 DEF Init, Sound, Dispatching
<1>8. Sending(link, main)
  BY <1>2, <1>4 DEF Sending, Producing
<1>9. Ring(link, main)
  BY <1>2, <1>4 DEF Ring
<1>10. OnWay(link, main) \o Contents(link) = expected
  <2>1. OnWay(link, main) = << >>
    BY <1>2, <1>4, PacketFacts DEF OnWay
  <2>2. Contents(link) \in Seq(Numbers) /\ Len(Contents(link)) = 0
    BY <1>4, <1>5, ContentsType
  <2>3. Contents(link) = << >>
    BY <2>2, EmptySeq
  <2> QED
    BY <2>1, <2>3 DEF Init
<1> QED
  BY <1>6, <1>7, <1>8, <1>9, <1>10 DEF LinkInv, Good

-----------------------------------------------------------------------------
(* The interrupts preserve the invariant.                                  *)

\* What is being sent is still being sent when something else is requested.
LEMMA RequestedSends ==
    ASSUME NEW l, Typed(l), l.dma # Nothing
    PROVE  Requested(l).dma # Nothing
BY ProducedFields, PacketFacts DEF Requested

\* dispatchEvt changes the ring alone.
LEMMA DispatchedFields ==
    ASSUME NEW l, Typed(l), NEW e \in Numbers, Len(l.queue) < Slots
    PROVE  /\ Typed(Advanced(Enqueued(Stored(l, e))))
           /\ Advanced(Enqueued(Stored(l, e))).dma = l.dma
<1> DEFINE n1 == Stored(l, e)
           n2 == Enqueued(n1)
<1>1. Typed(n1) /\ n1.queue = l.queue /\ n1.dma = l.dma
  BY HandlerTypes DEF Stored, Typed, Links
<1> HIDE DEF n1
<1>2. Typed(n2) /\ n2.dma = n1.dma
  BY <1>1, HandlerTypes, EnqueuedFields
<1> HIDE DEF n2
<1>3. Typed(Advanced(n2)) /\ Advanced(n2).dma = n2.dma
  BY <1>2, HandlerTypes DEF Advanced, Typed, Links
<1> QED
  BY <1>1, <1>2, <1>3 DEF n1, n2

\* A button interrupt, wherever it comes, keeps the invariant.
LEMMA ButtonStep ==
    ASSUME LinkInv, NEW sources \in SUBSET {"command"}, ButtonIsr(sources)
    PROVE  LinkInv'
<1> DEFINE e  == NewEvent
           l0 == [link EXCEPT !.sources = @ \cup sources]
           l1 == IF sources = {} THEN link ELSE Requested(l0)
           l2 == Requested(Advanced(Enqueued(Stored(l1, e))))
           hit == main.pc \in Dispatching \/ (main.pc \in Producing /\ ~link.pending)
<1>1. /\ raced' = (raced \/ hit)
      /\ IF QueueFull(l1)
           THEN link' = l1 /\ expected' = IF raced' THEN << >> ELSE expected
           ELSE link' = l2 /\ expected' = IF raced' THEN << >> ELSE Append(expected, e)
      /\ irq' = (IF sources = {} /\ QueueFull(l1) THEN irq ELSE TRUE)
      /\ UNCHANGED << main, done, carried >>
  BY Zenon DEF ButtonIsr
<1>2. /\ Typed(link) /\ main \in Mains /\ expected \in Seq(Events) /\ expected \in Seq(Numbers)
      /\ irq \in BOOLEAN /\ done \in BOOLEAN /\ raced \in BOOLEAN /\ carried \in 0..PacketsPerBeat
  BY TypeParts, EventsAreNumbers, Zenon DEF LinkInv
<1>3. e \in Events /\ e \in Numbers
  BY NewEventType, EventsAreNumbers
<1>4. sources \in SUBSET Sources
  BY DEF Sources
<1>5. Typed(l0) /\ l0.dma = link.dma
  BY <1>2, <1>4, HandlerTypes DEF Typed, Links
<1> HIDE DEF e, l0
<1>6. Typed(l1) /\ (link.dma # Nothing => l1.dma # Nothing)
  BY <1>2, <1>5, HandlerTypes, RequestedSends
<1>7. Len(l1.queue) \in Nat /\ (QueueFull(l1) <=> Len(l1.queue) >= Slots)
  BY <1>6, HandlerTypes DEF QueueFull
<1> HIDE DEF l1
<1>8. ~QueueFull(l1) => Len(l1.queue) < Slots
  BY <1>7, LinkAssumption DEF LinkAssumption
<1>9. ASSUME ~QueueFull(l1) PROVE Typed(l2) /\ (link.dma # Nothing => l2.dma # Nothing)
  <2> DEFINE n == Advanced(Enqueued(Stored(l1, e)))
  <2>1. Typed(n) /\ n.dma = l1.dma
    BY <1>3, <1>6, <1>8, <1>9, DispatchedFields
  <2> HIDE DEF n
  <2>2. Typed(Requested(n)) /\ (n.dma # Nothing => Requested(n).dma # Nothing)
    BY <2>1, HandlerTypes, RequestedSends
  <2> QED
    BY <1>6, <2>1, <2>2 DEF n
<1>10. Typed(link)' /\ (link.dma # Nothing => link'.dma # Nothing)
  <2> HIDE DEF l2
  <2> QED
    BY <1>1, <1>6, <1>9 DEF Typed
<1>11. expected' \in Seq(Events) /\ (raced' => expected' = << >>)
  <2>1. << >> \in Seq(Events) /\ Append(expected, e) \in Seq(Events)
    BY <1>2, <1>3, AppendProperties
  <2> QED
    BY <1>1, <1>2, <2>1
<1>12. TypeOK'
  <2>1. (irq \in BOOLEAN)' /\ (raced \in BOOLEAN)'
    BY <1>1, <1>2
  <2>2. (main \in Mains)' /\ (done \in BOOLEAN)' /\ (carried \in 0..PacketsPerBeat)'
    BY <1>1, <1>2
  <2> QED
    BY <1>10, <1>11, <2>1, <2>2, TypeParts, Zenon
<1>13. Sound'
  BY <1>1, <1>10, <1>11 DEF LinkInv, Sound
<1>14. ASSUME ~raced' PROVE Good(link', main', expected')
  <2>1. /\ Good(link, main, expected)
        /\ main.pc \notin Dispatching /\ (main.pc \in Producing => link.pending)
    BY <1>1, <1>14 DEF LinkInv
  <2>2. main.pc \notin Dispatching \cup Producing
    BY <2>1 DEF Good, Sending
  <2>3. Good(l0, main, expected)
    BY <1>2, <1>4, <2>1, SourcesGood DEF l0
  <2>4. Good(l1, main, expected)
    BY <1>2, <1>5, <2>1, <2>2, <2>3, RequestedGood DEF l1
  <2>5. CASE QueueFull(l1)
    BY <1>1, <1>14, <2>4, <2>5
  <2>6. CASE ~QueueFull(l1)
    <3> DEFINE n == Advanced(Enqueued(Stored(l1, e)))
               x == Append(expected, e)
    <3>1. Good(n, main, x)
      BY <1>2, <1>3, <1>6, <1>8, <2>2, <2>4, <2>6, DispatchedGood
    <3>2. Typed(n)
      BY <1>3, <1>6, <1>8, <2>6, DispatchedFields
    <3> HIDE DEF n, x
    <3>3. Good(Requested(n), main, x)
      BY <1>2, <2>2, <3>1, <3>2, RequestedGood
    <3>4. link' = Requested(n) /\ expected' = x /\ main' = main
      BY <1>1, <1>14, <2>6 DEF n, x
    <3> QED
      BY <3>3, <3>4
  <2> QED
    BY <2>5, <2>6
<1>15. Good(link', main', expected') => Good(link, main, expected)'
  BY Zenon DEF Good, Sending, Ring, OnWay, Contents, Behind
<1> QED
  BY <1>12, <1>13, <1>14, <1>15 DEF LinkInv

\* What is left when the event under way has arrived.
LEMMA TailBehind ==
    ASSUME NEW e \in Numbers, NEW s \in Seq(Numbers)
    PROVE  << e >> \o s # << >> /\ Tail(<< e >> \o s) = s
<1> DEFINE both == << e >> \o s
<1>1. << e >> \in Seq(Numbers) /\ Len(<< e >>) = 1 /\ Len(s) \in Nat
  OBVIOUS
<1>2. /\ both \in Seq(Numbers) /\ Len(both) = 1 + Len(s)
      /\ \A i \in 1..1 + Len(s) : both[i] = IF i <= 1 THEN << e >>[i] ELSE s[i - 1]
  BY <1>1, ConcatProperties
<1> HIDE DEF both
<1>3. both # << >>
  BY <1>1, <1>2
<1>4. /\ Tail(both) \in Seq(Numbers) /\ Len(Tail(both)) = Len(s)
      /\ \A i \in 1..Len(Tail(both)) : Tail(both)[i] = both[i + 1]
  BY <1>1, <1>2, <1>3, HeadTailProperties
<1>5. \A i \in 1..Len(s) : Tail(both)[i] = s[i]
  <2> TAKE i \in 1..Len(s)
  <2>1. i + 1 \in 1..1 + Len(s) /\ ~(i + 1 <= 1) /\ (i + 1) - 1 = i
    BY <1>1
  <2>2. both[i + 1] = s[(i + 1) - 1]
    BY <1>2, <2>1
  <2> QED
    BY <1>4, <2>1, <2>2
<1>6. Tail(both) = s
  BY <1>4, <1>5, SeqEqual
<1> QED
  BY <1>3, <1>6 DEF both

\* The first of them.
LEMMA HeadBehind ==
    ASSUME NEW e \in Numbers, NEW s \in Seq(Numbers)
    PROVE  Head(<< e >> \o s) = e
<1> DEFINE both == << e >> \o s
<1>1. << e >> \in Seq(Numbers) /\ Len(<< e >>) = 1 /\ Len(s) \in Nat
  OBVIOUS
<1>2. /\ both \in Seq(Numbers) /\ Len(both) = 1 + Len(s)
      /\ \A i \in 1..1 + Len(s) : both[i] = IF i <= 1 THEN << e >>[i] ELSE s[i - 1]
  BY <1>1, ConcatProperties
<1> HIDE DEF both
<1> QED
  BY <1>1, <1>2 DEF both

\* The completion interrupt: the next packet is produced, or nothing is pending.
LEMMA DmaIsrStep == LinkInv /\ DmaIsr => LinkInv'
<1> SUFFICES ASSUME LinkInv, DmaIsr PROVE LinkInv'
  OBVIOUS
<1> DEFINE l == [link EXCEPT !.dma = Nothing]
<1>1. /\ Typed(link) /\ main \in Mains /\ expected \in Seq(Events)
      /\ irq \in BOOLEAN /\ raced \in BOOLEAN /\ carried \in 0..PacketsPerBeat
  BY TypeParts, Zenon DEF LinkInv
<1>2. /\ done /\ irq /\ done' = FALSE
      /\ expected' = IF link.dma.src = "button" /\ ~raced THEN Tail(expected) ELSE expected
      /\ link' = Produced(l)
      /\ carried' = IF carried < PacketsPerBeat THEN carried + 1 ELSE carried
      /\ UNCHANGED << main, irq, raced >>
  BY DEF DmaIsr
<1>3. Typed(l) /\ l.dma = Nothing /\ l.queue = link.queue /\ l.slots = link.slots
      /\ l.next = link.next
  BY <1>1 DEF Typed, Links, Channels
<1> HIDE DEF l
<1>4. Typed(link')
  BY <1>2, <1>3, ProducedFields
<1>5. ASSUME ~raced
      PROVE  Good(link', main', expected') /\ expected' \in Seq(Events)
  <2>1. Good(link, main, expected) /\ link.dma # Nothing
    BY <1>2, <1>5 DEF LinkInv, Sound
  <2>2. main.pc \notin Producing \cup {"write"}
    BY <2>1 DEF Good, Sending
  <2>3. Ring(l, main) /\ Contents(l) = Contents(link)
    BY <1>3, <2>1 DEF Good, Ring, Contents
  <2>4. Good(Produced(l), main, Contents(link))
    BY <1>1, <1>3, <2>2, <2>3, ProducedGood
  <2>5. Contents(link) \in Seq(Numbers)
    BY <1>1, ContentsType
  <2>6. expected' = Contents(link) /\ expected' \in Seq(Events)
    <3>1. CASE link.dma.src = "button"
      <4>1. OnWay(link, main) = << link.dma.ev >>
        BY <3>1 DEF OnWay
      <4>2. link.dma.ev \in Numbers
        BY <1>1, <3>1, PacketFacts DEF Typed, Links, Channels
      <4>3. << link.dma.ev >> \o Contents(link) = expected
        BY <2>1, <4>1 DEF Good
      <4>4. expected # << >> /\ Tail(expected) = Contents(link)
        BY <2>5, <4>2, <4>3, TailBehind
      <4>5. Tail(expected) \in Seq(Events)
        BY <1>1, <4>4, HeadTailProperties
      <4> QED
        BY <1>2, <1>5, <3>1, <4>4, <4>5
    <3>2. CASE link.dma.src # "button"
      <4>1. OnWay(link, main) = << >>
        BY <2>2, <3>2 DEF OnWay, Producing
      <4>2. expected = Contents(link)
        BY <2>1, <2>5, <4>1, ConcatEmptySeq DEF Good
      <4> QED
        BY <1>1, <1>2, <3>2, <4>2
    <3> QED
      BY <3>1, <3>2
  <2> QED
    BY <1>2, <2>4, <2>6
<1>6. TypeOK'
  <2>1. (expected \in Seq(Events))'
    BY <1>1, <1>2, <1>5
  <2>2. (carried \in 0..PacketsPerBeat)'
    BY <1>1, <1>2, LinkAssumption DEF LinkAssumption
  <2>3. (main \in Mains)' /\ (irq \in BOOLEAN)' /\ (done \in BOOLEAN)' /\ (raced \in BOOLEAN)'
    BY <1>1, <1>2
  <2>4. Typed(link)'
    BY <1>4 DEF Typed
  <2> QED
    BY <2>1, <2>2, <2>3, <2>4, TypeParts, Zenon
<1>7. Sound'
  BY <1>2 DEF LinkInv, Sound
<1>8. Good(link', main', expected') => Good(link, main, expected)'
  BY Zenon DEF Good, Sending, Ring, OnWay, Contents, Behind
<1> QED
  BY <1>2, <1>5, <1>6, <1>7, <1>8 DEF LinkInv

\* The DMA channel has sent its packet.
LEMMA DmaFinishStep == LinkInv /\ DmaFinish => LinkInv'
<1> SUFFICES ASSUME LinkInv, DmaFinish PROVE LinkInv'
  OBVIOUS
<1>1. /\ link.dma # Nothing /\ done' = TRUE
      /\ UNCHANGED << link, main, irq, carried, expected, raced >>
  BY DEF DmaFinish
<1>2. TypeOK'
  BY <1>1, ZenonT(60) DEF LinkInv, TypeOK
<1>3. Sound'
  BY <1>1 DEF LinkInv, Sound
<1>4. (raced \/ Good(link, main, expected))'
  BY <1>1, Zenon DEF LinkInv, Good, Sending, Ring, OnWay, Contents, Behind
<1> QED
  BY <1>2, <1>3, <1>4 DEF LinkInv

-----------------------------------------------------------------------------
(* The main loop preserves the invariant.                                  *)

\* What a step of the main loop has to keep.
LEMMA MainParts ==
    ASSUME LinkInv, Typed(link'), main' \in Mains, irq' \in BOOLEAN, UNCHANGED << done, raced >>,
           carried' \in 0..PacketsPerBeat, expected' \in Seq(Events),
           main'.pc \in Dispatching \cup {"check"} => main'.ev \in Events,
           link.dma # Nothing => link'.dma # Nothing,
           raced => expected' = << >>,
           ~raced => Good(link', main', expected')
    PROVE  LinkInv'
<1>1. TypeOK'
  <2>1. Typed(link)' /\ (main \in Mains)' /\ (irq \in BOOLEAN)'
        /\ (carried \in 0..PacketsPerBeat)' /\ (expected \in Seq(Events))'
    BY DEF Typed
  <2>2. (done \in BOOLEAN)' /\ (raced \in BOOLEAN)'
    BY TypeParts, Zenon DEF LinkInv
  <2> QED
    BY <2>1, <2>2, TypeParts, Zenon
<1>2. Sound'
  BY DEF LinkInv, Sound
<1>3. Good(link', main', expected') => Good(link, main, expected)'
  BY Zenon DEF Good, Sending, Ring, OnWay, Contents, Behind
<1> QED
  BY <1>1, <1>2, <1>3 DEF LinkInv

\* What holds before a step.
LEMMA Before ==
    LinkInv => /\ Typed(link) /\ main \in Mains /\ expected \in Seq(Events)
               /\ expected \in Seq(Numbers)
               /\ irq \in BOOLEAN /\ carried \in 0..PacketsPerBeat
               /\ (main.pc \in Dispatching \cup {"check"} => main.ev \in Events)
               /\ (raced => expected = << >>)
               /\ (~raced => Good(link, main, expected))
BY TypeParts, EventsAreNumbers, Zenon DEF LinkInv, Sound

\* Another position of the main loop.
LEMMA GotoMains ==
    ASSUME NEW m \in Mains, NEW p \in Places
    PROVE  /\ [m EXCEPT !.pc = p] \in Mains /\ [m EXCEPT !.pc = p].pc = p
           /\ [m EXCEPT !.pc = p].ev = m.ev /\ [m EXCEPT !.pc = p].idx = m.idx
BY DEF Mains

\* The position of the loop that does nothing.
LEMMA IdleMains == Idle \in Mains /\ Idle.pc = "loop"
BY LinkAssumption DEF Idle, Mains, Places, Indices, Numbers, LinkAssumption

\* The main loop begins one of its tasks.
LEMMA TaskStep == LinkInv /\ Task => LinkInv'
<1> SUFFICES ASSUME LinkInv, Task PROVE LinkInv'
  OBVIOUS
<1> USE Before
<1>1. ASSUME NEW s \in Sources, Ask(s), carried' \in 0..PacketsPerBeat PROVE LinkInv'
  <2> DEFINE l == [link EXCEPT !.sources = @ \cup {s}]
             k == [main EXCEPT !.pc = "mask"]
  <2>1. /\ main.pc = "loop" /\ link' = l /\ main' = k
        /\ UNCHANGED << irq, done, expected, raced >>
    BY <1>1 DEF Ask, At, Goto
  <2>2. Typed(l) /\ l.dma = link.dma
    BY HandlerTypes DEF Typed, Links
  <2>3. k \in Mains /\ k.pc = "mask"
    BY GotoMains DEF Places
  <2>4. ~raced => Good(l, main, expected)
    BY SourcesGood
  <2> HIDE DEF l, k
  <2>5. ~raced => Good(l, k, expected)
    BY <2>1, <2>3, <2>4, QuietGood DEF Quiet
  <2> QED
    BY <1>1, <2>1, <2>2, <2>3, <2>5, MainParts DEF Dispatching
<1>2. CASE HostTask
  BY <1>1, <1>2 DEF HostTask, Sources
<1>3. CASE FlightTask
  BY <1>1, <1>3 DEF FlightTask, Sources
<1>4. CASE Heartbeat
  BY <1>1, <1>4, LinkAssumption DEF Heartbeat, Sources, LinkAssumption
<1>5. CASE HoldTask
  <2>1. /\ main.pc = "loop" /\ main' = [main EXCEPT !.pc = "check", !.ev = NewEvent]
        /\ UNCHANGED << link, irq, done, carried, expected, raced >>
    BY <1>5 DEF HoldTask, At
  <2>2. NewEvent \in Events /\ NewEvent \in Numbers
    BY NewEventType, EventsAreNumbers
  <2>3. main' \in Mains /\ main'.pc = "check" /\ main'.ev \in Events
    BY <2>1, <2>2 DEF Mains, Places
  <2>4. ~raced => Good(link, main', expected)
    BY <2>1, <2>3, QuietGood DEF Quiet
  <2> QED
    BY <2>1, <2>3, <2>4, MainParts
<1>6. CASE SwitchTX
  <2>1. /\ irq' = ~irq /\ UNCHANGED << link, main, done, carried, expected, raced >>
    BY <1>6 DEF SwitchTX
  <2> QED
    BY <2>1, MainParts
<1> QED
  BY <1>2, <1>3, <1>4, <1>5, <1>6 DEF Task

\* dispatchEvt in the main loop, statement by statement.
LEMMA DispatchStep == LinkInv /\ (Check \/ Store \/ Enqueue \/ Advance) => LinkInv'
<1> SUFFICES ASSUME LinkInv, Check \/ Store \/ Enqueue \/ Advance PROVE LinkInv'
  OBVIOUS
<1> USE Before
<1>1. CASE Check
  <2>1. /\ main.pc = "check"
        /\ main' = IF QueueFull(link) THEN Idle ELSE [main EXCEPT !.pc = "slot"]
        /\ UNCHANGED << link, irq, done, carried, expected, raced >>
    BY <1>1 DEF Check, At
  <2>2. CASE QueueFull(link)
    <3>1. main' = Idle
      BY <2>1, <2>2
    <3>2. ~raced => Good(link, Idle, expected)
      BY <2>1, IdleMains, QuietGood DEF Quiet
    <3> QED
      BY <2>1, <3>1, <3>2, IdleMains, MainParts DEF Dispatching
  <2>3. CASE ~QueueFull(link)
    <3> DEFINE k == [main EXCEPT !.pc = "slot"]
    <3>1. main' = k
      BY <2>1, <2>3
    <3>2. k \in Mains /\ k.pc = "slot" /\ k.ev = main.ev
      BY GotoMains DEF Places, Dispatching
    <3> HIDE DEF k
    <3>3. Len(link.queue) < Slots
      BY <2>3, HandlerTypes, LinkAssumption DEF QueueFull, LinkAssumption
    <3>4. ASSUME ~raced PROVE Good(link, k, expected)
      <4>1. Good(link, main, expected)
        BY <3>4
      <4>2. Sending(link, k)
        BY <2>1, <3>2, <4>1 DEF Good, Sending, Producing
      <4>3. Ring(link, k)
        BY <2>1, <3>2, <3>3, <4>1 DEF Good, Ring, Behind
      <4>4. OnWay(link, k) = OnWay(link, main)
        BY <2>1, <3>2 DEF OnWay
      <4> QED
        BY <4>1, <4>2, <4>3, <4>4 DEF Good
    <3> QED
      BY <2>1, <3>1, <3>2, <3>4, MainParts
  <2> QED
    BY <2>2, <2>3
<1>2. CASE Store
  <2> DEFINE l == Stored(link, main.ev)
             k == [main EXCEPT !.pc = "enqueue"]
  <2>1. /\ main.pc = "slot" /\ link' = l /\ main' = k
        /\ UNCHANGED << irq, done, carried, expected, raced >>
    BY <1>2 DEF Store, At, Goto
  <2>2. k \in Mains /\ k.pc = "enqueue" /\ k.ev = main.ev
    BY GotoMains DEF Places, Dispatching
  <2>3. main.ev \in Events /\ main.ev \in Numbers
    BY <2>1, EventsAreNumbers DEF Dispatching
  <2>4. Typed(l) /\ l.dma = link.dma
    BY <2>3, HandlerTypes DEF Stored, Typed, Links
  <2>5. ~raced => Good(l, k, expected)
    BY <2>1, <2>2, StoredGood
  <2> HIDE DEF l, k
  <2> QED
    BY <2>1, <2>2, <2>3, <2>4, <2>5, MainParts
<1>3. CASE Enqueue
  <2> DEFINE l == Enqueued(link)
             k == [main EXCEPT !.pc = "advance"]
             x == IF raced THEN << >> ELSE Append(expected, main.ev)
  <2>1. /\ main.pc = "enqueue" /\ Len(link.queue) < Slots /\ link' = l /\ main' = k
        /\ expected' = x
        /\ UNCHANGED << irq, done, carried, raced >>
    BY <1>3 DEF Enqueue, At, Goto
  <2>2. k \in Mains /\ k.pc = "advance" /\ k.ev = main.ev
    BY GotoMains DEF Places, Dispatching
  <2>3. main.ev \in Events
    BY <2>1 DEF Dispatching
  <2>4. Typed(l) /\ l.dma = link.dma
    BY <2>1, HandlerTypes, EnqueuedFields
  <2>5. x \in Seq(Events)
    BY <2>3, AppendProperties
  <2>6. ~raced => Good(l, k, x)
    BY <2>1, <2>2, EnqueuedGood
  <2> HIDE DEF l, k
  <2> QED
    BY <2>1, <2>2, <2>3, <2>4, <2>5, <2>6, MainParts
<1>4. CASE Advance
  <2> DEFINE l == Advanced(link)
  <2>1. /\ main.pc = "advance" /\ link' = l
        /\ main' = [main EXCEPT !.pc = "mask", !.ev = NoEvent]
        /\ UNCHANGED << irq, done, carried, expected, raced >>
    BY <1>4 DEF Advance, At
  <2>2. main' \in Mains /\ main'.pc = "mask"
    BY <2>1 DEF Mains, Places, Numbers
  <2>3. Typed(l) /\ l.dma = link.dma
    BY HandlerTypes DEF Advanced, Typed, Links
  <2>4. ~raced => Good(l, main', expected)
    BY <2>1, <2>2, AdvancedGood
  <2> HIDE DEF l
  <2> QED
    BY <2>1, <2>2, <2>3, <2>4, MainParts DEF Dispatching
<1> QED
  BY <1>1, <1>2, <1>3, <1>4

\* requestTransaction up to the sources.
LEMMA EnterStep == LinkInv /\ (Mask \/ Test \/ Reset \/ Unmask) => LinkInv'
<1> SUFFICES ASSUME LinkInv, Mask \/ Test \/ Reset \/ Unmask PROVE LinkInv'
  OBVIOUS
<1> USE Before
<1>1. CASE Mask
  <2> DEFINE k == [main EXCEPT !.pc = "test"]
  <2>1. /\ main.pc = "mask" /\ main' = k /\ irq' = FALSE
        /\ UNCHANGED << link, done, carried, expected, raced >>
    BY <1>1 DEF Mask, At, Goto
  <2>2. k \in Mains /\ k.pc = "test"
    BY GotoMains DEF Places
  <2> HIDE DEF k
  <2>3. ~raced => Good(link, k, expected)
    BY <2>1, <2>2, QuietGood DEF Quiet
  <2> QED
    BY <2>1, <2>2, <2>3, MainParts DEF Dispatching
<1>2. CASE Test
  <2> DEFINE p == IF link.pending THEN "unmask" ELSE "reset"
             k == [main EXCEPT !.pc = p]
  <2>1. /\ main.pc = "test" /\ main' = k
        /\ UNCHANGED << link, irq, done, carried, expected, raced >>
    BY <1>2 DEF Test, At, Goto
  <2>2. k \in Mains /\ k.pc = p
    <3>1. p \in Places
      BY DEF Places, Producing
    <3> HIDE DEF p
    <3> QED
      BY <3>1, GotoMains
  <2> HIDE DEF k
  <2>3. ASSUME ~raced PROVE Good(link, k, expected)
    <3>1. Good(link, main, expected)
      BY <2>3
    <3>2. Sending(link, k)
      BY <2>1, <2>2, <3>1 DEF Good, Sending, Producing
    <3>3. OnWay(link, k) = OnWay(link, main)
      BY <2>1, <2>2 DEF OnWay
    <3> QED
      BY <2>1, <2>2, <3>1, <3>2, <3>3, BufferGood DEF Dispatching
  <2> QED
    BY <2>1, <2>2, <2>3, MainParts DEF Dispatching
<1>3. CASE Reset
  <2> DEFINE l == Rewritten(link, Nothing)
             k == [main EXCEPT !.pc = "host"]
  <2>1. /\ main.pc = "reset" /\ link' = l /\ main' = k
        /\ UNCHANGED << irq, done, carried, expected, raced >>
    BY <1>3 DEF Reset, At, Goto
  <2>2. k \in Mains /\ k.pc = "host"
    BY GotoMains DEF Places, Producing
  <2>3. /\ Typed(l) /\ l.dma = IF link.dma = Nothing THEN Nothing ELSE Garbled
        /\ l.pending = link.pending /\ l.buffer = Nothing
        /\ l.queue = link.queue /\ l.slots = link.slots /\ l.next = link.next
    BY RewrittenFields DEF Buffers
  <2> HIDE DEF l, k
  <2>4. ASSUME ~raced PROVE Good(l, k, expected)
    <3>1. Good(link, main, expected) /\ link.dma = Nothing /\ ~link.pending
      BY <2>1, <2>4 DEF Good, Sending, Producing
    <3>2. Sending(l, k)
      BY <2>2, <2>3, <3>1 DEF Sending, Producing
    <3>3. OnWay(l, k) = OnWay(link, main)
      BY <2>1, <2>2, <2>3, <3>1 DEF OnWay
    <3> QED
      BY <2>1, <2>2, <2>3, <3>1, <3>2, <3>3, BufferGood DEF Dispatching
  <2> QED
    BY <2>1, <2>2, <2>3, <2>4, PacketFacts, MainParts DEF Dispatching
<1>4. CASE Unmask
  <2>1. /\ main.pc = "unmask" /\ irq' = TRUE /\ main' = Idle
        /\ UNCHANGED << link, done, carried, expected, raced >>
    BY <1>4 DEF Unmask, At
  <2>2. ~raced => Good(link, Idle, expected)
    BY <2>1, IdleMains, QuietGood DEF Quiet
  <2> QED
    BY <2>1, <2>2, IdleMains, MainParts DEF Dispatching
<1> QED
  BY <1>1, <1>2, <1>3, <1>4

\* A source other than the buttons has written its packet.
LEMMA OtherSource ==
    ASSUME LinkInv, NEW s \in Sources, main.pc \in {"host", "later"},
           link' = [Rewritten(link, Packet(s)) EXCEPT !.sources = @ \ {s}],
           main' = [main EXCEPT !.pc = "commit"],
           UNCHANGED << irq, done, carried, expected, raced >>
    PROVE  LinkInv'
<1> USE Before
<1> DEFINE r == Rewritten(link, Packet(s))
           l == [r EXCEPT !.sources = @ \ {s}]
           k == [main EXCEPT !.pc = "commit"]
<1>1. k \in Mains /\ k.pc = "commit"
  BY GotoMains DEF Places, Producing
<1>2. Packet(s) \in Buffers /\ Packet(s) # Nothing /\ Packet(s).src # "button"
  BY PacketFacts DEF Buffers
<1>3. /\ Typed(r) /\ r.dma = IF link.dma = Nothing THEN Nothing ELSE Garbled
      /\ r.pending = link.pending /\ r.buffer = Packet(s)
      /\ r.queue = link.queue /\ r.slots = link.slots /\ r.next = link.next
  BY <1>2, RewrittenFields
<1> HIDE DEF r, k
<1>4. /\ Typed(l) /\ l.dma = r.dma /\ l.pending = r.pending /\ l.buffer = r.buffer
      /\ l.queue = r.queue /\ l.slots = r.slots /\ l.next = r.next
  BY <1>3 DEF Typed, Links
<1> HIDE DEF l
<1>5. ASSUME ~raced PROVE Good(l, k, expected)
  <2>1. Good(link, main, expected) /\ link.dma = Nothing /\ ~link.pending
    BY <1>5 DEF Good, Sending, Producing
  <2>2. Sending(l, k)
    BY <1>1, <1>2, <1>3, <1>4, <2>1 DEF Sending, Producing
  <2>3. OnWay(l, k) = OnWay(link, main)
    BY <1>1, <1>2, <1>3, <1>4, <2>1, PacketFacts DEF OnWay
  <2> QED
    BY <1>1, <1>3, <1>4, <2>1, <2>2, <2>3, BufferGood DEF Dispatching
<1>6. link' = l /\ main' = k
  BY DEF l, k, r
<1>7. link.dma # Nothing => l.dma # Nothing
  BY <1>3, <1>4, PacketFacts
<1> QED
  BY <1>1, <1>4, <1>5, <1>6, <1>7, MainParts DEF Dispatching

\* A source has no packet, and the next one is asked.
LEMMA NoSource ==
    ASSUME LinkInv, UNCHANGED << link, irq, done, carried, expected, raced >>,
           main.pc \in {"host", "buttons", "later"},
           NEW p \in {"buttons", "later", "clear"}, main' = [main EXCEPT !.pc = p]
    PROVE  LinkInv'
<1> USE Before
<1> DEFINE k == [main EXCEPT !.pc = p]
<1>1. k \in Mains /\ k.pc = p
  BY GotoMains DEF Places, Producing
<1> HIDE DEF k
<1>2. ASSUME ~raced PROVE Good(link, k, expected)
  <2>1. Good(link, main, expected)
    BY <1>2
  <2>2. Sending(link, k)
    BY <1>1, <2>1 DEF Good, Sending, Producing
  <2>3. OnWay(link, k) = OnWay(link, main)
    BY <1>1 DEF OnWay
  <2> QED
    BY <1>1, <2>1, <2>2, <2>3, BufferGood DEF Dispatching
<1>3. main' = k
  BY DEF k
<1> QED
  BY <1>1, <1>2, <1>3, MainParts DEF Dispatching

\* An index is taken out of the queue, and then the slot is read.
LEMMA ButtonsStep == LinkInv /\ (Buttons \/ Take) => LinkInv'
<1> SUFFICES ASSUME LinkInv, Buttons \/ Take PROVE LinkInv'
  OBVIOUS
<1> USE Before
<1>1. CASE Buttons /\ link.queue = << >>
  <2>1. /\ main.pc = "buttons" /\ main' = [main EXCEPT !.pc = "later"]
        /\ UNCHANGED << link, irq, done, carried, expected, raced >>
    BY <1>1 DEF Buttons, At, Goto
  <2> QED
    BY <2>1, NoSource
<1>2. CASE Buttons /\ link.queue # << >>
  <2> DEFINE q == Tail(link.queue)
             l == [link EXCEPT !.queue = q]
             i == Head(link.queue)
             k == [main EXCEPT !.pc = "take", !.idx = i]
  <2>1. /\ main.pc = "buttons" /\ link' = l /\ main' = k
        /\ UNCHANGED << irq, done, carried, expected, raced >>
    BY <1>2 DEF Buttons, At
  <2>2. /\ q \in Seq(Indices) /\ Len(q) = Len(link.queue) - 1 /\ i \in Indices
        /\ Len(link.queue) \in Nat /\ Len(link.queue) <= Slots /\ Slots \in Nat
    BY <1>2, HeadTailProperties, HandlerTypes, LinkAssumption DEF Typed, Links, LinkAssumption
  <2> HIDE DEF q, i
  <2>3. k \in Mains /\ k.pc = "take" /\ k.idx = i
    BY <2>2 DEF Mains, Places, Producing
  <2> HIDE DEF k
  <2>4. /\ l \in Links /\ l.dma = link.dma /\ l.pending = link.pending
        /\ l.buffer = link.buffer /\ l.queue = q /\ l.slots = link.slots /\ l.next = link.next
    BY <2>2 DEF Typed, Links
  <2> HIDE DEF l
  <2>5. Typed(l)
    BY <2>2, <2>4 DEF Typed
  <2>6. ASSUME ~raced PROVE Good(l, k, expected)
    <3>1. Good(link, main, expected) /\ link.dma = Nothing
      BY <2>1, <2>6 DEF Good, Sending, Producing
    <3>2. Sending(l, k)
      BY <2>1, <2>3, <2>4, <3>1 DEF Good, Sending, Producing
    <3>3. /\ << link.slots[i] >> \o Contents(l) = Contents(link)
          /\ Len(l.queue) = Len(link.queue) - 1
          /\ \A j \in 1..Len(l.queue) : l.queue[j] = link.queue[j + 1]
      BY <1>2, <2>4, <2>5, ContentsTail DEF q, i
    <3>4. OnWay(link, main) = << >>
      BY <2>1, <3>1, PacketFacts DEF OnWay
    <3>5. Contents(link) = expected
      BY <3>1, <3>4, ContentsType, ConcatEmptySeq DEF Good
    <3>6. OnWay(l, k) = << link.slots[i] >>
      BY <2>3, <2>4, <3>1, PacketFacts DEF OnWay
    <3>7. Ring(l, k)
      <4>1. \A j \in 1..Len(l.queue) : l.queue[j] = Back(l.next, Len(l.queue) - j + 1)
        <5> TAKE j \in 1..Len(l.queue)
        <5>1. j + 1 \in 1..Len(link.queue) /\ Len(link.queue) - (j + 1) = Len(l.queue) - j
          BY <2>2, <3>3
        <5>2. link.queue[j + 1] = Back(link.next, Len(link.queue) - (j + 1) + 1)
          BY <2>1, <3>1, <5>1 DEF Good, Ring, Behind
        <5> QED
          BY <2>4, <3>3, <5>1, <5>2
      <4> QED
        BY <2>3, <4>1 DEF Ring, Behind
    <3> QED
      BY <3>2, <3>3, <3>5, <3>6, <3>7 DEF Good
  <2> QED
    BY <2>1, <2>3, <2>4, <2>5, <2>6, MainParts DEF Dispatching
<1>3. CASE Take
  <2> DEFINE e == link.slots[main.idx]
             p == ButtonPacket(e)
             l == Rewritten(link, p)
             k == [main EXCEPT !.pc = "commit", !.idx = 0]
  <2>1. /\ main.pc = "take" /\ link' = l /\ main' = k
        /\ UNCHANGED << irq, done, carried, expected, raced >>
    BY <1>3 DEF Take, At
  <2> HIDE DEF e
  <2>2. k \in Mains /\ k.pc = "commit"
    <3>1. 0 \in Indices /\ "commit" \in Places
      BY LinkAssumption DEF Places, Producing, Indices, LinkAssumption
    <3> QED
      BY <3>1 DEF Mains
  <2>3. e \in Numbers
    BY DEF Typed, Links, Mains, e
  <2> HIDE DEF k
  <2>4. p \in Buffers /\ p # Nothing /\ p.src = "button" /\ p.ev = e
    BY <2>3, PacketFacts DEF Buffers
  <2> HIDE DEF p
  <2>5. /\ Typed(l) /\ l.dma = IF link.dma = Nothing THEN Nothing ELSE Garbled
        /\ l.pending = link.pending /\ l.buffer = p
        /\ l.queue = link.queue /\ l.slots = link.slots /\ l.next = link.next
    BY <2>4, RewrittenFields
  <2> HIDE DEF l
  <2>6. ASSUME ~raced PROVE Good(l, k, expected)
    <3>1. Good(link, main, expected) /\ link.dma = Nothing /\ ~link.pending
      BY <2>1, <2>6 DEF Good, Sending, Producing
    <3>2. Sending(l, k)
      BY <2>2, <2>4, <2>5, <3>1 DEF Sending, Producing
    <3>3. OnWay(l, k) = << e >> /\ OnWay(link, main) = << e >>
      BY <2>1, <2>2, <2>4, <2>5, <3>1, PacketFacts DEF OnWay, e
    <3> QED
      BY <2>1, <2>2, <2>5, <3>1, <3>2, <3>3, BufferGood DEF Dispatching
  <2> QED
    BY <2>1, <2>2, <2>5, <2>6, PacketFacts, MainParts DEF Dispatching
<1> QED
  BY <1>1, <1>2, <1>3

\* The host's packet and those of the later sources.
LEMMA SourceStep == LinkInv /\ (Host \/ Later) => LinkInv'
<1> SUFFICES ASSUME LinkInv, Host \/ Later PROVE LinkInv'
  OBVIOUS
<1>1. CASE Host /\ "host" \in link.sources
  BY <1>1, OtherSource DEF Host, At, Goto, Sources
<1>2. CASE Host /\ "host" \notin link.sources
  BY <1>2, NoSource DEF Host, At, Goto
<1>3. CASE Later /\ LaterSource(link) \in link.sources
  <2>1. LaterSource(link) \in Sources
    BY DEF LaterSource, Sources
  <2> QED
    BY <1>3, <2>1, OtherSource DEF Later, At, Goto
<1>4. CASE Later /\ LaterSource(link) \notin link.sources
  BY <1>4, NoSource DEF Later, At, Goto
<1> QED
  BY <1>1, <1>2, <1>3, <1>4

\* The end of producePacket.
LEMMA LeaveStep == LinkInv /\ (Commit \/ Write \/ Clear) => LinkInv'
<1> SUFFICES ASSUME LinkInv, Commit \/ Write \/ Clear PROVE LinkInv'
  OBVIOUS
<1> USE Before
<1>1. CASE Commit
  <2> DEFINE l == [link EXCEPT !.pending = TRUE]
             k == [main EXCEPT !.pc = "write"]
  <2>1. /\ main.pc = "commit" /\ link' = l /\ main' = k
        /\ UNCHANGED << irq, done, carried, expected, raced >>
    BY <1>1 DEF Commit, At, Goto
  <2>2. k \in Mains /\ k.pc = "write"
    BY GotoMains DEF Places
  <2>3. /\ Typed(l) /\ l.pending /\ l.dma = link.dma /\ l.buffer = link.buffer
        /\ l.queue = link.queue /\ l.slots = link.slots /\ l.next = link.next
    BY DEF Typed, Links
  <2> HIDE DEF l, k
  <2>4. ASSUME ~raced PROVE Good(l, k, expected)
    <3>1. Good(link, main, expected) /\ link.dma = Nothing /\ link.buffer # Nothing
      BY <2>1, <2>4 DEF Good, Sending, Producing
    <3>2. Sending(l, k)
      BY <2>2, <2>3, <3>1 DEF Sending, Producing
    <3>3. OnWay(l, k) = OnWay(link, main)
      BY <2>1, <2>2, <2>3 DEF OnWay
    <3> QED
      BY <2>1, <2>2, <2>3, <3>1, <3>2, <3>3, BufferGood DEF Dispatching
  <2> QED
    BY <2>1, <2>2, <2>3, <2>4, MainParts DEF Dispatching
<1>2. CASE Write
  <2> DEFINE d == IF link.dma = Nothing THEN link.buffer ELSE Garbled
             l == [link EXCEPT !.dma = d]
             k == [main EXCEPT !.pc = "unmask"]
  <2>1. /\ main.pc = "write" /\ link' = l /\ main' = k
        /\ UNCHANGED << irq, done, carried, expected, raced >>
    BY <1>2 DEF Write, Written, At, Goto
  <2>2. k \in Mains /\ k.pc = "unmask"
    BY GotoMains DEF Places
  <2>3. d \in Channels
    BY DEF Typed, Links, Buffers, Channels
  <2>4. link.dma # Nothing => d # Nothing
    BY PacketFacts
  <2> HIDE DEF d, k
  <2>5. /\ Typed(l) /\ l.pending = link.pending /\ l.dma = d /\ l.buffer = link.buffer
        /\ l.queue = link.queue /\ l.slots = link.slots /\ l.next = link.next
    BY <2>3 DEF Typed, Links
  <2> HIDE DEF l
  <2>6. ASSUME ~raced PROVE Good(l, k, expected)
    <3>1. /\ Good(link, main, expected) /\ link.dma = Nothing /\ link.buffer # Nothing
          /\ link.pending
      BY <2>1, <2>6 DEF Good, Sending, Producing
    <3>2. d = link.buffer
      BY <3>1 DEF d
    <3>3. Sending(l, k)
      BY <2>2, <2>5, <3>1, <3>2 DEF Sending, Producing
    <3>4. OnWay(l, k) = OnWay(link, main)
      BY <2>1, <2>2, <2>5, <3>1, <3>2, PacketFacts DEF OnWay
    <3> QED
      BY <2>1, <2>2, <2>5, <3>1, <3>3, <3>4, BufferGood DEF Dispatching
  <2> QED
    BY <2>1, <2>2, <2>4, <2>5, <2>6, MainParts DEF Dispatching
<1>3. CASE Clear
  <2> DEFINE l == [link EXCEPT !.pending = FALSE]
             k == [main EXCEPT !.pc = "unmask"]
  <2>1. /\ main.pc = "clear" /\ link' = l /\ main' = k
        /\ UNCHANGED << irq, done, carried, expected, raced >>
    BY <1>3 DEF Clear, At, Goto
  <2>2. k \in Mains /\ k.pc = "unmask"
    BY GotoMains DEF Places
  <2>3. /\ Typed(l) /\ ~l.pending /\ l.dma = link.dma /\ l.buffer = link.buffer
        /\ l.queue = link.queue /\ l.slots = link.slots /\ l.next = link.next
    BY DEF Typed, Links
  <2> HIDE DEF l, k
  <2>4. ASSUME ~raced PROVE Good(l, k, expected)
    <3>1. Good(link, main, expected) /\ link.dma = Nothing
      BY <2>1, <2>4 DEF Good, Sending, Producing
    <3>2. Sending(l, k)
      BY <2>2, <2>3, <3>1 DEF Sending, Producing
    <3>3. OnWay(l, k) = OnWay(link, main)
      BY <2>1, <2>2, <2>3 DEF OnWay
    <3> QED
      BY <2>1, <2>2, <2>3, <3>1, <3>2, <3>3, BufferGood DEF Dispatching
  <2> QED
    BY <2>1, <2>2, <2>3, <2>4, MainParts DEF Dispatching
<1> QED
  BY <1>1, <1>2, <1>3

\* Every step preserves the invariant.
LEMMA StepInv == LinkInv /\ [Next]_vars => LinkInv'
<1> SUFFICES ASSUME LinkInv, [Next]_vars PROVE LinkInv'
  OBVIOUS
<1>1. ASSUME NEW sources \in { {}, {"command"} }, ButtonIsr(sources) PROVE LinkInv'
  BY <1>1, ButtonStep
<1>2. CASE DmaFinish
  BY <1>2, DmaFinishStep
<1>3. CASE DmaIsr
  BY <1>3, DmaIsrStep
<1>4. CASE Task
  BY <1>4, TaskStep
<1>5. CASE Statement
  BY <1>5, DispatchStep, EnterStep, ButtonsStep, SourceStep, LeaveStep DEF Statement
<1>6. CASE UNCHANGED vars
  <2>1. UNCHANGED << link, main, irq, done, carried, expected, raced >>
    BY <1>6 DEF vars
  <2> QED
    BY <2>1, Before, MainParts
<1> QED
  BY <1>1, <1>2, <1>3, <1>4, <1>5, <1>6 DEF Next, Interrupt

\* The invariant holds in every behaviour.
THEOREM InvCorrect == Spec => []LinkInv
<1>1. Init => LinkInv
  BY InitInv
<1>2. LinkInv /\ [Next]_vars => LinkInv'
  BY StepInv
<1> QED
  BY <1>1, <1>2, PTL DEF Spec

-----------------------------------------------------------------------------
(* The properties.                                                         *)

\* Every variable keeps its type; the ring of events never overflows.
THEOREM TypeCorrect == Spec => []TypeOK
<1>1. LinkInv => TypeOK
  BY DEF LinkInv
<1> QED
  BY <1>1, InvCorrect, PTL

\* Unless a button interrupt came into the critical section, txPending tells whether
\* the DMA channel is sending.
THEOREM PendingCorrect == Spec => []PendingMeansSending
<1>1. LinkInv => PendingMeansSending
  BY DEF LinkInv, Good, Sending, PendingMeansSending
<1> QED
  BY <1>1, InvCorrect, PTL

\* Unless a button interrupt came into the critical section, a packet does not change
\* while it is sent.
THEOREM IntactCorrect == Spec => []PacketIntact
<1>1. LinkInv => PacketIntact
  BY DEF LinkInv, Good, Sending, PacketIntact
<1> QED
  BY <1>1, InvCorrect, PTL

\* Unless a button interrupt came where it does harm, the accepted button events
\* reach the host once each and in order, for a ring of any size.
THEOREM OrderCorrect == Spec => []EventsInOrder
<1>1. LinkInv => EventsInOrder
  BY Zenon DEF LinkInv, Good, OnWay, Contents, EventsInOrder, UnderWay, Queued
<1> QED
  BY <1>1, InvCorrect, PTL

-----------------------------------------------------------------------------
(* HostLink implements Transmitter.                                        *)

\* What Transmitter sees of a link and a position of the main loop.
Sends(l, m) ==
    IF m.pc = "take" THEN ButtonPacket(l.slots[m.idx])
    ELSE IF m.pc \in {"commit", "write"} THEN l.buffer
    ELSE l.dma
Asks(m) == m.pc \in {"advance", "mask", "test", "reset", "host", "buttons", "later"}

LEMMA Mapping ==
    /\ Queued = Contents(link) /\ Queued' = Contents(link')
    /\ OnLine = Sends(link, main) /\ OnLine' = Sends(link', main')
    /\ Asking = Asks(main) /\ Asking' = Asks(main')
BY Zenon DEF Queued, Contents, OnLine, Sends, Asking, Asks

\* Transmitter has the same packets.
LEMMA SamePackets ==
    /\ \A s : Line!Packet(s) = Packet(s)
    /\ \A e : Line!ButtonPacket(e) = ButtonPacket(e)
    /\ Line!Idle = Nothing /\ Line!Sources = Sources
    /\ \A l : Line!Later(l.sources) = LaterSource(l)
BY Zenon DEF Line!Packet, Line!ButtonPacket, Line!Idle, Line!Sources, Line!Later,
             Packet, ButtonPacket, Nothing, Sources, LaterSource

\* A step in which Transmitter sees a packet taken from the sources w and events q.
Took(w, q, late, w2, q2, p) ==
    \/ /\ "host" \in w
       /\ p = Packet("host") /\ w2 = w \ {"host"} /\ q2 = q \o late
    \/ /\ "host" \notin w /\ q # << >>
       /\ p = ButtonPacket(Head(q)) /\ w2 = w /\ q2 = Tail(q) \o late
    \/ /\ "host" \notin w /\ q = << >> /\ w # {}
       /\ p = Packet(Line!Later(w)) /\ w2 = w \ {Line!Later(w)} /\ q2 = late
    \/ /\ w = {} /\ q = << >>
       /\ p = Nothing /\ w2 = w /\ q2 = late

LEMMA TookTakes ==
    ASSUME NEW w, NEW q, NEW late,
           Took(w, q, late, link'.sources, Contents(link'), Sends(link', main'))
    PROVE  Line!Take(w, q, late)
BY Mapping, SamePackets, Zenon DEF Took, Line!Take

\* A step in which Transmitter sees nothing.
LEMMA Unseen ==
    ASSUME link'.sources = link.sources, Contents(link') = Contents(link),
           Sends(link', main') = Sends(link, main), Asks(main') = Asks(main), raced' = raced
    PROVE  UNCHANGED Line!vars
BY Mapping, Zenon DEF Line!vars

\* The tasks and statements of the main loop are not what the race is.
LEMMA NoRace == Task \/ Statement => raced' = raced
BY Zenon DEF Task, HostTask, FlightTask, Heartbeat, HoldTask, SwitchTX, Ask, Statement, Check,
    Store, Enqueue, Advance, Mask, Test, Reset, Host, Buttons, Take, Later, Commit, Write,
    Clear, Unmask

\* The end of a request.
LEMMA Asked ==
    ASSUME Asks(main), ~Asks(main') PROVE Asking /\ Asking' = FALSE
<1>1. (~Asks(main')) => (Asks(main') = FALSE)
  BY DEF Asks
<1> QED
  BY <1>1, Mapping, Zenon

\* A step that is one of Transmitter's.
LEMMA Seen == ~raced /\ ~raced' /\ Line!Step => Line!Next
BY DEF Line!Next

\* What the main loop has found out while it looks for a packet.
Scanned(l, m) ==
    /\ m.pc \in {"buttons", "later"} => "host" \notin l.sources
    /\ m.pc = "later" => l.queue = << >>

\* Before a race the interrupts do not come while the main loop looks.
LEMMA NotLooking ==
    ASSUME LinkInv, ~raced'
    PROVE  /\ \A sources : ButtonIsr(sources) =>
                  ~raced /\ main.pc \notin Dispatching \cup Producing
           /\ DmaIsr => ~raced /\ link.dma # Nothing /\ main.pc \notin Producing \cup {"write"}
<1>1. ASSUME NEW sources, ButtonIsr(sources)
      PROVE  ~raced /\ main.pc \notin Dispatching \cup Producing
  <2>1. /\ ~raced /\ main.pc \notin Dispatching /\ (main.pc \in Producing => link.pending)
    BY <1>1, Zenon DEF ButtonIsr
  <2> QED
    BY <2>1 DEF LinkInv, Good, Sending
<1>2. ASSUME DmaIsr
      PROVE  ~raced /\ link.dma # Nothing /\ main.pc \notin Producing \cup {"write"}
  BY <1>2 DEF DmaIsr, LinkInv, Sound, Good, Sending
<1> QED
  BY <1>1, <1>2

LEMMA ScannedStep ==
    ASSUME LinkInv, raced \/ Scanned(link, main), [Next]_vars
    PROVE  raced' \/ Scanned(link', main')
<1> SUFFICES ASSUME ~raced' PROVE Scanned(link', main')
  OBVIOUS
<1>1. CASE \E sources : ButtonIsr(sources)
  <2>1. main' = main /\ main.pc \notin Producing
    BY <1>1, NotLooking, Zenon DEF ButtonIsr
  <2> QED
    BY <2>1 DEF Scanned, Producing
<1>2. CASE DmaIsr
  <2>1. main' = main /\ main.pc \notin Producing
    BY <1>2, NotLooking DEF DmaIsr
  <2> QED
    BY <2>1 DEF Scanned, Producing
<1>3. CASE UNCHANGED << link, main, raced >>
  BY <1>3 DEF Scanned
<1>4. CASE Task
  <2>1. main \in Mains
    BY Before
  <2>2. \/ main'.pc \in {"mask", "check"}
        \/ UNCHANGED << link, main, raced >>
    BY <1>4, <2>1 DEF Task, HostTask, FlightTask, Heartbeat, HoldTask, SwitchTX, Ask, Goto, Mains
  <2> QED
    BY <1>3, <2>2 DEF Scanned
<1>5. CASE Statement
  <2>1. main \in Mains
    BY Before
  <2>2. \/ Host \/ Buttons
        \/ main'.pc \notin {"buttons", "later"}
    <3>1. CASE Check \/ Store \/ Enqueue \/ Advance
      BY <2>1, <3>1, IdleMains DEF Check, Store, Enqueue, Advance, Goto, Mains
    <3>2. CASE Mask \/ Test \/ Reset
      BY <2>1, <3>2 DEF Mask, Test, Reset, Goto, Mains
    <3>3. CASE Take \/ Later
      BY <2>1, <3>3 DEF Take, Later, Goto, Mains
    <3>4. CASE Commit \/ Write \/ Clear \/ Unmask
      BY <2>1, <3>4, IdleMains DEF Commit, Write, Clear, Unmask, Goto, Mains
    <3> QED
      BY <1>5, <3>1, <3>2, <3>3, <3>4 DEF Statement
  <2>3. CASE Host
    <3>1. \/ link' = link /\ "host" \notin link.sources /\ main'.pc = "buttons"
          \/ main'.pc = "commit"
      BY <2>1, <2>3 DEF Host, Goto, Mains
    <3> QED
      BY <3>1 DEF Scanned
  <2>4. CASE Buttons
    <3>1. /\ main.pc = "buttons" /\ ~raced
          /\ \/ link' = link /\ link.queue = << >> /\ main'.pc = "later"
             \/ main'.pc = "take"
      BY <2>1, <2>4 DEF Buttons, At, Goto, Mains
    <3> QED
      BY <3>1 DEF Scanned
  <2> QED
    BY <2>2, <2>3, <2>4 DEF Scanned
<1> QED
  BY <1>1, <1>2, <1>3, <1>4, <1>5 DEF Next, Interrupt, DmaFinish, vars

\* producePacket takes the first packet of an idle line.
LEMMA ProducedTook ==
    ASSUME NEW l, Typed(l), l.dma = Nothing
    PROVE  Took(l.sources, Contents(l), << >>, Produced(l).sources, Contents(Produced(l)),
                Produced(l).dma)
<1> DEFINE n == Produced(l)
<1>1. /\ Typed(n) /\ n.dma = Produces(l) /\ n.slots = l.slots
      /\ n.queue = IF "host" \notin l.sources /\ l.queue # << >> THEN Tail(l.queue) ELSE l.queue
  BY ProducedFields
<1>2. n.sources = IF Produces(l) = Nothing THEN l.sources ELSE Taken(l).sources
  <2>1. CASE Produces(l) = Nothing
    BY <2>1 DEF Produced, Rewritten, Typed, Links
  <2>2. CASE Produces(l) # Nothing
    <3>1. Taken(l) \in [pending : BOOLEAN, buffer : Buffers, dma : Channels,
             sources : SUBSET Sources, queue : {Taken(l).queue}, slots : [Indices -> Numbers],
             next : Indices]
      BY DEF Taken, Typed, Links
    <3> QED
      BY <2>2, <3>1 DEF Produced, Rewritten, Written
  <2> QED
    BY <2>1, <2>2
<1> HIDE DEF n
<1>3. /\ Contents(l) \in Seq(Numbers) /\ Contents(n) \in Seq(Numbers)
      /\ (l.queue = << >> <=> Contents(l) = << >>)
  <2>1. /\ Contents(l) \in Seq(Numbers) /\ Len(Contents(l)) = Len(l.queue)
    BY ContentsType
  <2>2. l.queue \in Seq(Indices)
    BY DEF Typed, Links
  <2> QED
    BY <1>1, <2>1, <2>2, ContentsType, EmptySeq
<1>4. CASE "host" \in l.sources
  <2>1. Contents(n) = Contents(l)
    BY <1>1, <1>4, ContentsSame
  <2>2. Produces(l) = Packet("host") /\ Packet("host") # Nothing
    BY <1>4, PacketFacts DEF Produces, Sources
  <2>3. n.sources = l.sources \ {"host"}
    BY <1>2, <1>4, <2>2 DEF Taken, Typed, Links
  <2>4. Contents(l) \o << >> = Contents(l)
    BY <1>3, ConcatEmptySeq
  <2> QED
    BY <1>1, <1>4, <2>1, <2>2, <2>3, <2>4 DEF Took, n
<1>5. CASE "host" \notin l.sources /\ l.queue # << >>
  <2> DEFINE e == l.slots[Head(l.queue)]
  <2>1. << e >> \o Contents(n) = Contents(l)
    BY <1>1, <1>5, ContentsTail
  <2>2. e \in Numbers
    BY <1>5, HeadTailProperties DEF Typed, Links
  <2>3. Produces(l) = ButtonPacket(e) /\ ButtonPacket(e) # Nothing
    BY <1>5, <2>2, PacketFacts DEF Produces
  <2> HIDE DEF e
  <2>4. n.sources = l.sources
    BY <1>2, <1>5, <2>3 DEF Taken, Typed, Links
  <2>5. Head(Contents(l)) = e /\ Tail(Contents(l)) = Contents(n)
    BY <1>3, <2>1, <2>2, HeadBehind, TailBehind
  <2>6. Contents(n) \o << >> = Contents(n)
    BY <1>3, ConcatEmptySeq
  <2> QED
    BY <1>1, <1>3, <1>5, <2>3, <2>4, <2>5, <2>6 DEF Took, n
<1>6. CASE "host" \notin l.sources /\ l.queue = << >> /\ l.sources # {}
  <2> DEFINE s == LaterSource(l)
  <2>1. Produces(l) = Packet(s) /\ s \in Sources
    BY <1>6 DEF Produces, LaterSource, Sources
  <2>2. Packet(s) # Nothing /\ s = Line!Later(l.sources)
    BY <2>1, PacketFacts, SamePackets
  <2>3. n.sources = l.sources \ {s}
    BY <1>2, <1>6, <2>1, <2>2 DEF Taken, Typed, Links
  <2>4. Contents(l) = << >> /\ Contents(n) = << >>
    BY <1>1, <1>3, <1>6, ContentsSame
  <2> QED
    BY <1>1, <1>6, <2>1, <2>2, <2>3, <2>4 DEF Took, n
<1>7. CASE l.queue = << >> /\ l.sources = {}
  <2>1. Produces(l) = Nothing /\ n.sources = l.sources
    BY <1>2, <1>7, ProducesType
  <2>2. Contents(l) = << >> /\ Contents(n) = << >>
    BY <1>1, <1>3, <1>7, ContentsSame
  <2> QED
    BY <1>1, <1>7, <2>1, <2>2 DEF Took, n
<1> QED
  BY <1>4, <1>5, <1>6, <1>7

\* The main loop's tasks.
LEMMA TaskSeen ==
    ASSUME LinkInv, Task, ~raced, raced' = raced
    PROVE  Line!Step \/ UNCHANGED Line!vars
<1> USE Before
<1>1. ASSUME NEW s \in Sources, Ask(s) PROVE Line!Step
  <2>1. /\ main.pc = "loop" /\ main' = [main EXCEPT !.pc = "mask"]
        /\ link' = [link EXCEPT !.sources = @ \cup {s}]
    BY <1>1 DEF Ask, At, Goto
  <2>2. /\ main'.pc = "mask" /\ link'.sources = link.sources \cup {s}
        /\ link'.queue = link.queue /\ link'.slots = link.slots /\ link'.dma = link.dma
    BY <2>1 DEF Mains, Typed, Links
  <2>3. Contents(link') = Contents(link) /\ Sends(link', main') = Sends(link, main)
    BY <2>1, <2>2 DEF Contents, Sends
  <2>4. ~Asks(main) /\ Asks(main')
    BY <2>1, <2>2 DEF Asks
  <2>5. Line!Want(s)
    BY <2>2, <2>3, <2>4, Mapping, Zenon DEF Line!Want, Line!Leave
  <2> QED
    BY <1>1, <2>5, SamePackets DEF Line!Step
<1>2. CASE HostTask \/ FlightTask \/ Heartbeat
  BY <1>1, <1>2 DEF HostTask, FlightTask, Heartbeat, Sources
<1>3. CASE HoldTask \/ SwitchTX
  <2>1. /\ link' = link /\ main.pc = "loop" /\ main'.pc \in {"loop", "check"}
    BY <1>3 DEF HoldTask, SwitchTX, At, Mains
  <2>2. Sends(link', main') = Sends(link, main) /\ Asks(main') = Asks(main)
    BY <2>1 DEF Sends, Asks
  <2> QED
    BY <2>1, <2>2, Unseen
<1> QED
  BY <1>2, <1>3 DEF Task

\* dispatchEvt in the main loop: the event is accepted when it is queued.
LEMMA DispatchSeen ==
    ASSUME LinkInv, Check \/ Store \/ Enqueue \/ Advance, ~raced, raced' = raced
    PROVE  Line!Step \/ UNCHANGED Line!vars
<1> USE Before
<1>1. Good(link, main, expected) /\ Ring(link, main)
  BY DEF Good
<1>2. CASE Check
  <2>1. link' = link /\ main.pc = "check" /\ main'.pc \in {"loop", "slot"}
    BY <1>2, IdleMains DEF Check, At, Mains
  <2>2. Sends(link', main') = Sends(link, main) /\ Asks(main') = Asks(main)
    BY <2>1 DEF Sends, Asks
  <2> QED
    BY <2>1, <2>2, Unseen
<1>3. CASE Store
  <2>1. /\ main.pc = "slot" /\ main'.pc = "enqueue" /\ link' = Stored(link, main.ev)
        /\ main.ev \in Numbers
    BY <1>3 DEF Store, At, Goto, Mains
  <2>2. /\ link' = [link EXCEPT !.slots = [@ EXCEPT ![link.next] = main.ev]]
        /\ Contents(link') = Contents(link)
    BY <1>1, <2>1, StoredFields DEF Ring
  <2>3. link'.sources = link.sources /\ link'.dma = link.dma
    BY <2>2 DEF Typed, Links
  <2>4. Sends(link', main') = Sends(link, main) /\ Asks(main') = Asks(main)
    BY <2>1, <2>3 DEF Sends, Asks
  <2> QED
    BY <2>2, <2>3, <2>4, Unseen
<1>4. CASE Enqueue
  <2>1. /\ main.pc = "enqueue" /\ main'.pc = "advance" /\ link' = Enqueued(link)
        /\ Len(link.queue) < Slots
    BY <1>4 DEF Enqueue, At, Goto, Mains
  <2>2. link.slots[link.next] = main.ev /\ main.ev \in Events
    BY <1>1, <2>1 DEF Ring, Dispatching
  <2>3. /\ Contents(link') = Append(Contents(link), main.ev)
        /\ link'.dma = link.dma
    BY <2>1, <2>2, EnqueuedFields
  <2>4. link'.sources = link.sources
    BY <2>1 DEF Enqueued, Typed, Links
  <2>5. Sends(link', main') = Sends(link, main) /\ ~Asks(main) /\ Asks(main')
    BY <2>1, <2>3 DEF Sends, Asks
  <2>6. Line!Hold(main.ev)
    BY <2>3, <2>4, <2>5, Mapping, Zenon DEF Line!Hold, Line!Leave
  <2> QED
    BY <2>2, <2>6 DEF Line!Step
<1>5. CASE Advance
  <2>1. /\ main.pc = "advance" /\ main'.pc = "mask" /\ link' = Advanced(link)
    BY <1>5 DEF Advance, At, Mains
  <2>2. /\ link'.sources = link.sources /\ link'.dma = link.dma
        /\ link'.queue = link.queue /\ link'.slots = link.slots
    BY <2>1 DEF Advanced, Typed, Links
  <2>3. Contents(link') = Contents(link)
    BY <2>2 DEF Contents
  <2>4. Sends(link', main') = Sends(link, main) /\ Asks(main') = Asks(main)
    BY <2>1, <2>2 DEF Sends, Asks
  <2> QED
    BY <2>2, <2>3, <2>4, Unseen
<1> QED
  BY <1>2, <1>3, <1>4, <1>5

\* A request of the main loop that takes a packet, or finds none: the line is idle.
LEMMA AskSeen ==
    ASSUME ~raced, Asks(main), ~Asks(main'), Sends(link, main) = Nothing,
           Took(link.sources, Contents(link), << >>,
                link'.sources, Contents(link'), Sends(link', main'))
    PROVE  Line!Step
<1>1. Line!Take(link.sources, Contents(link), << >>)
  BY TookTakes
<1>2. Line!Ask
  <2>1. OnLine = Line!Idle
    BY Mapping, SamePackets, Zenon
  <2> QED
    BY <1>1, <2>1, Asked, Mapping, Zenon DEF Line!Ask, Line!Request
<1> QED
  BY <1>2 DEF Line!Step

\* requestTransaction up to the sources: a line that is busy needs nothing more.
LEMMA EnterSeen ==
    ASSUME LinkInv, Mask \/ Test \/ Reset \/ Unmask, ~raced, raced' = raced
    PROVE  Line!Step \/ UNCHANGED Line!vars
<1> USE Before
<1>1. Sending(link, main)
  BY DEF Good
<1>2. CASE Mask \/ Unmask
  <2>1. /\ link' = link
        /\ \/ main.pc = "mask" /\ main'.pc = "test"
           \/ main.pc = "unmask" /\ main'.pc = "loop"
    BY <1>2, IdleMains DEF Mask, Unmask, At, Goto, Mains
  <2>2. Sends(link', main') = Sends(link, main) /\ Asks(main') = Asks(main)
    BY <2>1 DEF Sends, Asks
  <2> QED
    BY <1>2, <2>1, <2>2, Unseen
<1>3. CASE Test
  <2>1. /\ link' = link /\ main.pc = "test"
        /\ main'.pc = IF link.pending THEN "unmask" ELSE "reset"
    BY <1>3 DEF Test, At, Goto, Mains
  <2>2. Sends(link', main') = Sends(link, main) /\ Sends(link, main) = link.dma
    BY <2>1 DEF Sends
  <2>3. CASE ~link.pending
    <3>1. Asks(main') = Asks(main)
      BY <2>1, <2>3 DEF Asks
    <3> QED
      BY <2>1, <2>2, <3>1, Unseen
  <2>4. CASE link.pending
    <3>1. Asks(main) /\ ~Asks(main') /\ link.dma # Nothing
      BY <1>1, <2>1, <2>4 DEF Asks, Sending, Producing
    <3>2. Contents(link) \o << >> = Contents(link)
      BY ContentsType, ConcatEmptySeq
    <3>3. Line!Leave(link.sources, Contents(link) \o << >>)
      BY <2>1, <2>2, <3>2, Mapping, Zenon DEF Line!Leave
    <3>4. Line!Ask
      <4>1. OnLine # Line!Idle
        BY <2>2, <3>1, Mapping, SamePackets, Zenon
      <4> QED
        BY <3>1, <3>3, <4>1, Asked, Mapping, Zenon DEF Line!Ask, Line!Request
    <3> QED
      BY <3>4 DEF Line!Step
  <2> QED
    BY <2>3, <2>4
<1>4. CASE Reset
  <2>1. /\ link' = Rewritten(link, Nothing) /\ main.pc = "reset" /\ main'.pc = "host"
    BY <1>4 DEF Reset, At, Goto, Mains
  <2>2. link.dma = Nothing
    BY <1>1, <2>1 DEF Sending, Producing
  <2>3. /\ link'.dma = link.dma /\ link'.sources = link.sources
        /\ link'.queue = link.queue /\ link'.slots = link.slots
    BY <2>1, <2>2, RewrittenFields DEF Buffers
  <2>4. Contents(link') = Contents(link)
    BY <2>3 DEF Contents
  <2>5. Sends(link', main') = Sends(link, main) /\ Asks(main') = Asks(main)
    BY <2>1, <2>3 DEF Sends, Asks
  <2> QED
    BY <2>3, <2>4, <2>5, Unseen
<1> QED
  BY <1>2, <1>3, <1>4

\* ButtonManager::producePacket: an event is on the line when its index is taken out.
LEMMA ButtonsSeen ==
    ASSUME LinkInv, Scanned(link, main), Buttons \/ Take, ~raced, raced' = raced
    PROVE  Line!Step \/ UNCHANGED Line!vars
<1> USE Before
<1>1. Sending(link, main)
  BY DEF Good
<1>2. CASE Buttons /\ link.queue = << >>
  <2>1. /\ main.pc = "buttons" /\ main'.pc = "later" /\ link' = link
    BY <1>2 DEF Buttons, At, Goto, Mains
  <2>2. Sends(link', main') = Sends(link, main) /\ Asks(main') = Asks(main)
    BY <2>1 DEF Sends, Asks
  <2> QED
    BY <2>1, <2>2, Unseen
<1>3. CASE Buttons /\ link.queue # << >>
  <2> DEFINE i == Head(link.queue)
             q == Tail(link.queue)
  <2>1. /\ main.pc = "buttons" /\ main' = [main EXCEPT !.pc = "take", !.idx = i]
        /\ link' = [link EXCEPT !.queue = q]
    BY <1>3 DEF Buttons, At
  <2>2. /\ q \in Seq(Indices) /\ Len(q) = Len(link.queue) - 1 /\ i \in Indices
        /\ Len(link.queue) \in Nat /\ Len(link.queue) <= Slots /\ Slots \in Nat
    BY <1>3, HeadTailProperties, HandlerTypes, LinkAssumption DEF Typed, Links, LinkAssumption
  <2> HIDE DEF q, i
  <2>3. main'.pc = "take" /\ main'.idx = i
    BY <2>1, <2>2 DEF Mains
  <2>4. /\ link' \in Links /\ link'.queue = q /\ link'.slots = link.slots
        /\ link'.sources = link.sources
    BY <2>1, <2>2 DEF Typed, Links
  <2>5. Typed(link')
    BY <2>2, <2>4 DEF Typed
  <2>6. << link.slots[i] >> \o Contents(link') = Contents(link)
    BY <1>3, <2>4, <2>5, ContentsTail DEF q, i
  <2>7. /\ link.slots[i] \in Numbers /\ Contents(link') \in Seq(Numbers)
        /\ "host" \notin link.sources
    BY <2>1, <2>2, <2>5, ContentsType DEF Typed, Links, Scanned
  <2>8. /\ Contents(link) # << >> /\ Head(Contents(link)) = link.slots[i]
        /\ Tail(Contents(link)) = Contents(link')
    BY <2>6, <2>7, HeadBehind, TailBehind
  <2>9. Sends(link', main') = ButtonPacket(link.slots[i])
    BY <2>3, <2>4 DEF Sends
  <2>10. Contents(link') \o << >> = Contents(link')
    BY <2>7, ConcatEmptySeq
  <2>11. Took(link.sources, Contents(link), << >>,
              link'.sources, Contents(link'), Sends(link', main'))
    BY <2>4, <2>7, <2>8, <2>9, <2>10 DEF Took
  <2>12. Sends(link, main) = Nothing /\ Asks(main) /\ ~Asks(main')
    BY <1>1, <2>1, <2>3 DEF Sends, Asks, Sending, Producing
  <2> QED
    BY <2>11, <2>12, AskSeen
<1>4. CASE Take
  <2> DEFINE e == link.slots[main.idx]
  <2>1. /\ main.pc = "take" /\ main' = [main EXCEPT !.pc = "commit", !.idx = 0]
        /\ link' = Rewritten(link, ButtonPacket(e))
    BY <1>4 DEF Take, At
  <2>2. 0 \in Indices
    BY LinkAssumption DEF Indices, LinkAssumption
  <2>3. e \in Numbers
    BY DEF Typed, Links, Mains
  <2>4. main'.pc = "commit"
    BY <2>1, <2>2 DEF Mains
  <2>5. Sends(link, main) = ButtonPacket(e)
    BY <2>1 DEF Sends
  <2> HIDE DEF e
  <2>6. ButtonPacket(e) \in Buffers
    BY <2>3, PacketFacts DEF Buffers
  <2>7. /\ link'.sources = link.sources /\ link'.buffer = ButtonPacket(e)
        /\ link'.queue = link.queue /\ link'.slots = link.slots
    BY <2>1, <2>6, RewrittenFields
  <2>8. Contents(link') = Contents(link)
    BY <2>7 DEF Contents
  <2>9. Sends(link', main') = Sends(link, main) /\ Asks(main') = Asks(main)
    BY <2>1, <2>4, <2>5, <2>7 DEF Sends, Asks
  <2> QED
    BY <2>7, <2>8, <2>9, Unseen
<1> QED
  BY <1>2, <1>3, <1>4

\* The host's packet, and those of the sources after the buttons.
LEMMA SourceSeen ==
    ASSUME LinkInv, Scanned(link, main), Host \/ Later, ~raced, raced' = raced
    PROVE  Line!Step \/ UNCHANGED Line!vars
<1> USE Before
<1>1. /\ main.pc \in {"host", "later"} /\ Sends(link, main) = Nothing /\ Asks(main)
  <2>1. main.pc \in {"host", "later"}
    BY DEF Host, Later, At
  <2>2. Sending(link, main)
    BY DEF Good
  <2> QED
    BY <2>1, <2>2 DEF Sends, Asks, Sending, Producing
<1>2. Contents(link) \o << >> = Contents(link)
  BY ContentsType, ConcatEmptySeq
<1>3. main.pc = "later" => "host" \notin link.sources /\ Contents(link) = << >>
  <2>1. main.pc = "later" => "host" \notin link.sources /\ link.queue = << >>
    BY DEF Scanned
  <2>2. link.queue = << >> => Len(Contents(link)) = 0
    BY ContentsType
  <2> QED
    BY <2>1, <2>2, ContentsType, EmptySeq
<1>4. ASSUME NEW s \in Sources, main' = [main EXCEPT !.pc = "commit"],
             link' = [Rewritten(link, Packet(s)) EXCEPT !.sources = @ \ {s}]
      PROVE  /\ link'.sources = link.sources \ {s} /\ Contents(link') = Contents(link)
             /\ Sends(link', main') = Packet(s) /\ ~Asks(main')
  <2> DEFINE r == Rewritten(link, Packet(s))
  <2>1. Packet(s) \in Buffers
    BY PacketFacts DEF Buffers
  <2>2. /\ Typed(r) /\ r.buffer = Packet(s) /\ r.sources = link.sources
        /\ r.queue = link.queue /\ r.slots = link.slots
    BY <2>1, RewrittenFields
  <2> HIDE DEF r
  <2>3. link' = [r EXCEPT !.sources = @ \ {s}]
    BY <1>4 DEF r
  <2>4. /\ link'.buffer = Packet(s) /\ link'.sources = link.sources \ {s}
        /\ link'.queue = link.queue /\ link'.slots = link.slots
    BY <2>2, <2>3 DEF Typed, Links
  <2>5. main'.pc = "commit"
    BY <1>4 DEF Mains
  <2> QED
    BY <2>4, <2>5 DEF Contents, Sends, Asks
<1>5. CASE Host /\ "host" \in link.sources
  <2>1. /\ main' = [main EXCEPT !.pc = "commit"] /\ "host" \in Sources
        /\ link' = [Rewritten(link, Packet("host")) EXCEPT !.sources = @ \ {"host"}]
    BY <1>5 DEF Host, Goto, Sources
  <2>2. /\ link'.sources = link.sources \ {"host"} /\ Contents(link') = Contents(link)
        /\ Sends(link', main') = Packet("host") /\ ~Asks(main')
    BY <1>4, <2>1
  <2>3. Took(link.sources, Contents(link), << >>,
             link'.sources, Contents(link'), Sends(link', main'))
    BY <1>2, <1>5, <2>2 DEF Took
  <2> QED
    BY <1>1, <2>2, <2>3, AskSeen
<1>6. CASE Host /\ "host" \notin link.sources
  <2>1. /\ main.pc = "host" /\ main'.pc = "buttons" /\ link' = link
    BY <1>6 DEF Host, At, Goto, Mains
  <2>2. Sends(link', main') = Sends(link, main) /\ Asks(main') = Asks(main)
    BY <2>1 DEF Sends, Asks
  <2> QED
    BY <2>1, <2>2, Unseen
<1>7. CASE Later /\ LaterSource(link) \in link.sources
  <2> DEFINE s == LaterSource(link)
  <2>1. /\ main' = [main EXCEPT !.pc = "commit"] /\ main.pc = "later"
        /\ link' = [Rewritten(link, Packet(s)) EXCEPT !.sources = @ \ {s}]
    BY <1>7 DEF Later, At, Goto
  <2>2. s \in Sources /\ s = Line!Later(link.sources) /\ link.sources # {}
    BY <1>7, SamePackets DEF LaterSource, Sources
  <2> HIDE DEF s
  <2>3. /\ link'.sources = link.sources \ {s} /\ Contents(link') = Contents(link)
        /\ Sends(link', main') = Packet(s) /\ ~Asks(main')
    BY <1>4, <2>1, <2>2
  <2>4. Took(link.sources, Contents(link), << >>,
             link'.sources, Contents(link'), Sends(link', main'))
    BY <1>3, <2>1, <2>2, <2>3 DEF Took
  <2> QED
    BY <1>1, <2>3, <2>4, AskSeen
<1>8. CASE Later /\ LaterSource(link) \notin link.sources
  <2>1. /\ main.pc = "later" /\ main'.pc = "clear" /\ link' = link
    BY <1>8 DEF Later, At, Goto, Mains
  <2>2. link.sources = {}
    <3>1. link.sources \subseteq Sources /\ "host" \notin link.sources
      BY <1>3, <2>1 DEF Typed, Links
    <3> QED
      BY <1>8, <3>1 DEF LaterSource, Sources
  <2>3. Sends(link', main') = Nothing /\ ~Asks(main')
    BY <1>1, <2>1 DEF Sends, Asks
  <2>4. Took(link.sources, Contents(link), << >>,
             link'.sources, Contents(link'), Sends(link', main'))
    BY <1>3, <2>1, <2>2, <2>3 DEF Took
  <2> QED
    BY <1>1, <2>3, <2>4, AskSeen
<1> QED
  BY <1>5, <1>6, <1>7, <1>8

\* The end of producePacket: the packet is already on the line.
LEMMA LeaveSeen ==
    ASSUME LinkInv, Commit \/ Write \/ Clear, ~raced, raced' = raced
    PROVE  UNCHANGED Line!vars
<1> USE Before
<1>1. Sending(link, main)
  BY DEF Good
<1>2. CASE Commit \/ Clear
  <2>1. /\ \/ main.pc = "commit" /\ main'.pc = "write"
           \/ main.pc = "clear" /\ main'.pc = "unmask"
        /\ \/ link' = [link EXCEPT !.pending = TRUE]
           \/ link' = [link EXCEPT !.pending = FALSE]
    BY <1>2 DEF Commit, Clear, At, Goto, Mains
  <2>2. /\ link'.sources = link.sources /\ link'.queue = link.queue /\ link'.slots = link.slots
        /\ link'.buffer = link.buffer /\ link'.dma = link.dma
    BY <2>1 DEF Typed, Links
  <2>3. /\ Contents(link') = Contents(link)
        /\ Sends(link', main') = Sends(link, main) /\ Asks(main') = Asks(main)
    BY <2>1, <2>2 DEF Contents, Sends, Asks
  <2> QED
    BY <2>2, <2>3, Unseen
<1>3. CASE Write
  <2>1. /\ main.pc = "write" /\ main'.pc = "unmask" /\ link' = Written(link)
    BY <1>3 DEF Write, At, Goto, Mains
  <2>2. link.dma = Nothing
    BY <1>1, <2>1 DEF Sending
  <2>3. link' = [link EXCEPT !.dma = link.buffer]
    BY <2>1, <2>2 DEF Written
  <2>4. /\ link'.sources = link.sources /\ link'.queue = link.queue /\ link'.slots = link.slots
        /\ link'.dma = link.buffer
    BY <2>3 DEF Typed, Links
  <2>5. /\ Contents(link') = Contents(link)
        /\ Sends(link', main') = Sends(link, main) /\ Asks(main') = Asks(main)
    BY <2>1, <2>4 DEF Contents, Sends, Asks
  <2> QED
    BY <2>4, <2>5, Unseen
<1> QED
  BY <1>2, <1>3

\* The completion interrupt is the completion of a transmission.
LEMMA DmaSeen == LinkInv /\ DmaIsr /\ ~raced /\ ~raced' => Line!Step
<1> SUFFICES ASSUME LinkInv, DmaIsr, ~raced, ~raced' PROVE Line!Step
  OBVIOUS
<1> USE Before
<1> DEFINE l == [link EXCEPT !.dma = Nothing]
<1>1. /\ link.dma # Nothing /\ main.pc \notin Producing \cup {"write"}
      /\ main' = main /\ link' = Produced(l)
  BY NotLooking DEF DmaIsr
<1>2. /\ Typed(l) /\ l.dma = Nothing /\ l.sources = link.sources
      /\ l.queue = link.queue /\ l.slots = link.slots
  BY DEF Typed, Links, Channels
<1> HIDE DEF l
<1>3. Contents(l) = Contents(link)
  BY <1>2 DEF Contents
<1>4. Sends(link, main) = link.dma /\ Sends(link', main') = link'.dma
  BY <1>1 DEF Sends, Producing
<1>5. Took(link.sources, Contents(link), << >>,
           link'.sources, Contents(link'), Sends(link', main'))
  BY <1>1, <1>2, <1>3, <1>4, ProducedTook
<1>6. Line!Take(link.sources, Contents(link), << >>)
  BY <1>5, TookTakes
<1>7. OnLine # Line!Idle /\ Asking' = Asking
  BY <1>1, <1>4, Mapping, SamePackets, Zenon
<1>8. Line!Complete
  BY <1>6, <1>7, Mapping, Zenon DEF Line!Complete
<1> QED
  BY <1>8 DEF Line!Step

\* A request outside the main loop's requests: an idle line takes the first packet, a
\* busy one stays as it is.
LEMMA RequestedTook ==
    ASSUME NEW l, NEW m \in Mains, Typed(l), Sending(l, m), m.pc \notin Dispatching \cup Producing
    PROVE  /\ Sends(l, m) # Nothing => Requested(l) = l
           /\ Sends(l, m) = Nothing =>
                  Took(l.sources, Contents(l), << >>, Requested(l).sources,
                       Contents(Requested(l)), Sends(Requested(l), m))
<1>1. Sends(l, m) # Nothing <=> l.pending
  BY DEF Sends, Sending, Producing
<1>2. CASE l.pending
  BY <1>1, <1>2 DEF Requested
<1>3. CASE ~l.pending
  <2>1. l.dma = Nothing /\ m.pc \notin {"take", "commit", "write"}
    BY <1>3 DEF Sending, Producing
  <2>2. Requested(l) = Produced(l)
    BY <1>3 DEF Requested
  <2>3. Sends(Produced(l), m) = Produced(l).dma
    BY <2>1 DEF Sends
  <2> QED
    BY <1>1, <1>3, <2>1, <2>2, <2>3, ProducedTook
<1> QED
  BY <1>2, <1>3

\* dispatchEvt in an interrupt puts its event behind the others.
LEMMA DispatchedSeen ==
    ASSUME NEW l, NEW m \in Mains, NEW e \in Numbers, Typed(l), Ring(l, m),
           m.pc \notin Dispatching, m.pc # "take", Len(l.queue) < Slots
    PROVE  LET n == Advanced(Enqueued(Stored(l, e)))
           IN  /\ n.sources = l.sources /\ Contents(n) = Append(Contents(l), e)
               /\ Sends(n, m) = Sends(l, m)
<1> DEFINE n1 == Stored(l, e)
           n2 == Enqueued(n1)
           n3 == Advanced(n2)
<1>1. m.pc # "advance"
  BY DEF Dispatching
<1>2. /\ n1 = [l EXCEPT !.slots = [@ EXCEPT ![l.next] = e]]
      /\ n1.slots[l.next] = e /\ Contents(n1) = Contents(l)
  BY <1>1, StoredFields
<1>3. Typed(n1)
  BY HandlerTypes
<1> HIDE DEF n1
<1>4. /\ n1.sources = l.sources /\ n1.buffer = l.buffer /\ n1.dma = l.dma
      /\ n1.queue = l.queue /\ n1.next = l.next
  BY <1>2 DEF Typed, Links
<1>5. /\ n2.buffer = n1.buffer /\ n2.dma = n1.dma
      /\ Contents(n2) = Append(Contents(n1), n1.slots[n1.next])
  BY <1>3, <1>4, EnqueuedFields, SMTT(60)
<1>6. n2.sources = n1.sources
  BY <1>3 DEF Enqueued, Typed, Links
<1>7. Typed(n2)
  BY <1>3, <1>4, HandlerTypes
<1> HIDE DEF n2
<1>8. /\ n3.sources = n2.sources /\ n3.buffer = n2.buffer /\ n3.dma = n2.dma
      /\ n3.queue = n2.queue /\ n3.slots = n2.slots
  BY <1>7 DEF Advanced, Typed, Links
<1> HIDE DEF n3
<1>9. Contents(n3) = Append(Contents(l), e)
  <2>1. Contents(n3) = Contents(n2)
    BY <1>8, Zenon DEF Contents
  <2> QED
    BY <1>2, <1>4, <1>5, <2>1
<1>10. Sends(n3, m) = Sends(l, m)
  BY <1>4, <1>5, <1>8 DEF Sends
<1>11. n3.sources = l.sources
  BY <1>4, <1>6, <1>8
<1> QED
  BY <1>9, <1>10, <1>11 DEF n1, n2, n3

\* An event that comes when a packet was taken is behind those that are left.
LEMMA TookLate ==
    ASSUME NEW w, NEW q \in Seq(Numbers), NEW e \in Numbers, NEW w2, NEW q2, NEW p,
           Took(w, q, << >>, w2, q2, p), w # {}
    PROVE  Took(w, q, << e >>, w2, Append(q2, e), p)
<1>1. \A s \in Seq(Numbers) : s \o << >> = s /\ Append(s, e) = s \o << e >>
  BY ConcatEmptySeq, AppendIsConcat
<1>2. CASE "host" \in w
  <2>1. q2 = q \o << >> /\ p = Packet("host") /\ w2 = w \ {"host"}
    BY <1>2 DEF Took
  <2>2. Append(q2, e) = q \o << e >>
    BY <1>1, <2>1
  <2> QED
    BY <1>2, <2>1, <2>2 DEF Took
<1>3. CASE "host" \notin w /\ q # << >>
  <2>1. q2 = Tail(q) \o << >> /\ p = ButtonPacket(Head(q)) /\ w2 = w
    BY <1>3 DEF Took
  <2>2. Tail(q) \in Seq(Numbers)
    BY <1>3, HeadTailProperties
  <2>3. Append(q2, e) = Tail(q) \o << e >>
    BY <1>1, <2>1, <2>2
  <2> QED
    BY <1>3, <2>1, <2>3 DEF Took
<1>4. CASE "host" \notin w /\ q = << >>
  <2>1. q2 = << >> /\ p = Packet(Line!Later(w)) /\ w2 = w \ {Line!Later(w)}
    BY <1>4 DEF Took
  <2>2. Append(q2, e) = << e >>
    BY <2>1
  <2> QED
    BY <1>4, <2>1, <2>2 DEF Took
<1> QED
  BY <1>2, <1>3, <1>4

LEMMA TookSome ==
    ASSUME NEW w \in SUBSET Sources, NEW q \in Seq(Numbers), NEW late, NEW w2, NEW q2, NEW p,
           Took(w, q, late, w2, q2, p), w # {}
    PROVE  p # Nothing
<1>1. "host" \in Sources /\ Line!Later(w) \in Sources
  BY DEF Sources, Line!Later
<1>2. \A s \in Sources : Packet(s) # Nothing
  BY PacketFacts, Zenon
<1>3. \A e \in Numbers : ButtonPacket(e) # Nothing
  BY PacketFacts, Zenon
<1>4. q # << >> => Head(q) \in Numbers
  BY HeadTailProperties
<1> QED
  BY <1>1, <1>2, <1>3, <1>4 DEF Took

\* A step in which Transmitter sees a request.
LEMMA RequestSeen ==
    ASSUME NEW w, NEW q, NEW late,
           Sends(link, main) = Nothing =>
               Took(w, q, late, link'.sources, Contents(link'), Sends(link', main')),
           Sends(link, main) # Nothing =>
               /\ link'.sources = w /\ Contents(link') = q \o late
               /\ Sends(link', main') = Sends(link, main)
    PROVE  Line!Request(w, q, late)
<1>1. CASE Sends(link, main) = Nothing
  <2>1. Line!Take(w, q, late)
    BY <1>1, TookTakes
  <2>2. OnLine = Line!Idle
    BY <1>1, Mapping, SamePackets, Zenon
  <2> QED
    BY <2>1, <2>2, Zenon DEF Line!Request
<1>2. CASE Sends(link, main) # Nothing
  <2>1. Line!Leave(w, q \o late)
    BY <1>2, Mapping, Zenon DEF Line!Leave
  <2>2. OnLine # Line!Idle
    BY <1>2, Mapping, SamePackets, Zenon
  <2> QED
    BY <2>1, <2>2, Zenon DEF Line!Request
<1> QED
  BY <1>1, <1>2

\* A button interrupt that does no harm makes the requests of Press.
LEMMA ButtonSeen ==
    ASSUME LinkInv, NEW sources \in { {}, {"command"} }, ButtonIsr(sources), ~raced, ~raced'
    PROVE  Line!Step \/ UNCHANGED Line!vars
<1> USE Before
<1> DEFINE e  == NewEvent
           l0 == [link EXCEPT !.sources = @ \cup sources]
           l1 == IF sources = {} THEN link ELSE Requested(l0)
           n  == Advanced(Enqueued(Stored(l1, e)))
           W  == link.sources \cup sources
           Q  == Contents(link)
<1>1. /\ IF QueueFull(l1) THEN link' = l1 ELSE link' = Requested(n)
      /\ main' = main
  BY Zenon DEF ButtonIsr
<1>0. raced' = raced
  <2> DEFINE hit == main.pc \in Dispatching \/ (main.pc \in Producing /\ ~link.pending)
  <2>1. raced' = (raced \/ hit)
    BY Zenon DEF ButtonIsr
  <2>2. raced \in BOOLEAN
    BY TypeParts, Zenon DEF LinkInv
  <2> HIDE DEF hit
  <2> QED
    BY <2>1, <2>2
<1>2. e \in Events /\ e \in Numbers
  BY NewEventType, EventsAreNumbers
<1>3. /\ main.pc \notin Dispatching \cup Producing /\ main.pc # "take"
      /\ Good(link, main, expected) /\ sources \in SUBSET Sources
  BY NotLooking DEF Producing, Sources
<1>4. /\ Typed(l0) /\ l0.sources = W /\ l0.queue = link.queue /\ l0.slots = link.slots
      /\ l0.buffer = link.buffer /\ l0.dma = link.dma
  BY <1>3, HandlerTypes DEF Typed, Links
<1>5. Good(l0, main, expected)
  BY <1>3, SourcesGood
<1> HIDE DEF e, l0
<1>6. Contents(l0) = Q /\ Sends(l0, main) = Sends(link, main)
  BY <1>4 DEF Contents, Sends
<1>7. Typed(l1) /\ Good(l1, main, expected)
  BY <1>3, <1>4, <1>5, HandlerTypes, RequestedGood
<1>8. Q \in Seq(Numbers) /\ Q \o << >> = Q /\ Append(Q, e) \o << >> = Append(Q, e)
      /\ Append(Q, e) = Q \o << e >> /\ W \in SUBSET Sources
  <2>1. Q \in Seq(Numbers) /\ W \in SUBSET Sources
    BY <1>3, ContentsType DEF Typed, Links
  <2> HIDE DEF Q
  <2> QED
    BY <1>2, <2>1, ConcatEmptySeq, AppendIsConcat, AppendProperties
<1>9. sources # {} =>
          /\ Sends(link, main) # Nothing =>
                 l1.sources = W /\ Contents(l1) = Q /\ Sends(l1, main) = Sends(link, main)
          /\ Sends(link, main) = Nothing =>
                 Took(W, Q, << >>, l1.sources, Contents(l1), Sends(l1, main))
  <2>1. Sending(l0, main)
    BY <1>5 DEF Good
  <2>2. /\ Sends(l0, main) # Nothing => Requested(l0) = l0
        /\ Sends(l0, main) = Nothing =>
               Took(l0.sources, Contents(l0), << >>, Requested(l0).sources,
                    Contents(Requested(l0)), Sends(Requested(l0), main))
    BY <1>3, <1>4, <2>1, RequestedTook
  <2> QED
    BY <1>4, <1>6, <2>2
<1>10. ASSUME ~QueueFull(l1)
       PROVE  /\ n.sources = l1.sources /\ Contents(n) = Append(Contents(l1), e)
              /\ Sends(n, main) = Sends(l1, main)
              /\ Sends(n, main) # Nothing => link' = n
              /\ Sends(n, main) = Nothing =>
                    Took(n.sources, Contents(n), << >>, link'.sources,
                         Contents(link'), Sends(link', main))
  <2> HIDE DEF l1
  <2>1. Len(l1.queue) < Slots /\ Ring(l1, main)
    BY <1>7, <1>10, ContentsType, LinkAssumption DEF QueueFull, LinkAssumption, Good
  <2>2. /\ n.sources = l1.sources /\ Contents(n) = Append(Contents(l1), e)
        /\ Sends(n, main) = Sends(l1, main)
    BY <1>2, <1>3, <1>7, <2>1, DispatchedSeen
  <2>3. Typed(n)
    BY <1>2, <1>7, <2>1, DispatchedFields
  <2>4. Good(n, main, Append(expected, e))
    BY <1>2, <1>3, <1>7, <2>1, DispatchedGood
  <2> HIDE DEF n
  <2>5. Sending(n, main)
    BY <2>4 DEF Good
  <2>6. /\ Sends(n, main) # Nothing => Requested(n) = n
        /\ Sends(n, main) = Nothing =>
               Took(n.sources, Contents(n), << >>, Requested(n).sources,
                    Contents(Requested(n)), Sends(Requested(n), main))
    BY <1>3, <2>3, <2>5, RequestedTook
  <2> QED
    BY <1>1, <1>10, <2>2, <2>6
<1> HIDE DEF n, W, Q
<1>11. Asking' = Asking
  BY <1>1, Mapping, Zenon
<1>12. ASSUME Line!Press(e) PROVE Line!Step
  BY <1>2, <1>12 DEF Line!Step
<1>13. CASE sources = {}
  <2>1. l1 = link /\ W = link.sources
    BY <1>13 DEF W
  <2>2. CASE QueueFull(l1)
    BY <1>0, <1>1, <2>1, <2>2, Unseen
  <2>3. CASE ~QueueFull(l1)
    <3>1. Line!Request(link.sources, Append(Q, e), << >>)
      BY <1>1, <1>8, <1>10, <2>1, <2>3, RequestSeen DEF Q
    <3>2. Line!Press(e)
      BY <1>11, <3>1, Mapping, Zenon DEF Line!Press, Q
    <3> QED
      BY <1>12, <3>2
  <2> QED
    BY <2>2, <2>3
<1>14. CASE sources = {"command"}
  <2>1. W # {} /\ W = link.sources \cup {"command"} /\ sources # {}
    BY <1>14 DEF W
  <2>2. CASE QueueFull(l1)
    <3>1. Line!Request(W, Q, << >>)
      <4> HIDE DEF l1
      <4> QED
        BY <1>1, <1>8, <1>9, <2>1, <2>2, RequestSeen
    <3>2. Line!Press(e)
      BY <1>11, <2>1, <3>1, Mapping, Zenon DEF Line!Press, Q
    <3> QED
      BY <1>12, <3>2
  <2>3. CASE ~QueueFull(l1)
    <3> HIDE DEF l1
    <3>1. ASSUME Sends(link, main) = Nothing
          PROVE  Took(W, Q, << e >>, link'.sources, Contents(link'), Sends(link', main'))
      <4>1. Took(W, Q, << >>, l1.sources, Contents(l1), Sends(l1, main))
        BY <1>9, <2>1, <3>1
      <4>2. Sends(l1, main) # Nothing
        BY <1>8, <2>1, <4>1, TookSome
      <4>3. Took(W, Q, << e >>, l1.sources, Append(Contents(l1), e), Sends(l1, main))
        BY <1>2, <1>8, <2>1, <4>1, TookLate
      <4> QED
        BY <1>1, <1>10, <2>3, <4>2, <4>3
    <3>2. ASSUME Sends(link, main) # Nothing
          PROVE  /\ link'.sources = W /\ Contents(link') = Q \o << e >>
                 /\ Sends(link', main') = Sends(link, main)
      BY <1>1, <1>8, <1>9, <1>10, <2>1, <2>3, <3>2
    <3>3. Line!Request(W, Q, << e >>)
      BY <3>1, <3>2, RequestSeen
    <3>4. Line!Press(e)
      BY <1>11, <2>1, <3>3, Mapping, Zenon DEF Line!Press, Q
    <3> QED
      BY <1>12, <3>4
  <2> QED
    BY <2>2, <2>3
<1> QED
  BY <1>13, <1>14

\* Every step is one of Transmitter's, or it sees nothing.
LEMMA StepSeen ==
    ASSUME LinkInv, LinkInv', raced \/ Scanned(link, main), [Next]_vars
    PROVE  [Line!Next]_(Line!vars)
<1>1. CASE raced'
  BY <1>1 DEF Line!Next
<1>2. CASE UNCHANGED << link, main, raced >>
  <2>1. Contents(link') = Contents(link) /\ Sends(link', main') = Sends(link, main)
    BY <1>2
  <2>2. UNCHANGED Line!vars
    BY <1>2, <2>1, Unseen
  <2> QED
    BY <2>2
<1>3. ASSUME ~raced', NEW sources \in { {}, {"command"} }, ButtonIsr(sources)
      PROVE  [Line!Next]_(Line!vars)
  <2>1. ~raced
    BY <1>3, NotLooking
  <2> QED
    BY <1>3, <2>1, ButtonSeen, Seen
<1>4. CASE ~raced' /\ DmaIsr
  <2>1. ~raced
    BY <1>4, NotLooking
  <2> QED
    BY <1>4, <2>1, DmaSeen, Seen
<1>5. CASE ~raced' /\ (Task \/ Statement)
  <2>1. ~raced /\ raced' = raced /\ Scanned(link, main)
    BY <1>5, NoRace
  <2>2. Line!Step \/ UNCHANGED Line!vars
    BY <1>5, <2>1, TaskSeen, DispatchSeen, EnterSeen, ButtonsSeen, SourceSeen, LeaveSeen
       DEF Statement
  <2> QED
    BY <1>5, <2>1, <2>2, Seen
<1> QED
  BY <1>1, <1>2, <1>3, <1>4, <1>5 DEF Next, Interrupt, DmaFinish, vars

\* Transmitter starts where the link starts.
LEMMA InitSeen == Init => Line!Init /\ Scanned(link, main)
<1> SUFFICES ASSUME Init PROVE Line!Init /\ Scanned(link, main)
  OBVIOUS
<1>1. /\ link.sources = {} /\ link.queue = << >> /\ link.dma = Nothing
      /\ main.pc = "loop" /\ raced = FALSE
  BY DEF Init, Idle
<1>2. Contents(link) = << >>
  BY <1>1 DEF Contents
<1>3. OnLine = Nothing
  BY <1>1 DEF OnLine
<1>4. Asking = FALSE
  BY <1>1 DEF Asking
<1>5. Line!Init
  BY <1>1, <1>2, <1>3, <1>4, Mapping, SamePackets, Zenon DEF Line!Init
<1> QED
  BY <1>1, <1>5 DEF Scanned

\* HostLink implements Transmitter: the requests that the main loop makes statement by
\* statement, and those of the interrupts in between, are requests that take one step
\* each, until a button interrupt comes where it does harm.
THEOREM TransmitterCorrect == Spec => TransmitterSpec
<1> DEFINE Looked == raced \/ Scanned(link, main)
<1>1. Init => LinkInv /\ Looked /\ Line!Init
  BY InitInv, InitSeen
<1>2. LinkInv /\ Looked /\ [Next]_vars =>
          LinkInv' /\ Looked' /\ [Line!Next]_(Line!vars)
  <2> SUFFICES ASSUME LinkInv, Looked, [Next]_vars
               PROVE  LinkInv' /\ Looked' /\ [Line!Next]_(Line!vars)
    OBVIOUS
  <2>1. LinkInv'
    BY StepInv
  <2>2. raced' \/ Scanned(link', main')
    BY ScannedStep
  <2>3. Scanned(link', main') => Scanned(link, main)'
    BY Zenon DEF Scanned
  <2> QED
    BY <2>1, <2>2, <2>3, StepSeen
<1> HIDE DEF Looked
<1> QED
  BY <1>1, <1>2, PTL DEF Spec, TransmitterSpec, Line!Spec

\* The line takes a packet if there is one.
LEMMA TakeWakes ==
    ASSUME NEW w, NEW q, NEW late, Line!Take(w, q, late), late # << >> => w # {}
    PROVE  link'.sources # {} \/ Queued' # << >> => OnLine' # Line!Idle
<1>1. \/ OnLine' \in {Line!Packet("host"), Line!Packet(Line!Later(w)), Line!ButtonPacket(Head(q))}
      \/ w = {} /\ link'.sources = w /\ Queued' = late
  BY Zenon DEF Line!Take
<1>2. /\ Line!Packet("host") # Line!Idle /\ Line!Packet(Line!Later(w)) # Line!Idle
      /\ Line!ButtonPacket(Head(q)) # Line!Idle
  <2>1. /\ Line!Packet("host").src = "host" /\ Line!ButtonPacket(Head(q)).src = "button"
        /\ Line!Packet(Line!Later(w)).src \in {"report", "command"} /\ Line!Idle.src = "none"
    BY DEF Line!Packet, Line!ButtonPacket, Line!Idle, Line!Later
  <2> QED
    BY <2>1
<1> QED
  BY <1>1, <1>2

\* A request leaves nothing behind on an idle line.
LEMMA RequestWakes ==
    ASSUME NEW w, NEW q, NEW late, Line!Request(w, q, late), late # << >> => w # {}
    PROVE  link'.sources # {} \/ Queued' # << >> => OnLine' # Line!Idle
<1>1. CASE OnLine = Line!Idle
  <2>1. Line!Take(w, q, late)
    BY <1>1, Zenon DEF Line!Request
  <2> QED
    BY <2>1, TakeWakes, Zenon
<1>2. CASE OnLine # Line!Idle
  <2>1. OnLine' = OnLine
    BY <1>2, Zenon DEF Line!Request, Line!Leave
  <2> QED
    BY <1>2, <2>1
<1> QED
  BY <1>1, <1>2

\* A step of Transmitter leaves nothing without somebody who will send it.
LEMMA NothingStrandedStep ==
    Line!NothingStranded /\ [Line!Next]_(Line!vars) => Line!NothingStranded'
<1> SUFFICES ASSUME Line!NothingStranded, [Line!Next]_(Line!vars), ~raced',
                    link'.sources # {} \/ Queued' # << >>
             PROVE  OnLine' # Line!Idle \/ Asking'
  BY Zenon DEF Line!NothingStranded
<1>1. CASE UNCHANGED Line!vars
  BY <1>1, Zenon DEF Line!vars, Line!NothingStranded
<1>2. ASSUME NEW w, NEW q, NEW late, Line!Request(w, q, late), late # << >> => w # {}
      PROVE  OnLine' # Line!Idle
  BY <1>2, RequestWakes, Zenon
<1>3. ASSUME NEW s, Line!Want(s) PROVE Asking'
  BY <1>3, Zenon DEF Line!Want
<1>4. ASSUME NEW e, Line!Hold(e) PROVE Asking'
  BY <1>4, Zenon DEF Line!Hold
<1>5. ASSUME NEW e, Line!Press(e) PROVE OnLine' # Line!Idle
  <2>1. link.sources \cup {"command"} # {}
    OBVIOUS
  <2> QED
    BY <1>2, <1>5, <2>1, Zenon DEF Line!Press
<1>6. CASE Line!Ask
  BY <1>2, <1>6, Zenon DEF Line!Ask
<1>7. CASE Line!Complete
  <2>1. Line!Take(link.sources, Queued, << >>)
    BY <1>7, Zenon DEF Line!Complete
  <2> QED
    BY <2>1, TakeWakes, Zenon
<1> QED
  BY <1>1, <1>3, <1>4, <1>5, <1>6, <1>7, Zenon DEF Line!Next, Line!Step

\* Unless a button interrupt came where it does harm, no packet and no button event is
\* left behind: when something waits, a packet is on the line, whose completion sends the
\* next one, or the main loop is about to make a request.
THEOREM StrandedCorrect == Spec => []Line!NothingStranded
<1>1. Line!Init => Line!NothingStranded
  BY Zenon DEF Line!Init, Line!NothingStranded
<1>2. Line!NothingStranded /\ [Line!Next]_(Line!vars) => Line!NothingStranded'
  BY NothingStrandedStep
<1> QED
  BY <1>1, <1>2, TransmitterCorrect, PTL DEF TransmitterSpec, Line!Spec

=============================================================================

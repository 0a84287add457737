-------------------------- MODULE TelemForwardProofs -------------------------
(***************************************************************************)
(* Proofs about TelemForward, for every set of clients and components, all *)
(* timeouts and both ways of scheduling the threads.                       *)
(***************************************************************************)
EXTENDS TelemForward, TLAPS

USE TelemForwardAssumption

-----------------------------------------------------------------------------
(* The parts of the type invariant.                                        *)

SharedType ==
    /\ clients \subseteq Addrs /\ age \in [Addrs -> 0..Never]
    /\ table \in [Keys -> Addrs \cup {None}]
    /\ mClients \in {"none", "up", "down"} /\ mArp \in {"none", "up"}
    /\ parser \in {"idle", "up", "down", "junk"}

DatagramType ==
    /\ upPc \in {"recv", "find", "accept", "check", "head", "tail", "write", "seen", "insert",
                 "stamp", "reap", "reaping"}
    /\ from \in Addrs \cup {"artoo", None} /\ comp \in Comps \cup {None}
    /\ kind \in Kinds \cup {"none"}

VerdictType ==
    /\ discard \in BOOLEAN /\ sawLock \in BOOLEAN /\ disturbed \in BOOLEAN
    /\ starved \in BOOLEAN /\ half \in BOOLEAN
    /\ orphan \in BOOLEAN /\ raced \in BOOLEAN

TimingType == check \in 0..CheckEvery /\ ran \in {"none", "empty", "some"}

MessageType ==
    /\ downPc \in {"read", "route", "next", "sys", "comp", "match"}
    /\ target \in Comps \cup {"all"} /\ todo \subseteq Addrs /\ cur \in Addrs \cup {None}
    /\ sent \subseteq Addrs /\ owner \in Addrs \cup {None}

\* The type invariant is the conjunction of its parts.
LEMMA TypeParts ==
    /\ TypeOK <=> SharedType /\ DatagramType /\ VerdictType /\ TimingType /\ MessageType
    /\ TypeOK' <=> SharedType' /\ DatagramType' /\ VerdictType' /\ TimingType' /\ MessageType'
BY DEF TypeOK, SharedType, DatagramType, VerdictType, TimingType, MessageType

-----------------------------------------------------------------------------
(* The invariant.                                                          *)

\* What the program counters say of the locks and of the datagram.
Locks ==
    /\ mClients = "down" <=> Passing
    /\ mClients = "up" <=> upPc = "reaping"
    /\ mArp = "up" <=> upPc = "insert"
    /\ ~Passing => sent = {}
    /\ downPc \in {"sys", "comp", "match"} => target \in Comps /\ cur \in Addrs

Datagram ==
    /\ upPc \in {"find", "seen", "insert"} => from \in Addrs
    /\ upPc \notin {"recv", "reap", "reaping"} => from # None /\ comp \in Comps

\* A datagram that is dealt with comes from a client or from the controller.
Pointers ==
    /\ NoDangling
    /\ upPc \in {"accept", "check", "head", "tail", "write", "seen", "insert", "stamp"} =>
           from \in clients \cup {"artoo"}

\* Who is sent a log block is the client of its component; and that client is
\* still to be visited, is being looked at or has been sent it.
Routing ==
    /\ Passing /\ target \in Comps => \A a \in sent : table[target] = a
    /\ Passing /\ owner # None /\ ~orphan /\ ~raced =>
           /\ target \in Comps /\ table[target] = owner /\ table["system"] # None
           /\ \/ owner \in todo \cup sent
              \/ cur = owner /\ downPc \in {"sys", "comp", "match"}

\* Between two checks the clients grow older as the countdown runs.
Ages ==
    /\ upPc \notin {"reap", "reaping"} /\ check = 0 => ran # "some"
    /\ ~starved => \A a \in clients : age[a] # Never => age[a] <=
                          ClientTimeout + (CheckEvery - check)

\* An undisturbed parser is where the upstream thread left it.
Arming ==
    /\ upPc = "head" /\ ~disturbed => parser = "idle"
    /\ upPc = "tail" /\ ~disturbed => parser = "up"
    /\ LockedNoArm

ForwardInv == TypeOK /\ Locks /\ Datagram /\ Pointers /\ Routing /\ Ages /\ Arming

-----------------------------------------------------------------------------

\* The invariant holds when telem_forward starts.
LEMMA InitInv == Init => ForwardInv
<1> SUFFICES ASSUME Init PROVE ForwardInv
  OBVIOUS
<1> USE DEF Init
<1>1. TypeOK
  <2>1. SharedType
    BY DEF SharedType, Never, MaxAge
  <2>2. DatagramType /\ TimingType
    BY DEF DatagramType, TimingType
  <2>3. VerdictType /\ MessageType
    BY DEF VerdictType, MessageType
  <2> QED
    BY <2>1, <2>2, <2>3, TypeParts
<1>2. Locks /\ Datagram /\ Arming
  BY DEF Locks, Passing, Datagram, Arming, LockedNoArm
<1>3. Pointers /\ Routing /\ Ages
  BY DEF Pointers, NoDangling, Routing, Passing, Ages
<1> QED
  BY <1>1, <1>2, <1>3 DEF ForwardInv

\* Every step of the upstream thread keeps the types.
LEMMA UpTypes == TypeOK /\ Locks /\ Datagram /\ UpNext => TypeOK'
<1> SUFFICES ASSUME TypeOK, Locks, Datagram, UpNext PROVE  TypeOK'
  OBVIOUS
<1> USE TypeParts DEF shared, mutexes, datagram, verdict, timing, upVars, message, downVars, UpAt
<1>1. ASSUME NEW a \in Addrs \cup {"artoo"}, NEW k \in Comps, NEW m \in Kinds, Recv(a, k, m)
      PROVE  TypeOK'
  BY <1>1 DEF Recv, UpAt, Kinds, SharedType, DatagramType, VerdictType, TimingType, MessageType
<1>2. CASE FindClient
  <2>1. SharedType'
    BY <1>2 DEF FindClient, Never, MaxAge, Datagram, SharedType
  <2>2. DatagramType' /\ TimingType'
    BY <1>2 DEF FindClient, Never, MaxAge, Datagram, DatagramType, TimingType
  <2>3. VerdictType'
    BY <1>2 DEF FindClient, Never, MaxAge, Datagram, VerdictType
  <2>4. MessageType'
    BY <1>2 DEF FindClient, Never, MaxAge, Datagram, MessageType
  <2> QED
    BY <2>1, <2>2, <2>3, <2>4
<1>3. CASE AcceptEmpty
  <2>1. SharedType'
    BY <1>3 DEF AcceptEmpty, Forget, SharedType
  <2>2. DatagramType' /\ TimingType'
    BY <1>3 DEF AcceptEmpty, Forget, DatagramType, TimingType
  <2>3. VerdictType'
    BY <1>3 DEF AcceptEmpty, Forget, VerdictType
  <2>4. MessageType'
    BY <1>3 DEF AcceptEmpty, Forget, MessageType
  <2> QED
    BY <2>1, <2>2, <2>3, <2>4
<1>4. CASE Accept
  BY <1>4 DEF Accept, SharedType, DatagramType, VerdictType, TimingType, MessageType
<1>5. CASE CheckLock
  BY <1>5 DEF CheckLock, SharedType, DatagramType, VerdictType, TimingType, MessageType
<1>6. CASE ParseHead
  BY <1>6 DEF ParseHead, Feed, SharedType, DatagramType, VerdictType, TimingType, MessageType
<1>7. CASE ParseTail
  BY <1>7
     DEF ParseTail, Feed, Completes, SharedType, DatagramType, VerdictType, TimingType,
         MessageType
<1>8. CASE Write
  BY <1>8 DEF Write, SharedType, DatagramType, VerdictType, TimingType, MessageType
<1>9. CASE Seen
  BY <1>9 DEF Seen, SharedType, DatagramType, VerdictType, TimingType, MessageType
<1>10. CASE Insert
  <2>1. SharedType'
    BY <1>10 DEF Insert, Inserted, Datagram, SharedType
  <2>2. DatagramType' /\ TimingType'
    BY <1>10 DEF Insert, Inserted, Datagram, DatagramType, TimingType
  <2>3. VerdictType'
    BY <1>10 DEF Insert, Inserted, Datagram, VerdictType
  <2>4. MessageType'
    BY <1>10 DEF Insert, Inserted, Datagram, MessageType
  <2> QED
    BY <2>1, <2>2, <2>3, <2>4
<1>11. CASE Stamp
  <2>1. SharedType'
    BY <1>11 DEF Stamp, CheckDue, Forget, Never, MaxAge, SharedType
  <2>2. DatagramType' /\ TimingType'
    BY <1>11 DEF Stamp, CheckDue, Forget, Never, MaxAge, DatagramType, TimingType
  <2>3. VerdictType'
    BY <1>11 DEF Stamp, CheckDue, Forget, Never, MaxAge, VerdictType
  <2>4. MessageType'
    BY <1>11 DEF Stamp, CheckDue, Forget, Never, MaxAge, MessageType
  <2> QED
    BY <2>1, <2>2, <2>3, <2>4
<1>12. CASE RecvTimeout
  BY <1>12 DEF RecvTimeout, CheckDue, SharedType, DatagramType, VerdictType, TimingType, MessageType
<1>13. CASE Reap
  BY <1>13 DEF Reap, SharedType, DatagramType, VerdictType, TimingType, MessageType
<1>14. CASE Reaped
  <2>1. SharedType'
    BY <1>14 DEF Reaped, UpAt, SharedType
  <2>2. DatagramType' /\ TimingType'
    BY <1>14 DEF Reaped, UpAt, DatagramType, TimingType
  <2>3. VerdictType'
    BY <1>14 DEF Reaped, UpAt, VerdictType
  <2>4. MessageType'
    BY <1>14 DEF Reaped, UpAt, MessageType
  <2> QED
    BY <2>1, <2>2, <2>3, <2>4
<1>15. ASSUME NEW a \in Addrs, Remove(a) PROVE TypeOK'
  BY <1>15
     DEF Remove, Purged, Expired, SharedType, DatagramType, VerdictType, TimingType, MessageType
<1>16. CASE Stuck
  <2>1. SharedType'
    BY <1>16 DEF Stuck, Forget, Never, MaxAge, SharedType
  <2>2. DatagramType' /\ TimingType'
    BY <1>16 DEF Stuck, Forget, Never, MaxAge, DatagramType, TimingType
  <2>3. VerdictType'
    BY <1>16 DEF Stuck, Forget, Never, MaxAge, VerdictType
  <2>4. MessageType'
    BY <1>16 DEF Stuck, Forget, Never, MaxAge, MessageType
  <2> QED
    BY <2>1, <2>2, <2>3, <2>4
<1> QED
  BY <1>1, <1>2, <1>3, <1>4, <1>5, <1>6, <1>7, <1>8, <1>9, <1>10, <1>11, <1>12, <1>13, <1>14,
     <1>15, <1>16
     DEF UpNext

\* Every step of the downstream thread keeps the types.
LEMMA DownTypes == TypeOK /\ Locks /\ Datagram /\ DownNext => TypeOK'
<1> SUFFICES ASSUME TypeOK, Locks, Datagram, DownNext PROVE  TypeOK'
  OBVIOUS
<1> USE TypeParts DEF shared, mutexes, datagram, verdict, timing, upVars, message, downVars, UpAt
<1>1. CASE ReadHead
  BY <1>1 DEF ReadHead, Feed, SharedType, DatagramType, VerdictType, TimingType, MessageType
<1>2. CASE ReadTail
  <2>1. SharedType'
    BY <1>2 DEF ReadTail, Feed, Completes, SharedType
  <2>2. DatagramType' /\ TimingType'
    BY <1>2 DEF ReadTail, Feed, Completes, DatagramType, TimingType
  <2>3. VerdictType'
    BY <1>2 DEF ReadTail, Feed, Completes, VerdictType
  <2>4. MessageType'
    BY <1>2 DEF ReadTail, Feed, Completes, MessageType
  <2> QED
    BY <2>1, <2>2, <2>3, <2>4
<1>3. CASE Inject
  BY <1>3 DEF Inject, SharedType, DatagramType, VerdictType, TimingType, MessageType
<1>4. CASE Route
  <2>1. SharedType'
    BY <1>4 DEF Route, Begin, Keys, SharedType
  <2>2. DatagramType' /\ TimingType'
    BY <1>4 DEF Route, Begin, DatagramType, TimingType
  <2>3. VerdictType'
    BY <1>4 DEF Route, Begin, VerdictType
  <2>4. MessageType'
    BY <1>4 DEF Route, Begin, SharedType, Keys, MessageType
  <2> QED
    BY <2>1, <2>2, <2>3, <2>4
<1>5. ASSUME NEW a \in Addrs, Visit(a) PROVE TypeOK'
  BY <1>5 DEF Visit, SharedType, DatagramType, VerdictType, TimingType, MessageType
<1>6. CASE SeenSys
  BY <1>6 DEF SeenSys, SharedType, DatagramType, VerdictType, TimingType, MessageType
<1>7. CASE SeenComp
  BY <1>7 DEF SeenComp, SharedType, DatagramType, VerdictType, TimingType, MessageType
<1>8. CASE Match
  <2>1. SharedType'
    BY <1>8 DEF Match, Locks, SharedType
  <2>2. DatagramType' /\ TimingType'
    BY <1>8 DEF Match, Locks, DatagramType, TimingType
  <2>3. VerdictType'
    BY <1>8 DEF Match, Locks, VerdictType
  <2>4. MessageType'
    BY <1>8 DEF Match, Locks, MessageType
  <2> QED
    BY <2>1, <2>2, <2>3, <2>4
<1>9. CASE Routed
  <2>1. SharedType'
    BY <1>9 DEF Routed, SharedType
  <2>2. DatagramType' /\ TimingType'
    BY <1>9 DEF Routed, DatagramType, TimingType
  <2>3. VerdictType'
    BY <1>9 DEF Routed, VerdictType
  <2>4. MessageType'
    BY <1>9 DEF Routed, MessageType
  <2> QED
    BY <2>1, <2>2, <2>3, <2>4
<1> QED
  BY <1>1, <1>2, <1>3, <1>4, <1>5, <1>6, <1>7, <1>8, <1>9 DEF DownNext

\* A second that passes keeps the types.
LEMMA TickTypes == TypeOK /\ Tick => TypeOK'
<1> SUFFICES ASSUME TypeOK, Tick PROVE TypeOK'
  OBVIOUS
<1> USE TypeParts DEF Tick, shared, mutexes, datagram, verdict, timing, message, downVars
<1>1. SharedType'
  BY DEF SharedType, Never, MaxAge
<1>2. DatagramType' /\ TimingType'
  BY DEF DatagramType, TimingType
<1>3. VerdictType' /\ MessageType'
  BY DEF VerdictType, MessageType
<1> QED
  BY <1>1, <1>2, <1>3

\* The program counters keep telling the locks and the datagram.
LEMMA StepLocks == TypeOK /\ Locks /\ Datagram /\ Next => Locks' /\ Datagram'
<1> SUFFICES ASSUME TypeOK, Locks, Datagram, Next PROVE Locks' /\ Datagram'
  OBVIOUS
<1> USE DEF shared, mutexes, datagram, verdict, timing, upVars, message, downVars
<1>1. ASSUME NEW a \in Addrs \cup {"artoo"}, NEW k \in Comps, NEW m \in Kinds, Recv(a, k, m)
      PROVE  Locks' /\ Datagram'
  <2>1. Locks'
    BY <1>1 DEF Recv, UpAt, Locks, Passing
  <2>2. Datagram'
    BY <1>1 DEF Recv, Datagram
  <2> QED
    BY <2>1, <2>2
<1>2. CASE FindClient
  BY <1>2 DEF FindClient, UpAt, Locks, Datagram, Passing
<1>3. CASE AcceptEmpty
  BY <1>3 DEF AcceptEmpty, UpAt, Forget, Locks, Datagram, Passing
<1>4. CASE Accept
  BY <1>4 DEF Accept, UpAt, Locks, Datagram, Passing
<1>5. CASE CheckLock
  BY <1>5 DEF CheckLock, UpAt, Locks, Datagram, Passing
<1>6. CASE ParseHead
  BY <1>6 DEF ParseHead, UpAt, Locks, Datagram, Passing
<1>7. CASE ParseTail
  BY <1>7 DEF ParseTail, UpAt, Locks, Datagram, Passing
<1>8. CASE Write
  BY <1>8 DEF Write, UpAt, TypeOK, Locks, Datagram, Passing
<1>9. CASE Seen
  BY <1>9 DEF Seen, UpAt, Locks, Datagram, Passing
<1>10. CASE Insert
  BY <1>10 DEF Insert, UpAt, Locks, Datagram, Passing
<1>11. CASE Stamp
  BY <1>11 DEF Stamp, UpAt, Forget, Locks, Datagram, Passing
<1>12. CASE RecvTimeout
  BY <1>12 DEF RecvTimeout, UpAt, Locks, Datagram, Passing
<1>13. CASE Reap
  BY <1>13 DEF Reap, UpAt, Locks, Datagram, Passing
<1>14. CASE Reaped
  BY <1>14 DEF Reaped, UpAt, Locks, Datagram, Passing
<1>15. ASSUME NEW a \in Addrs, Remove(a) PROVE Locks' /\ Datagram'
  BY <1>15 DEF Remove, UpAt, Locks, Datagram, Passing
<1>16. CASE Stuck
  BY <1>16 DEF Stuck, UpAt, Forget, Locks, Datagram, Passing
<1>17. CASE ReadHead
  BY <1>17 DEF ReadHead, Locks, Datagram, Passing
<1>18. CASE ReadTail
  BY <1>18 DEF ReadTail, Completes, Locks, Datagram, Passing
<1>19. CASE Inject
  BY <1>19 DEF Inject, Locks, Datagram, Passing
<1>20. CASE Route
  BY <1>20 DEF Route, Begin, Locks, Datagram, Passing
<1>21. ASSUME NEW a \in Addrs, Visit(a) PROVE Locks' /\ Datagram'
  BY <1>21 DEF Visit, TypeOK, Locks, Datagram, Passing
<1>22. CASE SeenSys
  BY <1>22 DEF SeenSys, Locks, Datagram, Passing
<1>23. CASE SeenComp
  BY <1>23 DEF SeenComp, Locks, Datagram, Passing
<1>24. CASE Match
  BY <1>24 DEF Match, Locks, Datagram, Passing
<1>25. CASE Routed
  BY <1>25 DEF Routed, Locks, Datagram, Passing
<1>26. CASE Tick
  BY <1>26 DEF Tick, Locks, Datagram, Passing
<1> QED
  BY <1>1, <1>2, <1>3, <1>4, <1>5, <1>6, <1>7, <1>8, <1>9, <1>10, <1>11, <1>12, <1>13, <1>14,
     <1>15, <1>16, <1>17, <1>18, <1>19, <1>20, <1>21, <1>22, <1>23, <1>24, <1>25, <1>26
     DEF Next, UpNext, DownNext

\* No step leaves a pointer to a client it removes.
LEMMA StepPointers == TypeOK /\ Locks /\ Datagram /\ Pointers /\ Next => Pointers'
<1> SUFFICES ASSUME TypeOK, Locks, Datagram, Pointers, Next PROVE Pointers'
  OBVIOUS
<1> USE DEF shared, mutexes, datagram, verdict, timing, upVars, message, downVars
<1>1. ASSUME NEW a \in Addrs \cup {"artoo"}, NEW k \in Comps, NEW m \in Kinds, Recv(a, k, m)
      PROVE  Pointers'
  BY <1>1 DEF Recv, UpAt, Pointers, NoDangling
<1>2. CASE FindClient
  BY <1>2 DEF FindClient, UpAt, Pointers, NoDangling
<1>3. CASE AcceptEmpty
  BY <1>3 DEF AcceptEmpty, UpAt, Forget, Pointers, NoDangling
<1>4. CASE Accept
  BY <1>4 DEF Accept, UpAt, Pointers, NoDangling
<1>5. CASE CheckLock
  BY <1>5 DEF CheckLock, UpAt, Pointers, NoDangling
<1>6. CASE ParseHead
  BY <1>6 DEF ParseHead, UpAt, Pointers, NoDangling
<1>7. CASE ParseTail
  BY <1>7 DEF ParseTail, UpAt, Pointers, NoDangling
<1>8. CASE Write
  BY <1>8 DEF Write, UpAt, Pointers, NoDangling
<1>9. CASE Seen
  BY <1>9 DEF Seen, UpAt, Pointers, NoDangling
<1>10. CASE Insert
  BY <1>10 DEF Insert, UpAt, Inserted, Datagram, Locks, TypeOK, Keys, Pointers, NoDangling
<1>11. CASE Stamp
  BY <1>11 DEF Stamp, UpAt, Forget, Pointers, NoDangling
<1>12. CASE RecvTimeout
  BY <1>12 DEF RecvTimeout, UpAt, Pointers, NoDangling
<1>13. CASE Reap
  BY <1>13 DEF Reap, UpAt, Pointers, NoDangling
<1>14. CASE Reaped
  BY <1>14 DEF Reaped, UpAt, Pointers, NoDangling
<1>15. ASSUME NEW a \in Addrs, Remove(a) PROVE Pointers'
  BY <1>15 DEF Remove, UpAt, Purged, Expired, Locks, Passing, TypeOK, Keys, Pointers, NoDangling
<1>16. CASE Stuck
  BY <1>16 DEF Stuck, UpAt, Forget, Pointers, NoDangling
<1>17. CASE ReadHead
  BY <1>17 DEF ReadHead, Pointers, NoDangling
<1>18. CASE ReadTail
  BY <1>18 DEF ReadTail, Pointers, NoDangling
<1>19. CASE Inject
  BY <1>19 DEF Inject, Pointers, NoDangling
<1>20. CASE Route
  BY <1>20 DEF Route, Begin, Pointers, NoDangling
<1>21. ASSUME NEW a \in Addrs, Visit(a) PROVE Pointers'
  BY <1>21 DEF Visit, Pointers, NoDangling
<1>22. CASE SeenSys
  BY <1>22 DEF SeenSys, Locks, Pointers, NoDangling
<1>23. CASE SeenComp
  BY <1>23 DEF SeenComp, Locks, Pointers, NoDangling
<1>24. CASE Match
  BY <1>24 DEF Match, Locks, Passing, Pointers, NoDangling
<1>25. CASE Routed
  BY <1>25 DEF Routed, Pointers, NoDangling
<1>26. CASE Tick
  BY <1>26 DEF Tick, Pointers, NoDangling
<1> QED
  BY <1>1, <1>2, <1>3, <1>4, <1>5, <1>6, <1>7, <1>8, <1>9, <1>10, <1>11, <1>12, <1>13, <1>14,
     <1>15, <1>16, <1>17, <1>18, <1>19, <1>20, <1>21, <1>22, <1>23, <1>24, <1>25, <1>26
     DEF Next, UpNext, DownNext

\* While the list is gone through, the entry of a component stays what it is.
LEMMA StepRouting == TypeOK /\ Locks /\ Datagram /\ Pointers /\ Routing /\ Next => Routing'
<1> SUFFICES ASSUME TypeOK, Locks, Datagram, Pointers, Routing, Next PROVE Routing'
  OBVIOUS
<1> USE DEF shared, mutexes, datagram, verdict, timing, upVars, message, downVars
<1>1. ASSUME NEW a \in Addrs \cup {"artoo"}, NEW k \in Comps, NEW m \in Kinds, Recv(a, k, m)
      PROVE  Routing'
  BY <1>1 DEF Recv, UpAt, Routing, Passing
<1>2. CASE FindClient
  BY <1>2 DEF FindClient, UpAt, Routing, Passing
<1>3. CASE AcceptEmpty
  BY <1>3 DEF AcceptEmpty, UpAt, Forget, Routing, Passing
<1>4. CASE Accept
  BY <1>4 DEF Accept, UpAt, Routing, Passing
<1>5. CASE CheckLock
  BY <1>5 DEF CheckLock, UpAt, Routing, Passing
<1>6. CASE ParseHead
  BY <1>6 DEF ParseHead, UpAt, Routing, Passing
<1>7. CASE ParseTail
  BY <1>7 DEF ParseTail, UpAt, Routing, Passing
<1>8. CASE Write
  BY <1>8 DEF Write, UpAt, Routing, Passing
<1>9. CASE Seen
  BY <1>9 DEF Seen, UpAt, Routing, Passing
<1>10. CASE Insert
  BY <1>10 DEF Insert, UpAt, Inserted, Datagram, Locks, TypeOK, Keys, Routing, Passing
<1>11. CASE Stamp
  BY <1>11 DEF Stamp, UpAt, Forget, Routing, Passing
<1>12. CASE RecvTimeout
  BY <1>12 DEF RecvTimeout, UpAt, Routing, Passing
<1>13. CASE Reap
  BY <1>13 DEF Reap, UpAt, Routing, Passing
<1>14. CASE Reaped
  BY <1>14 DEF Reaped, UpAt, Routing, Passing
<1>15. ASSUME NEW a \in Addrs, Remove(a) PROVE Routing'
  BY <1>15 DEF Remove, UpAt, Locks, Routing, Passing
<1>16. CASE Stuck
  BY <1>16 DEF Stuck, UpAt, Forget, Routing, Passing
<1>17. CASE ReadHead
  BY <1>17 DEF ReadHead, Routing, Passing
<1>18. CASE ReadTail
  BY <1>18 DEF ReadTail, Routing, Passing
<1>19. CASE Inject
  BY <1>19 DEF Inject, Routing, Passing
<1>20. CASE Route
  BY <1>20 DEF Route, Begin, Pointers, NoDangling, Keys, Routing, Passing
<1>21. ASSUME NEW a \in Addrs, Visit(a) PROVE Routing'
  BY <1>21 DEF Visit, Routing, Passing
<1>22. CASE SeenSys
  BY <1>22 DEF SeenSys, Routing, Passing
<1>23. CASE SeenComp
  BY <1>23 DEF SeenComp, Routing, Passing
<1>24. CASE Match
  BY <1>24 DEF Match, Locks, Routing, Passing
<1>25. CASE Routed
  BY <1>25 DEF Routed, Routing, Passing
<1>26. CASE Tick
  BY <1>26 DEF Tick, Routing, Passing
<1> QED
  BY <1>1, <1>2, <1>3, <1>4, <1>5, <1>6, <1>7, <1>8, <1>9, <1>10, <1>11, <1>12, <1>13, <1>14,
     <1>15, <1>16, <1>17, <1>18, <1>19, <1>20, <1>21, <1>22, <1>23, <1>24, <1>25, <1>26
     DEF Next, UpNext, DownNext

\* The countdown bounds the ages.
LEMMA StepAges == TypeOK /\ Datagram /\ Ages /\ Next => Ages'
<1> SUFFICES ASSUME TypeOK, Datagram, Ages, Next PROVE Ages'
  OBVIOUS
<1> USE DEF shared, mutexes, datagram, verdict, timing, upVars, message, downVars
<1>1. ASSUME NEW a \in Addrs \cup {"artoo"}, NEW k \in Comps, NEW m \in Kinds, Recv(a, k, m)
      PROVE  Ages'
  BY <1>1 DEF Recv, UpAt, TypeOK, Ages
<1>2. CASE FindClient
  BY <1>2 DEF FindClient, UpAt, TypeOK, Never, MaxAge, Datagram, Ages
<1>3. CASE AcceptEmpty
  BY <1>3 DEF AcceptEmpty, UpAt, Forget, Ages
<1>4. CASE Accept
  BY <1>4 DEF Accept, UpAt, Ages
<1>5. CASE CheckLock
  BY <1>5 DEF CheckLock, UpAt, Ages
<1>6. CASE ParseHead
  BY <1>6 DEF ParseHead, UpAt, Ages
<1>7. CASE ParseTail
  BY <1>7 DEF ParseTail, UpAt, Ages
<1>8. CASE Write
  BY <1>8 DEF Write, UpAt, Ages
<1>9. CASE Seen
  BY <1>9 DEF Seen, UpAt, Ages
<1>10. CASE Insert
  BY <1>10 DEF Insert, UpAt, Ages
<1>11. CASE Stamp
  BY <1>11 DEF Stamp, UpAt, Forget, CheckDue, TypeOK, Never, MaxAge, Ages
<1>12. CASE RecvTimeout
  BY <1>12 DEF RecvTimeout, UpAt, CheckDue, Ages
<1>13. CASE Reap
  BY <1>13 DEF Reap, UpAt, Ages
<1>14. CASE Reaped
  BY <1>14 DEF Reaped, UpAt, Expired, TypeOK, Never, MaxAge, Ages
<1>15. ASSUME NEW a \in Addrs, Remove(a) PROVE Ages'
  BY <1>15 DEF Remove, UpAt, TypeOK, Ages
<1>16. CASE Stuck
  BY <1>16 DEF Stuck, UpAt, Forget, Ages
<1>17. CASE ReadHead
  BY <1>17 DEF ReadHead, Ages
<1>18. CASE ReadTail
  BY <1>18 DEF ReadTail, Ages
<1>19. CASE Inject
  BY <1>19 DEF Inject, Ages
<1>20. CASE Route
  BY <1>20 DEF Route, Begin, Ages
<1>21. ASSUME NEW a \in Addrs, Visit(a) PROVE Ages'
  BY <1>21 DEF Visit, Ages
<1>22. CASE SeenSys
  BY <1>22 DEF SeenSys, Ages
<1>23. CASE SeenComp
  BY <1>23 DEF SeenComp, Ages
<1>24. CASE Match
  BY <1>24 DEF Match, Ages
<1>25. CASE Routed
  BY <1>25 DEF Routed, Ages
<1>26. CASE Tick
  <2> SUFFICES ASSUME ~starved', NEW a \in clients, age'[a] # Never
               PROVE  age'[a] <= ClientTimeout + (CheckEvery - check')
    BY <1>26 DEF Tick, Ages, TypeOK
  <2>0. ~starved /\ ran # "empty"
    BY <1>26 DEF Tick
  <2>1. ~starved /\ check \in Nat \ {0} /\ check' = check - 1
    <3>1. check # 0
      BY <1>26, <2>0 DEF Tick, Ages, TypeOK
    <3> QED
      BY <1>26, <2>0, <3>1 DEF Tick, TypeOK
  <2>2. a \in Addrs /\ age[a] \in 0..Never
    BY DEF TypeOK
  <2>3. age'[a] = IF age[a] <= MaxAge THEN age[a] + 1 ELSE age[a]
    BY <1>26, <2>2 DEF Tick
  <2>4. age[a] # Never => age[a] <= ClientTimeout + (CheckEvery - check)
    BY <1>26, <2>1 DEF Tick, Ages
  <2> QED
    BY <1>26, <2>1, <2>2, <2>3, <2>4 DEF Tick, TypeOK, Never, MaxAge
<1> QED
  BY <1>1, <1>2, <1>3, <1>4, <1>5, <1>6, <1>7, <1>8, <1>9, <1>10, <1>11, <1>12, <1>13, <1>14,
     <1>15, <1>16, <1>17, <1>18, <1>19, <1>20, <1>21, <1>22, <1>23, <1>24, <1>25, <1>26
     DEF Next, UpNext, DownNext

\* A parser that is not disturbed finds the arm command.
LEMMA StepArming == TypeOK /\ Arming /\ Next => Arming'
<1> SUFFICES ASSUME TypeOK, Arming, Next PROVE Arming'
  OBVIOUS
<1> USE DEF shared, mutexes, datagram, verdict, timing, upVars, message, downVars
<1>1. ASSUME NEW a \in Addrs \cup {"artoo"}, NEW k \in Comps, NEW m \in Kinds, Recv(a, k, m)
      PROVE  Arming'
  BY <1>1 DEF Recv, UpAt, Arming, LockedNoArm
<1>2. CASE FindClient
  BY <1>2 DEF FindClient, UpAt, Arming, LockedNoArm
<1>3. CASE AcceptEmpty
  BY <1>3 DEF AcceptEmpty, UpAt, Forget, Arming, LockedNoArm
<1>4. CASE Accept
  BY <1>4 DEF Accept, UpAt, Arming, LockedNoArm
<1>5. CASE CheckLock
  BY <1>5 DEF CheckLock, UpAt, TypeOK, Arming, LockedNoArm
<1>6. CASE ParseHead
  BY <1>6 DEF ParseHead, UpAt, Feed, Arming, LockedNoArm
<1>7. CASE ParseTail
  BY <1>7 DEF ParseTail, UpAt, Feed, Completes, Arming, LockedNoArm
<1>8. CASE Write
  BY <1>8 DEF Write, UpAt, Arming, LockedNoArm
<1>9. CASE Seen
  BY <1>9 DEF Seen, UpAt, Arming, LockedNoArm
<1>10. CASE Insert
  BY <1>10 DEF Insert, UpAt, Arming, LockedNoArm
<1>11. CASE Stamp
  BY <1>11 DEF Stamp, UpAt, Forget, Arming, LockedNoArm
<1>12. CASE RecvTimeout
  BY <1>12 DEF RecvTimeout, UpAt, Arming, LockedNoArm
<1>13. CASE Reap
  BY <1>13 DEF Reap, UpAt, Arming, LockedNoArm
<1>14. CASE Reaped
  BY <1>14 DEF Reaped, UpAt, Arming, LockedNoArm
<1>15. ASSUME NEW a \in Addrs, Remove(a) PROVE Arming'
  BY <1>15 DEF Remove, UpAt, Arming, LockedNoArm
<1>16. CASE Stuck
  BY <1>16 DEF Stuck, UpAt, Forget, Arming, LockedNoArm
<1>17. CASE ReadHead
  BY <1>17 DEF ReadHead, Arming, LockedNoArm
<1>18. CASE ReadTail
  BY <1>18 DEF ReadTail, Arming, LockedNoArm
<1>19. CASE Inject
  BY <1>19 DEF Inject, Arming, LockedNoArm
<1>20. CASE Route
  BY <1>20 DEF Route, Begin, Arming, LockedNoArm
<1>21. ASSUME NEW a \in Addrs, Visit(a) PROVE Arming'
  BY <1>21 DEF Visit, Arming, LockedNoArm
<1>22. CASE SeenSys
  BY <1>22 DEF SeenSys, Arming, LockedNoArm
<1>23. CASE SeenComp
  BY <1>23 DEF SeenComp, Arming, LockedNoArm
<1>24. CASE Match
  BY <1>24 DEF Match, Arming, LockedNoArm
<1>25. CASE Routed
  BY <1>25 DEF Routed, Arming, LockedNoArm
<1>26. CASE Tick
  BY <1>26 DEF Tick, Arming, LockedNoArm
<1> QED
  BY <1>1, <1>2, <1>3, <1>4, <1>5, <1>6, <1>7, <1>8, <1>9, <1>10, <1>11, <1>12, <1>13, <1>14,
     <1>15, <1>16, <1>17, <1>18, <1>19, <1>20, <1>21, <1>22, <1>23, <1>24, <1>25, <1>26
     DEF Next, UpNext, DownNext

\* Every step preserves the invariant.
LEMMA StepInv == ForwardInv /\ [Next]_vars => ForwardInv'
<1> SUFFICES ASSUME ForwardInv, [Next]_vars PROVE ForwardInv'
  OBVIOUS
<1> USE DEF ForwardInv
<1>1. CASE Next
  <2>1. TypeOK'
    BY <1>1, UpTypes, DownTypes, TickTypes DEF Next
  <2> QED
    BY <1>1, <2>1, StepLocks, StepPointers, StepRouting, StepAges, StepArming
<1>2. CASE UNCHANGED vars
  <2> USE <1>2 DEF vars, shared, mutexes, datagram, verdict, timing, upVars, message, downVars
  <2>1. TypeOK'
    BY DEF TypeOK
  <2>2. Locks' /\ Datagram' /\ Arming'
    BY DEF Locks, Passing, Datagram, Arming, LockedNoArm
  <2>3. Pointers' /\ Routing' /\ Ages'
    BY DEF Pointers, NoDangling, Routing, Passing, Ages
  <2> QED
    BY <2>1, <2>2, <2>3
<1> QED
  BY <1>1, <1>2

\* The invariant holds in every behaviour.
LEMMA Invariance == Spec => []ForwardInv
BY InitInv, StepInv, PTL DEF Spec

-----------------------------------------------------------------------------
(* TelemForward implements Router.                                         *)

\* While the list is gone through: the entry of an owner stays, and so does that of
\* the system; who is still to be visited or being looked at has been sent nothing.
Passage ==
    /\ Passing /\ owner # None /\ ~orphan =>
           target \in Comps /\ table[target] = owner /\ table["system"] # None
    /\ downPc \in {"comp", "match"} => table["system"] # None
    /\ Passing => sent \cap Ahead = {}
    /\ downPc \in {"sys", "comp", "match"} => cur \notin todo

\* Nothing that Passage speaks of changes.
StillPassing ==
    /\ downPc' = downPc /\ owner' = owner /\ orphan' = orphan /\ target' = target
    /\ sent' = sent /\ todo' = todo /\ cur' = cur

\* An insertion overwrites no entry of a component, and no step of the upstream
\* thread takes an entry away while the list is gone through.
LEMMA UpPassage == ForwardInv /\ Passage /\ StillPassing /\ UpNext /\ ~Stuck => Passage'
<1> SUFFICES ASSUME ForwardInv, Passage, StillPassing, UpNext, ~Stuck PROVE Passage'
  OBVIOUS
<1> USE DEF ForwardInv
<1>1. CASE Passing
  <2>1. /\ \A k \in Comps : table[k] # None => table'[k] = table[k]
        /\ table["system"] # None => table'["system"] # None
    <3>1. CASE Insert
      <4>1. from \in Addrs /\ comp \in Comps /\ from # None
        BY <3>1 DEF Insert, UpAt, Datagram
      <4> QED
        BY <3>1, <4>1 DEF Insert, Inserted, TypeOK, Keys
    <3>2. CASE \E a \in Addrs : Remove(a)
      BY <1>1, <3>2 DEF Remove, UpAt, Locks
    <3>3. CASE UNCHANGED table
      BY <3>3
    <3> QED
      BY <3>1, <3>2, <3>3
         DEF UpNext, Recv, FindClient, AcceptEmpty, Accept, CheckLock, ParseHead, ParseTail,
             Write, Seen, Stamp, RecvTimeout, Reap, Reaped, shared
  <2> QED
    BY <1>1, <2>1 DEF StillPassing, Passage, Passing, Ahead
<1>2. CASE ~Passing
  BY <1>2 DEF StillPassing, Passage, Passing
<1> QED
  BY <1>1, <1>2

\* Every step of the upstream thread but a restart leaves the downstream thread alone.
LEMMA UpStill == UpNext /\ ~Stuck => StillPassing
BY DEF UpNext, Recv, FindClient, AcceptEmpty, Accept, CheckLock, ParseHead, ParseTail, Write,
       Seen, Insert, Stamp, RecvTimeout, Reap, Remove, Reaped, StillPassing, downVars, message

\* Every step keeps Passage.
LEMMA StepPassage == ForwardInv /\ Passage /\ [Next]_vars => Passage'
<1> SUFFICES ASSUME ForwardInv, Passage, [Next]_vars PROVE Passage'
  OBVIOUS
<1> USE DEF shared, mutexes, upVars, message, Ahead
<1>1. CASE UpNext /\ ~Stuck
  BY <1>1, UpPassage, UpStill
<1>2. CASE Stuck
  BY <1>2 DEF Stuck, Passage, Passing
<1>3. CASE ReadHead
  BY <1>3 DEF ReadHead, Passage, Passing
<1>4. CASE ReadTail
  BY <1>4 DEF ReadTail, Passage, Passing
<1>5. CASE Inject
  BY <1>5 DEF Inject, Passage, Passing
<1>6. CASE Route
  BY <1>6 DEF Route, Begin, Passage, Passing
<1>7. ASSUME NEW c \in Addrs, Visit(c) PROVE Passage'
  BY <1>7 DEF Visit, Passage, Passing
<1>8. CASE SeenSys
  BY <1>8 DEF SeenSys, Passage, Passing
<1>9. CASE SeenComp
  BY <1>9 DEF SeenComp, Passage, Passing
<1>10. CASE Match
  BY <1>10 DEF Match, Passage, Passing
<1>11. CASE Routed
  BY <1>11 DEF Routed, Passage, Passing
<1>12. CASE Tick
  BY <1>12 DEF Tick, downVars, Passage, Passing
<1>13. CASE UNCHANGED vars
  BY <1>13 DEF vars, downVars, Passage, Passing
<1> QED
  BY <1>1, <1>2, <1>3, <1>4, <1>5, <1>6, <1>7, <1>8, <1>9, <1>10, <1>11, <1>12, <1>13
     DEF Next, DownNext

\* Router sees nothing of a step that changes none of what it is mapped from.
LEMMA Unseen ==
    ASSUME clients' = clients, table' = table, (mArp = "up")' = (mArp = "up"),
           Passing' = Passing, Passing => target' = target, Due' = Due, sent' = sent
    PROVE  UNCHANGED Routes!vars
BY DEF Routes!vars

\* What the upstream thread and the clock do, Router sees as members and claims.
LEMMA UpRoutes == ForwardInv /\ (UpNext \/ Tick) => [Routes!Next]_(Routes!vars)
<1> SUFFICES ASSUME ForwardInv, UpNext \/ Tick PROVE [Routes!Next]_(Routes!vars)
  OBVIOUS
<1> USE DEF ForwardInv
<1>1. CASE Stuck
  <2>1. /\ clients' = {} /\ table' = [k \in Keys |-> None] /\ mArp' = "none" /\ sent' = {}
        /\ ~Passing'
    BY <1>1 DEF Stuck, Passing
  <2>2. Due' = {} /\ Passing' = FALSE
    BY <2>1 DEF Due
  <2>3. Routes!Restart
    BY <2>1, <2>2 DEF Routes!Restart, Routes!Entries, Keys
  <2> QED
    BY <2>3 DEF Routes!Next
<1>2. CASE ~Stuck
  <2>1. StillPassing
    BY <1>2, UpStill DEF Tick, StillPassing, downVars, message
  <2>2. /\ Passing' = Passing /\ Due' = Due /\ sent' = sent
        /\ (IF Passing THEN target ELSE "all")' = IF Passing THEN target ELSE "all"
    BY <2>1 DEF StillPassing, Passing, Due, Ahead
  <2>3. CASE FindClient
    <3>1. from \in Addrs /\ ~Passing /\ mArp # "up"
      BY <2>3 DEF FindClient, UpAt, Datagram, Locks
    <3>2. Routes!Join(from)
      BY <2>2, <2>3, <3>1 DEF FindClient, mutexes, Routes!Join, Routes!Quiet
    <3> QED
      BY <3>1, <3>2 DEF Routes!Next
  <2>4. ASSUME NEW a \in Addrs, Remove(a) PROVE [Routes!Next]_(Routes!vars)
    <3>1. ~Passing /\ mArp # "up" /\ a \in clients
      BY <2>4 DEF Remove, UpAt, Locks, Expired
    <3>2. Routes!Leave(a)
      BY <2>2, <2>4, <3>1
         DEF Remove, Purged, mutexes, Routes!Leave, Routes!Quiet, Routes!Entries, Keys
    <3> QED
      BY <3>2 DEF Routes!Next
  <2>5. CASE Seen
    <3>1. Routes!StartClaim
      BY <2>2, <2>5 DEF Seen, shared, Routes!StartClaim
    <3> QED
      BY <3>1 DEF Routes!Next
  <2>6. CASE Insert
    <3>1. from \in clients /\ from \in Addrs /\ comp \in Comps /\ mArp = "up"
      BY <2>6 DEF Insert, UpAt, Datagram, Pointers, Locks
    <3>2. Routes!Claim(comp, from)
      BY <2>2, <2>6, <3>1 DEF Insert, Inserted, Routes!Claim
    <3> QED
      BY <3>1, <3>2 DEF Routes!Next
  <2>7. CASE UNCHANGED << clients, table, mArp >>
    BY <2>2, <2>7, Unseen
  <2> QED
    BY <1>2, <2>3, <2>4, <2>5, <2>6, <2>7
       DEF UpNext, Tick, Recv, AcceptEmpty, Accept, CheckLock, ParseHead, ParseTail, Write,
           Stamp, RecvTimeout, Reap, Reaped, shared, mutexes
<1> QED
  BY <1>1, <1>2

\* A message begins: it is owed to the clients of the list, or to the owner.
LEMMA RouteStarts == ForwardInv /\ Route => Routes!Start(target)
<1> SUFFICES ASSUME ForwardInv, Route PROVE Routes!Start(target)
  OBVIOUS
<1> USE DEF ForwardInv, Route, Begin
<1>1. /\ ~Passing /\ Passing' /\ target' = target /\ sent = {} /\ sent' = {}
      /\ UNCHANGED << clients, table, mArp >>
  BY DEF Passing, Locks, shared
<1>2. Due' = Routes!Owed(target)
  <2>1. Due' = IF target = "all" THEN clients
               ELSE IF table["system"] = None THEN {}
               ELSE {table[target]} \cap clients
    BY DEF Due, Passing, Ahead, TypeOK
  <2>2. target \in Comps => {table[target]} \cap clients = {table[target]} \ {None}
    BY DEF Pointers, NoDangling, Keys, TypeOK
  <2> QED
    BY <2>1, <2>2 DEF Routes!Owed, TypeOK
<1> QED
  BY <1>1, <1>2 DEF Routes!Start

\* A client visited on the way of a message for all is sent it.
LEMMA VisitDelivers ==
    ASSUME NEW c \in Addrs, ForwardInv, Visit(c)
    PROVE  [Routes!Next]_(Routes!vars)
<1> USE DEF Visit, shared, mutexes
<1>1. Passing /\ Passing' /\ target' = target
  BY DEF Passing
<1>2. CASE target = "all"
  <2>1. Due = todo /\ Due' = todo \ {c}
    BY <1>1, <1>2 DEF Due
  <2>2. Routes!Deliver(c)
    BY <1>1, <1>2, <2>1 DEF Routes!Deliver
  <2> QED
    BY <2>2 DEF Routes!Next
<1>3. CASE target # "all"
  <2>1. Ahead' = Ahead /\ sent' = sent
    BY <1>3 DEF Ahead
  <2>2. Due' = Due
    BY <1>1, <1>3, <2>1 DEF Due
  <2> QED
    BY <1>1, <2>1, <2>2, Unseen
<1> QED
  BY <1>2, <1>3

\* What is owed when a client is looked at is owed to the client of the component.
LEMMA OwedToOwner ==
    ASSUME ForwardInv, Passage, downPc \in {"sys", "comp", "match"}
    PROVE  /\ target \in Comps /\ target # "all"
           /\ \A c \in Due : c = owner /\ table[target] = c /\ table["system"] # None
<1>1. target \in Comps /\ target # "all" /\ Passing
  BY DEF ForwardInv, Locks, Passing
<1>2. cur \in Addrs /\ todo \subseteq Addrs
  BY DEF ForwardInv, Locks, TypeOK
<1> QED
  BY <1>1, <1>2 DEF Due, Ahead, Passage

\* A client that is passed over was owed nothing.
LEMMA PassedOver ==
    ASSUME ForwardInv, Passage, downPc \in {"sys", "comp", "match"}, cur \notin Due,
           downPc' = "next", UNCHANGED << shared, mArp, target, todo, owner, orphan, sent >>
    PROVE  UNCHANGED Routes!vars
<1>1. target # "all" /\ Passing /\ Passing'
  BY OwedToOwner DEF Passing
<1>2. Due' = Due
  BY <1>1 DEF Due, Ahead
<1> QED
  BY <1>1, <1>2, Unseen DEF shared

\* The first two looks at the table send nothing.
LEMMA LookUnseen == ForwardInv /\ Passage /\ (SeenSys \/ SeenComp) => UNCHANGED Routes!vars
<1> SUFFICES ASSUME ForwardInv, Passage, SeenSys \/ SeenComp PROVE UNCHANGED Routes!vars
  OBVIOUS
<1> USE DEF SeenSys, SeenComp, shared, mutexes, message
<1>1. CASE downPc' = "next"
  <2>1. \/ table["system"] = None
        \/ table[target] = None
    BY <1>1
  <2>2. cur \notin Due
    <3>1. cur # None
      BY DEF ForwardInv, Locks
    <3> QED
      BY <2>1, <3>1, OwedToOwner
  <2> QED
    BY <1>1, <2>2, PassedOver
<1>2. CASE downPc' # "next"
  <2>1. Passing /\ Passing' /\ Ahead' = Ahead
    BY <1>2 DEF Passing, Ahead
  <2>2. Due' = Due
    BY <2>1 DEF Due
  <2> QED
    BY <2>1, <2>2, Unseen
<1> QED
  BY <1>1, <1>2

\* The last look sends the message, in time or late, passes the client over, or misses
\* it while the upstream thread inserts.
LEMMA MatchDelivers == ForwardInv /\ Passage /\ Match => [Routes!Next]_(Routes!vars)
<1> SUFFICES ASSUME ForwardInv, Passage, Match PROVE [Routes!Next]_(Routes!vars)
  OBVIOUS
<1> USE DEF Match
<1>0. /\ UNCHANGED << clients, table, mArp >> /\ UNCHANGED << shared, target, todo, owner, orphan >>
      /\ Passing /\ Passing' /\ target' = target /\ target # "all" /\ target \in Comps
      /\ cur \in Addrs /\ cur # None /\ cur \notin todo
      /\ Due' = Due \ {cur}
  <2>1. /\ UNCHANGED << clients, table, mArp >> /\ UNCHANGED << shared, target, todo, owner, orphan >>
        /\ Passing /\ Passing'
    BY DEF Passing, shared, mutexes
  <2>2. target # "all" /\ target \in Comps
    BY OwedToOwner
  <2>3. cur \in Addrs /\ cur # None /\ cur \notin todo
    BY DEF ForwardInv, Locks, Passage
  <2>4. Due' = Due \ {cur}
    BY <2>1, <2>2, <2>3 DEF Due, Ahead
  <2> QED
    BY <2>1, <2>2, <2>3, <2>4
<1>1. CASE table[target] = cur /\ sent' = sent \cup {cur} /\ cur \in Due
  <2>1. Routes!Deliver(cur)
    BY <1>0, <1>1 DEF Routes!Deliver
  <2> QED
    BY <1>0, <2>1 DEF Routes!Next
<1>2. CASE table[target] = cur /\ sent' = sent \cup {cur} /\ cur \notin Due
  <2>1. Due = {}
    BY <1>2, OwedToOwner
  <2>2. sent = {}
    <3>1. \A a \in sent : a = cur
      BY <1>0, <1>2 DEF ForwardInv, Routing
    <3>2. cur \notin sent
      BY <1>0 DEF Passage, Ahead
    <3> QED
      BY <3>1, <3>2
  <2>3. table["system"] # None
    BY DEF Passage
  <2>4. Routes!DeliverLate(cur)
    BY <1>0, <1>2, <2>1, <2>2, <2>3 DEF Routes!DeliverLate
  <2> QED
    BY <1>0, <2>4 DEF Routes!Next
<1>3. CASE sent' = sent /\ cur \notin Due
  BY <1>0, <1>3, PassedOver
<1>4. CASE sent' = sent /\ cur \in Due /\ upPc = "insert"
  <2>1. Due' = {} /\ mArp = "up"
    BY <1>0, <1>4, OwedToOwner DEF ForwardInv, Locks
  <2>2. Routes!Miss
    BY <1>0, <1>4, <2>1 DEF Routes!Miss
  <2> QED
    BY <2>2 DEF Routes!Next
<1>5. table[target] # cur => cur \notin Due
  BY OwedToOwner
<1> QED
  BY <1>1, <1>2, <1>3, <1>4, <1>5

\* What the downstream thread does, Router sees as a message passed on.
LEMMA DownRoutes == ForwardInv /\ Passage /\ DownNext => [Routes!Next]_(Routes!vars)
<1> SUFFICES ASSUME ForwardInv, Passage, DownNext PROVE [Routes!Next]_(Routes!vars)
  OBVIOUS
<1>1. CASE ReadHead \/ ReadTail \/ Inject
  <2>1. /\ UNCHANGED << clients, table, mArp, sent >>
        /\ ~Passing /\ ~Passing'
    BY <1>1 DEF ReadHead, ReadTail, Inject, shared, mutexes, message, Passing
  <2>2. Due = {} /\ Due' = {} /\ Passing' = Passing
    BY <2>1 DEF Due, Passing
  <2> QED
    BY <2>1, <2>2, Unseen
<1>2. CASE Route
  BY <1>2, RouteStarts DEF Routes!Next, ForwardInv, TypeOK
<1>3. CASE SeenSys \/ SeenComp
  BY <1>3, LookUnseen
<1>4. CASE Match
  BY <1>4, MatchDelivers
<1>5. CASE Routed
  <2>1. Due = {} /\ Due' = {} /\ Passing /\ ~Passing'
    BY <1>5 DEF Routed, Due, Ahead, Passing
  <2>2. Routes!Finish
    BY <1>5, <2>1 DEF Routed, shared, Routes!Finish
  <2> QED
    BY <2>2 DEF Routes!Next
<1>6. ASSUME NEW c \in Addrs, Visit(c) PROVE [Routes!Next]_(Routes!vars)
  BY <1>6, VisitDelivers
<1> QED
  BY <1>1, <1>2, <1>3, <1>4, <1>5, <1>6 DEF DownNext

-----------------------------------------------------------------------------
(* Theorems.                                                               *)

\* Every variable of telem_forward has its type in every run.
THEOREM TypeCorrect == Spec => []TypeOK
<1>1. ForwardInv => TypeOK
  BY DEF ForwardInv
<1> QED
  BY <1>1, Invariance, PTL

\* No thread follows a pointer to a client that was deleted.
THEOREM DanglingCorrect == Spec => []NoDangling
<1>1. ForwardInv => NoDangling
  BY DEF ForwardInv, Pointers
<1> QED
  BY <1>1, Invariance, PTL

\* A log block addressed to a component never reaches two clients.
OneReceiver == target \in Comps => \A a, b \in sent : a = b

\* A log block reaches one client at most, whatever the upstream thread does while
\* the list is gone through.
THEOREM ReceiverCorrect == Spec => []OneReceiver
<1>1. ForwardInv => OneReceiver
  BY DEF ForwardInv, Locks, Routing, OneReceiver
<1> QED
  BY <1>1, Invariance, PTL

\* A log block reaches the client of its component.
THEOREM OwnerCorrect == Spec => []RoutedToOwner
<1>1. ForwardInv => RoutedToOwner
  <2> SUFFICES ASSUME ForwardInv, downPc = "next", todo = {}, owner # None, ~orphan, ~raced
               PROVE  sent = {owner}
    BY DEF RoutedToOwner
  <2>1. target \in Comps /\ table[target] = owner /\ owner \in sent
    BY DEF ForwardInv, Routing, Passing
  <2>2. \A a \in sent : a = owner
    BY <2>1 DEF ForwardInv, Routing, Passing
  <2> QED
    BY <2>1, <2>2
<1> QED
  BY <1>1, Invariance, PTL

\* A client that stopped sending is removed in time.
THEOREM FreshCorrect == Spec => []FreshClients
<1>1. ForwardInv => FreshClients
  BY DEF ForwardInv, Ages, FreshClients, TypeOK, MaxAge, Never
<1> QED
  BY <1>1, Invariance, PTL

\* While the RC is locked only a disturbed parser lets an arm command through.
THEOREM ArmCorrect == Spec => []LockedNoArm
<1>1. ForwardInv => LockedNoArm
  BY DEF ForwardInv, Arming
<1> QED
  BY <1>1, Invariance, PTL

\* TelemForward implements Router: a message for all reaches every client of the
\* list; a log block is sent, once, to the first client its component was seen from,
\* or to nobody, and then because the entry of component 0 was lost or the table
\* was read during an insertion.
THEOREM RouterCorrect == Spec => RouterSpec
<1>1. Init => ForwardInv /\ Passage /\ Routes!Init
  <2>1. Init => Routes!Init
    BY DEF Init, Routes!Init, Routes!Entries, Keys, Passing, Due
  <2>2. Init => Passage
    BY DEF Init, Passage, Passing
  <2> QED
    BY <2>1, <2>2, InitInv
<1>2. ForwardInv /\ Passage /\ [Next]_vars =>
          ForwardInv' /\ Passage' /\ [Routes!Next]_(Routes!vars)
  <2>1. ASSUME UNCHANGED vars PROVE UNCHANGED Routes!vars
    BY <2>1, Unseen
       DEF vars, shared, mutexes, downVars, message, Passing, Due, Ahead
  <2> QED
    BY <2>1, StepInv, StepPassage, UpRoutes, DownRoutes DEF Next
<1> QED
  BY <1>1, <1>2, PTL DEF Spec, RouterSpec, Routes!Spec

=============================================================================

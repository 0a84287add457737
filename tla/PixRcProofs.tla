---------------------------- MODULE PixRcProofs ----------------------------
(***************************************************************************)
(* Theorems about PixRc, for any number of packet identities, any          *)
(* timeouts, any number of crashes and any set of lock operations.         *)
(***************************************************************************)
EXTENDS PixRc, TLAPS

USE TimeoutsAssumption, IdsAssumption, LockOpsAssumption

-----------------------------------------------------------------------------
(* Lemmas about the operators.                                             *)

\* An age stays in its range when a tick passes.
LEMMA OlderType ==
    ASSUME NEW cap \in Nat, NEW age \in 0..cap
    PROVE  Older(age, cap) \in 0..cap
BY DEF Older

\* The packets that the program makes are packets.
LEMMA PacketsType ==
    /\ ZeroPkt \in Packets
    /\ \A i \in Ids : ControllerPkt(i) \in Packets
    /\ \A p \in Packets : /\ Failsafe(p) \in Packets
                          /\ [p EXCEPT !.aux = "stray"] \in Packets
                          /\ Frame(p) \in Frames
BY DEF ZeroPkt, ControllerPkt, Failsafe, Frame, Packets, Frames, Throttles, Sticks, Auxes

\* A semaphore is free, held or lost when its holder has died.
LEMMA SemAfterDeathType ==
    ASSUME sem \in {"free", "udp", "ser", "mgr", "lost"}, NEW holders
    PROVE  SemAfterDeath(holders) \in {"free", "udp", "ser", "mgr", "lost"}
BY DEF SemAfterDeath

\* RC is locked or it is not.
LEMMA LockedType == \A files : Locked(files) \in BOOLEAN
BY DEF Locked

\* The threads' initial locals are typed.
LEMMA LocalsType ==
    /\ UdpInit \in [pc : {"recv", "put", "copy", "send"}, pkt : Packets,
                    age : 0..(RcTimeout + 1), timeout : BOOLEAN]
    /\ SerInit \in [pc : {"get", "copy"}, last : Packets, started : BOOLEAN,
                    age : 0..(SmTimeout + 1)]
    /\ [udp |-> 0, ser |-> 0] \in [udp : 0..(Stuck + 1), ser : 0..(Stuck + 1)]
BY PacketsType DEF UdpInit, SerInit

-----------------------------------------------------------------------------
\* The initial states are typed.
LEMMA InitType == PixInit => TypeOK
<1> SUFFICES ASSUME PixInit PROVE TypeOK
  OBVIOUS
<1>1. rcLocked \in BOOLEAN
  BY LockedType, Zenon DEF PixInit
<1>2. lockFiles \subseteq {"tmp", "ro", "unlock"}
  BY DEF PixInit
<1>3. shm \in Packets /\ frame \in Frames \cup {NoFrame}
  BY PacketsType DEF PixInit
<1>4. /\ sem = "free" /\ proc = "up" /\ attached \in BOOLEAN /\ clients \in BOOLEAN
      /\ udp = UdpInit /\ ser = SerInit /\ ran = [udp |-> 0, ser |-> 0]
      /\ due = Threads
  BY DEF PixInit
<1>5. /\ silence \in 0..SilenceCap /\ lockedFor \in 0..2
      /\ crashes \in 0..MaxCrash /\ semErrs \in 0..MaxSemErr
  BY DEF PixInit
<1> QED
  BY <1>1, <1>2, <1>3, <1>4, <1>5, LocalsType DEF TypeOK

\* A packet of the controller, whatever its identity, is published with its type.
LEMMA RecvType ==
    ASSUME TypeOK, NEW i \in Ids, UdpRecv(i)
    PROVE  TypeOK'
<1> DEFINE UdpTypes == [pc : {"recv", "put", "copy", "send"}, pkt : Packets,
                        age : 0..(RcTimeout + 1), timeout : BOOLEAN]
           q == Publish(ControllerPkt(i))
<1>1. ControllerPkt(i) \in Packets
  BY PacketsType
<1>2. q \in UdpTypes
  BY <1>1 DEF TypeOK, Publish
<1>3. udp' = [q EXCEPT !.age = 0, !.timeout = FALSE]
  BY DEF UdpRecv
<1> HIDE DEF q
<1>4. [q EXCEPT !.age = 0] \in UdpTypes
  BY <1>2
<1>5. udp' \in UdpTypes
  BY <1>3, <1>4
<1>6. ran' \in [udp : 0..(Stuck + 1), ser : 0..(Stuck + 1)]
  BY DEF UdpRecv, TypeOK
<1> QED
  BY <1>5, <1>6 DEF TypeOK, UdpRecv

\* What the UDP thread does to a typed state.
LEMMA UdpType == TypeOK /\ UdpStep => TypeOK'
<1> SUFFICES ASSUME TypeOK, UdpStep PROVE TypeOK'
  OBVIOUS
<1> DEFINE UdpTypes == [pc : {"recv", "put", "copy", "send"}, pkt : Packets,
                        age : 0..(RcTimeout + 1), timeout : BOOLEAN]
<1>0. \A p \in Packets : Publish(p) \in UdpTypes
  BY DEF TypeOK, Publish
<1>1. CASE UdpReceives
  BY <1>1, RecvType DEF UdpReceives
<1>2. ASSUME NEW buffer \in Packets, UdpIdle(buffer) PROVE TypeOK'
  <2>1. udp' \in UdpTypes
    <3>1. Publish(Failsafe(buffer)) \in UdpTypes
      BY <1>0, PacketsType
    <3>2. [udp EXCEPT !.pkt = buffer] \in UdpTypes
      BY DEF TypeOK
    <3> QED
      BY <1>2, <3>1, <3>2 DEF UdpIdle
  <2>2. ran' \in [udp : 0..(Stuck + 1), ser : 0..(Stuck + 1)]
    BY <1>2 DEF UdpIdle, TypeOK
  <2>3. due' \subseteq (Threads \cup {"mgr"})
    BY <1>2 DEF UdpIdle, TypeOK
  <2> QED
    BY <1>2, <2>1, <2>2, <2>3 DEF TypeOK, UdpIdle
<1>3. CASE UdpTimeout
  BY <1>2, <1>3 DEF UdpTimeout, TypeOK
<1>4. CASE UdpMisfit
  BY <1>2, <1>4, PacketsType DEF UdpMisfit, TypeOK
<1>5. CASE UdpLock
  BY <1>5 DEF TypeOK, UdpLock
<1>6. CASE UdpCopy
  BY <1>6 DEF TypeOK, UdpCopy
<1>7. CASE UdpPutError
  BY <1>7 DEF TypeOK, UdpPutError
<1>8. CASE UdpSend
  BY <1>8 DEF TypeOK, UdpSend
<1> QED
  BY <1>1, <1>3, <1>4, <1>5, <1>6, <1>7, <1>8 DEF UdpStep

\* What the serial thread does to a typed state.
LEMMA SerType == TypeOK /\ SerStep => TypeOK'
<1> SUFFICES ASSUME TypeOK, SerStep PROVE TypeOK'
  OBVIOUS
<1>1. CASE SerLock
  BY <1>1 DEF TypeOK, SerLock
<1>2. ASSUME NEW got \in Packets, SerLoop(got)
      PROVE  /\ ser' \in [pc : {"get", "copy"}, last : Packets, started : BOOLEAN,
                          age : 0..(SmTimeout + 1)]
             /\ frame' \in Frames \cup {NoFrame}
             /\ ran' \in [udp : 0..(Stuck + 1), ser : 0..(Stuck + 1)]
             /\ due' \subseteq (Threads \cup {"mgr"})
  <2> DEFINE pkt == IF got = ser.last /\ ser.age > SmTimeout THEN Failsafe(got) ELSE got
  <2>2. pkt \in Packets /\ Frame(pkt) \in Frames
    BY PacketsType
  <2>3. frame' \in {Frame(pkt), frame}
    BY <1>2 DEF SerLoop
  <2> HIDE DEF pkt
  <2>4. frame' \in Frames \cup {NoFrame}
    BY <2>2, <2>3 DEF TypeOK
  <2>5. ser' \in [pc : {"get", "copy"}, last : Packets, started : BOOLEAN,
                  age : 0..(SmTimeout + 1)]
    BY <1>2 DEF SerLoop, TypeOK
  <2>6. ran' \in [udp : 0..(Stuck + 1), ser : 0..(Stuck + 1)]
    BY <1>2 DEF SerLoop, TypeOK
  <2>7. due' \subseteq (Threads \cup {"mgr"})
    BY <1>2 DEF SerLoop, TypeOK
  <2> QED
    BY <2>4, <2>5, <2>6, <2>7
<1>3. CASE SerGet
  BY <1>2, <1>3 DEF TypeOK, SerGet
<1>4. CASE SerGetError
  BY <1>2, <1>4 DEF TypeOK, SerGetError
<1> QED
  BY <1>1, <1>3, <1>4 DEF SerStep

\* A tick, whoever must iterate in it.
LEMMA ElapseType ==
    ASSUME TypeOK, NEW others, others \subseteq {"mgr"}, Elapse(others)
    PROVE  TypeOK'
<1>1. silence' \in 0..SilenceCap
  <2>1. Older(silence, SilenceCap) \in 0..SilenceCap
    BY OlderType DEF TypeOK
  <2> QED
    BY <2>1, Zenon DEF Elapse
<1>2. lockedFor' \in 0..2
  <2>1. lockedFor \in 0..2
    BY DEF TypeOK
  <2>2. Older(lockedFor, 2) \in 0..2
    BY <2>1, OlderType, 2 \in Nat
  <2>3. 0 \in 0..2
    OBVIOUS
  <2> QED
    BY <2>2, <2>3, Zenon DEF Elapse
<1>3. CASE proc = "up"
  <2>1. udp' \in [pc : {"recv", "put", "copy", "send"}, pkt : Packets,
                  age : 0..(RcTimeout + 1), timeout : BOOLEAN]
    BY <1>3, OlderType, RcTimeout + 1 \in Nat DEF Elapse, TypeOK
  <2>2. ser' \in [pc : {"get", "copy"}, last : Packets, started : BOOLEAN,
                  age : 0..(SmTimeout + 1)]
    BY <1>3, OlderType, SmTimeout + 1 \in Nat DEF Elapse, TypeOK
  <2>3. ran' \in [udp : 0..(Stuck + 1), ser : 0..(Stuck + 1)]
    BY <1>3, OlderType, Stuck + 1 \in Nat DEF Elapse, TypeOK
  <2> QED
    BY <1>1, <1>2, <2>1, <2>2, <2>3 DEF Elapse, TypeOK
<1>4. CASE proc # "up"
  BY <1>1, <1>2, <1>4 DEF Elapse, TypeOK
<1> QED
  BY <1>3, <1>4

\* What main, other processes and time do to a typed state.
LEMMA OtherType ==
    TypeOK /\ (MonStep \/ Crash \/ Restart \/ PixTick \/ \E op \in LockOps : LockFile(op))
        => TypeOK'
<1> SUFFICES ASSUME TypeOK,
                    MonStep \/ Crash \/ Restart \/ PixTick \/ \E op \in LockOps : LockFile(op)
             PROVE  TypeOK'
  OBVIOUS
<1>1. ASSUME Die
      PROVE  /\ proc' = "down" /\ attached' \in BOOLEAN /\ clients' \in BOOLEAN
             /\ sem' \in {"free", "udp", "ser", "mgr", "lost"}
             /\ udp' = UdpInit /\ ser' = SerInit
             /\ ran' = [udp |-> 0, ser |-> 0]
  BY <1>1, SemAfterDeathType DEF Die, TypeOK
<1>3. CASE MonitorOk
  <2>1. rcLocked' \in BOOLEAN
    BY <1>3, LockedType, Zenon DEF MonitorOk
  <2> QED
    BY <1>3, <2>1 DEF TypeOK, MonitorOk
<1>4. CASE MonitorExit
  BY <1>1, <1>4, LocalsType DEF TypeOK, MonitorExit
<1>5. CASE Crash
  BY <1>1, <1>5, LocalsType DEF TypeOK, Crash
<1>6. CASE Restart
  <2>1. rcLocked' \in BOOLEAN
    BY <1>6, LockedType, Zenon DEF Restart
  <2> QED
    BY <1>6, <2>1 DEF TypeOK, Restart
<1>7. CASE \E op \in LockOps : LockFile(op)
  BY <1>7 DEF TypeOK, LockFile
<1>8. CASE PixTick
  BY <1>8, ElapseType DEF PixTick
<1> QED
  BY <1>3, <1>4, <1>5, <1>6, <1>7, <1>8 DEF MonStep

\* Every reachable state is typed: ages stay within their timeouts, bounded
\* counters within their bounds, whatever threads, crashes and restarts do.
THEOREM TypeCorrect == PixSpec => []TypeOK
<1>1. TypeOK /\ [PixNext]_pixVars => TypeOK'
  <2> SUFFICES ASSUME TypeOK, [PixNext]_pixVars PROVE TypeOK'
    OBVIOUS
  <2>1. CASE PixNext
    BY <2>1, UdpType, SerType, OtherType DEF PixNext
  <2>2. CASE UNCHANGED pixVars
    BY <2>2 DEF TypeOK, pixVars
  <2> QED
    BY <2>1, <2>2
<1> QED
  BY <1>1, InitType, PTL DEF PixSpec

-----------------------------------------------------------------------------
(* The semaphore.                                                          *)

\* Initially nobody holds the semaphore.
LEMMA InitHeld == PixInit => SemaphoreHeld
BY DEF PixInit, SemaphoreHeld, UdpInit, SerInit

\* One step of any thread, or of another process, keeps the semaphore and the
\* threads' positions together.
LEMMA StepHeld == TypeOK /\ SemaphoreHeld /\ PixNext => SemaphoreHeld'
<1> SUFFICES ASSUME TypeOK, SemaphoreHeld, PixNext PROVE SemaphoreHeld'
  OBVIOUS
<1> USE DEF SemaphoreHeld
<1>0. /\ udp \in [pc : {"recv", "put", "copy", "send"}, pkt : Packets,
                  age : 0..(RcTimeout + 1), timeout : BOOLEAN]
      /\ ser \in [pc : {"get", "copy"}, last : Packets, started : BOOLEAN,
                  age : 0..(SmTimeout + 1)]
  BY DEF TypeOK
<1>1. CASE UdpReceives
  BY <1>0, <1>1 DEF UdpReceives, UdpRecv, Publish
<1>2. CASE UdpTimeout \/ UdpMisfit
  BY <1>0, <1>2 DEF UdpTimeout, UdpMisfit, UdpIdle, Publish
<1>3. CASE UdpLock
  BY <1>0, <1>3 DEF UdpLock
<1>4. CASE UdpCopy
  BY <1>0, <1>4 DEF UdpCopy
<1>5. CASE UdpPutError \/ UdpSend
  BY <1>0, <1>5 DEF UdpPutError, UdpSend
<1>6. CASE SerLock
  BY <1>0, <1>6 DEF SerLock
<1>7. CASE SerGet \/ SerGetError
  <2>1. ASSUME NEW got, SerLoop(got) PROVE ser'.pc = "get"
    BY <2>1 DEF SerLoop
  <2>2. ser'.pc = "get"
    BY <1>7, <2>1 DEF SerGet, SerGetError
  <2> QED
    BY <1>0, <1>7, <2>2 DEF SerGet, SerGetError
<1>8. CASE MonitorExit \/ Crash
  <2>1. udp' = UdpInit /\ ser' = SerInit /\ sem' = SemAfterDeath({"udp", "ser"})
    BY <1>8 DEF MonitorExit, Crash, Die
  <2> QED
    BY <2>1 DEF UdpInit, SerInit, SemAfterDeath
<1>9. CASE MonitorOk \/ Restart \/ \E op \in LockOps : LockFile(op)
  BY <1>9 DEF MonitorOk, Restart, LockFile
<1>10. CASE PixTick
  <2>1. sem' = sem /\ udp'.pc = udp.pc /\ ser'.pc = ser.pc
    BY <1>0, <1>10 DEF PixTick, Elapse
  <2> QED
    BY <2>1
<1> QED
  BY <1>1, <1>2, <1>3, <1>4, <1>5, <1>6, <1>7, <1>8, <1>9, <1>10
     DEF PixNext, UdpStep, SerStep, MonStep

\* No two threads of pixrc copy the shared packet at once, and the semaphore of
\* a holder that died is never taken for a held one, in every run of pixrc.
THEOREM SemaphoreCorrect == PixSpec => []SemaphoreHeld
<1>1. TypeOK /\ SemaphoreHeld /\ [PixNext]_pixVars => SemaphoreHeld'
  <2>1. UNCHANGED pixVars /\ SemaphoreHeld => SemaphoreHeld'
    BY DEF SemaphoreHeld, pixVars
  <2> QED
    BY <2>1, StepHeld
<1> QED
  BY <1>1, InitHeld, TypeCorrect, PTL DEF PixSpec

-----------------------------------------------------------------------------
(* The lock-out of RC.                                                     *)

\* Why a lock-out stops the frames: the monitor, which every tick waits for,
\* has read the lock files since they locked RC.
LockInv ==
    /\ lockedFor > 0 => Locked(lockFiles)
    /\ proc = "up" /\ lockedFor > 0 /\ "mon" \notin due => rcLocked
    /\ proc = "up" /\ lockedFor > 1 => rcLocked
    /\ LockStopsFrames

\* Initially RC has not been locked for any tick.
LEMMA InitLock == PixInit => LockInv
BY DEF PixInit, LockInv, LockStopsFrames

\* A tick, with more threads that have to iterate or without.
LEMMA ElapseLock ==
    ASSUME TypeOK, LockInv, Settled, NEW others, Elapse(others)
    PROVE  LockInv'
<1> USE DEF LockInv, LockStopsFrames
<1>0. lockedFor \in 0..2
  BY DEF TypeOK
<1>1. /\ proc' = proc /\ lockFiles' = lockFiles /\ rcLocked' = rcLocked
      /\ due' = Threads \cup others
      /\ frame' = NoFrame
      /\ lockedFor' = IF Locked(lockFiles) THEN Older(lockedFor, 2) ELSE 0
  BY DEF Elapse
<1>2. proc = "down" \/ "mon" \notin due
  BY DEF Settled
<1>3. "mon" \in due'
  BY <1>1 DEF Threads
<1>4. lockedFor' > 0 => Locked(lockFiles')
  BY <1>1
<1>5. lockedFor' > 1 => lockedFor > 0
  BY <1>0, <1>1 DEF Older
<1>6. proc' = "up" /\ lockedFor' > 1 => rcLocked'
  BY <1>1, <1>2, <1>5
<1> QED
  BY <1>1, <1>3, <1>4, <1>6

\* One step of any thread, or of another process, preserves LockInv.
LEMMA StepLock == TypeOK /\ LockInv /\ PixNext => LockInv'
<1> SUFFICES ASSUME TypeOK, LockInv, PixNext PROVE LockInv'
  OBVIOUS
<1> USE DEF LockInv, LockStopsFrames
<1>0. lockedFor \in 0..2
  BY DEF TypeOK
<1>1. CASE UdpStep
  <2>1. /\ UNCHANGED << lockedFor, lockFiles, rcLocked, frame, proc >>
        /\ "mon" \in due => "mon" \in due'
    BY <1>1 DEF UdpStep, UdpReceives, UdpRecv, UdpTimeout, UdpMisfit, UdpIdle,
                UdpLock, UdpCopy, UdpPutError, UdpSend
  <2> QED
    BY <2>1 DEF Locked
<1>2. CASE SerLock
  BY <1>2 DEF SerLock, Locked
<1>3. CASE SerGet \/ SerGetError
  <2>1. ASSUME NEW got, SerLoop(got)
        PROVE  /\ rcLocked => frame' = frame
               /\ "mon" \in due => "mon" \in due'
    BY <2>1 DEF SerLoop
  <2>2. /\ UNCHANGED << lockedFor, lockFiles, rcLocked, proc >>
        /\ proc = "up"
        /\ rcLocked => frame' = frame
        /\ "mon" \in due => "mon" \in due'
    BY <1>3, <2>1 DEF SerGet, SerGetError
  <2> QED
    BY <2>2 DEF Locked
<1>4. CASE MonitorOk
  <2>1. rcLocked' <=> Locked(lockFiles)
    BY <1>4, Zenon DEF MonitorOk
  <2>2. UNCHANGED << lockedFor, lockFiles, frame, proc >>
    BY <1>4 DEF MonitorOk
  <2>3. lockedFor' > 0 => Locked(lockFiles') /\ rcLocked'
    BY <2>1, <2>2, Zenon
  <2>4. lockedFor' > 1 => lockedFor' > 0
    BY <1>0, <2>2
  <2> QED
    BY <2>2, <2>3, <2>4, Zenon
<1>5. CASE MonitorExit \/ Crash
  <2>1. UNCHANGED << lockedFor, lockFiles, frame >> /\ proc' = "down"
    BY <1>5 DEF MonitorExit, Crash, Die
  <2> QED
    BY <2>1 DEF Locked
<1>6. CASE Restart
  <2>1. rcLocked' <=> Locked(lockFiles)
    BY <1>6, Zenon DEF Restart
  <2>2. UNCHANGED << lockedFor, lockFiles >> /\ frame' = NoFrame
    BY <1>6 DEF Restart
  <2>3. lockedFor' > 0 => Locked(lockFiles') /\ rcLocked'
    BY <2>1, <2>2, Zenon
  <2>4. lockedFor' > 1 => lockedFor' > 0
    BY <1>0, <2>2
  <2> QED
    BY <2>2, <2>3, <2>4, Zenon
<1>7. CASE \E op \in LockOps : LockFile(op)
  <2>1. /\ UNCHANGED << rcLocked, frame, due, proc >>
        /\ lockedFor' = IF Locked(lockFiles') THEN lockedFor ELSE 0
    BY <1>7 DEF LockFile
  <2>2. CASE Locked(lockFiles')
    <3>1. lockedFor' = lockedFor
      BY <2>1, <2>2
    <3> QED
      BY <2>1, <2>2, <3>1
  <2>3. CASE ~Locked(lockFiles')
    <3>1. lockedFor' = 0
      BY <2>1, <2>3
    <3> QED
      BY <3>1
  <2> QED
    BY <2>2, <2>3
<1>8. CASE PixTick
  BY <1>8, ElapseLock DEF PixTick
<1> QED
  BY <1>1, <1>2, <1>3, <1>4, <1>5, <1>6, <1>7, <1>8 DEF PixNext, SerStep, MonStep

\* A lock-out of RC set by another process stops the frames within two ticks,
\* whatever crashes, restarts and changes of the lock files happen meanwhile.
THEOREM LockCorrect == PixSpec => []LockStopsFrames
<1>1. TypeOK /\ LockInv /\ [PixNext]_pixVars => LockInv'
  <2>1. UNCHANGED pixVars /\ LockInv => LockInv'
    BY DEF LockInv, LockStopsFrames, pixVars, Locked
  <2> QED
    BY <2>1, StepLock
<1>2. LockInv => LockStopsFrames
  BY DEF LockInv
<1> QED
  BY <1>1, <1>2, InitLock, TypeCorrect, PTL DEF PixSpec

-----------------------------------------------------------------------------
(* The failsafe.                                                           *)

\* A packet, or what is known of one, that does not command the failsafe.
Commands(p) == ~DsmFailsafe(p)

\* Was the failsafe packet of this silence not written to shared memory?
Dropped == IF udp.timeout /\ udp.pc \in {"recv", "send"} /\ Commands(shm) THEN 1 ELSE 0

\* May the serial thread still iterate for the first time in this tick?
Late == IF "ser" \in due THEN 1 ELSE 0

\* What the UDP thread knows of the silence, and does about it in time.
Announced ==
    /\ silence <= udp.age \/ udp.age = RcTimeout + 1
    /\ ~udp.timeout => silence <= RcTimeout + 1
    /\ ~udp.timeout /\ udp.pc = "recv" /\ "udp" \notin due => udp.age <= RcTimeout
    /\ ~udp.timeout /\ udp.pc # "recv" => silence = 0 /\ udp.age = 0
    /\ udp.timeout /\ udp.pc \in {"put", "copy"}
        => silence <= RcTimeout + 1 /\ ~Commands(udp.pkt)
    /\ Dropped <= semErrs

\* How much of the silence can pass before the serial thread has read a packet that
\* commands, before it holds it to be stale, and before it has read the failsafe
\* packet: each tick more is a failed call of sem_wait.
Noticed ==
    /\ Commands(shm) /\ shm # ser.last => silence + Dropped <= semErrs + Late
    /\ Commands(ser.last) /\ ser.age <= SmTimeout
        => silence + Dropped <= ser.age + semErrs + 1
    /\ Commands(ser.last) /\ ~Commands(shm) /\ ser.age <= SmTimeout
        => 2 * silence <= ser.age + RcTimeout + 2 + semErrs + Late

\* A process that cannot use the semaphore has never got a packet and writes nothing.
FailsafeInv ==
    /\ attached
    /\ proc = "down" => udp = UdpInit /\ ser = SerInit
    /\ proc = "up" /\ sem = "lost" => ~ser.started /\ frame = NoFrame
    /\ proc = "up" /\ sem # "lost" => Announced /\ Noticed
    /\ FailsafeBounded

\* The bound is no less than each of the delays that may add up.
LEMMA BoundFacts ==
    /\ FailsafeBound \in Nat
    /\ FailsafeBound >= RcTimeout + 1 /\ FailsafeBound >= SmTimeout + 1
    /\ MaxSemErr > 0 => FailsafeBound >= SmTimeout + MaxSemErr
    /\ MaxSemErr > 0 => \A s \in Nat :
        2 * s <= SmTimeout + RcTimeout + 2 + MaxSemErr => s <= FailsafeBound
BY DEF FailsafeBound

\* The failsafe packet is one, and keeps being one in a DSM frame.
LEMMA FailsafeFacts ==
    ASSUME NEW p \in Packets
    PROVE  /\ ~Commands(Failsafe(p))
           /\ DsmFailsafe(Frame(p)) <=> ~Commands(p)
BY DEF Commands, DsmFailsafe, Failsafe, Frame, Packets

\* Neither memory that nobody has written nor a process that starts commands.
LEMMA ZeroFacts ==
    /\ ~Commands(ZeroPkt)
    /\ UdpInit.pc = "recv" /\ UdpInit.age = 0 /\ ~UdpInit.timeout
    /\ SerInit.pc = "get" /\ ~SerInit.started /\ SerInit.last = ZeroPkt
    /\ SerInit.age = SmTimeout + 1
BY DEF Commands, DsmFailsafe, ZeroPkt, UdpInit, SerInit

\* The types of what the invariant speaks of.
LEMMA FailsafeTypes ==
    ASSUME TypeOK
    PROVE  /\ silence \in Nat /\ semErrs \in Nat /\ semErrs <= MaxSemErr
           /\ udp.age \in 0..(RcTimeout + 1) /\ udp.timeout \in BOOLEAN
           /\ udp.pc \in {"recv", "put", "copy", "send"} /\ udp.pkt \in Packets
           /\ ser.age \in 0..(SmTimeout + 1) /\ ser.started \in BOOLEAN
           /\ ser.pc \in {"get", "copy"} /\ ser.last \in Packets /\ shm \in Packets
           /\ Dropped \in {0, 1} /\ Late \in {0, 1}
           /\ DOMAIN udp = {"pc", "pkt", "age", "timeout"}
           /\ DOMAIN ser = {"pc", "last", "started", "age"}
BY DEF TypeOK, Dropped, Late

\* A frame that is kept keeps the bound.
LEMMA FrameKept ==
    FailsafeBounded /\ frame' = frame /\ silence' \in {silence, 0} => FailsafeBounded'
BY BoundFacts DEF FailsafeBounded, DsmFailsafe, FailsafeBound

\* Initially nothing has been written.
LEMMA InitFailsafe == PixInit => FailsafeInv
<1> SUFFICES ASSUME PixInit PROVE FailsafeInv
  OBVIOUS
<1>1. /\ attached /\ proc = "up" /\ sem = "free" /\ frame = NoFrame
      /\ shm = ZeroPkt /\ udp = UdpInit /\ ser = SerInit /\ silence = 0 /\ semErrs = 0
      /\ "udp" \in due
  BY DEF PixInit, Threads
<1>2. ~Commands(shm) /\ ~Commands(ser.last)
  BY <1>1, ZeroFacts
<1>3. Dropped = 0
  BY <1>2 DEF Dropped
<1>4. Announced /\ Noticed
  BY <1>1, <1>2, <1>3, ZeroFacts DEF Announced, Noticed
<1> QED
  BY <1>1, <1>4 DEF FailsafeInv, FailsafeBounded

\* The UDP thread: a packet of the controller ends the silence; the failsafe packet
\* is published in the tick in which the silence exceeds the timeout.
LEMMA UdpFailsafe == TypeOK /\ SemaphoreHeld /\ FailsafeInv /\ UdpStep => FailsafeInv'
<1> SUFFICES ASSUME TypeOK, SemaphoreHeld, FailsafeInv, UdpStep PROVE FailsafeInv'
  OBVIOUS
<1>1. /\ proc = "up" /\ proc' = "up" /\ attached' = attached /\ ser' = ser
      /\ frame' = frame /\ silence' \in {silence, 0} /\ Late' = Late
      /\ sem' = "lost" <=> sem = "lost"
  BY DEF UdpStep, UdpReceives, UdpRecv, UdpTimeout, UdpMisfit, UdpIdle, UdpLock, UdpCopy,
         UdpPutError, UdpSend, Late, SemaphoreHeld
<1>2. FailsafeBounded'
  BY <1>1, FrameKept DEF FailsafeInv
<1> SUFFICES ASSUME sem # "lost" PROVE Announced' /\ Noticed'
  BY <1>1, <1>2 DEF FailsafeInv
<1>3. attached /\ Announced /\ Noticed
  BY <1>1 DEF FailsafeInv
<1> USE FailsafeTypes
<1>4. CASE UdpReceives
  <2>1. /\ udp'.pc = "put" /\ udp'.age = 0 /\ udp'.timeout = FALSE
        /\ silence' = 0 /\ shm' = shm /\ semErrs' = semErrs
    BY <1>3, <1>4 DEF UdpReceives, UdpRecv, Publish
  <2>2. Dropped' = 0
    BY <2>1 DEF Dropped
  <2> QED
    BY <1>1, <2>1, <2>2 DEF Announced, Noticed
<1>5. ASSUME NEW buffer \in Packets, UdpIdle(buffer) PROVE Announced' /\ Noticed'
  <2>1. /\ udp.pc = "recv" /\ UNCHANGED << silence, shm, semErrs >>
        /\ udp'.age = udp.age
    BY <1>3, <1>5 DEF UdpIdle, Publish
  <2>2. CASE ~udp.timeout /\ udp.age > RcTimeout
    <3>1. /\ udp'.pc = "put" /\ udp'.timeout = TRUE /\ udp'.pkt = Failsafe(buffer)
      BY <1>3, <1>5, <2>2 DEF UdpIdle, Publish
    <3>2. Dropped = 0 /\ Dropped' = 0
      BY <2>1, <2>2, <3>1 DEF Dropped
    <3>3. ~Commands(udp.pkt)'
      BY <3>1, FailsafeFacts DEF Commands, DsmFailsafe
    <3>4. Announced'
      BY <1>3, <2>1, <2>2, <3>1, <3>2, <3>3 DEF Announced
    <3>5. Noticed'
      BY <1>1, <1>3, <2>1, <3>2 DEF Noticed, Commands, DsmFailsafe
    <3> QED
      BY <3>4, <3>5
  <2>3. CASE ~(~udp.timeout /\ udp.age > RcTimeout)
    <3>1. udp'.pc = "recv" /\ udp'.timeout = udp.timeout
      BY <1>5, <2>1, <2>3 DEF UdpIdle
    <3>2. Dropped' = Dropped
      BY <2>1, <3>1 DEF Dropped, Commands, DsmFailsafe
    <3>3. Announced'
      BY <1>3, <2>1, <2>3, <3>1, <3>2 DEF Announced
    <3>4. Noticed'
      BY <1>1, <1>3, <2>1, <3>2 DEF Noticed, Commands, DsmFailsafe
    <3> QED
      BY <3>3, <3>4
  <2> QED
    BY <2>2, <2>3
<1>6. CASE UdpTimeout
  BY <1>5, <1>6 DEF UdpTimeout
<1>7. CASE UdpMisfit
  BY <1>5, <1>7, PacketsType DEF UdpMisfit
<1>8. CASE UdpLock
  <2>1. /\ udp.pc = "put" /\ udp'.pc = "copy" /\ udp'.pkt = udp.pkt
        /\ udp'.age = udp.age /\ udp'.timeout = udp.timeout
        /\ UNCHANGED << silence, shm, semErrs, due >>
    BY <1>8 DEF UdpLock
  <2>2. Dropped = 0 /\ Dropped' = 0
    BY <2>1 DEF Dropped
  <2> QED
    BY <1>1, <1>3, <2>1, <2>2 DEF Announced, Noticed, Commands, DsmFailsafe
<1>9. CASE UdpCopy
  <2>1. /\ udp.pc = "copy" /\ udp'.pc = "send" /\ udp'.pkt = udp.pkt
        /\ udp'.age = udp.age /\ udp'.timeout = udp.timeout /\ shm' = udp.pkt
        /\ UNCHANGED << silence, semErrs, due >>
    BY <1>9 DEF UdpCopy
  <2>2. Commands(shm)' <=> Commands(udp.pkt)
    BY <2>1 DEF Commands, DsmFailsafe
  <2>3. Dropped = 0 /\ Dropped' = 0
    BY <1>3, <2>1, <2>2 DEF Dropped, Announced
  <2>4. Announced'
    BY <1>3, <2>1, <2>3 DEF Announced
  <2>5. Commands(ser.last)' <=> Commands(ser.last)
    BY <1>1 DEF Commands, DsmFailsafe
  <2>6. CASE udp.timeout
    <3>1. silence <= RcTimeout + 1 /\ ~Commands(shm)'
      BY <1>3, <2>1, <2>2, <2>6 DEF Announced
    <3> QED
      BY <1>1, <1>3, <2>1, <2>3, <2>4, <2>5, <3>1 DEF Noticed
  <2>7. CASE ~udp.timeout
    <3>1. silence = 0
      BY <1>3, <2>1, <2>7 DEF Announced
    <3> QED
      BY <1>1, <2>1, <2>3, <2>4, <3>1 DEF Noticed
  <2> QED
    BY <2>6, <2>7
<1>10. CASE UdpPutError
  <2>1. /\ udp.pc = "put" /\ udp'.pc = "send" /\ udp'.pkt = udp.pkt
        /\ udp'.age = udp.age /\ udp'.timeout = udp.timeout /\ semErrs' = semErrs + 1
        /\ UNCHANGED << silence, shm, due >>
    BY <1>10 DEF UdpPutError
  <2>2. Dropped = 0 /\ Dropped' \in {0, 1}
    BY <2>1 DEF Dropped
  <2> QED
    BY <1>1, <1>3, <2>1, <2>2 DEF Announced, Noticed, Commands, DsmFailsafe
<1>11. CASE UdpSend
  <2>1. /\ udp.pc = "send" /\ udp'.pc = "recv" /\ udp'.pkt = udp.pkt
        /\ udp'.age = udp.age /\ udp'.timeout = udp.timeout
        /\ UNCHANGED << silence, shm, semErrs >>
    BY <1>11 DEF UdpSend
  <2>2. Dropped' = Dropped
    BY <2>1 DEF Dropped, Commands, DsmFailsafe
  <2> QED
    BY <1>1, <1>3, <2>1, <2>2 DEF Announced, Noticed, Commands, DsmFailsafe
<1> QED
  BY <1>4, <1>6, <1>7, <1>8, <1>9, <1>10, <1>11 DEF UdpStep

\* What an iteration of the serial thread does: a frame it writes commands only if the
\* packet it got does, and is new or not held to be stale.
LEMMA IterationFacts ==
    ASSUME TypeOK, NEW got \in Packets, SerLoop(got)
    PROVE  /\ ser'.last = got /\ ser'.started = (ser.started \/ got # ser.last)
           /\ ser'.age = IF got # ser.last THEN 0 ELSE ser.age
           /\ Commands(ser.last)' <=> Commands(got)
           /\ frame' # frame => ser'.started
           /\ frame' = frame \/ DsmFailsafe(frame')
              \/ (Commands(got) /\ (got # ser.last \/ ser.age <= SmTimeout))
           /\ Late' = 0 /\ due' = due \ {"ser"}
<1> USE FailsafeTypes
<1> DEFINE pkt == IF got = ser.last /\ ser.age > SmTimeout THEN Failsafe(got) ELSE got
<1>1. pkt \in Packets
  BY PacketsType
<1>2. /\ ser' = [pc      |-> "get",
                 last    |-> got,
                 started |-> ser.started \/ got # ser.last,
                 age     |-> IF got # ser.last THEN 0 ELSE ser.age]
      /\ frame' = IF ser'.started /\ ~rcLocked THEN Frame(pkt) ELSE frame
      /\ due' = due \ {"ser"}
  BY DEF SerLoop
<1>3. DsmFailsafe(Frame(pkt)) <=> ~Commands(pkt)
  BY <1>1, FailsafeFacts
<1>4. Commands(pkt) => Commands(got) /\ (got # ser.last \/ ser.age <= SmTimeout)
  BY FailsafeFacts
<1>5. frame' = frame \/ (ser'.started /\ frame' = Frame(pkt))
  BY <1>2
<1> HIDE DEF pkt
<1>6. frame' = frame \/ DsmFailsafe(frame') \/ Commands(pkt)
  BY <1>3, <1>5, Zenon
<1> QED
  BY <1>2, <1>4, <1>5, <1>6 DEF Late, Commands, DsmFailsafe

\* The serial thread writes a frame that commands only while the bound allows it: the
\* packet is one it has just read or one it does not hold to be stale.
LEMMA SerFailsafe == TypeOK /\ SemaphoreHeld /\ FailsafeInv /\ SerStep => FailsafeInv'
<1> SUFFICES ASSUME TypeOK, SemaphoreHeld, FailsafeInv, SerStep PROVE FailsafeInv'
  OBVIOUS
<1> USE FailsafeTypes
<1>1. /\ proc = "up" /\ proc' = "up"
      /\ UNCHANGED << attached, udp, shm, silence >>
      /\ sem' = "lost" <=> sem = "lost"
  BY DEF SerStep, SerLock, SerGet, SerGetError, SemaphoreHeld
<1>2. /\ Dropped' = Dropped
      /\ Commands(shm)' <=> Commands(shm)
      /\ Commands(udp.pkt)' <=> Commands(udp.pkt)
  BY <1>1 DEF Dropped, Commands, DsmFailsafe
<1>3. CASE SerLock
  <2>1. /\ ser'.last = ser.last /\ ser'.age = ser.age
        /\ UNCHANGED << frame, due, semErrs >> /\ sem # "lost"
    BY <1>3 DEF SerLock
  <2>2. Announced /\ Noticed /\ FailsafeBounded'
    BY <1>1, <2>1, FrameKept DEF FailsafeInv
  <2>3. Late' = Late /\ (Commands(ser.last)' <=> Commands(ser.last))
    BY <2>1 DEF Late, Commands, DsmFailsafe
  <2>4. Announced' /\ Noticed'
    BY <1>1, <1>2, <2>1, <2>2, <2>3 DEF Announced, Noticed
  <2> QED
    BY <1>1, <2>1, <2>2, <2>4 DEF FailsafeInv
<1>4. ASSUME NEW got \in Packets, SerLoop(got), sem # "lost",
             Announced, Noticed', Announced',
             Commands(got) /\ (got # ser.last \/ ser.age <= SmTimeout)
                => silence <= FailsafeBound
      PROVE  FailsafeInv'
  <2>1. FailsafeBounded'
    <3>1. CASE frame' = frame
      BY <1>1, <3>1, FrameKept DEF FailsafeInv
    <3>2. CASE DsmFailsafe(frame')
      BY <3>2 DEF FailsafeBounded, DsmFailsafe
    <3>3. CASE Commands(got) /\ (got # ser.last \/ ser.age <= SmTimeout)
      <4>1. FailsafeBound' = FailsafeBound
        BY DEF FailsafeBound
      <4> QED
        BY <1>1, <1>4, <3>3, <4>1, BoundFacts DEF FailsafeBounded
    <3> QED
      BY <1>4, IterationFacts, <3>1, <3>2, <3>3
  <2> QED
    BY <1>1, <1>4, <2>1 DEF FailsafeInv
<1>5. CASE SerGet
  <2>1. SerLoop(shm) /\ sem # "lost" /\ semErrs' = semErrs
    BY <1>5 DEF SerGet, SemaphoreHeld
  <2>2. Announced /\ Noticed
    BY <1>1, <2>1 DEF FailsafeInv
  <2>3. /\ ser'.last = shm /\ ser'.age = IF shm # ser.last THEN 0 ELSE ser.age
        /\ Commands(ser.last)' <=> Commands(shm)
        /\ Late' = 0 /\ due' = due \ {"ser"}
    BY <2>1, IterationFacts
  <2>4. Announced'
    BY <1>1, <1>2, <2>1, <2>2, <2>3 DEF Announced
  <2>5. Noticed'
    BY <1>1, <1>2, <2>1, <2>2, <2>3 DEF Noticed
  <2>6. ASSUME Commands(shm), shm # ser.last \/ ser.age <= SmTimeout
        PROVE  silence <= FailsafeBound
    <3>1. CASE silence <= RcTimeout + 1
      BY <3>1, BoundFacts
    <3>2. CASE silence > RcTimeout + 1
      <4>1. Dropped = 1
        BY <2>2, <2>6, <3>2 DEF Announced, Dropped
      <4>2. silence + 1 <= semErrs + 1 \/ silence + 1 <= SmTimeout + semErrs + 1
        BY <2>2, <2>6, <4>1 DEF Noticed
      <4> QED
        BY <2>2, <4>1, <4>2, BoundFacts DEF Announced
    <3> QED
      BY <3>1, <3>2
  <2> QED
    BY <1>4, <2>1, <2>2, <2>4, <2>5, <2>6
<1>6. CASE SerGetError
  <2>1. SerLoop(ser.last) /\ sem' = sem /\ semErrs' = semErrs + 1 /\ semErrs < MaxSemErr
    BY <1>6 DEF SerGetError
  <2>2. /\ ser'.last = ser.last /\ ser'.age = ser.age /\ ser'.started = ser.started
        /\ Commands(ser.last)' <=> Commands(ser.last)
        /\ Late' = 0 /\ due' = due \ {"ser"}
        /\ frame' # frame => ser'.started
    BY <2>1, IterationFacts
  <2>3. CASE sem = "lost"
    <3>1. ~ser'.started /\ frame' = frame /\ frame = NoFrame
      BY <1>1, <2>2, <2>3 DEF FailsafeInv
    <3>2. FailsafeBounded'
      BY <1>1, <3>1, FrameKept DEF FailsafeInv
    <3> QED
      BY <1>1, <2>1, <2>3, <3>1, <3>2 DEF FailsafeInv
  <2>4. CASE sem # "lost"
    <3>1. Announced /\ Noticed
      BY <1>1, <2>4 DEF FailsafeInv
    <3>2. Announced'
      BY <1>1, <1>2, <2>1, <2>2, <3>1 DEF Announced
    <3>3. Noticed'
      BY <1>1, <1>2, <2>1, <2>2, <3>1 DEF Noticed
    <3>4. ASSUME Commands(ser.last), ser.age <= SmTimeout
          PROVE  silence <= FailsafeBound
      <4>1. CASE Commands(shm)
        <5>1. CASE silence <= RcTimeout + 1
          BY <5>1, BoundFacts
        <5>2. CASE silence > RcTimeout + 1
          <6>1. Dropped = 1
            BY <3>1, <4>1, <5>2 DEF Announced, Dropped
          <6> QED
            BY <2>1, <3>1, <3>4, <6>1, BoundFacts DEF Noticed
        <5> QED
          BY <5>1, <5>2
      <4>2. CASE ~Commands(shm)
        <5>1. 2 * silence <= SmTimeout + RcTimeout + 2 + MaxSemErr
          BY <2>1, <3>1, <3>4, <4>2 DEF Noticed
        <5> QED
          BY <2>1, <5>1, BoundFacts
      <4> QED
        BY <4>1, <4>2
    <3> QED
      BY <1>4, <2>1, <2>4, <3>1, <3>2, <3>3, <3>4
  <2> QED
    BY <2>3, <2>4
<1> QED
  BY <1>3, <1>5, <1>6 DEF SerStep

\* A tick makes the silence, and the ages of both threads, one older: the UDP thread
\* has looked at the silence in the tick that ends, and the serial thread at the packet.
LEMMA TickFailsafe == TypeOK /\ FailsafeInv /\ PixTick => FailsafeInv'
<1> SUFFICES ASSUME TypeOK, FailsafeInv, PixTick PROVE FailsafeInv'
  OBVIOUS
<1> USE FailsafeTypes
<1>1. /\ UNCHANGED << shm, sem, proc, attached, semErrs >>
      /\ frame' = NoFrame /\ due' = Threads /\ silence' = Older(silence, SilenceCap)
  BY DEF PixTick, Elapse
<1>2. FailsafeBounded'
  BY <1>1 DEF FailsafeBounded
<1>3. silence' \in Nat /\ silence' <= silence + 1
  BY <1>1 DEF Older, TypeOK
<1>4. CASE proc = "down"
  <2>1. UNCHANGED << udp, ser >>
    BY <1>4 DEF PixTick, Elapse
  <2> QED
    BY <1>1, <1>2, <1>4, <2>1 DEF FailsafeInv, UdpInit, SerInit
<1>5. CASE proc = "up"
  <2>1. /\ udp'.pc = udp.pc /\ udp'.pkt = udp.pkt /\ udp'.timeout = udp.timeout
        /\ udp'.age = Older(udp.age, RcTimeout + 1)
        /\ ser'.last = ser.last /\ ser'.started = ser.started
        /\ ser'.age = Older(ser.age, SmTimeout + 1)
    BY <1>5 DEF PixTick, Elapse
  <2>2. CASE sem = "lost"
    BY <1>1, <1>2, <1>5, <2>1, <2>2 DEF FailsafeInv
  <2>3. CASE sem # "lost"
    <3>1. Announced /\ Noticed
      BY <1>5, <2>3 DEF FailsafeInv
    <3>2. udp.pc = "recv" /\ "udp" \notin due /\ "ser" \notin due
      BY <1>5, <2>3 DEF PixTick, Settled, UdpSettled, SerSettled
    <3>3. Late = 0 /\ Late' = 1
      BY <1>1, <3>2 DEF Late, Threads
    <3>4. /\ Dropped' = Dropped
          /\ Commands(shm)' <=> Commands(shm)
          /\ Commands(ser.last)' <=> Commands(ser.last)
      BY <1>1, <2>1 DEF Dropped, Commands, DsmFailsafe
    <3>5. ser'.age <= SmTimeout => ser.age <= SmTimeout /\ ser'.age = ser.age + 1
      BY <2>1 DEF Older
    <3>6. udp'.age = udp.age + 1 \/ udp'.age = RcTimeout + 1
      BY <2>1 DEF Older
    <3>7. Announced'
      <4>1. ~udp.timeout => udp.age <= RcTimeout /\ udp'.age = udp.age + 1 /\ silence <= udp.age
        BY <2>1, <3>1, <3>2 DEF Announced, Older
      <4>2. silence' <= udp'.age \/ udp'.age = RcTimeout + 1
        BY <1>3, <2>1, <3>1, <3>6 DEF Announced, Older
      <4>3. "udp" \in due'
        BY <1>1 DEF Threads
      <4> QED
        BY <1>1, <1>3, <2>1, <3>1, <3>2, <3>4, <4>1, <4>2, <4>3 DEF Announced
    <3>8. Noticed'
      BY <1>1, <1>3, <2>1, <3>1, <3>3, <3>4, <3>5 DEF Noticed
    <3> QED
      BY <1>1, <1>2, <1>5, <2>3, <3>7, <3>8 DEF FailsafeInv
  <2> QED
    BY <2>2, <2>3
<1> QED
  BY <1>4, <1>5 DEF TypeOK

\* A process that starts has the whole bound before it.
LEMMA RestartFailsafe == TypeOK /\ FailsafeInv /\ Restart => FailsafeInv'
<1> SUFFICES ASSUME TypeOK, FailsafeInv, Restart PROVE FailsafeInv'
  OBVIOUS
<1> USE FailsafeTypes
<1>1. /\ UNCHANGED << shm, sem, attached, udp, ser, semErrs >>
      /\ proc' = "up" /\ frame' = NoFrame /\ silence' = 0
      /\ udp = UdpInit /\ ser = SerInit /\ "udp" \in due'
  BY DEF Restart, FailsafeInv, Threads
<1>2. FailsafeBounded'
  BY <1>1 DEF FailsafeBounded
<1>3. Dropped' = 0 /\ Late' \in {0, 1}
  BY <1>1, ZeroFacts DEF Dropped, Late
<1>4. ~Commands(ser.last)'
  BY <1>1, ZeroFacts DEF Commands, DsmFailsafe
<1>5. Announced' /\ Noticed'
  BY <1>1, <1>3, <1>4, ZeroFacts DEF Announced, Noticed
<1> QED
  BY <1>1, <1>2, <1>5, ZeroFacts DEF FailsafeInv

\* Main and other processes.
LEMMA OtherFailsafe ==
    TypeOK /\ FailsafeInv /\ (MonStep \/ Crash \/ \E op \in LockOps : LockFile(op))
        => FailsafeInv'
<1> SUFFICES ASSUME TypeOK, FailsafeInv, MonStep \/ Crash \/ \E op \in LockOps : LockFile(op)
             PROVE  FailsafeInv'
  OBVIOUS
<1> USE FailsafeTypes
<1>1. frame' = frame /\ silence' = silence
  BY DEF MonStep, MonitorOk, MonitorExit, Crash, LockFile
<1>2. FailsafeBounded'
  BY <1>1, FrameKept DEF FailsafeInv
<1>3. CASE MonitorExit \/ Crash
  BY <1>2, <1>3 DEF MonitorExit, Crash, Die, FailsafeInv, UdpInit, SerInit
<1>4. CASE MonitorOk \/ \E op \in LockOps : LockFile(op)
  <2>1. /\ UNCHANGED << shm, sem, proc, attached, udp, ser, semErrs >>
        /\ due' = due \/ due' = due \ {"mon"}
    BY <1>4 DEF MonitorOk, LockFile
  <2>2. /\ Dropped' = Dropped /\ Late' = Late
        /\ Commands(shm)' <=> Commands(shm)
        /\ Commands(ser.last)' <=> Commands(ser.last)
        /\ Commands(udp.pkt)' <=> Commands(udp.pkt)
        /\ "udp" \in due' <=> "udp" \in due
    BY <2>1 DEF Dropped, Late, Commands, DsmFailsafe
  <2>3. Announced /\ Noticed => Announced' /\ Noticed'
    BY <1>1, <2>1, <2>2 DEF Announced, Noticed
  <2> QED
    BY <1>1, <1>2, <2>1, <2>3 DEF FailsafeInv, UdpInit, SerInit
<1> QED
  BY <1>3, <1>4 DEF MonStep

\* When the controller falls silent, every frame after the bound commands the failsafe,
\* for any timeouts and any number of failed calls of sem_wait and of crashes.
THEOREM FailsafeCorrect == PixSpec => []FailsafeBounded
<1>1. TypeOK /\ SemaphoreHeld /\ FailsafeInv /\ [PixNext]_pixVars => FailsafeInv'
  <2> SUFFICES ASSUME TypeOK, SemaphoreHeld, FailsafeInv, [PixNext]_pixVars
               PROVE  FailsafeInv'
    OBVIOUS
  <2>1. CASE UNCHANGED pixVars
    BY <2>1 DEF pixVars, FailsafeInv, FailsafeBounded, FailsafeBound, Announced, Noticed,
                Dropped, Late, Commands, DsmFailsafe, UdpInit, SerInit
  <2>2. CASE PixNext
    BY <2>2, UdpFailsafe, SerFailsafe, TickFailsafe, RestartFailsafe, OtherFailsafe
       DEF PixNext
  <2> QED
    BY <2>1, <2>2
<1>2. FailsafeInv => FailsafeBounded
  BY DEF FailsafeInv
<1> QED
  BY <1>1, <1>2, InitFailsafe, TypeCorrect, SemaphoreCorrect, PTL DEF PixSpec

=============================================================================

--------------------------- MODULE RcUplinkProofs ---------------------------
(***************************************************************************)
(* Theorems about RcUplink, pixrc and rcManager together, for any timeouts,*)
(* any number of deaths of either process and of failed calls of sem_wait, *)
(* and a receive queue of any length.                                      *)
(***************************************************************************)
EXTENDS RcUplink, PixRcProofs

USE TimeoutsAssumption, IdsAssumption, LockOpsAssumption, UplinkAssumption

-----------------------------------------------------------------------------
(* Types.                                                                  *)

Managers == [alive : BOOLEAN, pc : {"run", "wait", "copy"}, remap : BOOLEAN,
             chan : Channels, id : Ids \cup {0}, age : 0..(Stale + 1)]
Datagrams == Packets \cup {Ok}

\* What rcManager is about to put is a packet.
Putting == mgr.pc # "run" => mgr.chan # NoChannels

TypeInv == UplinkTypeOK /\ Putting

\* Channels and packets are made of each other; an answer is not a packet.
LEMMA ChannelFacts ==
    /\ Ok.id = 0 /\ Ok \notin Packets
    /\ NoChannels \in Channels
    /\ DefaultChannels \in Channels /\ DefaultChannels # NoChannels
    /\ FreshMgr \in Managers /\ DeadMgr \in Managers
    /\ FreshMgr.pc = "run" /\ DeadMgr.pc = "run" /\ ~DeadMgr.alive /\ ~DeadMgr.remap
    /\ FreshMgr.alive /\ ~FreshMgr.remap /\ FreshMgr.age = 0
    /\ \A p \in Packets : ChannelsOf(p) \in Channels /\ ChannelsOf(p) # NoChannels
    /\ \A c \in Channels \ {NoChannels} :
        /\ YawCentred(c) \in Channels \ {NoChannels}
        /\ \A i \in Ids \cup {0} : AsPacket(i, c) \in Packets
    /\ YawCentred(DefaultChannels) = DefaultChannels
<1> DEFINE Some == [thr : Throttles, stk : Sticks, aux : Auxes]
<1>1. /\ NoChannels \in Channels /\ NoChannels \notin Some
      /\ DefaultChannels \in Some /\ DefaultChannels \in Channels
      /\ Channels \ {NoChannels} = Some
  <2>1. Channels = Some \cup {NoChannels}
    BY DEF Channels
  <2>2. NoChannels.thr = "none"
    BY DEF NoChannels
  <2>3. \A c \in Some : c.thr # "none"
    BY DEF Throttles
  <2>4. DefaultChannels \in Some
    BY DEF DefaultChannels, Throttles, Sticks, Auxes
  <2> HIDE DEF Some
  <2> QED
    BY <2>1, <2>2, <2>3, <2>4
<1>2. Ok.id = 0 /\ Ok \notin Packets
  BY DEF Ok, AsPacket, NoChannels, Packets, Throttles
<1>3. /\ FreshMgr \in Managers /\ FreshMgr.pc = "run"
      /\ FreshMgr.alive /\ ~FreshMgr.remap /\ FreshMgr.age = 0
  <2>1. 0 \in 0..(Stale + 1) /\ 0 \in Ids \cup {0}
    OBVIOUS
  <2> QED
    BY <1>1, <2>1 DEF FreshMgr, Managers
<1>4. DeadMgr \in Managers /\ DeadMgr.pc = "run" /\ ~DeadMgr.alive /\ ~DeadMgr.remap
  BY <1>3 DEF DeadMgr, Managers
<1>5. \A p \in Packets : ChannelsOf(p) \in Some
  BY DEF ChannelsOf, Packets
<1>6. \A c \in Some : YawCentred(c) \in Some
  BY DEF YawCentred, Sticks
<1>7. \A c \in Some : \A i \in Ids \cup {0} : AsPacket(i, c) \in Packets
  BY DEF AsPacket, Packets
<1>8. YawCentred(DefaultChannels) = DefaultChannels
  BY DEF YawCentred, DefaultChannels
<1> HIDE DEF Some
<1> QED
  BY <1>1, <1>2, <1>3, <1>4, <1>5, <1>6, <1>7, <1>8

\* What leaves the variables of pixrc alone keeps their types.
LEMMA PixrcTypes ==
    ASSUME TypeOK, UNCHANGED RadioSide, shm' \in Packets,
           sem' \in {"free", "udp", "ser", "mgr", "lost"}, attached' \in BOOLEAN,
           clients' \in BOOLEAN, silence' \in {silence, 0},
           due' \subseteq Threads \cup {"mgr"}, crashes' \in 0..MaxCrash
    PROVE  TypeOK'
<1>1. UNCHANGED << proc, udp, ser, ran, rcLocked, lockFiles, frame, lockedFor, semErrs >>
  BY DEF RadioSide
<1>2. silence' \in 0..SilenceCap
  BY DEF TypeOK
<1>3. /\ proc' \in {"up", "down"} /\ rcLocked' \in BOOLEAN
      /\ udp' \in [pc : {"recv", "put", "copy", "send"}, pkt : Packets,
                   age : 0..(RcTimeout + 1), timeout : BOOLEAN]
      /\ ser' \in [pc : {"get", "copy"}, last : Packets, started : BOOLEAN,
                   age : 0..(SmTimeout + 1)]
      /\ ran' \in [udp : 0..(Stuck + 1), ser : 0..(Stuck + 1)]
      /\ lockFiles' \subseteq {"tmp", "ro", "unlock"}
      /\ frame' \in Frames \cup {NoFrame} /\ lockedFor' \in 0..2
      /\ semErrs' \in 0..MaxSemErr
  BY <1>1 DEF TypeOK
<1> QED
  BY <1>2, <1>3, Zenon DEF TypeOK

\* Initially rcManager does not run.
LEMMA InitTypeInv == Init => TypeInv
<1> SUFFICES ASSUME Init PROVE TypeInv
  OBVIOUS
<1>1. TypeOK /\ mgr = DeadMgr /\ inbox = << >>
  BY InitType DEF Init
<1>2. inbox \in Seq(Datagrams) /\ Len(inbox) = 0
  BY <1>1
<1> QED
  BY <1>1, <1>2, ChannelFacts DEF TypeInv, UplinkTypeOK, Putting, Managers, Datagrams

\* A queue stays typed when a datagram is added, and when one is taken out.
LEMMA InboxType ==
    ASSUME NEW q \in Seq(Datagrams)
    PROVE  /\ \A d \in Datagrams : /\ Append(q, d) \in Seq(Datagrams)
                                   /\ Len(Append(q, d)) = Len(q) + 1
           /\ q # << >> => /\ Head(q) \in Datagrams /\ Tail(q) \in Seq(Datagrams)
                           /\ Len(Tail(q)) < Len(q)
           /\ << >> \in Seq(Datagrams) /\ Len(<< >>) = 0 /\ Len(q) \in Nat
OBVIOUS

\* A step of pixrc, with rcManager getting a datagram or not.
LEMMA PixrcTypeInv ==
    TypeInv /\ (UplinkRecv \/ UdpSendClients \/ PixrcAlone) => TypeInv'
<1> SUFFICES ASSUME TypeInv, UplinkRecv \/ UdpSendClients \/ PixrcAlone PROVE TypeInv'
  OBVIOUS
<1> USE DEF TypeInv
<1>1. TypeOK
  BY DEF UplinkTypeOK
<1>2. mgr \in Managers /\ inbox \in Seq(Datagrams) /\ Len(inbox) <= MaxInbox
  BY DEF UplinkTypeOK, Managers, Datagrams
<1>3. CASE UplinkRecv
  <2>1. TypeOK' /\ UNCHANGED << mgr, inbox >>
    BY <1>1, <1>3, RecvType DEF UplinkRecv, mgrVars
  <2> QED
    BY <2>1 DEF UplinkTypeOK, Putting
<1>4. CASE UdpSendClients
  <2>1. TypeOK' /\ mgr' = mgr
    BY <1>1, <1>4, UdpType DEF UdpSendClients, UdpStep
  <2>2. udp.pkt \in Datagrams
    BY <1>1 DEF TypeOK, Datagrams
  <2>3. /\ inbox' = inbox \/ (inbox' = Append(inbox, udp.pkt) /\ Len(inbox) < MaxInbox)
    BY <1>4 DEF UdpSendClients
  <2>4. inbox' \in Seq(Datagrams) /\ Len(inbox') <= MaxInbox
    BY <1>2, <2>2, <2>3, InboxType
  <2> QED
    BY <2>1, <2>4 DEF UplinkTypeOK, Putting, Datagrams
<1>5. CASE PixrcAlone
  <2>1. TypeOK'
    BY <1>1, <1>5, UdpType, SerType, OtherType DEF PixrcAlone, UdpStep
  <2>2. UNCHANGED << mgr, inbox >>
    BY <1>5 DEF PixrcAlone, mgrVars
  <2> QED
    BY <2>1, <2>2 DEF UplinkTypeOK, Putting
<1> QED
  BY <1>3, <1>4, <1>5

\* A step of rcManager.
LEMMA MgrTypeInv == TypeInv /\ MgrNext => TypeInv'
<1> SUFFICES ASSUME TypeInv, MgrNext PROVE TypeInv'
  OBVIOUS
<1> USE DEF TypeInv
<1>1. TypeOK
  BY DEF UplinkTypeOK
<1>2. mgr \in Managers /\ inbox \in Seq(Datagrams) /\ Len(inbox) <= MaxInbox /\ Putting
  BY DEF UplinkTypeOK, Managers, Datagrams
<1>3. SUFFICES TypeOK' /\ mgr' \in Managers /\ inbox' \in Seq(Datagrams)
               /\ Len(inbox') <= MaxInbox /\ Putting'
  BY DEF UplinkTypeOK, Managers, Datagrams
<1>4. shm \in Packets /\ sem \in {"free", "udp", "ser", "mgr", "lost"} /\ attached \in BOOLEAN
      /\ due \subseteq Threads \cup {"mgr"} /\ clients \in BOOLEAN
      /\ crashes \in 0..MaxCrash
  BY <1>1 DEF TypeOK
<1>5. CASE Parse
  <2>1. TypeOK'
    BY <1>1, <1>4, <1>5, PixrcTypes DEF Parse
  <2>2. inbox # << >> /\ inbox' = Tail(inbox) /\ mgr.pc = "run"
    BY <1>5 DEF Parse
  <2>3. Head(inbox) \in Datagrams /\ inbox' \in Seq(Datagrams) /\ Len(inbox') < Len(inbox)
    BY <1>2, <2>2, InboxType
  <2> DEFINE d == Head(inbox)
  <2>4. d = Ok \/ (d \in Packets /\ d.id \in Ids \cup {0})
    BY <2>3 DEF Datagrams, Packets
  <2>5. \E i \in Ids \cup {0}, c \in Channels, a \in 0..(Stale + 1) :
            mgr' = [mgr EXCEPT !.id = i, !.chan = c, !.age = a]
    <3> DEFINE i == IF d = Ok THEN mgr.id ELSE d.id
               c == IF d # Ok /\ ~DsmFailsafe(d) THEN ChannelsOf(d) ELSE NoChannels
               a == IF d # Ok /\ ~DsmFailsafe(d) THEN 0 ELSE mgr.age
    <3>1. mgr' = [mgr EXCEPT !.id = i, !.chan = c, !.age = a]
      BY <1>5 DEF Parse
    <3>2. i \in Ids \cup {0} /\ a \in 0..(Stale + 1)
      BY <1>2, <2>4 DEF Managers
    <3>3. c \in Channels
      BY <2>4, ChannelFacts
    <3> QED
      BY <3>1, <3>2, <3>3
  <2>6. mgr' \in Managers /\ mgr'.pc = "run"
    BY <1>2, <2>2, <2>5 DEF Managers
  <2> QED
    BY <1>2, <2>1, <2>3, <2>6, InboxType DEF Putting
<1>6. CASE MgrTick
  <2>1. TypeOK' /\ inbox' = inbox
    BY <1>1, <1>4, <1>6, PixrcTypes DEF MgrTick
  <2>2. \E c \in Channels \ {NoChannels} :
            mgr' \in {[mgr EXCEPT !.chan = YawCentred(c), !.pc = "wait"],
                      [mgr EXCEPT !.chan = c]}
    <3> DEFINE c == IF mgr.age > Stale \/ mgr.chan = NoChannels THEN DefaultChannels
                                                               ELSE mgr.chan
    <3>1. mgr' \in {[mgr EXCEPT !.chan = YawCentred(c), !.pc = "wait"],
                    [mgr EXCEPT !.chan = c]}
      BY <1>6 DEF MgrTick
    <3>2. c \in Channels \ {NoChannels}
      BY <1>2, ChannelFacts DEF Managers
    <3> HIDE DEF c
    <3> QED
      BY <3>1, <3>2
  <2>3. PICK c \in Channels \ {NoChannels} :
            mgr' \in {[mgr EXCEPT !.chan = YawCentred(c), !.pc = "wait"],
                      [mgr EXCEPT !.chan = c]}
    BY <2>2
  <2>4. YawCentred(c) \in Channels \ {NoChannels}
    BY ChannelFacts
  <2> QED
    BY <1>2, <2>1, <2>3, <2>4 DEF Managers, Putting
<1>7. CASE MgrAcquire
  <2>1. TypeOK' /\ inbox' = inbox
    BY <1>1, <1>4, <1>7, PixrcTypes DEF MgrAcquire
  <2> QED
    BY <1>2, <1>7, <2>1 DEF MgrAcquire, Managers, Putting
<1>8. CASE MgrCopy
  <2>1. AsPacket(mgr.id, mgr.chan) \in Packets
    BY <1>2, <1>8, ChannelFacts DEF MgrCopy, Managers, Putting
  <2>2. TypeOK' /\ inbox' = inbox
    BY <1>1, <1>4, <1>8, <2>1, PixrcTypes DEF MgrCopy
  <2> QED
    BY <1>2, <1>8, <2>2 DEF MgrCopy, Managers, Putting
<1>9. CASE EnableRemapping \/ DisableRemapping
  <2>1. inbox' = Append(inbox, Ok) /\ Len(inbox) < MaxInbox
    BY <1>9 DEF EnableRemapping, DisableRemapping, Commanded
  <2>2. inbox' \in Seq(Datagrams) /\ Len(inbox') <= MaxInbox
    BY <1>2, <2>1, InboxType DEF Datagrams
  <2>3. TypeOK'
    BY <1>1, <1>4, <1>9, PixrcTypes DEF EnableRemapping, DisableRemapping, Commanded
  <2> QED
    BY <1>2, <1>9, <2>2, <2>3 DEF EnableRemapping, DisableRemapping, Managers, Putting
<1>10. CASE MgrKilled
  <2>1. sem' \in {"free", "udp", "ser", "mgr", "lost"}
    BY <1>4, <1>10, SemAfterDeathType DEF MgrKilled
  <2>2. crashes' \in 0..MaxCrash
    BY <1>4, <1>10 DEF MgrKilled
  <2>3. TypeOK'
    BY <1>1, <1>4, <1>10, <2>1, <2>2, PixrcTypes DEF MgrKilled
  <2> QED
    BY <1>10, <2>3, InboxType, ChannelFacts DEF MgrKilled, Putting
<1>11. CASE MgrStart
  <2>1. inbox' = Append(inbox, Ok) /\ Len(inbox) < MaxInbox /\ mgr' = FreshMgr
    BY <1>11 DEF MgrStart, Commanded
  <2>2. inbox' \in Seq(Datagrams) /\ Len(inbox') <= MaxInbox
    BY <1>2, <2>1, InboxType DEF Datagrams
  <2>3. due' \subseteq Threads \cup {"mgr"}
    BY <1>4, <1>11 DEF MgrStart
  <2>4. TypeOK'
    BY <1>1, <1>4, <1>11, <2>3, PixrcTypes DEF MgrStart, Commanded
  <2> QED
    BY <2>1, <2>2, <2>4, ChannelFacts DEF Putting
<1> QED
  BY <1>5, <1>6, <1>7, <1>8, <1>9, <1>10, <1>11 DEF MgrNext

\* A tick.
LEMMA TickTypeInv == TypeInv /\ Tick => TypeInv'
<1> SUFFICES ASSUME TypeInv, Tick PROVE TypeInv'
  OBVIOUS
<1> USE DEF TypeInv
<1>1. TypeOK'
  BY ElapseType DEF Tick, UplinkTypeOK
<1>2. mgr \in Managers /\ Putting
  BY DEF UplinkTypeOK, Managers
<1>3. Older(mgr.age, Stale + 1) \in 0..(Stale + 1)
  BY <1>2, OlderType, Stale + 1 \in Nat DEF Managers
<1>4. mgr' = mgr \/ mgr' = [mgr EXCEPT !.age = Older(mgr.age, Stale + 1)]
  BY DEF Tick
<1>5. mgr' \in Managers /\ Putting'
  BY <1>2, <1>3, <1>4 DEF Managers, Putting
<1>6. inbox' = inbox
  BY DEF Tick
<1> QED
  BY <1>1, <1>5, <1>6 DEF UplinkTypeOK, Managers

\* One step of either process, or none.
LEMMA StepTypeInv == TypeInv /\ [Next]_vars => TypeInv'
<1>1. TypeInv /\ UNCHANGED vars => TypeInv'
  BY DEF TypeInv, UplinkTypeOK, Putting, TypeOK, vars, pixVars, mgrVars
<1> QED
  BY <1>1, PixrcTypeInv, MgrTypeInv, TickTypeInv DEF Next

\* Every variable of both processes keeps its type; the queue stays within its length.
THEOREM UplinkTypeCorrect == Spec => []UplinkTypeOK
<1>1. TypeInv /\ [Next]_vars => TypeInv'
  BY StepTypeInv
<1>2. TypeInv => UplinkTypeOK
  BY DEF TypeInv
<1> QED
  BY <1>1, <1>2, InitTypeInv, PTL DEF Spec

-----------------------------------------------------------------------------
(* The failsafe, with both processes.                                      *)

\* The last tick of a silence in which a packet that commands, and is not the one
\* already there, may be written to shared memory: rcManager has held the channels to be
\* stale, or has heard of the failsafe packet, and writes over it once more.
LastWrite == (IF Stale > RcTimeout THEN Stale ELSE RcTimeout) + 2

\* The semaphore is held inside the critical sections of all three threads.
Held == SemaphoreHeld /\ (sem = "mgr" <=> mgr.pc = "copy")

\* What is known of processes that are down, and of rcManager inside put.
Down ==
    /\ ~mgr.alive => inbox = << >> /\ mgr = DeadMgr
    /\ mgr.pc # "run" => mgr.remap
    /\ proc = "down" => udp = UdpInit /\ ser = SerInit

\* The UDP thread publishes the failsafe packet at most one tick after the timeout.
Told ==
    /\ silence <= udp.age \/ udp.age = RcTimeout + 1
    /\ ~udp.timeout => silence <= RcTimeout + 1
    /\ ~udp.timeout /\ udp.pc = "recv" /\ "udp" \notin due => udp.age <= RcTimeout
    /\ ~udp.timeout /\ udp.pc # "recv" => silence = 0 /\ udp.age = 0
    /\ udp.timeout /\ udp.pc # "recv" => silence <= RcTimeout + 1 /\ ~Commands(udp.pkt)

\* Has rcManager written for the last time in this silence what was not there?
Settling == silence > LastWrite \/ (silence = LastWrite /\ mgr.pc = "run" /\ "mgr" \notin due)

\* rcManager hears nothing that commands in a silence, and after a while nothing but
\* answers; it falls back to the defaults, and keeps writing the same packet.
Managed ==
    /\ silence <= mgr.age \/ mgr.age = Stale + 1
    /\ \A k \in DOMAIN inbox :
        /\ silence > 0 => inbox[k] = Ok \/ ~Commands(inbox[k])
        /\ silence > RcTimeout + 1 => inbox[k] = Ok
    /\ silence > Stale /\ mgr.pc # "run" => mgr.chan = DefaultChannels
    /\ mgr.remap /\ Settling => shm = AsPacket(mgr.id, DefaultChannels)

\* How long a packet that commands may wait to be read, and to be held to be stale.
Unread == Commands(shm) /\ shm # ser.last => silence <= LastWrite + semErrs + Late
Aged   == Commands(ser.last) /\ ser.age <= SmTimeout
            => silence <= ser.age + LastWrite + 1 + semErrs

UplinkInv ==
    /\ Held /\ Down
    /\ proc = "up" /\ sem # "lost" => Told /\ (mgr.alive => Managed) /\ Unread
    /\ proc = "up" => Aged
    /\ UplinkFailsafeBounded

\* The bound is the last write, a tick to read it, the failed calls and the timeout.
LEMMA UplinkBoundFacts ==
    /\ LastWrite \in Nat /\ LastWrite >= RcTimeout + 2 /\ LastWrite >= Stale + 2
    /\ UplinkFailsafeBound = LastWrite + 1 + SmTimeout + MaxSemErr
BY DEF LastWrite, UplinkFailsafeBound

\* The types of what the invariant speaks of.
LEMMA UplinkTypes ==
    ASSUME TypeInv
    PROVE  /\ TypeOK /\ mgr \in Managers /\ inbox \in Seq(Datagrams) /\ Putting
           /\ silence \in Nat /\ semErrs \in Nat /\ semErrs <= MaxSemErr
           /\ udp.age \in 0..(RcTimeout + 1) /\ udp.timeout \in BOOLEAN
           /\ udp.pc \in {"recv", "put", "copy", "send"} /\ udp.pkt \in Packets
           /\ ser.age \in 0..(SmTimeout + 1)
           /\ ser.pc \in {"get", "copy"} /\ ser.last \in Packets /\ shm \in Packets
           /\ Late \in {0, 1} /\ mgr.age \in 0..(Stale + 1)
           /\ DOMAIN udp = {"pc", "pkt", "age", "timeout"}
           /\ DOMAIN ser = {"pc", "last", "started", "age"}
           /\ DOMAIN mgr = {"alive", "pc", "remap", "chan", "id", "age"}
<1>1. TypeOK /\ mgr \in Managers /\ inbox \in Seq(Datagrams) /\ Putting
  BY DEF TypeInv, UplinkTypeOK, Managers, Datagrams
<1> QED
  BY <1>1, FailsafeTypes DEF Managers

\* A frame that is kept keeps the bound.
LEMMA UplinkFrameKept ==
    UplinkFailsafeBounded /\ frame' = frame /\ silence' \in {silence, 0}
        => UplinkFailsafeBounded'
BY UplinkBoundFacts DEF UplinkFailsafeBounded, DsmFailsafe, UplinkFailsafeBound, LastWrite

\* The last write is the same in every state.
LEMMA LastWriteFixed == LastWrite' = LastWrite
BY DEF LastWrite

\* An element of a queue that something is put into was there before, or is what is put.
LEMMA AppendElement ==
    ASSUME NEW S, NEW q \in Seq(S), NEW x \in S
    PROVE  \A k \in DOMAIN Append(q, x) :
               Append(q, x)[k] = x \/ (k \in DOMAIN q /\ Append(q, x)[k] = q[k])
OBVIOUS

\* The semaphore in a step of pixrc.
LEMMA PixrcHeld ==
    TypeInv /\ Held /\ (UplinkRecv \/ UdpSendClients \/ PixrcAlone) => Held'
<1> SUFFICES ASSUME TypeInv, Held, UplinkRecv \/ UdpSendClients \/ PixrcAlone PROVE Held'
  OBVIOUS
<1> USE UplinkTypes
<1>1. mgr' = mgr
  BY DEF UplinkRecv, UdpSendClients, PixrcAlone, mgrVars
<1>2. SemaphoreHeld
  BY DEF Held
<1>3. CASE UplinkRecv
  <2>1. sem' = sem /\ ser' = ser /\ udp.pc = "recv" /\ udp'.pc \in {"put", "send"}
    BY <1>3 DEF UplinkRecv, UdpRecv, Publish
  <2> QED
    BY <1>1, <2>1 DEF Held, SemaphoreHeld
<1>4. CASE UdpSendClients \/ PixrcAlone
  <2>1. PixNext
    BY <1>4 DEF UdpSendClients, PixrcAlone, PixNext, UdpStep
  <2>2. SemaphoreHeld'
    BY <1>2, <2>1, StepHeld
  <2>3. sem' = "mgr" <=> sem = "mgr"
    BY <1>2, <1>4 DEF UdpSendClients, PixrcAlone, UdpTimeout, UdpMisfit, UdpIdle, UdpLock,
       UdpCopy, UdpPutError, UdpSend, SerStep, SerLock, SerGet, SerGetError, MonStep,
       MonitorOk, MonitorExit, Crash, Die, SemAfterDeath, Restart, LockFile, SemaphoreHeld
  <2> QED
    BY <1>1, <2>2, <2>3 DEF Held
<1> QED
  BY <1>3, <1>4

\* A step of the UDP thread.
LEMMA UdpUplink ==
    ASSUME TypeInv, UplinkInv,
           \/ UplinkRecv \/ UdpSendClients
           \/ (UdpTimeout \/ UdpMisfit \/ UdpLock \/ UdpCopy \/ UdpPutError)
              /\ UNCHANGED mgrVars
    PROVE  UplinkInv'
<1> USE UplinkTypes, UplinkBoundFacts
<1>1. Held'
  BY PixrcHeld DEF UplinkInv, PixrcAlone
<1>2. /\ proc = "up" /\ proc' = "up" /\ ser' = ser /\ frame' = frame /\ mgr' = mgr
      /\ silence' \in {silence, 0} /\ Late' = Late
      /\ semErrs' \in {semErrs, semErrs + 1}
      /\ sem' = "lost" <=> sem = "lost"
      /\ "mgr" \in due' <=> "mgr" \in due
      /\ inbox' = inbox
         \/ (inbox' = Append(inbox, udp.pkt) /\ udp.pc = "send" /\ mgr.alive
             /\ silence' = silence /\ shm' = shm)
  BY DEF UplinkRecv, UdpSendClients, UdpRecv, UdpTimeout, UdpMisfit, UdpIdle, UdpLock,
         UdpCopy, UdpPutError, UdpSend, Late, mgrVars, UplinkInv, Held, SemaphoreHeld
<1>3. Down'
  BY <1>2 DEF UplinkInv, Down
<1>4. Commands(ser.last)' <=> Commands(ser.last)
  BY <1>2 DEF Commands, DsmFailsafe
<1>5. Aged'
  BY <1>2, <1>4, SMTT(30) DEF UplinkInv, Aged
<1>6. UplinkFailsafeBounded'
  BY <1>2, UplinkFrameKept DEF UplinkInv
<1> SUFFICES ASSUME sem # "lost" PROVE Told' /\ (mgr.alive => Managed') /\ Unread'
  BY <1>1, <1>2, <1>3, <1>5, <1>6 DEF UplinkInv
<1>7. Told /\ Unread /\ (mgr.alive => Managed)
  BY <1>2 DEF UplinkInv
<1>8. /\ Told'
      /\ \/ shm' = shm
         \/ shm' = udp.pkt /\ silence' <= RcTimeout + 1
            /\ (~Commands(udp.pkt) \/ silence' = 0)
  <2>1. CASE UplinkRecv
    <3>1. /\ udp'.pc \in {"put", "send"} /\ udp'.age = 0 /\ udp'.timeout = FALSE
          /\ silence' = 0 /\ shm' = shm
      BY <2>1 DEF UplinkRecv, UdpRecv, Publish
    <3> QED
      BY <3>1 DEF Told
  <2>2. ASSUME NEW buffer \in Packets, UdpIdle(buffer) PROVE Told' /\ shm' = shm
    <3>1. udp.pc = "recv" /\ silence' = silence /\ shm' = shm /\ udp'.age = udp.age
      BY <2>2 DEF UdpIdle, Publish
    <3>2. CASE ~udp.timeout /\ udp.age > RcTimeout
      <4>1. /\ udp'.pc \in {"put", "send"} /\ udp'.timeout = TRUE
            /\ udp'.pkt = Failsafe(buffer)
        BY <2>2, <3>2 DEF UdpIdle, Publish
      <4>2. ~Commands(udp.pkt)'
        BY <4>1, FailsafeFacts DEF Commands, DsmFailsafe
      <4> QED
        BY <1>7, <3>1, <3>2, <4>1, <4>2 DEF Told
    <3>3. CASE ~(~udp.timeout /\ udp.age > RcTimeout)
      <4>1. udp'.pc = "recv" /\ udp'.timeout = udp.timeout
        BY <2>2, <3>1, <3>3 DEF UdpIdle
      <4> QED
        BY <1>7, <3>1, <3>3, <4>1 DEF Told
    <3> QED
      BY <3>2, <3>3
  <2>3. CASE UdpTimeout
    BY <2>2, <2>3 DEF UdpTimeout
  <2>4. CASE UdpMisfit
    BY <2>2, <2>4, PacketsType DEF UdpMisfit
  <2>5. CASE UdpLock \/ UdpCopy \/ UdpPutError \/ UdpSendClients
    <3>1. /\ udp.pc # "recv" /\ udp'.pkt = udp.pkt
          /\ udp'.age = udp.age /\ udp'.timeout = udp.timeout
          /\ silence' = silence /\ shm' \in {shm, udp.pkt}
      BY <2>5 DEF UdpLock, UdpCopy, UdpPutError, UdpSendClients, UdpSend
    <3>2. Commands(udp.pkt)' <=> Commands(udp.pkt)
      BY <3>1 DEF Commands, DsmFailsafe
    <3> QED
      BY <1>7, <3>1, <3>2 DEF Told
  <2> QED
    BY <2>1, <2>3, <2>4, <2>5
<1>9. Unread'
  <2>1. CASE shm' = shm
    BY <1>2, <1>7, <2>1 DEF Unread, Commands, DsmFailsafe
  <2>2. CASE shm' = udp.pkt /\ (~Commands(udp.pkt) \/ silence' = 0)
    BY <1>2, <2>2 DEF Unread, Commands, DsmFailsafe
  <2> QED
    BY <1>8, <2>1, <2>2
<1>10. ASSUME mgr.alive PROVE Managed'
  <2>1. Managed
    BY <1>7, <1>10
  <2>2. Settling' => Settling /\ silence' = silence
    BY <1>2 DEF Settling, LastWrite
  <2>3. Settling' => shm' = shm
    BY <1>2, <1>8 DEF Settling, LastWrite
  <2>4. mgr.remap /\ Settling' => shm' = AsPacket(mgr.id, DefaultChannels)
    BY <2>1, <2>2, <2>3 DEF Managed
  <2>5. \A k \in DOMAIN inbox' :
            /\ silence' > 0 => inbox'[k] = Ok \/ ~Commands(inbox'[k])
            /\ silence' > RcTimeout + 1 => inbox'[k] = Ok
    <3>1. CASE inbox' = inbox
      BY <1>2, <2>1, <3>1 DEF Managed
    <3>2. CASE inbox' = Append(inbox, udp.pkt) /\ udp.pc = "send" /\ silence' = silence
      <4>1. /\ silence > 0 => ~Commands(udp.pkt)
            /\ silence <= RcTimeout + 1
        BY <1>7, <3>2 DEF Told
      <4>2. \A k \in DOMAIN inbox' : inbox'[k] = udp.pkt
                                     \/ (k \in DOMAIN inbox /\ inbox'[k] = inbox[k])
        <5>1. inbox \in Seq(Datagrams) /\ udp.pkt \in Datagrams
          BY DEF Datagrams
        <5> QED
          BY ONLY <3>2, <5>1, AppendElement
      <4>3. \A k \in DOMAIN inbox :
                /\ silence > 0 => inbox[k] = Ok \/ ~Commands(inbox[k])
                /\ silence > RcTimeout + 1 => inbox[k] = Ok
        BY <2>1 DEF Managed
      <4>4. ASSUME NEW k \in DOMAIN inbox'
            PROVE  /\ silence > 0 => inbox'[k] = Ok \/ ~Commands(inbox'[k])
                   /\ silence > RcTimeout + 1 => inbox'[k] = Ok
        <5>1. CASE inbox'[k] = udp.pkt
          BY <4>1, <5>1
        <5>2. CASE k \in DOMAIN inbox /\ inbox'[k] = inbox[k]
          BY <4>3, <5>2
        <5> QED
          BY <4>2, <5>1, <5>2
      <4> QED
        BY <3>2, <4>4
    <3> QED
      BY <1>2, <3>1, <3>2
  <2> QED
    BY <1>2, <2>1, <2>4, <2>5 DEF Managed, Commands, DsmFailsafe, AsPacket, DefaultChannels
<1> QED
  BY <1>8, <1>9, <1>10

\* A step of the serial thread: a frame that commands comes of a packet that it has just
\* read, or does not hold to be stale.
LEMMA SerUplink ==
    ASSUME TypeInv, UplinkInv, SerStep, UNCHANGED mgrVars
    PROVE  UplinkInv'
<1>0. /\ TypeOK /\ silence \in Nat /\ semErrs \in Nat /\ semErrs <= MaxSemErr
      /\ ser.age \in 0..(SmTimeout + 1) /\ shm \in Packets /\ ser.last \in Packets
      /\ ser.pc \in {"get", "copy"} /\ Late \in {0, 1}
      /\ DOMAIN ser = {"pc", "last", "started", "age"}
  BY UplinkTypes
<1> USE <1>0, UplinkBoundFacts, LastWriteFixed
<1>1. Held'
  BY PixrcHeld DEF UplinkInv, PixrcAlone
<1>2. /\ proc = "up" /\ proc' = "up"
      /\ UNCHANGED << udp, shm, silence, mgr, inbox >>
      /\ sem' = "lost" <=> sem = "lost"
  BY DEF SerStep, SerLock, SerGet, SerGetError, mgrVars, UplinkInv, Held, SemaphoreHeld
<1>3. Down' /\ (sem # "lost" => Told /\ (mgr.alive => Managed) /\ Unread) /\ Aged
  BY <1>2 DEF UplinkInv, Down
<1>4. ASSUME due' \in {due, due \ {"ser"}}
      PROVE  (Told => Told') /\ (Managed => Managed')
  <2>1. ("udp" \in due' <=> "udp" \in due) /\ ("mgr" \in due' <=> "mgr" \in due)
    BY <1>4
  <2> QED
    BY <1>2, <2>1 DEF Told, Managed, Settling, Commands, DsmFailsafe, AsPacket,
       DefaultChannels
<1>5. SUFFICES /\ due' \in {due, due \ {"ser"}}
               /\ (sem # "lost" => Unread') /\ Aged' /\ UplinkFailsafeBounded'
  BY <1>1, <1>2, <1>3, <1>4 DEF UplinkInv
<1>6. CASE SerLock
  <2>1. /\ ser'.last = ser.last /\ ser'.age = ser.age
        /\ UNCHANGED << frame, due, semErrs >>
    BY <1>6 DEF SerLock
  <2>2. UplinkFailsafeBounded'
    BY <1>2, <2>1, UplinkFrameKept DEF UplinkInv
  <2>3. Late' = Late /\ (Commands(ser.last)' <=> Commands(ser.last))
    BY <2>1 DEF Late, Commands, DsmFailsafe
  <2>4. Commands(shm)' <=> Commands(shm)
    BY <1>2 DEF Commands, DsmFailsafe
  <2> QED
    BY <1>2, <1>3, <2>1, <2>2, <2>3, <2>4 DEF Unread, Aged
<1>7. ASSUME NEW got \in Packets, SerLoop(got),
             Commands(got) /\ (got # ser.last \/ ser.age <= SmTimeout)
                => silence <= UplinkFailsafeBound
      PROVE  UplinkFailsafeBounded'
  <2>1. CASE frame' = frame
    BY <1>2, <2>1, UplinkFrameKept DEF UplinkInv
  <2>2. CASE DsmFailsafe(frame')
    BY <2>2 DEF UplinkFailsafeBounded, DsmFailsafe
  <2>3. CASE Commands(got) /\ (got # ser.last \/ ser.age <= SmTimeout)
    <3>1. UplinkFailsafeBound' = UplinkFailsafeBound
      BY DEF UplinkFailsafeBound
    <3> QED
      BY <1>2, <1>7, <2>3, <3>1 DEF UplinkFailsafeBounded
  <2> QED
    BY <1>7, IterationFacts, <2>1, <2>2, <2>3
<1>8. CASE SerGet
  <2>1. SerLoop(shm) /\ sem # "lost" /\ semErrs' = semErrs
    BY <1>8 DEF SerGet, UplinkInv, Held, SemaphoreHeld
  <2>2. /\ ser'.last = shm /\ ser'.age = IF shm # ser.last THEN 0 ELSE ser.age
        /\ Commands(ser.last)' <=> Commands(shm)
        /\ Late' = 0 /\ due' = due \ {"ser"}
    BY <2>1, IterationFacts
  <2>3. Unread'
    BY <1>2, <2>2 DEF Unread
  <2>4. Aged'
    BY <1>2, <1>3, <2>1, <2>2 DEF Aged, Unread
  <2>5. Commands(shm) /\ (shm # ser.last \/ ser.age <= SmTimeout)
            => silence <= UplinkFailsafeBound
    BY <1>3, <2>1 DEF Aged, Unread
  <2> QED
    BY <1>7, <2>1, <2>2, <2>3, <2>4, <2>5
<1>9. CASE SerGetError
  <2>1. SerLoop(ser.last) /\ semErrs' = semErrs + 1
    BY <1>9 DEF SerGetError
  <2>2. /\ ser'.last = ser.last /\ ser'.age = ser.age
        /\ Commands(ser.last)' <=> Commands(ser.last)
        /\ Late' = 0 /\ due' = due \ {"ser"}
    BY <2>1, IterationFacts
  <2>3. Commands(shm)' <=> Commands(shm)
    BY <1>2 DEF Commands, DsmFailsafe
  <2>4. sem # "lost" => Unread'
    BY <1>2, <1>3, <2>1, <2>2, <2>3 DEF Unread
  <2>5. Aged'
    BY <1>2, <1>3, <2>1, <2>2 DEF Aged
  <2>6. Commands(ser.last) /\ ser.age <= SmTimeout => silence <= UplinkFailsafeBound
    BY <1>3 DEF Aged
  <2> QED
    BY <1>7, <2>1, <2>2, <2>4, <2>5, <2>6
<1> QED
  BY <1>6, <1>8, <1>9 DEF SerStep

\* A step of main, of the lock files, or the start of pixrc.
LEMMA OtherUplink ==
    ASSUME TypeInv, UplinkInv, UNCHANGED mgrVars,
           MonStep \/ Crash \/ Restart \/ \E op \in LockOps : LockFile(op)
    PROVE  UplinkInv'
<1> USE UplinkTypes, UplinkBoundFacts, LastWriteFixed
<1>1. Held'
  BY PixrcHeld DEF UplinkInv, PixrcAlone
<1>2. UNCHANGED << mgr, inbox >>
  BY DEF mgrVars
<1>3. CASE MonitorExit \/ Crash
  <2>1. proc' = "down" /\ udp' = UdpInit /\ ser' = SerInit /\ UNCHANGED << frame, silence >>
    BY <1>3 DEF MonitorExit, Crash, Die
  <2>2. UplinkFailsafeBounded'
    BY <2>1, UplinkFrameKept DEF UplinkInv
  <2>3. Down'
    BY <1>2, <2>1 DEF UplinkInv, Down, UdpInit, SerInit
  <2> QED
    BY <1>1, <2>1, <2>2, <2>3 DEF UplinkInv
<1>4. CASE Restart
  <2>1. /\ proc' = "up" /\ frame' = NoFrame /\ silence' = 0 /\ "udp" \in due'
        /\ UNCHANGED << udp, ser, shm, semErrs >> /\ udp = UdpInit
    BY <1>4 DEF Restart, UplinkInv, Down, Threads
  <2>2. UplinkFailsafeBounded'
    BY <2>1 DEF UplinkFailsafeBounded
  <2>3. Down'
    BY <1>2, <2>1 DEF UplinkInv, Down
  <2>4. Late' \in {0, 1}
    BY DEF Late
  <2>5. Told' /\ Unread' /\ Aged'
    BY <2>1, <2>4, ZeroFacts DEF Told, Unread, Aged
  <2>6. Managed'
    <3>1. ~Settling'
      BY <2>1, <2>4 DEF Settling
    <3> QED
      BY <1>2, <2>1, <3>1 DEF Managed
  <2> QED
    BY <1>1, <2>2, <2>3, <2>5, <2>6 DEF UplinkInv
<1>5. CASE MonitorOk \/ \E op \in LockOps : LockFile(op)
  <2>1. /\ UNCHANGED << shm, sem, proc, udp, ser, semErrs, frame, silence >>
        /\ due' = due \/ due' = due \ {"mon"}
    BY <1>5 DEF MonitorOk, LockFile
  <2>2. UplinkFailsafeBounded'
    BY <2>1, UplinkFrameKept DEF UplinkInv
  <2>3. Down'
    BY <1>2, <2>1 DEF UplinkInv, Down, UdpInit, SerInit
  <2>4. /\ "udp" \in due' <=> "udp" \in due
        /\ "mgr" \in due' <=> "mgr" \in due
        /\ Late' = Late
    BY <2>1 DEF Late
  <2>5. (Told => Told') /\ (Unread => Unread') /\ (Aged => Aged')
    BY <2>1, <2>4 DEF Told, Unread, Aged, Commands, DsmFailsafe
  <2>6. Managed => Managed'
    BY <1>2, <2>1, <2>4 DEF Managed, Settling, Commands, DsmFailsafe, AsPacket,
       DefaultChannels
  <2> QED
    BY <1>1, <1>2, <2>1, <2>2, <2>3, <2>5, <2>6 DEF UplinkInv
<1> QED
  BY <1>3, <1>4, <1>5 DEF MonStep

\* A step of rcManager that leaves pixrc's threads and the semaphore's loss alone keeps
\* what is known of them.
LEMMA ManagerQuiet ==
    ASSUME TypeInv, UplinkInv, UNCHANGED << RadioSide, shm >>, silence' \in {silence, 0},
           due' \in {due, due \ {"mgr"}, due \cup {"mgr"}}
    PROVE  /\ Told => Told'
           /\ Unread => Unread'
           /\ Aged => Aged'
           /\ UplinkFailsafeBounded'
<1> USE UplinkTypes, UplinkBoundFacts, LastWriteFixed
<1>1. UNCHANGED << proc, udp, ser, frame, semErrs, shm >>
  BY DEF RadioSide
<1>2. Late' = Late /\ ("udp" \in due' <=> "udp" \in due)
  BY DEF Late
<1>3. UplinkFailsafeBounded'
  BY <1>1, UplinkFrameKept DEF UplinkInv
<1>4. Told => Told'
  BY <1>1, <1>2 DEF Told, Commands, DsmFailsafe
<1>5. Unread => Unread'
  BY <1>1, <1>2 DEF Unread, Commands, DsmFailsafe
<1>6. Aged => Aged'
  BY <1>1, <1>2 DEF Aged, Commands, DsmFailsafe
<1> QED
  BY <1>3, <1>4, <1>5, <1>6

\* A datagram: one that commands comes only before the silence, and one that changes the
\* identity only before the last write.
LEMMA ParseUplink == TypeInv /\ UplinkInv /\ Parse => UplinkInv'
<1> SUFFICES ASSUME TypeInv, UplinkInv, Parse PROVE UplinkInv'
  OBVIOUS
<1>0. /\ silence \in Nat /\ mgr.age \in 0..(Stale + 1) /\ inbox \in Seq(Datagrams)
      /\ DOMAIN mgr = {"alive", "pc", "remap", "chan", "id", "age"}
  BY UplinkTypes
<1> USE <1>0, UplinkBoundFacts, LastWriteFixed
<1> DEFINE d == Head(inbox)
           live == d # Ok /\ Commands(d)
<1>1. /\ UNCHANGED << RadioSide, shm, sem, silence, due >>
      /\ mgr.pc = "run" /\ inbox # << >> /\ inbox' = Tail(inbox)
      /\ mgr' = [mgr EXCEPT !.id   = IF d = Ok THEN @ ELSE d.id,
                            !.chan = IF live THEN ChannelsOf(d) ELSE NoChannels,
                            !.age  = IF live THEN 0 ELSE @]
  BY DEF Parse, Commands
<1>2. /\ mgr'.pc = "run" /\ mgr'.remap = mgr.remap /\ mgr'.alive = mgr.alive
      /\ mgr'.age = IF live THEN 0 ELSE mgr.age
      /\ d = Ok => mgr'.id = mgr.id
      /\ mgr.pc = "run" /\ inbox # << >> /\ inbox' = Tail(inbox)
      /\ UNCHANGED << proc, udp, ser, shm, sem, silence, due >>
  BY <1>1 DEF RadioSide
<1> HIDE DEF d, live
<1>3. mgr.alive
  BY <1>1 DEF UplinkInv, Down
<1>4. Held' /\ Down'
  BY <1>1, <1>2, <1>3 DEF UplinkInv, Held, Down, SemaphoreHeld, UdpInit, SerInit
<1>5. ASSUME Managed PROVE Managed'
  <2>1. d = inbox[1] /\ 1 \in DOMAIN inbox
    BY <1>1, SMTT(30) DEF d
  <2>2. (silence > 0 => d = Ok \/ ~Commands(d)) /\ (silence > RcTimeout + 1 => d = Ok)
    <3>1. \A k \in DOMAIN inbox :
            /\ silence > 0 => inbox[k] = Ok \/ ~Commands(inbox[k])
            /\ silence > RcTimeout + 1 => inbox[k] = Ok
      BY <1>5 DEF Managed
    <3> QED
      BY <2>1, <3>1
  <2>3. silence' <= mgr'.age \/ mgr'.age = Stale + 1
    BY <1>2, <1>5, <2>2 DEF Managed, live
  <2>4. \A k \in DOMAIN inbox' :
            /\ silence' > 0 => inbox'[k] = Ok \/ ~Commands(inbox'[k])
            /\ silence' > RcTimeout + 1 => inbox'[k] = Ok
    <3>1. \A k \in DOMAIN inbox' : k + 1 \in DOMAIN inbox /\ inbox'[k] = inbox[k + 1]
      BY <1>2
    <3>2. \A k \in DOMAIN inbox :
            /\ silence > 0 => inbox[k] = Ok \/ ~Commands(inbox[k])
            /\ silence > RcTimeout + 1 => inbox[k] = Ok
      BY <1>5 DEF Managed
    <3>3. ASSUME NEW k \in DOMAIN inbox'
          PROVE  /\ silence > 0 => inbox'[k] = Ok \/ ~Commands(inbox'[k])
                 /\ silence > RcTimeout + 1 => inbox'[k] = Ok
      BY <3>1, <3>2
    <3> QED
      BY <1>2, <3>3
  <2>5. mgr'.remap /\ Settling' => shm' = AsPacket(mgr'.id, DefaultChannels)
    <3>1. Settling' => Settling /\ silence > RcTimeout + 1
      BY <1>2 DEF Settling
    <3> QED
      BY <1>2, <1>5, <2>2, <3>1 DEF Managed
  <2> QED
    BY <1>2, <2>3, <2>4, <2>5 DEF Managed, Commands, DsmFailsafe, Ok, AsPacket, NoChannels,
       DefaultChannels
<1> QED
  BY <1>1, <1>2, <1>3, <1>4, <1>5, ManagerQuiet DEF UplinkInv

\* A tick of the Run loop: once the channels are stale, or gone, they are the defaults.
LEMMA MgrTickUplink == TypeInv /\ UplinkInv /\ MgrTick => UplinkInv'
<1> SUFFICES ASSUME TypeInv, UplinkInv, MgrTick PROVE UplinkInv'
  OBVIOUS
<1> USE UplinkTypes, UplinkBoundFacts, LastWriteFixed
<1> DEFINE c == IF mgr.age > Stale \/ mgr.chan = NoChannels THEN DefaultChannels
                                                            ELSE mgr.chan
<1>1. /\ UNCHANGED << RadioSide, shm, sem, silence, inbox >> /\ due' = due \ {"mgr"}
      /\ mgr.alive /\ mgr.pc = "run"
      /\ mgr' = IF mgr.remap THEN [mgr EXCEPT !.chan = YawCentred(c), !.pc = "wait"]
                             ELSE [mgr EXCEPT !.chan = c]
  BY DEF MgrTick
<1>2. /\ mgr'.alive = mgr.alive /\ mgr'.remap = mgr.remap /\ mgr'.age = mgr.age
      /\ mgr'.id = mgr.id
      /\ mgr'.pc = IF mgr.remap THEN "wait" ELSE "run"
      /\ mgr.remap => mgr'.chan = YawCentred(c)
      /\ UNCHANGED << proc, udp, ser >>
  BY <1>1 DEF RadioSide
<1>3. mgr.age > Stale => c = DefaultChannels
  OBVIOUS
<1> HIDE DEF c
<1>4. Held' /\ Down'
  BY <1>1, <1>2 DEF UplinkInv, Held, Down, SemaphoreHeld, UdpInit, SerInit
<1>5. ASSUME Managed PROVE Managed'
  <2>1. silence > Stale /\ mgr.remap => mgr'.chan = DefaultChannels
    BY <1>2, <1>3, <1>5, ChannelFacts DEF Managed
  <2>2. mgr'.remap /\ Settling' => Settling
    BY <1>1, <1>2 DEF Settling
  <2>3. \A k \in DOMAIN inbox' :
            /\ silence' > 0 => inbox'[k] = Ok \/ ~Commands(inbox'[k])
            /\ silence' > RcTimeout + 1 => inbox'[k] = Ok
    BY <1>1, <1>5 DEF Managed
  <2>4. mgr'.remap /\ Settling' => shm' = AsPacket(mgr'.id, DefaultChannels)
    BY <1>1, <1>2, <1>5, <2>2 DEF Managed
  <2>5. silence' <= mgr'.age \/ mgr'.age = Stale + 1
    BY <1>1, <1>2, <1>5 DEF Managed
  <2>6. silence' > Stale /\ mgr'.pc # "run" => mgr'.chan = DefaultChannels
    BY <1>1, <1>2, <2>1
  <2> QED
    BY <2>3, <2>4, <2>5, <2>6 DEF Managed, Commands, DsmFailsafe, Ok, AsPacket, NoChannels,
       DefaultChannels
<1> QED
  BY <1>1, <1>2, <1>4, <1>5, ManagerQuiet DEF UplinkInv

\* put: after the last write, it writes what is there already.
LEMMA MgrPutUplink == TypeInv /\ UplinkInv /\ (MgrAcquire \/ MgrCopy) => UplinkInv'
<1> SUFFICES ASSUME TypeInv, UplinkInv, MgrAcquire \/ MgrCopy PROVE UplinkInv'
  OBVIOUS
<1> USE UplinkTypes, UplinkBoundFacts, LastWriteFixed
<1>1. /\ UNCHANGED << RadioSide, silence, due, inbox >> /\ mgr.pc # "run" /\ mgr.alive
      /\ mgr.remap /\ sem # "lost" /\ sem' # "lost"
      /\ mgr'.alive = mgr.alive /\ mgr'.remap = mgr.remap /\ mgr'.age = mgr.age
      /\ mgr'.id = mgr.id /\ mgr'.chan = mgr.chan
  BY ChannelFacts DEF MgrAcquire, MgrCopy, UplinkInv, Held, Down
<1>2. UNCHANGED << proc, udp, ser, frame, semErrs >>
  BY <1>1 DEF RadioSide
<1>3. Held' /\ Down'
  BY <1>1, <1>2 DEF MgrAcquire, MgrCopy, UplinkInv, Held, Down, SemaphoreHeld, UdpInit,
     SerInit
<1>4. ASSUME Managed
      PROVE  \/ shm' = shm
             \/ silence <= LastWrite /\ shm' = AsPacket(mgr.id, mgr.chan)
  <2>1. CASE MgrAcquire
    BY <2>1 DEF MgrAcquire
  <2>2. CASE MgrCopy
    <3>1. shm' = AsPacket(mgr.id, mgr.chan)
      BY <2>2 DEF MgrCopy
    <3>2. ASSUME silence > LastWrite PROVE shm' = shm
      <4>1. shm = AsPacket(mgr.id, DefaultChannels)
        BY <1>1, <1>4, <3>2 DEF Managed, Settling
      <4>2. mgr.chan = DefaultChannels
        BY <1>1, <1>4, <3>2 DEF Managed
      <4> QED
        BY <3>1, <4>1, <4>2
    <3> QED
      BY <3>1, <3>2
  <2> QED
    BY <2>1, <2>2
<1>5. ASSUME Managed PROVE Managed'
  <2>1. \A k \in DOMAIN inbox' :
            /\ silence' > 0 => inbox'[k] = Ok \/ ~Commands(inbox'[k])
            /\ silence' > RcTimeout + 1 => inbox'[k] = Ok
    BY <1>1, <1>5 DEF Managed
  <2>2. silence' > Stale /\ mgr'.pc # "run" => mgr'.chan = DefaultChannels
    BY <1>1, <1>5 DEF Managed
  <2>3. Settling' => shm' = AsPacket(mgr.id, DefaultChannels)
    <3>1. CASE MgrAcquire
      <4>1. Settling' => Settling
        BY <1>1, <3>1 DEF MgrAcquire, Settling
      <4> QED
        BY <1>1, <1>5, <3>1, <4>1 DEF MgrAcquire, Managed
    <3>2. CASE MgrCopy
      <4>1. Settling' => silence > Stale
        BY <1>1 DEF Settling
      <4> QED
        BY <1>1, <1>5, <3>2, <4>1 DEF MgrCopy, Managed
    <3> QED
      BY <3>1, <3>2
  <2>4. silence' <= mgr'.age \/ mgr'.age = Stale + 1
    BY <1>1, <1>5 DEF Managed
  <2> QED
    BY <1>1, <2>1, <2>2, <2>3, <2>4
       DEF Managed, Commands, DsmFailsafe, Ok, AsPacket, NoChannels, DefaultChannels
<1>6. ASSUME Managed, Unread PROVE Unread'
  <2>1. Late' = Late 
    BY <1>1 DEF Late
  <2>2. CASE shm' = shm
    <3>1. Commands(shm)' <=> Commands(shm)
      BY <2>2 DEF Commands, DsmFailsafe
    <3> QED
      BY <1>1, <1>2, <1>6, <2>1, <2>2, <3>1 DEF Unread
  <2>3. CASE silence <= LastWrite
    BY <1>1, <1>2, <2>1, <2>3 DEF Unread
  <2> QED
    BY <1>4, <1>6, <2>2, <2>3
<1>7. (Told => Told') /\ (Aged => Aged')
  BY <1>1, <1>2 DEF Told, Aged, Commands, DsmFailsafe
<1>8. UplinkFailsafeBounded'
  BY <1>1, <1>2, UplinkFrameKept DEF UplinkInv
<1> QED
  BY <1>1, <1>2, <1>3, <1>5, <1>6, <1>7, <1>8 DEF UplinkInv

\* enableRemapping, and the start of rcManager: the silence counts from here.
LEMMA FreshUplink ==
    TypeInv /\ UplinkInv /\ (EnableRemapping \/ MgrStart) => UplinkInv'
<1> SUFFICES ASSUME TypeInv, UplinkInv, EnableRemapping \/ MgrStart PROVE UplinkInv'
  OBVIOUS
<1>0. /\ silence \in Nat /\ mgr.age \in 0..(Stale + 1) /\ inbox \in Seq(Datagrams)
      /\ DOMAIN mgr = {"alive", "pc", "remap", "chan", "id", "age"}
  BY UplinkTypes
<1>1. /\ UNCHANGED << RadioSide, shm, sem >> /\ silence' = 0
      /\ due' \in {due, due \cup {"mgr"}}
      /\ inbox' = Append(inbox, Ok)
      /\ mgr.pc = "run" /\ mgr'.pc = "run" /\ mgr'.alive /\ mgr'.age \in 0..(Stale + 1)
  <2>1. CASE EnableRemapping
    BY <1>0, <2>1 DEF EnableRemapping, Commanded
  <2>2. CASE MgrStart
    <3>1. mgr = DeadMgr
      BY <2>2 DEF MgrStart, UplinkInv, Down
    <3> QED
      BY <2>2, <3>1, ChannelFacts DEF MgrStart, Commanded
  <2> QED
    BY <2>1, <2>2
<1>2. UNCHANGED << proc, udp, ser >>
  BY <1>1 DEF RadioSide
<1>3. Held' /\ Down'
  BY <1>1, <1>2 DEF UplinkInv, Held, Down, SemaphoreHeld, UdpInit, SerInit
<1>4. ~Settling'
  BY <1>1, UplinkBoundFacts, LastWriteFixed DEF Settling
<1>5. Managed'
  BY <1>1, <1>4 DEF Managed
<1> QED
  BY <1>1, <1>2, <1>3, <1>5, ManagerQuiet DEF UplinkInv

\* enableRemapping(False): rcManager writes no more.
LEMMA DisableUplink == TypeInv /\ UplinkInv /\ DisableRemapping => UplinkInv'
<1> SUFFICES ASSUME TypeInv, UplinkInv, DisableRemapping PROVE UplinkInv'
  OBVIOUS
<1>0. /\ silence \in Nat /\ inbox \in Seq(Datagrams)
      /\ DOMAIN mgr = {"alive", "pc", "remap", "chan", "id", "age"}
  BY UplinkTypes
<1>1. /\ UNCHANGED << RadioSide, shm, sem, silence, due >>
      /\ inbox' = Append(inbox, Ok)
      /\ mgr.pc = "run" /\ mgr'.pc = "run" /\ mgr.alive /\ mgr'.alive /\ ~mgr'.remap
      /\ mgr'.age = mgr.age
  BY <1>0 DEF DisableRemapping, Commanded
<1>2. UNCHANGED << proc, udp, ser >>
  BY <1>1 DEF RadioSide
<1>3. Held' /\ Down'
  BY <1>1, <1>2 DEF UplinkInv, Held, Down, SemaphoreHeld, UdpInit, SerInit
<1>4. ASSUME Managed PROVE Managed'
  <2>1. \A k \in DOMAIN inbox :
            /\ silence > 0 => inbox[k] = Ok \/ ~Commands(inbox[k])
            /\ silence > RcTimeout + 1 => inbox[k] = Ok
    BY <1>4 DEF Managed
  <2>2. \A k \in DOMAIN inbox' : \/ inbox'[k] = Ok
                                 \/ k \in DOMAIN inbox /\ inbox'[k] = inbox[k]
    BY <1>0, <1>1
  <2>3. \A k \in DOMAIN inbox' :
            /\ silence > 0 => inbox'[k] = Ok \/ ~Commands(inbox'[k])
            /\ silence > RcTimeout + 1 => inbox'[k] = Ok
    BY <2>1, <2>2
  <2>4. silence' <= mgr'.age \/ mgr'.age = Stale + 1
    BY <1>1, <1>4 DEF Managed
  <2> QED
    BY <1>1, <2>3, <2>4 DEF Managed, Commands, DsmFailsafe, Ok, AsPacket, NoChannels
<1> QED
  BY <1>1, <1>2, <1>3, <1>4, ManagerQuiet DEF UplinkInv

\* The end of rcManager, with the semaphore if it held it.
LEMMA KilledUplink == TypeInv /\ UplinkInv /\ MgrKilled => UplinkInv'
<1> SUFFICES ASSUME TypeInv, UplinkInv, MgrKilled PROVE UplinkInv'
  OBVIOUS
<1>1. /\ UNCHANGED << RadioSide, shm, silence >> /\ due' = due \ {"mgr"}
      /\ inbox' = << >> /\ mgr' = DeadMgr /\ sem' = SemAfterDeath({"mgr"})
  BY DEF MgrKilled
<1>2. UNCHANGED << proc, udp, ser >>
  BY <1>1 DEF RadioSide
<1>3. sem' = (IF sem = "mgr" THEN "lost" ELSE sem)
  BY <1>1 DEF SemAfterDeath
<1>4. Held'
  BY <1>1, <1>2, <1>3, ChannelFacts DEF UplinkInv, Held, SemaphoreHeld
<1>5. Down'
  BY <1>1, <1>2, ChannelFacts DEF UplinkInv, Down, UdpInit, SerInit, DeadMgr, FreshMgr, NoChannels
<1>6. ~mgr'.alive
  BY <1>1, ChannelFacts
<1> QED
  BY <1>1, <1>2, <1>3, <1>4, <1>5, <1>6, ManagerQuiet DEF UplinkInv

\* A tick: every thread that can has looked at its timeout, and written, in the tick
\* that ends.
LEMMA TickUplink == TypeInv /\ UplinkInv /\ Tick => UplinkInv'
<1> SUFFICES ASSUME TypeInv, UplinkInv, Tick PROVE UplinkInv'
  OBVIOUS
<1>0. /\ TypeOK /\ silence \in Nat /\ semErrs \in Nat /\ semErrs <= MaxSemErr
      /\ udp.age \in 0..(RcTimeout + 1) /\ udp.timeout \in BOOLEAN
      /\ udp.pc \in {"recv", "put", "copy", "send"}
      /\ ser.age \in 0..(SmTimeout + 1) /\ shm \in Packets /\ ser.last \in Packets
      /\ mgr.age \in 0..(Stale + 1)
      /\ DOMAIN udp = {"pc", "pkt", "age", "timeout"}
      /\ DOMAIN ser = {"pc", "last", "started", "age"}
      /\ DOMAIN mgr = {"alive", "pc", "remap", "chan", "id", "age"}
  BY UplinkTypes
<1> USE <1>0, UplinkBoundFacts, LastWriteFixed
<1>1. /\ UNCHANGED << shm, sem, proc, semErrs, inbox >>
      /\ frame' = NoFrame /\ silence' = Older(silence, SilenceCap)
      /\ Threads \subseteq due' /\ (mgr.alive => "mgr" \in due')
  BY DEF Tick, Elapse
<1>2. silence' \in Nat /\ silence' <= silence + 1
  BY <1>1 DEF Older, TypeOK
<1>3. UplinkFailsafeBounded'
  BY <1>1 DEF UplinkFailsafeBounded
<1>4. /\ mgr'.pc = mgr.pc /\ mgr'.remap = mgr.remap /\ mgr'.alive = mgr.alive
      /\ mgr'.id = mgr.id /\ (~mgr.alive => mgr' = mgr)
      /\ mgr.alive /\ ~MgrBlocked => mgr'.age = Older(mgr.age, Stale + 1)
  BY DEF Tick
<1>5. CASE proc = "down"
  <2>1. UNCHANGED << udp, ser >>
    BY <1>5 DEF Tick, Elapse
  <2>2. Held' /\ Down'
    BY <1>1, <1>4, <2>1 DEF UplinkInv, Held, Down, SemaphoreHeld, UdpInit, SerInit, DeadMgr,
       FreshMgr, NoChannels
  <2> QED
    BY <1>1, <1>3, <1>5, <2>2 DEF UplinkInv
<1>6. CASE proc = "up"
  <2>1. /\ udp'.pc = udp.pc /\ udp'.pkt = udp.pkt /\ udp'.timeout = udp.timeout
        /\ udp'.age = Older(udp.age, RcTimeout + 1)
        /\ ser'.pc = ser.pc /\ ser'.last = ser.last
        /\ ser'.age = Older(ser.age, SmTimeout + 1)
    BY <1>6 DEF Tick, Elapse
  <2>2. Held' /\ Down'
    BY <1>1, <1>4, <1>6, <2>1 DEF UplinkInv, Held, Down, SemaphoreHeld, DeadMgr, FreshMgr,
       NoChannels
  <2>3. Commands(ser.last)' <=> Commands(ser.last)
    BY <2>1 DEF Commands, DsmFailsafe
  <2>4. ser'.age <= SmTimeout => ser.age <= SmTimeout /\ ser'.age = ser.age + 1
    BY <2>1 DEF Older
  <2>5. Aged'
    BY <1>1, <1>2, <1>6, <2>3, <2>4 DEF UplinkInv, Aged
  <2>6. ASSUME sem # "lost" PROVE Told' /\ (mgr.alive => Managed') /\ Unread'
    <3>1. Told /\ (mgr.alive => Managed) /\ Unread
      BY <1>6, <2>6 DEF UplinkInv
    <3>2. /\ udp.pc = "recv" /\ "udp" \notin due /\ "ser" \notin due
          /\ mgr.alive => mgr.pc = "run" /\ "mgr" \notin due /\ inbox = << >>
      BY <1>6, <2>6 DEF Tick, Settled, UdpSettled, SerSettled, MgrSettled, MgrBlocked
    <3>3. Late = 0 /\ Late' = 1
      BY <1>1, <3>2 DEF Late, Threads
    <3>4. Told'
      <4>1. udp'.age = udp.age + 1 \/ udp'.age = RcTimeout + 1
        BY <2>1 DEF Older
      <4>2. ~udp.timeout => udp.age <= RcTimeout /\ silence <= udp.age
        BY <3>1, <3>2 DEF Told
      <4>3. silence' <= udp'.age \/ udp'.age = RcTimeout + 1
        BY <1>2, <2>1, <3>1, <4>1 DEF Told, Older
      <4>4. "udp" \in due'
        BY <1>1 DEF Threads
      <4> QED
        BY <1>2, <2>1, <3>2, <4>2, <4>3, <4>4 DEF Told
    <3>5. Unread'
      <4>1. Commands(shm)' <=> Commands(shm)
        BY <1>1 DEF Commands, DsmFailsafe
      <4> QED
        BY <1>1, <1>2, <2>1, <3>1, <3>3, <4>1 DEF Unread
    <3>6. ASSUME mgr.alive PROVE Managed'
      <4>1. mgr.pc = "run" /\ "mgr" \notin due /\ inbox = << >> /\ Managed
        BY <3>1, <3>2, <3>6
      <4>2. mgr'.age = Older(mgr.age, Stale + 1)
        BY <1>4, <3>6, <4>1 DEF MgrBlocked
      <4>3. silence' <= mgr'.age \/ mgr'.age = Stale + 1
        BY <1>2, <4>1, <4>2 DEF Managed, Older
      <4>4. Settling' => Settling
        BY <1>1, <1>2, <1>4, <3>6, <4>1 DEF Settling
      <4>5. mgr'.remap /\ Settling' => shm' = AsPacket(mgr'.id, DefaultChannels)
        BY <1>1, <1>4, <4>1, <4>4 DEF Managed
      <4> QED
        BY <1>1, <1>4, <4>1, <4>3, <4>5 DEF Managed, AsPacket, DefaultChannels
    <3> QED
      BY <3>4, <3>5, <3>6
  <2> QED
    BY <1>1, <1>3, <1>4, <1>6, <2>2, <2>5, <2>6 DEF UplinkInv
<1> QED
  BY <1>5, <1>6 DEF TypeOK

\* Initially pixrc has nothing to write, and rcManager does not run.
LEMMA InitUplink == Init => UplinkInv
<1> SUFFICES ASSUME Init PROVE UplinkInv
  OBVIOUS
<1>1. /\ proc = "up" /\ sem = "free" /\ frame = NoFrame
      /\ shm = ZeroPkt /\ udp = UdpInit /\ ser = SerInit /\ silence = 0 /\ semErrs = 0
      /\ "udp" \in due /\ mgr = DeadMgr /\ inbox = << >>
  BY DEF Init, PixInit, Threads
<1>2. ~Commands(shm) /\ ~Commands(ser.last)
  BY <1>1, ZeroFacts
<1>3. Told /\ Unread /\ Aged
  BY <1>1, <1>2, ZeroFacts DEF Told, Unread, Aged
<1>4. Held /\ Down
  BY <1>1, ZeroFacts, ChannelFacts DEF Held, SemaphoreHeld, Down
<1> QED
  BY <1>1, <1>3, <1>4, ChannelFacts DEF UplinkInv, UplinkFailsafeBounded

\* One step of either process.
LEMMA StepUplink == TypeInv /\ UplinkInv /\ Next => UplinkInv'
<1> SUFFICES ASSUME TypeInv, UplinkInv, Next PROVE UplinkInv'
  OBVIOUS
<1>1. CASE UplinkRecv \/ UdpSendClients
  BY <1>1, UdpUplink
<1>2. CASE PixrcAlone
  BY <1>2, UdpUplink, SerUplink, OtherUplink DEF PixrcAlone
<1>3. CASE MgrNext
  BY <1>3, ParseUplink, MgrTickUplink, MgrPutUplink, FreshUplink, DisableUplink, KilledUplink
     DEF MgrNext
<1>4. CASE Tick
  BY <1>4, TickUplink
<1> QED
  BY <1>1, <1>2, <1>3, <1>4 DEF Next

\* One step of either process, or none.
LEMMA StepUplinkInv == TypeInv /\ UplinkInv /\ [Next]_vars => UplinkInv'
<1>1. UplinkInv /\ UNCHANGED vars => UplinkInv'
  BY DEF vars, pixVars, mgrVars, UplinkInv, Held, SemaphoreHeld, Down, Told, Managed,
     Settling, Unread, Aged, UplinkFailsafeBounded, UplinkFailsafeBound, LastWrite, Late,
     Commands, DsmFailsafe, UdpInit, SerInit, DeadMgr, FreshMgr, NoChannels, Ok, AsPacket,
     DefaultChannels
<1> QED
  BY <1>1, StepUplink

\* With shotManager in the chain, whoever dies and is started again, every frame after
\* the bound has the failsafe throttle, for any timeouts and any length of the queue.
THEOREM UplinkFailsafeCorrect == Spec => []UplinkFailsafeBounded
<1>1. UplinkInv => UplinkFailsafeBounded
  BY DEF UplinkInv
<1> QED
  BY <1>1, StepTypeInv, StepUplinkInv, InitTypeInv, InitUplink, PTL DEF Spec

-----------------------------------------------------------------------------
(* The semaphore and the lock, with both processes.                        *)

\* No two of the three threads that use the shared packet are ever inside rc_ipc_put,
\* rc_ipc_get and rc_ipc.put at once, whichever process dies and is started again.
THEOREM UplinkSemaphoreCorrect ==
    Spec => [](SemaphoreHeld /\ (sem = "mgr" <=> mgr.pc = "copy"))
<1>1. UplinkInv => SemaphoreHeld /\ (sem = "mgr" <=> mgr.pc = "copy")
  BY DEF UplinkInv, Held
<1> QED
  BY <1>1, StepTypeInv, StepUplinkInv, InitTypeInv, InitUplink, PTL DEF Spec

\* rcManager cannot delay a lock-out: it changes nothing the lock depends on.
LEMMA StepUplinkLock == TypeInv /\ LockInv /\ Next => LockInv'
<1> SUFFICES ASSUME TypeInv, LockInv, Next PROVE LockInv'
  OBVIOUS
<1>0. TypeOK
  BY UplinkTypes
<1>1. CASE UplinkRecv
  <2>1. UNCHANGED << lockedFor, lockFiles, rcLocked, frame, proc, due >>
    BY <1>1 DEF UplinkRecv, UdpRecv
  <2> QED
    BY <2>1 DEF LockInv, LockStopsFrames, Locked
<1>2. CASE UdpSendClients \/ PixrcAlone
  <2>1. PixNext
    BY <1>2 DEF UdpSendClients, PixrcAlone, PixNext, UdpStep
  <2> QED
    BY <1>0, <2>1, StepLock
<1>3. CASE MgrNext
  <2>1. UNCHANGED RadioSide /\ ("mon" \in due => "mon" \in due')
    BY <1>3 DEF MgrNext, Parse, MgrTick, MgrAcquire, MgrCopy, EnableRemapping,
       DisableRemapping, MgrKilled, MgrStart
  <2> QED
    BY <2>1 DEF RadioSide, LockInv, LockStopsFrames, Locked
<1>4. CASE Tick
  BY <1>0, <1>4, ElapseLock DEF Tick
<1> QED
  BY <1>1, <1>2, <1>3, <1>4 DEF Next

\* A lock-out stops the frames within two ticks while shotManager remaps the sticks,
\* too: pixrc's serial thread is the only way to the Pixhawk.
THEOREM UplinkLockCorrect == Spec => []LockStopsFrames
<1>1. TypeInv /\ LockInv /\ [Next]_vars => LockInv'
  <2>1. LockInv /\ UNCHANGED vars => LockInv'
    BY DEF vars, pixVars, mgrVars, LockInv, LockStopsFrames, Locked
  <2> QED
    BY <2>1, StepUplinkLock
<1>2. Init => LockInv
  BY InitLock DEF Init
<1>3. LockInv => LockStopsFrames
  BY DEF LockInv
<1>4. TypeInv /\ [Next]_vars => TypeInv'
  BY StepTypeInv
<1> QED
  BY <1>1, <1>2, <1>3, <1>4, InitTypeInv, PTL DEF Spec

=============================================================================

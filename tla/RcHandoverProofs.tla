-------------------------- MODULE RcHandoverProofs --------------------------
(***************************************************************************)
(* Proofs about RcHandover, for any length of the command queue and any    *)
(* number of deaths of the two processes.                                  *)
(***************************************************************************)
EXTENDS RcHandover, SequenceTheorems, TLAPS

UplinkCommands == {"attach uplink", "detach uplink"}

\* No command of q is about the uplink.
NoUplink(q) == \A j \in 1..Len(q) : q[j] \notin UplinkCommands

\* The last command of q that is about the uplink is c.
LastIs(q, c) ==
    \E k \in 1..Len(q) :
        q[k] = c /\ \A j \in 1..Len(q) : j > k => q[j] \notin UplinkCommands

\* What uplink_attached will be when the commands of q have been handled.
WillAttach(a, q) == LastIs(q, "attach uplink") \/ (NoUplink(q) /\ a = TRUE)
WillDetach(a, q) == LastIs(q, "detach uplink") \/ (NoUplink(q) /\ a = FALSE)

\* Every variable but those of the shared memory has its type.
ControlOK ==
    /\ proc \in {"up", "down"} /\ mgr \in {"up", "down"}
    /\ attached \in BOOLEAN /\ clients \in BOOLEAN
    /\ cmds \in Seq(Commands) /\ Len(cmds) <= MaxCmds
    /\ run \in Changing \cup {"loop", "put", "wait", "write"}
    /\ cb \in {"idle", "attach uplink", "close"}
    /\ remap \in BOOLEAN /\ ipc \in BOOLEAN
    /\ overlap \in BOOLEAN /\ restarted \in BOOLEAN /\ refused \in BOOLEAN
    /\ crashes \in 0..MaxCrash

-----------------------------------------------------------------------------
(* Lemmas on the command queue.                                            *)

\* A command about the uplink decides once it is last.
LEMMA LastAppended ==
    ASSUME NEW q \in Seq(Commands), NEW c \in UplinkCommands
    PROVE  LastIs(Append(q, c), c)
BY DEF LastIs

\* Handling the first command: either it was about the uplink and is the one
\* that decides, or what will be is the same as before.
LEMMA TailNone ==
    ASSUME NEW q \in Seq(Commands), q # << >>, NoUplink(q)
    PROVE  Head(q) \notin UplinkCommands /\ NoUplink(Tail(q))
<1>1. Len(q) \in Nat /\ Len(q) > 0 /\ Head(q) = q[1]
  OBVIOUS
<1>2. ASSUME NEW j \in 1..Len(Tail(q))
      PROVE  Tail(q)[j] \notin UplinkCommands
  <2>1. j + 1 \in 1..Len(q) /\ Tail(q)[j] = q[j + 1]
    BY <1>1
  <2> QED
    BY <2>1 DEF NoUplink
<1> QED
  BY <1>1, <1>2 DEF NoUplink

\* Taking the first command leaves the last one about the uplink, or it was the first.
LEMMA TailLast ==
    ASSUME NEW q \in Seq(Commands), q # << >>, NEW c \in UplinkCommands, LastIs(q, c)
    PROVE  LastIs(Tail(q), c) \/ (Head(q) = c /\ NoUplink(Tail(q)))
<1>1. Len(q) \in Nat /\ Len(q) > 0 /\ Head(q) = q[1] /\ Len(Tail(q)) = Len(q) - 1
  OBVIOUS
<1>2. \A j \in 1..Len(Tail(q)) : j + 1 \in 1..Len(q) /\ Tail(q)[j] = q[j + 1]
  BY <1>1
<1>3. PICK k \in 1..Len(q) :
        q[k] = c /\ \A j \in 1..Len(q) : j > k => q[j] \notin UplinkCommands
  BY DEF LastIs
<1>4. CASE k = 1
  <2>1. \A j \in 1..Len(Tail(q)) : Tail(q)[j] \notin UplinkCommands
    BY <1>1, <1>2, <1>3, <1>4
  <2> QED
    BY <2>1, <1>1, <1>3, <1>4 DEF NoUplink
<1>5. CASE k # 1
  <2>1. k - 1 \in 1..Len(Tail(q)) /\ Tail(q)[k - 1] = c
    BY <1>1, <1>2, <1>3, <1>5
  <2>2. \A j \in 1..Len(Tail(q)) : j > k - 1 => Tail(q)[j] \notin UplinkCommands
    BY <1>1, <1>2, <1>3
  <2> QED
    BY <2>1, <2>2 DEF LastIs
<1> QED
  BY <1>4, <1>5

\* Handling the first command of the queue does not change what will be.
LEMMA CommandWill ==
    ASSUME ControlOK, Command
    PROVE  /\ WillAttach(attached, cmds) => WillAttach(attached', cmds')
           /\ WillDetach(attached, cmds) => WillDetach(attached', cmds')
<1>1. cmds \in Seq(Commands) /\ cmds # << >> /\ cmds' = Tail(cmds)
  BY DEF ControlOK, Command
<1>2. attached' = UplinkAfter(Head(cmds))
  BY DEF Command
<1>3. CASE Head(cmds) \notin UplinkCommands
  <2>1. attached' = attached
    BY <1>2, <1>3 DEF UplinkAfter, UplinkCommands
  <2>2. NoUplink(cmds) => NoUplink(Tail(cmds))
    BY <1>1, TailNone
  <2>3. \A c \in UplinkCommands : LastIs(cmds, c) => LastIs(Tail(cmds), c)
    BY <1>1, <1>3, TailLast
  <2> QED
    BY <1>1, <2>1, <2>2, <2>3 DEF WillAttach, WillDetach, UplinkCommands
<1>4. CASE Head(cmds) = "attach uplink"
  <2>1. attached' = TRUE
    BY <1>2, <1>4 DEF UplinkAfter
  <2>2. ~NoUplink(cmds)
    BY <1>1, <1>4, TailNone DEF UplinkCommands
  <2>3. LastIs(cmds, "attach uplink") => LastIs(Tail(cmds), "attach uplink") \/ NoUplink(Tail(cmds))
    BY <1>1, TailLast DEF UplinkCommands
  <2>4. LastIs(cmds, "detach uplink") => LastIs(Tail(cmds), "detach uplink")
    BY <1>1, <1>4, TailLast DEF UplinkCommands
  <2> QED
    BY <1>1, <2>1, <2>2, <2>3, <2>4 DEF WillAttach, WillDetach
<1>5. CASE Head(cmds) = "detach uplink"
  <2>1. attached' = FALSE
    BY <1>2, <1>5 DEF UplinkAfter
  <2>2. ~NoUplink(cmds)
    BY <1>1, <1>5, TailNone DEF UplinkCommands
  <2>3. LastIs(cmds, "detach uplink") => LastIs(Tail(cmds), "detach uplink") \/ NoUplink(Tail(cmds))
    BY <1>1, TailLast DEF UplinkCommands
  <2>4. LastIs(cmds, "attach uplink") => LastIs(Tail(cmds), "attach uplink")
    BY <1>1, <1>5, TailLast DEF UplinkCommands
  <2> QED
    BY <1>1, <2>1, <2>2, <2>3, <2>4 DEF WillAttach, WillDetach
<1> QED
  BY <1>3, <1>4, <1>5 DEF UplinkCommands

-----------------------------------------------------------------------------
(* The inductive invariant.                                                *)

\* A process that is down has no commands, or no thread in the middle of a call.
DownClean ==
    /\ proc = "down" => cmds = << >>
    /\ mgr = "down" => run = "loop" /\ cb = "idle" /\ ~remap /\ ~ipc

\* Without overlap one thread changes the hand-over at a time, and
\* remappingSticks tells which way.
OneWay ==
    ~overlap =>
        /\ run \in Changing => cb = "idle"
        /\ run \in {"open", "detach uplink"} => remap
        /\ run \in {"start", "attach uplink", "close"} \/ cb # "idle" => ~remap

Running == proc = "up" /\ mgr = "up" /\ ~overlap

\* The queued commands bring the uplink where remappingSticks says.
WillBeRestored ==
    Running /\ ~remap /\ ~refused
    /\ run \notin {"start", "attach uplink"} /\ cb # "attach uplink"
        => WillAttach(attached, cmds)

WillBeDetached ==
    Running /\ remap /\ run \notin {"open", "detach uplink"} /\ ~restarted
        => WillDetach(attached, cmds)

HandoverInv == DownClean /\ OneWay /\ WillBeRestored /\ WillBeDetached

-----------------------------------------------------------------------------
(* Types.                                                                  *)

\* Sending a command keeps the type and the bound of the queue.
LEMMA SendToType ==
    ASSUME ControlOK, NEW command \in Commands, SendTo(command)
    PROVE  cmds' \in Seq(Commands) /\ Len(cmds') <= MaxCmds
<1>1. cmds \in Seq(Commands) /\ MaxCmds \in Nat
  BY HandoverAssumption DEF ControlOK, HandoverAssumption
<1>2. cmds' = Append(cmds, command) /\ Len(cmds) < MaxCmds
  BY DEF SendTo, Accepts
<1> QED
  BY <1>1, <1>2

\* So does sending several of which some are refused.
LEMMA SendUntilType ==
    ASSUME ControlOK, NEW commands \in Seq(Commands), SendUntilRefused(commands)
    PROVE  cmds' \in Seq(Commands) /\ Len(cmds') <= MaxCmds
<1> DEFINE all == cmds \o commands
<1>1. cmds \in Seq(Commands) /\ Len(cmds) <= MaxCmds /\ MaxCmds \in Nat
  BY HandoverAssumption DEF ControlOK, HandoverAssumption
<1>2. all \in Seq(Commands) /\ Len(all) \in Nat
  BY <1>1
<1>3. CASE proc # "down" /\ Len(all) > MaxCmds
  <2>1. cmds' = SubSeq(all, 1, MaxCmds)
    BY <1>1, <1>2, <1>3 DEF SendUntilRefused
  <2> HIDE DEF all
  <2>2. SubSeq(all, 1, MaxCmds) \in Seq(Commands) /\ Len(SubSeq(all, 1, MaxCmds)) = MaxCmds
    <3>1. \A i \in 1..MaxCmds : all[i] \in Commands
      BY <1>1, <1>2, <1>3
    <3> QED
      BY <1>1, <1>2, <1>3, <3>1
  <2> QED
    BY <1>1, <2>1, <2>2
<1>4. CASE proc = "down" \/ Len(all) <= MaxCmds
  BY <1>1, <1>2, <1>4 DEF SendUntilRefused
<1> QED
  BY <1>1, <1>2, <1>3, <1>4

\* Handling a command keeps the type and the bound of the queue.
LEMMA TailType ==
    ASSUME ControlOK, Command
    PROVE  cmds' \in Seq(Commands) /\ Len(cmds') <= MaxCmds
<1>1. cmds \in Seq(Commands) /\ Len(cmds) <= MaxCmds /\ MaxCmds \in Nat
  BY HandoverAssumption DEF ControlOK, HandoverAssumption
<1>2. cmds # << >> /\ cmds' = Tail(cmds)
  BY DEF Command
<1>3. Tail(cmds) \in Seq(Commands) /\ Len(Tail(cmds)) = Len(cmds) - 1
  BY <1>1, <1>2
<1> QED
  BY <1>1, <1>2, <1>3

\* What a command makes of the uplink and of the clients is a Boolean.
LEMMA AttachedType ==
    ASSUME ControlOK, NEW c
    PROVE  UplinkAfter(c) \in BOOLEAN /\ ClientsAfter(c) \in BOOLEAN
BY Zenon DEF ControlOK, UplinkAfter, ClientsAfter

\* The invariants hold initially.
LEMMA InitInv == Init => ControlOK /\ HandoverInv
<1> SUFFICES ASSUME Init PROVE ControlOK /\ HandoverInv
  OBVIOUS
<1>1. ControlOK
  <2>1. crashes \in 0..MaxCrash /\ Len(cmds) <= MaxCmds /\ cmds \in Seq(Commands)
    BY HandoverAssumption DEF Init, HandoverAssumption
  <2> QED
    BY <2>1 DEF Init, ControlOK, Changing
<1>2. HandoverInv
  BY DEF Init, HandoverInv, DownClean, OneWay, WillBeRestored, WillBeDetached,
         Running, Changing
<1> QED
  BY <1>1, <1>2

\* The steps of pixrc preserve the types.
LEMMA PixrcType == ControlOK /\ PixrcNext => ControlOK'
<1> SUFFICES ASSUME ControlOK, PixrcNext PROVE ControlOK'
  OBVIOUS
<1>1. CASE Command
  <2>1. attached' \in BOOLEAN /\ clients' \in BOOLEAN
    BY <1>1, AttachedType DEF Command
  <2> QED
    BY <1>1, <2>1, TailType, ZenonT(60) DEF Command, ControlOK
<1>2. CASE PixrcBegin
  BY <1>2, ZenonT(60) DEF PixrcBegin, ControlOK
<1>3. ASSUME NEW u \in PixrcThreads, PixrcGoesOn(u) PROVE ControlOK'
  BY <1>3, ZenonT(60) DEF PixrcGoesOn, ControlOK
<1>4. CASE PixrcDies
  <2>1. crashes' \in 0..MaxCrash
    <3>1. crashes \in 0..MaxCrash /\ MaxCrash \in Nat
      BY HandoverAssumption DEF ControlOK, HandoverAssumption
    <3>2. crashes' = crashes \/ (crashes < MaxCrash /\ crashes' = crashes + 1)
      BY <1>4 DEF PixrcDies
    <3> QED
      BY <3>1, <3>2
  <2>2. cmds' \in Seq(Commands) /\ Len(cmds') <= MaxCmds
    BY <1>4, HandoverAssumption DEF PixrcDies, HandoverAssumption
  <2> QED
    BY <1>4, <2>1, <2>2, ZenonT(60) DEF PixrcDies, ControlOK
<1>5. CASE PixrcRestarts
  BY <1>5, ZenonT(60) DEF PixrcRestarts, ControlOK
<1> QED
  BY <1>1, <1>2, <1>3, <1>4, <1>5 DEF PixrcNext

\* The start and a death of shotManager preserve the types.
LEMMA MgrType == ControlOK /\ (MgrStart \/ StartRaises \/ MgrKilled) => ControlOK'
<1> SUFFICES ASSUME ControlOK, MgrStart \/ StartRaises \/ MgrKilled PROVE ControlOK'
  OBVIOUS
<1>1. CASE MgrStart
  <2>1. cmds' \in Seq(Commands) /\ Len(cmds') <= MaxCmds
    BY <1>1, SendToType DEF MgrStart, Commands
  <2> QED
    BY <1>1, <2>1, ZenonT(60) DEF MgrStart, ControlOK, Changing
<1>3. CASE StartRaises
  BY <1>3, ZenonT(60) DEF StartRaises, Dead, ControlOK
<1>2. CASE MgrKilled
  <2>1. crashes' \in 0..MaxCrash
    <3>1. crashes \in 0..MaxCrash /\ MaxCrash \in Nat
      BY HandoverAssumption DEF ControlOK, HandoverAssumption
    <3>2. crashes < MaxCrash /\ crashes' = crashes + 1
      BY <1>2 DEF MgrKilled
    <3> QED
      BY <3>1, <3>2
  <2> QED
    BY <1>2, <2>1 DEF MgrKilled, Dead, ControlOK
<1> QED
  BY <1>1, <1>2, <1>3

\* The steps of the Run loop preserve the types.
LEMMA RunType == ControlOK /\ RunNext => ControlOK'
<1> SUFFICES ASSUME ControlOK, RunNext PROVE ControlOK'
  OBVIOUS
<1>1. CASE Enable
  BY <1>1, Zenon DEF Enable, Pixrc, ControlOK, Changing
<1>2. CASE Open
  BY <1>2, ZenonT(60) DEF Open, Pixrc, ControlOK, Changing
<1>3. CASE DetachUplink
  <2>1. cmds' \in Seq(Commands) /\ Len(cmds') <= MaxCmds
    BY <1>3, SendToType DEF DetachUplink, Commands
  <2> QED
    BY <1>3, <2>1, ZenonT(60) DEF DetachUplink, Pixrc, ControlOK
<1>4. CASE Disable
  BY <1>4, Zenon DEF Disable, Pixrc, ControlOK, Changing
<1>5. CASE AttachUplink
  <2>1. cmds' \in Seq(Commands) /\ Len(cmds') <= MaxCmds
    BY <1>5, SendToType DEF AttachUplink, Commands
  <2> QED
    BY <1>5, <2>1, ZenonT(60) DEF AttachUplink, Pixrc, ControlOK, Changing
<1>6. CASE Close
  BY <1>6, ZenonT(60) DEF Close, Pixrc, ControlOK
<1>7. CASE Put
  BY <1>7, ZenonT(60) DEF Put, Pixrc, ControlOK
<1>8. CASE Acquire \/ Acquired \/ WriteWord \/ Release
  BY <1>8, ZenonT(60) DEF Acquire, Acquired, WriteWord, Release, Pixrc, ControlOK
<1>9. CASE RunRaises
  <2>1. cmds' \in Seq(Commands) /\ Len(cmds') <= MaxCmds
    <3>1. SendUntilRefused(Farewell)
      BY <1>9 DEF RunRaises, Raise
    <3>2. << "detach", "attach uplink" >> \in Seq(Commands) /\ << "detach" >> \in Seq(Commands)
      BY DEF Commands
    <3>3. Farewell \in Seq(Commands)
      BY <3>2, Zenon DEF Farewell
    <3> QED
      BY <3>1, <3>3, SendUntilType
  <2> QED
    BY <1>9, <2>1 DEF RunRaises, Raise, Dead, ControlOK
<1> QED
  BY <1>1, <1>2, <1>3, <1>4, <1>5, <1>6, <1>7, <1>8, <1>9 DEF RunNext

\* The steps of dronekit's thread preserve the types.
LEMMA CbType == ControlOK /\ CbNext => ControlOK'
<1> SUFFICES ASSUME ControlOK, CbNext PROVE ControlOK'
  OBVIOUS
<1>1. CASE CbDisable
  BY <1>1, Zenon DEF CbDisable, Pixrc, ControlOK, Changing
<1>2. CASE CbAttachUplink
  <2>1. cmds' \in Seq(Commands) /\ Len(cmds') <= MaxCmds
    BY <1>2, SendToType DEF CbAttachUplink, Commands
  <2>2. /\ cb' = "close" /\ refused' = FALSE
        /\ UNCHANGED << Pixrc, memory, mgr, run, remap, ipc, overlap >>
    BY <1>2, Zenon DEF CbAttachUplink
  <2>3. UNCHANGED << proc, attached, clients, restarted, crashes >>
    BY <2>2, Zenon DEF Pixrc
  <2> QED
    BY <2>1, <2>2, <2>3, ZenonT(60) DEF ControlOK
<1>3. CASE CbRaises \/ CbClose
  BY <1>3, ZenonT(60) DEF CbRaises, CbClose, Pixrc, ControlOK
<1> QED
  BY <1>1, <1>2, <1>3 DEF CbNext

\* A step that changes nothing preserves the types.
LEMMA StutterType == ControlOK /\ UNCHANGED vars => ControlOK'
BY ZenonT(60) DEF ControlOK, vars

\* Every variable of the hand-over keeps its type.
LEMMA ControlCorrect == Spec => []ControlOK
<1>1. Init => ControlOK
  BY InitInv
<1>2. ControlOK /\ [Next]_vars => ControlOK'
  BY StutterType, PixrcType, MgrType, RunType, CbType DEF Next
<1> QED
  BY <1>1, <1>2, PTL DEF Spec

-----------------------------------------------------------------------------
(* Processes that are down.                                                *)

\* A process that is down stays without traces until it starts.
LEMMA CleanStep ==
    ASSUME ControlOK, DownClean, Next
    PROVE  DownClean'
<1>1. CASE PixrcNext
  <2>1. CASE Command \/ PixrcBegin \/ (\E u \in PixrcThreads : PixrcGoesOn(u))
    BY <2>1 DEF Command, PixrcBegin, PixrcGoesOn, DownClean
  <2>2. CASE PixrcDies
    BY <2>2 DEF PixrcDies, DownClean
  <2>3. CASE PixrcRestarts
    BY <2>3 DEF PixrcRestarts, DownClean
  <2> QED
    BY <1>1, <2>1, <2>2, <2>3 DEF PixrcNext
<1>2. CASE MgrStart \/ StartRaises \/ MgrKilled
  BY <1>2 DEF MgrStart, StartRaises, MgrKilled, SendTo, Accepts, Dead, DownClean, ControlOK
<1>3. CASE RunNext
  <2>1. CASE RunRaises
    BY <2>1 DEF RunRaises, Raise, SendUntilRefused, Dead, DownClean, ControlOK
  <2>2. CASE Enable \/ Open \/ DetachUplink \/ Disable \/ AttachUplink \/ Close
    BY <2>2 DEF Enable, Open, DetachUplink, Disable, AttachUplink, Close, RunAt, Pixrc,
                SendTo, Accepts, DownClean, ControlOK
  <2>3. CASE Put \/ Acquire \/ Acquired \/ WriteWord \/ Release
    BY <2>3 DEF Put, Acquire, Acquired, WriteWord, Release, RunAt, Pixrc, DownClean, ControlOK
  <2> QED
    BY <1>3, <2>1, <2>2, <2>3 DEF RunNext
<1>4. CASE CbNext
  <2>1. CASE CbDisable
    BY <2>1, Zenon DEF CbDisable, Pixrc, DownClean
  <2>2. CASE CbAttachUplink
    BY <2>2 DEF CbAttachUplink, Pixrc, SendTo, Accepts, DownClean
  <2>3. CASE CbRaises \/ CbClose
    BY <2>3 DEF CbRaises, CbClose, Pixrc, DownClean
  <2> QED
    BY <1>4, <2>1, <2>2, <2>3 DEF CbNext
<1> QED
  BY <1>1, <1>2, <1>3, <1>4 DEF Next

-----------------------------------------------------------------------------
(* The shared memory.                                                      *)

Putters == {"udp", "mgr"}
Threads == Putters \cup {"ser"}
WholePackets == {Ipc!Whole(p) : p \in Packets}

\* Who copies has the semaphore.
OneCopies == \A u \in Threads : u \in busy <=> sem = u

\* What a thread has copied is the same on both sides; a packet that nobody puts is
\* whole, and so is the one serial_task has when it is not getting another.
HalfWay ==
    /\ \A u \in Putters : u \in busy =>
           pkt[u] \in WholePackets /\ \A w \in Words \ left[u] : shm[w] = pkt[u][w]
    /\ "ser" \in busy => \A w \in Words \ left["ser"] : pkt["ser"][w] = shm[w]
    /\ sem \notin Putters \cup {"lost"} => shm \in WholePackets
    /\ "ser" \notin busy => pkt["ser"] \in WholePackets

MemoryInv == Ipc!TypeOK /\ OneCopies /\ HalfWay

\* Shared memory is created empty.
LEMMA InitMemory == Ipc!Init => MemoryInv /\ Ipc!Register!Init
<1> SUFFICES ASSUME Ipc!Init PROVE MemoryInv /\ Ipc!Register!Init
  OBVIOUS
<1> USE HandoverAssumption DEF Ipc!Init
<1>1. Ipc!TypeOK
  BY DEF Ipc!TypeOK, Ipc!Users, Ipc!Copies, Ipc!Whole
<1>2. OneCopies /\ HalfWay
  BY DEF OneCopies, HalfWay, WholePackets, Putters, Threads, Ipc!Users
<1>3. Ipc!Register!Init
  BY DEF Ipc!Register!Init, Ipc!Value, Ipc!Got, Ipc!Users
<1> QED
  BY <1>1, <1>2, <1>3 DEF MemoryInv

\* A packet in memory is not None.
LEMMA ValueNotNone == Ipc!TypeOK /\ sem # "lost" => Ipc!Value # None
BY HandoverAssumption DEF Ipc!TypeOK, Ipc!Value, Ipc!Copies, Ipc!Users

\* Taking the semaphore for a put is the put.
LEMMA BeginPutStep ==
    ASSUME MemoryInv, NEW u, NEW p \in Packets, Ipc!BeginPut(u, p)
    PROVE  MemoryInv' /\ Ipc!Register!Put(Ipc!Whole(p))
<1> USE DEF MemoryInv, Ipc!BeginPut, Ipc!Enter, Ipc!Wait
<1>1. u \in Putters /\ u \in Threads /\ u # "ser" /\ sem = "free" /\ sem' = u
  BY DEF Putters, Threads
<1>2. busy = {} /\ busy' = {u} /\ shm' = shm /\ shm \in WholePackets
  BY <1>1 DEF OneCopies, HalfWay, Ipc!TypeOK, Ipc!Users, Putters, Threads
<1>3. Ipc!Whole(p) \in Ipc!Copies /\ Ipc!Whole(p) \in WholePackets
  BY DEF Ipc!Whole, Ipc!Copies, WholePackets
<1>4. left'[u] = Words /\ pkt'[u] = Ipc!Whole(p) /\ pkt'["ser"] = pkt["ser"]
  BY <1>1 DEF Ipc!TypeOK, Ipc!Users
<1>5. Ipc!TypeOK'
  BY <1>1, <1>2, <1>3 DEF Ipc!TypeOK, Ipc!Users
<1>6. OneCopies'
  BY <1>1, <1>2 DEF OneCopies
<1>7. HalfWay'
  BY <1>1, <1>2, <1>3, <1>4 DEF HalfWay, WholePackets
<1>8. Ipc!Value' = Ipc!Whole(p)
  BY <1>1, <1>4 DEF Ipc!Value, Putters
<1>9. UNCHANGED Ipc!Got
  BY <1>1, <1>2, <1>4 DEF Ipc!Got
<1> QED
  BY <1>1, <1>5, <1>6, <1>7, <1>8, <1>9, ValueNotNone DEF Ipc!Register!Put

\* Taking the semaphore for a get is the get.
LEMMA BeginGetStep ==
    ASSUME MemoryInv, NEW u, Ipc!BeginGet(u)
    PROVE  MemoryInv' /\ u \in {"ser"} /\ Ipc!Register!Get(u)
<1> USE DEF MemoryInv, Ipc!BeginGet, Ipc!Enter, Ipc!Wait
<1>1. u = "ser" /\ u \in Threads /\ u \notin Putters /\ sem = "free" /\ sem' = u
  BY DEF Putters, Threads
<1>2. busy = {} /\ busy' = {u} /\ shm' = shm /\ pkt' = pkt /\ shm \in WholePackets
  BY <1>1 DEF OneCopies, HalfWay, Ipc!TypeOK, Ipc!Users, Putters, Threads
<1>3. left'["ser"] = Words
  BY <1>1 DEF Ipc!TypeOK, Ipc!Users
<1>4. Ipc!TypeOK'
  BY <1>1, <1>2 DEF Ipc!TypeOK, Ipc!Users
<1>5. OneCopies'
  BY <1>1, <1>2 DEF OneCopies
<1>6. HalfWay'
  BY <1>1, <1>2, <1>3 DEF HalfWay, WholePackets
<1>7. Ipc!Value = shm /\ Ipc!Value' = shm
  BY <1>1, <1>2 DEF Ipc!Value, Putters
<1>8. Ipc!Got' = [Ipc!Got EXCEPT !["ser"] = shm]
  BY <1>1, <1>2 DEF Ipc!Got
<1> QED
  BY <1>1, <1>4, <1>5, <1>6, <1>7, <1>8, ValueNotNone DEF Ipc!Register!Get

\* Copying a word changes nothing for the users.
LEMMA CopyStep ==
    ASSUME MemoryInv, NEW u, NEW w \in Words, Ipc!Copy(u, w)
    PROVE  MemoryInv' /\ UNCHANGED Ipc!Register!vars
<1> USE DEF MemoryInv, Ipc!Copy
<1>1. u \in Threads /\ sem = u /\ busy = {u} /\ sem # "lost" /\ sem # "free"
  BY DEF OneCopies, Ipc!TypeOK, Ipc!Users, Putters, Threads
<1>2. sem' = sem /\ busy' = busy /\ left'[u] = left[u] \ {w}
  BY <1>1 DEF Ipc!TypeOK, Ipc!Users, Threads, Putters
<1>3. OneCopies'
  BY <1>2 DEF OneCopies
<1>4. CASE u \in Putters
  <2>1. pkt' = pkt /\ shm' = [shm EXCEPT ![w] = pkt[u][w]] /\ u # "ser"
    BY <1>4 DEF Putters
  <2>2. Ipc!TypeOK'
    BY <1>1, <1>2, <2>1 DEF Ipc!TypeOK, Ipc!Users, Ipc!Copies, Threads, Putters
  <2>3. \A x \in Words \ left'[u] : shm'[x] = pkt'[u][x]
    BY <1>1, <1>2, <1>4, <2>1 DEF HalfWay, Ipc!TypeOK, Ipc!Copies
  <2>4. HalfWay'
    BY <1>1, <1>2, <1>4, <2>1, <2>3 DEF HalfWay, WholePackets
  <2>5. UNCHANGED << Ipc!Value, Ipc!Got >>
    BY <1>1, <1>2, <1>4, <2>1 DEF Ipc!Value, Ipc!Got, Putters
  <2> QED
    BY <1>3, <2>2, <2>4, <2>5 DEF Ipc!Register!vars
<1>5. CASE u = "ser"
  <2>1. shm' = shm /\ pkt' = [pkt EXCEPT !["ser"] = [@ EXCEPT ![w] = shm[w]]] /\ u \notin Putters
    BY <1>5 DEF Putters
  <2>2. Ipc!TypeOK'
    BY <1>1, <1>2, <2>1 DEF Ipc!TypeOK, Ipc!Users, Ipc!Copies, Threads, Putters
  <2>3. \A x \in Words \ left'["ser"] : pkt'["ser"][x] = shm'[x]
    BY <1>1, <1>2, <1>5, <2>1 DEF HalfWay, Ipc!TypeOK, Ipc!Copies, Ipc!Users
  <2>4. HalfWay'
    BY <1>1, <1>2, <1>5, <2>1, <2>3 DEF HalfWay, WholePackets, Putters
  <2>5. UNCHANGED << Ipc!Value, Ipc!Got >>
    BY <1>1, <1>2, <1>5, <2>1 DEF Ipc!Value, Ipc!Got, Putters
  <2> QED
    BY <1>3, <2>2, <2>4, <2>5 DEF Ipc!Register!vars
<1> QED
  BY <1>1, <1>4, <1>5 DEF Threads

\* Giving the semaphore back changes nothing for the users either.
LEMMA FinishStep ==
    ASSUME MemoryInv, NEW u, Ipc!Finish(u)
    PROVE  MemoryInv' /\ UNCHANGED Ipc!Register!vars
<1> USE DEF MemoryInv, Ipc!Finish
<1>1. u \in Threads /\ sem = u /\ busy = {u} /\ sem # "lost" /\ sem' = "free" /\ busy' = {}
  BY DEF OneCopies, Ipc!TypeOK, Ipc!Users, Putters, Threads
<1>2. left[u] = {} /\ shm' = shm /\ left' = left
  OBVIOUS
<1>3. OneCopies'
  BY <1>1 DEF OneCopies, Putters, Threads
<1>4. shm \in Ipc!Copies /\ pkt[u] \in Ipc!Copies /\ Ipc!Whole(Blank) \in Ipc!Copies
  BY <1>1, HandoverAssumption DEF Ipc!TypeOK, Ipc!Users, Ipc!Copies, Ipc!Whole, Putters, Threads
<1>5. shm = pkt[u] /\ shm \in WholePackets
  <2>1. \A w \in Words : shm[w] = pkt[u][w]
    BY <1>1, <1>2 DEF HalfWay, Putters, Threads
  <2>2. shm = pkt[u]
    BY <1>4, <2>1 DEF Ipc!Copies
  <2> QED
    BY <1>1, <2>2 DEF HalfWay, Putters, Threads
<1>6. pkt'["ser"] = pkt["ser"] /\ pkt' \in [Ipc!Users -> Ipc!Copies]
  BY <1>1, <1>4 DEF Ipc!TypeOK, Ipc!Users, Putters, Threads
<1>7. Ipc!TypeOK'
  BY <1>1, <1>2, <1>6 DEF Ipc!TypeOK
<1>8. HalfWay'
  BY <1>1, <1>2, <1>5 DEF HalfWay, WholePackets
<1>9. Ipc!Value = shm /\ Ipc!Value' = shm
  BY <1>1, <1>2, <1>5 DEF Ipc!Value, Putters
<1>10. UNCHANGED Ipc!Got
  BY <1>1, <1>2, <1>5, <1>6 DEF Ipc!Got, Putters, Threads
<1> QED
  BY <1>3, <1>7, <1>8, <1>9, <1>10 DEF Ipc!Register!vars

\* The end of a process breaks the register if it had the semaphore.
LEMMA EndStep ==
    ASSUME MemoryInv, NEW threads \in SUBSET Threads, Ipc!End(threads)
    PROVE  MemoryInv' /\ Ipc!Register!End(threads)
<1> USE DEF MemoryInv, Ipc!End
<1>1. Ipc!Whole(Blank) \in Ipc!Copies
  BY HandoverAssumption DEF Ipc!Copies, Ipc!Whole
<1>2. Ipc!TypeOK'
  BY <1>1 DEF Ipc!TypeOK, Ipc!Users
<1>3. \A u \in Threads \ threads : left'[u] = left[u] /\ pkt'[u] = pkt[u]
  BY DEF Ipc!Users, Putters, Threads
<1>4. "lost" \notin Threads
  BY DEF Putters, Threads
<1>5. OneCopies'
  BY <1>4 DEF OneCopies
<1>6. HalfWay'
  <2>1. \A u \in Putters : u \in busy' =>
            pkt'[u] \in WholePackets /\ \A w \in Words \ left'[u] : shm'[w] = pkt'[u][w]
    BY <1>3 DEF HalfWay, Threads
  <2>2. "ser" \in busy' => \A w \in Words \ left'["ser"] : pkt'["ser"][w] = shm'[w]
    BY <1>3 DEF HalfWay, Threads
  <2>3. "ser" \notin busy' => pkt'["ser"] \in WholePackets
    BY <1>3, HandoverAssumption DEF HalfWay, WholePackets, Threads, Ipc!Users
  <2> QED
    BY <2>1, <2>2, <2>3 DEF HalfWay, WholePackets
<1>7. Ipc!Value' \in {Ipc!Value, None}
  BY <1>3 DEF Ipc!Value, Putters, Threads
<1>8. Ipc!Got' = [r \in {"ser"} |-> IF r \in threads THEN Ipc!Whole(Blank) ELSE Ipc!Got[r]]
  BY <1>3 DEF Ipc!Got, Ipc!Users, Threads
<1> QED
  BY <1>2, <1>5, <1>6, <1>7, <1>8 DEF Ipc!Register!End

\* Every step of the users of the shared memory keeps the invariant, and is one of the
\* register or changes nothing in it.
LEMMA MemoryStep ==
    MemoryInv /\ [Ipc!Next]_(Ipc!memory)
        => MemoryInv' /\ [Ipc!Register!Next]_(Ipc!Register!vars)
<1> SUFFICES ASSUME MemoryInv, [Ipc!Next]_(Ipc!memory)
             PROVE  MemoryInv' /\ [Ipc!Register!Next]_(Ipc!Register!vars)
  OBVIOUS
<1>1. ASSUME NEW u \in Ipc!Users, NEW p \in Packets, Ipc!BeginPut(u, p)
      PROVE  MemoryInv' /\ [Ipc!Register!Next]_(Ipc!Register!vars)
  BY <1>1, BeginPutStep DEF Ipc!Register!Next
<1>2. ASSUME NEW u \in Ipc!Users, Ipc!BeginGet(u)
      PROVE  MemoryInv' /\ [Ipc!Register!Next]_(Ipc!Register!vars)
  BY <1>2, BeginGetStep DEF Ipc!Register!Next
<1>3. ASSUME NEW u \in Ipc!Users, NEW w \in Words, Ipc!Copy(u, w)
      PROVE  MemoryInv' /\ [Ipc!Register!Next]_(Ipc!Register!vars)
  BY <1>3, CopyStep
<1>4. ASSUME NEW u \in Ipc!Users, Ipc!Finish(u)
      PROVE  MemoryInv' /\ [Ipc!Register!Next]_(Ipc!Register!vars)
  BY <1>4, FinishStep
<1>5. ASSUME NEW threads \in SUBSET Ipc!Users, Ipc!End(threads)
      PROVE  MemoryInv' /\ [Ipc!Register!Next]_(Ipc!Register!vars)
  BY <1>5, EndStep DEF Ipc!Register!Next, Ipc!Users, Putters, Threads
<1>6. CASE UNCHANGED Ipc!memory
  <2> USE <1>6 DEF Ipc!memory
  <2>1. Ipc!TypeOK' /\ OneCopies' /\ HalfWay'
    BY DEF MemoryInv, Ipc!TypeOK, OneCopies, HalfWay, WholePackets
  <2>2. UNCHANGED Ipc!Register!vars
    BY DEF Ipc!Register!vars, Ipc!Value, Ipc!Got
  <2> QED
    BY <2>1, <2>2 DEF MemoryInv
<1> QED
  BY <1>1, <1>2, <1>3, <1>4, <1>5, <1>6 DEF Ipc!Next

\* Every step of the two processes is one of the users of the shared memory, or does
\* not touch it.
LEMMA IpcStep == [Next]_vars => [Ipc!Next]_(Ipc!memory)
<1> SUFFICES ASSUME [Next]_vars PROVE [Ipc!Next]_(Ipc!memory)
  OBVIOUS
<1> USE DEF memory, Ipc!memory, Ipc!Users
<1>1. CASE PixrcBegin
  BY <1>1 DEF PixrcBegin, Ipc!Next
<1>2. ASSUME NEW u \in PixrcThreads, PixrcGoesOn(u) PROVE [Ipc!Next]_(Ipc!memory)
  BY <1>2 DEF PixrcThreads, PixrcGoesOn, Ipc!Next
<1>3. CASE PixrcDies
  <2>1. PixrcThreads \in SUBSET Ipc!Users
    BY DEF PixrcThreads
  <2> QED
    BY <1>3, <2>1 DEF PixrcDies, Ipc!Next
<1>4. CASE MgrKilled \/ StartRaises \/ RunRaises
  <2>1. {"mgr"} \in SUBSET Ipc!Users
    OBVIOUS
  <2> QED
    BY <1>4, <2>1 DEF MgrKilled, StartRaises, RunRaises, Raise, Dead, Ipc!Next
<1>5. CASE Acquired
  BY <1>5 DEF Acquired, Ipc!Next
<1>6. CASE WriteWord \/ Release
  BY <1>6 DEF WriteWord, Release, Ipc!Next
<1>7. CASE Command \/ PixrcRestarts \/ MgrStart
  BY <1>7 DEF Command, PixrcRestarts, MgrStart
<1>8. CASE Enable \/ Open \/ DetachUplink \/ Disable \/ AttachUplink \/ Close
  BY <1>8 DEF Enable, Open, DetachUplink, Disable, AttachUplink, Close
<1>9. CASE Put \/ Acquire \/ CbNext
  BY <1>9 DEF Put, Acquire, CbNext, CbDisable, CbAttachUplink, CbRaises, CbClose
<1>10. CASE UNCHANGED vars
  BY <1>10 DEF vars
<1> QED
  BY <1>1, <1>2, <1>3, <1>4, <1>5, <1>6, <1>7, <1>8, <1>9, <1>10 DEF Next, PixrcNext, RunNext

\* The two processes use the shared memory as RcIpc says, and the invariant holds.
LEMMA MemoryCorrect == Spec => Ipc!Spec /\ []MemoryInv
<1>1. Init => Ipc!Init
  BY DEF Init
<1>2. Spec => Ipc!Spec
  BY <1>1, IpcStep, PTL DEF Spec, Ipc!Spec
<1>3. Ipc!Spec => []MemoryInv
  BY InitMemory, MemoryStep, PTL DEF Ipc!Spec
<1> QED
  BY <1>2, <1>3, PTL

\* For all that use it the shared memory is one register: a packet is put and got as
\* a whole, for any number of words, copied in any order.
THEOREM RegisterCorrect == Spec => RegisterSpec
<1>1. Ipc!Spec => Ipc!Register!Spec
  BY InitMemory, MemoryStep, PTL DEF Ipc!Spec, Ipc!Register!Spec
<1>2. Ipc!Register!Spec => RegisterSpec
  BY DEF RegisterSpec, Ipc!RegisterSpec
<1> QED
  BY <1>1, <1>2, MemoryCorrect, PTL

\* serial_task never has a torn packet, not even after a process ended in the middle of
\* a put.
THEOREM WholeCorrect == Spec => []("ser" \notin busy => pkt["ser"] \in WholePackets)
<1>1. MemoryInv => ("ser" \notin busy => pkt["ser"] \in WholePackets)
  BY DEF MemoryInv, HalfWay
<1> QED
  BY <1>1, MemoryCorrect, PTL

\* Every variable keeps its type.
THEOREM TypeCorrect == Spec => []TypeOK
<1>1. ControlOK /\ MemoryInv => TypeOK
  BY DEF ControlOK, MemoryInv, TypeOK
<1> QED
  BY <1>1, ControlCorrect, MemoryCorrect, PTL

-----------------------------------------------------------------------------
(* The semaphore.                                                          *)

\* shotManager has the semaphore exactly in the middle of rc_ipc.put.
ManagerHolds == (sem = "mgr") <=> (mgr = "up" /\ run = "write")

\* shotManager leaves put when it releases the semaphore, raises or dies.
LEMMA ManagerStep ==
    ASSUME ControlOK, DownClean, MemoryInv, ManagerHolds, Next
    PROVE  ManagerHolds'
<1> USE DEF memory
<1>1. CASE PixrcBegin
  BY <1>1 DEF PixrcBegin, Ipc!BeginGet, Ipc!BeginPut, Ipc!Enter, Ipc!Wait, ManagerHolds
<1>2. ASSUME NEW u \in PixrcThreads, PixrcGoesOn(u) PROVE ManagerHolds'
  <2>1. sem' # "mgr" <=> sem # "mgr"
    BY <1>2 DEF PixrcThreads, PixrcGoesOn, Ipc!Finish, Ipc!Copy, MemoryInv, OneCopies,
                Putters, Threads
  <2> QED
    BY <1>2, <2>1 DEF PixrcGoesOn, ManagerHolds
<1>3. CASE PixrcDies \/ Command \/ PixrcRestarts
  BY <1>3 DEF PixrcDies, Command, PixrcRestarts, PixrcThreads, Ipc!End, ManagerHolds
<1>4. CASE MgrStart \/ StartRaises \/ MgrKilled
  BY <1>4 DEF MgrStart, StartRaises, MgrKilled, Dead, Ipc!End, DownClean, ManagerHolds
<1>5. CASE RunRaises
  BY <1>5 DEF RunRaises, Raise, Dead, Ipc!End, ManagerHolds
<1>6. CASE Enable \/ Open \/ DetachUplink \/ Disable \/ AttachUplink \/ Close
  BY <1>6 DEF Enable, Open, DetachUplink, Disable, AttachUplink, Close, RunAt, Pixrc,
              ManagerHolds
<1>7. CASE Put \/ Acquire \/ Acquired
  BY <1>7 DEF Put, Acquire, Acquired, Ipc!BeginPut, Ipc!Enter, Ipc!Wait, RunAt, Pixrc,
              ManagerHolds
<1>8. CASE WriteWord \/ Release
  BY <1>8 DEF WriteWord, Release, Ipc!Copy, Ipc!Finish, RunAt, Pixrc, ManagerHolds
<1>9. CASE CbNext
  BY <1>9 DEF CbNext, CbDisable, CbAttachUplink, CbRaises, CbClose, Pixrc, ManagerHolds
<1> QED
  BY <1>1, <1>2, <1>3, <1>4, <1>5, <1>6, <1>7, <1>8, <1>9 DEF Next, PixrcNext, RunNext

\* shotManager has the semaphore only in the middle of rc_ipc.put: one it has is one
\* it will release.
THEOREM ManagerCorrect == Spec => []ManagerHolds
<1> DEFINE Inv == ControlOK /\ DownClean /\ ManagerHolds
<1>1. Init => Inv
  BY InitInv DEF HandoverInv, Init, Ipc!Init, ManagerHolds
<1>2. Inv /\ MemoryInv /\ [Next]_vars => Inv'
  <2>1. Inv /\ MemoryInv /\ Next => Inv'
    BY CleanStep, ManagerStep, PixrcType, MgrType, RunType, CbType DEF Next
  <2>2. Inv /\ UNCHANGED vars => Inv'
    <3>1. ControlOK /\ UNCHANGED vars => ControlOK'
      BY StutterType
    <3>2. DownClean /\ UNCHANGED vars => DownClean'
      BY DEF DownClean, vars
    <3>3. ManagerHolds /\ UNCHANGED vars => ManagerHolds'
      BY DEF ManagerHolds, vars, memory
    <3> QED
      BY <3>1, <3>2, <3>3
  <2> QED
    BY <2>1, <2>2
<1>3. Inv => ManagerHolds
  OBVIOUS
<1> QED
  BY <1>1, <1>2, <1>3, MemoryCorrect, PTL DEF Spec

-----------------------------------------------------------------------------
(* The uplink.                                                             *)

\* A hand-over under way keeps its direction, unless another one overlaps it.
LEMMA OneWayStep ==
    ASSUME ControlOK, DownClean, OneWay, Next
    PROVE  OneWay'
<1>1. CASE PixrcNext
  BY <1>1 DEF PixrcNext, Command, PixrcBegin, PixrcGoesOn, PixrcDies, PixrcRestarts,
              OneWay, Changing
<1>2. CASE MgrStart \/ StartRaises \/ MgrKilled
  BY <1>2 DEF MgrStart, StartRaises, MgrKilled, Dead, DownClean, OneWay, Changing
<1>3. CASE RunNext
  <2>1. CASE RunRaises
    BY <2>1 DEF RunRaises, Raise, Dead, OneWay, Changing
  <2>2. CASE Enable \/ Disable
    BY <2>2 DEF Enable, Disable, RunAt, Pixrc, OneWay, Changing
  <2>3. CASE Open \/ DetachUplink \/ AttachUplink \/ Close
    BY <2>3 DEF Open, DetachUplink, AttachUplink, Close, RunAt, Pixrc, OneWay, Changing
  <2>4. CASE Put \/ Acquire \/ Acquired \/ WriteWord \/ Release
    BY <2>4 DEF Put, Acquire, Acquired, WriteWord, Release, RunAt, Pixrc, OneWay, Changing
  <2> QED
    BY <1>3, <2>1, <2>2, <2>3, <2>4 DEF RunNext
<1>4. CASE CbNext
  BY <1>4 DEF CbNext, CbDisable, CbAttachUplink, CbRaises, CbClose, Pixrc, OneWay, Changing
<1> QED
  BY <1>1, <1>2, <1>3, <1>4 DEF Next

\* After "attach uplink" is sent, the uplink will be attached; after "detach
\* uplink", detached.
LEMMA SentAttach ==
    ASSUME ControlOK, SendTo("attach uplink")
    PROVE  WillAttach(attached', cmds')
<1>1. cmds' = Append(cmds, "attach uplink") /\ cmds \in Seq(Commands)
  BY DEF SendTo, ControlOK
<1>2. LastIs(Append(cmds, "attach uplink"), "attach uplink")
  BY <1>1, LastAppended DEF UplinkCommands
<1> QED
  BY <1>1, <1>2 DEF WillAttach

\* After "detach uplink" was sent, the uplink will be detached.
LEMMA SentDetach ==
    ASSUME ControlOK, SendTo("detach uplink")
    PROVE  WillDetach(attached', cmds')
<1>1. cmds' = Append(cmds, "detach uplink") /\ cmds \in Seq(Commands)
  BY DEF SendTo, ControlOK
<1>2. LastIs(Append(cmds, "detach uplink"), "detach uplink")
  BY <1>1, LastAppended DEF UplinkCommands
<1> QED
  BY <1>1, <1>2 DEF WillDetach

\* A step that changes neither the queue nor the uplink changes nothing of it.
LEMMA WillSame ==
    ASSUME UNCHANGED << attached, cmds >>
    PROVE  /\ WillAttach(attached, cmds) => WillAttach(attached', cmds')
           /\ WillDetach(attached, cmds) => WillDetach(attached', cmds')
BY DEF WillAttach, WillDetach, LastIs, NoUplink

\* Outside of remapping the uplink stays one that will be attached.
LEMMA RestoredStep ==
    ASSUME ControlOK, DownClean, OneWay, WillBeRestored, Next
    PROVE  WillBeRestored'
<1>1. CASE Command
  BY <1>1, CommandWill DEF Command, WillBeRestored, Running
<1>2. CASE PixrcBegin \/ (\E u \in PixrcThreads : PixrcGoesOn(u))
  BY <1>2, WillSame DEF PixrcBegin, PixrcGoesOn, WillBeRestored, Running
<1>3. CASE PixrcDies
  BY <1>3 DEF PixrcDies, WillBeRestored, Running
<1>4. CASE PixrcRestarts
  <2>1. attached' = TRUE /\ cmds' = << >>
    BY <1>4 DEF PixrcRestarts, DownClean
  <2>2. WillAttach(attached', cmds')
    BY <2>1 DEF WillAttach, NoUplink
  <2> QED
    BY <2>2 DEF WillBeRestored
<1>5. CASE MgrStart
  BY <1>5 DEF MgrStart, WillBeRestored
<1>6. CASE MgrKilled \/ StartRaises \/ RunRaises
  BY <1>6 DEF MgrKilled, StartRaises, RunRaises, Raise, Dead, WillBeRestored, Running
<1>7. CASE AttachUplink
  BY <1>7, SentAttach DEF AttachUplink, WillBeRestored
<1>8. CASE CbAttachUplink
  BY <1>8, SentAttach DEF CbAttachUplink, WillBeRestored
<1>9. CASE DetachUplink
  BY <1>9 DEF DetachUplink, RunAt, Pixrc, OneWay, WillBeRestored, Running
<1>10. CASE Enable \/ Disable \/ CbDisable
  BY <1>10 DEF Enable, Disable, CbDisable, RunAt, Pixrc, WillBeRestored, Running
<1>11. CASE Open \/ Close \/ Put \/ Acquire \/ Acquired \/ WriteWord \/ Release \/ CbClose
  <2>1. UNCHANGED << attached, cmds, proc, mgr, overlap, remap, refused >>
    BY <1>11 DEF Open, Close, Put, Acquire, Acquired, WriteWord, Release, CbClose, Pixrc
  <2>2. run' \notin {"start", "attach uplink"} /\ cb' # "attach uplink"
          => run \notin {"start", "attach uplink"} /\ cb # "attach uplink"
    BY <1>11 DEF Open, Close, Put, Acquire, Acquired, WriteWord, Release, CbClose, RunAt
  <2> QED
    BY <2>1, <2>2, WillSame DEF WillBeRestored, Running
<1>12. CASE CbRaises
  BY <1>12 DEF CbRaises, Pixrc, WillBeRestored, Running
<1> QED
  BY <1>1, <1>2, <1>3, <1>4, <1>5, <1>6, <1>7, <1>8, <1>9, <1>10, <1>11, <1>12
  DEF Next, PixrcNext, RunNext, CbNext

\* While shotManager remaps, the uplink stays one that will be detached.
LEMMA DetachedStep ==
    ASSUME ControlOK, DownClean, OneWay, WillBeDetached, Next
    PROVE  WillBeDetached'
<1>1. CASE Command
  BY <1>1, CommandWill DEF Command, WillBeDetached, Running
<1>2. CASE PixrcBegin \/ (\E u \in PixrcThreads : PixrcGoesOn(u))
  BY <1>2, WillSame DEF PixrcBegin, PixrcGoesOn, WillBeDetached, Running
<1>3. CASE PixrcDies
  BY <1>3 DEF PixrcDies, WillBeDetached, Running
<1>4. CASE PixrcRestarts
  BY <1>4 DEF PixrcRestarts, WillBeDetached
<1>5. CASE MgrStart
  BY <1>5 DEF MgrStart, DownClean, WillBeDetached
<1>6. CASE MgrKilled \/ StartRaises \/ RunRaises
  BY <1>6 DEF MgrKilled, StartRaises, RunRaises, Raise, Dead, WillBeDetached, Running
<1>7. CASE AttachUplink
  BY <1>7 DEF AttachUplink, RunAt, Pixrc, OneWay, WillBeDetached, Running
<1>8. CASE CbAttachUplink
  BY <1>8 DEF CbAttachUplink, Pixrc, OneWay, WillBeDetached, Running
<1>9. CASE DetachUplink
  BY <1>9, SentDetach DEF DetachUplink, WillBeDetached
<1>10. CASE Enable \/ Disable \/ CbDisable
  BY <1>10 DEF Enable, Disable, CbDisable, RunAt, Pixrc, WillBeDetached, Running
<1>11. CASE Open \/ Close \/ Put \/ Acquire \/ Acquired \/ WriteWord \/ Release \/ CbClose
  <2>1. UNCHANGED << attached, cmds, proc, mgr, overlap, remap, restarted >>
    BY <1>11 DEF Open, Close, Put, Acquire, Acquired, WriteWord, Release, CbClose, Pixrc
  <2>2. run' \notin {"open", "detach uplink"} => run \notin {"open", "detach uplink"}
    BY <1>11 DEF Open, Close, Put, Acquire, Acquired, WriteWord, Release, CbClose, RunAt
  <2> QED
    BY <2>1, <2>2, WillSame DEF WillBeDetached, Running
<1>12. CASE CbRaises
  BY <1>12 DEF CbRaises, Pixrc, WillBeDetached, Running
<1> QED
  BY <1>1, <1>2, <1>3, <1>4, <1>5, <1>6, <1>7, <1>8, <1>9, <1>10, <1>11, <1>12
  DEF Next, PixrcNext, RunNext, CbNext

\* With no command queued, the uplink is what it will be.
LEMMA EmptyQueue ==
    ASSUME cmds = << >>
    PROVE  /\ WillAttach(attached, cmds) => attached = TRUE
           /\ WillDetach(attached, cmds) => attached = FALSE
BY DEF WillAttach, WillDetach, LastIs

\* The strengthened invariant holds in every behaviour.
LEMMA HandoverCorrect == Spec => [](ControlOK /\ HandoverInv)
<1>1. Init => ControlOK /\ HandoverInv
  BY InitInv
<1>2. ControlOK /\ HandoverInv /\ [Next]_vars => ControlOK' /\ HandoverInv'
  <2>1. ControlOK /\ HandoverInv /\ Next => ControlOK' /\ HandoverInv'
    BY CleanStep, OneWayStep, RestoredStep, DetachedStep,
       PixrcType, MgrType, RunType, CbType DEF Next, HandoverInv
  <2>2. ControlOK /\ HandoverInv /\ UNCHANGED vars => ControlOK' /\ HandoverInv'
    <3> SUFFICES ASSUME ControlOK, HandoverInv, UNCHANGED vars
                 PROVE  ControlOK' /\ HandoverInv'
      OBVIOUS
    <3>1. ControlOK'
      BY StutterType
    <3>2. DownClean' /\ OneWay'
      BY DEF HandoverInv, DownClean, OneWay, vars
    <3>3. WillBeRestored' /\ WillBeDetached'
      BY WillSame DEF HandoverInv, WillBeRestored, WillBeDetached, Running, vars
    <3> QED
      BY <3>1, <3>2, <3>3 DEF HandoverInv
  <2> QED
    BY <2>1, <2>2
<1> QED
  BY <1>1, <1>2, PTL DEF Spec

\* When shotManager does not remap and no hand-over is under way, pixrc writes
\* the shared packet, whatever died and was restarted before and whichever commands
\* were refused, unless mode_callback's "attach uplink" found the queue full.
THEOREM UplinkCorrect == Spec => []UplinkRestored
<1>1. HandoverInv => UplinkRestored
  BY EmptyQueue DEF HandoverInv, WillBeRestored, Running, UplinkRestored, Quiet, Changing
<1> QED
  BY <1>1, HandoverCorrect, PTL

\* While shotManager remaps, pixrc does not write too, unless it was restarted.
THEOREM RemapCorrect == Spec => []RemapExclusive
<1>1. HandoverInv => RemapExclusive
  BY EmptyQueue DEF HandoverInv, WillBeDetached, Running, RemapExclusive, Quiet, Changing
<1> QED
  BY <1>1, HandoverCorrect, PTL

=============================================================================

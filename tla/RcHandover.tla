----------------------------- MODULE RcHandover -----------------------------
(***************************************************************************)
(* Who writes the shared stick packet?  Normally pixrc's UDP thread; while *)
(* a smart shot runs, shotManager.  rcManager.enableRemapping moves the    *)
(* uplink between them with "attach uplink" and "detach uplink" datagrams  *)
(* to pixrc's command thread, and opens and closes its own access to the   *)
(* shared memory (sololink-python's rc_ipc), in that order.                *)
(*                                                                         *)
(* Two threads of shotManager call enableRemapping: the Run loop (a shot   *)
(* starts or ends) and dronekit's thread (mode_callback, when the          *)
(* autopilot leaves the mode of the shot).  No lock protects it, so its    *)
(* statements are steps of their own here, and its socket does not block:  *)
(* a command pixrc's queue has no room for raises, as one to a dead pixrc  *)
(* does, and what was assigned before stays.  Either process may die and is *)
(* started again.  The shared memory and its semaphore are RcIpc's, where  *)
(* a packet is a few words; what they say is left to RcUplink.             *)
(***************************************************************************)
EXTENDS Naturals, Sequences

CONSTANTS
    MaxCmds,      \* commands that the queue of pixrc's command socket holds
    MaxCrash,     \* bound: deaths of a process for a reason of its own
    Callbacks,    \* does dronekit's thread call mode_callback?
    Words, Packets, Blank, None   \* the packets in shared memory, see RcIpc

ASSUME HandoverAssumption ==
    /\ MaxCmds \in Nat /\ MaxCrash \in Nat /\ Callbacks \in BOOLEAN
    /\ Words # {} /\ Blank \in Packets /\ None \notin [Words -> Packets]

VARIABLES
    proc,         \* is pixrc running?
    attached,     \* RcCommander::uplink_attached
    clients,      \* is shotManager's socket in Commander::clients?
    cmds,         \* datagrams waiting on /run/rc_uplink_cmd
    sem, shm, busy, left, pkt,    \* the shared memory and its users, see RcIpc
    mgr,          \* "up" or "down"
    run,          \* position of the Run loop
    cb,           \* position of dronekit's thread
    remap,        \* rcManager.remappingSticks
    ipc,          \* are rc_ipc's shm_file and sem open?
    overlap,      \* ghost: two calls of enableRemapping have overlapped
    restarted,    \* ghost: pixrc has restarted since the last "detach uplink"
    refused,      \* ghost: the queue had no room for the last "attach uplink"
                  \* and mode_callback went on without it
    crashes       \* deaths so far

\* UDP_task and shotManager put stick packets, serial_task gets them.
Ipc == INSTANCE RcIpc WITH Writers <- {"udp", "mgr"}, Readers <- {"ser"}
PixrcThreads == {"udp", "ser"}
memory == << sem, shm, busy, left, pkt >>

vars == << proc, attached, clients, cmds, memory, mgr, run, cb, remap, ipc,
           overlap, restarted, refused, crashes >>

Commands == {"attach", "detach", "attach uplink", "detach uplink"}

\* Positions inside enableRemapping; "start" is its call by rcManager.__init__.
Changing == {"start", "open", "detach uplink", "attach uplink", "close"}

Init ==
    /\ proc = "up" /\ attached = TRUE /\ clients = FALSE /\ cmds = << >>
    /\ Ipc!Init
    /\ mgr = "down" /\ run = "loop" /\ cb = "idle"
    /\ remap = FALSE /\ ipc = FALSE
    /\ overlap = FALSE /\ restarted = FALSE /\ refused = FALSE
    /\ crashes = 0

-----------------------------------------------------------------------------
(* pixrc.                                                                  *)

\* Commander::handle_attach: without an argument, the sender.
ClientsAfter(command) ==
    IF command \in {"attach", "detach"} THEN command = "attach" ELSE clients

\* Mutant of UplinkAfter: RcCommander::handle_attach ignores its argument.
UplinkUnchanged(command) == attached

\* RcCommander::handle_attach: with the argument "uplink", the uplink.
UplinkAfter(command) ==
    IF command \in {"attach uplink", "detach uplink"} THEN command = "attach uplink"
                                                     ELSE attached

\* Commander::command_thread: one datagram.
Command ==
    /\ proc = "up" /\ cmds # << >>
    /\ cmds' = Tail(cmds)
    /\ clients' = ClientsAfter(Head(cmds))
    /\ attached' = UplinkAfter(Head(cmds))
    /\ UNCHANGED << proc, memory, mgr, run, cb, remap, ipc, overlap, restarted,
                    refused, crashes >>

\* rc_ipc_put in UDP_task, rc_ipc_get in serial_task; whether the uplink is
\* attached has been looked at before.
PixrcBegin ==
    /\ proc = "up"
    /\ Ipc!BeginGet("ser") \/ \E p \in Packets : Ipc!BeginPut("udp", p)
    /\ UNCHANGED << proc, attached, clients, cmds, mgr, run, cb, remap, ipc,
                    overlap, restarted, refused, crashes >>

PixrcGoesOn(u) ==
    /\ Ipc!Finish(u) \/ \E w \in Words : Ipc!Copy(u, w)
    /\ UNCHANGED << proc, attached, clients, cmds, mgr, run, cb, remap, ipc,
                    overlap, restarted, refused, crashes >>

\* A crash, or main's exit because a thread waits for a lost semaphore.
PixrcDies ==
    /\ proc = "up"
    /\ \/ crashes < MaxCrash /\ crashes' = crashes + 1
       \/ sem = "lost" /\ UNCHANGED crashes
    /\ proc' = "down"
    /\ Ipc!End(PixrcThreads)
    /\ cmds' = << >>
    /\ UNCHANGED << attached, clients, mgr, run, cb, remap, ipc, overlap, restarted,
                    refused >>

\* inittab starts pixrc again: no clients, the uplink attached.
PixrcRestarts ==
    /\ proc = "down"
    /\ proc' = "up" /\ attached' = TRUE /\ clients' = FALSE
    /\ restarted' = TRUE /\ refused' = FALSE
    /\ UNCHANGED << cmds, memory, mgr, run, cb, remap, ipc, overlap, crashes >>

-----------------------------------------------------------------------------
(* shotManager's commands.                                                 *)

\* sendto does not raise: pixrc is up and its queue has room.
Accepts == proc = "up" /\ Len(cmds) < MaxCmds

\* Mutant of SendTo: the command socket's queue has no limit.
SendToUnlimited(command) ==
    /\ proc = "up"
    /\ cmds' = Append(cmds, command)

SendTo(command) ==
    /\ Accepts
    /\ cmds' = Append(cmds, command)

\* Commands are sent until one raises.
SendUntilRefused(commands) ==
    LET all == cmds \o commands
    IN  cmds' = IF proc = "down" THEN cmds
                ELSE IF Len(all) <= MaxCmds THEN all ELSE SubSeq(all, 1, MaxCmds)

Dead ==
    /\ mgr' = "down" /\ run' = "loop" /\ cb' = "idle"
    /\ remap' = FALSE /\ ipc' = FALSE
    /\ Ipc!End({"mgr"})

\* rcManager.detach: "detach", and enableRemapping(False).
Farewell == IF remap THEN << "detach", "attach uplink" >> ELSE << "detach" >>

\* The except clause of Run: rcMgr.detach(), and os._exit(1).  When a command
\* of detach raises too, the process ends there.
Raise ==
    /\ SendUntilRefused(Farewell)
    /\ Dead
    /\ UNCHANGED << proc, attached, clients, overlap, restarted, refused, crashes >>

\* The process is killed, at any instruction.
MgrKilled ==
    /\ mgr = "up"
    /\ crashes < MaxCrash
    /\ crashes' = crashes + 1
    /\ Dead
    /\ UNCHANGED << proc, attached, clients, cmds, overlap, restarted, refused >>

\* Mutant of MgrStart: remappingSticks starts as False, so that
\* enableRemapping(False) does nothing.
MgrStartUnforced ==
    /\ mgr = "down"
    /\ SendTo("attach")
    /\ mgr' = "up"
    /\ overlap' = FALSE
    /\ UNCHANGED << proc, attached, clients, memory, run, cb, remap, ipc, restarted,
                    refused, crashes >>

\* rcManager.__init__: attach the RC socket, then force remapping off by
\* enableRemapping(False).  If a command raises so does the constructor: the
\* process ends, and inittab starts it again.
MgrStart ==
    /\ mgr = "down"
    /\ SendTo("attach")
    /\ mgr' = "up"
    /\ run' = "start"
    /\ overlap' = FALSE
    /\ UNCHANGED << proc, attached, clients, memory, cb, remap, ipc, restarted,
                    refused, crashes >>

StartRaises ==
    /\ mgr = "up" /\ run = "start"
    /\ ~Accepts
    /\ Dead
    /\ UNCHANGED << proc, attached, clients, cmds, overlap, restarted, refused, crashes >>

-----------------------------------------------------------------------------
(* The Run loop.                                                           *)

RunAt(from) == mgr = "up" /\ run = from
Pixrc == << proc, attached, clients, restarted, crashes >>

\* enableRemapping(True): remappingSticks = True ...
Enable ==
    /\ RunAt("loop") /\ ~remap
    /\ remap' = TRUE
    /\ run' = "open"
    /\ overlap' = (overlap \/ cb # "idle")
    /\ UNCHANGED << Pixrc, cmds, memory, mgr, cb, ipc, refused >>

\* ... rc_ipc.attach() ...
Open ==
    /\ RunAt("open")
    /\ ipc' = TRUE
    /\ run' = "detach uplink"
    /\ UNCHANGED << Pixrc, cmds, memory, mgr, cb, remap, overlap, refused >>

\* ... and "detach uplink".
DetachUplink ==
    /\ RunAt("detach uplink")
    /\ SendTo("detach uplink")
    /\ run' = "loop"
    /\ restarted' = FALSE
    /\ UNCHANGED << proc, attached, clients, memory, mgr, cb, remap, ipc, overlap,
                    refused, crashes >>

\* enableRemapping(False): remappingSticks = False ...
Disable ==
    /\ RunAt("loop") /\ remap
    /\ remap' = FALSE
    /\ run' = "attach uplink"
    /\ overlap' = (overlap \/ cb # "idle")
    /\ UNCHANGED << Pixrc, cmds, memory, mgr, cb, ipc, refused >>

\* ... "attach uplink" ...
AttachUplink ==
    /\ RunAt("attach uplink") \/ RunAt("start")
    /\ SendTo("attach uplink")
    /\ run' = "close"
    /\ refused' = FALSE
    /\ UNCHANGED << Pixrc, memory, mgr, cb, remap, ipc, overlap >>

\* ... and rc_ipc.detach().
Close ==
    /\ RunAt("close")
    /\ ipc' = FALSE
    /\ run' = "loop"
    /\ UNCHANGED << Pixrc, cmds, memory, mgr, cb, remap, overlap, refused >>

\* remap calls rc_ipc.put, which returns if rc_ipc is not open ...
Put ==
    /\ RunAt("loop") /\ remap /\ ipc
    /\ run' = "put"
    /\ UNCHANGED << Pixrc, cmds, memory, mgr, cb, remap, ipc, overlap, refused >>

\* ... calls sem.acquire() ...
Acquire ==
    /\ RunAt("put") /\ ipc
    /\ run' = "wait"
    /\ UNCHANGED << Pixrc, cmds, memory, mgr, cb, remap, ipc, overlap, refused >>

Acquired ==
    /\ RunAt("wait")
    /\ \E p \in Packets : Ipc!BeginPut("mgr", p)
    /\ run' = "write"
    /\ UNCHANGED << Pixrc, cmds, mgr, cb, remap, ipc, overlap, refused >>

\* ... writes the packet, which raises if the memory has been closed before ...
WriteWord ==
    /\ RunAt("write") /\ (left["mgr"] = Words => ipc)
    /\ \E w \in Words : Ipc!Copy("mgr", w)
    /\ UNCHANGED << Pixrc, cmds, mgr, run, cb, remap, ipc, overlap, refused >>

\* ... and releases the semaphore.
Release ==
    /\ RunAt("write") /\ ipc
    /\ Ipc!Finish("mgr")
    /\ run' = "loop"
    /\ UNCHANGED << Pixrc, cmds, mgr, cb, remap, ipc, overlap, refused >>

\* rc_ipc.detach in the other thread has set sem and shm_file to None, or a
\* command is refused.
RunRaises ==
    /\ mgr = "up"
    /\ \/ run = "put" /\ ~ipc
       \/ run = "write" /\ ~ipc /\ left["mgr"] \in {Words, {}}
       \/ run \in {"detach uplink", "attach uplink"} /\ ~Accepts
    /\ Raise

-----------------------------------------------------------------------------
(* dronekit's thread: setNormalControl calls enableRemapping(False).       *)

CbDisable ==
    /\ Callbacks
    /\ mgr = "up" /\ cb = "idle" /\ remap
    /\ remap' = FALSE
    /\ cb' = "attach uplink"
    /\ overlap' = (overlap \/ run \in Changing)
    /\ UNCHANGED << Pixrc, cmds, memory, mgr, run, ipc, refused >>

\* Mutant of CbAttachUplink: the command is not sent.
CbAttachNothing ==
    /\ cb = "attach uplink"
    /\ Accepts
    /\ cb' = "close"
    /\ UNCHANGED << Pixrc, cmds, memory, mgr, run, remap, ipc, overlap, refused >>

CbAttachUplink ==
    /\ cb = "attach uplink"
    /\ SendTo("attach uplink")
    /\ cb' = "close"
    /\ refused' = FALSE
    /\ UNCHANGED << Pixrc, memory, mgr, run, remap, ipc, overlap >>

\* mode_callback catches the exception: remappingSticks stays False, so nobody
\* sends the command again, and rc_ipc stays open.
CbRaises ==
    /\ cb = "attach uplink" /\ ~Accepts
    /\ cb' = "idle"
    /\ refused' = (proc = "up")
    /\ UNCHANGED << Pixrc, cmds, memory, mgr, run, remap, ipc, overlap >>

CbClose ==
    /\ cb = "close"
    /\ ipc' = FALSE
    /\ cb' = "idle"
    /\ UNCHANGED << Pixrc, cmds, memory, mgr, run, remap, overlap, refused >>

-----------------------------------------------------------------------------
PixrcNext ==
    \/ Command \/ PixrcBegin \/ PixrcDies \/ PixrcRestarts
    \/ \E u \in PixrcThreads : PixrcGoesOn(u)
RunNext == \/ Enable \/ Open \/ DetachUplink
           \/ Disable \/ AttachUplink \/ Close
           \/ Put \/ Acquire \/ Acquired \/ WriteWord \/ Release
           \/ RunRaises
CbNext == CbDisable \/ CbAttachUplink \/ CbRaises \/ CbClose

Next == PixrcNext \/ MgrStart \/ StartRaises \/ MgrKilled \/ RunNext \/ CbNext

Spec == Init /\ [][Next]_vars

\* Both processes are scheduled and restarted; each thread finishes the call of
\* enableRemapping or rc_ipc.put it is in.  Nothing makes a shot start or end.
Fairness ==
    /\ WF_vars(Command) /\ WF_vars(PixrcRestarts)
    /\ \A u \in PixrcThreads : WF_vars(PixrcGoesOn(u))
    /\ WF_vars(MgrStart)
    /\ WF_vars(Open) /\ WF_vars(Close)
    /\ WF_vars(DetachUplink \/ AttachUplink \/ StartRaises \/ RunRaises)
    /\ WF_vars(Acquire) /\ SF_vars(Acquired)
    /\ WF_vars(WriteWord) /\ WF_vars(Release)
    /\ WF_vars(CbAttachUplink \/ CbRaises) /\ WF_vars(CbClose)

FairSpec == Spec /\ Fairness

-----------------------------------------------------------------------------
(* Properties.                                                             *)

\* Every variable has its type.
TypeOK ==
    /\ proc \in {"up", "down"} /\ mgr \in {"up", "down"}
    /\ attached \in BOOLEAN /\ clients \in BOOLEAN
    /\ cmds \in Seq(Commands) /\ Len(cmds) <= MaxCmds
    /\ Ipc!TypeOK
    /\ run \in Changing \cup {"loop", "put", "wait", "write"}
    /\ cb \in {"idle", "attach uplink", "close"}
    /\ remap \in BOOLEAN /\ ipc \in BOOLEAN
    /\ overlap \in BOOLEAN /\ restarted \in BOOLEAN /\ refused \in BOOLEAN
    /\ crashes \in 0..MaxCrash

\* Both processes are up and no hand-over is under way.
Quiet == proc = "up" /\ mgr = "up" /\ cmds = << >> /\ cb = "idle" /\ run \notin Changing

\* When shotManager does not remap, pixrc writes the shared packet itself: a
\* shot that ended, an exception, a refused command, a death of either process or a
\* restart never leaves the sticks disconnected, unless two calls of
\* enableRemapping overlapped, or mode_callback's "attach uplink" found the queue full.
UplinkRestored == Quiet /\ ~remap /\ ~overlap /\ ~refused => attached

\* While shotManager remaps, pixrc does not write the shared packet too, unless
\* pixrc has restarted since, or two calls of enableRemapping overlapped.
RemapExclusive == Quiet /\ remap /\ ~overlap /\ ~restarted => ~attached

\* The packets in shared memory are one register: whatever the three threads do at
\* the same time and whichever process ends, no torn packet is ever got.
RegisterSpec == Ipc!RegisterSpec

\* A mode change that ends a shot gives the sticks back, whatever the Run loop is
\* doing: once remapping stays off and both processes stay alive, pixrc writes,
\* with the same two exceptions.
SticksReturn ==
    <>[](/\ proc = "up" /\ mgr = "up" /\ sem # "lost"
         /\ ~remap /\ ~overlap /\ ~refused) => <>[]attached

\* No thread that ends leaves the semaphore taken.
SemaphoreSurvives == sem # "lost"

=============================================================================

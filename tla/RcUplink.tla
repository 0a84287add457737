------------------------------ MODULE RcUplink ------------------------------
(***************************************************************************)
(* The sticks' way from the controller to the Pixhawk while shotManager    *)
(* takes part: pixrc (module PixRc) together with rcManager, which gets    *)
(* every packet as a client of pixrc, notices when the controller falls    *)
(* silent, substitutes default channels and, during a shot, writes the     *)
(* remapped packet to the shared memory in place of pixrc.                 *)
(*                                                                         *)
(* Here a call of enableRemapping and pixrc's handling of its command are  *)
(* one step; RcHandover takes them apart.                                  *)
(***************************************************************************)
EXTENDS PixRc, Sequences

CONSTANTS
    Stale,        \* TICKS_UNTIL_RC_STALE, in ticks of 200 ms
    MaxInbox      \* bound: datagrams waiting on shotManager's RC socket

ASSUME UplinkAssumption == Stale \in Nat /\ MaxInbox \in Nat

VARIABLES
    mgr,          \* rcManager: position of the Run loop, and its attributes
    inbox         \* datagrams waiting on shotManager's RC socket

mgrVars == << mgr, inbox >>
vars    == << pixVars, mgrVars >>

-----------------------------------------------------------------------------
(* Channels as rcManager keeps them: a packet without its identity.        *)

NoChannels == [thr |-> "none", stk |-> "none", aux |-> "none"]   \* None

\* remap's list of defaults: 1500 for channels 1, 2 and 4, THROTTLE_FAILSAFE for
\* channel 3.  Channel 1 is the throttle.
DefaultChannels == [thr |-> "mid", stk |-> "def", aux |-> "def"]

Channels == [thr : Throttles, stk : Sticks, aux : Auxes] \cup {NoChannels}
ChannelsOf(p) == [thr |-> p.thr, stk |-> p.stk, aux |-> p.aux]
AsPacket(i, c) == [id |-> i, thr |-> c.thr, stk |-> c.stk, aux |-> c.aux]

\* "never allow Yaw to rotate": channels[YAW] = 1500
YawCentred(c) == IF c.stk = "stick" THEN [c EXCEPT !.stk = "yaw0"] ELSE c

\* pixrc's answer to a command arrives on the RC socket: "OK\n".
Ok == AsPacket(0, NoChannels)

\* rcManager after __init__
FreshMgr == [alive |-> TRUE, pc |-> "run", remap |-> FALSE, chan |-> NoChannels,
             id |-> 0, age |-> 0]
DeadMgr  == [FreshMgr EXCEPT !.alive = FALSE]

UplinkIds == UsedIds \cup {mgr.id} \cup {inbox[k].id : k \in DOMAIN inbox}

Init == PixInit /\ mgr = DeadMgr /\ inbox = << >>

-----------------------------------------------------------------------------
(* pixrc.                                                                  *)

\* Timestamps and sequence numbers grow; Ids bounds them.
UplinkRecv == \E i \in Ids : /\ \A j \in UplinkIds : j < i
                             /\ i - 1 \in UplinkIds
                             /\ UdpRecv(i)
                             /\ UNCHANGED mgrVars

\* send_clients does not block: a packet that finds the queue full is dropped.
UdpSendClients ==
    /\ UdpSend
    /\ inbox' = IF clients /\ mgr.alive /\ Len(inbox) < MaxInbox
                  THEN Append(inbox, udp.pkt)
                  ELSE inbox
    /\ UNCHANGED mgr

PixrcAlone ==
    /\ \/ UdpTimeout \/ UdpMisfit \/ UdpLock \/ UdpCopy \/ UdpPutError
       \/ SerStep \/ MonStep \/ Crash \/ Restart
       \/ \E op \in LockOps : LockFile(op)
    /\ UNCHANGED mgrVars

-----------------------------------------------------------------------------
(* rcManager.                                                              *)

RadioSide == << proc, udp, ser, ran, rcLocked, lockFiles, frame, lockedFor, semErrs >>

\* rcManager.parse: one datagram.  Anything but a packet, and a packet with the
\* failsafe throttle, discards the channels.
Parse ==
    LET d == Head(inbox)
        live == d # Ok /\ ~DsmFailsafe(d)
    IN  /\ mgr.pc = "run" /\ inbox # << >>
        /\ inbox' = Tail(inbox)
        /\ mgr' = [mgr EXCEPT !.id   = IF d = Ok THEN @ ELSE d.id,
                              !.chan = IF live THEN ChannelsOf(d) ELSE NoChannels,
                              !.age  = IF live THEN 0 ELSE @]
        /\ UNCHANGED << RadioSide, shm, sem, attached, clients, due, silence, crashes >>

\* Tick: rcCheck and remap, up to sem.acquire() in rc_ipc.put.  Ticks are counted
\* in Tick below, as long as the Run loop is not blocked.
MgrTick ==
    LET chan == IF mgr.age > Stale \/ mgr.chan = NoChannels THEN DefaultChannels
                                                            ELSE mgr.chan
    IN  /\ mgr.alive /\ mgr.pc = "run"
        /\ mgr' = IF mgr.remap
                    THEN [mgr EXCEPT !.chan = YawCentred(chan), !.pc = "wait"]
                    ELSE [mgr EXCEPT !.chan = chan]
        /\ due' = due \ {"mgr"}
        /\ UNCHANGED << RadioSide, shm, sem, attached, clients, silence, crashes, inbox >>

MgrAcquire ==
    /\ mgr.pc = "wait"
    /\ sem = "free"
    /\ sem' = "mgr"
    /\ mgr' = [mgr EXCEPT !.pc = "copy"]
    /\ UNCHANGED << RadioSide, shm, attached, clients, due, silence, crashes, inbox >>

\* Mutant of MgrCopy: every packet put gets a new sequence number.
MgrCopyRenumbered ==
    /\ mgr.pc = "copy"
    /\ shm' = AsPacket(CHOOSE i \in Ids \cup {0} : i # shm.id, mgr.chan)
    /\ sem' = "free"
    /\ mgr' = [mgr EXCEPT !.pc = "run"]
    /\ UNCHANGED << RadioSide, attached, clients, due, silence, crashes, inbox >>

\* shm_file.write(p) and sem.release()
MgrCopy ==
    /\ mgr.pc = "copy"
    /\ shm' = AsPacket(mgr.id, mgr.chan)
    /\ sem' = "free"
    /\ mgr' = [mgr EXCEPT !.pc = "run"]
    /\ UNCHANGED << RadioSide, attached, clients, due, silence, crashes, inbox >>

\* Mutant of Commanded: the answer is sent whether or not the queue has room.
CommandedAtOnce(uplink) ==
    /\ proc = "up"
    /\ attached' = uplink
    /\ inbox' = Append(inbox, Ok)

\* A command is sent and handled, and its answer comes back; pixrc's command
\* thread waits until the answer fits the queue.
Commanded(uplink) ==
    /\ proc = "up"
    /\ Len(inbox) < MaxInbox
    /\ attached' = uplink
    /\ inbox' = Append(inbox, Ok)

\* enableRemapping(True)
EnableRemapping ==
    /\ mgr.alive /\ mgr.pc = "run"
    /\ ~mgr.remap
    /\ Commanded(FALSE)
    /\ mgr' = [mgr EXCEPT !.remap = TRUE]
    /\ silence' = 0
    /\ UNCHANGED << RadioSide, shm, sem, clients, due, crashes >>

\* enableRemapping(False)
DisableRemapping ==
    /\ mgr.alive /\ mgr.pc = "run"
    /\ mgr.remap
    /\ Commanded(TRUE)
    /\ mgr' = [mgr EXCEPT !.remap = FALSE]
    /\ UNCHANGED << RadioSide, shm, sem, clients, due, silence, crashes >>

\* The process ends, at any instruction, and is started again: it attaches its
\* socket and forces remapping off, which attaches the uplink.
MgrKilled ==
    /\ mgr.alive
    /\ crashes < MaxCrash
    /\ crashes' = crashes + 1
    /\ mgr' = DeadMgr
    /\ inbox' = << >>
    /\ sem' = SemAfterDeath({"mgr"})
    /\ due' = due \ {"mgr"}
    /\ UNCHANGED << RadioSide, shm, attached, clients, silence >>

MgrStart ==
    /\ ~mgr.alive
    /\ Commanded(TRUE)
    /\ mgr' = FreshMgr
    /\ clients' = TRUE
    /\ due' = due \cup {"mgr"}
    /\ silence' = 0
    /\ UNCHANGED << RadioSide, shm, sem, crashes >>

-----------------------------------------------------------------------------
MgrBlocked == mgr.pc = "wait" /\ sem = "lost"
MgrSettled == \/ ~mgr.alive
              \/ MgrBlocked
              \/ mgr.pc = "run" /\ "mgr" \notin due /\ inbox = << >>

Tick ==
    /\ Settled /\ MgrSettled
    /\ Elapse(IF mgr.alive THEN {"mgr"} ELSE {})
    /\ mgr' = IF mgr.alive /\ ~MgrBlocked THEN [mgr EXCEPT !.age = Older(@, Stale + 1)]
                                          ELSE mgr
    /\ UNCHANGED inbox

MgrNext ==
    \/ Parse \/ MgrTick \/ MgrAcquire \/ MgrCopy
    \/ EnableRemapping \/ DisableRemapping
    \/ MgrKilled \/ MgrStart

Next == UplinkRecv \/ UdpSendClients \/ PixrcAlone \/ MgrNext \/ Tick

Spec == Init /\ [][Next]_vars

-----------------------------------------------------------------------------
(* Properties.                                                             *)

\* Every variable has its type.
UplinkTypeOK ==
    /\ TypeOK
    /\ mgr \in [alive : BOOLEAN, pc : {"run", "wait", "copy"}, remap : BOOLEAN,
                chan : Channels, id : Ids \cup {0}, age : 0..(Stale + 1)]
    /\ inbox \in Seq(Packets \cup {Ok}) /\ Len(inbox) <= MaxInbox

\* The failsafe bound with shotManager in the chain, whichever of the two
\* processes dies: both notice the silence, each hop (pixrc to rcManager, to the
\* shared memory, to the serial thread) may take a tick, and the default
\* channels rcManager writes count as a last change for the serial thread.
UplinkFailsafeBound ==
    (IF Stale > RcTimeout THEN Stale ELSE RcTimeout) + SmTimeout + 3 + MaxSemErr
UplinkFailsafeBounded ==
    frame # NoFrame /\ silence > UplinkFailsafeBound => DsmFailsafe(frame)

=============================================================================

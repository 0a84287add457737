------------------------------- MODULE PixRc -------------------------------
(***************************************************************************)
(* The pixrc process of the vehicle computer                               *)
(* (src/sololink/flightcode/pixrc): it receives stick packets from the     *)
(* controller over UDP, hands them to the serial thread through shared     *)
(* memory guarded by a named POSIX semaphore, and writes one DSM frame to  *)
(* the Pixhawk every 20 ms.  The shared memory and the semaphore live in   *)
(* the kernel: they survive the process, and another process (shotManager, *)
(* module RcUplink) may write the memory too.                              *)
(*                                                                         *)
(* Four threads take part: the UDP thread, the serial thread, the command  *)
(* thread (ATTACH / DETACH datagrams) and main, which monitors the first   *)
(* two and exits when one of them is stuck; inittab then restarts pixrc.   *)
(*                                                                         *)
(* Time advances in ticks of 200 ms.  In every tick each thread that is    *)
(* not blocked finishes at least one iteration of its loop, and it may     *)
(* finish any number.  Ages count ticks and saturate.                      *)
(***************************************************************************)
EXTENDS Naturals

CONSTANTS
    Ids,          \* identities (timestamp, sequence) of controller packets
    RcTimeout,    \* rc_timeout_max_us, in ticks
    SmTimeout,    \* sm_timeout_max_us, in ticks
    Stuck,        \* UDP_STUCK_US and SER_STUCK_US, in ticks
    MaxCrash,     \* bound: crashes the environment may cause
    MaxSemErr,    \* bound: calls of sem_wait that fail
    LockOps,      \* RcLock operations other processes may call
    SilenceCap,   \* bound of the ghost silence counter
    Misfits       \* do datagrams of another size arrive in this instance?

ASSUME TimeoutsAssumption ==
    /\ RcTimeout \in Nat
    /\ SmTimeout \in Nat
    /\ Stuck \in Nat
    /\ SilenceCap \in Nat
    /\ MaxCrash \in Nat
    /\ MaxSemErr \in Nat
    /\ Misfits \in BOOLEAN

ASSUME IdsAssumption == Ids \subseteq Nat \ {0}   \* 0 stands for zeroed memory

ASSUME LockOpsAssumption ==
    LockOps \subseteq {"lock_version", "unlock_version", "unlock_override"}

VARIABLES
    shm,          \* rc_pkt in shared memory
    sem,          \* the semaphore: "free", its holder, or "lost" with its holder
    proc,         \* is pixrc running?
    attached,     \* RcCommander::uplink_attached
    clients,      \* is shotManager's socket in Commander::clients?
    udp,          \* locals of UDP_task
    ser,          \* locals of serial_task
    ran,          \* ages of udp_run_us and ser_run_us
    rcLocked,     \* main's rc_locked
    lockFiles,    \* which of RcLock's files exist
    frame,        \* the last DSM frame written in this tick
    due,          \* threads that must still iterate in this tick
    silence,      \* ghost: ticks since a controller packet or a restart
    lockedFor,    \* ghost: ticks for which RC has been locked
    crashes,      \* crashes so far
    semErrs       \* failed calls of sem_wait so far

pixVars == << shm, sem, proc, attached, clients, udp, ser, ran, rcLocked,
              lockFiles, frame, due, silence, lockedFor, crashes,
              semErrs >>

-----------------------------------------------------------------------------
(* Packets.  A packet keeps what the code and the properties tell apart:   *)
(* its identity, the throttle, the other sticks, and channels 5 to 8.      *)

Throttles == {"zero", "fs", "stick", "mid"}
Sticks    == {"zero", "mid", "stick", "yaw0", "def"}
Auxes     == {"zero", "ctl", "stray", "def"}

Packets == [id : Ids \cup {0}, thr : Throttles, stk : Sticks, aux : Auxes]

\* Memory that nobody has written yet, and memset packet buffers.
ZeroPkt == [id |-> 0, thr |-> "zero", stk |-> "zero", aux |-> "zero"]

\* A packet as the controller sends it.
ControllerPkt(i) == [id |-> i, thr |-> "stick", stk |-> "stick", aux |-> "ctl"]

\* Throttle 900, the other sticks centred, "all other channels at their
\* current state".
Failsafe(p) == [p EXCEPT !.thr = "fs", !.stk = "mid"]

\* encode_DSM: throttle 900 is the special case DSM 0; throttle 0 is clipped to 0.
DsmFailsafe(f) == f.thr \in {"fs", "zero"}

\* Of a DSM frame, the throttle and channels 5 to 8.
Frame(p) == [thr |-> p.thr, aux |-> p.aux]
Frames   == [thr : Throttles, aux : Auxes]
NoFrame  == [thr |-> "none", aux |-> "none"]   \* no frame written

-----------------------------------------------------------------------------
Threads == {"udp", "ser", "mon"}

UdpInit == [pc |-> "recv", pkt |-> ZeroPkt, age |-> 0, timeout |-> FALSE]

\* last_good_us starts at 0, long before now.
SerInit == [pc |-> "get", last |-> ZeroPkt, started |-> FALSE, age |-> SmTimeout + 1]

\* Mutant of Older: an age that never saturates.
OlderForever(age, cap) == age + 1

Older(age, cap) == IF age < cap THEN age + 1 ELSE cap

\* RcLock::locked
Locked(files) == /\ "unlock" \notin files
                 /\ {"tmp", "ro"} \cap files # {}

\* A process that dies inside its critical section never posts the semaphore.
SemAfterDeath(holders) == IF sem \in holders THEN "lost" ELSE sem

\* Packets differ in timestamp and sequence from any packet still held.
UsedIds == {shm.id, ser.last.id, udp.pkt.id}
NewId(used) == CHOOSE i \in Ids : i \notin used

PixInit ==
    /\ shm = ZeroPkt
    /\ sem = "free"
    /\ proc = "up"
    /\ attached = TRUE
    /\ clients = FALSE
    /\ udp = UdpInit
    /\ ser = SerInit
    /\ ran = [udp |-> 0, ser |-> 0]
    /\ lockFiles \in (IF LockOps = {} THEN { {} } ELSE { {}, {"ro"} })
    /\ rcLocked = Locked(lockFiles)
    /\ frame = NoFrame
    /\ due = Threads
    /\ silence = 0
    /\ lockedFor = 0
    /\ crashes = 0
    /\ semErrs = 0

-----------------------------------------------------------------------------
(* The UDP thread.                                                         *)

\* Whether the uplink is attached is read before the semaphore is waited for.
Publish(p) == IF attached THEN [udp EXCEPT !.pkt = p, !.pc = "put"]
                          ELSE [udp EXCEPT !.pkt = p, !.pc = "send"]

\* recvfrom returns a packet of the right size from a listed source.
UdpRecv(i) ==
    /\ proc = "up"
    /\ udp.pc = "recv"
    /\ udp' = [Publish(ControllerPkt(i)) EXCEPT !.age = 0, !.timeout = FALSE]
    /\ ran' = [ran EXCEPT !.udp = 0]
    /\ silence' = 0
    /\ UNCHANGED << shm, sem, proc, attached, clients, ser, rcLocked,
                    lockFiles, frame, due, lockedFor, crashes, semErrs >>

\* recvfrom times out, or returns a datagram of another size, which it has
\* already copied over the packet buffer.  The failsafe packet is published
\* once, when the silence exceeds rc_timeout_max_us.
UdpIdle(buffer) ==
    /\ proc = "up"
    /\ udp.pc = "recv"
    /\ ran' = [ran EXCEPT !.udp = 0]
    /\ IF ~udp.timeout /\ udp.age > RcTimeout
         THEN /\ udp' = [Publish(Failsafe(buffer)) EXCEPT !.timeout = TRUE]
              /\ UNCHANGED due
         ELSE /\ udp' = [udp EXCEPT !.pkt = buffer]
              /\ due' = due \ {"udp"}
    /\ UNCHANGED << shm, sem, proc, attached, clients, ser, rcLocked,
                    lockFiles, frame, silence, lockedFor, crashes, semErrs >>

UdpTimeout == UdpIdle(udp.pkt)
UdpMisfit  == Misfits /\ UdpIdle([udp.pkt EXCEPT !.aux = "stray"])

\* Mutant of UdpLock: rc_ipc_put without sem_wait.
UdpLockUnguarded ==
    /\ proc = "up"
    /\ udp.pc = "put"
    /\ sem' = "udp"
    /\ udp' = [udp EXCEPT !.pc = "copy"]
    /\ UNCHANGED << shm, proc, attached, clients, ser, ran, rcLocked,
                    lockFiles, frame, due, silence, lockedFor, crashes, semErrs >>

\* rc_ipc_put: sem_wait ...
UdpLock ==
    /\ proc = "up"
    /\ udp.pc = "put"
    /\ sem = "free"
    /\ sem' = "udp"
    /\ udp' = [udp EXCEPT !.pc = "copy"]
    /\ UNCHANGED << shm, proc, attached, clients, ser, ran, rcLocked,
                    lockFiles, frame, due, silence, lockedFor, crashes, semErrs >>

\* ... memcpy and sem_post.
UdpCopy ==
    /\ proc = "up"
    /\ udp.pc = "copy"
    /\ shm' = udp.pkt
    /\ sem' = "free"
    /\ udp' = [udp EXCEPT !.pc = "send"]
    /\ UNCHANGED << proc, attached, clients, ser, ran, rcLocked,
                    lockFiles, frame, due, silence, lockedFor, crashes, semErrs >>

\* sem_wait fails: the packet is not written, and not retried.
UdpPutError ==
    /\ proc = "up"
    /\ semErrs < MaxSemErr
    /\ semErrs' = semErrs + 1
    /\ udp.pc = "put"
    /\ udp' = [udp EXCEPT !.pc = "send"]
    /\ UNCHANGED << shm, sem, proc, attached, clients, ser, ran, rcLocked,
                    lockFiles, frame, due, silence, lockedFor, crashes >>

\* send_clients ends the iteration; who receives it is up to RcUplink.
UdpSend ==
    /\ proc = "up"
    /\ udp.pc = "send"
    /\ udp' = [udp EXCEPT !.pc = "recv"]
    /\ due' = due \ {"udp"}
    /\ UNCHANGED << shm, sem, proc, attached, clients, ser, ran, rcLocked,
                    lockFiles, frame, silence, lockedFor, crashes, semErrs >>

-----------------------------------------------------------------------------
(* The serial thread.                                                      *)

SerLock ==
    /\ proc = "up"
    /\ ser.pc = "get"
    /\ sem = "free"
    /\ sem' = "ser"
    /\ ser' = [ser EXCEPT !.pc = "copy"]
    /\ UNCHANGED << shm, proc, attached, clients, udp, ran, rcLocked,
                    lockFiles, frame, due, silence, lockedFor, crashes, semErrs >>

\* Mutant of SerLoop: last_good_us is set in every iteration.
SerLoopAlwaysGood(got) ==
    LET changed == got # ser.last
        pkt     == IF ~changed /\ ser.age > SmTimeout THEN Failsafe(got) ELSE got
    IN  /\ ser' = [pc      |-> "get",
                   last    |-> got,
                   started |-> ser.started \/ changed,
                   age     |-> 0]
        /\ frame' = IF ser'.started /\ ~rcLocked THEN Frame(pkt) ELSE frame
        /\ ran' = [ran EXCEPT !.ser = 0]
        /\ due' = due \ {"ser"}

\* The rest of the loop, with the packet got from shared memory: a packet
\* that does not change for sm_timeout_max_us is replaced by a failsafe
\* packet; nothing is written before the first change, nor while RC is locked.
SerLoop(got) ==
    LET changed == got # ser.last
        pkt     == IF ~changed /\ ser.age > SmTimeout THEN Failsafe(got) ELSE got
    IN  /\ ser' = [pc      |-> "get",
                   last    |-> got,
                   started |-> ser.started \/ changed,
                   age     |-> IF changed THEN 0 ELSE ser.age]
        /\ frame' = IF ser'.started /\ ~rcLocked THEN Frame(pkt) ELSE frame
        /\ ran' = [ran EXCEPT !.ser = 0]
        /\ due' = due \ {"ser"}

SerGet ==
    /\ proc = "up"
    /\ ser.pc = "copy"
    /\ SerLoop(shm)
    /\ sem' = "free"
    /\ UNCHANGED << shm, proc, attached, clients, udp, rcLocked,
                    lockFiles, silence, lockedFor, crashes, semErrs >>

\* sem_wait fails: "use the last good packet retrieved".
SerGetError ==
    /\ proc = "up"
    /\ semErrs < MaxSemErr
    /\ semErrs' = semErrs + 1
    /\ ser.pc = "get"
    /\ SerLoop(ser.last)
    /\ UNCHANGED << shm, sem, proc, attached, clients, udp, rcLocked,
                    lockFiles, silence, lockedFor, crashes >>

-----------------------------------------------------------------------------
(* Main: the thread monitor, process exit and restart.                     *)

\* Mutant of Die: a restarted process starts with the uplink detached.
DieDetached ==
    /\ proc' = "down"
    /\ sem' = SemAfterDeath({"udp", "ser"})
    /\ attached' = FALSE
    /\ clients' = FALSE
    /\ udp' = UdpInit
    /\ ser' = SerInit
    /\ ran' = [udp |-> 0, ser |-> 0]

\* The memory of the process is gone: all of it has its initial value when
\* pixrc is started again.
Die ==
    /\ proc' = "down"
    /\ sem' = SemAfterDeath({"udp", "ser"})
    /\ attached' = TRUE
    /\ clients' = FALSE
    /\ udp' = UdpInit
    /\ ser' = SerInit
    /\ ran' = [udp |-> 0, ser |-> 0]

\* Mutant of MonitorOk: RcLock::locked is read only once, before the loop.
MonitorOkLockStale ==
    /\ proc = "up"
    /\ ran.udp <= Stuck /\ ran.ser <= Stuck
    /\ due' = due \ {"mon"}
    /\ UNCHANGED << shm, sem, proc, attached, clients, udp, ser, ran, rcLocked,
                    lockFiles, frame, silence, lockedFor, crashes, semErrs >>

MonitorOk ==
    /\ proc = "up"
    /\ ran.udp <= Stuck /\ ran.ser <= Stuck
    /\ rcLocked' = Locked(lockFiles)
    /\ due' = due \ {"mon"}
    /\ UNCHANGED << shm, sem, proc, attached, clients, udp, ser, ran,
                    lockFiles, frame, silence, lockedFor, crashes, semErrs >>

MonitorExit ==
    /\ proc = "up"
    /\ ran.udp > Stuck \/ ran.ser > Stuck
    /\ Die
    /\ UNCHANGED << shm, rcLocked, lockFiles, frame, due, silence, lockedFor,
                    crashes, semErrs >>

\* Any other end of the process, at any instruction.
Crash ==
    /\ proc = "up"
    /\ crashes < MaxCrash
    /\ crashes' = crashes + 1
    /\ Die
    /\ UNCHANGED << shm, rcLocked, lockFiles, frame, due, silence, lockedFor, semErrs >>

\* inittab starts pixrc again: no clients, the uplink attached; sem_open finds
\* the semaphore, and shm_open the memory, as they were left.
Restart ==
    /\ proc = "down"
    /\ proc' = "up"
    /\ rcLocked' = Locked(lockFiles)
    /\ due' = due \cup Threads
    /\ frame' = NoFrame
    /\ silence' = 0
    /\ UNCHANGED << shm, sem, attached, clients, udp, ser, ran, lockFiles,
                    lockedFor, crashes, semErrs >>

-----------------------------------------------------------------------------
(* Other processes and time.                                               *)

\* RcLock::lock_version, unlock_version and unlock_override
LockFile(op) ==
    /\ op \in LockOps
    /\ lockFiles' = CASE op = "lock_version"    -> lockFiles \cup {"tmp"}
                      [] op = "unlock_version"  -> lockFiles \ {"tmp"}
                      [] op = "unlock_override" -> lockFiles \cup {"unlock"}
    /\ lockedFor' = IF Locked(lockFiles') THEN lockedFor ELSE 0
    /\ UNCHANGED << shm, sem, proc, attached, clients, udp, ser, ran,
                    rcLocked, frame, due, silence, crashes, semErrs >>

UdpSettled == \/ udp.pc = "recv" /\ "udp" \notin due
              \/ udp.pc = "put" /\ sem = "lost"
SerSettled == ser.pc = "get" /\ ("ser" \notin due \/ sem = "lost")

Settled == \/ proc = "down"
           \/ UdpSettled /\ SerSettled /\ "mon" \notin due

\* A tick passes, in which all threads, and others outside this module, must
\* iterate again.  The ages of a process that is down are not kept.
Elapse(others) ==
    /\ IF proc = "up"
         THEN /\ udp' = [udp EXCEPT !.age = Older(@, RcTimeout + 1)]
              /\ ser' = [ser EXCEPT !.age = Older(@, SmTimeout + 1)]
              /\ ran' = [udp |-> Older(ran.udp, Stuck + 1),
                         ser |-> Older(ran.ser, Stuck + 1)]
         ELSE UNCHANGED << udp, ser, ran >>
    /\ due' = Threads \cup others
    /\ frame' = NoFrame
    /\ silence' = Older(silence, SilenceCap)
    /\ lockedFor' = IF Locked(lockFiles) THEN Older(lockedFor, 2) ELSE 0
    /\ UNCHANGED << shm, sem, proc, attached, clients, rcLocked,
                    lockFiles, crashes, semErrs >>

PixTick == Settled /\ Elapse({})

-----------------------------------------------------------------------------
UdpReceives == NewId(UsedIds) \in Ids /\ UdpRecv(NewId(UsedIds))
UdpStep == \/ UdpReceives
           \/ UdpTimeout
           \/ UdpMisfit
           \/ UdpLock
           \/ UdpCopy
           \/ UdpPutError
           \/ UdpSend
SerStep == SerLock \/ SerGet \/ SerGetError
MonStep == MonitorOk \/ MonitorExit

PixNext ==
    \/ UdpStep
    \/ SerStep
    \/ MonStep
    \/ Crash
    \/ Restart
    \/ \E op \in LockOps : LockFile(op)
    \/ PixTick

PixSpec == PixInit /\ [][PixNext]_pixVars

\* Every thread is scheduled, init restarts what exits, and time passes.
PixFairness ==
    /\ WF_pixVars(UdpTimeout)
    /\ WF_pixVars(UdpLock) /\ WF_pixVars(UdpCopy) /\ WF_pixVars(UdpSend)
    /\ SF_pixVars(SerLock) /\ WF_pixVars(SerGet)
    /\ WF_pixVars(MonStep)
    /\ WF_pixVars(Restart)
    /\ WF_pixVars(PixTick)

\* The controller keeps sending.
Streaming == []<><<UdpReceives>>_pixVars

PixFairSpec == PixSpec /\ PixFairness

-----------------------------------------------------------------------------
(* Properties.                                                             *)

\* Every variable has its type.
TypeOK ==
    /\ shm \in Packets
    /\ sem \in {"free", "udp", "ser", "mgr", "lost"}
    /\ proc \in {"up", "down"}
    /\ attached \in BOOLEAN /\ clients \in BOOLEAN
    /\ udp \in [pc : {"recv", "put", "copy", "send"}, pkt : Packets,
                age : 0..(RcTimeout + 1), timeout : BOOLEAN]
    /\ ser \in [pc : {"get", "copy"}, last : Packets, started : BOOLEAN,
                age : 0..(SmTimeout + 1)]
    /\ ran \in [udp : 0..(Stuck + 1), ser : 0..(Stuck + 1)]
    /\ rcLocked \in BOOLEAN
    /\ lockFiles \subseteq {"tmp", "ro", "unlock"}
    /\ frame \in Frames \cup {NoFrame}
    /\ due \subseteq (Threads \cup {"mgr"})
    /\ silence \in 0..SilenceCap
    /\ lockedFor \in 0..2
    /\ crashes \in 0..MaxCrash
    /\ semErrs \in 0..MaxSemErr

\* A thread of pixrc is inside its critical section exactly when the
\* semaphore says so: no two threads ever copy the shared packet at once, and
\* a semaphore whose holder died is never taken for one that is held.
SemaphoreHeld ==
    /\ (sem = "udp") <=> (udp.pc = "copy")
    /\ (sem = "ser") <=> (ser.pc = "copy")

\* When the controller falls silent, the Pixhawk is told so: every frame
\* written after FailsafeBound ticks of silence has the throttle failsafe
\* value.  UDP_task publishes its failsafe packet only once, and that write may
\* fail.  The order of the threads within a tick, or a failing call of sem_wait,
\* may delay the detection by one tick, and each further failing call by one more.
FailsafeBound ==
    (IF RcTimeout > SmTimeout THEN RcTimeout ELSE SmTimeout)
        + (IF MaxSemErr = 0 THEN 1 ELSE MaxSemErr)
FailsafeBounded ==
    frame # NoFrame /\ silence > FailsafeBound => DsmFailsafe(frame)

\* A lock-out of RC set by another process stops the frames within two ticks.
LockStopsFrames == lockedFor > 1 => frame = NoFrame

\* pixrc recovers from any crash that leaves the semaphore usable: while the
\* controller keeps sending and RC is not locked, frames that are not failsafe
\* frames are written again and again.
Recovers ==
    Streaming /\ <>[](sem # "lost" /\ ~Locked(lockFiles))
        => []<>(frame # NoFrame /\ ~DsmFailsafe(frame))

=============================================================================

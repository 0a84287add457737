# Verification of OpenSolo in TLA+

OpenSolo is the software of the 3DR Solo drone and of its controller. Several
programs in several languages stand between the pilot's thumb and the autopilot:
the firmware of the controller's microcontroller (`artoo`, C++), daemons on the
controller's and the drone's Linux processors (`sololink/flightcode`, C and C++;
`sololink/pair`, Python), and the program that flies smart shots (`shotmanager`,
Python). This directory models the parts whose correctness depends on the order
of events, checks them with TLC on small instances and proves what matters most
with TLAPS for every value of the constants.

The project starts with the path of the sticks, because a mistake there is a
drone that does not obey, and because four threads, two processes, shared memory,
a semaphore and two kinds of sockets take part in it. It goes on with the commands
of the controller's buttons, the telemetry on its way to and from the autopilot,
pairing, and the start, shutdown and memory of the controller.

## 1. Inventory

    sticks, buttons                   controller          |            drone
    artoo (STM32) --UART/SLIP--> stm32 daemon --UDP--> pixrc --serial--> Pixhawk
                                                        | ^
                                            shared packet | commands, stick packets
                                                        v |
                                                     shotManager --MAVLink--> Pixhawk

| part | state it keeps | operations | hard behaviour | what makes it correct |
|---|---|---|---|---|
| `pixrc` UDP thread | last packet, age, failsafe published? | receive, time out, publish | semaphore shared with dying processes, a put that fails | failsafe reaches the Pixhawk in bounded time |
| `pixrc` serial thread | last packet seen, its age, has anything changed? | get, decide, send a DSM frame | stale shared memory, lock read by another thread | no frame when silent, locked or never started |
| `pixrc` main | time stamps of the threads, lock state | monitor, exit | stuck against idle threads | restarts when stuck, never otherwise |
| `RcLock` | two files | lock, unlock, query | other processes write them | lock-out stops frames |
| command channel (`Commander`, `RcCommander`) | clients, uplink_attached | attach, detach | lost on restart, a full queue refuses commands, sends drop | one writer of the shared packet |
| shotManager `rcManager`, `rc_ipc` | remappingSticks, channels, age, semaphore handle | parse, rcCheck, remap, enableRemapping | two threads, exceptions, two processes | sticks come back after a shot |
| artoo `HostProtocol` (transmit) | txPending, packet buffer | requestTransaction, producePacket | interrupts, all of one priority, between the statements of the main loop | a packet is not changed while it is sent; nobody starves |
| artoo `ButtonManager` | ring of indices, event slots | edge interrupt, hold task, produce | main loop and interrupts share it | events leave once and in order |
| artoo `HostProtocol` (receive), SLIP | ring, packet, synced | byte interrupt, task | overruns, errors, reset | frames are whole or dropped |
| artoo `FlightManager`, `Lockout`, `ManualOverride` | one pending command, link counter, what the vehicle said last | buttons, MAVLink, heartbeat | a request while one is pending, interrupts inside a request or the loss of the link, a silent vehicle | the command sent is the newest request, whole, once |
| artoo `PowerManager`, `Ui` | power state, screen, queue of events | button, battery, host shutdown | events from everybody, a host that boots slowly or comes back | the host is told before its power is cut, and what was changed is saved |
| artoo `Params` | a copy in memory, one flash page, a mark | load, mark dirty, save | button interrupts during a save or a pass that saves nothing, flash errors, power lost while writing | what is not marked is stored |
| pairing (`pair_server`, `pair_solo`, `VehicleConnector`) | state, the Solo in question, the paired one, the rejected ones; prompt and answer; confirmation | connect, ask, confirm, reject, time out | datagram loss, late answers, overtaking messages, races of two drones, leases that lapse, a server that dies or a controller that is rebooted | both ends agree who is paired; only whom the pilot approved gets in |
| `stm32` daemon | clients, queues, frames | accept, read, write, forward | slow clients, back-pressure | one slow client does not stop the rest |
| `telem_forward` | clients, `arp_table`, parser | register, forward, time out | two threads, one table read without its mutex, one shared parser | live clients are served, dead ones forgotten, a locked RC lets no arm command through |
| shotManager shots | state of each shot | buttons, app, ticks | mode changes during a shot | a shot that ends leaves nothing behind |
| GoPro manager | request queue | request, answer, time out | lost answers | queue moves on |
| updater scripts | partitions, flags | load, verify, reboot | power loss | a bootable system remains |

`PROJECT.json` lists every part with its sources, the ones that are not modelled
too, and every hazard with its line. Display, drivers, video, logging and
packaging are left aside: they are input and output, register accesses or wording,
and have no protocol a model would say more about than the code.

## 2. The modules

### PixRc: from the controller to the Pixhawk

State: `proc` is the process, `udp`, `ser` and `ran` the threads' locals and time
stamps, `shm` and `sem` what is shared and survives a process, `attached` and
`clients` what the command channel keeps, `lockFiles` and `rcLocked` the lock,
`frame` what was last written to the serial port. `lockedFor` and `silence` are
history variables the properties need.

| code | action |
|---|---|
| `UDP_task`: recvfrom succeeded, accepted / rejected for its size | `UdpRecv` / `UdpMisfit` |
| `UDP_task`: receive timed out, failsafe | `UdpTimeout` |
| `rc_ipc_put`: sem_wait, copy and sem_post, error | `UdpLock`, `UdpCopy`, `UdpPutError` |
| `Commander::send_clients` | `UdpSend` |
| `serial_task`: one turn of the loop, sem_wait, copy, error | `SerLoop`, `SerLock`, `SerGet`, `SerGetError` |
| `main`: monitor loop, exit | `MonitorOk`, `MonitorExit` |
| `RcLock` used by other processes | `LockFile` |
| end of the process, start by inittab | `Crash`, `Restart` |

Every thread runs once per tick of the clock at least, which is how the code is
scheduled (20 ms and 200 ms loops; a tick is 200 ms). A tick (`PixTick`) happens
when all that the threads can do in it is done, in any order; a thread that waits
for a semaphore nobody will post does not hold time up. Packets are records of an
identity (time stamp and sequence), a throttle, the other sticks and the channels
5 to 8: what the failsafe and the comparisons tell apart.

### RcHandover: who writes the shared packet

The hand-over between pixrc and shotManager, with the content of packets left
out. `enableRemapping` is one action per statement, in the Run loop (`Enable`,
`Open`, `DetachUplink`, `Disable`, `AttachUplink`, `Close`) and in dronekit's
thread (`CbDisable`, `CbAttachUplink`, `CbRaises`, `CbClose`); `rc_ipc.put` is
`Put`, `Acquire`, `Acquired`, `WriteWord`, `Release`. Commands travel in a queue
(`cmds`) of `MaxCmds` places and are handled one by one (`Command`). shotManager's
socket does not block (rcManager.py:87), so a command raises when the queue is full
as it does when pixrc is down (`Accepts`), after remappingSticks and `rc_ipc` have
been changed. Exceptions follow the code's path: in the Run loop detach, attach the
uplink as far as the queue takes these commands, exit (`RunRaises`); in the
constructor the end of the process (`StartRaises`); in dronekit's thread nothing
(`CbRaises`, because mode_callback catches it). `overlap`, `restarted` and `refused`
are history variables: they say which of the known weak points has been touched.

RcIpc, which RcHandover instantiates, is the semaphore and the memory of rc_ipc.c,
the packet copied word by word by whoever has the semaphore (`Enter`, `Copy`,
`Finish`, and the `End` of a process in the middle of it); pixrc's two threads use
it in `PixrcBegin` and `PixrcGoesOn`. PacketRegister is the abstract specification:
a variable that holds one packet, put and got whole in one step each (`Put`, `Get`),
which nobody can use any more once somebody has died inside. `RcHandover!RegisterSpec`
is the refinement: a put or a get takes effect at its `sem_wait`, since nobody sees
the words in between.

### RcUplink: PixRc with shotManager in the chain

Extends `PixRc` with shotManager's receive queue and `rcManager`'s channels and
counters: `Parse`, `MgrTick` (rcCheck and remap), `MgrAcquire`, `MgrCopy`. A
packet that goes this way is repeated by shotManager with the identity of the one
it answers, and becomes the default channels once rcManager has heard nothing for
too long. Here `enableRemapping` is one step: its interleavings are RcHandover's.

### HostLink: the controller's transmit side

One record `link` for the variables of `HostProtocol` and `ButtonManager`, and
`main` for the position of the main loop. Statements of `requestTransaction`,
`producePacket` and `dispatchEvt` in the main loop are actions of their own;
interrupts have one priority, so a handler is one action (`ButtonIsr`, `DmaIsr`).
The completion interrupt waits (`done`) while it is masked (`irq`). The buffer the
DMA channel reads is a value: changing the buffer while the channel is busy makes
it `Garbled`. `raced` is a history variable: it says that a button interrupt has
come into one of the two windows the code leaves open, and the main properties
hold as long as it has not. `expected` is the ghost queue of the accepted events.

Transmitter is the abstract specification: what waits (`waiting`, `events`), the
packet on the `line`, and whether the main loop will ask. A request is one step
(`Request`): an idle line takes the first packet there is, a busy one needs nothing.
So is a completion (`Complete`). `HostLink!TransmitterSpec` is the refinement: a
packet is on the line when the main loop takes it from its source, several
statements before the DMA channel is started (`OnLine`), and a request that finds
`txPending` set takes effect at that test.

### FlightCommands: the command to the vehicle

`cmd` is FlightManager's one `Command` (id, state, and the union of arguments as
`val`), `veh` the arm state, mode and system status the vehicle told last, `link`
and `flag` the link counter and `flagRCFailsafe`, `main` the position of the main
loop in a request or in the rest of a heartbeat message. A request in the main
loop (a held button, `HoldTask`; a heartbeat or a status text of the vehicle,
`VehicleBeat`, `NotArmable`) is taken apart into the store of the argument, of the
id, of the state, and the call of `requestTransaction` (`WriteVal`, `WriteId`,
`WriteState`, `AskHost`), in the order of the source; the compiler may order the
stores otherwise. The end of a heartbeat stores arm state, mode and status one
after the other (`StoreArmed`, `StoreMode`, `StoreStatus`). A button's interrupt
(`ButtonIsr`) is one step that may come between any of them. `requestTransaction`
itself and the completion interrupt are single steps (`Ask`, `TxComplete`): their
interleavings are HostLink's.

`wanted` is the ghost of the newest request that has not been sent, `mixed` says
that the command may consist of parts of two requests; that happens when a set in
the main loop finds a command waiting, or is itself interrupted by another set.
Take-off is left out because nothing calls `beginTakeoff`; acknowledgements are
left out because `ack.command`, a MAVLink number, never equals `command.id`, an
index, and nothing reads the state `Sent`.

| code | action |
|---|---|
| `onFlyButtonEvt`, `onPauseButtonEvt`, `onRtlButtonEvt`, `onAButtonEvt` in an interrupt | `FlyClick`, `PauseClick`, `RtlRelease`, `AClick` |
| the same in `pollForHold`, and `forceDisarm` | `FlyHold`, `RtlHold`, `ForceHold` |
| `sysHeartbeat` | `SysHeartbeat` |
| `linkDisconnected`, statement by statement | `NoteFailsafe`, `ForgetStatus`, `ClearTelemetry` |
| `resetLinkConnCount`, HEARTBEAT, `linkConnected`, `onArmStateChanged` | `VehicleBeat`, `StoreArmed`, `StoreMode`, `StoreStatus` |
| SYS_STATUS, STATUSTEXT "Arm: Mode not armable" | `SysStatus`, `NotArmable` |
| `producePacket` | `Sent`, in `Ask` and `TxComplete` |
| `Lockout`, `ManualOverride` | `HostLock`, `SetOverride` |

### TelemForward: telemetry to its clients, commands to the Pixhawk

`clients`, `age` and `table` are the list of clients, the time since they were
last heard and `arp_table`; `mClients` and `mArp` the two mutexes; `parser` the
state of MAVLink channel 0, which both threads feed. The upstream thread goes
through `Recv`, `FindClient`, `Accept`, `CheckLock`, `ParseHead`, `ParseTail`,
`Write`, `Seen`, `Insert`, `Stamp` and, when the check is due, `Reap`, `Remove`,
`Reaped`; the downstream thread through `ReadHead`, `ReadTail` or `Inject`, then
`Route`, `Visit`, `SeenSys`, `SeenComp`, `Match`, `Routed`. A step is what a thread
does between two points at which the other can run. A frame is a head and a tail,
so that one can be half read. `Tick` is a second: the socket's timeout brings the
upstream thread round its loop in each. `owner`, `orphan`, `raced`, `disturbed`,
`sawLock` and `starved` are history variables. `Fifo` chooses between threads that
interleave freely, which is more than one core does, and the priorities of the
code: the passing run and the proofs do without priorities, the violation has them.

| code | action |
|---|---|
| `upstream_task`: recvfrom, find_client, the checks of a datagram | `Recv`, `RecvTimeout`, `FindClient`, `AcceptEmpty`, `Accept` |
| the arm check while the RC is locked, write | `CheckLock`, `ParseHead`, `ParseTail`, `Write` |
| serial port stuck: exit, start by init | `Stuck` |
| `set_seen_sysid_compid_from_client` | `Seen`, `Insert` |
| `check_client_timeouts`, `purge_client_from_arp_table` | `Stamp`, `Reap`, `Remove`, `Reaped` |
| `downstream_task`: read, frame by frame; inject port | `ReadHead`, `ReadTail`, `Inject` |
| the loop over the clients, `should_send_message_to_client` | `Route`, `Visit`, `SeenSys`, `SeenComp`, `Match`, `Routed` |

Router is the abstract specification: who is a member, which member a component (and
the system) belongs to, and, of the message that is being passed on, to whom it is
still due and who got it. It names the two ways a log block that has an owner can go
astray: nothing is owed when the entry of the system is lost (`Owed`), and what is owed
may be missed, but only during a claim (`Miss`); and one that was not owed may still
arrive (`DeliverLate`). `TelemForward!RouterSpec` is the refinement: a message is due,
while the list is gone through, to the clients ahead, or to the owner if it is ahead.

### Pairing: which Solo the controller lets in

Four parties: pair_server.py (`state`, `mac`, `needPin`, `confirmed`, `paired`,
`blacklist`), the way through the stm32 daemon (`request`, `result`, `answer`,
`heard`), VehicleConnector (`ui`, `device`) and pair_solo.py on every Solo (`pc`,
`key`, `linked`), with the Wi-Fi network between them (`asked`, `ack`, `pinEvents`,
`pins`). A pass of the server's loop is one action per branch. The
server may die anywhere (`Crash`), also between truncating and writing
pairing.conf (`CrashInWrite`), and starts again without what it knew; or the whole
controller is started again, with the STM32 or without (`Reboot`), and hostapd and
dnsmasq have forgotten too. The address 10.1.1.10, which a Solo needs, is leased for
two hours (dnsmasq.conf:116, 149); the lease lapses while its holder is out of range
and is unknown after a reboot, and a confirmed Solo goes on all the same. So the lease
keeps nobody out for long, and `NetworkUp` is possible for every Solo. Requests and
acknowledgements get lost (`Lose`), Solos are switched on and off, and the pilot
accepts or rejects whatever is on the screen, or does nothing. `meant`, `current` and
`said` are history variables: the name on the screen when the pilot answered, whether
the question is still being asked, and which life of the server last said yes to a Solo.

Admission is the abstract specification: the controller's own Solo (`owner`), the one
that is let in (`guest`), those that were turned away (`barred`) or told that they are
in (`told`), and the presses that were not used yet, each for one Solo at most.
`Pairing!AdmissionSpec` is the refinement; a press is a `ui` or an `answer` under way.

| code | action |
|---|---|
| `handle_pin_request` by case | `PinRejected`, `PinPaired`, `PinUnknown`, `IgnorePin` |
| connect requests by state | `ConnectYes`, `ConnectPaired`, `ConnectUnknown`, `ConnectPending`, `ConnectNo` |
| pair confirm, `check_user_wait_timeout` | `PairConfirm`, `PairReject`, `IgnoreAnswer`, `UserTimeout` |
| `VehicleConnector` | `RequestArrives`, `ResultArrives`, `Accept`, `Reject`, `SendConfirm` |
| `pair_solo`, `pin_pair`, `network_up`, `run_connected` | `PowerOn`, `Button`, `PinScan`, `PinCompleted`, `PinInactive`, `NetworkUp`, `Ask`, `Acked`, `Refused`, `GiveUp`, `IgnoreNo` |

### ArtooPower and ParamStore: start, shutdown and parameters

Parameters (`ram`, `flash`, `dirty`, and `pc`, `by`, `addr` for a save under way),
power (`sys`, `notify`, `slow`, `buttonsOff`), the host (`heard`, `rx`, `host`) and
the screen (`current`, `pending`, `events`). Tasks run one at a time (`TaskFree`),
but a pass of periodicWork is not one step: it begins whether or not something is
marked (`Sync`), erases (`Erase`), reads each half word (`Read`, params.cpp:45) and
programs what it has read (`held`) when the flash is free (`Program`,
mcuflash.cpp:64-68), and forgets the mark at the end (`SyncDone`), because button
interrupts (`Capture`) and a power cut (`PowerCut`) come in between. The screen's own
steps are `Frame`, `ScreenEnds`, `ShutdownEnds` and `Wake`. `slipped` is a history
variable: a change came during a pass of periodicWork, which forgets its mark even if
it saved nothing, or after the save of a shutdown.

ParamStore is the abstract specification of the parameters: a memory and a page that
is only erased and then filled with half words taken from the memory (`Take`,
`Fill`), each once, or given up; and after a restart the memory is what the page
says, with defaults for what is missing. `ArtooPower!StoreSpec` is the refinement
(`mem <- ram`, `page <- flash`, `open <- pc \in {"program", "wait"}`, and `taken` is
`held` and where it goes), checked by TLC and proved.

| code | action |
|---|---|
| `capturePreset`, configuration by the host | `Capture`, `HostConfigures` |
| `Params::periodicWork`, `save`, `McuFlash` | `Sync`, `Erase`, `EraseFails`, `Read`, `Program`, `ProgramEnds`, `SyncDone` |
| `waitForCompleteStartup`, `enterRunningState` | `PowerOn`, `BatteryReady`, `EnterRunning` |
| `shutdown` (from the button, the battery, the idle timer or the start) | `Shutdown`, `ShutdownSaved` |
| `producePacket`, `onShutdownSequenceComplete`, `updatePowerDown`, `onButtonEvt` when idle | `TellHost`, `ShutdownEnds`, `Wake`, `PressIdle` |
| `HostProtocol::processPacket`, `onUpdaterMsg`, `Lockout` | `HostPacket`, `HostConfigures`, `HostEvent` |
| `Ui::update`, `processEvents`, alerts | `Frame`, `ScreenEnds`, `Alert` |

## 3. What is checked

### Runs that pass

| run | instance | properties | states |
|---|---|---|---|
| `pixrc_safety` | timeouts 2, four identities, one crash, one failing `sem_wait`, mis-sized datagrams, lock-outs for a version, fair | `SemaphoreHeld`: threads never copy together; `FailsafeBounded`: after the bound, frames carry throttle failsafe or stop; `LockStopsFrames`: no frame later than two ticks after a lock-out; `Recovers`: after any crash with a usable semaphore the sticks reach the Pixhawk again | 1 000 053 |
| `handover` | a queue of 2 commands, 2 deaths, dronekit's thread, packets of 2 words, fair | `UplinkRestored`, `RemapExclusive`: one writer whenever no hand-over is under way; `RegisterSpec`: the shared memory, copied word by word, implements PacketRegister; `SticksReturn`: the sticks come back | 296 680 |
| `uplink` | timeouts 1, two identities, one death of either process | `UplinkFailsafeBounded`: the failsafe arrives through shotManager too | 3 413 724 |
| `hostlink` | 2 slots, 2 packets per heartbeat, line switched, fair | `PendingMeansSending`: a request is never stuck behind a completion that will not come; `EventsInOrder`; `TransmitterSpec`: implements Transmitter, so a packet is sent whole and nothing is left waiting; `Served`: every source gets to send | 510 093 |
| `flight_commands` | link lost after 2 heartbeats, five modes | `OneCommand`: the command that waits is the newest request, whole, and leaves once; `LostNotFlying`: a silent vehicle counts as not flying once linkDisconnected has forgotten its status; `NeverStranded`: a command that waits will be asked for | 3 655 166 |
| `telem_forward` | two clients, two components, timeout and interval 1, free interleaving | `NoDangling`: no pointer to a deleted client; `RoutedToOwner`: a log block reaches the client it is for; `RouterSpec`: implements Router, so it reaches nobody else and nobody twice; `FreshClients`: silent clients are removed in time; `LockedNoArm` | 4 773 494 |
| `pairing` | two Solos, one death of the server or reboot of the controller | `AdmissionSpec`: implements Admission; `Agreement`: who is connected; `OnePerLife`: no life of the server confirms two Solos; `RejectedStaysOut`; `ByNameUnlessLate`: whom the password is given to | 1 983 937 |
| `pairing_live` | two Solos, no pairing button, fair | `PromptEnds`: a prompt goes away; `PairedConnects`: the paired Solo gets through | 148 300 |
| `artoo_power` | a preset of two half words and a sweep time of one, two values, one place in the event queue | `CleanIsStored`: what is not marked is stored; `ShutdownSaves`, `HostTold`: before the host is switched off everything is saved and the host was told; `StoreSpec`: implements ParamStore | 3 685 262 |

Each module has one type invariant. Every property is broken by at least one
mutation of the code, listed in `PROJECT.json` and written beside the definition
it mutates.

Some properties carry a condition that names a weak point of the code, kept in a
history variable; without the condition they are false:

* `overlap` (RcHandover): two calls of `enableRemapping`, which the Run loop and
  dronekit's thread make without a lock (rcManager.py:200, shotManager.py:353).
  "attach uplink" may reach pixrc before "detach uplink", and nobody writes the
  shared packet although the comment at pixrc.cpp:389 expects the client to.
* `restarted` (RcHandover): a restarted pixrc starts with the uplink attached
  although shotManager still remaps (RcCommander.h:8), and both write.
* `refused` (RcHandover): pixrc's command queue has no room for the "attach uplink" of
  dronekit's thread. The socket raises, mode_callback catches it (shotManager.py:335),
  and remappingSticks is False already, so that no later `enableRemapping(False)` sends
  the command again: the uplink stays detached and nobody writes the shared packet.
  The clean-up at the next change of mode, written for a remapping that "did not
  properly clear" (shotManager.py:327), finds nothing to change.
* the exception of `LostNotFlying` (FlightCommands): linkDisconnected runs with the
  link already down and the vehicle still in flight until line 116, and
  onPauseButtonEvt (line 321) does not look at the link: a click in that window still
  sets a command.
* `said` (Pairing): after the death of the server or a reboot of the controller a
  confirmed Solo goes on, ignores a no (pair_solo.py:467) and has perhaps lost its
  address to another one, which is then confirmed too. `OnePerLife` says that this
  takes two lives of the server.
* `raced` (HostLink): a button interrupt inside the "critical section" of
  hostprotocol.cpp:91, which masks only the DMA interrupt, starts a transmission of
  the buffer the main loop is filling; one between the enqueue of a held button's
  event and the advance of `eventIdx` (buttonmanager.cpp:276) makes two events
  share a slot. The comment there expects "heartbeat ISR context", but
  Tasks::invoke calls it from the main loop.
* `mixed` (FlightCommands): a command set while another waits; the assertion
  `ASSERT(state != Pending)` at flightmanager.h:253 is empty in the firmware, and
  the request that waited is forgotten.
* `orphan` and `raced` (TelemForward): the entry of component 0 left with the
  client that had it (telem_forward.cpp:475), or the table was read without its
  mutex (line 863) while it was written: the log block goes to nobody. `starved`:
  after an empty datagram nothing is checked (line 564). `disturbed`: see below.
* `answer.current` (Pairing): see below.
* `slipped` and `flashError` (ArtooPower): params.cpp:79 forgets the mark of a
  change that came during the save, or in a pass that had nothing to save; Preset1 is disabled twice and Preset2 never
  (buttonmanager.cpp:322), so a preset can still change after a shutdown's save;
  and nobody clears the error bits of the flash controller, so after one error no
  save succeeds until the next start.

Two more are in the models without a condition. After a restart shared memory
still holds the packet of the dead process and counts as new, so
`FailsafeBounded` bounds its effect instead of excluding it. And the default
channels of rcManager.py:135 have the failsafe value at index 2 where the throttle
is index 0, so what shotManager sends after losing the controller is the throttle
in the middle; the failsafe of the chain rests on the silence of the frames, which
is why `UplinkFailsafeBounded` speaks of frames that are sent.

### Runs that disagree with what the repository says

| run | what the repository says | what the run shows |
|---|---|---|
| `semaphore_survives` | a dead thread is cured by a restart (pixrc.cpp:1140) | an exception between acquire and release leaves the semaphore taken for ever |
| `rc_locked_no_arm` | "If we're rc-locked, don't send an arm command" (telem_forward.cpp:664) | the check shares its parser with the other thread and misses a command when a frame of the Pixhawk is half read |
| `approved_by_name` | only the Solo the user approved by name gets the password (pair_server.py:157) | an answer that comes after its question timed out counts for the next Solo |

### Bounds

Identities of packets are reused once nobody holds them: the code only compares them
for equality with the last one, and the instance has one more than the places that
hold a packet. Timeouts are small numbers of ticks (1 or 2, and more for stuck
threads) in the order of the code's, because only their order and sum matter. One
crash is enough for each pair of "died holding" and "started after"; the hand-over
is run with two so that both processes die. `MaxCmds` is not a bound but the length
of the socket's queue, which depends on the system: two lets the second of two
calls, or the second command of a start, find it full. Two slots give every overlap
of a full ring that seven do. The locks of `pixrc_safety` are those of one file (a
version mismatch); the proof of `LockCorrect` covers the others. A link that is lost
after two heartbeats can be up, half lost and down. The five modes are the four the
code requests and the one it starts in, which is not autonomous; the other
arguments, the number of a waypoint and of an arm state, have the values of two of
them.

Two clients and two components are the least with which an entry can belong to the
wrong client or survive its own; a timeout and an interval of one tick keep their
order and sum. With two Solos there is one that is asked about and one that gets its
answer; one death is enough because the server keeps nothing but pairing.conf. A
field of two half words, another of one, and one place in the event queue give a
half programmed page, a half programmed field and an overfull queue; Preset2, whose
button stays enabled, is one of them. `MaxCrashes`, `Room`, `MaxInbox`, `MaxCmds`,
`MaxCrash`, `MaxSemErr`, `SilenceCap`, `Slots` and `PacketsPerBeat` are constants;
no other bound is built in.

### Fairness

Weak fairness of the threads' steps: Linux schedules them, and the code gives them
real-time priority. Strong fairness where a lock is contended (a semaphore is handed
to a waiter). Restart is fair because inittab respawns. In RcHandover a command is
fair together with its refusal: sendto returns, but may raise. In HostLink the main
loop's statements, the DMA channel and the heartbeat are fair; `Heartbeat` comes
only after the line has carried `PacketsPerBeat` packets, which is the speed of the
line (115200 baud: over 200 bytes in 20 ms) and not an assumption of the code's.
Nothing makes the pilot, the app, the host or a button act.

In Pairing the server's branches and the daemon's forwarding are weakly fair: one
loop serves them all. The answer to a connect request and its arrival are strongly
fair, because run_connected repeats its request for ever and a network that loses
every datagram promises nothing. `NetworkUp` is only fair while no other Solo is on
the network: then the lease ends and network_up, which tries again, gets the
address. `pairing_live` has no pairing buttons and no deaths: with them a Solo may
be sent back to the PIN exchange for ever. TelemForward and ArtooPower state no
fairness: whether a shutdown ends depends on events nobody bounds, and it does not
always (the event that brings up the shutdown screen is dropped when the queue is
full, ui.h:55).

### What is assumed

The answer to a command is sent before the next step of the hand-over is looked at,
in RcUplink only. In PixRc and RcUplink the copy of a packet inside the semaphore is
one step; RcHandover, where it is one step per word, shows with `RegisterSpec` that
this is sound. A button interrupt is one step: it has the priority of the others. In
FlightCommands the stores of the main loop happen in the order of the source, and no
HEARTBEAT comes with SoloLink's own ids (mavlink.cpp:23), which would not reset the
link counter: no program under `src/` sends one. In TelemForward there is one
MAVLink system, no sender is component 0, and rc_locked may have either value at
each look. In Pairing a message to or from the STM32 arrives before the next of its
kind is sent; a connect request, which carries an address, counts for the Solo its
acknowledgement goes to, so the address does not change hands between the two; and
pairing.conf, once written, is on the disk when the controller is rebooted, except
for a reboot in the middle of the write. In ArtooPower the request to the host has
left before the shutdown screen has been up for its 17 s.

## 4. What is proved

Eight modules hold TLAPS proofs for all constants that satisfy the assumptions of
the module they are about: `PixRcProofs`, `RcUplinkProofs`, `RcHandoverProofs`,
`HostLinkProofs`, `FlightCommandsProofs`, `TelemForwardProofs`, `PairingProofs` and
`ArtooPowerProofs` (`TimeoutsAssumption`, `IdsAssumption` and `LockOpsAssumption`
in PixRc, `UplinkAssumption`, `HandoverAssumption`, `LinkAssumption`,
`LinkDurationAssumption`, `ModesAssumption`, `TelemForwardAssumption`,
`PairingAssumption`, `PowerAssumption`).

* `TypeCorrect` (all eight; `UplinkTypeCorrect` in RcUplink): in PixRc the work is the
  ages, which saturate; in RcUplink, that what rcManager puts is never None; in
  RcHandover, the length of the command queue, whatever is sent on the way out of an
  exception (commands that are refused are no matter of types); in FlightCommands it is a part of
  `FlightInv`, because a half written request must have the type of its position.
* `SemaphoreCorrect`: threads never copy together. `SemaphoreHeld` itself is
  inductive with the types: the step that takes the semaphore needs it free, and a
  death of the holder makes it "lost", which nobody can take.
* `LockCorrect`: a lock-out stops frames within two ticks. The invariant `LockInv`
  relates the age of the lock-out to what main and the serial thread have already
  seen of it.
* `FailsafeCorrect`: the failsafe bound of PixRc. The invariant `FailsafeInv` adds up
  the two timeouts without adding them: `Announced` says that the UDP thread has
  published the failsafe packet a tick after its timeout, and `Noticed` how old a
  packet that commands can be when the serial thread reads it or holds it stale.
  Each tick either of them is late is paid for by a failed call of `sem_wait`, so
  `MaxSemErr` bounds the sum. TLC checked `FailsafeInv` before it was proved.
* `UplinkFailsafeCorrect`: the same with rcManager in the chain, in `UplinkInv`.
  `Managed` says what rcManager can still hear in a silence and when it falls back to
  the default channels; after `LastWrite` = max(`Stale`, `RcTimeout`) + 2 ticks it only
  writes what is there already (`Settling`), so the serial thread sees no fresh
  packet (`Unread`), and ages the one it has (`Aged`). Either process may die and be
  started again at any instruction. TLC checked `UplinkInv` on two instances first.
* `UplinkSemaphoreCorrect`, `UplinkLockCorrect`: `SemaphoreHeld` and `LockStopsFrames`
  with rcManager in the chain, whose frames a lock-out stops as well.
* `RegisterCorrect`: RcHandover implements PacketRegister, for packets of any number
  of words. `MemoryInv` adds to the types `OneCopies` (the semaphore is taken exactly
  while one of the three threads copies) and `HalfWay`: whoever copies has put so
  many words where they belong, and the others are still the old ones. `WholeCorrect`
  follows: serial_task never leaves `rc_ipc_get` with parts of two packets.
  `ManagerCorrect`: shotManager holds the semaphore exactly inside `put`.
* `UplinkCorrect`, `RemapCorrect`: when no hand-over is under way, the uplink is
  where `remappingSticks` says. This is not inductive: while commands are queued
  the uplink is still elsewhere. The strengthening `HandoverInv` speaks of what
  the uplink *will* be, the effect of the last queued command about it
  (`WillAttach`, `WillDetach`; a refused command has none, which is what `refused` is
  for), of the direction a hand-over under way takes
  (`OneWay`), and of processes that are down (`DownClean`). The lemmas on queues
  show that handling the first command does not change what will be and that
  sending a command decides it. TLC checked `HandoverInv` on the instance of
  `handover` before it was proved.

* `CommandCorrect`, `StrandedCorrect`, `LostCorrect`: the invariant `FlightInv` of
  FlightCommands adds to the types and to `OneCommand` and `NeverStranded` two
  facts. `Written`: what the main loop has stored of its request is still in the
  command, unless an interrupt has come; without it the last store would not be
  known to complete the request. `Heeded`: a heartbeat is only looked at while
  the link is up, and a vehicle that is not heard, or whose silence in flight is
  unanswered, has no system status, but for the two statements of linkDisconnected
  before it is forgotten; this is stronger than `LostNotFlying`, since an arm state may
  arrive before the status. TLC checked `FlightInv` before it was
  proved.

* HostLink: `PendingCorrect`, `IntactCorrect` and `OrderCorrect` are parts of
  `LinkInv`, which holds unless `raced` has become true. `Sending` says at each
  position of the main loop whether `txPending`, the DMA channel and the completion
  interrupt fit together. `Ring`: the queue holds the indices right before the next
  slot, without a gap, and the slot `dispatchEvt` is about to fill is not among
  them. The event under way, followed by the contents of the slots in the order of
  the queue, is the ghost queue `expected`. The lemmas on contents say that storing
  an event into a slot outside the queue changes nothing that is queued. That the
  ring never overflows (`TypeCorrect`) holds with the races too. TLC checked
  `LinkInv` before it was proved.
* `TransmitterCorrect`: HostLink implements Transmitter. `LinkInv` is not enough:
  `Scanned` adds that what the main loop has found empty is still empty while it asks
  the sources after it, which is why the packet it takes is the first one of that
  moment. There is a lemma per group of statements (`TaskSeen`, `DispatchSeen`,
  `EnterSeen`, `ButtonsSeen`, `SourceSeen`, `LeaveSeen`) and one per interrupt
  (`ButtonSeen`, whose one step is up to two requests, and `DmaSeen`).
  `StrandedCorrect` is then proved of Transmitter alone: when something waits, a
  packet is on the line or the main loop will ask.
* TelemForward: `DanglingCorrect`, `ReceiverCorrect`, `OwnerCorrect`,
  `FreshCorrect`, `ArmCorrect` rest on one invariant, `ForwardInv`. It says which
  thread holds which mutex at which statement (a removal is impossible while the
  list is gone through, because both hold `mutex_clients`); that the owner of a
  log block, unless its entry changes meanwhile, is still to be visited, is being
  looked at or has been sent it; that the age of a client is at most its timeout
  and the time since the last check; and that an undisturbed parser is, in the
  middle of a frame, where the thread left it. `ReceiverCorrect` (no two clients get a
  log block) is an invariant no run checks by itself: `RouterSpec` says more.
* `RouterCorrect`: TelemForward implements Router. `Passage` is added to `ForwardInv`:
  while the list is gone through, the entry of the owner and that of the system stay,
  because an insertion overwrites no component and a removal waits for
  `mutex_clients`; and who is ahead got nothing yet. From this follows what `Match`
  is: the delivery of what is due (`MatchDelivers`), a late delivery, a miss while the
  upstream thread inserts, or nothing (`PassedOver`: the client passed over was owed
  nothing). Each disjunct of Router is needed: without `DeliverLate`, without `Miss`
  or with what is owed when the system has no entry, TLC finds a step that is none of
  Router's.
* Pairing: all invariants are parts of one, `PairingInv`, proved once
  (`InvCorrect`; `ConnectedCorrect`, of a property no run checks by itself, is one of
  them). Besides the stated ones it says what is true of messages under
  way: a yes in flight is for the connected Solo, a question on the screen that is
  current is about `mac`, and, unless the server has died once, whoever was let in
  is the paired one. `ByNameCorrect` follows from the second. `OneCorrect` needs
  `OneLife`: whoever holds itself confirmed, or has a yes on its way, was `Told` so by
  some life of the server, and if that is the present one, it is the connected Solo. `AdmissionCorrect` is the
  refinement of Admission: a step lets in, rejects, forgets presses, leaves, restarts
  or changes nothing Admission speaks of, and there is a lemma for each kind.
* ArtooPower: `PowerInv` follows a save: the half words programmed so far are
  those of the memory unless a change slipped in, the one that waits for the flash is
  the one that was read, and once a save is over, or while nothing is marked, the page
  has everything. `SavesCorrect` and
  `ToldCorrect` add what a shutdown screen implies: the save is done and the host
  was told. `StoreCorrect` is the refinement: initial states are initial, and
  every step is a step of ParamStore (a reset is its `Restart`, an abandoned save
  its `Close`) or leaves it alone.

Only model-checked: liveness (`Recovers`, `SticksReturn`, `Served`, `PromptEnds`,
`PairedConnects`), which TLAPS does not do under fairness.

The bound of `FailsafeBounded` is
max(`RcTimeout`, `SmTimeout`) + (1 if `MaxSemErr` = 0, else `MaxSemErr`) ticks. TLC
has found it exact for the combinations of small timeouts tried: one tick less is
violated.

## 5. Plan

1. HostRx: byte interrupt, ring, SLIP decoding of artoo and of the stm32 daemon,
   against a reference decoder.
2. TcpServer of the stm32 daemon: clients, queues, back-pressure.
3. ShotStates: return home and rewind, mode changes; GoPro requests.

## 6. Not modelled

Most of the repository is not the program's own control logic: generated MAVLink
headers and their test suites (twice), a kernel patch set (aufs), recipes and
configuration for the build, video and codec wrappers, register definitions,
graphics, and tests. The share of all source lines these modules stand for is
therefore small, and would stay small if every daemon were modelled.

Of the control logic, the receive side of the serial link and the TCP side of the
stm32 daemon, the smart shots, the GoPro manager and the updater scripts are left
(section 5 for the first three; the scripts are sequences of shell commands around
reboots). `PROJECT.json` gives the reason for every part.

----------------------------- MODULE ArtooPower -----------------------------
(***************************************************************************)
(* ArtooPower: starting and shutting down the controller, and keeping its  *)
(* parameters.                                                             *)
(*                                                                         *)
(* The STM32 switches the host (the i.MX6) on when it starts and off when  *)
(* it has shut down.  PowerManager::shutdown asks the host to go away,     *)
(* saves the parameters and leaves an event for the screen; when the       *)
(* shutdown screen has been up for long enough the host is switched off    *)
(* and the power let go.  The screen is a state machine of its own, which  *)
(* takes events from everybody.                                            *)
(*                                                                         *)
(* Tasks run one at a time, but button interrupts come in between, also    *)
(* while a task saves the parameters: a save erases the flash page and     *)
(* programs it half word by half word.  The battery may be pulled at any   *)
(* moment.                                                                 *)
(*                                                                         *)
(* Abstracted: whether the vehicle is armed, so whether a sync is due, and *)
(* why a shutdown begins (button, empty battery, idle for long) are free;  *)
(* the screens between splash and shutdown are one; events that bring up   *)
(* no screen are left out; the packet that asks the host to go has left    *)
(* before the shutdown screen was up for 17 s; a controller that lets its  *)
(* power go is idle until the power is cut.                                *)
(***************************************************************************)
EXTENDS Naturals, Sequences

CONSTANTS
    N,                \* half words of Params::StoredValues
    Fields,           \* the sets of half words that are written together
    Groups,           \* the sets of fields that get their defaults together
    Presets,          \* the fields that a button captures
    LeftOn,           \* those whose button shutdown() leaves enabled
    Values, Blank, Default,
    Room              \* events the screen's queue holds (31)

Words == 1..N

ASSUME PowerAssumption ==
    /\ N \in Nat \ {0} /\ Room \in Nat \ {0}
    /\ Fields \subseteq SUBSET Words /\ Groups \subseteq SUBSET Fields
    /\ LeftOn \subseteq Presets /\ Presets \subseteq Fields
    /\ {} \notin Fields
    /\ Default \in Values /\ Blank \notin Values

VARIABLES
    \* Params
    ram, flash,       \* storedValues, the page
    dirty,
    pc, by, addr,     \* the task that saves: where it is, for whom, the next half word
    held,             \* the half word it has read and not yet programmed
    flashError,       \* the error bits of the flash controller
    slipped,          \* ghost: a change came during a save, whether or not that had anything
                      \* to do, or after the shutdown's
    \* PowerManager
    sys,              \* sysState; "Battery" and "Wait" are the two parts of Boot
    notify,           \* notifyShutdown
    heard, rx,        \* firstMsgRxed; is there a packet in rxbuf?
    slow,             \* more than GENEROUS_IMX6_BOOT_SECONDS since the start
    buttonsOff,       \* ButtonManager::shutdown was called
    told,             \* ghost: the host was told to go when it could be expected to listen
    host,             \* the i.MX6
    \* Ui
    current, pending, events

params == << ram, flash, dirty, pc, by, addr, held, flashError, slipped >>
power == << sys, notify, slow, buttonsOff, told >>
link == << heard, rx, host >>
screen == << current, pending, events >>
vars == << params, power, link, screen >>

Screens == {"PowerDown", "Splash", "Home", "Updater", "Shutdown"}

\* Params::load, and the defaults of those who do not find all of their parameters.
Load(fl) ==
    [w \in Words |-> IF \E g \in Groups : w \in UNION g /\ \E f \in g : \A x \in f : fl[x] = Blank
                     THEN Default ELSE fl[w]]

Erased == [w \in Words |-> Blank]

Init ==
    /\ flash \in {Erased} \cup [Words -> Values] /\ ram = Load(flash)
    /\ dirty = FALSE /\ pc = "idle" /\ by = "none" /\ addr = 1 /\ held = Blank
    /\ flashError = FALSE /\ slipped = FALSE
    /\ sys = "Off" /\ notify = FALSE /\ heard = FALSE /\ rx = FALSE /\ slow = FALSE
    /\ buttonsOff = FALSE /\ told = FALSE /\ host = "off"
    /\ current = "PowerDown" /\ pending = "PowerDown" /\ events = << >>

\* Everything but the flash starts anew; s is where the STM32 is then.
Reboot(s) ==
    /\ ram' = Load(flash) /\ UNCHANGED flash
    /\ dirty' = FALSE /\ pc' = "idle" /\ by' = "none" /\ addr' = 1 /\ held' = Blank
    /\ flashError' = FALSE /\ slipped' = FALSE
    /\ sys' = s /\ notify' = FALSE /\ heard' = FALSE /\ rx' = FALSE /\ slow' = FALSE
    /\ buttonsOff' = FALSE /\ told' = FALSE
    /\ current' = "PowerDown" /\ pending' = "PowerDown" /\ events' = << >>

\* Tasks run, and none is in the middle of a save.
TaskFree == sys \in {"Battery", "Idle", "Running"} /\ pc = "idle"

\* Mutant of Pend: the queue grows.
PendAlways(e) == events' = Append(events, e)

\* Ui::pendEvent drops the event if the queue is full.  An event is named for the
\* screen that it brings up: the last one wins.
Pend(e) == events' = IF Len(events) < Room THEN Append(events, e) ELSE events

-----------------------------------------------------------------------------
(* Params.                                                                 *)

\* Mutant of Change: the change is not marked.
ChangeUnmarked(f, v) ==
    /\ ram' = [w \in Words |-> IF w \in f THEN v ELSE ram[w]]
    /\ UNCHANGED dirty
    /\ slipped' = (slipped \/ pc # "idle" \/ buttonsOff)

\* storedValues change, and mark().
Change(f, v) ==
    /\ ram' = [w \in Words |-> IF w \in f THEN v ELSE ram[w]]
    /\ dirty' = TRUE
    /\ slipped' = (slipped \/ pc # "idle" \/ buttonsOff)

\* capturePreset, in the interrupt of a button that is let go; the gimbal screen may
\* come up.
Capture(f, v) ==
    /\ sys # "Off" /\ f \in (IF buttonsOff THEN LeftOn ELSE Presets)
    /\ Change(f, v)
    /\ (current = "Home" /\ Pend("Home")) \/ UNCHANGED events
    /\ UNCHANGED << flash, pc, by, addr, held, flashError, power, link, current, pending >>

\* periodicWork calls save, which has nothing to do unless there is a mark.
Sync ==
    /\ sys = "Running" /\ TaskFree
    /\ pc' = IF dirty THEN "erase" ELSE "saved"
    /\ by' = "sync" /\ slipped' = (slipped /\ ~dirty)
    /\ UNCHANGED << ram, flash, dirty, addr, held, flashError, power, link, screen >>

\* Mutant of Erase: the page is programmed over what it holds.
EraseNothing ==
    /\ pc = "erase" /\ ~flashError
    /\ pc' = "program" /\ addr' = 1
    /\ UNCHANGED << ram, flash, dirty, by, held, flashError, slipped, power, link, screen >>

\* save erases the page ...
Erase ==
    /\ pc = "erase" /\ ~flashError
    /\ flash' = Erased
    /\ pc' = "program" /\ addr' = 1
    /\ UNCHANGED << ram, dirty, by, held, flashError, slipped, power, link, screen >>

\* ... which fails once there was an error: nobody clears the error bits.
EraseFails ==
    /\ pc = "erase" /\ flashError
    /\ pc' = "saved"
    /\ UNCHANGED << ram, flash, dirty, by, addr, held, flashError, slipped, power, link, screen >>

\* The next half word is read ...
Read ==
    /\ pc = "program" /\ addr <= N
    /\ held' = ram[addr]
    /\ pc' = "wait"
    /\ UNCHANGED << ram, flash, dirty, by, addr, flashError, slipped, power, link, screen >>

\* ... and programmed when the flash is no longer busy with the one before ...
Program(ok) ==
    /\ pc = "wait" /\ ~flashError
    /\ flash' = IF ok THEN [flash EXCEPT ![addr] = held] ELSE flash
    /\ flashError' = ~ok
    /\ addr' = addr + 1 /\ held' = Blank
    /\ pc' = "program"
    /\ UNCHANGED << ram, dirty, by, slipped, power, link, screen >>

\* ... which is also when its error shows, and save gives up.
ProgramEnds ==
    /\ (pc = "program" /\ addr > N) \/ (pc = "wait" /\ flashError)
    /\ pc' = "saved" /\ held' = Blank
    /\ UNCHANGED << ram, flash, dirty, by, addr, flashError, slipped, power, link, screen >>

\* periodicWork forgets the mark, whatever save returned.
SyncDone ==
    /\ pc = "saved" /\ by = "sync"
    /\ pc' = "idle" /\ by' = "none" /\ dirty' = FALSE
    /\ UNCHANGED << ram, flash, addr, held, flashError, slipped, power, link, screen >>

-----------------------------------------------------------------------------
(* PowerManager.                                                           *)

\* The power button, or the charger.
PowerOn ==
    /\ sys = "Off"
    /\ Reboot("Battery")
    /\ UNCHANGED host

\* The battery is pulled, or the controller let its power go.
PowerCut ==
    /\ sys # "Off"
    /\ Reboot("Off")
    /\ host' = "off"

\* The battery is initialized: no tasks run while we wait for the button.
BatteryReady ==
    /\ sys = "Battery" /\ TaskFree
    /\ sys' = "Wait"
    /\ UNCHANGED << params, notify, slow, buttonsOff, told, link, screen >>

\* enterRunningState: the button was held, or the host is up.
EnterRunning ==
    /\ sys = "Wait" /\ pc = "idle"
    /\ sys' = "Running" /\ Pend("Splash")
    /\ UNCHANGED << params, notify, slow, buttonsOff, told, link, current, pending >>

\* More than 40 s since the start.
GetSlow ==
    /\ sys = "Running" /\ ~slow
    /\ slow' = TRUE
    /\ UNCHANGED << params, sys, notify, buttonsOff, told, link, screen >>

\* onButtonEvt while the STM32 is idle: a reset.
PressIdle ==
    /\ sys = "Idle"
    /\ Reboot("Battery")
    /\ UNCHANGED host

\* Mutant of CanShutDown: the host need not have been heard.
CanAlways == sys = "Running" => current # "Updater"

\* canShutDown
CanShutDown == sys = "Running" => current # "Updater" /\ (slow \/ heard)

\* Mutant of Shutdown: nothing is saved.
ShutdownUnsaved ==
    /\ TaskFree \/ (sys = "Wait" /\ pc = "idle")
    /\ CanShutDown
    /\ notify' = TRUE
    /\ pc' = "saved" /\ by' = "shutdown"
    /\ slipped' = (slipped /\ ~dirty)
    /\ UNCHANGED << ram, flash, dirty, addr, held, flashError, sys, slow, buttonsOff, told, link,
                    screen >>

\* shutdown asks the host to go, and saves.
Shutdown ==
    /\ TaskFree \/ (sys = "Wait" /\ pc = "idle")
    /\ CanShutDown
    /\ notify' = TRUE
    /\ pc' = IF dirty THEN "erase" ELSE "saved"
    /\ by' = "shutdown"
    /\ slipped' = (slipped /\ ~dirty)
    /\ UNCHANGED << ram, flash, dirty, addr, held, flashError, sys, slow, buttonsOff, told, link,
                    screen >>

\* onShutdownSequenceComplete: the host is switched off.
Complete ==
    /\ sys' = "Idle" /\ heard' = FALSE
    /\ host' = "off"

\* After the save the buttons are off, and the screen is next if there is one.
ShutdownSaved ==
    /\ pc = "saved" /\ by = "shutdown"
    /\ pc' = "idle" /\ by' = "none"
    /\ buttonsOff' = TRUE
    /\ \/ sys = "Running" /\ Pend("Shutdown") /\ UNCHANGED << sys, heard, host >>
       \/ sys # "Running" /\ Complete /\ UNCHANGED events
    /\ UNCHANGED << ram, flash, dirty, addr, held, flashError, slipped, notify, slow, told, rx,
                    current, pending >>

\* producePacket, when the UART is free.
TellHost ==
    /\ notify
    /\ notify' = FALSE /\ heard' = FALSE
    /\ told' = (told \/ (sys = "Running" /\ (heard \/ slow)))
    /\ host' = IF sys = "Running" /\ host = "up" THEN "going" ELSE host
    /\ UNCHANGED << params, sys, slow, buttonsOff, rx, screen >>

-----------------------------------------------------------------------------
(* The host.                                                               *)

\* The host boots, or has somehow stayed alive.
HostUp ==
    /\ sys # "Off" /\ host = "off"
    /\ host' = "up"
    /\ UNCHANGED << params, power, heard, rx, screen >>

HostGone ==
    /\ host = "going"
    /\ host' = "off"
    /\ UNCHANGED << params, power, heard, rx, screen >>

HostSends ==
    /\ sys # "Off" /\ host \in {"up", "going"} /\ ~rx
    /\ rx' = TRUE
    /\ UNCHANGED << params, power, heard, host, screen >>

\* The HostProtocol task takes a packet; most have nothing to do with this.
HostTask ==
    /\ TaskFree /\ rx
    /\ rx' = FALSE /\ heard' = TRUE
    /\ UNCHANGED << power, host, current, pending >>

HostPacket == HostTask /\ UNCHANGED << params, events >>

\* A sweep time, the function of a button, the sticks.
HostConfigures(f, v) ==
    /\ HostTask
    /\ Change(f, v)
    /\ UNCHANGED << flash, pc, by, addr, held, flashError, events >>

\* An update begins or ends, or the version lockout changes.
HostEvent(e) ==
    /\ HostTask
    /\ Pend(e)
    /\ UNCHANGED params

-----------------------------------------------------------------------------
(* Ui.                                                                     *)

\* Alerts, pairing requests, the gimbal screen.
Alert ==
    /\ sys = "Running" /\ current = "Home"
    /\ Pend("Home")
    /\ UNCHANGED << params, power, link, current, pending >>

\* processEvents: the screen that is to come up when the queue is empty.
Settled == IF events = << >> THEN pending ELSE events[Len(events)]

\* update starts with the events, and with the screen they ask for.
Show ==
    /\ TaskFree
    /\ events' = << >> /\ current' = Settled

Frame ==
    /\ Show
    /\ ~(Settled = "PowerDown" /\ heard)
    /\ pending' = Settled
    /\ UNCHANGED << params, power, link >>

\* The splash screen has been up for long enough, or the user has seen the result
\* of the update.
ScreenEnds ==
    /\ Show
    /\ Settled \in {"Splash", "Updater"}
    /\ pending' = "Home"
    /\ UNCHANGED << params, power, link >>

\* The shutdown screen has: onShutdownSequenceComplete.
ShutdownEnds ==
    /\ Show
    /\ current = "Shutdown" /\ Settled = "Shutdown" /\ ~notify
    /\ pending' = "PowerDown"
    /\ Complete
    /\ UNCHANGED << params, notify, slow, buttonsOff, told, rx >>

\* updatePowerDown: the host was heard, so the STM32 resets itself.
Wake ==
    /\ TaskFree
    /\ Settled = "PowerDown" /\ heard
    /\ Reboot("Battery")
    /\ UNCHANGED host

-----------------------------------------------------------------------------

Next ==
    \/ \E f \in Presets, v \in Values : Capture(f, v)
    \/ \E f \in Fields \ Presets, v \in Values : HostConfigures(f, v)
    \/ Sync \/ Erase \/ EraseFails \/ Read \/ Program(TRUE) \/ Program(FALSE) \/ ProgramEnds
    \/ SyncDone
    \/ PowerOn \/ PowerCut \/ BatteryReady \/ EnterRunning \/ GetSlow \/ PressIdle
    \/ Shutdown \/ ShutdownSaved \/ TellHost
    \/ HostUp \/ HostGone \/ HostSends \/ HostPacket \/ HostEvent("Home") \/ HostEvent("Updater")
    \/ Alert \/ Frame \/ ScreenEnds \/ ShutdownEnds \/ Wake

Spec == Init /\ [][Next]_vars

-----------------------------------------------------------------------------
(* Properties.                                                             *)

\* Every variable has its type.
TypeOK ==
    /\ ram \in [Words -> Values \cup {Blank}] /\ flash \in [Words -> Values \cup {Blank}]
    /\ dirty \in BOOLEAN /\ pc \in {"idle", "erase", "program", "wait", "saved"}
    /\ by \in {"none", "sync", "shutdown"} /\ addr \in 1..N + 1
    /\ held \in Values \cup {Blank}
    /\ flashError \in BOOLEAN /\ slipped \in BOOLEAN
    /\ sys \in {"Off", "Battery", "Wait", "Idle", "Running"}
    /\ notify \in BOOLEAN /\ heard \in BOOLEAN /\ rx \in BOOLEAN /\ slow \in BOOLEAN
    /\ buttonsOff \in BOOLEAN /\ told \in BOOLEAN
    /\ host \in {"off", "up", "going"}
    /\ current \in Screens /\ pending \in Screens
    /\ events \in Seq(Screens) /\ Len(events) <= Room

\* The next start would find what is in memory.
Stored == ram = Load(flash)

\* Params: what is not marked is stored, unless a change came during periodicWork's save,
\* which forgets its mark (params.cpp:79) even if it found nothing to save, or the flash
\* has failed.
CleanIsStored == pc = "idle" /\ ~dirty /\ ~slipped /\ ~flashError => Stored

\* PowerManager::shutdown: when the controller switches the host off, everything that
\* was changed before the shutdown began is stored, with the same exceptions.
ShutdownSaves ==
    [][sys = "Running" /\ sys' = "Idle" => Stored \/ slipped \/ flashError]_vars

\* PowerManager::canShutDown: the host is only switched off when it has been told to
\* go, and could be expected to listen.
HostTold == [][sys = "Running" /\ sys' = "Idle" => told]_vars

\* Params::load and save: the page is only erased and programmed once from what is in
\* memory, and memory starts from the page, whatever comes in between.
Store == INSTANCE ParamStore WITH
    mem <- ram, page <- flash, open <- pc \in {"program", "wait"},
    taken <- IF pc = "wait" THEN << addr, held >> ELSE << >>
StoreSpec == Store!Spec

=============================================================================

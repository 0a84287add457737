-------------------------- MODULE ArtooPowerProofs --------------------------
(***************************************************************************)
(* Proofs about ArtooPower, for every layout of the parameters and every   *)
(* size of the screen's queue; and that it implements ParamStore.          *)
(***************************************************************************)
EXTENDS ArtooPower, TLAPS

USE PowerAssumption

-----------------------------------------------------------------------------
(* The parts of the type invariant.                                        *)

Page == [Words -> Values \cup {Blank}]

ParamsType ==
    /\ ram \in Page /\ flash \in Page
    /\ dirty \in BOOLEAN /\ pc \in {"idle", "erase", "program", "wait", "saved"}
    /\ by \in {"none", "sync", "shutdown"} /\ addr \in 1..N + 1
    /\ held \in Values \cup {Blank}
    /\ flashError \in BOOLEAN /\ slipped \in BOOLEAN

PowerType ==
    /\ sys \in {"Off", "Battery", "Wait", "Idle", "Running"}
    /\ notify \in BOOLEAN /\ heard \in BOOLEAN /\ rx \in BOOLEAN /\ slow \in BOOLEAN
    /\ buttonsOff \in BOOLEAN /\ told \in BOOLEAN
    /\ host \in {"off", "up", "going"}

ScreenType ==
    /\ current \in Screens /\ pending \in Screens
    /\ events \in Seq(Screens) /\ Len(events) <= Room

\* The type invariant is the conjunction of its parts.
LEMMA TypeParts ==
    /\ TypeOK <=> ParamsType /\ PowerType /\ ScreenType
    /\ TypeOK' <=> ParamsType' /\ PowerType' /\ ScreenType'
BY DEF TypeOK, ParamsType, PowerType, ScreenType, Page

-----------------------------------------------------------------------------
(* The invariant.                                                          *)

\* No field that has a default is blank in memory.
Filled == \A g \in Groups : \A f \in g : \E x \in f : ram[x] # Blank

\* While the page is programmed, what lies ahead is blank and what lies behind is
\* stored, unless it changed or there was an error; so is what is on its way.
Programmed ==
    /\ pc \in {"program", "wait"} =>
        /\ \A w \in addr..N : flash[w] = Blank
        /\ ~slipped /\ ~flashError => \A w \in 1..addr - 1 : flash[w] = ram[w]
    /\ pc = "wait" => addr <= N /\ (~slipped => held = ram[addr])

\* After a save, or if there was nothing to save, the page has everything.
Kept ==
    pc = "saved" \/ (pc = "idle" /\ (~dirty \/ buttonsOff)) => Stored \/ slipped \/ flashError

\* Is the shutdown screen there, or on its way?
Leaving ==
    \/ current = "Shutdown" \/ pending = "Shutdown"
    \/ \E i \in 1..Len(events) : events[i] = "Shutdown"

\* Before the controller runs there is no shutdown screen, and a shutdown that was
\* begun is not left alone; once it runs the host is told of it.
Asked ==
    /\ sys \in {"Off", "Battery", "Wait"} =>
           ~Leaving /\ (notify => pc # "idle" /\ by = "shutdown")
    /\ sys = "Running" =>
           /\ notify => told \/ heard \/ slow
           /\ Leaving => buttonsOff
           /\ Leaving \/ (pc # "idle" /\ by = "shutdown") => notify \/ told

PowerInv == TypeOK /\ Filled /\ Programmed /\ Kept /\ Asked

-----------------------------------------------------------------------------
(* What a start finds.                                                     *)

\* Load returns a page whose defaults are filled in.
LEMMA LoadType == ASSUME NEW fl \in Page PROVE Load(fl) \in Page
BY DEF Load, Page

\* Every field with a default has a half word that is not blank.
LEMMA LoadFills ==
    ASSUME NEW fl \in Page, NEW g \in Groups, NEW f \in g
    PROVE  \E x \in f : Load(fl)[x] # Blank
<1>1. f \in Fields /\ f \subseteq Words /\ f # {} /\ f \subseteq UNION g
  OBVIOUS
<1>2. CASE \E e \in g : \A x \in e : fl[x] = Blank
  <2>1. PICK x \in f : x \in Words
    BY <1>1
  <2>2. Load(fl)[x] = Default
    BY <1>1, <1>2, <2>1 DEF Load
  <2> QED
    BY <2>2
<1>3. CASE \A e \in g : \E x \in e : fl[x] # Blank
  <2>1. PICK x \in f : fl[x] # Blank
    BY <1>3
  <2>2. Load(fl)[x] = Default \/ Load(fl)[x] = fl[x]
    BY <1>1, <2>1 DEF Load
  <2> QED
    BY <2>1, <2>2
<1> QED
  BY <1>2, <1>3

\* A page without blank fields is loaded as it is.
LEMMA LoadSame == ASSUME TypeOK, Filled PROVE Load(ram) = ram
BY DEF TypeOK, Filled, Load

\* The defaults are those of ParamStore.
LEMMA LoadRestores == \A fl : Load(fl) = Store!Restored(fl)
BY DEF Load, Store!Restored

-----------------------------------------------------------------------------
(* Facts about the data.                                                   *)

\* There is a first half word, and room for an event.
LEMMA Bounds == 1 \in 1..N + 1 /\ 0 <= Room /\ << >> \in Seq(Screens) /\ Len(<< >>) = 0
OBVIOUS

\* An erased page is a page.
LEMMA ErasedType == Erased \in Page
BY DEF Erased, Page

\* A page of which one half word was programmed is a page.
LEMMA ProgramType ==
    ASSUME ParamsType, addr <= N
    PROVE  /\ ram[addr] \in Values \cup {Blank}
           /\ [flash EXCEPT ![addr] = held] \in Page /\ addr + 1 \in 1..N + 1
BY DEF ParamsType, Page, Words

\* The last event names a screen.
LEMMA SettledType == ScreenType => Settled \in Screens
BY DEF ScreenType, Settled

\* An event that is not for the shutdown screen does not bring it about.
LEMMA PendOther ==
    ASSUME ScreenType, NEW e \in Screens \ {"Shutdown"}, Pend(e),
           current' = current, pending' = pending, Leaving'
    PROVE  Leaving
<1> USE DEF ScreenType, Leaving
<1>1. CASE events' = events
  BY <1>1
<1>2. CASE events' = Append(events, e)
  <2>1. ASSUME NEW i \in 1..Len(events'), events'[i] = "Shutdown"
        PROVE  i \in 1..Len(events) /\ events[i] = "Shutdown"
    BY <1>2, <2>1
  <2> QED
    BY <2>1
<1> QED
  BY <1>1, <1>2 DEF Pend

-----------------------------------------------------------------------------
(* Every step keeps each part of the invariant.                            *)

\* Every step keeps the types of the parameters.
LEMMA StepParams == TypeOK /\ Programmed /\ Next => ParamsType'
<1> SUFFICES ASSUME TypeOK, Programmed, Next PROVE ParamsType'
  OBVIOUS
<1> USE DEF params, power, link, screen
<1> USE TypeParts
<1>1. ASSUME NEW f \in Presets, NEW v \in Values, Capture(f, v) PROVE ParamsType'
  <2>1. ram' \in Page
    BY <1>1 DEF Capture, Change, Pend, ParamsType, Page
  <2>2. dirty' \in BOOLEAN /\ slipped' \in BOOLEAN
    BY <1>1 DEF Capture, Change, Pend, ParamsType
  <2> QED
    BY <1>1, <2>1, <2>2 DEF Capture, Change, Pend, ParamsType
<1>2. ASSUME NEW f \in Fields \ Presets, NEW v \in Values, HostConfigures(f, v) PROVE ParamsType'
  <2>1. ram' \in Page
    BY <1>2 DEF HostConfigures, Change, HostTask, TaskFree, ParamsType, Page
  <2>2. dirty' \in BOOLEAN /\ slipped' \in BOOLEAN
    BY <1>2 DEF HostConfigures, Change, HostTask, TaskFree, ParamsType
  <2> QED
    BY <1>2, <2>1, <2>2 DEF HostConfigures, Change, HostTask, TaskFree, ParamsType
<1>3. CASE Erase
  BY <1>3, Bounds, ErasedType DEF Erase, ParamsType
<1>4. CASE Program(TRUE)
  BY <1>4, ProgramType DEF Program, Programmed, ParamsType
<1>5. CASE Program(FALSE)
  BY <1>5, ProgramType DEF Program, Programmed, ParamsType
<1>6. CASE Sync \/ EraseFails
  <2>1. pc' \in {"erase", "saved"} /\ by' \in {by, "sync"} /\ slipped' \in BOOLEAN
    BY <1>6 DEF Sync, EraseFails, ParamsType
  <2> QED
    BY <1>6, <2>1 DEF Sync, EraseFails, ParamsType
<1>7. CASE ProgramEnds \/ SyncDone
  BY <1>7 DEF ProgramEnds, SyncDone, ParamsType
<1>8. CASE PowerOn
  <2>1. ram' \in Page
    BY <1>8, LoadType DEF PowerOn, Reboot, ParamsType
  <2> QED
    BY <1>8, <2>1, Bounds DEF PowerOn, Reboot, ParamsType
<1>9. CASE PowerCut
  <2>1. ram' \in Page
    BY <1>9, LoadType DEF PowerCut, Reboot, ParamsType
  <2> QED
    BY <1>9, <2>1, Bounds DEF PowerCut, Reboot, ParamsType
<1>10. CASE PressIdle
  <2>1. ram' \in Page
    BY <1>10, LoadType DEF PressIdle, Reboot, ParamsType
  <2> QED
    BY <1>10, <2>1, Bounds DEF PressIdle, Reboot, ParamsType
<1>11. CASE Wake
  <2>1. ram' \in Page
    BY <1>11, LoadType DEF Wake, Reboot, Settled, TaskFree, ParamsType
  <2> QED
    BY <1>11, <2>1, Bounds DEF Wake, Reboot, Settled, TaskFree, ParamsType
<1>12. CASE BatteryReady \/ EnterRunning
  BY <1>12 DEF BatteryReady, TaskFree, EnterRunning, Pend, ParamsType
<1>13. CASE GetSlow \/ Shutdown
  BY <1>13 DEF GetSlow, Shutdown, TaskFree, CanShutDown, ParamsType
<1>14. CASE ShutdownSaved \/ TellHost
  BY <1>14 DEF ShutdownSaved, Pend, Complete, TellHost, ParamsType
<1>15. CASE HostUp \/ HostGone
  BY <1>15 DEF HostUp, HostGone, ParamsType
<1>16. CASE HostSends \/ HostPacket
  BY <1>16 DEF HostSends, HostPacket, HostTask, TaskFree, ParamsType
<1>17. CASE HostEvent("Home") \/ HostEvent("Updater")
  BY <1>17 DEF HostEvent, HostTask, Pend, TaskFree, ParamsType
<1>18. CASE Alert \/ Frame
  BY <1>18 DEF Alert, Pend, Frame, Show, Settled, TaskFree, ParamsType
<1>19. CASE ScreenEnds \/ ShutdownEnds
  BY <1>19 DEF ScreenEnds, Show, Settled, TaskFree, ShutdownEnds, Complete, ParamsType
<1>20. CASE Read
  BY <1>20, ProgramType DEF Read, ParamsType
<1> QED
  BY <1>1, <1>2, <1>3, <1>4, <1>5, <1>6, <1>7, <1>8, <1>9, <1>10, <1>11, <1>12, <1>13, <1>14,
     <1>15, <1>16, <1>17, <1>18, <1>19, <1>20
     DEF Next

\* Every step keeps the types of the power manager and of the link.
LEMMA StepPower == TypeOK /\ Next => PowerType'
<1> SUFFICES ASSUME TypeOK, Next PROVE PowerType'
  OBVIOUS
<1> USE DEF params, power, link, screen
<1> USE TypeParts
<1>1. ASSUME NEW f \in Presets, NEW v \in Values, Capture(f, v) PROVE PowerType'
  BY <1>1 DEF Capture, Change, Pend, PowerType
<1>2. ASSUME NEW f \in Fields \ Presets, NEW v \in Values, HostConfigures(f, v) PROVE PowerType'
  BY <1>2 DEF HostConfigures, Change, HostTask, TaskFree, PowerType
<1>3. CASE Sync \/ Erase \/ EraseFails \/ Program(TRUE)
  BY <1>3 DEF Sync, TaskFree, Erase, EraseFails, Program, PowerType
<1>4. CASE Read \/ Program(FALSE) \/ ProgramEnds \/ SyncDone
  BY <1>4 DEF Read, Program, ProgramEnds, SyncDone, PowerType
<1>5. CASE PowerOn \/ PowerCut \/ PressIdle \/ Wake
  BY <1>5 DEF PowerOn, Reboot, PowerCut, PressIdle, Wake, Settled, TaskFree, PowerType
<1>6. CASE TellHost
  BY <1>6 DEF TellHost, PowerType
<1>7. CASE BatteryReady \/ EnterRunning \/ GetSlow \/ Shutdown
  BY <1>7, ZenonT(60) DEF BatteryReady, TaskFree, EnterRunning, Pend, GetSlow,
         Shutdown, CanShutDown, PowerType
<1>8. CASE ShutdownSaved
  BY <1>8 DEF ShutdownSaved, Pend, Complete, PowerType
<1>9. CASE HostUp \/ HostGone \/ HostSends \/ HostPacket
  BY <1>9, ZenonT(60) DEF HostUp, HostGone, HostSends, HostPacket, HostTask, TaskFree, PowerType
<1>10. CASE HostEvent("Home") \/ HostEvent("Updater")
  BY <1>10 DEF HostEvent, HostTask, Pend, TaskFree, PowerType
<1>11. CASE Alert \/ Frame \/ ScreenEnds \/ ShutdownEnds
  BY <1>11, ZenonT(60)
     DEF Alert, Pend, Frame, Show, Settled, TaskFree, ScreenEnds, ShutdownEnds, Complete,
         PowerType
<1> QED
  BY <1>1, <1>2, <1>3, <1>4, <1>5, <1>6, <1>7, <1>8, <1>9, <1>10, <1>11 DEF Next

\* Every step keeps the types of the screen.
LEMMA StepScreen == TypeOK /\ Next => ScreenType'
<1> SUFFICES ASSUME TypeOK, Next PROVE ScreenType'
  OBVIOUS
<1> USE DEF params, power, link, screen
<1> USE TypeParts, Bounds
<1>1. ASSUME NEW f \in Presets, NEW v \in Values, Capture(f, v) PROVE ScreenType'
  BY <1>1 DEF Capture, Change, Pend, ScreenType, Screens
<1>2. ASSUME NEW f \in Fields \ Presets, NEW v \in Values, HostConfigures(f, v) PROVE ScreenType'
  BY <1>2 DEF HostConfigures, Change, HostTask, TaskFree, ScreenType, Screens
<1>3. CASE Sync \/ Erase
  BY <1>3 DEF Sync, TaskFree, Erase, ScreenType, Screens
<1>4. CASE EraseFails \/ Program(TRUE)
  BY <1>4 DEF EraseFails, Program, ScreenType, Screens
<1>5. CASE Program(FALSE) \/ ProgramEnds
  BY <1>5 DEF Program, ProgramEnds, ScreenType, Screens
<1>6. CASE Read \/ SyncDone
  BY <1>6 DEF Read, SyncDone, ScreenType, Screens
<1>7. CASE PowerOn
  BY <1>7 DEF PowerOn, Reboot, ScreenType, Screens
<1>8. CASE PowerCut
  BY <1>8 DEF PowerCut, Reboot, ScreenType, Screens
<1>9. CASE PressIdle
  BY <1>9 DEF PressIdle, Reboot, ScreenType, Screens
<1>10. CASE Wake
  BY <1>10 DEF Wake, Reboot, Settled, TaskFree, ScreenType, Screens
<1>11. CASE BatteryReady \/ EnterRunning
  BY <1>11 DEF BatteryReady, TaskFree, EnterRunning, Pend, ScreenType, Screens
<1>12. CASE GetSlow \/ Shutdown
  BY <1>12 DEF GetSlow, Shutdown, TaskFree, CanShutDown, ScreenType, Screens
<1>13. CASE ShutdownSaved \/ TellHost
  BY <1>13 DEF ShutdownSaved, Pend, Complete, TellHost, ScreenType, Screens
<1>14. CASE HostUp \/ HostGone
  BY <1>14 DEF HostUp, HostGone, ScreenType, Screens
<1>15. CASE HostSends \/ HostPacket
  BY <1>15 DEF HostSends, HostPacket, HostTask, TaskFree, ScreenType, Screens
<1>16. CASE HostEvent("Home") \/ HostEvent("Updater")
  BY <1>16 DEF HostEvent, HostTask, Pend, TaskFree, ScreenType, Screens
<1>17. CASE Alert
  BY <1>17 DEF Alert, Pend, ScreenType, Screens
<1>18. CASE Frame
  BY <1>18, SettledType DEF Frame, Show, Settled, TaskFree, ScreenType, Screens
<1>19. CASE ScreenEnds
  BY <1>19, SettledType DEF ScreenEnds, Show, Settled, TaskFree, ScreenType, Screens
<1>20. CASE ShutdownEnds
  BY <1>20, SettledType DEF ShutdownEnds, Show, Settled, TaskFree, Complete, ScreenType, Screens
<1> QED
  BY <1>1, <1>2, <1>3, <1>4, <1>5, <1>6, <1>7, <1>8, <1>9, <1>10, <1>11, <1>12, <1>13, <1>14,
     <1>15, <1>16, <1>17, <1>18, <1>19, <1>20
     DEF Next

\* Every step keeps Filled.
LEMMA StepFilled == TypeOK /\ Filled /\ Next => Filled'
<1> SUFFICES ASSUME TypeOK, Filled, Next PROVE Filled'
  OBVIOUS
<1> USE DEF params, power, link, screen
<1>1. ASSUME NEW f \in Presets, NEW v \in Values, Capture(f, v) PROVE Filled'
  <2> SUFFICES ASSUME NEW g \in Groups, NEW e \in g PROVE \E x \in e : ram'[x] # Blank
    BY DEF Filled
  <2>1. PICK x \in e : ram[x] # Blank
    BY DEF Filled
  <2>2. x \in Words
    BY <2>1
  <2>3. ram'[x] = v \/ ram'[x] = ram[x]
    BY <1>1, <2>2 DEF Capture, Change, Pend
  <2> QED
    BY <2>1, <2>3
<1>2. ASSUME NEW f \in Fields \ Presets, NEW v \in Values, HostConfigures(f, v) PROVE Filled'
  <2> SUFFICES ASSUME NEW g \in Groups, NEW e \in g PROVE \E x \in e : ram'[x] # Blank
    BY DEF Filled
  <2>1. PICK x \in e : ram[x] # Blank
    BY DEF Filled
  <2>2. x \in Words
    BY <2>1
  <2>3. ram'[x] = v \/ ram'[x] = ram[x]
    BY <1>2, <2>2 DEF HostConfigures, Change, HostTask, TaskFree
  <2> QED
    BY <2>1, <2>3
<1>3. CASE Sync \/ Erase \/ EraseFails \/ Program(TRUE)
  BY <1>3 DEF Sync, TaskFree, Erase, EraseFails, Program, Filled
<1>4. CASE Read \/ Program(FALSE) \/ ProgramEnds \/ SyncDone
  BY <1>4 DEF Read, Program, ProgramEnds, SyncDone, Filled
<1>5. CASE PowerOn
  <2>1. ram' = Load(flash) /\ flash \in Page
    BY <1>5 DEF PowerOn, Reboot, TypeOK, Page
  <2> QED
    BY <2>1, LoadFills DEF Filled
<1>6. CASE PowerCut
  <2>1. ram' = Load(flash) /\ flash \in Page
    BY <1>6 DEF PowerCut, Reboot, TypeOK, Page
  <2> QED
    BY <2>1, LoadFills DEF Filled
<1>7. CASE PressIdle
  <2>1. ram' = Load(flash) /\ flash \in Page
    BY <1>7 DEF PressIdle, Reboot, TypeOK, Page
  <2> QED
    BY <2>1, LoadFills DEF Filled
<1>8. CASE Wake
  <2>1. ram' = Load(flash) /\ flash \in Page
    BY <1>8 DEF Wake, Reboot, Settled, TaskFree, TypeOK, Page
  <2> QED
    BY <2>1, LoadFills DEF Filled
<1>9. CASE BatteryReady \/ EnterRunning \/ GetSlow \/ Shutdown
  BY <1>9 DEF BatteryReady, TaskFree, EnterRunning, Pend, GetSlow, Shutdown, CanShutDown, Filled
<1>10. CASE ShutdownSaved \/ TellHost
  BY <1>10 DEF ShutdownSaved, Pend, Complete, TellHost, Filled
<1>11. CASE HostUp \/ HostGone \/ HostSends \/ HostPacket
  BY <1>11 DEF HostUp, HostGone, HostSends, HostPacket, HostTask, TaskFree, Filled
<1>12. CASE HostEvent("Home") \/ HostEvent("Updater")
  BY <1>12 DEF HostEvent, HostTask, Pend, TaskFree, Filled
<1>13. CASE Alert \/ Frame \/ ScreenEnds \/ ShutdownEnds
  BY <1>13
     DEF Alert, Pend, Frame, Show, Settled, TaskFree, ScreenEnds, ShutdownEnds, Complete, Filled
<1> QED
  BY <1>1, <1>2, <1>3, <1>4, <1>5, <1>6, <1>7, <1>8, <1>9, <1>10, <1>11, <1>12, <1>13 DEF Next

\* Every step keeps Programmed.
LEMMA StepProgrammed == TypeOK /\ Programmed /\ Next => Programmed'
<1> SUFFICES ASSUME TypeOK, Programmed, Next PROVE Programmed'
  OBVIOUS
<1> USE DEF params, power, link, screen
<1>1. ASSUME NEW f \in Presets, NEW v \in Values, Capture(f, v) PROVE Programmed'
  BY <1>1 DEF Capture, Change, Pend, Programmed
<1>2. ASSUME NEW f \in Fields \ Presets, NEW v \in Values, HostConfigures(f, v) PROVE Programmed'
  BY <1>2 DEF HostConfigures, Change, HostTask, TaskFree, Programmed
<1>3. CASE Erase
  <2>1. \A w \in 1..N : flash'[w] = Blank
    BY <1>3 DEF Erase, Erased, Words
  <2>2. 1..1 - 1 = {}
    OBVIOUS
  <2> QED
    BY <1>3, <2>1, <2>2 DEF Erase, Programmed
<1>4. CASE Program(TRUE)
  <2> USE <1>4 DEF Program, Programmed, TypeOK, Words
  <2>1. flash' = [flash EXCEPT ![addr] = held] /\ addr' = addr + 1 /\ pc = "wait"
    OBVIOUS
  <2>2. \A w \in addr'..N : flash'[w] = Blank
    BY <2>1
  <2>3. ASSUME ~slipped, NEW w \in 1..addr' - 1 PROVE flash'[w] = ram[w]
    BY <2>1, <2>3
  <2> QED
    BY <2>2, <2>3
<1>5. CASE Program(FALSE)
  <2> USE <1>5 DEF Program, Programmed, TypeOK, Words
  <2>1. flashError' /\ flash' = flash /\ addr' = addr + 1 /\ pc = "wait"
    OBVIOUS
  <2>2. \A w \in addr'..N : w \in addr..N
    BY <2>1
  <2> QED
    BY <2>1, <2>2
<1>6. CASE Sync \/ EraseFails \/ ProgramEnds \/ SyncDone
  BY <1>6 DEF Sync, TaskFree, EraseFails, ProgramEnds, SyncDone, Programmed
<1>7. CASE PowerOn \/ PowerCut \/ PressIdle \/ Wake
  BY <1>7 DEF PowerOn, Reboot, PowerCut, PressIdle, Wake, Settled, TaskFree, Programmed
<1>8. CASE BatteryReady \/ EnterRunning \/ GetSlow \/ Shutdown
  BY <1>8 DEF BatteryReady, TaskFree, EnterRunning, Pend, GetSlow, Shutdown, CanShutDown, Programmed
<1>9. CASE ShutdownSaved \/ TellHost
  BY <1>9 DEF ShutdownSaved, Pend, Complete, TellHost, Programmed
<1>10. CASE HostUp \/ HostGone \/ HostSends \/ HostPacket
  BY <1>10 DEF HostUp, HostGone, HostSends, HostPacket, HostTask, TaskFree, Programmed
<1>11. CASE HostEvent("Home") \/ HostEvent("Updater")
  BY <1>11 DEF HostEvent, HostTask, Pend, TaskFree, Programmed
<1>12. CASE Alert \/ Frame \/ ScreenEnds \/ ShutdownEnds
  BY <1>12
     DEF Alert, Pend, Frame, Show, Settled, TaskFree, ScreenEnds, ShutdownEnds, Complete,
         Programmed
<1>13. CASE Read
  BY <1>13 DEF Read, Programmed, TypeOK
<1> QED
  BY <1>1, <1>2, <1>3, <1>4, <1>5, <1>6, <1>7, <1>8, <1>9, <1>10, <1>11, <1>12, <1>13 DEF Next

\* Every step keeps Kept.
LEMMA StepKept == TypeOK /\ Filled /\ Programmed /\ Kept /\ Next => Kept'
<1> SUFFICES ASSUME TypeOK, Filled, Programmed, Kept, Next PROVE Kept'
  OBVIOUS
<1> USE DEF params, power, link, screen
<1>1. ASSUME NEW f \in Presets, NEW v \in Values, Capture(f, v) PROVE Kept'
  <2>1. /\ dirty' /\ slipped' = (slipped \/ pc # "idle" \/ buttonsOff)
        /\ UNCHANGED << pc, buttonsOff >>
    BY <1>1 DEF Capture, Change, Pend
  <2> QED
    BY <2>1 DEF Kept
<1>2. ASSUME NEW f \in Fields \ Presets, NEW v \in Values, HostConfigures(f, v) PROVE Kept'
  <2>1. /\ dirty' /\ slipped' = (slipped \/ pc # "idle" \/ buttonsOff)
        /\ UNCHANGED << pc, buttonsOff >>
    BY <1>2 DEF HostConfigures, Change, HostTask, TaskFree
  <2> QED
    BY <2>1 DEF Kept
<1>3. CASE ProgramEnds
  <2>1. ASSUME ~slipped, ~flashError PROVE flash = ram
    <3>1. addr = N + 1 /\ pc = "program"
      BY <1>3, <2>1 DEF ProgramEnds, TypeOK
    <3>2. \A w \in Words : flash[w] = ram[w]
      BY <2>1, <3>1 DEF Programmed, Words
    <3> QED
      BY <3>2 DEF TypeOK
  <2>2. ram' = ram /\ flash' = flash /\ slipped' = slipped /\ flashError' = flashError
    BY <1>3 DEF ProgramEnds
  <2>3. flash = ram => Stored'
    BY <2>2, LoadSame DEF Stored
  <2> QED
    BY <2>1, <2>2, <2>3 DEF Kept
<1>4. CASE Sync \/ Erase \/ EraseFails \/ Program(TRUE)
  BY <1>4 DEF Sync, TaskFree, Erase, EraseFails, Program, Kept, Stored
<1>5. CASE Read \/ Program(FALSE) \/ SyncDone
  BY <1>5 DEF Read, Program, SyncDone, Kept, Stored
<1>6. CASE PowerOn
  <2>1. ram' = Load(flash) /\ flash' = flash
    BY <1>6 DEF PowerOn, Reboot
  <2> QED
    BY <2>1 DEF Kept, Stored, Load
<1>7. CASE PowerCut
  <2>1. ram' = Load(flash) /\ flash' = flash
    BY <1>7 DEF PowerCut, Reboot
  <2> QED
    BY <2>1 DEF Kept, Stored, Load
<1>8. CASE PressIdle
  <2>1. ram' = Load(flash) /\ flash' = flash
    BY <1>8 DEF PressIdle, Reboot
  <2> QED
    BY <2>1 DEF Kept, Stored, Load
<1>9. CASE Wake
  <2>1. ram' = Load(flash) /\ flash' = flash
    BY <1>9 DEF Wake, Reboot, Settled, TaskFree
  <2> QED
    BY <2>1 DEF Kept, Stored, Load
<1>10. CASE BatteryReady \/ EnterRunning \/ GetSlow \/ Shutdown
  BY <1>10
     DEF BatteryReady, TaskFree, EnterRunning, Pend, GetSlow, Shutdown, CanShutDown, Kept,
         Stored
<1>11. CASE ShutdownSaved \/ TellHost
  BY <1>11 DEF ShutdownSaved, Pend, Complete, TellHost, Kept, Stored
<1>12. CASE HostUp \/ HostGone \/ HostSends \/ HostPacket
  BY <1>12 DEF HostUp, HostGone, HostSends, HostPacket, HostTask, TaskFree, Kept, Stored
<1>13. CASE HostEvent("Home") \/ HostEvent("Updater")
  BY <1>13 DEF HostEvent, HostTask, Pend, TaskFree, Kept, Stored
<1>14. CASE Alert \/ Frame \/ ScreenEnds \/ ShutdownEnds
  BY <1>14
     DEF Alert, Pend, Frame, Show, Settled, TaskFree, ScreenEnds, ShutdownEnds, Complete, Kept,
         Stored
<1> QED
  BY <1>1, <1>2, <1>3, <1>4, <1>5, <1>6, <1>7, <1>8, <1>9, <1>10, <1>11, <1>12, <1>13, <1>14
     DEF Next

\* Every step keeps Asked.
LEMMA StepAsked == TypeOK /\ Asked /\ Next => Asked'
<1> SUFFICES ASSUME TypeOK, Asked, Next PROVE Asked'
  OBVIOUS
<1> USE DEF params, power, link, screen
<1>1. ASSUME NEW f \in Presets, NEW v \in Values, Capture(f, v) PROVE Asked'
  BY <1>1 DEF Capture, Change, Pend, Asked, Leaving, TypeOK
<1>2. ASSUME NEW f \in Fields \ Presets, NEW v \in Values, HostConfigures(f, v) PROVE Asked'
  BY <1>2 DEF HostConfigures, Change, HostTask, TaskFree, Asked, Leaving, TypeOK
<1>3. CASE Sync \/ Erase
  BY <1>3 DEF Sync, TaskFree, Erase, Asked, Leaving, TypeOK
<1>4. CASE EraseFails \/ Program(TRUE)
  BY <1>4 DEF EraseFails, Program, Asked, Leaving, TypeOK
<1>5. CASE Program(FALSE) \/ ProgramEnds
  BY <1>5 DEF Program, ProgramEnds, Asked, Leaving, TypeOK
<1>6. CASE Read \/ SyncDone
  BY <1>6 DEF Read, SyncDone, Asked, Leaving, TypeOK
<1>7. CASE PowerOn \/ PowerCut
  BY <1>7 DEF PowerOn, Reboot, PowerCut, Asked, Leaving, TypeOK
<1>8. CASE PressIdle \/ Wake
  BY <1>8 DEF PressIdle, Reboot, Wake, Settled, TaskFree, Asked, Leaving, TypeOK
<1>9. CASE EnterRunning
  <2>1. Leaving' => Leaving
    BY <1>9, PendOther, TypeParts DEF EnterRunning, Screens
  <2> QED
    BY <1>9, <2>1 DEF EnterRunning, Asked, TypeOK
<1>10. CASE Shutdown
  BY <1>10 DEF Shutdown, TaskFree, CanShutDown, Asked, Leaving, TypeOK
<1>11. CASE ShutdownSaved
  BY <1>11 DEF ShutdownSaved, Pend, Complete, Asked, Leaving, TypeOK
<1>12. CASE TellHost
  BY <1>12 DEF TellHost, Asked, Leaving, TypeOK
<1>13. CASE BatteryReady \/ GetSlow
  BY <1>13 DEF BatteryReady, TaskFree, GetSlow, Asked, Leaving, TypeOK
<1>14. CASE HostUp \/ HostGone
  BY <1>14 DEF HostUp, HostGone, Asked, Leaving, TypeOK
<1>15. CASE HostSends \/ HostPacket
  BY <1>15 DEF HostSends, HostPacket, HostTask, TaskFree, Asked, Leaving, TypeOK
<1>16. ASSUME NEW e \in {"Home", "Updater"}, HostEvent(e) PROVE Asked'
  <2>1. Leaving' => Leaving
    BY <1>16, PendOther, TypeParts DEF HostEvent, HostTask, Screens
  <2>2. heard' /\ UNCHANGED << sys, notify, told, slow, buttonsOff, pc, by >>
    BY <1>16 DEF HostEvent, HostTask
  <2> QED
    BY <2>1, <2>2 DEF Asked
<1>17. CASE Frame
  BY <1>17 DEF Frame, Show, Settled, TaskFree, Asked, Leaving, TypeOK
<1>18. CASE ScreenEnds
  BY <1>18 DEF ScreenEnds, Show, Settled, TaskFree, Asked, Leaving, TypeOK
<1>19. CASE ShutdownEnds
  BY <1>19 DEF ShutdownEnds, Show, Settled, TaskFree, Complete, Asked, Leaving, TypeOK
<1>20. CASE Alert
  BY <1>20 DEF Alert, Pend, Asked, Leaving, TypeOK
<1> QED
  BY <1>1, <1>2, <1>3, <1>4, <1>5, <1>6, <1>7, <1>8, <1>9, <1>10, <1>11, <1>12, <1>13, <1>14,
     <1>15, <1>16, <1>17, <1>18, <1>19, <1>20
     DEF Next

-----------------------------------------------------------------------------

\* The invariant holds when the controller is off.
LEMMA InitInv == Init => PowerInv
<1> SUFFICES ASSUME Init PROVE PowerInv
  OBVIOUS
<1>1. flash \in Page /\ ram = Load(flash)
  BY DEF Init, Erased, Page
<1>2. TypeOK
  <2>1. ParamsType
    <3>1. ram \in Page
      BY <1>1, LoadType
    <3>2. addr \in 1..N + 1
      BY Bounds DEF Init
    <3>3. /\ dirty = FALSE /\ pc = "idle" /\ by = "none" /\ flashError = FALSE
          /\ slipped = FALSE /\ held = Blank
      BY DEF Init
    <3> QED
      BY <1>1, <3>1, <3>2, <3>3 DEF ParamsType
  <2>2. PowerType /\ ScreenType
    BY Bounds DEF Init, PowerType, ScreenType, Screens
  <2> QED
    BY <2>1, <2>2, TypeParts
<1>3. Filled
  BY <1>1, LoadFills DEF Filled
<1>4. Programmed /\ Kept
  BY <1>1 DEF Init, Programmed, Kept, Stored
<1>5. Asked
  BY DEF Init, Asked, Leaving
<1> QED
  BY <1>2, <1>3, <1>4, <1>5 DEF PowerInv

\* Every step keeps the invariant.
LEMMA StepInv == PowerInv /\ [Next]_vars => PowerInv'
<1> SUFFICES ASSUME PowerInv, [Next]_vars PROVE PowerInv'
  OBVIOUS
<1>1. CASE Next
  BY <1>1, StepParams, StepPower, StepScreen, StepFilled, StepProgrammed, StepKept, StepAsked,
     TypeParts DEF PowerInv
<1>2. CASE UNCHANGED vars
  <2> USE <1>2 DEF vars, params, power, link, screen, PowerInv
  <2>1. TypeOK'
    BY TypeParts DEF ParamsType, PowerType, ScreenType
  <2>2. Filled' /\ Programmed' /\ Kept'
    BY DEF Filled, Programmed, Kept, Stored, Load
  <2>3. Asked'
    BY DEF Asked, Leaving
  <2> QED
    BY <2>1, <2>2, <2>3
<1> QED
  BY <1>1, <1>2

\* The invariant holds of every behaviour of the controller.
THEOREM InvCorrect == Spec => []PowerInv
BY InitInv, StepInv, PTL DEF Spec

\* Every variable always has its type.
THEOREM TypeCorrect == Spec => []TypeOK
<1>1. PowerInv => TypeOK
  BY DEF PowerInv
<1> QED
  BY <1>1, InvCorrect, PTL

\* What is not marked is stored, slips and errors aside.
THEOREM CleanCorrect == Spec => []CleanIsStored
<1>1. PowerInv => CleanIsStored
  BY DEF PowerInv, Kept, CleanIsStored
<1> QED
  BY <1>1, InvCorrect, PTL

\* The only step that takes a running controller to idle is the end of the shutdown
\* screen, with the shutdown asked for and saved.
LEMMA IdleOnlyAtEnd ==
    PowerInv /\ [Next]_vars /\ sys = "Running" /\ sys' = "Idle"
        => pc = "idle" /\ buttonsOff /\ told
<1> SUFFICES ASSUME PowerInv, [Next]_vars, sys = "Running", sys' = "Idle"
             PROVE  pc = "idle" /\ buttonsOff /\ told
  OBVIOUS
<1> USE DEF params, power, link, screen
<1>1. CASE ShutdownEnds
  BY <1>1 DEF ShutdownEnds, Show, TaskFree, PowerInv, Asked, Leaving
<1>2. ASSUME NEW f \in Fields, NEW v \in Values, Capture(f, v) \/ HostConfigures(f, v)
      PROVE  FALSE
  BY <1>2 DEF Capture, HostConfigures, HostTask
<1>3. CASE Sync \/ Erase \/ EraseFails \/ Program(TRUE)
  BY <1>3 DEF Sync, TaskFree, Erase, EraseFails, Program, PowerInv, Asked
<1>4. CASE Read \/ Program(FALSE) \/ ProgramEnds \/ SyncDone \/ PowerOn
  BY <1>4 DEF Read, Program, ProgramEnds, SyncDone, PowerOn, Reboot, PowerInv, Asked
<1>5. CASE PowerCut \/ PressIdle \/ Wake \/ BatteryReady
  BY <1>5 DEF PowerCut, Reboot, PressIdle, Wake, Settled, TaskFree, BatteryReady, PowerInv, Asked
<1>6. CASE EnterRunning \/ GetSlow \/ Shutdown \/ ShutdownSaved
  BY <1>6
     DEF EnterRunning, Pend, GetSlow, Shutdown, TaskFree, CanShutDown, ShutdownSaved, Complete,
         PowerInv, Asked
<1>7. CASE TellHost \/ HostUp \/ HostGone \/ HostSends
  BY <1>7 DEF TellHost, HostUp, HostGone, HostSends, PowerInv, Asked
<1>8. CASE HostPacket \/ HostEvent("Home") \/ HostEvent("Updater") \/ Alert
  BY <1>8 DEF HostPacket, HostTask, TaskFree, HostEvent, Pend, Alert, PowerInv, Asked
<1>9. CASE Frame \/ ScreenEnds
  BY <1>9 DEF Frame, Show, Settled, TaskFree, ScreenEnds, PowerInv, Asked
<1>10. CASE UNCHANGED vars
  BY <1>10 DEF vars
<1> QED
  BY <1>1, <1>2, <1>3, <1>4, <1>5, <1>6, <1>7, <1>8, <1>9, <1>10 DEF Next

\* A shutdown saves what was changed before it, with the same exceptions.
THEOREM SavesCorrect == Spec => ShutdownSaves
<1> DEFINE Saves == sys = "Running" /\ sys' = "Idle" => Stored \/ slipped \/ flashError
<1>1. PowerInv /\ [Next]_vars => Saves
  BY IdleOnlyAtEnd DEF PowerInv, Kept
<1>2. PowerInv /\ [Next]_vars => [Saves]_vars
  BY <1>1
<1> QED
  BY <1>2, InvCorrect, PTL DEF ShutdownSaves, Spec

\* The host is told to go before it is switched off.
THEOREM ToldCorrect == Spec => HostTold
<1> DEFINE Told == sys = "Running" /\ sys' = "Idle" => told
<1>1. PowerInv /\ [Next]_vars => Told
  BY IdleOnlyAtEnd
<1>2. PowerInv /\ [Next]_vars => [Told]_vars
  BY <1>1
<1> QED
  BY <1>2, InvCorrect, PTL DEF HostTold, Spec

-----------------------------------------------------------------------------
(* Refinement of ParamStore.                                               *)

\* A stutter of the store.
LEMMA StoreStutter == UNCHANGED << ram, flash, pc, addr, held >> => UNCHANGED Store!vars
BY DEF Store!vars

\* The controller starts as the store does.
LEMMA StoreInit == Init => Store!Init
BY LoadRestores DEF Init, Erased, Store!Init

\* Every step of the controller is one of the store, or a stutter.
LEMMA StoreStep == PowerInv /\ [Next]_vars => [Store!Next]_(Store!vars)
<1> SUFFICES ASSUME PowerInv, [Next]_vars PROVE [Store!Next]_(Store!vars)
  OBVIOUS
<1> USE DEF params, power, link, screen
<1>1. ASSUME NEW f \in Presets, NEW v \in Values, Capture(f, v)
      PROVE  [Store!Next]_(Store!vars)
  <2>1. f \in Fields /\ Store!Write(f, v)
    BY <1>1 DEF Capture, Change, Pend, Store!Write
  <2> QED
    BY <2>1 DEF Store!Next
<1>2. ASSUME NEW f \in Fields \ Presets, NEW v \in Values, HostConfigures(f, v)
      PROVE  [Store!Next]_(Store!vars)
  <2>1. f \in Fields /\ Store!Write(f, v)
    BY <1>2 DEF HostConfigures, Change, HostTask, TaskFree, Store!Write
  <2> QED
    BY <2>1 DEF Store!Next
<1>3. CASE Erase
  <2>1. Store!Erase
    BY <1>3 DEF Erase, Erased, Store!Erase
  <2> QED
    BY <2>1 DEF Store!Next
<1>4. CASE ProgramEnds
  <2>1. Store!Close
    BY <1>4 DEF ProgramEnds, Erased, Store!Close
  <2> QED
    BY <2>1 DEF Store!Next
<1>5. CASE Program(TRUE)
  <2>1. addr \in Words /\ flash[addr] = Blank /\ pc = "wait"
    BY <1>5 DEF Program, PowerInv, Programmed, TypeOK, Words
  <2>2. Store!Fill
    BY <1>5, <2>1 DEF Program, Store!Fill
  <2> QED
    BY <2>2 DEF Store!Next
<1>6. CASE PowerOn
  <2>1. Store!Restart
    BY <1>6, LoadRestores DEF PowerOn, Reboot, Store!Restart
  <2> QED
    BY <2>1 DEF Store!Next
<1>7. CASE PowerCut
  <2>1. Store!Restart
    BY <1>7, LoadRestores DEF PowerCut, Reboot, Store!Restart
  <2> QED
    BY <2>1 DEF Store!Next
<1>8. CASE PressIdle
  <2>1. Store!Restart
    BY <1>8, LoadRestores DEF PressIdle, Reboot, Store!Restart
  <2> QED
    BY <2>1 DEF Store!Next
<1>9. CASE Wake
  <2>1. Store!Restart
    BY <1>9, LoadRestores DEF Wake, Reboot, Settled, TaskFree, Store!Restart
  <2> QED
    BY <2>1 DEF Store!Next
<1>10. CASE Sync \/ EraseFails \/ SyncDone
  BY <1>10 DEF Sync, TaskFree, EraseFails, SyncDone, Store!vars
<1>11. CASE BatteryReady \/ EnterRunning \/ GetSlow \/ Shutdown
  BY <1>11
     DEF BatteryReady, TaskFree, EnterRunning, Pend, GetSlow, Shutdown, CanShutDown, Store!vars
<1>12. CASE ShutdownSaved \/ TellHost \/ HostUp \/ HostGone
  BY <1>12 DEF ShutdownSaved, Pend, Complete, TellHost, HostUp, HostGone, Store!vars
<1>13. CASE HostSends \/ HostPacket \/ HostEvent("Home") \/ HostEvent("Updater")
  BY <1>13 DEF HostSends, HostPacket, HostTask, TaskFree, HostEvent, Pend, Store!vars
<1>14. CASE Alert \/ Frame \/ ScreenEnds \/ ShutdownEnds
  BY <1>14
     DEF Alert, Pend, Frame, Show, Settled, TaskFree, ScreenEnds, ShutdownEnds, Complete,
         Store!vars
<1>15. CASE UNCHANGED vars
  BY <1>15, StoreStutter DEF vars
<1>16. CASE Program(FALSE)
  <2>1. Store!Drop
    BY <1>16 DEF Program, Store!Drop
  <2> QED
    BY <2>1 DEF Store!Next
<1>17. CASE Read
  <2>1. addr \in Words
    BY <1>17 DEF Read, PowerInv, TypeOK, Words
  <2>2. Store!Take(addr)
    BY <1>17, <2>1 DEF Read, Store!Take
  <2> QED
    BY <2>1, <2>2 DEF Store!Next
<1> QED
  BY <1>1, <1>2, <1>3, <1>4, <1>5, <1>6, <1>7, <1>8, <1>9, <1>10, <1>11, <1>12, <1>13, <1>14,
     <1>15, <1>16, <1>17
     DEF Next

\* The parameters of the controller are what ParamStore promises.
THEOREM StoreCorrect == Spec => StoreSpec
<1>1. Spec => Store!Spec
  BY StoreInit, StoreStep, InvCorrect, PTL DEF Spec, Store!Spec
<1> QED
  BY <1>1 DEF StoreSpec

=============================================================================

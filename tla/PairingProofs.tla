---------------------------- MODULE PairingProofs ----------------------------
(***************************************************************************)
(* Proofs about Pairing, for every set of Solos and any number of crashes  *)
(* of the server.                                                          *)
(***************************************************************************)
EXTENDS Pairing, TLAPS

USE PairingAssumption

-----------------------------------------------------------------------------
(* The parts of the type invariant.                                        *)

ServerType ==
    /\ state \in {"IDLE", "USER_WAIT", "CONNECTED"} /\ mac \in Solos \cup {None}
    /\ needPin \in BOOLEAN /\ confirmed \in BOOLEAN
    /\ paired \in Solos \cup {None} /\ blacklist \subseteq Solos /\ crashes \in 0..MaxCrashes

ScreenType ==
    /\ request \in Solos \cup {None} /\ result \in Solos \cup {Empty, None}
    /\ answer \in Answers \cup {None} /\ heard \in BOOLEAN
    /\ ui \in {"Idle", "RequestReceived", "ConfirmationReceived", "ConfirmationSent"}
    /\ device \in Solos \cup {Empty} /\ meant \in Solos \cup {None} /\ current \in BOOLEAN

SoloType ==
    /\ pc \in [Solos -> {"off", "button", "pin", "up", "conn"}]
    /\ key \in [Solos -> BOOLEAN] /\ linked \in [Solos -> BOOLEAN]

NetworkType ==
    /\ asked \subseteq Solos /\ ack \in [Solos -> {"none", "yes", "no", "pend"}]
    /\ said \in [Solos -> 0..MaxCrashes]
    /\ pinEvents \subseteq Solos /\ pins \subseteq Solos

\* The type invariant is the conjunction of its parts.
LEMMA TypeParts ==
    /\ TypeOK <=> ServerType /\ ScreenType /\ SoloType /\ NetworkType
    /\ TypeOK' <=> ServerType' /\ ScreenType' /\ SoloType' /\ NetworkType'
BY DEF TypeOK, ServerType, ScreenType, SoloType, NetworkType

-----------------------------------------------------------------------------
(* The invariant.                                                          *)

\* The server asks about a Solo and is connected with a Solo; and the name on the
\* screen, and in the user's answer, is that of one.
Named ==
    /\ state # "IDLE" => mac \in Solos
    /\ ui = "RequestReceived" => device \in Solos
    /\ ui = "ConfirmationReceived" => meant \in Solos

\* Before the server dies nobody is told yes, and nobody has a PIN, but the Solo
\* the server is connected with.
LetIn ==
    crashes = 0 => \A s \in Solos :
        linked[s] \/ ack[s] = "yes" \/ s \in pins => state = "CONNECTED" /\ mac = s

\* A Solo that was told yes, and may know it already, was told so by a life of the
\* server that is over, or is the one the server is connected with; and no two were
\* told so by the same life.
Told(s) == linked[s] \/ ack[s] = "yes"

OneLife ==
    \A s \in Solos : Told(s) =>
        /\ said[s] < crashes \/ (said[s] = crashes /\ state = "CONNECTED" /\ mac = s)
        /\ \A t \in Solos : Told(t) /\ s # t => said[s] # said[t]

\* The user is only asked about a Solo that is neither paired nor rejected.
Outside ==
    /\ paired \notin blacklist
    /\ state = "USER_WAIT" => mac \notin blacklist /\ mac # paired

\* What belongs to the current wait is about the Solo the server waits for.
AboutMac ==
    /\ state = "USER_WAIT" /\ request # None => request = mac
    /\ current => /\ state = "USER_WAIT"
                  /\ ui = "RequestReceived" => device = mac
                  /\ ui = "ConfirmationReceived" => meant = mac
    /\ answer # None /\ answer.current => state = "USER_WAIT" /\ answer.meant = mac

PairingInv ==
    /\ TypeOK /\ Named /\ ConnectedIsPaired /\ LetIn /\ OneLife /\ Outside /\ AboutMac

-----------------------------------------------------------------------------

\* The invariant holds when the system is switched on.
LEMMA InitInv == Init => PairingInv
<1> SUFFICES ASSUME Init PROVE PairingInv
  OBVIOUS
<1> USE DEF Init
<1>1. TypeOK
  <2>1. ServerType
    <3>1. crashes = 0 /\ 0 \in 0..MaxCrashes
      OBVIOUS
    <3>2. state = "IDLE" /\ mac = None /\ needPin = FALSE /\ confirmed = FALSE /\ blacklist = {}
      OBVIOUS
    <3> QED
      BY <3>1, <3>2 DEF ServerType
  <2>2. ScreenType
    BY DEF ScreenType
  <2>3. SoloType /\ NetworkType
    BY DEF SoloType, NetworkType
  <2> QED
    BY <2>1, <2>2, <2>3, TypeParts
<1>2. Named /\ ConnectedIsPaired /\ LetIn /\ OneLife /\ Outside /\ AboutMac
  BY DEF Named, ConnectedIsPaired, LetIn, OneLife, Told, Outside, AboutMac
<1> QED
  BY <1>1, <1>2 DEF PairingInv

\* Every step keeps the types.
LEMMA StepTypes == TypeOK /\ Named /\ Next => TypeOK'
<1> SUFFICES ASSUME TypeOK, Named, Next PROVE TypeOK'
  OBVIOUS
<1> USE TypeParts DEF server, stm32, solos, links, wifi
<1>1. ASSUME NEW s \in Solos, IgnorePin(s) PROVE TypeOK'
  <2>1. ServerType'
    BY <1>1 DEF IgnorePin, ServerType, Named
  <2>2. ScreenType'
    BY <1>1 DEF IgnorePin, ScreenType, Answers, Named
  <2>3. SoloType'
    BY <1>1 DEF IgnorePin, SoloType, Named
  <2>4. NetworkType'
    BY <1>1 DEF IgnorePin, NetworkType, Named
  <2> QED
    BY <2>1, <2>2, <2>3, <2>4
<1>2. ASSUME NEW s \in Solos, PinRejected(s) PROVE TypeOK'
  <2>1. ServerType'
    BY <1>2 DEF PinRejected, ServerType, Named
  <2>2. ScreenType'
    BY <1>2 DEF PinRejected, ScreenType, Answers, Named
  <2>3. SoloType'
    BY <1>2 DEF PinRejected, SoloType, Named
  <2>4. NetworkType'
    BY <1>2 DEF PinRejected, NetworkType, Named
  <2> QED
    BY <2>1, <2>2, <2>3, <2>4
<1>3. ASSUME NEW s \in Solos, PinPaired(s) PROVE TypeOK'
  <2>1. ServerType'
    BY <1>3 DEF PinPaired, ServerType, Named
  <2>2. ScreenType'
    BY <1>3 DEF PinPaired, ScreenType, Answers, Named
  <2>3. SoloType'
    BY <1>3 DEF PinPaired, SoloType, Named
  <2>4. NetworkType'
    BY <1>3 DEF PinPaired, NetworkType, Named
  <2> QED
    BY <2>1, <2>2, <2>3, <2>4
<1>4. ASSUME NEW s \in Solos, PinUnknown(s) PROVE TypeOK'
  <2>1. ServerType'
    BY <1>4 DEF PinUnknown, AskUser, ServerType, Named
  <2>2. ScreenType'
    BY <1>4 DEF PinUnknown, AskUser, ScreenType, Answers, Named
  <2>3. SoloType'
    BY <1>4 DEF PinUnknown, AskUser, SoloType, Named
  <2>4. NetworkType'
    BY <1>4 DEF PinUnknown, AskUser, NetworkType, Named
  <2> QED
    BY <2>1, <2>2, <2>3, <2>4
<1>5. ASSUME NEW s \in Solos, ConnectYes(s) PROVE TypeOK'
  <2>1. ServerType'
    BY <1>5 DEF ConnectYes, Acknowledge, ServerType, Named
  <2>2. ScreenType'
    BY <1>5 DEF ConnectYes, Acknowledge, ScreenType, Answers, Named
  <2>3. SoloType'
    BY <1>5 DEF ConnectYes, Acknowledge, SoloType, Named
  <2>4. NetworkType'
    <3>1. said' = [said EXCEPT ![s] = crashes] /\ said' \in [Solos -> 0..MaxCrashes]
      BY <1>5 DEF ConnectYes, Acknowledge, NetworkType, ServerType
    <3>2. ack' \in [Solos -> {"none", "yes", "no", "pend"}]
      BY <1>5 DEF ConnectYes, Acknowledge, NetworkType
    <3> QED
      BY <1>5, <3>1, <3>2 DEF ConnectYes, Acknowledge, NetworkType
  <2> QED
    BY <2>1, <2>2, <2>3, <2>4
<1>6. ASSUME NEW s \in Solos, ConnectPaired(s) PROVE TypeOK'
  <2>1. ServerType'
    BY <1>6 DEF ConnectPaired, Acknowledge, ServerType, Named
  <2>2. ScreenType'
    BY <1>6 DEF ConnectPaired, Acknowledge, ScreenType, Answers, Named
  <2>3. SoloType'
    BY <1>6 DEF ConnectPaired, Acknowledge, SoloType, Named
  <2>4. NetworkType'
    <3>1. said' = [said EXCEPT ![s] = crashes] /\ said' \in [Solos -> 0..MaxCrashes]
      BY <1>6 DEF ConnectPaired, Acknowledge, NetworkType, ServerType
    <3>2. ack' \in [Solos -> {"none", "yes", "no", "pend"}]
      BY <1>6 DEF ConnectPaired, Acknowledge, NetworkType
    <3> QED
      BY <1>6, <3>1, <3>2 DEF ConnectPaired, Acknowledge, NetworkType
  <2> QED
    BY <2>1, <2>2, <2>3, <2>4
<1>7. ASSUME NEW s \in Solos, ConnectUnknown(s) PROVE TypeOK'
  <2>1. ServerType'
    BY <1>7 DEF ConnectUnknown, AskUser, Acknowledge, ServerType, Named
  <2>2. ScreenType'
    BY <1>7 DEF ConnectUnknown, AskUser, Acknowledge, ScreenType, Answers, Named
  <2>3. SoloType'
    BY <1>7 DEF ConnectUnknown, AskUser, Acknowledge, SoloType, Named
  <2>4. NetworkType'
    BY <1>7 DEF ConnectUnknown, AskUser, Acknowledge, NetworkType, Named
  <2> QED
    BY <2>1, <2>2, <2>3, <2>4
<1>8. ASSUME NEW s \in Solos, ConnectPending(s) PROVE TypeOK'
  <2>1. ServerType'
    BY <1>8 DEF ConnectPending, Acknowledge, ServerType, Named
  <2>2. ScreenType'
    BY <1>8 DEF ConnectPending, Acknowledge, ScreenType, Answers, Named
  <2>3. SoloType'
    BY <1>8 DEF ConnectPending, Acknowledge, SoloType, Named
  <2>4. NetworkType'
    BY <1>8 DEF ConnectPending, Acknowledge, NetworkType, Named
  <2> QED
    BY <2>1, <2>2, <2>3, <2>4
<1>9. ASSUME NEW s \in Solos, ConnectNo(s) PROVE TypeOK'
  <2>1. ServerType'
    BY <1>9 DEF ConnectNo, Acknowledge, ServerType, Named
  <2>2. ScreenType'
    BY <1>9 DEF ConnectNo, Acknowledge, ScreenType, Answers, Named
  <2>3. SoloType'
    BY <1>9 DEF ConnectNo, Acknowledge, SoloType, Named
  <2>4. NetworkType'
    BY <1>9 DEF ConnectNo, Acknowledge, NetworkType, Named
  <2> QED
    BY <2>1, <2>2, <2>3, <2>4
<1>10. CASE PairConfirm
  <2>1. ServerType'
    BY <1>10 DEF PairConfirm, Waiting, ServerType, Named
  <2>2. ScreenType'
    BY <1>10 DEF PairConfirm, Waiting, ScreenType, Answers, Named
  <2>3. SoloType'
    BY <1>10 DEF PairConfirm, Waiting, SoloType, Named
  <2>4. NetworkType'
    BY <1>10 DEF PairConfirm, Waiting, NetworkType, Named
  <2> QED
    BY <2>1, <2>2, <2>3, <2>4
<1>11. CASE PairReject
  <2>1. ServerType'
    BY <1>11 DEF PairReject, Waiting, BackToIdle, ServerType, Named
  <2>2. ScreenType'
    BY <1>11 DEF PairReject, Waiting, BackToIdle, ScreenType, Answers, Named
  <2>3. SoloType'
    BY <1>11 DEF PairReject, Waiting, BackToIdle, SoloType, Named
  <2>4. NetworkType'
    BY <1>11 DEF PairReject, Waiting, BackToIdle, NetworkType, Named
  <2> QED
    BY <2>1, <2>2, <2>3, <2>4
<1>12. CASE IgnoreAnswer
  <2>1. ServerType'
    BY <1>12 DEF IgnoreAnswer, Waiting, ServerType, Named
  <2>2. ScreenType'
    BY <1>12 DEF IgnoreAnswer, Waiting, ScreenType, Answers, Named
  <2>3. SoloType'
    BY <1>12 DEF IgnoreAnswer, Waiting, SoloType, Named
  <2>4. NetworkType'
    BY <1>12 DEF IgnoreAnswer, Waiting, NetworkType, Named
  <2> QED
    BY <2>1, <2>2, <2>3, <2>4
<1>13. CASE UserTimeout
  <2>1. ServerType'
    BY <1>13 DEF UserTimeout, BackToIdle, Overtaken, ServerType, Named
  <2>2. ScreenType'
    BY <1>13 DEF UserTimeout, BackToIdle, Overtaken, ScreenType, Answers, Named
  <2>3. SoloType'
    BY <1>13 DEF UserTimeout, BackToIdle, Overtaken, SoloType, Named
  <2>4. NetworkType'
    BY <1>13 DEF UserTimeout, BackToIdle, Overtaken, NetworkType, Named
  <2> QED
    BY <2>1, <2>2, <2>3, <2>4
<1>14. CASE Crash
  <2>1. ServerType'
    <3>1. crashes' \in 0..MaxCrashes
      BY <1>14 DEF Crash, Restart, Dies, ServerType
    <3>2. state' = "IDLE" /\ mac' = None /\ blacklist' = {} /\ needPin' = FALSE
      BY <1>14 DEF Crash, Restart, Dies
    <3>3. confirmed' = FALSE /\ paired' \in {paired, None}
      BY <1>14 DEF Crash, Restart, Dies
    <3> QED
      BY <3>1, <3>2, <3>3 DEF ServerType
  <2>2. ScreenType'
    BY <1>14 DEF Crash, Restart, Dies, ScreenType, Answers
  <2>3. SoloType' /\ NetworkType'
    BY <1>14 DEF Crash, Restart, Dies, SoloType, NetworkType
  <2> QED
    BY <2>1, <2>2, <2>3
<1>15. CASE CrashInWrite
  <2>1. ServerType'
    <3>1. crashes' \in 0..MaxCrashes
      BY <1>15 DEF CrashInWrite, Restart, Dies, Waiting, ServerType
    <3>2. state' = "IDLE" /\ mac' = None /\ blacklist' = {} /\ needPin' = FALSE
      BY <1>15 DEF CrashInWrite, Restart, Dies, Waiting
    <3>3. confirmed' = FALSE /\ paired' \in {paired, None}
      BY <1>15 DEF CrashInWrite, Restart, Dies, Waiting
    <3> QED
      BY <3>1, <3>2, <3>3 DEF ServerType
  <2>2. ScreenType'
    BY <1>15 DEF CrashInWrite, Restart, Dies, Waiting, ScreenType, Answers
  <2>3. SoloType' /\ NetworkType'
    BY <1>15 DEF CrashInWrite, Restart, Dies, Waiting, SoloType, NetworkType
  <2> QED
    BY <2>1, <2>2, <2>3
<1>16. CASE RequestArrives
  <2>1. ServerType'
    BY <1>16 DEF RequestArrives, ServerType, Named
  <2>2. ScreenType'
    BY <1>16 DEF RequestArrives, ScreenType, Answers, Named
  <2>3. SoloType'
    BY <1>16 DEF RequestArrives, SoloType, Named
  <2>4. NetworkType'
    BY <1>16 DEF RequestArrives, NetworkType, Named
  <2> QED
    BY <2>1, <2>2, <2>3, <2>4
<1>17. CASE ResultArrives
  <2>1. ServerType'
    BY <1>17 DEF ResultArrives, ServerType, Named
  <2>2. ScreenType'
    BY <1>17 DEF ResultArrives, ScreenType, Answers, Named
  <2>3. SoloType'
    BY <1>17 DEF ResultArrives, SoloType, Named
  <2>4. NetworkType'
    BY <1>17 DEF ResultArrives, NetworkType, Named
  <2> QED
    BY <2>1, <2>2, <2>3, <2>4
<1>18. CASE Accept
  <2>1. ServerType'
    BY <1>18 DEF Accept, ServerType, Named
  <2>2. ScreenType'
    BY <1>18 DEF Accept, ScreenType, Answers, Named
  <2>3. SoloType'
    BY <1>18 DEF Accept, SoloType, Named
  <2>4. NetworkType'
    BY <1>18 DEF Accept, NetworkType, Named
  <2> QED
    BY <2>1, <2>2, <2>3, <2>4
<1>19. CASE Reject
  <2>1. ServerType'
    BY <1>19 DEF Reject, ServerType, Named
  <2>2. ScreenType'
    BY <1>19 DEF Reject, ScreenType, Answers, Named
  <2>3. SoloType'
    BY <1>19 DEF Reject, SoloType, Named
  <2>4. NetworkType'
    BY <1>19 DEF Reject, NetworkType, Named
  <2> QED
    BY <2>1, <2>2, <2>3, <2>4
<1>20. CASE SendConfirm
  <2>1. ServerType'
    BY <1>20 DEF SendConfirm, ServerType, Named
  <2>2. ScreenType'
    BY <1>20 DEF SendConfirm, ScreenType, Answers, Named
  <2>3. SoloType'
    BY <1>20 DEF SendConfirm, SoloType, Named
  <2>4. NetworkType'
    BY <1>20 DEF SendConfirm, NetworkType, Named
  <2> QED
    BY <2>1, <2>2, <2>3, <2>4
<1>21. ASSUME NEW s \in Solos, PowerOn(s) PROVE TypeOK'
  <2>1. ServerType'
    BY <1>21 DEF PowerOn, Top, ServerType, Named
  <2>2. ScreenType'
    BY <1>21 DEF PowerOn, Top, ScreenType, Answers, Named
  <2>3. SoloType'
    BY <1>21 DEF PowerOn, Top, SoloType, Named
  <2>4. NetworkType'
    BY <1>21 DEF PowerOn, Top, NetworkType, Named
  <2> QED
    BY <2>1, <2>2, <2>3, <2>4
<1>22. ASSUME NEW s \in Solos, PowerOff(s) PROVE TypeOK'
  <2>1. ServerType'
    BY <1>22 DEF PowerOff, NetworkDown, ServerType, Named
  <2>2. ScreenType'
    BY <1>22 DEF PowerOff, NetworkDown, ScreenType, Answers, Named
  <2>3. SoloType'
    BY <1>22 DEF PowerOff, NetworkDown, SoloType, Named
  <2>4. NetworkType'
    BY <1>22 DEF PowerOff, NetworkDown, NetworkType, Named
  <2> QED
    BY <2>1, <2>2, <2>3, <2>4
<1>23. ASSUME NEW s \in Solos, Button(s) PROVE TypeOK'
  <2>1. ServerType'
    BY <1>23 DEF Button, ServerType, Named
  <2>2. ScreenType'
    BY <1>23 DEF Button, ScreenType, Answers, Named
  <2>3. SoloType'
    BY <1>23 DEF Button, SoloType, Named
  <2>4. NetworkType'
    BY <1>23 DEF Button, NetworkType, Named
  <2> QED
    BY <2>1, <2>2, <2>3, <2>4
<1>24. ASSUME NEW s \in Solos, PinScan(s) PROVE TypeOK'
  <2>1. ServerType'
    BY <1>24 DEF PinScan, ServerType, Named
  <2>2. ScreenType'
    BY <1>24 DEF PinScan, ScreenType, Answers, Named
  <2>3. SoloType'
    BY <1>24 DEF PinScan, SoloType, Named
  <2>4. NetworkType'
    BY <1>24 DEF PinScan, NetworkType, Named
  <2> QED
    BY <2>1, <2>2, <2>3, <2>4
<1>25. ASSUME NEW s \in Solos, PinCompleted(s) PROVE TypeOK'
  <2>1. ServerType'
    BY <1>25 DEF PinCompleted, Top, ServerType, Named
  <2>2. ScreenType'
    BY <1>25 DEF PinCompleted, Top, ScreenType, Answers, Named
  <2>3. SoloType'
    BY <1>25 DEF PinCompleted, Top, SoloType, Named
  <2>4. NetworkType'
    BY <1>25 DEF PinCompleted, Top, NetworkType, Named
  <2> QED
    BY <2>1, <2>2, <2>3, <2>4
<1>26. ASSUME NEW s \in Solos, PinInactive(s) PROVE TypeOK'
  <2>1. ServerType'
    BY <1>26 DEF PinInactive, Top, ServerType, Named
  <2>2. ScreenType'
    BY <1>26 DEF PinInactive, Top, ScreenType, Answers, Named
  <2>3. SoloType'
    BY <1>26 DEF PinInactive, Top, SoloType, Named
  <2>4. NetworkType'
    BY <1>26 DEF PinInactive, Top, NetworkType, Named
  <2> QED
    BY <2>1, <2>2, <2>3, <2>4
<1>27. ASSUME NEW s \in Solos, NetworkUp(s) PROVE TypeOK'
  <2>1. ServerType'
    BY <1>27 DEF NetworkUp, ServerType, Named
  <2>2. ScreenType'
    BY <1>27 DEF NetworkUp, ScreenType, Answers, Named
  <2>3. SoloType'
    BY <1>27 DEF NetworkUp, SoloType, Named
  <2>4. NetworkType'
    BY <1>27 DEF NetworkUp, NetworkType, Named
  <2> QED
    BY <2>1, <2>2, <2>3, <2>4
<1>28. ASSUME NEW s \in Solos, Ask(s) PROVE TypeOK'
  <2>1. ServerType'
    BY <1>28 DEF Ask, ServerType, Named
  <2>2. ScreenType'
    BY <1>28 DEF Ask, ScreenType, Answers, Named
  <2>3. SoloType'
    BY <1>28 DEF Ask, SoloType, Named
  <2>4. NetworkType'
    BY <1>28 DEF Ask, NetworkType, Named
  <2> QED
    BY <2>1, <2>2, <2>3, <2>4
<1>29. ASSUME NEW s \in Solos, Acked(s) PROVE TypeOK'
  <2>1. ServerType'
    BY <1>29 DEF Acked, ServerType, Named
  <2>2. ScreenType'
    BY <1>29 DEF Acked, ScreenType, Answers, Named
  <2>3. SoloType'
    BY <1>29 DEF Acked, SoloType, Named
  <2>4. NetworkType'
    BY <1>29 DEF Acked, NetworkType, Named
  <2> QED
    BY <2>1, <2>2, <2>3, <2>4
<1>30. ASSUME NEW s \in Solos, Refused(s) PROVE TypeOK'
  <2>1. ServerType'
    BY <1>30 DEF Refused, NetworkDown, ServerType, Named
  <2>2. ScreenType'
    BY <1>30 DEF Refused, NetworkDown, ScreenType, Answers, Named
  <2>3. SoloType'
    BY <1>30 DEF Refused, NetworkDown, SoloType, Named
  <2>4. NetworkType'
    BY <1>30 DEF Refused, NetworkDown, NetworkType, Named
  <2> QED
    BY <2>1, <2>2, <2>3, <2>4
<1>31. ASSUME NEW s \in Solos, GiveUp(s) PROVE TypeOK'
  <2>1. ServerType'
    BY <1>31 DEF GiveUp, NetworkDown, ServerType, Named
  <2>2. ScreenType'
    BY <1>31 DEF GiveUp, NetworkDown, ScreenType, Answers, Named
  <2>3. SoloType'
    BY <1>31 DEF GiveUp, NetworkDown, SoloType, Named
  <2>4. NetworkType'
    BY <1>31 DEF GiveUp, NetworkDown, NetworkType, Named
  <2> QED
    BY <2>1, <2>2, <2>3, <2>4
<1>32. ASSUME NEW s \in Solos, IgnoreNo(s) PROVE TypeOK'
  <2>1. ServerType'
    BY <1>32 DEF IgnoreNo, ServerType, Named
  <2>2. ScreenType'
    BY <1>32 DEF IgnoreNo, ScreenType, Answers, Named
  <2>3. SoloType'
    BY <1>32 DEF IgnoreNo, SoloType, Named
  <2>4. NetworkType'
    BY <1>32 DEF IgnoreNo, NetworkType, Named
  <2> QED
    BY <2>1, <2>2, <2>3, <2>4
<1>33. ASSUME NEW s \in Solos, Lose(s) PROVE TypeOK'
  <2>1. ServerType'
    BY <1>33 DEF Lose, ServerType, Named
  <2>2. ScreenType'
    BY <1>33 DEF Lose, ScreenType, Answers, Named
  <2>3. SoloType'
    BY <1>33 DEF Lose, SoloType, Named
  <2>4. NetworkType'
    BY <1>33 DEF Lose, NetworkType, Named
  <2> QED
    BY <2>1, <2>2, <2>3, <2>4
<1>34. CASE Reboot
  <2>1. ServerType'
    <3>1. crashes' \in 0..MaxCrashes
      BY <1>34 DEF Reboot, Dies, ServerType
    <3>2. state' = "IDLE" /\ mac' = None /\ blacklist' = {} /\ needPin' = FALSE
      BY <1>34 DEF Reboot, Dies
    <3>3. confirmed' = FALSE /\ paired' \in {paired, None}
      BY <1>34 DEF Reboot, Dies
    <3> QED
      BY <3>1, <3>2, <3>3 DEF ServerType
  <2>2. ScreenType'
    BY <1>34 DEF Reboot, Dies, ScreenType, Answers
  <2>3. SoloType' /\ NetworkType'
    BY <1>34 DEF Reboot, Dies, SoloType, NetworkType
  <2> QED
    BY <2>1, <2>2, <2>3
<1> QED
  BY <1>1, <1>2, <1>3, <1>4, <1>5, <1>6, <1>7, <1>8, <1>9, <1>10, <1>11, <1>12, <1>13, <1>14,
     <1>15, <1>16, <1>17, <1>18, <1>19, <1>20, <1>21, <1>22, <1>23, <1>24, <1>25, <1>26, <1>27,
     <1>28, <1>29, <1>30, <1>31, <1>32, <1>33, <1>34
     DEF Next, ServerNext, Stm32Next, SoloNext

\* Every step keeps Named.
LEMMA StepNamed == TypeOK /\ Named /\ Next => Named'
<1> SUFFICES ASSUME TypeOK, Named, Next PROVE Named'
  OBVIOUS
<1> USE DEF server, stm32, solos, links, wifi
<1>1. ASSUME NEW s \in Solos, PinRejected(s) PROVE Named'
  BY <1>1 DEF PinRejected, Named, TypeOK
<1>2. ASSUME NEW s \in Solos, PinPaired(s) PROVE Named'
  BY <1>2 DEF PinPaired, Named, TypeOK
<1>3. ASSUME NEW s \in Solos, PinUnknown(s) PROVE Named'
  BY <1>3 DEF PinUnknown, AskUser, Named, TypeOK
<1>4. ASSUME NEW s \in Solos, ConnectPaired(s) PROVE Named'
  BY <1>4 DEF ConnectPaired, Acknowledge, Named, TypeOK
<1>5. ASSUME NEW s \in Solos, ConnectUnknown(s) PROVE Named'
  BY <1>5 DEF ConnectUnknown, AskUser, Acknowledge, Named, TypeOK
<1>6. CASE PairConfirm
  BY <1>6 DEF PairConfirm, Waiting, Named, TypeOK
<1>7. CASE RequestArrives
  BY <1>7 DEF RequestArrives, Named, TypeOK
<1>8. CASE ResultArrives
  BY <1>8 DEF ResultArrives, Named, TypeOK
<1>9. CASE Accept
  BY <1>9 DEF Accept, Named, TypeOK
<1>10. CASE Reject
  BY <1>10 DEF Reject, Named, TypeOK
<1>11. CASE SendConfirm
  BY <1>11 DEF SendConfirm, Named, TypeOK
<1>12. ASSUME NEW s \in Solos,
             IgnorePin(s) \/ ConnectYes(s) \/ ConnectPending(s) \/ ConnectNo(s)
      PROVE  Named'
  BY <1>12 DEF IgnorePin, ConnectYes, Acknowledge, ConnectPending, ConnectNo, Named, TypeOK
<1>13. ASSUME NEW s \in Solos,
             PowerOn(s) \/ PowerOff(s) \/ Button(s) \/ PinScan(s)
      PROVE  Named'
  BY <1>13 DEF PowerOn, Top, PowerOff, NetworkDown, Button, PinScan, Named, TypeOK
<1>14. ASSUME NEW s \in Solos,
             PinCompleted(s) \/ PinInactive(s) \/ NetworkUp(s) \/ Ask(s)
      PROVE  Named'
  BY <1>14 DEF PinCompleted, Top, PinInactive, NetworkUp, Ask, Named, TypeOK
<1>15. ASSUME NEW s \in Solos,
             Acked(s) \/ Refused(s) \/ GiveUp(s) \/ IgnoreNo(s)
      PROVE  Named'
  BY <1>15 DEF Acked, Refused, NetworkDown, GiveUp, IgnoreNo, Named, TypeOK
<1>16. ASSUME NEW s \in Solos,
             Lose(s)
      PROVE  Named'
  BY <1>16 DEF Lose, Named, TypeOK
<1>17. CASE PairReject \/ IgnoreAnswer \/ UserTimeout
  BY <1>17
     DEF PairReject, Waiting, BackToIdle, IgnoreAnswer, UserTimeout, Overtaken, Named, TypeOK
<1>18. CASE Crash \/ CrashInWrite
  BY <1>18 DEF Crash, CrashInWrite, Restart, Dies, Named, TypeOK
<1>19. CASE Reboot
  BY <1>19 DEF Reboot, Dies, Named, TypeOK
<1> QED
  BY <1>1, <1>2, <1>3, <1>4, <1>5, <1>6, <1>7, <1>8, <1>9, <1>10, <1>11, <1>12, <1>13, <1>14,
     <1>15, <1>16, <1>17, <1>18, <1>19
     DEF Next, ServerNext, Stm32Next, SoloNext

\* Every step keeps the connected Solo the paired one.
LEMMA StepConnected == TypeOK /\ ConnectedIsPaired /\ Next => ConnectedIsPaired'
<1> SUFFICES ASSUME TypeOK, ConnectedIsPaired, Next PROVE ConnectedIsPaired'
  OBVIOUS
<1> USE DEF server, stm32, solos, links, wifi
<1>1. ASSUME NEW s \in Solos,
             IgnorePin(s) \/ PinRejected(s) \/ PinPaired(s) \/ PinUnknown(s)
      PROVE  ConnectedIsPaired'
  BY <1>1 DEF IgnorePin, PinRejected, PinPaired, PinUnknown, AskUser, ConnectedIsPaired
<1>2. ASSUME NEW s \in Solos,
             ConnectYes(s) \/ ConnectPaired(s) \/ ConnectUnknown(s) \/ ConnectPending(s)
      PROVE  ConnectedIsPaired'
  BY <1>2
     DEF ConnectYes, Acknowledge, ConnectPaired, ConnectUnknown, AskUser, ConnectPending,
         ConnectedIsPaired
<1>3. ASSUME NEW s \in Solos,
             ConnectNo(s) \/ PowerOn(s) \/ PowerOff(s) \/ Button(s)
      PROVE  ConnectedIsPaired'
  BY <1>3 DEF ConnectNo, Acknowledge, PowerOn, Top, PowerOff, NetworkDown, Button, ConnectedIsPaired
<1>4. ASSUME NEW s \in Solos,
             PinScan(s) \/ PinCompleted(s) \/ PinInactive(s) \/ NetworkUp(s)
      PROVE  ConnectedIsPaired'
  BY <1>4 DEF PinScan, PinCompleted, Top, PinInactive, NetworkUp, ConnectedIsPaired
<1>5. ASSUME NEW s \in Solos,
             Ask(s) \/ Acked(s) \/ Refused(s) \/ GiveUp(s)
      PROVE  ConnectedIsPaired'
  BY <1>5 DEF Ask, Acked, Refused, NetworkDown, GiveUp, ConnectedIsPaired
<1>6. ASSUME NEW s \in Solos,
             IgnoreNo(s) \/ Lose(s)
      PROVE  ConnectedIsPaired'
  BY <1>6 DEF IgnoreNo, Lose, ConnectedIsPaired
<1>7. CASE PairConfirm \/ PairReject \/ IgnoreAnswer \/ UserTimeout
  BY <1>7
     DEF PairConfirm, Waiting, PairReject, BackToIdle, IgnoreAnswer, UserTimeout, Overtaken,
         ConnectedIsPaired
<1>8. CASE Crash \/ CrashInWrite \/ RequestArrives \/ ResultArrives
  BY <1>8
     DEF Crash, Restart, Dies, CrashInWrite, Waiting, RequestArrives, ResultArrives,
         ConnectedIsPaired
<1>9. CASE Accept \/ Reject \/ SendConfirm
  BY <1>9 DEF Accept, Reject, SendConfirm, ConnectedIsPaired
<1>10. CASE Reboot
  BY <1>10 DEF Reboot, Dies, ConnectedIsPaired
<1> QED
  BY <1>1, <1>2, <1>3, <1>4, <1>5, <1>6, <1>7, <1>8, <1>9, <1>10
     DEF Next, ServerNext, Stm32Next, SoloNext

\* Every step keeps LetIn.
LEMMA StepLetIn == TypeOK /\ LetIn /\ Next => LetIn'
<1> SUFFICES ASSUME TypeOK, LetIn, Next PROVE LetIn'
  OBVIOUS
<1> USE DEF server, stm32, solos, links, wifi
<1>1. ASSUME NEW s \in Solos, PinPaired(s) PROVE LetIn'
  BY <1>1 DEF PinPaired, LetIn, TypeOK
<1>2. ASSUME NEW s \in Solos, ConnectYes(s) PROVE LetIn'
  BY <1>2 DEF ConnectYes, Acknowledge, LetIn, TypeOK
<1>3. ASSUME NEW s \in Solos, ConnectPaired(s) PROVE LetIn'
  BY <1>3 DEF ConnectPaired, Acknowledge, LetIn, TypeOK
<1>4. ASSUME NEW s \in Solos, ConnectUnknown(s) PROVE LetIn'
  BY <1>4 DEF ConnectUnknown, AskUser, Acknowledge, LetIn, TypeOK
<1>5. ASSUME NEW s \in Solos, ConnectPending(s) PROVE LetIn'
  BY <1>5 DEF ConnectPending, Acknowledge, LetIn, TypeOK
<1>6. ASSUME NEW s \in Solos, ConnectNo(s) PROVE LetIn'
  BY <1>6 DEF ConnectNo, Acknowledge, LetIn, TypeOK
<1>7. CASE PairConfirm
  BY <1>7 DEF PairConfirm, Waiting, LetIn, TypeOK
<1>8. CASE PairReject
  BY <1>8 DEF PairReject, Waiting, BackToIdle, LetIn, TypeOK
<1>9. CASE UserTimeout
  BY <1>9 DEF UserTimeout, BackToIdle, Overtaken, LetIn, TypeOK
<1>10. CASE Crash
  BY <1>10 DEF Crash, Restart, Dies, LetIn, TypeOK
<1>11. CASE CrashInWrite
  BY <1>11 DEF CrashInWrite, Restart, Dies, Waiting, LetIn, TypeOK
<1>12. ASSUME NEW s \in Solos, PowerOn(s) PROVE LetIn'
  BY <1>12 DEF PowerOn, Top, LetIn, TypeOK
<1>13. ASSUME NEW s \in Solos, PowerOff(s) PROVE LetIn'
  BY <1>13 DEF PowerOff, NetworkDown, LetIn, TypeOK
<1>14. ASSUME NEW s \in Solos, Button(s) PROVE LetIn'
  BY <1>14 DEF Button, LetIn, TypeOK
<1>15. ASSUME NEW s \in Solos, PinScan(s) PROVE LetIn'
  BY <1>15 DEF PinScan, LetIn, TypeOK
<1>16. ASSUME NEW s \in Solos, PinCompleted(s) PROVE LetIn'
  BY <1>16 DEF PinCompleted, Top, LetIn, TypeOK
<1>17. ASSUME NEW s \in Solos, PinInactive(s) PROVE LetIn'
  BY <1>17 DEF PinInactive, Top, LetIn, TypeOK
<1>18. ASSUME NEW s \in Solos, NetworkUp(s) PROVE LetIn'
  BY <1>18 DEF NetworkUp, LetIn, TypeOK
<1>19. ASSUME NEW s \in Solos, Ask(s) PROVE LetIn'
  BY <1>19 DEF Ask, LetIn, TypeOK
<1>20. ASSUME NEW s \in Solos, Acked(s) PROVE LetIn'
  BY <1>20 DEF Acked, LetIn, TypeOK
<1>21. ASSUME NEW s \in Solos, Refused(s) PROVE LetIn'
  BY <1>21 DEF Refused, NetworkDown, LetIn, TypeOK
<1>22. ASSUME NEW s \in Solos, GiveUp(s) PROVE LetIn'
  BY <1>22 DEF GiveUp, NetworkDown, LetIn, TypeOK
<1>23. ASSUME NEW s \in Solos, IgnoreNo(s) PROVE LetIn'
  BY <1>23 DEF IgnoreNo, LetIn, TypeOK
<1>24. ASSUME NEW s \in Solos, Lose(s) PROVE LetIn'
  BY <1>24 DEF Lose, LetIn, TypeOK
<1>25. ASSUME NEW s \in Solos,
             IgnorePin(s) \/ PinRejected(s) \/ PinUnknown(s)
      PROVE  LetIn'
  BY <1>25 DEF IgnorePin, PinRejected, PinUnknown, AskUser, LetIn, TypeOK
<1>26. CASE IgnoreAnswer \/ RequestArrives \/ ResultArrives \/ Accept
  BY <1>26 DEF IgnoreAnswer, Waiting, RequestArrives, ResultArrives, Accept, LetIn, TypeOK
<1>27. CASE Reject \/ SendConfirm
  BY <1>27 DEF Reject, SendConfirm, LetIn, TypeOK
<1>28. CASE Reboot
  BY <1>28 DEF Reboot, Dies, LetIn, TypeOK
<1> QED
  BY <1>1, <1>2, <1>3, <1>4, <1>5, <1>6, <1>7, <1>8, <1>9, <1>10, <1>11, <1>12, <1>13, <1>14,
     <1>15, <1>16, <1>17, <1>18, <1>19, <1>20, <1>21, <1>22, <1>23, <1>24, <1>25, <1>26, <1>27,
     <1>28
     DEF Next, ServerNext, Stm32Next, SoloNext

\* A step in which nobody is told yes, and the server goes on, keeps OneLife.
LEMMA OneLifeKept ==
    ASSUME OneLife, crashes' = crashes,
           state = "CONNECTED" => state' = "CONNECTED" /\ mac' = mac,
           \A s \in Solos : Told(s)' => Told(s) /\ said'[s] = said[s]
    PROVE  OneLife'
BY DEF OneLife

\* The connected Solo is told yes.
LEMMA OneLifeYes ==
    ASSUME TypeOK, OneLife, NEW s \in Solos, crashes' = crashes,
           state' = "CONNECTED", mac' = s, state = "CONNECTED" => mac = s,
           said' = [said EXCEPT ![s] = crashes],
           \A t \in Solos \ {s} : Told(t)' => Told(t)
    PROVE  OneLife'
<1>1. said'[s] = crashes /\ \A t \in Solos \ {s} : said'[t] = said[t]
  BY DEF TypeOK
<1>2. \A t \in Solos \ {s} : Told(t)' => said[t] < crashes
  BY DEF OneLife
<1>3. crashes \in Nat /\ \A t \in Solos : said[t] \in Nat
  BY DEF TypeOK
<1> SUFFICES ASSUME NEW t \in Solos, Told(t)'
             PROVE  /\ said'[t] < crashes \/ (said'[t] = crashes /\ mac' = t)
                    /\ \A u \in Solos : Told(u)' /\ t # u => said'[t] # said'[u]
  BY DEF OneLife
<1>4. CASE t = s
  BY <1>1, <1>2, <1>3, <1>4
<1>5. CASE t # s
  <2>1. said'[t] < crashes
    BY <1>1, <1>2, <1>5
  <2>2. ASSUME NEW u \in Solos, Told(u)', t # u PROVE said'[t] # said'[u]
    BY <1>1, <1>2, <1>3, <1>5, <2>1, <2>2 DEF OneLife
  <2> QED
    BY <2>1, <2>2
<1> QED
  BY <1>4, <1>5

\* Every step keeps OneLife.
LEMMA StepOneLife == TypeOK /\ OneLife /\ Next => OneLife'
<1> SUFFICES ASSUME TypeOK, OneLife, Next PROVE OneLife'
  OBVIOUS
<1> USE DEF server, stm32, solos, links, wifi
<1>1. ASSUME NEW s \in Solos, ConnectYes(s) \/ ConnectPaired(s) PROVE OneLife'
  <2>1. /\ crashes' = crashes /\ state' = "CONNECTED" /\ mac' = s
        /\ state = "CONNECTED" => mac = s
        /\ said' = [said EXCEPT ![s] = crashes]
    BY <1>1 DEF ConnectYes, ConnectPaired, Acknowledge
  <2>2. \A t \in Solos \ {s} : Told(t)' => Told(t)
    BY <1>1 DEF ConnectYes, ConnectPaired, Acknowledge, Told, TypeOK
  <2> QED
    BY <2>1, <2>2, OneLifeYes
<1>2. CASE Crash \/ CrashInWrite \/ Reboot
  <2>1. crashes' = crashes + 1 /\ said' = said
    BY <1>2 DEF Crash, CrashInWrite, Restart, Dies, Reboot, Dies
  <2>2. \A s \in Solos : Told(s)' => Told(s)
    BY <1>2 DEF Crash, CrashInWrite, Restart, Dies, Reboot, Told
  <2>3. crashes \in Nat /\ \A s \in Solos : said[s] \in Nat
    BY DEF TypeOK
  <2> QED
    BY <2>1, <2>2, <2>3 DEF OneLife
<1>3. ASSUME NEW s \in Solos, PowerOff(s) \/ Refused(s) \/ GiveUp(s) PROVE OneLife'
  <2>1. \A t \in Solos : Told(t)' => Told(t) /\ said'[t] = said[t]
    BY <1>3 DEF PowerOff, Refused, GiveUp, NetworkDown, Told, TypeOK
  <2> QED
    BY <1>3, <2>1, OneLifeKept DEF PowerOff, Refused, GiveUp
<1>4. ASSUME NEW s \in Solos, Acked(s) PROVE OneLife'
  <2>1. \A t \in Solos : Told(t)' => Told(t) /\ said'[t] = said[t]
    BY <1>4 DEF Acked, Told, TypeOK
  <2> QED
    BY <1>4, <2>1, OneLifeKept DEF Acked
<1>5. ASSUME NEW s \in Solos, IgnoreNo(s) \/ Lose(s) PROVE OneLife'
  <2>1. \A t \in Solos : Told(t)' => Told(t) /\ said'[t] = said[t]
    BY <1>5 DEF IgnoreNo, Lose, Told, TypeOK
  <2> QED
    BY <1>5, <2>1, OneLifeKept DEF IgnoreNo, Lose
<1>6. ASSUME NEW s \in Solos, ConnectUnknown(s) \/ ConnectPending(s) \/ ConnectNo(s)
      PROVE  OneLife'
  <2>1. \A t \in Solos : Told(t)' => Told(t) /\ said'[t] = said[t]
    BY <1>6 DEF ConnectUnknown, ConnectPending, ConnectNo, Acknowledge, Told, TypeOK
  <2>2. /\ crashes' = crashes
        /\ state = "CONNECTED" => state' = "CONNECTED" /\ mac' = mac
    BY <1>6 DEF ConnectUnknown, ConnectPending, ConnectNo
  <2> QED
    BY <2>1, <2>2, OneLifeKept
<1>7. ASSUME UNCHANGED << linked, ack, said, crashes >>,
             state = "CONNECTED" => state' = "CONNECTED" /\ mac' = mac
      PROVE  OneLife'
  BY <1>7, OneLifeKept DEF Told
<1>8. ASSUME NEW s \in Solos,
             IgnorePin(s) \/ PinRejected(s) \/ PinPaired(s) \/ PinUnknown(s)
      PROVE  OneLife'
  BY <1>7, <1>8 DEF IgnorePin, PinRejected, PinPaired, PinUnknown
<1>9. ASSUME NEW s \in Solos,
             PowerOn(s) \/ Button(s) \/ PinScan(s) \/ PinCompleted(s)
      PROVE  OneLife'
  BY <1>7, <1>9 DEF PowerOn, Button, PinScan, PinCompleted
<1>10. ASSUME NEW s \in Solos, PinInactive(s) \/ NetworkUp(s) \/ Ask(s) PROVE OneLife'
  BY <1>7, <1>10 DEF PinInactive, NetworkUp, Ask
<1>11. CASE PairConfirm \/ PairReject \/ IgnoreAnswer \/ UserTimeout
  BY <1>7, <1>11 DEF PairConfirm, Waiting, PairReject, BackToIdle, IgnoreAnswer, UserTimeout
<1>12. CASE Stm32Next
  BY <1>7, <1>12 DEF Stm32Next, RequestArrives, ResultArrives, Accept, Reject, SendConfirm
<1> QED
  BY <1>1, <1>2, <1>3, <1>4, <1>5, <1>6, <1>8, <1>9, <1>10, <1>11, <1>12
     DEF Next, ServerNext, SoloNext

\* Every step keeps Outside.
LEMMA StepOutside == TypeOK /\ Named /\ Outside /\ Next => Outside'
<1> SUFFICES ASSUME TypeOK, Named, Outside, Next PROVE Outside'
  OBVIOUS
<1> USE DEF server, stm32, solos, links, wifi
<1>1. ASSUME NEW s \in Solos, IgnorePin(s) PROVE Outside'
  BY <1>1 DEF IgnorePin, Named, Outside, TypeOK
<1>2. ASSUME NEW s \in Solos, PinRejected(s) PROVE Outside'
  BY <1>2 DEF PinRejected, Named, Outside, TypeOK
<1>3. ASSUME NEW s \in Solos, PinPaired(s) PROVE Outside'
  BY <1>3 DEF PinPaired, Named, Outside, TypeOK
<1>4. ASSUME NEW s \in Solos, PinUnknown(s) PROVE Outside'
  BY <1>4 DEF PinUnknown, AskUser, Named, Outside, TypeOK
<1>5. ASSUME NEW s \in Solos, ConnectYes(s) PROVE Outside'
  BY <1>5 DEF ConnectYes, Acknowledge, Named, Outside, TypeOK
<1>6. ASSUME NEW s \in Solos, ConnectPaired(s) PROVE Outside'
  BY <1>6 DEF ConnectPaired, Acknowledge, Named, Outside, TypeOK
<1>7. ASSUME NEW s \in Solos, ConnectUnknown(s) PROVE Outside'
  BY <1>7 DEF ConnectUnknown, AskUser, Acknowledge, Named, Outside, TypeOK
<1>8. ASSUME NEW s \in Solos, ConnectPending(s) PROVE Outside'
  BY <1>8 DEF ConnectPending, Acknowledge, Named, Outside, TypeOK
<1>9. ASSUME NEW s \in Solos, ConnectNo(s) PROVE Outside'
  BY <1>9 DEF ConnectNo, Acknowledge, Named, Outside, TypeOK
<1>10. CASE PairConfirm
  BY <1>10 DEF PairConfirm, Waiting, Named, Outside, TypeOK
<1>11. CASE PairReject
  BY <1>11 DEF PairReject, Waiting, BackToIdle, Named, Outside, TypeOK
<1>12. CASE UserTimeout
  BY <1>12 DEF UserTimeout, BackToIdle, Overtaken, Named, Outside, TypeOK
<1>13. CASE Crash
  BY <1>13 DEF Crash, Restart, Dies, Named, Outside, TypeOK
<1>14. CASE CrashInWrite
  BY <1>14 DEF CrashInWrite, Restart, Dies, Waiting, Named, Outside, TypeOK
<1>15. ASSUME NEW s \in Solos,
             PowerOn(s) \/ PowerOff(s) \/ Button(s) \/ PinScan(s)
      PROVE  Outside'
  BY <1>15 DEF PowerOn, Top, PowerOff, NetworkDown, Button, PinScan, Named, Outside, TypeOK
<1>16. ASSUME NEW s \in Solos,
             PinCompleted(s) \/ PinInactive(s) \/ NetworkUp(s) \/ Ask(s)
      PROVE  Outside'
  BY <1>16 DEF PinCompleted, Top, PinInactive, NetworkUp, Ask, Named, Outside, TypeOK
<1>17. ASSUME NEW s \in Solos,
             Acked(s) \/ Refused(s) \/ GiveUp(s) \/ IgnoreNo(s)
      PROVE  Outside'
  BY <1>17 DEF Acked, Refused, NetworkDown, GiveUp, IgnoreNo, Named, Outside, TypeOK
<1>18. ASSUME NEW s \in Solos,
             Lose(s)
      PROVE  Outside'
  BY <1>18 DEF Lose, Named, Outside, TypeOK
<1>19. CASE IgnoreAnswer \/ RequestArrives \/ ResultArrives \/ Accept
  BY <1>19 DEF IgnoreAnswer, Waiting, RequestArrives, ResultArrives, Accept, Named, Outside, TypeOK
<1>20. CASE Reject \/ SendConfirm
  BY <1>20 DEF Reject, SendConfirm, Named, Outside, TypeOK
<1>21. CASE Reboot
  BY <1>21 DEF Reboot, Dies, Named, Outside, TypeOK
<1> QED
  BY <1>1, <1>2, <1>3, <1>4, <1>5, <1>6, <1>7, <1>8, <1>9, <1>10, <1>11, <1>12, <1>13, <1>14,
     <1>15, <1>16, <1>17, <1>18, <1>19, <1>20, <1>21
     DEF Next, ServerNext, Stm32Next, SoloNext

\* Every step keeps AboutMac.
LEMMA StepAboutMac == TypeOK /\ AboutMac /\ Next => AboutMac'
<1> SUFFICES ASSUME TypeOK, AboutMac, Next PROVE AboutMac'
  OBVIOUS
<1> USE DEF server, stm32, solos, links, wifi
<1>1. ASSUME NEW s \in Solos, IgnorePin(s) PROVE AboutMac'
  BY <1>1 DEF IgnorePin, AboutMac, TypeOK, Answers
<1>2. ASSUME NEW s \in Solos, PinRejected(s) PROVE AboutMac'
  BY <1>2 DEF PinRejected, AboutMac, TypeOK, Answers
<1>3. ASSUME NEW s \in Solos, PinPaired(s) PROVE AboutMac'
  BY <1>3 DEF PinPaired, AboutMac, TypeOK, Answers
<1>4. ASSUME NEW s \in Solos, PinUnknown(s) PROVE AboutMac'
  BY <1>4 DEF PinUnknown, AskUser, AboutMac, TypeOK, Answers
<1>5. ASSUME NEW s \in Solos, ConnectYes(s) PROVE AboutMac'
  BY <1>5 DEF ConnectYes, Acknowledge, AboutMac, TypeOK, Answers
<1>6. ASSUME NEW s \in Solos, ConnectPaired(s) PROVE AboutMac'
  BY <1>6 DEF ConnectPaired, Acknowledge, AboutMac, TypeOK, Answers
<1>7. ASSUME NEW s \in Solos, ConnectUnknown(s) PROVE AboutMac'
  BY <1>7 DEF ConnectUnknown, AskUser, Acknowledge, AboutMac, TypeOK, Answers
<1>8. ASSUME NEW s \in Solos, ConnectPending(s) PROVE AboutMac'
  BY <1>8 DEF ConnectPending, Acknowledge, AboutMac, TypeOK, Answers
<1>9. ASSUME NEW s \in Solos, ConnectNo(s) PROVE AboutMac'
  BY <1>9 DEF ConnectNo, Acknowledge, AboutMac, TypeOK, Answers
<1>10. CASE PairConfirm
  BY <1>10 DEF PairConfirm, Waiting, AboutMac, TypeOK, Answers
<1>11. CASE PairReject
  BY <1>11 DEF PairReject, Waiting, BackToIdle, AboutMac, TypeOK, Answers
<1>12. CASE IgnoreAnswer
  BY <1>12 DEF IgnoreAnswer, Waiting, AboutMac, TypeOK, Answers
<1>13. CASE UserTimeout
  BY <1>13 DEF UserTimeout, BackToIdle, Overtaken, AboutMac, TypeOK, Answers
<1>14. CASE Crash
  BY <1>14 DEF Crash, Restart, Dies, AboutMac, TypeOK, Answers
<1>15. CASE CrashInWrite
  BY <1>15 DEF CrashInWrite, Restart, Dies, Waiting, AboutMac, TypeOK, Answers
<1>16. CASE RequestArrives
  BY <1>16 DEF RequestArrives, AboutMac, TypeOK, Answers
<1>17. CASE ResultArrives
  BY <1>17 DEF ResultArrives, AboutMac, TypeOK, Answers
<1>18. CASE Accept
  BY <1>18 DEF Accept, AboutMac, TypeOK, Answers
<1>19. CASE Reject
  BY <1>19 DEF Reject, AboutMac, TypeOK, Answers
<1>20. CASE SendConfirm
  BY <1>20 DEF SendConfirm, AboutMac, TypeOK, Answers
<1>21. ASSUME NEW s \in Solos,
             PowerOn(s) \/ PowerOff(s) \/ Button(s) \/ PinScan(s)
      PROVE  AboutMac'
  BY <1>21 DEF PowerOn, Top, PowerOff, NetworkDown, Button, PinScan, AboutMac, TypeOK, Answers
<1>22. ASSUME NEW s \in Solos,
             PinCompleted(s) \/ PinInactive(s) \/ NetworkUp(s) \/ Ask(s)
      PROVE  AboutMac'
  BY <1>22 DEF PinCompleted, Top, PinInactive, NetworkUp, Ask, AboutMac, TypeOK, Answers
<1>23. ASSUME NEW s \in Solos,
             Acked(s) \/ Refused(s) \/ GiveUp(s) \/ IgnoreNo(s)
      PROVE  AboutMac'
  BY <1>23 DEF Acked, Refused, NetworkDown, GiveUp, IgnoreNo, AboutMac, TypeOK, Answers
<1>24. ASSUME NEW s \in Solos,
             Lose(s)
      PROVE  AboutMac'
  BY <1>24 DEF Lose, AboutMac, TypeOK, Answers
<1>25. CASE Reboot
  BY <1>25 DEF Reboot, Dies, AboutMac, TypeOK, Answers
<1> QED
  BY <1>1, <1>2, <1>3, <1>4, <1>5, <1>6, <1>7, <1>8, <1>9, <1>10, <1>11, <1>12, <1>13, <1>14,
     <1>15, <1>16, <1>17, <1>18, <1>19, <1>20, <1>21, <1>22, <1>23, <1>24, <1>25
     DEF Next, ServerNext, Stm32Next, SoloNext

\* Every step keeps the invariant.
LEMMA StepInv == PairingInv /\ [Next]_vars => PairingInv'
<1> SUFFICES ASSUME PairingInv, [Next]_vars PROVE PairingInv'
  OBVIOUS
<1>1. CASE Next
  BY <1>1, StepTypes, StepNamed, StepConnected, StepLetIn, StepOneLife, StepOutside, StepAboutMac
     DEF PairingInv
<1>2. CASE UNCHANGED vars
  <2> USE <1>2 DEF vars, server, stm32, solos, links, wifi, PairingInv
  <2>1. TypeOK'
    <3>1. ServerType' /\ ScreenType'
      BY TypeParts DEF ServerType, ScreenType
    <3>2. SoloType' /\ NetworkType'
      BY TypeParts DEF SoloType, NetworkType
    <3> QED
      BY <3>1, <3>2, TypeParts
  <2>2. Named' /\ ConnectedIsPaired' /\ LetIn'
    BY DEF Named, ConnectedIsPaired, LetIn
  <2>3. OneLife' /\ Outside' /\ AboutMac'
    BY DEF OneLife, Told, Outside, AboutMac
  <2> QED
    BY <2>1, <2>2, <2>3
<1> QED
  BY <1>1, <1>2

\* The invariant holds of every behaviour of the pairing system.
THEOREM InvCorrect == Spec => []PairingInv
BY InitInv, StepInv, PTL DEF Spec

\* Every variable always has its type.
THEOREM TypeCorrect == Spec => []TypeOK
<1>1. PairingInv => TypeOK
  BY DEF PairingInv
<1> QED
  BY <1>1, InvCorrect, PTL

\* The server is only ever connected with the paired Solo, crashes included.
THEOREM ConnectedCorrect == Spec => []ConnectedIsPaired
<1>1. PairingInv => ConnectedIsPaired
  BY DEF PairingInv
<1> QED
  BY <1>1, InvCorrect, PTL

\* The Solo that holds itself confirmed and the server agree.
THEOREM AgreementCorrect == Spec => []Agreement
<1>1. PairingInv => Agreement
  BY DEF PairingInv, LetIn, Agreement
<1> QED
  BY <1>1, InvCorrect, PTL

\* Two Solos only hold themselves confirmed at once if a life of the server that is
\* over told so to one of them.
THEOREM OneCorrect == Spec => []OnePerLife
<1>1. PairingInv => OnePerLife
  BY DEF PairingInv, OneLife, Told, OnePerLife
<1> QED
  BY <1>1, InvCorrect, PTL

\* A rejected Solo stays out.
THEOREM RejectedCorrect == Spec => []RejectedStaysOut
<1>1. PairingInv => RejectedStaysOut
  <2> SUFFICES ASSUME PairingInv, NEW s \in blacklist
               PROVE  /\ s # paired
                      /\ state # "IDLE" => s # mac
                      /\ crashes = 0 => s \notin pins /\ ~linked[s]
    BY DEF RejectedStaysOut
  <2>1. s \in Solos /\ s # paired /\ (state # "IDLE" => s # mac)
    BY DEF PairingInv, TypeOK, Outside, ConnectedIsPaired
  <2> QED
    BY <2>1 DEF PairingInv, LetIn
<1> QED
  BY <1>1, InvCorrect, PTL

\* The password only goes to the paired Solo and to the one approved by name,
\* late answers aside.
THEOREM ByNameCorrect == Spec => ByNameUnlessLate
<1> DEFINE ByName == \A s \in pins' \ pins : s = paired \/ (answer.current => answer.meant = s)
<1>1. PairingInv /\ [Next]_vars => ByName
  <2> SUFFICES ASSUME PairingInv, [Next]_vars PROVE ByName
    OBVIOUS
  <2> USE DEF server, stm32, solos, links, wifi
  <2>1. CASE PairConfirm
    BY <2>1 DEF PairConfirm, Waiting, PairingInv, AboutMac
  <2>2. ASSUME NEW s \in Solos, PinPaired(s) PROVE ByName
    BY <2>2 DEF PinPaired
  <2>3. ASSUME NEW s \in Solos,
              IgnorePin(s) \/ PinRejected(s) \/ PinUnknown(s) \/ ConnectYes(s)
       PROVE  ByName
    BY <2>3 DEF IgnorePin, PinRejected, PinUnknown, AskUser, ConnectYes, Acknowledge
  <2>4. ASSUME NEW s \in Solos,
              ConnectPaired(s) \/ ConnectUnknown(s) \/ ConnectPending(s) \/ ConnectNo(s)
       PROVE  ByName
    BY <2>4 DEF ConnectPaired, Acknowledge, ConnectUnknown, AskUser, ConnectPending, ConnectNo
  <2>5. ASSUME NEW s \in Solos,
              PowerOn(s) \/ PowerOff(s) \/ Button(s) \/ PinScan(s)
       PROVE  ByName
    BY <2>5 DEF PowerOn, Top, PowerOff, NetworkDown, Button, PinScan
  <2>6. ASSUME NEW s \in Solos,
              PinCompleted(s) \/ PinInactive(s) \/ NetworkUp(s) \/ Ask(s)
       PROVE  ByName
    BY <2>6 DEF PinCompleted, Top, PinInactive, NetworkUp, Ask
  <2>7. ASSUME NEW s \in Solos,
              Acked(s) \/ Refused(s) \/ GiveUp(s) \/ IgnoreNo(s)
       PROVE  ByName
    BY <2>7 DEF Acked, Refused, NetworkDown, GiveUp, IgnoreNo
  <2>8. ASSUME NEW s \in Solos,
              Lose(s)
       PROVE  ByName
    BY <2>8 DEF Lose
  <2>9. CASE PairReject \/ IgnoreAnswer \/ UserTimeout \/ Crash
    BY <2>9
       DEF PairReject, Waiting, BackToIdle, IgnoreAnswer, UserTimeout, Overtaken, Crash, Restart,
           Dies
  <2>10. CASE CrashInWrite \/ RequestArrives \/ ResultArrives \/ Accept
    BY <2>10 DEF CrashInWrite, Restart, Dies, Waiting, RequestArrives, ResultArrives, Accept
  <2>11. CASE Reject \/ SendConfirm
    BY <2>11 DEF Reject, SendConfirm
  <2>12. CASE UNCHANGED vars
    BY <2>12 DEF vars
  <2>13. CASE Reboot
    BY <2>13 DEF Reboot, Dies
  <2> QED
    BY <2>1, <2>2, <2>3, <2>4, <2>5, <2>6, <2>7, <2>8, <2>9, <2>10, <2>11, <2>12, <2>13
       DEF Next, ServerNext, Stm32Next, SoloNext
<1>2. PairingInv /\ [Next]_vars => [ByName]_vars
  BY <1>1
<1> QED
  BY <1>2, InvCorrect, PTL DEF ByNameUnlessLate, Spec

-----------------------------------------------------------------------------
(* Refinement of Admission.                                                *)

\* Presses are counted by natural numbers.
LEMMA Counted ==
    /\ Yes \in Nat /\ No \in Nat
    /\ Yes' \in Nat /\ No' \in Nat
BY DEF Yes, No, Count

\* When the system is switched on nobody is let in and nothing is pressed.
LEMMA AdmissionInit == Init => Adm!Init
<1> SUFFICES ASSUME Init PROVE Adm!Init
  OBVIOUS
<1>1. Yes = 0 /\ No = 0
  BY DEF Init, Yes, No, Count
<1>2. {s \in Solos : linked[s]} = {}
  BY DEF Init
<1>3. ~(crashes > 0)
  BY DEF Init
<1> QED
  BY <1>1, <1>2, <1>3 DEF Init, Adm!Init

\* What Admission speaks of only depends on these variables.
LEMMA AdmissionStutter ==
    UNCHANGED << state, mac, paired, blacklist, crashes, answer, ui, device, linked, pins >>
        => UNCHANGED Adm!vars
<1> SUFFICES ASSUME UNCHANGED << state, mac, paired, blacklist, crashes, answer, ui, device,
                                linked, pins >>
             PROVE  UNCHANGED Adm!vars
  OBVIOUS
<1>1. Yes' = Yes /\ No' = No
  BY DEF Yes, No, Count
<1> QED
  BY <1>1 DEF Adm!vars

\* A Solo that was not let in before is, and perhaps gets the password.
LEMMA AdmissionLetIn ==
    ASSUME NEW s \in Solos, state # "CONNECTED", state' = "CONNECTED", mac' = s,
           s \notin blacklist, pins' = pins \/ pins' = pins \cup {s}, No' = No,
           UNCHANGED << blacklist, crashes, linked >>
    PROVE  Adm!LetIn(s)
BY DEF Adm!LetIn

\* A step that only takes presses away.
LEMMA AdmissionForget ==
    ASSUME Yes' <= Yes, No' <= No,
           UNCHANGED << state, mac, paired, blacklist, crashes, linked, pins >>
    PROVE  Adm!Forget
<1>1. Yes' \in 0..Yes /\ No' \in 0..No
  BY Counted
<1> QED
  BY <1>1 DEF Adm!Forget

\* A Solo leaves the network.
LEMMA AdmissionLeave ==
    ASSUME SoloType, NEW s \in Solos, linked' = [linked EXCEPT ![s] = FALSE],
           UNCHANGED << state, mac, paired, blacklist, crashes, answer, ui, device, pins >>
    PROVE  Adm!Leave(s)
<1>1. {t \in Solos : linked[t]}' = {t \in Solos : linked[t]} \ {s}
  BY DEF SoloType
<1>2. Yes' = Yes /\ No' = No
  BY DEF Yes, No, Count
<1> QED
  BY <1>1, <1>2 DEF Adm!Leave

\* Every step of the daemons is a step of Admission, or changes nothing in it.
LEMMA AdmissionStep == PairingInv /\ [Next]_vars => [Adm!Next]_(Adm!vars)
<1> SUFFICES ASSUME PairingInv, [Next]_vars PROVE [Adm!Next]_(Adm!vars)
  OBVIOUS
<1> USE DEF server, stm32, solos, links, wifi
<1> SoloType /\ ScreenType /\ ServerType /\ NetworkType
  BY TypeParts DEF PairingInv
<1>1. ASSUME NEW s \in Solos, PinPaired(s) PROVE [Adm!Next]_(Adm!vars)
  <2>1. Yes' = Yes /\ No' = No
    BY <1>1 DEF PinPaired, Yes, No, Count
  <2>2. Adm!LetIn(s)
    <3>1. state # "CONNECTED" /\ state' = "CONNECTED" /\ mac' = s /\ s \notin blacklist
      BY <1>1 DEF PinPaired
    <3>2. pins' = pins \cup {s} /\ UNCHANGED << blacklist, crashes, linked >>
      BY <1>1 DEF PinPaired
    <3> QED
      BY <2>1, <3>1, <3>2, AdmissionLetIn
  <2>3. Adm!Return(s)
    BY <1>1, <2>1, <2>2 DEF PinPaired, Adm!Return
  <2> QED
    BY <2>3 DEF Adm!Next
<1>2. ASSUME NEW s \in Solos, ConnectPaired(s) PROVE [Adm!Next]_(Adm!vars)
  <2>1. Yes' = Yes /\ No' = No
    BY <1>2 DEF ConnectPaired, Yes, No, Count
  <2>2. Adm!LetIn(s)
    <3>1. state # "CONNECTED" /\ state' = "CONNECTED" /\ mac' = s
      BY <1>2 DEF ConnectPaired
    <3>2. s \notin blacklist
      BY <1>2 DEF ConnectPaired, PairingInv, Outside
    <3>3. pins' = pins /\ UNCHANGED << blacklist, crashes, linked >>
      BY <1>2 DEF ConnectPaired
    <3> QED
      BY <2>1, <3>1, <3>2, <3>3, AdmissionLetIn
  <2>3. Adm!Return(s)
    BY <1>2, <2>1, <2>2 DEF ConnectPaired, Adm!Return
  <2> QED
    BY <2>3 DEF Adm!Next
<1>3. CASE PairConfirm
  <2>1. mac \in Solos /\ mac \notin blacklist
    BY <1>3 DEF PairConfirm, Waiting, PairingInv, Named, Outside
  <2>2. Yes > 0 /\ Yes' = Yes - 1 /\ No' = No
    BY <1>3 DEF PairConfirm, Yes, No, Count
  <2>3. Adm!LetIn(mac)
    <3>1. state # "CONNECTED" /\ state' = "CONNECTED" /\ mac' = mac
      BY <1>3 DEF PairConfirm, Waiting
    <3>2. pins' = pins \/ pins' = pins \cup {mac}
      BY <1>3 DEF PairConfirm
    <3>3. UNCHANGED << blacklist, crashes, linked >>
      BY <1>3 DEF PairConfirm
    <3> QED
      BY <2>1, <2>2, <3>1, <3>2, <3>3, AdmissionLetIn
  <2>4. Adm!Approve(mac)
    BY <1>3, <2>2, <2>3 DEF PairConfirm, Adm!Approve
  <2> QED
    BY <2>1, <2>4 DEF Adm!Next
<1>4. CASE PairReject
  <2>1. mac \in Solos /\ mac # paired
    BY <1>4 DEF PairReject, Waiting, PairingInv, Named, Outside
  <2>2. No > 0 /\ No' = No - 1 /\ Yes' = Yes
    BY <1>4 DEF PairReject, BackToIdle, Yes, No, Count
  <2>3. Adm!Bar(mac)
    BY <1>4, <2>1, <2>2 DEF PairReject, Waiting, BackToIdle, Adm!Bar
  <2> QED
    BY <2>1, <2>3 DEF Adm!Next
<1>5. CASE Accept
  <2>1. device # Empty
    BY <1>5 DEF Accept, PairingInv, Named
  <2>2. Yes' = Yes + 1 /\ No' = No
    BY <1>5, <2>1 DEF Accept, Yes, No, Count
  <2>3. Adm!PressYes
    BY <1>5, <2>2 DEF Accept, Adm!PressYes
  <2> QED
    BY <2>3 DEF Adm!Next
<1>6. CASE Reject
  <2>1. No' = No + 1 /\ Yes' = Yes
    BY <1>6 DEF Reject, Yes, No, Count
  <2>2. Adm!PressNo
    BY <1>6, <2>1 DEF Reject, Adm!PressNo
  <2> QED
    BY <2>2 DEF Adm!Next
<1>7. CASE SendConfirm
  <2>1. Yes' <= Yes /\ No' <= No
    BY <1>7 DEF SendConfirm, Yes, No, Count
  <2>2. Adm!Forget
    BY <1>7, <2>1, AdmissionForget DEF SendConfirm
  <2> QED
    BY <2>2 DEF Adm!Next
<1>8. CASE IgnoreAnswer \/ RequestArrives \/ ResultArrives
  <2>1. Yes' <= Yes /\ No' <= No
    BY <1>8 DEF IgnoreAnswer, RequestArrives, ResultArrives, Yes, No, Count
  <2>2. Adm!Forget
    BY <1>8, <2>1, AdmissionForget DEF IgnoreAnswer, RequestArrives, ResultArrives
  <2> QED
    BY <2>2 DEF Adm!Next
<1>9. CASE Crash \/ CrashInWrite \/ Reboot
  <2>1. Yes' <= Yes /\ No' <= No
    BY <1>9 DEF Crash, CrashInWrite, Restart, Reboot, Dies, Yes, No, Count
  <2>2. Yes' \in 0..Yes /\ No' \in 0..No
    BY <2>1, Counted
  <2>3. crashes' > 0
    BY <1>9 DEF Crash, CrashInWrite, Restart, Reboot, Dies, ServerType
  <2>4. state' = "IDLE" /\ blacklist' = {} /\ paired' \in {paired, None}
    BY <1>9 DEF Crash, CrashInWrite, Restart, Reboot, Dies
  <2>5. pins' \in {pins, {}} /\ linked' = linked
    BY <1>9 DEF Crash, CrashInWrite, Restart, Reboot, Dies
  <2>6. Adm!Restart
    BY <2>2, <2>3, <2>4, <2>5 DEF Adm!Restart
  <2> QED
    BY <2>6 DEF Adm!Next
<1>10. ASSUME NEW s \in Solos, PinCompleted(s) PROVE [Adm!Next]_(Adm!vars)
  <2>1. Yes' = Yes /\ No' = No
    BY <1>10 DEF PinCompleted, Yes, No, Count
  <2>2. Adm!Give(s)
    BY <1>10, <2>1 DEF PinCompleted, Adm!Give
  <2> QED
    BY <2>2 DEF Adm!Next
<1>11. ASSUME NEW s \in Solos, Acked(s) PROVE [Adm!Next]_(Adm!vars)
  <2>1. CASE linked[s] \/ ack[s] # "yes"
    <3>1. linked' = linked
      BY <1>11, <2>1 DEF Acked, SoloType
    <3> QED
      BY <1>11, <3>1, AdmissionStutter DEF Acked
  <2>2. CASE ~linked[s] /\ ack[s] = "yes"
    <3>1. Yes' = Yes /\ No' = No
      BY <1>11 DEF Acked, Yes, No, Count
    <3>2. pc[s] = "conn" /\ linked' = [linked EXCEPT ![s] = TRUE]
      BY <1>11, <2>2 DEF Acked
    <3>3. {t \in Solos : linked[t]}' = {t \in Solos : linked[t]} \cup {s}
      BY <3>2 DEF SoloType
    <3>4. crashes > 0 \/ (state = "CONNECTED" /\ mac = s)
      BY <2>2 DEF PairingInv, LetIn, ServerType
    <3>5. Adm!Tell(s)
      BY <1>11, <3>1, <3>3, <3>4 DEF Acked, Adm!Tell
    <3> QED
      BY <3>5 DEF Adm!Next
  <2> QED
    BY <2>1, <2>2
<1>12. ASSUME NEW s \in Solos, PowerOff(s) \/ Refused(s) \/ GiveUp(s)
       PROVE  [Adm!Next]_(Adm!vars)
  <2>1. linked' = [linked EXCEPT ![s] = FALSE]
    BY <1>12 DEF PowerOff, Refused, GiveUp, NetworkDown
  <2>2. Adm!Leave(s)
    BY <1>12, <2>1, AdmissionLeave DEF PowerOff, Refused, GiveUp
  <2> QED
    BY <2>2 DEF Adm!Next
<1>13. CASE UserTimeout
  <2>1. Yes' <= Yes /\ No' <= No
    <3>1. CASE answer = None
      BY <1>13, <3>1 DEF UserTimeout, Overtaken, Yes, No, Count
    <3>2. CASE answer \in Answers /\ answer # None
      <4>1. answer'.name = answer.name
        BY <1>13, <3>2 DEF UserTimeout, Overtaken, Answers
      <4> QED
        BY <1>13, <3>2, <4>1 DEF UserTimeout, Yes, No, Count
    <3> QED
      BY <3>1, <3>2 DEF ScreenType
  <2>2. Yes' \in 0..Yes /\ No' \in 0..No
    BY <2>1, Counted
  <2>3. Adm!Forget
    BY <1>13, <2>2 DEF UserTimeout, BackToIdle, Adm!Forget
  <2> QED
    BY <2>3 DEF Adm!Next
<1>14. ASSUME NEW s \in Solos, PinRejected(s) \/ PinUnknown(s) \/ ConnectUnknown(s)
       PROVE  [Adm!Next]_(Adm!vars)
  <2>1. Yes' <= Yes /\ No' <= No
    BY <1>14 DEF PinRejected, PinUnknown, ConnectUnknown, AskUser, Acknowledge, Yes, No, Count
  <2>2. Yes' \in 0..Yes /\ No' \in 0..No
    BY <2>1, Counted
  <2>3. state # "CONNECTED" /\ state' # "CONNECTED"
    BY <1>14 DEF PinRejected, PinUnknown, ConnectUnknown, AskUser
  <2>4. Adm!Forget
    BY <1>14, <2>2, <2>3
       DEF PinRejected, PinUnknown, ConnectUnknown, AskUser, Acknowledge, Adm!Forget
  <2> QED
    BY <2>4 DEF Adm!Next
<1>15. ASSUME NEW s \in Solos,
              IgnorePin(s) \/ ConnectYes(s) \/ ConnectPending(s) \/ ConnectNo(s)
       PROVE  [Adm!Next]_(Adm!vars)
  BY <1>15, AdmissionStutter DEF IgnorePin, ConnectYes, ConnectPending, ConnectNo
<1>16. ASSUME NEW s \in Solos,
              PowerOn(s) \/ Button(s) \/ PinScan(s) \/ PinInactive(s)
       PROVE  [Adm!Next]_(Adm!vars)
  BY <1>16, AdmissionStutter DEF PowerOn, Button, PinScan, PinInactive
<1>17. ASSUME NEW s \in Solos,
              NetworkUp(s) \/ Ask(s) \/ IgnoreNo(s) \/ Lose(s)
       PROVE  [Adm!Next]_(Adm!vars)
  BY <1>17, AdmissionStutter DEF NetworkUp, Ask, IgnoreNo, Lose
<1>18. CASE UNCHANGED vars
  BY <1>18, AdmissionStutter DEF vars
<1> QED
  BY <1>1, <1>2, <1>3, <1>4, <1>5, <1>6, <1>7, <1>8, <1>9, <1>10, <1>11, <1>12, <1>13, <1>14,
     <1>15, <1>16, <1>17, <1>18
     DEF Next, ServerNext, Stm32Next, SoloNext

\* The pairing daemons implement what Admission promises: for each press of a button
\* one Solo, and nobody else while one is in, until a restart.
THEOREM AdmissionCorrect == Spec => AdmissionSpec
<1>1. Spec => Adm!Spec
  BY AdmissionInit, AdmissionStep, InvCorrect, PTL DEF Spec, Adm!Spec
<1> QED
  BY <1>1 DEF AdmissionSpec

=============================================================================

----------------------------- MODULE MCPairing -----------------------------
(***************************************************************************)
(* Model checking Pairing: any two Solos can be swapped, and for the       *)
(* liveness properties nobody presses a pairing button, so that every      *)
(* request is a connect request or follows a refused one.                  *)
(***************************************************************************)
EXTENDS Pairing, TLC

Symmetry == Permutations(Solos)

\* A Solo has been paired before.
LiveInit == Init /\ paired # None

LiveNext ==
    \/ ServerNext \/ Crash \/ CrashInWrite \/ Reboot
    \/ Stm32Next
    \/ \E s \in Solos : SoloNext(s) /\ ~Button(s) /\ ~GiveUp(s)

LiveSpec == LiveInit /\ [][LiveNext]_vars /\ Fairness

\* The paired Solo gets through in the end, whoever was paired or asked about
\* before, if it stays on and the other Solos are off.
PairedConnects ==
    LET s == CHOOSE solo \in Solos : TRUE IN
        <>[](paired = s /\ key[s] /\ pc[s] # "off" /\ \A t \in Solos \ {s} : pc[t] = "off")
            => []<>linked[s]

=============================================================================

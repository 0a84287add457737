--------------------------- MODULE PacketRegister ---------------------------
(***************************************************************************)
(* What rc_ipc promises its users: the stick packet in shared memory is    *)
(* one register.  A packet is put and got whole and at once; a reader has  *)
(* the packet it got last.  When a process ends in the middle of a put or  *)
(* a get nothing is put or got any more.                                   *)
(***************************************************************************)
CONSTANTS
    Writers, Readers,
    Values,
    First,        \* the packet before the first put and the first get
    None          \* the register is not usable any more

VARIABLES value, got

vars == << value, got >>

Init == value = First /\ got = [r \in Readers |-> First]

Put(v) ==
    /\ value # None
    /\ value' = v
    /\ UNCHANGED got

Get(r) ==
    /\ value # None
    /\ got' = [got EXCEPT ![r] = value]
    /\ UNCHANGED value

\* A process ends, and its threads with it.
End(threads) ==
    /\ value' \in {value, None}
    /\ got' = [r \in Readers |-> IF r \in threads THEN First ELSE got[r]]

Next ==
    \/ \E v \in Values : Put(v)
    \/ \E r \in Readers : Get(r)
    \/ \E threads \in SUBSET (Writers \cup Readers) : End(threads)

Spec == Init /\ [][Next]_vars

=============================================================================

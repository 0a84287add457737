------------------------------- MODULE RcIpc -------------------------------
(***************************************************************************)
(* The shared memory of the stick packet: rc_ipc.c in pixrc, rc_ipc.py in  *)
(* shotManager.  A named semaphore protects it.  A thread that has it      *)
(* copies the packet word by word, from the struct of its own or to it,    *)
(* and the other processes run between the words; then it gives it back.   *)
(*                                                                         *)
(* Semaphore and memory outlive the processes: a thread that ends with the *)
(* semaphore taken leaves it taken.                                        *)
(*                                                                         *)
(* Abstracted: what is in the words of a packet; Blank is the packet of    *)
(* the memory when it is created.                                          *)
(***************************************************************************)
CONSTANTS
    Writers, Readers,    \* threads that put, threads that get
    Words,               \* the words of a packet
    Packets, Blank,
    None

Users == Writers \cup Readers

\* A packet in memory, and one that is not torn.
Copies == [Words -> Packets]
Whole(p) == [w \in Words |-> p]

VARIABLES
    sem,     \* "free", the thread that has taken it, or "lost" with its thread
    shm,     \* the packet in shared memory
    busy,    \* the threads between sem_wait and sem_post
    left,    \* the words they have still to copy
    pkt      \* the packet in the thread's own memory

memory == << sem, shm, busy, left, pkt >>

Init ==
    /\ sem = "free" /\ shm = Whole(Blank)
    /\ busy = {} /\ left = [u \in Users |-> {}]
    /\ pkt = [u \in Users |-> Whole(Blank)]

\* Mutant of Wait: the semaphore is not looked at.
WaitNot(u) ==
    /\ u \notin busy
    /\ sem' = u

\* sem_wait
Wait(u) ==
    /\ sem = "free"
    /\ sem' = u

Enter(u) ==
    /\ Wait(u)
    /\ busy' = busy \cup {u}
    /\ left' = [left EXCEPT ![u] = Words]
    /\ UNCHANGED shm

\* rc_ipc_put of a packet, rc_ipc_get: sem_wait ...
BeginPut(u, p) ==
    /\ u \in Writers
    /\ Enter(u)
    /\ pkt' = [pkt EXCEPT ![u] = Whole(p)]

BeginGet(u) ==
    /\ u \in Readers
    /\ Enter(u)
    /\ UNCHANGED pkt

\* ... memcpy ...
Copy(u, w) ==
    /\ u \in busy /\ w \in left[u]
    /\ left' = [left EXCEPT ![u] = @ \ {w}]
    /\ IF u \in Writers THEN /\ shm' = [shm EXCEPT ![w] = pkt[u][w]]
                             /\ UNCHANGED pkt
       ELSE /\ pkt' = [pkt EXCEPT ![u] = [@ EXCEPT ![w] = shm[w]]]
            /\ UNCHANGED shm
    /\ UNCHANGED << sem, busy >>

\* ... and sem_post.  A writer makes a new packet before it puts again.
Finish(u) ==
    /\ u \in busy /\ left[u] = {}
    /\ sem' = "free"
    /\ busy' = busy \ {u}
    /\ pkt' = IF u \in Writers THEN [pkt EXCEPT ![u] = Whole(Blank)] ELSE pkt
    /\ UNCHANGED << shm, left >>

\* A process ends, and its threads with it.
End(threads) ==
    /\ sem' = IF sem \in threads THEN "lost" ELSE sem
    /\ busy' = busy \ threads
    /\ left' = [u \in Users |-> IF u \in threads THEN {} ELSE left[u]]
    /\ pkt' = [u \in Users |-> IF u \in threads THEN Whole(Blank) ELSE pkt[u]]
    /\ UNCHANGED shm

Next ==
    \/ \E u \in Users :
        \/ \E p \in Packets : BeginPut(u, p)
        \/ BeginGet(u)
        \/ \E w \in Words : Copy(u, w)
        \/ Finish(u)
    \/ \E threads \in SUBSET Users : End(threads)

Spec == Init /\ [][Next]_memory

-----------------------------------------------------------------------------
(* Properties.                                                             *)

\* Every variable has its type.
TypeOK ==
    /\ sem \in Users \cup {"free", "lost"} /\ busy \subseteq Users
    /\ shm \in Copies /\ left \in [Users -> SUBSET Words] /\ pkt \in [Users -> Copies]

\* The packet is put when its writer has the semaphore, and got when its reader
\* has: nobody sees the words in between.
Value ==
    IF sem = "lost" THEN None
    ELSE IF sem \in Writers THEN pkt[sem]
    ELSE shm

Got == [r \in Readers |-> IF r \in busy THEN shm ELSE pkt[r]]

\* The words in shared memory are one packet for its users, whatever order they are
\* copied in, whoever ends where: no torn packet is ever got.
Register == INSTANCE PacketRegister WITH
    Values <- {Whole(p) : p \in Packets}, First <- Whole(Blank), value <- Value, got <- Got
RegisterSpec == Register!Spec

=============================================================================

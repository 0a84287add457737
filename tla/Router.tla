------------------------------- MODULE Router -------------------------------
(***************************************************************************)
(* What telem_forward promises its clients.  A component belongs to the    *)
(* first client it is claimed for, until that client leaves.  A message    *)
(* for all reaches every member; one for a component reaches the client it *)
(* belongs to, once, and nobody else.  Members come and go only between    *)
(* two messages; components are claimed at any time.                       *)
(*                                                                         *)
(* Two things are not promised, and this module says which: a message is   *)
(* not owed to anyone if the entry of the system was lost when it came,    *)
(* and one that is owed may be missed, but only during a claim.            *)
(***************************************************************************)
CONSTANTS Clients, Comps, None

VARIABLES
    members,
    home,         \* the client of each component, and of the system
    claiming,     \* is a claim being made?
    busy,         \* is a message being passed on?
    message,      \* whom it is for: a component, or "all"
    due,          \* the clients it is owed to
    got           \* the clients it has been sent to

vars == << members, home, claiming, busy, message, due, got >>

Entries == Comps \cup {"system"}

Init ==
    /\ members = {} /\ home = [e \in Entries |-> None] /\ claiming = FALSE
    /\ busy = FALSE /\ message = "all" /\ due = {} /\ got = {}

Quiet == ~busy /\ ~claiming

Join(c) ==
    /\ Quiet
    /\ members' = members \cup {c}
    /\ UNCHANGED << home, claiming, busy, message, due, got >>

\* What belongs to a member that leaves belongs to nobody.
Leave(c) ==
    /\ Quiet /\ c \in members
    /\ members' = members \ {c}
    /\ home' = [e \in Entries |-> IF home[e] = c THEN None ELSE home[e]]
    /\ UNCHANGED << claiming, busy, message, due, got >>

StartClaim ==
    /\ ~claiming /\ claiming' = TRUE
    /\ UNCHANGED << members, home, busy, message, due, got >>

\* A claim gets a component that is free.
Claim(k, c) ==
    /\ claiming /\ claiming' = FALSE
    /\ c \in members
    /\ IF home[k] = None THEN home' = [home EXCEPT ![k] = c, !["system"] = c]
                         ELSE UNCHANGED home
    /\ UNCHANGED << members, busy, message, due, got >>

Owed(m) ==
    IF m = "all" THEN members
    ELSE IF home["system"] = None THEN {}
    ELSE {home[m]} \ {None}

Start(m) ==
    /\ ~busy /\ busy' = TRUE
    /\ message' = m /\ due' = Owed(m)
    /\ UNCHANGED << members, home, claiming, got >>

Deliver(c) ==
    /\ busy /\ c \in due
    /\ due' = due \ {c} /\ got' = got \cup {c}
    /\ UNCHANGED << members, home, claiming, busy, message >>

\* The component was claimed, or the system seen again, after the message came.
DeliverLate(c) ==
    /\ busy /\ message # "all" /\ due = {} /\ got = {}
    /\ home["system"] # None /\ home[message] = c
    /\ got' = {c}
    /\ UNCHANGED << members, home, claiming, busy, message, due >>

\* The table was read in the middle of a claim.
Miss ==
    /\ busy /\ message # "all" /\ claiming
    /\ due' = {}
    /\ UNCHANGED << members, home, claiming, busy, message, got >>

Finish ==
    /\ busy /\ due = {}
    /\ busy' = FALSE /\ message' = "all" /\ got' = {}
    /\ UNCHANGED << members, home, claiming, due >>

\* The process starts again.
Restart ==
    /\ members' = {} /\ home' = [e \in Entries |-> None] /\ claiming' = FALSE
    /\ busy' = FALSE /\ message' = "all" /\ due' = {} /\ got' = {}

Next ==
    \/ \E c \in Clients : Join(c) \/ Leave(c) \/ Deliver(c) \/ DeliverLate(c)
    \/ \E k \in Comps, c \in Clients : Claim(k, c)
    \/ \E m \in Comps \cup {"all"} : Start(m)
    \/ StartClaim \/ Miss \/ Finish \/ Restart

Spec == Init /\ [][Next]_vars

=============================================================================

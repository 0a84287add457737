----------------------------- MODULE ParamStore -----------------------------
(***************************************************************************)
(* What the parameters of the controller promise the rest of it: a copy in *)
(* memory that is written at any time, and a copy on one flash page that   *)
(* is only ever erased and then written again, each half word once and     *)
(* with what the memory said when it was taken from there, until it is     *)
(* complete or the writing is given up.  What is in memory after a restart *)
(* is what the page said, with defaults for the groups of fields the page  *)
(* does not have all of.                                                   *)
(***************************************************************************)
CONSTANTS
    Words, Fields,    \* the half words; the sets of them that are written together
    Groups,           \* the sets of fields that get their defaults together
    Values, Blank,    \* an erased half word reads Blank
    Default

VARIABLES
    mem, page,
    open,             \* is the page being written?
    taken             \* a half word on its way to the page, and where it goes, or << >>

vars == << mem, page, open, taken >>

\* What is in memory after a restart.
Restored(p) ==
    [w \in Words |-> IF \E g \in Groups : w \in UNION g /\ \E f \in g : \A x \in f : p[x] = Blank
                     THEN Default ELSE p[w]]

Init ==
    /\ page \in [Words -> Values \cup {Blank}]
    /\ mem = Restored(page)
    /\ open = FALSE /\ taken = << >>

Write(f, v) ==
    /\ mem' = [w \in Words |-> IF w \in f THEN v ELSE mem[w]]
    /\ UNCHANGED << page, open, taken >>

Erase ==
    /\ ~open
    /\ page' = [w \in Words |-> Blank] /\ open' = TRUE
    /\ UNCHANGED << mem, taken >>

Take(w) ==
    /\ open /\ taken = << >>
    /\ taken' = << w, mem[w] >>
    /\ UNCHANGED << mem, page, open >>

Fill ==
    /\ taken # << >> /\ page[taken[1]] = Blank
    /\ page' = [page EXCEPT ![taken[1]] = taken[2]]
    /\ taken' = << >>
    /\ UNCHANGED << mem, open >>

\* The flash does not take it.
Drop ==
    /\ taken' = << >>
    /\ UNCHANGED << mem, page, open >>

\* The page is complete, or given up.
Close ==
    /\ open
    /\ open' = FALSE /\ taken' = << >>
    /\ UNCHANGED << mem, page >>

Restart ==
    /\ mem' = Restored(page) /\ open' = FALSE /\ taken' = << >>
    /\ UNCHANGED page

Next ==
    \/ \E f \in Fields, v \in Values : Write(f, v)
    \/ \E w \in Words : Take(w)
    \/ Erase \/ Fill \/ Drop \/ Close \/ Restart

Spec == Init /\ [][Next]_vars

=============================================================================

----------------------------- MODULE Admission -----------------------------
(***************************************************************************)
(* What the pairing daemons promise the user of the controller.  One Solo  *)
(* is the controller's own.  No Solo is let in but the own one and one the *)
(* user has just said yes about, and each press of a button is used at     *)
(* most once: for one yes one Solo becomes the own one and the guest, for  *)
(* one no one Solo is barred.  Once a guest is in, nobody else is, and a   *)
(* barred Solo does not get in, until a restart; and only the guest is     *)
(* told that it is in.                                                     *)
(*                                                                         *)
(* A press may be forgotten; and a restart forgets everything but the own  *)
(* Solo, or even that.  A Solo that is told it is in after a restart may   *)
(* have been the guest before it, and the one before may not have noticed. *)
(***************************************************************************)
EXTENDS Integers

CONSTANTS
    Solos,
    None           \* no Solo

VARIABLES
    owner,         \* the controller's own Solo
    guest,         \* the Solo that is let in
    barred,        \* the Solos the user has rejected
    granted,       \* the Solos that can get the password
    told,          \* the Solos that know they are in
    yes, no,       \* the presses that were not used yet
    restarted

vars == << owner, guest, barred, granted, told, yes, no, restarted >>

Init ==
    /\ owner \in Solos \cup {None} /\ guest = None
    /\ barred = {} /\ granted = {} /\ told = {}
    /\ yes = 0 /\ no = 0 /\ restarted = FALSE

PressYes ==
    /\ yes' = yes + 1
    /\ UNCHANGED << owner, guest, barred, granted, told, no, restarted >>

PressNo ==
    /\ no' = no + 1
    /\ UNCHANGED << owner, guest, barred, granted, told, yes, restarted >>

Forget ==
    /\ yes' \in 0..yes /\ no' \in 0..no
    /\ UNCHANGED << owner, guest, barred, granted, told, restarted >>

\* A Solo is let in, and may get the password.
LetIn(s) ==
    /\ guest = None /\ s \notin barred
    /\ guest' = s
    /\ granted' \in {granted, granted \cup {s}}
    /\ UNCHANGED << barred, told, no, restarted >>

Approve(s) ==
    /\ yes > 0
    /\ yes' = yes - 1
    /\ owner' = s
    /\ LetIn(s)

Return(s) ==
    /\ s = owner
    /\ LetIn(s)
    /\ UNCHANGED << owner, yes >>

Bar(s) ==
    /\ no > 0
    /\ no' = no - 1
    /\ guest = None /\ s # owner
    /\ barred' = barred \cup {s}
    /\ UNCHANGED << owner, guest, granted, told, yes, restarted >>

\* The password is given once.
Give(s) ==
    /\ s \in granted
    /\ granted' = granted \ {s}
    /\ UNCHANGED << owner, guest, barred, told, yes, no, restarted >>

Tell(s) ==
    /\ guest = s \/ restarted
    /\ told' = told \cup {s}
    /\ UNCHANGED << owner, guest, barred, granted, yes, no, restarted >>

Leave(s) ==
    /\ told' = told \ {s}
    /\ UNCHANGED << owner, guest, barred, granted, yes, no, restarted >>

Restart ==
    /\ restarted' = TRUE
    /\ owner' \in {owner, None} /\ guest' = None /\ barred' = {}
    /\ granted' \in {granted, {}}
    /\ yes' \in 0..yes /\ no' \in 0..no
    /\ UNCHANGED told

Next ==
    \/ PressYes \/ PressNo \/ Forget \/ Restart
    \/ \E s \in Solos :
        Approve(s) \/ Return(s) \/ Bar(s) \/ Give(s) \/ Tell(s) \/ Leave(s)

Spec == Init /\ [][Next]_vars

=============================================================================

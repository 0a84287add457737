------------------------------ MODULE MCPixRc ------------------------------
(* Instances of PixRc for TLC. *)
EXTENDS PixRc

\* One more than the places that hold a packet: shm, ser.last and udp.pkt.
MCIds == 1..4

SomeLockOps == {"lock_version", "unlock_version"}
=============================================================================

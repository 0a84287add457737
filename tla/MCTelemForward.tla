---------------------------- MODULE MCTelemForward ---------------------------
(* TelemForward for TLC: clients and components are interchangeable.       *)
EXTENDS TelemForward, TLC

Symmetry == Permutations(Addrs) \cup Permutations(Comps)

=============================================================================

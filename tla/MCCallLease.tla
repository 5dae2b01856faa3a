---------------------------- MODULE MCCallLease ----------------------------
(* Instances of CallLease for TLC. *)
EXTENDS CallLease, TLC

Symmetry == Permutations(Sockets) \cup Permutations(Connections)
              \cup Permutations(Channels)

(* Once every user is blind, the lease properties say nothing more. *)
StillPromised == blind # Users
=============================================================================

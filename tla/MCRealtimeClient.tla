-------------------------- MODULE MCRealtimeClient --------------------------
(* One tab with two transports at a time. *)
EXTENDS RealtimeClient, TLC

Interchangeable == Permutations(Sockets)
=============================================================================

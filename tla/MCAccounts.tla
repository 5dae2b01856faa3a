----------------------------- MODULE MCAccounts -----------------------------
(* An instance of Accounts for TLC. *)
EXTENDS Accounts, FiniteSets, TLC

(* One event on its way, and one socket, at a time. *)
Few == Cardinality(events) <= 1 /\ Cardinality(sockets) <= 1

Symmetry == Permutations(Users) \cup Permutations(Invites) \cup Permutations(Requests)
            \cup Permutations(Sessions) \cup Permutations(Slots)
=============================================================================

------------------------------ MODULE MCGroups ------------------------------
(* An instance of Groups for TLC. *)
EXTENDS Groups, TLC

CONSTANTS a, b, c

(* b and c are not friends of each other. *)
MCPairs == {{a, b}, {a, c}}

(* Only b connects, once there is a group; friendships are asked for before,  *)
(* and only that of a and b ends.  A behaviour is followed until the first    *)
(* write that was overtaken or attachment that is missed.                     *)
Few == /\ ~raced /\ missed = {}
       /\ place[a] = "offline" /\ place[c] = "offline"
       /\ group = "none" => place[b] = "offline"
       /\ group # "none" => friends[{a, b}] \in {"none", "accepted"} /\ friends[{a, c}] = "accepted"

Symmetry == Permutations(Requests)
=============================================================================

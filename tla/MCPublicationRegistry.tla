----------------------- MODULE MCPublicationRegistry -----------------------
(* Instances of PublicationRegistry for TLC. *)
EXTENDS PublicationRegistry, TLC

Symmetry == Permutations(Requests) \cup Permutations(Sessions)

(* Astray, the properties promise nothing more; and until then nobody acts on *)
(* a replaced transport or on what the alarm has read, so that one of them at *)
(* a time, while no request is in progress, shows what they can do.           *)
StillPromised ==
  /\ ~astray
  /\ replaced = NoAtt \/ copy = NoAtt
  /\ \/ replaced = NoAtt /\ copy = NoAtt
     \/ \A r \in Requests : req[r] = Idle
=============================================================================

---------------------------- MODULE MCOwnership ----------------------------
(* Instances of Ownership for TLC. *)
EXTENDS Ownership

(* Bound: watch events on their way, of the object and of each service. *)
CONSTANT MaxLag

FewEvents ==
    /\ Len(child) <= MaxLag + 1
    /\ \A n \in Name : Len(services[n]) <= MaxLag + 1
=============================================================================

------------------------------ MODULE Rollout ------------------------------
(***************************************************************************)
(* What the operator promises of a rollout, without passes, caches or      *)
(* conditions: etcd, then the API server, then the controller manager.     *)
(* A part is launched for the first time only after the one before it has  *)
(* proved itself, and the service is announced as available only after all *)
(* three have.                                                             *)
(***************************************************************************)
VARIABLES
    launched,            \* parts that were ever created
    proven,              \* parts that were ever up
    announced            \* the service is reported as available

vars == <<launched, proven, announced>>

Part == {"etcd", "kas", "kcm"}

Prerequisites(p) ==
    CASE p = "etcd" -> {}
      [] p = "kas" -> {"etcd"}
      [] p = "kcm" -> {"kas"}

TypeOK ==
    /\ launched \subseteq Part
    /\ proven \subseteq Part
    /\ announced \in BOOLEAN

Init == launched = {} /\ proven = {} /\ announced = FALSE

Launch(p) ==
    /\ p \notin launched
    /\ Prerequisites(p) \subseteq proven
    /\ launched' = launched \cup {p}
    /\ UNCHANGED <<proven, announced>>

Prove(p) ==
    /\ p \in launched \ proven
    /\ proven' = proven \cup {p}
    /\ UNCHANGED <<launched, announced>>

Announce ==
    /\ ~announced
    /\ proven = Part
    /\ announced' = TRUE
    /\ UNCHANGED <<launched, proven>>

Retract ==
    /\ announced
    /\ announced' = FALSE
    /\ UNCHANGED <<launched, proven>>

Next ==
    \/ \E p \in Part : Launch(p) \/ Prove(p)
    \/ Announce \/ Retract

Spec == Init /\ [][Next]_vars
=============================================================================

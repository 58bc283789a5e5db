-------------------------- MODULE MCReleaseLookup --------------------------
(* Instances of ReleaseLookup for TLC: the services first and second share an image. *)
EXTENDS ReleaseLookup

CONSTANTS first, second, third, shared, other

MCService == {first, second, third}

(* The image of third is no release image, or cannot be pulled, until it is pushed
   again. *)
MCPushed == {[i \in {shared, other} |-> IF i = other THEN c ELSE 1] : c \in {3, 4}}

MCImageOf == [s \in MCService |-> IF s = third THEN other ELSE shared]
=============================================================================

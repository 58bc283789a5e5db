------------------------------- MODULE MCPki -------------------------------
(* Instances of Pki for TLC. *)
EXTENDS Pki, FiniteSets

(* Bound: watch events of secrets on their way at any time. *)
CONSTANT MaxLag

FewEvents == Cardinality({<<s, i>> \in Secret \X (2 .. MaxLag + 2) : i <= Len(secrets[s])}) <= MaxLag
=============================================================================

---------------------------- MODULE MCCanonGraph ----------------------------
(* An instance of CanonGraph: the kinds of relations the registry has. *)
EXTENDS CanonGraph, TLC

CONSTANTS ally, belongs, member

\* A relation that is its own inverse, one whose inverse is not registered itself
\* (소속, 구성원 in _relations.json), and that one.
Registry == ally :> ally @@ belongs :> member @@ member :> None

Symmetry == Permutations(Workers) \cup Permutations(Ids)
=============================================================================

--------------------------- MODULE MCProjectTree ----------------------------
(***************************************************************************)
(* Instances of ProjectTree for TLC.                                       *)
(***************************************************************************)
EXTENDS ProjectTree, TLC

Symmetry == Permutations(Projects) \cup Permutations(Seasons) \cup Permutations(Chapters)
=============================================================================

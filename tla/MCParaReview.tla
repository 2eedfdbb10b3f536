---------------------------- MODULE MCParaReview -----------------------------
(***************************************************************************)
(* Instances of ParaReview for TLC.                                        *)
(***************************************************************************)
EXTENDS ParaReview, TLC

Symmetry == Permutations(Lines)
=============================================================================

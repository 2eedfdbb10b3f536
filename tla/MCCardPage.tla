----------------------------- MODULE MCCardPage -----------------------------
(***************************************************************************)
(* Instances of CardPage for TLC.                                          *)
(***************************************************************************)
EXTENDS CardPage, TLC

\* Failures of the schema, of the load of a form and of the saves: those after which the
\* page goes on with something it had before.
SomeFail    == {"schema", "edit", "put", "post", "inget"}
\* The load of the card that was clicked fails.
DetailFails == {"detail"}

Symmetry == Permutations(Ids)
=============================================================================

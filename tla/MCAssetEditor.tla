--------------------------- MODULE MCAssetEditor ----------------------------
(***************************************************************************)
(* Instances of AssetEditor for TLC.                                       *)
(***************************************************************************)
EXTENDS AssetEditor, TLC

\* A form that lacks something required is refused whatever else it holds, so one
\* such form is enough.
MCForms == {data \in Data : RequiredMissing(data) = {} \/ \A f \in Fields : data[f] = Missing}

Symmetry == Permutations(Clients) \cup Permutations(Tokens) \cup Permutations(Values \ {Missing})
=============================================================================

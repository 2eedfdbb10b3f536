--------------------------- MODULE MCChapterStore ---------------------------
(***************************************************************************)
(* Instances of ChapterStore for TLC: two threads of the pool, contents    *)
(* that are empty or one other text, at most two autosaves kept.           *)
(***************************************************************************)
EXTENDS ChapterStore, TLC

Symmetry == Permutations(Workers)
=============================================================================

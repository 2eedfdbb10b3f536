------------------------------ MODULE Pipeline ------------------------------
(***************************************************************************)
(* The life of one chapter as a finite state machine                       *)
(* (builder/src/builder/domain/pipeline.py): a pure table, without a       *)
(* database.  ChapterStore is the module whose handlers consult it.        *)
(***************************************************************************)

States == {"DRAFT", "POLISH", "EXPAND", "EXTRACT", "PROMOTE", "SHIP"}

\* The states a chapter may go to from each state; SHIP is the end.
Transitions ==
    [DRAFT   |-> {"POLISH"},
     POLISH  |-> {"POLISH", "EXPAND"},
     EXPAND  |-> {"EXPAND", "EXTRACT"},
     EXTRACT |-> {"PROMOTE"},
     PROMOTE |-> {"SHIP", "DRAFT"},
     SHIP    |-> {}]

CanAdvance(frm, to) == to \in Transitions[frm]
=============================================================================

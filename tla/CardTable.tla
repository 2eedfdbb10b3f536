----------------------------- MODULE CardTable ------------------------------
(***************************************************************************)
(* What the asset editor promises people who work on the same cards        *)
(* (README.md, "concurrent editing is safe"): a client changes or removes a *)
(* card only while the card is, in every field, what that client has on    *)
(* its screen.  Nothing is said of requests, sessions, locks or versions.  *)
(* AssetEditor is shown to implement this specification.                   *)
(***************************************************************************)
CONSTANTS Ids, Clients, Cards

VARIABLES table,    \* live card id -> its contents
          screen    \* client -> {<<id, contents>>} of the card it has open, or {}

vars == <<table, screen>>

Live == DOMAIN table
Sees(p, id) == screen[p] = {<<id, table[id]>>}
Leave(p) == screen' = [screen EXCEPT ![p] = {}]

Init ==
    /\ table = [id \in {} |-> id]
    /\ screen = [p \in Clients |-> {}]

Show(p, id) ==
    /\ screen' = [screen EXCEPT ![p] = {<<id, table[id]>>}]
    /\ UNCHANGED table

Clear(p) ==
    /\ Leave(p)
    /\ UNCHANGED table

Add(id, card) ==
    /\ id \notin Live
    /\ table' = [i \in Live \cup {id} |-> IF i = id THEN card ELSE table[i]]
    /\ UNCHANGED screen

Change(p, id, card) ==
    /\ Sees(p, id)
    /\ table' = [table EXCEPT ![id] = card]
    /\ Leave(p)

Remove(p, id) ==
    /\ Sees(p, id)
    /\ table' = [i \in Live \ {id} |-> table[i]]
    /\ Leave(p)

Next ==
    \/ \E id \in Ids, card \in Cards : Add(id, card)
    \/ \E p \in Clients :
         \/ Clear(p)
         \/ \E id \in Live : Show(p, id) \/ Remove(p, id)
         \/ \E id \in Live, card \in Cards : Change(p, id, card)

Spec == Init /\ [][Next]_vars
=============================================================================

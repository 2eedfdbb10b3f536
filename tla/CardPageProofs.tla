--------------------------- MODULE CardPageProofs ---------------------------
(***************************************************************************)
(* What is proved of CardPage, for a user who waits for the answer to a    *)
(* click and while the card that was clicked always loads: the types, and  *)
(* that what was typed for a card goes to that card.                       *)
(***************************************************************************)
EXTENDS CardPage, TLAPS

(***************************************************************************)
(* The inductive invariant.                                                *)
(***************************************************************************)
Slow(r) == r.kind \notin Background

\* An id on the page, in a relation or in a request is one that has been registered.
Seen(id) == id \in Ids => rows[id].st # "none"

PageKnown ==
    /\ Seen(cur) /\ Seen(panel.id) /\ Seen(modal.target)
    /\ \A id \in modal.found : Seen(id)
    /\ \A S \in cache : \A id \in S : Seen(id)

TiesKnown == \A t \in ties : Seen(t.from) /\ Seen(t.to)

RequestKnown(r) ==
    /\ r.kind # "post" \/ r.ans = "ok" => Seen(r.id)
    /\ r.kind = "untie" => Seen(r.home)
    /\ Seen(r.to)
    /\ \A id \in r.ids : Seen(id)

\* There is one view; the panel is up only with a card in it, and the one that was
\* loaded last.
ViewsOK ==
    /\ OnePanel
    /\ "detail" \in views => cur # None /\ panel.id # None /\ panel.ver = ver

\* While the dialog is open its source stays what it was, and is no target.
DialogOK ==
    modal.open => /\ screen = "app" /\ "detail" \in views
                  /\ cur # modal.target /\ cur \notin modal.found
                  /\ \A r \in wire : Slow(r) => r.kind = "tie"

\* A new card's form is filled for its own id, and no relation starts from that.
NewFormOK ==
    cur = None /\ "form" \in views /\ form.typed =>
        /\ form.id # None /\ form.home = form.id
        /\ \A t \in ties : t.from # form.id

\* When no card is being loaded, the panel and the form are those of the current card,
\* unless somebody has deleted that.
Settled ==
    Live(cur) /\ (\A r \in wire : r.kind # "detail") =>
        /\ "detail" \in views => panel.id = cur /\ ver <= rows[cur].ver
        /\ "form" \in views => form.fixed
        /\ "form" \in views /\ form.typed =>
               form.home = cur /\ (form.base = ver \/ ver < rows[cur].ver)

\* What is true of a request under way.
OfCurrent(r) ==
    r.kind \in {"detail", "edit", "put", "delete", "inget", "input", "tie"} => r.id = cur /\ cur # None

ReadOK(r) ==
    r.kind \in {"detail", "edit"} =>
        /\ r.kind = "detail" => r.ans # "lost"
        /\ r.kind = "edit" => "detail" \in views
        /\ r.ans = "no" => ~Live(cur)
        /\ r.ans = "ok" /\ Live(cur) =>
               r.ver <= rows[cur].ver /\ (r.kind = "edit" => panel.id = cur /\ ver <= r.ver)

WriteOK(r) ==
    /\ r.kind = "post" => /\ cur = None /\ r.id # None /\ r.home = r.id
                          /\ \A t \in ties : t.from # r.id
    /\ r.kind \in {"put", "delete", "inget", "input", "tie"} /\ Live(r.id) => r.home = r.id
    /\ r.kind = "delete" => "detail" \in views /\ r.base = r.ver
    /\ r.kind = "put" /\ Live(r.id) => r.base = r.ver \/ r.ver < rows[r.id].ver
    /\ r.kind = "tie" => r.to # None /\ r.to # r.id
    /\ r.kind = "untie" => r.home # None

WireOK ==
    /\ \A r, q \in wire : Slow(r) /\ Slow(q) => r = q
    /\ \A r \in wire : RequestKnown(r) /\ OfCurrent(r) /\ ReadOK(r) /\ WriteOK(r)

PageInv ==
    /\ PageKnown /\ TiesKnown
    /\ ViewsOK /\ DialogOK /\ NewFormOK /\ Settled /\ WireOK
    /\ HomeCards /\ TiesHome

(***************************************************************************)
(* Types.                                                                  *)
(***************************************************************************)
\* A request for a relation is about two cards.
Sound == {q \in Requests : q.kind = "tie" => q.id # None /\ q.to # None}
TypeInv == TypeOK /\ wire \subseteq Sound

\* A request as it is sent.
LEMMA Asked ==
    ASSUME NEW kind \in Kinds, NEW id \in IdsOrNone, NEW to \in IdsOrNone, NEW home \in IdsOrNone,
           NEW v \in Nat, NEW b \in Nat
    PROVE  /\ kind # "tie" =>
               /\ Ask(kind) \in Sound /\ About(kind, id) \in Sound
               /\ [About(kind, id) EXCEPT !.home = home] \in Sound
               /\ [About(kind, id) EXCEPT !.home = home, !.base = b, !.ver = v] \in Sound
               /\ [Ask(kind) EXCEPT !.id = id, !.to = to, !.home = home] \in Sound
           /\ id # None /\ to # None => [About(kind, id) EXCEPT !.to = to, !.home = home] \in Sound
BY DEF Ask, About, Sound, Requests, IdsOrNone

\* What the user does to the page keeps the types of the page.
PageTypes ==
    /\ cache \subseteq SUBSET Ids
    /\ cur \in IdsOrNone /\ ver \in Nat
    /\ views \subseteq Views /\ dock \in BOOLEAN
    /\ panel \in [id : IdsOrNone, ver : Nat, full : BOOLEAN, graph : IdsOrNone]
    /\ form \in [id : IdsOrNone, home : IdsOrNone, base : Nat, typed : BOOLEAN, fixed : BOOLEAN]
    /\ modal \in [open : BOOLEAN, found : SUBSET Ids, target : IdsOrNone]
ServerTypes == rows \in [Ids -> Rows] /\ ties \subseteq Ties /\ live \in BOOLEAN
LoginTypes  == screen \in {"login", "register", "pin", "app"} /\ schema \in BOOLEAN
RestTypes   == ServerTypes /\ LoginTypes /\ acts \in Nat /\ news \in Nat

LEMMA TypeParts == TypeInv <=> PageTypes /\ RestTypes /\ wire \subseteq Sound
BY DEF TypeInv, Sound, TypeOK, PageTypes, RestTypes, ServerTypes, LoginTypes

LEMMA ActTypes ==
    ASSUME TypeInv, Act, UNCHANGED screen
    PROVE  RestTypes'
BY DEF Act, TypeInv, TypeOK, RestTypes, ServerTypes, LoginTypes, server

LEMMA UserTypes ==
    ASSUME PageAssumption, TypeInv, User
    PROVE  TypeInv'
<1> USE DEF ActOnPage, ActInModal, ActOnDock
<1>1. PageTypes /\ RestTypes /\ wire \subseteq Sound /\ None \in IdsOrNone /\ Ids \subseteq IdsOrNone
  BY TypeParts DEF IdsOrNone
<1>2. ASSUME Act, UNCHANGED screen, PageTypes', wire' \subseteq Sound
      PROVE  TypeInv'
  <2>1. RestTypes'
    BY <1>2, ActTypes
  <2> QED BY <1>2, <2>1 DEF TypeInv, Sound, TypeOK, PageTypes, RestTypes, ServerTypes, LoginTypes
<1>3. ASSUME NEW q \in Sound, Act, UNCHANGED screen, UNCHANGED page, wire' = wire \cup {q}
      PROVE  TypeInv'
  <2>1. PageTypes'
    BY <1>1, <1>3 DEF PageTypes, page
  <2> QED BY <1>1, <1>2, <1>3, <2>1
<1>4. ASSUME NEW id \in IdsOrNone PROVE About("detail", id) \in Sound
  BY <1>1, Asked DEF Kinds
<1>5. CASE ToggleRegister
  BY <1>1, <1>5 DEF ToggleRegister, Act, TypeInv, TypeOK, page, server
<1>6. CASE SubmitLogin
  <2>1. Ask(screen) \in Sound
    BY <1>1, <1>6, Asked DEF SubmitLogin, Kinds
  <2> QED BY <1>3, <1>6, <2>1 DEF SubmitLogin
<1>7. CASE SubmitPin
  <2>1. Ask("pin") \in Sound
    BY <1>1, Asked DEF Kinds
  <2> QED BY <1>3, <1>7, <2>1 DEF SubmitPin
<1>8. CASE Logout
  <2>1. Ask("logout") \in Sound
    BY <1>1, Asked DEF Kinds
  <2> QED BY <1>3, <1>8, <2>1 DEF Logout
<1>9. CASE Filter
  <2>1. Ask("list") \in Sound
    BY <1>1, Asked DEF Kinds
  <2> QED BY <1>3, <1>9, <2>1 DEF Filter, Refreshed
<1>10. CASE New
  <2>1. PageTypes'
    BY <1>1, <1>10 DEF New, ShowMain, PageTypes, Views
  <2> QED BY <1>1, <1>2, <1>10, <2>1 DEF New
<1>11. CASE Edit
  <2>1. About("edit", cur) \in Sound
    BY <1>1, Asked DEF Kinds, PageTypes
  <2> QED BY <1>3, <1>11, <2>1 DEF Edit
<1>12. CASE Cancel
  <2>1. PageTypes'
    BY <1>1, <1>12 DEF Cancel, Show, PageTypes, Views
  <2>2. wire' \subseteq Sound
    BY <1>1, <1>4, <1>12 DEF Cancel, Show, PageTypes
  <2> QED BY <1>2, <1>12, <2>1, <2>2 DEF Cancel
<1>13. CASE Save
  <2> DEFINE k == IF cur # None THEN "put" ELSE "post"
             q == [About(k, SaveId) EXCEPT !.home = form.home, !.base = form.base, !.ver = ver]
  <2>1. /\ k \in Kinds /\ k # "tie" /\ SaveId \in IdsOrNone /\ form.home \in IdsOrNone /\ form.base \in Nat /\ ver \in Nat
    BY <1>1 DEF SaveId, PageTypes, Kinds
  <2> HIDE DEF k
  <2>2. q \in Sound
    BY <1>1, <2>1, Asked
  <2> HIDE DEF q
  <2> QED BY <1>3, <1>13, <2>2 DEF Save, q, k
<1>14. CASE Delete
  <2> DEFINE q == [About("delete", cur) EXCEPT !.home = panel.id, !.base = panel.ver, !.ver = ver]
  <2>1. "delete" \in Kinds /\ cur \in IdsOrNone /\ panel.id \in IdsOrNone /\ panel.ver \in Nat /\ ver \in Nat
    BY <1>1 DEF PageTypes, Kinds
  <2>2. q \in Sound
    BY <1>1, <2>1, Asked
  <2> HIDE DEF q
  <2> QED BY <1>3, <1>14, <2>2 DEF Delete, q
<1>15. CASE SaveInline
  <2> DEFINE q == [About("inget", cur) EXCEPT !.home = panel.id]
  <2>1. "inget" \in Kinds /\ cur \in IdsOrNone /\ panel.id \in IdsOrNone
    BY <1>1 DEF PageTypes, Kinds
  <2>2. q \in Sound
    BY <1>1, <2>1, Asked
  <2> HIDE DEF q
  <2> QED BY <1>3, <1>15, <2>2 DEF SaveInline, q
<1>16. CASE ToggleDock
  <2>1. PageTypes'
    BY <1>1, <1>16 DEF ToggleDock, Show, PageTypes
  <2>2. wire' \subseteq Sound
    BY <1>1, <1>4, <1>16 DEF ToggleDock, Show, PageTypes
  <2> QED BY <1>2, <1>16, <2>1, <2>2 DEF ToggleDock
<1>17. CASE CloseDock
  <2>1. PageTypes'
    BY <1>1, <1>17 DEF CloseDock, PageTypes
  <2> QED BY <1>1, <1>2, <1>17, <2>1 DEF CloseDock
<1>18. CASE CloseOther \/ \E v \in {"help", "story", "atom"} : OpenOther(v)
  <2>1. PageTypes'
    BY <1>1, <1>18 DEF CloseOther, OpenOther, ShowMain, PageTypes, Views
  <2> QED BY <1>1, <1>2, <1>18, <2>1 DEF CloseOther, OpenOther
<1>19. CASE OpenModal \/ CloseModal \/ \E id \in Ids : PickTarget(id)
  <2>1. modal' \in [open : BOOLEAN, found : SUBSET Ids, target : IdsOrNone]
    <3>1. CASE OpenModal
      BY <1>1, <3>1 DEF OpenModal
    <3>2. CASE CloseModal
      BY <1>1, <3>2 DEF CloseModal, PageTypes
    <3>3. ASSUME NEW id \in Ids, PickTarget(id)
          PROVE  modal' \in [open : BOOLEAN, found : SUBSET Ids, target : IdsOrNone]
      BY <1>1, <3>3 DEF PickTarget, PageTypes
    <3> QED BY <1>19, <3>1, <3>2, <3>3
  <2>2. /\ UNCHANGED <<cache, cur, ver, views, dock, panel, form, wire>>
        /\ Act /\ UNCHANGED screen
    BY <1>19 DEF OpenModal, CloseModal, PickTarget
  <2>3. PageTypes'
    BY <1>1, <2>1, <2>2 DEF PageTypes
  <2> QED BY <1>1, <1>2, <2>2, <2>3
<1>20. CASE Search
  <2>1. Ask("search") \in Sound
    BY <1>1, Asked DEF Kinds
  <2> QED BY <1>3, <1>20, <2>1 DEF Search
<1>21. CASE SaveTie
  <2> DEFINE q == [About("tie", cur) EXCEPT !.to = modal.target, !.home = panel.id]
  <2>1. /\ "tie" \in Kinds /\ cur \in IdsOrNone /\ panel.id \in IdsOrNone /\ modal.target \in IdsOrNone
        /\ cur # None /\ modal.target # None
    BY <1>1, <1>21 DEF PageTypes, Kinds, SaveTie
  <2>2. q \in Sound
    BY <1>1, <2>1, Asked
  <2> HIDE DEF q
  <2> QED BY <1>3, <1>21, <2>2 DEF SaveTie, q
<1>22. ASSUME NEW t \in ties, DeleteTie(t) PROVE TypeInv'
  <2> DEFINE q == [Ask("untie") EXCEPT !.id = t.from, !.to = t.to, !.home = panel.id]
  <2>1. "untie" \in Kinds /\ t.from \in IdsOrNone /\ panel.id \in IdsOrNone /\ t.to \in IdsOrNone
    BY <1>1 DEF PageTypes, Kinds, RestTypes, ServerTypes, Ties
  <2>2. q \in Sound
    BY <1>1, <2>1, Asked
  <2> HIDE DEF q
  <2> QED BY <1>3, <1>22, <2>2 DEF DeleteTie, q
<1>23. ASSUME NEW id \in Ids, ClickRow(id) \/ ClickChip(id) \/ ClickNode(id) \/ ClickAtom(id)
       PROVE  TypeInv'
  <2>1. /\ cur' = id /\ wire' = wire \cup {About("detail", id)} /\ views' \subseteq views
        /\ UNCHANGED <<cache, ver, dock, panel, form, modal>>
        /\ Act /\ UNCHANGED screen
    BY <1>23 DEF ClickRow, ClickChip, ClickNode, ClickAtom, Show
  <2>2. PageTypes'
    BY <1>1, <2>1 DEF PageTypes
  <2>3. wire' \subseteq Sound
    BY <1>1, <1>4, <2>1
  <2> QED BY <1>2, <2>1, <2>2, <2>3
<1>24. ASSUME NEW id \in Ids, Fill(id) PROVE TypeInv'
  <2>1. PageTypes'
    BY <1>1, <1>24 DEF Fill, PageTypes
  <2> QED BY <1>1, <1>2, <1>24, <2>1 DEF Fill
<1> QED
  BY <1>5, <1>6, <1>7, <1>8, <1>9, <1>10, <1>11, <1>12, <1>13, <1>14, <1>15, <1>16, <1>17, <1>18,
     <1>19, <1>20, <1>21, <1>22, <1>23, <1>24 DEF User

LEMMA ServerSteps ==
    ASSUME PageAssumption, TypeInv, NEW r \in wire, Serve(r) \/ Fail(r)
    PROVE  TypeInv'
<1>1. r \in Sound /\ PageTypes /\ RestTypes /\ wire \subseteq Sound
  BY TypeParts DEF TypeInv, Sound, TypeOK
<1>2. /\ \A x \in {"ok", "no", "lost"} : [r EXCEPT !.ans = x] \in Sound
      /\ \A S \in SUBSET Ids : [r EXCEPT !.ans = "ok", !.ids = S] \in Sound
      /\ \A v \in Nat : [r EXCEPT !.ans = "ok", !.ver = v] \in Sound
  BY <1>1 DEF Sound, Requests
<1>3. ASSUME NEW q \in Sound, wire' = (wire \ {r}) \cup {q}, ServerTypes',
             UNCHANGED <<login, page, acts, news>>
      PROVE  TypeInv'
  BY <1>1, <1>3 DEF TypeInv, Sound, TypeOK, ServerTypes, RestTypes, LoginTypes, PageTypes, login, page
<1>4. CASE Fail(r)
  <2>1. ServerTypes'
    BY <1>1, <1>4 DEF Fail, server, RestTypes, ServerTypes
  <2> QED BY <1>2, <1>3, <1>4, <2>1 DEF Fail
<1>5. ASSUME UNCHANGED <<login, page, acts, news>>, ServeAuth(r) PROVE TypeInv'
  <2>1. ServerTypes'
    BY <1>1, <1>5 DEF ServeAuth, RestTypes, ServerTypes
  <2>2. PICK x \in {"ok", "no"} : wire' = (wire \ {r}) \cup {[r EXCEPT !.ans = x]}
    BY <1>5 DEF ServeAuth, Served
  <2> QED BY <1>2, <1>3, <1>5, <2>1, <2>2
<1>6. ASSUME UNCHANGED <<login, page, acts, news>>, ServeRead(r) PROVE TypeInv'
  <2>1. ServerTypes'
    BY <1>1, <1>6 DEF ServeRead, RestTypes, ServerTypes, server
  <2>2. CASE r.kind \in {"schema", "reltypes", "list", "search"}
    <3>1. (IF r.kind \in {"list", "search"} THEN LiveIds ELSE {}) \in SUBSET Ids
      BY DEF LiveIds
    <3> QED BY <1>2, <1>3, <1>6, <2>1, <2>2, <3>1 DEF ServeRead, Served
  <2>3. CASE r.kind \in {"detail", "edit", "inget"}
    <3>1. Live(r.id) => rows[r.id].ver \in Nat
      BY <1>1 DEF Live, RestTypes, ServerTypes, Rows
    <3> QED BY <1>2, <1>3, <1>6, <2>1, <2>3, <3>1 DEF ServeRead, Served
  <2> QED BY <1>6, <2>2, <2>3 DEF ServeRead
<1>7. ASSUME UNCHANGED <<login, page, acts, news>>, ServeCard(r) PROVE TypeInv'
  <2>1. RowAfter(r) \in Rows
    BY <1>1 DEF RowAfter, Row, Rows, Sound, Requests, IdsOrNone
  <2>2. ServerTypes'
    BY <1>1, <1>7, <2>1 DEF ServeCard, RestTypes, ServerTypes
  <2> QED BY <1>2, <1>3, <1>7, <2>2 DEF ServeCard, Served
<1>8. ASSUME UNCHANGED <<login, page, acts, news>>, ServeTie(r)
      PROVE  TypeInv'
  <2>1. r.kind = "tie" => [from |-> r.id, to |-> r.to, home |-> r.home] \in Ties
    BY <1>1, <1>8 DEF Ties, Sound, Requests, IdsOrNone
  <2>2. ServerTypes'
    BY <1>1, <1>8, <2>1 DEF ServeTie, RestTypes, ServerTypes
  <2> QED BY <1>2, <1>3, <1>8, <2>2 DEF ServeTie, Served
<1> QED BY <1>4, <1>5, <1>6, <1>7, <1>8 DEF Serve

LEMMA AnswerTypes ==
    ASSUME PageAssumption, TypeInv, NEW r \in wire, Answer(r)
    PROVE  TypeInv'
<1> USE DEF Done, Served, Show
<1>1. /\ r \in Sound /\ PageTypes /\ RestTypes /\ wire \subseteq Sound
      /\ None \in IdsOrNone /\ Ids \subseteq IdsOrNone
  BY TypeParts DEF TypeInv, IdsOrNone
<1>2. /\ r.id \in IdsOrNone /\ r.home \in IdsOrNone /\ r.ver \in Nat /\ r.ids \in SUBSET Ids
      /\ r.kind \in Kinds
  BY <1>1 DEF Sound, Requests
<1>3. ASSUME LoginTypes', PageTypes', wire' \subseteq Sound, UNCHANGED <<server, acts, news>>
      PROVE  TypeInv'
  BY <1>1, <1>3 DEF TypeInv, TypeOK, Sound, PageTypes, RestTypes, ServerTypes, LoginTypes, server
<1>4. UNCHANGED <<server, acts, news>>
  BY DEF Answer
<1>5. /\ Ask("schema") \in Sound /\ Ask("reltypes") \in Sound /\ Ask("list") \in Sound
      /\ \A id \in IdsOrNone : About("detail", id) \in Sound
  <2>1. {"schema", "reltypes", "list", "detail"} \subseteq Kinds
    BY DEF Kinds
  <2> QED BY <1>1, <2>1, Asked
<1>6. \A W \in SUBSET Sound, C \in SUBSET SUBSET Ids : Refreshed(W, C) \subseteq Sound
  BY <1>5 DEF Refreshed
<1>7. CASE AnswerLogin(r) \/ AnswerRegister(r) \/ AnswerPin(r) \/ AnswerLogout(r)
  <2>1. LoginTypes' /\ wire' \subseteq Sound /\ UNCHANGED page
    BY <1>1, <1>5, <1>7 DEF AnswerLogin, AnswerRegister, AnswerPin, AnswerLogout, RestTypes, LoginTypes
  <2>2. PageTypes'
    BY <1>1, <2>1 DEF PageTypes, page
  <2> QED BY <1>3, <1>4, <2>1, <2>2
<1>8. CASE AnswerSchema(r)
  <2>1. PageTypes'
    BY <1>1, <1>8 DEF AnswerSchema, PageTypes
  <2>2. LoginTypes' /\ wire' \subseteq Sound
    BY <1>1, <1>5, <1>8 DEF AnswerSchema, RestTypes, LoginTypes
  <2> QED BY <1>3, <1>4, <2>1, <2>2
<1>9. CASE AnswerRelTypes(r)
  <2>1. PageTypes' /\ LoginTypes'
    BY <1>1, <1>9 DEF AnswerRelTypes, PageTypes, RestTypes, LoginTypes, page, login
  <2>2. wire' \subseteq Sound
    BY <1>1, <1>6, <1>9 DEF AnswerRelTypes, PageTypes
  <2> QED BY <1>3, <1>4, <2>1, <2>2
<1>10. ASSUME UNCHANGED login PROVE LoginTypes'
  BY <1>1, <1>10 DEF RestTypes, LoginTypes, login
<1>11. CASE AnswerList(r) \/ AnswerSearch(r) \/ AnswerDetail(r) \/ AnswerEdit(r)
  <2>1. wire' \subseteq Sound /\ UNCHANGED login
    BY <1>1, <1>11 DEF AnswerList, AnswerSearch, AnswerDetail, AnswerEdit
  <2>2. PageTypes'
    <3>1. CASE AnswerList(r)
      BY <1>1, <1>2, <3>1 DEF AnswerList, PageTypes
    <3>2. CASE AnswerSearch(r)
      BY <1>1, <1>2, <3>2 DEF AnswerSearch, PageTypes
    <3>3. CASE AnswerDetail(r)
      <4>1. schema \in BOOLEAN
        BY <1>1 DEF RestTypes, LoginTypes
      <4>2. CASE r.ans = "ok"
        <5> DEFINE g == IF dock THEN r.id ELSE panel.graph
        <5>1. g \in IdsOrNone
          BY <1>1, <1>2 DEF PageTypes
        <5>2. /\ panel' = [id |-> r.id, ver |-> r.ver, full |-> schema, graph |-> g]
              /\ ver' = r.ver /\ views' = {"detail"} /\ dock' = (dock /\ "detail" = "detail")
              /\ UNCHANGED <<cache, cur, form, modal>>
          BY <3>3, <4>2 DEF AnswerDetail, ShowMain
        <5> HIDE DEF g
        <5>3. panel' \in [id : IdsOrNone, ver : Nat, full : BOOLEAN, graph : IdsOrNone]
          BY <1>2, <4>1, <5>1, <5>2
        <5> QED BY <1>1, <1>2, <5>2, <5>3 DEF PageTypes, Views
      <4>3. CASE r.ans # "ok"
        BY <1>1, <3>3, <4>3 DEF AnswerDetail, PageTypes
      <4> QED BY <4>2, <4>3
    <3>4. CASE AnswerEdit(r)
      <4>1. schema \in BOOLEAN
        BY <1>1 DEF RestTypes, LoginTypes
      <4> QED BY <1>1, <1>2, <3>4, <4>1 DEF AnswerEdit, PageTypes, Views
    <3> QED BY <1>11, <3>1, <3>2, <3>3, <3>4
  <2> QED BY <1>3, <1>4, <1>10, <2>1, <2>2
<1>12. CASE AnswerSave(r)
  <2>1. PageTypes' /\ UNCHANGED login
    BY <1>1, <1>2, <1>12 DEF AnswerSave, PageTypes
  <2>2. wire' \subseteq Sound
    BY <1>1, <1>2, <1>5, <1>6, <1>12 DEF AnswerSave, PageTypes
  <2> QED BY <1>3, <1>4, <1>10, <2>1, <2>2
<1>13. CASE AnswerDelete(r)
  <2>1. PageTypes' /\ UNCHANGED login
    BY <1>1, <1>2, <1>13 DEF AnswerDelete, PageTypes, Views
  <2>2. wire' \subseteq Sound
    BY <1>1, <1>6, <1>13 DEF AnswerDelete, PageTypes
  <2> QED BY <1>3, <1>4, <1>10, <2>1, <2>2
<1>14. CASE AnswerInline(r)
  <2>1. PageTypes' /\ UNCHANGED login
    BY <1>1, <1>2, <1>14 DEF AnswerInline, PageTypes
  <2>2. [r EXCEPT !.kind = "input", !.ans = "none"] \in Sound
    BY <1>1 DEF Sound, Requests, Kinds
  <2>3. wire' \subseteq Sound
    BY <1>1, <1>2, <1>5, <1>6, <1>14, <2>2 DEF AnswerInline, PageTypes
  <2> QED BY <1>3, <1>4, <1>10, <2>1, <2>3
<1>15. CASE AnswerTie(r)
  <2>1. PageTypes' /\ UNCHANGED login
    BY <1>1, <1>2, <1>15 DEF AnswerTie, PageTypes
  <2>2. wire' \subseteq Sound
    BY <1>1, <1>2, <1>5, <1>15 DEF AnswerTie, PageTypes
  <2> QED BY <1>3, <1>4, <1>10, <2>1, <2>2
<1> QED BY <1>7, <1>8, <1>9, <1>11, <1>12, <1>13, <1>14, <1>15 DEF Answer

LEMMA NextTypes ==
    ASSUME PageAssumption, TypeInv, [Next]_vars
    PROVE  TypeInv'
<1>1. CASE Others
  <2>1. rows' \in [Ids -> Rows]
    <3>1. PICK id \in Ids :
              \/ rows' = [rows EXCEPT ![id] = Row(1, id)]
              \/ rows' = [rows EXCEPT ![id].ver = @ + 1]
              \/ rows' = [rows EXCEPT ![id] = [st |-> "gone", ver |-> 0, home |-> None]]
      BY <1>1 DEF Others
    <3>2. rows \in [Ids -> Rows] /\ Row(1, id) \in Rows
      BY DEF TypeInv, TypeOK, Row, Rows, IdsOrNone
    <3>3. [st |-> "gone", ver |-> 0, home |-> None] \in Rows
      BY DEF Rows, IdsOrNone
    <3>4. [rows[id] EXCEPT !.ver = @ + 1] \in Rows
      BY <3>2 DEF Rows
    <3> QED BY <3>1, <3>2, <3>3, <3>4
  <2> QED BY <1>1, <2>1 DEF Others, TypeInv, TypeOK, Sound, login, page
<1>2. CASE Restart
  BY <1>2 DEF Restart, TypeInv, TypeOK, Sound, login, page
<1>3. CASE UNCHANGED vars
  BY <1>3 DEF vars, TypeInv, TypeOK, Sound, server, login, page
<1> QED BY <1>1, <1>2, <1>3, UserTypes, ServerSteps, AnswerTypes DEF Next

LEMMA InitTypes == ASSUME PageAssumption, Init PROVE TypeInv
<1>1. rows \in [Ids -> Rows] /\ ties \subseteq Ties
  BY DEF Init, Row, Rows, IdsOrNone, Ties
<1>2. Ask("me") \in Sound
  BY Asked DEF Kinds, IdsOrNone
<1> QED BY <1>1, <1>2 DEF Init, TypeInv, TypeOK, Sound, IdsOrNone, Views

\* Whatever the server and the page hold and send keeps its type, for any number of cards,
\* whichever requests fail and however impatient the user is (app.js, entity/repository.go).
THEOREM CardTypes == Spec => []TypeOK
<1>1. Init => TypeInv
  BY InitTypes, PageAssumption
<1>2. TypeInv /\ [Next]_vars => TypeInv'
  BY NextTypes, PageAssumption
<1>3. TypeInv => TypeOK
  BY DEF TypeInv
<1> QED BY <1>1, <1>2, <1>3, PTL DEF Spec

(***************************************************************************)
(* What was typed for a card.  The user is patient, and the load of a card *)
(* that was clicked does not fail.                                         *)
(***************************************************************************)
CardInv == TypeInv /\ PageInv

\* Nothing the user would wait for is under way.
Calm == \A r \in wire : ~Slow(r)

\* A request that is asked in the background is about no card.
Aside(q) == ~Slow(q) /\ q.id = None /\ q.to = None /\ q.ids = {} /\ q.ans = "none"

LEMMA AskAside ==
    ASSUME NEW k \in Background
    PROVE  Aside(Ask(k))
BY DEF Aside, Ask, Slow

LEMMA AsideOK ==
    ASSUME PageAssumption, NEW q, Aside(q)
    PROVE  RequestKnown(q) /\ OfCurrent(q) /\ ReadOK(q) /\ WriteOK(q)
BY DEF PageAssumption, Aside, Slow, Background, RequestKnown, Seen, OfCurrent, ReadOK, WriteOK

\* The page's view of the current card stays, and so do the tables.
LEMMA StayOK ==
    ASSUME PageAssumption, CardInv, UNCHANGED <<rows, ties, cur, ver, views, panel>>,
           form'.id = form.id, form'.home = form.home, form'.base = form.base,
           form'.fixed = form.fixed, form'.typed => form.typed,
           PageKnown', DialogOK',
           \A q \in wire' : q \in wire \/ Aside(q),
           ~Live(cur) \/ \A q \in wire : q.kind = "detail" => q \in wire'
    PROVE  PageInv'
<1>1. TiesKnown' /\ ViewsOK' /\ HomeCards' /\ TiesHome'
  BY DEF CardInv, PageInv, TiesKnown, Seen, ViewsOK, OnePanel, HomeCards, TiesHome, Live
<1>2. NewFormOK'
  BY DEF CardInv, PageInv, NewFormOK
<1>3. Settled'
  BY DEF CardInv, PageInv, Settled, Live
<1>4. WireOK'
  <2>1. ASSUME NEW q \in wire'
        PROVE  RequestKnown(q) /\ OfCurrent(q) /\ ReadOK(q) /\ WriteOK(q)
    BY <2>1, AsideOK DEF CardInv, PageInv, WireOK
  <2>2. ASSUME NEW q \in wire'
        PROVE  (RequestKnown(q) /\ OfCurrent(q) /\ ReadOK(q) /\ WriteOK(q))'
    BY <2>1, <2>2 DEF RequestKnown, Seen, OfCurrent, ReadOK, WriteOK, Live
  <2>3. \A q, x \in wire' : Slow(q) /\ Slow(x) => q = x
    BY DEF CardInv, PageInv, WireOK, Aside
  <2> QED BY <2>2, <2>3 DEF WireOK
<1> QED BY <1>1, <1>2, <1>3, <1>4 DEF PageInv

\* A request the user waits for is sent.
LEMMA SendOK ==
    ASSUME PageAssumption, CardInv, Calm, UNCHANGED <<rows, ties, screen, page>>,
           NEW q, wire' = wire \cup {q}, q.kind # "detail",
           RequestKnown(q), OfCurrent(q), ReadOK(q), WriteOK(q),
           modal.open => q.kind = "tie"
    PROVE  PageInv'
<1>1. PageKnown' /\ TiesKnown' /\ ViewsOK' /\ NewFormOK' /\ HomeCards' /\ TiesHome'
  BY DEF CardInv, PageInv, page, PageKnown, TiesKnown, Seen, ViewsOK, OnePanel, HomeCards, TiesHome,
         Live, NewFormOK
<1>2. DialogOK' /\ Settled'
  BY DEF CardInv, PageInv, page, DialogOK, Settled, Live, Calm
<1>3. WireOK'
  <2>1. ASSUME NEW x \in wire'
        PROVE  (RequestKnown(x) /\ OfCurrent(x) /\ ReadOK(x) /\ WriteOK(x))'
    <3>1. RequestKnown(x) /\ OfCurrent(x) /\ ReadOK(x) /\ WriteOK(x)
      BY <2>1 DEF CardInv, PageInv, WireOK
    <3> QED BY <3>1 DEF page, RequestKnown, Seen, OfCurrent, ReadOK, WriteOK, Live
  <2>2. \A y, x \in wire' : Slow(y) /\ Slow(x) => y = x
    BY DEF Calm
  <2> QED BY <2>1, <2>2 DEF WireOK
<1> QED BY <1>1, <1>2, <1>3 DEF PageInv

\* A card is about to be shown.
LEMMA ShowOK ==
    ASSUME PageAssumption, CardInv, NEW id \in Ids, Seen(id),
           UNCHANGED <<rows, ties, ver, panel, form>>,
           modal'.target = modal.target, modal'.found = modal.found, ~modal'.open,
           cache' \subseteq cache, views' \subseteq views,
           cur' = id, About("detail", id) \in wire',
           \A q \in wire' : q = About("detail", id) \/ Aside(q) \/ (q \in wire /\ ~Slow(q))
    PROVE  PageInv'
<1> DEFINE d == About("detail", id)
<1>1. /\ d.kind = "detail" /\ d.id = id /\ d.to = None /\ d.home = None /\ d.ids = {} /\ d.ans = "none"
  BY DEF About, Ask
<1> HIDE DEF d
<1>2. None \notin Ids
  BY DEF PageAssumption
<1>3. PageKnown' /\ TiesKnown' /\ HomeCards' /\ TiesHome'
  BY DEF CardInv, PageInv, PageKnown, TiesKnown, Seen, HomeCards, TiesHome, Live
<1>4. ViewsOK' /\ DialogOK' /\ NewFormOK'
  BY <1>2 DEF CardInv, PageInv, ViewsOK, OnePanel, DialogOK, NewFormOK
<1>5. Settled'
  BY <1>1 DEF Settled, d
<1>6. WireOK'
  <2>1. (RequestKnown(d) /\ OfCurrent(d) /\ ReadOK(d) /\ WriteOK(d))'
    BY <1>1, <1>2 DEF RequestKnown, Seen, OfCurrent, ReadOK, WriteOK
  <2>2. ASSUME NEW x \in wire', x # d
        PROVE  ~Slow(x) /\ (RequestKnown(x) /\ OfCurrent(x) /\ ReadOK(x) /\ WriteOK(x))'
    <3>1. ~Slow(x) /\ (Aside(x) \/ x \in wire)
      BY <2>2 DEF Aside, d
    <3>2. RequestKnown(x)
      BY <3>1, AsideOK DEF CardInv, PageInv, WireOK
    <3>3. RequestKnown(x)'
      BY <3>2 DEF RequestKnown, Seen
    <3>4. (OfCurrent(x) /\ ReadOK(x) /\ WriteOK(x))'
      BY <3>1 DEF Slow, Background, OfCurrent, ReadOK, WriteOK
    <3> QED BY <3>1, <3>3, <3>4
  <2> QED BY <2>1, <2>2 DEF WireOK
<1> QED BY <1>3, <1>4, <1>5, <1>6 DEF PageInv

\* Another view is shown, without the panel or a form that could be saved.
LEMMA OtherViewOK ==
    ASSUME PageAssumption, CardInv, ~modal.open, UNCHANGED <<rows, ties, cur, ver, panel, cache, modal>>,
           OnePanel', "detail" \notin views', "form" \notin views' \/ (cur = None /\ ~form'.typed),
           Calm, UNCHANGED wire
    PROVE  PageInv'
<1>1. PageKnown' /\ TiesKnown' /\ HomeCards' /\ TiesHome'
  BY DEF CardInv, PageInv, PageKnown, TiesKnown, Seen, HomeCards, TiesHome, Live
<1>2. ViewsOK' /\ DialogOK' /\ NewFormOK' /\ Settled'
  BY DEF CardInv, PageInv, ViewsOK, DialogOK, NewFormOK, Settled, PageAssumption, Live
<1>3. WireOK'
  <2>1. ASSUME NEW x \in wire'
        PROVE  (RequestKnown(x) /\ OfCurrent(x) /\ ReadOK(x) /\ WriteOK(x))'
    <3>1. RequestKnown(x) /\ ~Slow(x)
      BY <2>1 DEF CardInv, PageInv, WireOK, Calm
    <3>2. RequestKnown(x)'
      BY <3>1 DEF RequestKnown, Seen
    <3>3. (OfCurrent(x) /\ ReadOK(x) /\ WriteOK(x))'
      BY <3>1 DEF Slow, Background, OfCurrent, ReadOK, WriteOK
    <3> QED BY <3>2, <3>3
  <2>2. \A y, x \in wire' : Slow(y) /\ Slow(x) => y = x
    BY DEF Calm
  <2> QED BY <2>1, <2>2 DEF WireOK
<1> QED BY <1>1, <1>2, <1>3 DEF PageInv

\* What the patient user does.
LEMMA UserOK ==
    ASSUME PageAssumption, Patient, CardInv, User
    PROVE  PageInv'
<1> USE DEF ActOnPage, ActInModal
<1>1. /\ TypeInv /\ PageKnown /\ TiesKnown /\ ViewsOK /\ DialogOK /\ NewFormOK /\ Settled /\ WireOK
      /\ None \notin Ids
  BY DEF CardInv, PageInv, PageAssumption
<1>2. ASSUME Act PROVE Calm /\ UNCHANGED <<rows, ties>>
  BY <1>2 DEF Act, Calm, Slow, server
<1>3. Calm => \A r \in wire : r.kind # "detail"
  BY DEF Calm, Slow, Background
<1>4. ASSUME UNCHANGED page, UNCHANGED rows PROVE PageKnown'
  BY <1>1, <1>4 DEF page, PageKnown, Seen
<1>S. ASSUME NEW id \in Ids, Seen(id), Act, ~modal.open, cur' = id, views' \subseteq views,
              wire' = wire \cup {About("detail", id)}, UNCHANGED <<cache, ver, panel, form, modal>>
       PROVE  PageInv'
  <2> DEFINE d == About("detail", id)
  <2>0. wire' = wire \cup {d}
    BY <1>S
  <2> HIDE DEF d
  <2>1. d \in wire' /\ \A q \in wire' : q = d \/ (q \in wire /\ ~Slow(q))
    BY <1>2, <1>S, <2>0 DEF Calm
  <2>2. d \in wire' /\ \A q \in wire' : q = d \/ Aside(q) \/ (q \in wire /\ ~Slow(q))
    BY <2>1
  <2>3. /\ UNCHANGED <<rows, ties, ver, panel, form>> /\ modal' = modal /\ cache' = cache
    BY <1>2, <1>S
  <2>4. /\ modal'.target = modal.target /\ modal'.found = modal.found /\ ~modal'.open
        /\ cache' \subseteq cache
    BY <1>S, <2>3
  <2> QED BY <1>S, <2>2, <2>3, <2>4, ShowOK DEF d
<1>V. ASSUME Act, ~modal.open, UNCHANGED <<cur, ver, panel, cache, modal, wire>>,
              OnePanel', "detail" \notin views', "form" \notin views'
       PROVE  PageInv'
  <2>1. Calm /\ UNCHANGED <<rows, ties>>
    BY <1>2, <1>V
  <2>2. UNCHANGED <<rows, ties, cur, ver, panel, cache, modal>> /\ UNCHANGED wire
    BY <1>V, <2>1
  <2>3. "form" \notin views' \/ (cur = None /\ ~form'.typed)
    BY <1>V
  <2> QED BY <1>V, <2>1, <2>2, <2>3, OtherViewOK
<1>5. CASE ToggleRegister
  <2>1. PageKnown' /\ DialogOK'
    BY <1>1, <1>2, <1>4, <1>5 DEF ToggleRegister, DialogOK, page
  <2> QED BY <1>2, <1>5, <2>1, StayOK DEF ToggleRegister, page
<1>6. CASE SubmitLogin \/ SubmitPin \/ Logout
  <2>1. PICK k \in {"login", "register", "pin", "logout"} :
           /\ Act /\ UNCHANGED screen /\ UNCHANGED page /\ wire' = wire \cup {Ask(k)} /\ ~modal.open
    BY <1>1, <1>6 DEF SubmitLogin, SubmitPin, Logout, DialogOK
  <2> DEFINE q == Ask(k)
  <2>2. q.kind = k /\ q.id = None /\ q.to = None /\ q.ids = {} /\ q.ans = "none"
    BY DEF Ask
  <2> HIDE DEF q
  <2>3. RequestKnown(q) /\ OfCurrent(q) /\ ReadOK(q) /\ WriteOK(q)
    BY <1>1, <2>2 DEF RequestKnown, Seen, OfCurrent, ReadOK, WriteOK
  <2>4. wire' = wire \cup {q}
    BY <2>1 DEF q
  <2>5. q.kind # "detail"
    BY <2>2
  <2> QED BY <1>2, <2>1, <2>3, <2>4, <2>5, SendOK
<1>7. CASE Filter \/ Search
  <2>1. PICK k \in {"list", "search"} :
           Act /\ UNCHANGED screen /\ UNCHANGED page /\ wire' = wire \cup {Ask(k)}
    BY <1>7 DEF Filter, Search, Refreshed
  <2>2. Aside(Ask(k))
    BY AskAside DEF Background
  <2>3. PageKnown' /\ DialogOK'
    BY <1>1, <1>2, <1>4, <2>1, <2>2 DEF DialogOK, Aside, page
  <2> QED BY <1>2, <2>1, <2>2, <2>3, StayOK DEF page
<1>8. ASSUME NEW id \in Ids, ClickRow(id) \/ ClickChip(id) \/ ClickNode(id) \/ ClickAtom(id)
      PROVE  PageInv'
  <2>1. /\ cur' = id /\ wire' = wire \cup {About("detail", id)} /\ views' \subseteq views
        /\ UNCHANGED <<cache, ver, panel, form, modal>> /\ Act /\ ~modal.open
    BY <1>8 DEF ClickRow, ClickChip, ClickNode, ClickAtom, Show, ActOnDock
  <2>2. Seen(id)
    BY <1>1, <1>8 DEF ClickRow, ClickChip, ClickNode, ClickAtom, Joined, PageKnown, TiesKnown, Seen
  <2> QED BY <1>S, <2>1, <2>2
<1>9. CASE New
  <2>1. /\ Calm /\ UNCHANGED <<rows, ties>> /\ ~modal.open
    BY <1>2, <1>9 DEF New
  <2>2. /\ cur' = None /\ views' = {"form"} /\ ~form'.typed
        /\ UNCHANGED <<cache, ver, panel, modal, wire>>
    BY <1>9 DEF New, ShowMain
  <2>3. PageKnown' /\ TiesKnown' /\ ViewsOK' /\ DialogOK' /\ NewFormOK' /\ Settled' /\ HomeCards' /\ TiesHome'
    BY <1>1, <2>1, <2>2 DEF CardInv, PageInv, PageKnown, TiesKnown, Seen, ViewsOK, OnePanel, DialogOK,
       NewFormOK, Settled, Live, HomeCards, TiesHome
  <2>4. WireOK'
    <3>1. ASSUME NEW x \in wire'
          PROVE  (RequestKnown(x) /\ OfCurrent(x) /\ ReadOK(x) /\ WriteOK(x))'
      <4>1. RequestKnown(x) /\ ~Slow(x)
        BY <1>1, <2>1, <2>2, <3>1 DEF WireOK, Calm
      <4>2. RequestKnown(x)'
        BY <2>1, <4>1 DEF RequestKnown, Seen
      <4>3. (OfCurrent(x) /\ ReadOK(x) /\ WriteOK(x))'
        BY <4>1 DEF Slow, Background, OfCurrent, ReadOK, WriteOK
      <4> QED BY <4>2, <4>3
    <3>2. \A y, x \in wire' : Slow(y) /\ Slow(x) => y = x
      BY <2>1, <2>2 DEF Calm
    <3> QED BY <3>1, <3>2 DEF WireOK
  <2> QED BY <2>3, <2>4 DEF PageInv
<1>10. ASSUME NEW id \in Ids, Fill(id) PROVE PageInv'
  <2>1. /\ Calm /\ UNCHANGED <<rows, ties>> /\ rows[id].st = "none" /\ "form" \in views /\ ~form.fixed
        /\ UNCHANGED <<screen, cache, cur, ver, views, panel, modal, wire>>
    BY <1>2, <1>10 DEF Fill
  <2>2. form'.id = id /\ form'.home = id
    BY <1>1, <1>10 DEF Fill, TypeInv, TypeOK
  <2>3. \A t \in ties : t.from # id
    BY <1>1, <2>1 DEF TiesKnown, Seen
  <2>4. ~Live(cur)
    BY <1>1, <1>3, <2>1 DEF Settled
  <2>5. PageKnown' /\ TiesKnown' /\ ViewsOK' /\ DialogOK' /\ HomeCards' /\ TiesHome'
    BY <1>1, <2>1 DEF CardInv, PageInv, PageKnown, TiesKnown, Seen, ViewsOK, OnePanel, DialogOK,
       Live, HomeCards, TiesHome
  <2>6. NewFormOK' /\ Settled'
    BY <1>1, <2>1, <2>2, <2>3, <2>4 DEF NewFormOK, Settled, Live
  <2>7. WireOK'
    BY <1>1, <2>1 DEF WireOK, RequestKnown, Seen, OfCurrent, ReadOK, WriteOK, Live
  <2> QED BY <2>5, <2>6, <2>7 DEF PageInv
<1>11. CASE Edit
  <2> DEFINE q == About("edit", cur)
  <2>1. q.kind = "edit" /\ q.id = cur /\ q.to = None /\ q.ids = {} /\ q.ans = "none"
    BY DEF About, Ask
  <2>2. Act /\ UNCHANGED screen /\ UNCHANGED page /\ wire' = wire \cup {q} /\ ~modal.open
        /\ "detail" \in views /\ cur # None
    BY <1>11 DEF Edit
  <2> HIDE DEF q
  <2>3. RequestKnown(q) /\ OfCurrent(q) /\ ReadOK(q) /\ WriteOK(q)
    BY <1>1, <2>1, <2>2 DEF RequestKnown, PageKnown, Seen, OfCurrent, ReadOK, WriteOK
  <2> QED BY <1>2, <2>1, <2>2, <2>3, SendOK
<1>12. CASE Cancel
  <2>1. Act /\ ~modal.open /\ "form" \in views
    BY <1>12 DEF Cancel
  <2>2. CASE cur # None
    <3>1. cur \in Ids /\ Seen(cur)
      BY <1>1, <2>2 DEF TypeInv, TypeOK, IdsOrNone, PageKnown
    <3>2. /\ cur' = cur /\ wire' = wire \cup {About("detail", cur)} /\ views' = views
          /\ UNCHANGED <<cache, ver, panel, form, modal>>
      BY <1>12, <2>2 DEF Cancel, Show
    <3> QED BY <1>S, <2>1, <3>1, <3>2
  <2>3. CASE cur = None
    <3>1. /\ views' = {"empty"}
      BY <1>1, <1>12, <2>1, <2>3 DEF Cancel, ViewsOK, OnePanel
    <3>2. UNCHANGED <<cur, wire, cache, ver, panel, form, modal>>
      BY <1>12, <2>3 DEF Cancel
    <3>3. OnePanel' /\ "detail" \notin views' /\ "form" \notin views'
      BY <3>1 DEF OnePanel
    <3> QED BY <1>V, <2>1, <3>2, <3>3
  <2> QED BY <2>2, <2>3
<1>13. CASE Save
  <2> DEFINE k == IF cur # None THEN "put" ELSE "post"
             q == [About(k, SaveId) EXCEPT !.home = form.home, !.base = form.base, !.ver = ver]
  <2>1. /\ q.kind = k /\ q.id = SaveId /\ q.to = None /\ q.ids = {} /\ q.ans = "none"
        /\ q.home = form.home /\ q.base = form.base /\ q.ver = ver
    BY DEF About, Ask
  <2>2. Act /\ UNCHANGED screen /\ UNCHANGED page /\ wire' = wire \cup {q} /\ ~modal.open
        /\ "form" \in views /\ SaveId # None /\ form.typed
    BY <1>13 DEF Save
  <2> HIDE DEF q
  <2>3. CASE cur # None
    <3>1. q.kind = "put" /\ q.id = cur
      BY <2>1, <2>3 DEF SaveId
    <3>2. RequestKnown(q) /\ OfCurrent(q) /\ ReadOK(q)
      BY <1>1, <2>1, <2>3, <3>1 DEF RequestKnown, PageKnown, Seen, OfCurrent, ReadOK
    <3>3. Live(cur) => form.home = cur /\ (form.base = ver \/ ver < rows[cur].ver)
      BY <1>1, <1>2, <1>3, <2>2 DEF Settled
    <3>4. WriteOK(q)
      BY <2>1, <3>1, <3>3 DEF WriteOK
    <3> QED BY <1>2, <2>2, <3>1, <3>2, <3>4, SendOK
  <2>4. CASE cur = None
    <3>1. q.kind = "post" /\ q.id = form.id
      BY <2>1, <2>4 DEF SaveId
    <3>2. RequestKnown(q) /\ OfCurrent(q) /\ ReadOK(q)
      BY <1>1, <2>1, <2>4, <3>1 DEF RequestKnown, Seen, OfCurrent, ReadOK
    <3>3. WriteOK(q)
      BY <1>1, <2>1, <2>2, <2>4, <3>1 DEF WriteOK, NewFormOK
    <3> QED BY <1>2, <2>2, <3>1, <3>2, <3>3, SendOK
  <2> QED BY <2>3, <2>4
<1>14. CASE Delete
  <2> DEFINE q == [About("delete", cur) EXCEPT !.home = panel.id, !.base = panel.ver, !.ver = ver]
  <2>1. /\ q.kind = "delete" /\ q.id = cur /\ q.to = None /\ q.ids = {} /\ q.ans = "none"
        /\ q.home = panel.id /\ q.base = panel.ver /\ q.ver = ver
    BY DEF About, Ask
  <2>2. Act /\ UNCHANGED screen /\ UNCHANGED page /\ wire' = wire \cup {q} /\ ~modal.open
        /\ "detail" \in views /\ cur # None
    BY <1>14 DEF Delete
  <2> HIDE DEF q
  <2>3. RequestKnown(q) /\ OfCurrent(q) /\ ReadOK(q)
    BY <1>1, <2>1, <2>2 DEF RequestKnown, PageKnown, Seen, OfCurrent, ReadOK
  <2>4. WriteOK(q)
    BY <1>1, <1>2, <1>3, <2>1, <2>2 DEF WriteOK, Settled, ViewsOK
  <2> QED BY <1>2, <2>1, <2>2, <2>3, <2>4, SendOK
<1>15. CASE SaveInline
  <2> DEFINE q == [About("inget", cur) EXCEPT !.home = panel.id]
  <2>1. /\ q.kind = "inget" /\ q.id = cur /\ q.to = None /\ q.ids = {} /\ q.ans = "none"
        /\ q.home = panel.id
    BY DEF About, Ask
  <2>2. Act /\ UNCHANGED screen /\ UNCHANGED page /\ wire' = wire \cup {q} /\ ~modal.open
        /\ "detail" \in views /\ cur # None
    BY <1>1, <1>15 DEF SaveInline, ViewsOK
  <2> HIDE DEF q
  <2>3. RequestKnown(q) /\ OfCurrent(q) /\ ReadOK(q)
    BY <1>1, <2>1, <2>2 DEF RequestKnown, PageKnown, Seen, OfCurrent, ReadOK
  <2>4. WriteOK(q)
    BY <1>1, <1>2, <1>3, <2>1, <2>2 DEF WriteOK, Settled, ViewsOK
  <2> QED BY <1>2, <2>1, <2>2, <2>3, <2>4, SendOK
<1>16. CASE ToggleDock
  <2>1. CASE UNCHANGED <<cur, wire>>
    <3>1. Act /\ UNCHANGED <<screen, cache, cur, ver, views, panel, form, modal, wire>>
      BY <1>16, <2>1 DEF ToggleDock
    <3>2. PageKnown' /\ DialogOK'
      BY <1>1, <1>2, <3>1 DEF PageKnown, Seen, DialogOK
    <3> QED BY <1>2, <3>1, <3>2, StayOK
  <2>2. CASE ~UNCHANGED <<cur, wire>>
    <3>1. /\ cur # None /\ cur' = cur /\ wire' = wire \cup {About("detail", cur)}
          /\ UNCHANGED <<cache, ver, views, panel, form, modal>> /\ Act /\ ~modal.open
      BY <1>16, <2>2 DEF ToggleDock, Show
    <3>2. cur \in Ids /\ Seen(cur)
      BY <1>1, <3>1 DEF TypeInv, TypeOK, IdsOrNone, PageKnown
    <3> QED BY <1>S, <3>1, <3>2
  <2> QED BY <2>1, <2>2
<1>17. CASE CloseDock
  <2>1. Act /\ UNCHANGED <<screen, cache, cur, ver, views, panel, form, modal, wire>>
    BY <1>17 DEF CloseDock, ActOnDock
  <2>2. PageKnown' /\ DialogOK'
    BY <1>1, <1>2, <2>1 DEF PageKnown, Seen, DialogOK
  <2> QED BY <1>2, <2>1, <2>2, StayOK
<1>18. CASE CloseOther \/ \E v \in {"help", "story", "atom"} : OpenOther(v)
  <2>1. PICK v \in {"empty", "help", "story", "atom"} :
          views' = {v} /\ Act /\ ~modal.open /\ UNCHANGED <<cache, cur, ver, panel, form, modal, wire>>
    BY <1>18 DEF CloseOther, OpenOther, ShowMain
  <2>2. OnePanel' /\ "detail" \notin views' /\ "form" \notin views'
    BY <2>1 DEF OnePanel
  <2> QED BY <1>V, <2>1, <2>2
<1>19. CASE OpenModal
  <2>1. /\ Act /\ UNCHANGED <<screen, cache, cur, ver, views, panel, form, wire>>
        /\ screen = "app" /\ "detail" \in views /\ cur # None
        /\ modal'.found = {} /\ modal'.target = None
    BY <1>19 DEF OpenModal
  <2>2. PageKnown' /\ DialogOK'
    BY <1>1, <1>2, <2>1 DEF PageKnown, Seen, DialogOK, Calm
  <2> QED BY <1>2, <2>1, <2>2, StayOK
<1>20. ASSUME NEW id \in Ids, PickTarget(id) PROVE PageInv'
  <2>1. /\ Act /\ UNCHANGED <<screen, cache, cur, ver, views, panel, form, wire>>
        /\ modal.open /\ id \in modal.found
        /\ modal'.found = modal.found /\ modal'.target = id
    BY <1>1, <1>20 DEF PickTarget, TypeInv, TypeOK
  <2>2. PageKnown' /\ DialogOK'
    BY <1>1, <1>2, <2>1 DEF PageKnown, Seen, DialogOK
  <2> QED BY <1>2, <2>1, <2>2, StayOK
<1>21. CASE CloseModal
  <2>1. /\ Act /\ UNCHANGED <<screen, cache, cur, ver, views, panel, form, wire>>
        /\ modal'.found = modal.found /\ modal'.target = modal.target /\ ~modal'.open
    BY <1>1, <1>21 DEF CloseModal, TypeInv, TypeOK
  <2>2. PageKnown' /\ DialogOK'
    BY <1>1, <1>2, <2>1 DEF PageKnown, Seen, DialogOK
  <2> QED BY <1>2, <2>1, <2>2, StayOK
<1>22. CASE SaveTie
  <2> DEFINE q == [About("tie", cur) EXCEPT !.to = modal.target, !.home = panel.id]
  <2>1. /\ q.kind = "tie" /\ q.id = cur /\ q.to = modal.target /\ q.ids = {} /\ q.ans = "none"
        /\ q.home = panel.id
    BY DEF About, Ask
  <2>2. Act /\ UNCHANGED screen /\ UNCHANGED page /\ wire' = wire \cup {q} /\ modal.open
        /\ cur # None /\ modal.target # None
    BY <1>22 DEF SaveTie
  <2> HIDE DEF q
  <2>3. RequestKnown(q) /\ OfCurrent(q) /\ ReadOK(q)
    BY <1>1, <2>1, <2>2 DEF RequestKnown, PageKnown, Seen, OfCurrent, ReadOK
  <2>4. WriteOK(q)
    BY <1>1, <1>2, <1>3, <2>1, <2>2 DEF WriteOK, Settled, DialogOK
  <2> QED BY <1>2, <2>1, <2>2, <2>3, <2>4, SendOK
<1>23. ASSUME NEW t \in ties, DeleteTie(t) PROVE PageInv'
  <2> DEFINE q == [Ask("untie") EXCEPT !.id = t.from, !.to = t.to, !.home = panel.id]
  <2>1. /\ q.kind = "untie" /\ q.id = t.from /\ q.to = t.to /\ q.ids = {} /\ q.ans = "none"
        /\ q.home = panel.id
    BY DEF Ask
  <2>2. Act /\ UNCHANGED screen /\ UNCHANGED page /\ wire' = wire \cup {q} /\ ~modal.open
        /\ "detail" \in views
    BY <1>23 DEF DeleteTie
  <2> HIDE DEF q
  <2>3. RequestKnown(q) /\ OfCurrent(q) /\ ReadOK(q) /\ WriteOK(q)
    BY <1>1, <2>1, <2>2
       DEF RequestKnown, PageKnown, TiesKnown, Seen, OfCurrent, ReadOK, WriteOK, ViewsOK
  <2> QED BY <1>2, <2>1, <2>2, <2>3, SendOK
<1> QED
  BY <1>5, <1>6, <1>7, <1>8, <1>9, <1>10, <1>11, <1>12, <1>13, <1>14, <1>15, <1>16, <1>17, <1>18,
     <1>19, <1>20, <1>21, <1>22, <1>23 DEF User

(***************************************************************************)
(* The server, the network and the others.                                 *)
(***************************************************************************)
\* A request takes the place of another of its kind.
LEMMA Replaced ==
    ASSUME CardInv, UNCHANGED <<screen, page>>, NEW r \in wire, NEW q, q.kind = r.kind,
           wire' = (wire \ {r}) \cup {q}
    PROVE  /\ \A x, y \in wire' : Slow(x) /\ Slow(y) => x = y
           /\ DialogOK'
           /\ (\E x \in wire : x.kind = "detail") => \E x \in wire' : x.kind = "detail"
<1>1. \A x, y \in wire' : Slow(x) /\ Slow(y) => x = y
  BY DEF CardInv, PageInv, WireOK, Slow
<1>2. DialogOK'
  BY DEF CardInv, PageInv, DialogOK, Slow, page
<1> QED BY <1>1, <1>2

\* Rows change and go, and new ones come, while the page is as it was.
LEMMA GrowOK ==
    ASSUME PageAssumption, CardInv, TypeInv', UNCHANGED <<ties, page>>,
           \A id \in Ids : rows[id].st # "none" =>
               /\ rows'[id].st # "none"
               /\ rows'[id].st = "live" => rows[id].st = "live" /\ rows[id].ver <= rows'[id].ver,
           HomeCards', DialogOK',
           \A x, y \in wire' : Slow(x) /\ Slow(y) => x = y,
           \A x \in wire' : \/ x \in wire
                            \/ (RequestKnown(x) /\ OfCurrent(x) /\ ReadOK(x) /\ WriteOK(x))',
           (\E x \in wire : x.kind = "detail") => \E x \in wire' : x.kind = "detail"
    PROVE  PageInv'
<1>1. /\ PageKnown /\ TiesKnown /\ ViewsOK /\ NewFormOK /\ Settled /\ WireOK /\ TiesHome
      /\ UNCHANGED <<cache, cur, ver, views, panel, form, modal>> /\ None \notin Ids
  BY DEF CardInv, PageInv, page, PageAssumption
<1>2. \A id : Seen(id) => Seen(id)'
  BY DEF Seen
<1>3. \A id : Seen(id) /\ Live(id)' => Live(id) /\ rows[id].ver <= rows'[id].ver
  BY DEF Seen, Live
<1>4. \A id \in Ids : rows[id].ver \in Nat /\ rows'[id].ver \in Nat
  BY DEF CardInv, TypeInv, TypeOK, Rows
<1>5. ver \in Nat /\ \A r \in wire : r.ver \in Nat
  BY DEF CardInv, TypeInv, TypeOK, Sound, Requests
<1>6. PageKnown' /\ TiesKnown'
  BY <1>1, <1>2 DEF PageKnown, TiesKnown
<1>7. ViewsOK' /\ NewFormOK'
  BY <1>1 DEF ViewsOK, OnePanel, NewFormOK
<1>8. Settled'
  <2>1. SUFFICES ASSUME Live(cur)', \A r \in wire' : r.kind # "detail"
                 PROVE  /\ "detail" \in views => panel.id = cur /\ ver <= rows'[cur].ver
                        /\ "form" \in views => form.fixed
                        /\ "form" \in views /\ form.typed =>
                               form.home = cur /\ (form.base = ver \/ ver < rows'[cur].ver)
    BY <1>1 DEF Settled
  <2>2. Live(cur) /\ rows[cur].ver <= rows'[cur].ver /\ cur \in Ids
    BY <1>1, <1>3, <2>1 DEF PageKnown, Live
  <2>3. /\ "detail" \in views => panel.id = cur /\ ver <= rows[cur].ver
        /\ "form" \in views => form.fixed
        /\ "form" \in views /\ form.typed => form.home = cur /\ (form.base = ver \/ ver < rows[cur].ver)
    BY <1>1, <2>1, <2>2 DEF Settled
  <2> QED BY <1>4, <1>5, <2>2, <2>3
<1>9. TiesHome'
  BY <1>1, <1>3 DEF TiesHome, TiesKnown
<1>10. WireOK'
  <2>1. ASSUME NEW x \in wire PROVE (RequestKnown(x) /\ OfCurrent(x) /\ ReadOK(x) /\ WriteOK(x))'
    <3>1. RequestKnown(x) /\ OfCurrent(x) /\ ReadOK(x) /\ WriteOK(x)
      BY <1>1 DEF WireOK
    <3>2. RequestKnown(x)' /\ OfCurrent(x)'
      BY <1>1, <1>2, <3>1 DEF RequestKnown, OfCurrent
    <3>3. ReadOK(x)'
      <4>1. Live(cur)' => Live(cur) /\ rows[cur].ver <= rows'[cur].ver /\ cur \in Ids
        BY <1>1, <1>3 DEF PageKnown, Live
      <4> QED BY <1>1, <1>4, <1>5, <3>1, <4>1 DEF ReadOK
    <3>4. WriteOK(x)'
      <4>1. x.kind # "post" /\ Live(x.id)' => Live(x.id) /\ rows[x.id].ver <= rows'[x.id].ver /\ x.id \in Ids
        BY <1>3, <3>1 DEF RequestKnown, Live
      <4> QED BY <1>1, <1>4, <1>5, <3>1, <4>1 DEF WriteOK
    <3> QED BY <3>2, <3>3, <3>4
  <2>2. \A x \in wire' : (RequestKnown(x) /\ OfCurrent(x) /\ ReadOK(x) /\ WriteOK(x))'
    BY <2>1
  <2> QED BY <2>2 DEF WireOK
<1> QED BY <1>6, <1>7, <1>8, <1>9, <1>10 DEF PageInv

LEMMA OthersOK ==
    ASSUME PageAssumption, CardInv, TypeInv', Others \/ Restart
    PROVE  PageInv'
<1>1. rows \in [Ids -> Rows]
  BY DEF CardInv, TypeInv, TypeOK
<1>2. \A id \in Ids : rows[id].ver \in Nat
  BY <1>1 DEF Rows
<1>3. UNCHANGED <<ties, page, screen, wire>>
  BY DEF Others, Restart, login
<1>4. CASE Restart
  <2>1. UNCHANGED rows
    BY <1>4 DEF Restart
  <2>2. HomeCards' /\ DialogOK'
    BY <1>3, <2>1 DEF CardInv, PageInv, HomeCards, Live, DialogOK, page
  <2> QED BY <1>2, <1>3, <2>1, <2>2, GrowOK DEF CardInv, PageInv, WireOK
<1>5. CASE Others
  <2>1. PICK id \in Ids :
            \/ rows[id].st = "none" /\ rows' = [rows EXCEPT ![id] = Row(1, id)]
            \/ Live(id) /\ rows' = [rows EXCEPT ![id].ver = @ + 1]
            \/ Live(id) /\ rows' = [rows EXCEPT ![id] = [st |-> "gone", ver |-> 0, home |-> None]]
    BY <1>5 DEF Others
  <2>2. \A x \in Ids : rows[x].st # "none" =>
               /\ rows'[x].st # "none"
               /\ rows'[x].st = "live" => rows[x].st = "live" /\ rows[x].ver <= rows'[x].ver
    BY <1>1, <1>2, <2>1 DEF Live, Rows
  <2>3. \A x \in Ids : rows'[x].st = "live" => rows'[x].home = x
    <3>1. \A x \in Ids : rows[x].st = "live" => rows[x].home = x
      BY DEF CardInv, PageInv, HomeCards, Live
    <3> QED BY <1>1, <2>1, <3>1 DEF Row, Rows, Live
  <2>4. HomeCards' /\ DialogOK'
    BY <1>3, <2>3 DEF CardInv, PageInv, HomeCards, Live, DialogOK, page
  <2> QED BY <1>3, <2>2, <2>4, GrowOK DEF CardInv, PageInv, WireOK
<1> QED BY <1>4, <1>5

LEMMA ServeOK ==
    ASSUME PageAssumption, "detail" \notin Fallible, CardInv, TypeInv',
           NEW r \in wire, Serve(r) \/ Fail(r)
    PROVE  PageInv'
<1>1. /\ r \in Requests /\ rows \in [Ids -> Rows] /\ None \notin Ids
      /\ RequestKnown(r) /\ OfCurrent(r) /\ ReadOK(r) /\ WriteOK(r)
      /\ PageKnown /\ TiesKnown /\ ViewsOK /\ DialogOK /\ NewFormOK /\ Settled /\ WireOK
      /\ HomeCards /\ TiesHome
  BY DEF CardInv, PageInv, TypeInv, TypeOK, WireOK, PageAssumption
<1>2. \A id \in Ids : rows[id].ver \in Nat
  BY <1>1 DEF Rows
<1>3. UNCHANGED <<screen, page>> /\ r.kind \in Kinds
  BY <1>1 DEF Serve, Fail, login, Requests
<1>5. ASSUME NEW q, q.kind = r.kind, wire' = (wire \ {r}) \cup {q}, UNCHANGED <<rows, ties>>,
             RequestKnown(q), OfCurrent(q), ReadOK(q), WriteOK(q)
      PROVE  PageInv'
  <2>1. /\ \A x, y \in wire' : Slow(x) /\ Slow(y) => x = y
        /\ DialogOK'
        /\ (\E x \in wire : x.kind = "detail") => \E x \in wire' : x.kind = "detail"
    BY <1>3, <1>5, Replaced
  <2>2. (RequestKnown(q) /\ OfCurrent(q) /\ ReadOK(q) /\ WriteOK(q))'
    BY <1>3, <1>5 DEF page, RequestKnown, Seen, OfCurrent, ReadOK, WriteOK, Live
  <2>3. HomeCards'
    BY <1>1, <1>5 DEF HomeCards, Live
  <2>4. \A x \in wire' : \/ x \in wire
                         \/ (RequestKnown(x) /\ OfCurrent(x) /\ ReadOK(x) /\ WriteOK(x))'
    BY <1>5, <2>2
  <2>5. \A id \in Ids : rows[id].st # "none" =>
               /\ rows'[id].st # "none"
               /\ rows'[id].st = "live" => rows[id].st = "live" /\ rows[id].ver <= rows'[id].ver
    BY <1>2, <1>5
  <2> QED BY <1>3, <1>5, <2>1, <2>3, <2>4, <2>5, GrowOK
<1>6. ASSUME NEW x \in {"ok", "no", "lost"}, x = "ok" => r.kind # "post",
             r.kind \in {"detail", "edit"} => x = "lost" /\ r.kind = "edit",
             wire' = (wire \ {r}) \cup {[r EXCEPT !.ans = x]}, UNCHANGED <<rows, ties>>
      PROVE  PageInv'
  <2> DEFINE q == [r EXCEPT !.ans = x]
  <2>1. /\ q.kind = r.kind /\ q.id = r.id /\ q.to = r.to /\ q.home = r.home /\ q.base = r.base
        /\ q.ans = x /\ q.ids = r.ids /\ q.ver = r.ver
    BY <1>1 DEF Requests
  <2>2. wire' = (wire \ {r}) \cup {q}
    BY <1>6
  <2> HIDE DEF q
  <2>3. RequestKnown(q) /\ OfCurrent(q) /\ ReadOK(q) /\ WriteOK(q)
    BY <1>1, <1>6, <2>1 DEF RequestKnown, OfCurrent, ReadOK, WriteOK
  <2> QED BY <1>5, <1>6, <2>1, <2>2, <2>3
<1>7. CASE Fail(r)
  <2>1. UNCHANGED <<rows, ties>> /\ r.kind # "detail" /\ wire' = (wire \ {r}) \cup {[r EXCEPT !.ans = "lost"]}
    BY <1>7 DEF Fail, server
  <2> QED BY <1>6, <2>1
<1>8. CASE ServeAuth(r)
  <2>1. PICK x \in {"ok", "no"} : wire' = (wire \ {r}) \cup {[r EXCEPT !.ans = x]}
    BY <1>8 DEF ServeAuth, Served
  <2>2. UNCHANGED <<rows, ties>> /\ r.kind \notin {"post", "detail", "edit"}
    BY <1>8 DEF ServeAuth
  <2> QED BY <1>6, <2>1, <2>2
<1>9. CASE ServeRead(r)
  <2>1. UNCHANGED <<rows, ties>>
    BY <1>9 DEF ServeRead, server
  <2>2. CASE r.kind \in {"schema", "reltypes", "list", "search"}
    <3> DEFINE S == IF r.kind \in {"list", "search"} THEN LiveIds ELSE {}
               q == [r EXCEPT !.ans = "ok", !.ids = S]
    <3>1. wire' = (wire \ {r}) \cup {q}
      BY <1>9, <2>2 DEF ServeRead, Served
    <3>2. S \subseteq LiveIds
      OBVIOUS
    <3>3. q.kind = r.kind /\ q.id = r.id /\ q.to = r.to /\ q.ids = S
      BY <1>1 DEF Requests
    <3> HIDE DEF q, S
    <3>4. RequestKnown(q) /\ OfCurrent(q) /\ ReadOK(q) /\ WriteOK(q)
      BY <1>1, <2>2, <3>2, <3>3
         DEF RequestKnown, OfCurrent, ReadOK, WriteOK, LiveIds, Live, Seen
    <3> QED BY <1>5, <2>1, <3>1, <3>3, <3>4
  <2>3. CASE r.kind \in {"detail", "edit", "inget"} /\ Live(r.id)
    <3> DEFINE q == [r EXCEPT !.ans = "ok", !.ver = rows[r.id].ver]
    <3>1. wire' = (wire \ {r}) \cup {q}
      BY <1>9, <2>3 DEF ServeRead, Served
    <3>2. /\ q.kind = r.kind /\ q.id = r.id /\ q.to = r.to /\ q.ids = r.ids /\ q.home = r.home
          /\ q.ans = "ok" /\ q.ver = rows[r.id].ver
      BY <1>1 DEF Requests
    <3> HIDE DEF q
    <3>3. RequestKnown(q) /\ OfCurrent(q) /\ WriteOK(q)
      BY <1>1, <2>3, <3>2 DEF RequestKnown, OfCurrent, WriteOK
    <3>4. ReadOK(q)
      <4>1. r.id = cur /\ rows[cur].ver \in Nat
        BY <1>1, <1>2, <2>3 DEF OfCurrent, Live
      <4>2. CASE r.kind = "edit"
        <5>1. "detail" \in views
          BY <1>1, <4>2 DEF ReadOK
        <5>2. \A x \in wire : x.kind # "detail"
          BY <1>1, <4>2 DEF WireOK, Slow, Background
        <5>3. panel.id = cur /\ ver <= rows[cur].ver
          BY <1>1, <2>3, <4>1, <5>1, <5>2 DEF Settled
        <5> QED BY <3>2, <4>1, <4>2, <5>1, <5>3 DEF ReadOK
      <4>3. CASE r.kind # "edit"
        BY <3>2, <4>1, <4>3 DEF ReadOK
      <4> QED BY <4>2, <4>3
    <3> QED BY <1>5, <2>1, <3>1, <3>2, <3>3, <3>4
  <2>4. CASE r.kind \in {"detail", "edit", "inget"} /\ ~Live(r.id)
    <3> DEFINE q == [r EXCEPT !.ans = "no"]
    <3>1. wire' = (wire \ {r}) \cup {q}
      BY <1>9, <2>4 DEF ServeRead, Served
    <3>2. /\ q.kind = r.kind /\ q.id = r.id /\ q.to = r.to /\ q.ids = r.ids /\ q.home = r.home
          /\ q.ans = "no"
      BY <1>1 DEF Requests
    <3> HIDE DEF q
    <3>3. RequestKnown(q) /\ OfCurrent(q) /\ ReadOK(q) /\ WriteOK(q)
      BY <1>1, <2>4, <3>2 DEF RequestKnown, OfCurrent, ReadOK, WriteOK
    <3> QED BY <1>5, <2>1, <3>1, <3>2, <3>3
  <2> QED BY <1>9, <2>2, <2>3, <2>4 DEF ServeRead
<1>10. CASE ServeCard(r)
  <2>1. UNCHANGED ties /\ r.kind \in {"put", "input", "delete", "post"}
    BY <1>10 DEF ServeCard
  <2>2. CASE ~Accepts(r)
    <3>1. wire' = (wire \ {r}) \cup {[r EXCEPT !.ans = "no"]} /\ UNCHANGED rows
      BY <1>10, <2>2 DEF ServeCard, Served
    <3> QED BY <1>6, <2>1, <3>1
  <2> DEFINE q == [r EXCEPT !.ans = "ok"]
  <2>3. /\ q.kind = r.kind /\ q.id = r.id /\ q.to = r.to /\ q.ids = r.ids /\ q.home = r.home
        /\ q.ans = "ok" /\ q.ver = r.ver /\ q.base = r.base
    BY <1>1 DEF Requests
  <2>4. Accepts(r) => wire' = (wire \ {r}) \cup {q} /\ rows' = [rows EXCEPT ![r.id] = RowAfter(r)]
    BY <1>10 DEF ServeCard, Served
  <2> HIDE DEF q
  <2>5. Accepts(r) =>
            /\ \A x, y \in wire' : Slow(x) /\ Slow(y) => x = y
            /\ DialogOK'
            /\ (\E x \in wire : x.kind = "detail") => \E x \in wire' : x.kind = "detail"
    BY <1>3, <2>3, <2>4, Replaced
  <2>6. CASE Accepts(r) /\ r.kind # "post"
    <3>1. Live(r.id) /\ r.ver = rows[r.id].ver /\ r.home = r.id /\ r.id \in Ids
      BY <1>1, <2>1, <2>6 DEF Accepts, Current, Live, WriteOK
    <3>2. /\ RowAfter(r).st \in {"live", "gone"}
          /\ RowAfter(r).st = "live" => RowAfter(r).home = r.id /\ RowAfter(r).ver = rows[r.id].ver + 1
      BY <2>1, <2>6, <3>1 DEF RowAfter, Row
    <3>3. /\ \A id \in Ids \ {r.id} : rows'[id] = rows[id]
          /\ rows'[r.id] = RowAfter(r)
      BY <1>1, <2>4, <2>6, <3>1
    <3>4. \A id \in Ids : rows[id].st # "none" =>
               /\ rows'[id].st # "none"
               /\ rows'[id].st = "live" => rows[id].st = "live" /\ rows[id].ver <= rows'[id].ver
      BY <1>2, <3>1, <3>2, <3>3 DEF Live
    <3>5. HomeCards'
      BY <1>1, <3>2, <3>3 DEF HomeCards, Live
    <3>6. (RequestKnown(q) /\ OfCurrent(q) /\ ReadOK(q) /\ WriteOK(q))'
      <4>1. RequestKnown(q)' /\ OfCurrent(q)' /\ ReadOK(q)'
        BY <1>1, <1>3, <2>1, <2>3, <2>6, <3>4 DEF page, RequestKnown, Seen, OfCurrent, ReadOK
      <4>2. WriteOK(q)'
        BY <1>1, <1>2, <1>3, <2>1, <2>3, <2>6, <3>1, <3>2, <3>3 DEF page, WriteOK, Live
      <4> QED BY <4>1, <4>2
    <3>7. \A x \in wire' : \/ x \in wire
                           \/ (RequestKnown(x) /\ OfCurrent(x) /\ ReadOK(x) /\ WriteOK(x))'
      BY <2>4, <2>6, <3>6
    <3> QED BY <1>3, <2>1, <2>5, <2>6, <3>4, <3>5, <3>7, GrowOK
  <2>7. CASE Accepts(r) /\ r.kind = "post"
    <3>1. cur = None /\ r.id \in Ids /\ r.home = r.id /\ \A t \in ties : t.from # r.id
      BY <1>1, <2>7 DEF WriteOK, Requests, IdsOrNone
    <3>2. /\ \A id \in Ids \ {r.id} : rows'[id] = rows[id]
          /\ rows'[r.id] = Row(1, r.id)
      BY <1>1, <2>4, <2>7, <3>1 DEF RowAfter
    <3>3. UNCHANGED <<ties, cache, cur, ver, views, panel, form, modal>>
      BY <1>3, <2>1 DEF page
    <3>4. \A id : Seen(id) => Seen(id)'
      BY <3>2 DEF Seen, Row
    <3>5. PageKnown' /\ TiesKnown'
      BY <1>1, <3>3, <3>4 DEF PageKnown, TiesKnown
    <3>6. ViewsOK' /\ NewFormOK' /\ Settled'
      BY <1>1, <3>1, <3>3 DEF ViewsOK, OnePanel, NewFormOK, Settled, Live
    <3>7. HomeCards'
      BY <1>1, <3>2 DEF HomeCards, Live, Row
    <3>8. TiesHome'
      BY <1>1, <3>1, <3>2, <3>3 DEF TiesHome, Live
    <3>9. Seen(r.id)'
      BY <3>1, <3>2 DEF Seen, Row
    <3>10. (RequestKnown(q) /\ OfCurrent(q) /\ ReadOK(q) /\ WriteOK(q))'
      BY <1>1, <2>3, <2>7, <3>1, <3>3, <3>4, <3>9 DEF RequestKnown, OfCurrent, ReadOK, WriteOK
    <3>11. ASSUME NEW x \in wire \ {r}
           PROVE  (RequestKnown(x) /\ OfCurrent(x) /\ ReadOK(x) /\ WriteOK(x))'
      <4>1. RequestKnown(x) /\ x.kind \in Background
        BY <1>1, <2>7 DEF WireOK, Slow, Background
      <4>2. RequestKnown(x)'
        BY <3>4, <4>1 DEF RequestKnown
      <4> QED BY <4>1, <4>2 DEF Background, OfCurrent, ReadOK, WriteOK
    <3>12. WireOK'
      BY <2>4, <2>5, <2>7, <3>10, <3>11 DEF WireOK
    <3> QED BY <2>5, <2>7, <3>5, <3>6, <3>7, <3>8, <3>12 DEF PageInv
  <2> QED BY <2>2, <2>6, <2>7
<1>11. CASE ServeTie(r)
  <2>1. UNCHANGED rows /\ r.kind \in {"tie", "untie"}
    BY <1>11 DEF ServeTie
  <2>2. PICK x \in {"ok", "no"} : wire' = (wire \ {r}) \cup {[r EXCEPT !.ans = x]}
    BY <1>11 DEF ServeTie, Served
  <2>3. CASE UNCHANGED ties
    BY <1>6, <2>1, <2>2, <2>3
  <2>4. CASE ~UNCHANGED ties
    <3>1. UNCHANGED <<cache, cur, ver, views, panel, form, modal>>
      BY <1>3 DEF page
    <3>2. \A t \in ties' : t \in ties \/
             (r.kind = "tie" /\ t.from = r.id /\ t.to = r.to /\ t.home = r.home)
      BY <1>11, <2>1, <2>4 DEF ServeTie
    <3> DEFINE q == [r EXCEPT !.ans = x]
    <3>3. /\ q.kind = r.kind /\ q.id = r.id /\ q.to = r.to /\ q.ids = r.ids /\ q.home = r.home
          /\ q.ans = x /\ q.ver = r.ver /\ q.base = r.base
      BY <1>1, <2>2 DEF Requests
    <3>4. wire' = (wire \ {r}) \cup {q}
      BY <2>2
    <3> HIDE DEF q
    <3>5. /\ \A y, z \in wire' : Slow(y) /\ Slow(z) => y = z
          /\ DialogOK'
      BY <1>3, <3>3, <3>4, Replaced
    <3>6. \A id : Seen(id) => Seen(id)'
      BY <2>1 DEF Seen
    <3>7. PageKnown' /\ TiesKnown'
      BY <1>1, <2>1, <3>1, <3>2, <3>6 DEF PageKnown, TiesKnown, RequestKnown
    <3>8. ViewsOK' /\ HomeCards'
      BY <1>1, <2>1, <3>1 DEF ViewsOK, OnePanel, HomeCards, Live
    <3>9. NewFormOK'
      BY <1>1, <3>1, <3>2 DEF NewFormOK, OfCurrent
    <3>10. Settled'
      <4>1. \A y \in wire : y.kind # "detail"
        BY <1>1, <2>1 DEF WireOK, Slow, Background
      <4> QED BY <1>1, <2>1, <3>1, <4>1 DEF Settled, Live
    <3>11. TiesHome'
      BY <1>1, <2>1, <3>2 DEF TiesHome, WriteOK, Live
    <3>12. (RequestKnown(q) /\ OfCurrent(q) /\ ReadOK(q) /\ WriteOK(q))'
      BY <1>1, <2>1, <3>1, <3>3, <3>6 DEF RequestKnown, OfCurrent, ReadOK, WriteOK, Live
    <3>13. ASSUME NEW y \in wire \ {r}
           PROVE  (RequestKnown(y) /\ OfCurrent(y) /\ ReadOK(y) /\ WriteOK(y))'
      <4>1. RequestKnown(y) /\ y.kind \in Background
        BY <1>1, <2>1 DEF WireOK, Slow, Background
      <4>2. RequestKnown(y)'
        BY <3>6, <4>1 DEF RequestKnown
      <4> QED BY <4>1, <4>2 DEF Background, OfCurrent, ReadOK, WriteOK
    <3>14. WireOK'
      BY <3>4, <3>5, <3>12, <3>13 DEF WireOK
    <3> QED BY <3>5, <3>7, <3>8, <3>9, <3>10, <3>11, <3>14 DEF PageInv
  <2> QED BY <2>3, <2>4
<1> QED BY <1>7, <1>8, <1>9, <1>10, <1>11 DEF Serve

(***************************************************************************)
(* The answers.                                                            *)
(***************************************************************************)
\* What was asked in the background stays true of a page that goes on.
LEMMA CalmOK ==
    ASSUME PageAssumption, CardInv, UNCHANGED rows,
           \A x \in wire' : ~Slow(x) /\ (x \in wire \/ Aside(x))
    PROVE  WireOK'
<1>1. ASSUME NEW x \in wire'
      PROVE  (RequestKnown(x) /\ OfCurrent(x) /\ ReadOK(x) /\ WriteOK(x))'
  <2>1. RequestKnown(x) /\ ~Slow(x)
    BY <1>1, AsideOK DEF CardInv, PageInv, WireOK
  <2>2. RequestKnown(x)'
    BY <2>1 DEF RequestKnown, Seen
  <2>3. (OfCurrent(x) /\ ReadOK(x) /\ WriteOK(x))'
    BY <2>1 DEF Slow, Background, OfCurrent, ReadOK, WriteOK
  <2> QED BY <2>2, <2>3
<1> QED BY <1>1 DEF WireOK

LEMMA AnswerOK ==
    ASSUME PageAssumption, CardInv, TypeInv', NEW r \in wire, Answer(r)
    PROVE  PageInv'
<1>1. /\ r \in Requests /\ None \notin Ids /\ r.kind \in Kinds
      /\ RequestKnown(r) /\ OfCurrent(r) /\ ReadOK(r) /\ WriteOK(r)
      /\ TypeInv /\ PageKnown /\ TiesKnown /\ ViewsOK /\ DialogOK /\ NewFormOK /\ Settled /\ WireOK
      /\ HomeCards /\ TiesHome
  BY DEF CardInv, PageInv, TypeInv, TypeOK, WireOK, PageAssumption, Requests
<1>2. UNCHANGED <<rows, ties>> /\ r.ans \in {"ok", "no", "lost"}
  BY <1>1 DEF Answer, server, Requests
<1>3. Slow(r) => /\ \A x \in wire \ {r} : ~Slow(x)
                 /\ modal.open => r.kind = "tie"
  BY <1>1 DEF WireOK, DialogOK
<1>4. \A k \in Background : Aside(Ask(k))
  BY AskAside
<1>S. ASSUME wire \ {r} \subseteq wire', \A x \in wire' : x \in wire \ {r} \/ Aside(x),
             r.kind # "detail" \/ ~Live(cur),
             screen' = screen \/ ~modal.open,
             UNCHANGED <<cache, cur, ver, views, panel>>,
             form'.id = form.id, form'.home = form.home, form'.base = form.base,
             form'.fixed = form.fixed, form'.typed => form.typed,
             modal'.open => modal.open, modal'.found = modal.found, modal'.target = modal.target
      PROVE  PageInv'
  <2>1. PageKnown'
    BY <1>1, <1>2, <1>S DEF PageKnown, Seen
  <2>2. DialogOK'
    BY <1>1, <1>S DEF DialogOK, Aside
  <2> QED BY <1>2, <1>S, <2>1, <2>2, StayOK
<1>D. ASSUME NEW id \in Ids, Seen(id), Slow(r), UNCHANGED <<ver, views, panel, form>>,
             cache' \subseteq cache, ~modal'.open,
             modal'.found = modal.found, modal'.target = modal.target,
             cur' = id, wire' \in {(wire \ {r}) \cup {About("detail", id)},
                                   ((wire \ {r}) \cup {Ask("list")}) \cup {About("detail", id)}}
      PROVE  PageInv'
  <2>1. Aside(Ask("list"))
    BY <1>4 DEF Background
  <2>2. /\ About("detail", id) \in wire'
        /\ \A q \in wire' : q = About("detail", id) \/ Aside(q) \/ (q \in wire /\ ~Slow(q))
    BY <1>3, <1>D, <2>1
  <2> QED BY <1>2, <1>D, <2>2, ShowOK
<1>5. CASE AnswerLogin(r) \/ AnswerRegister(r) \/ AnswerPin(r) \/ AnswerLogout(r)
  <2>1. /\ UNCHANGED page /\ Slow(r) /\ r.kind \notin {"tie", "detail"}
        /\ wire \ {r} \subseteq wire' /\ \A x \in wire' : x \in wire \ {r} \/ x = Ask("schema")
    BY <1>5 DEF AnswerLogin, AnswerRegister, AnswerPin, AnswerLogout, Done, Served, Slow, Background
  <2>2. Aside(Ask("schema"))
    BY <1>4 DEF Background
  <2> QED BY <1>3, <1>S, <2>1, <2>2 DEF page
<1>6. CASE AnswerSchema(r)
  <2>1. /\ UNCHANGED <<screen, cache, cur, ver, views, panel, modal>> /\ r.kind = "schema"
        /\ wire' = (wire \ {r}) \cup {Ask("reltypes")}
    BY <1>6 DEF AnswerSchema, Served
  <2>2. Aside(Ask("reltypes"))
    BY <1>4 DEF Background
  <2>3. /\ form'.id = form.id /\ form'.home = form.home /\ form'.base = form.base
        /\ form'.fixed = form.fixed /\ (form'.typed => form.typed)
    BY <1>1, <1>6 DEF AnswerSchema, TypeInv, TypeOK
  <2> QED BY <1>S, <2>1, <2>2, <2>3
<1>7. CASE AnswerRelTypes(r)
  <2>1. /\ UNCHANGED <<screen, page>> /\ r.kind = "reltypes"
        /\ wire \ {r} \subseteq wire' /\ \A x \in wire' : x \in wire \ {r} \/ x = Ask("list")
    BY <1>7 DEF AnswerRelTypes, Refreshed, login
  <2>2. Aside(Ask("list"))
    BY <1>4 DEF Background
  <2> QED BY <1>S, <2>1, <2>2 DEF page
<1>8. CASE AnswerList(r) \/ AnswerSearch(r)
  <2>1. /\ UNCHANGED <<screen, cur, ver, views, panel, form>> /\ wire' = wire \ {r}
        /\ r.kind \in {"list", "search"}
        /\ cache' \in {cache, {r.ids}}
        /\ modal'.open = modal.open /\ modal'.target = modal.target
        /\ modal'.found \in {modal.found, r.ids \ {cur}}
    BY <1>1, <1>8 DEF AnswerList, AnswerSearch, Done, login, TypeInv, TypeOK
  <2>2. PageKnown'
    BY <1>1, <1>2, <2>1 DEF PageKnown, RequestKnown, Seen
  <2>3. DialogOK'
    BY <1>1, <2>1 DEF DialogOK
  <2> QED BY <1>2, <2>1, <2>2, <2>3, StayOK
<1>9. CASE AnswerDetail(r)
  <2>1. Slow(r) /\ r.kind = "detail" /\ wire' = wire \ {r} /\ UNCHANGED <<screen, cache, cur, form, modal>>
    BY <1>9 DEF AnswerDetail, Slow, Background, Done, login
  <2>2. CASE r.ans = "ok"
    <3>1. /\ ver' = r.ver /\ views' = {"detail"}
          /\ panel'.id = r.id /\ panel'.ver = r.ver /\ r.id = cur /\ cur # None
      BY <1>1, <1>9, <2>1, <2>2 DEF AnswerDetail, ShowMain, OfCurrent
    <3>2. PageKnown' /\ TiesKnown' /\ HomeCards' /\ TiesHome'
      BY <1>1, <1>2, <2>1, <3>1 DEF PageKnown, TiesKnown, Seen, HomeCards, TiesHome, Live
    <3>3. ViewsOK' /\ DialogOK' /\ NewFormOK'
      BY <1>1, <1>3, <2>1, <3>1 DEF ViewsOK, OnePanel, DialogOK, NewFormOK
    <3>4. Live(cur) => r.ver <= rows[cur].ver
      BY <1>1, <2>1, <2>2 DEF ReadOK
    <3>5. Settled'
      BY <1>2, <2>1, <3>1, <3>4 DEF Settled, Live
    <3>6. WireOK'
      BY <1>2, <1>3, <2>1, CalmOK
    <3> QED BY <3>2, <3>3, <3>5, <3>6 DEF PageInv
  <2>3. CASE r.ans # "ok"
    <3>1. ~Live(cur) /\ UNCHANGED <<ver, views, panel>>
      BY <1>1, <1>2, <1>9, <2>1, <2>3 DEF AnswerDetail, ReadOK
    <3> QED BY <1>S, <2>1, <3>1
  <2> QED BY <2>2, <2>3
<1>10. CASE AnswerEdit(r)
  <2>1. Slow(r) /\ r.kind = "edit" /\ wire' = wire \ {r}
        /\ UNCHANGED <<screen, cache, cur, ver, panel, modal>>
    BY <1>10 DEF AnswerEdit, Slow, Background, Done, login
  <2>2. CASE r.ans = "lost"
    <3>1. UNCHANGED <<views, form>>
      BY <1>10, <2>2 DEF AnswerEdit
    <3> QED BY <1>S, <2>1, <3>1
  <2>3. CASE r.ans # "lost"
    <3>1. "detail" \in views /\ r.id = cur /\ cur # None
      BY <1>1, <2>1 DEF ReadOK, OfCurrent
    <3>2. views' = {"form"}
      BY <1>1, <1>10, <2>3, <3>1 DEF AnswerEdit, ViewsOK, OnePanel
    <3>3. PageKnown' /\ TiesKnown' /\ HomeCards' /\ TiesHome'
      BY <1>1, <1>2, <2>1 DEF PageKnown, TiesKnown, Seen, HomeCards, TiesHome, Live
    <3>4. ViewsOK' /\ DialogOK' /\ NewFormOK'
      BY <1>1, <1>3, <2>1, <3>1, <3>2 DEF ViewsOK, OnePanel, DialogOK, NewFormOK
    <3>5. Settled'
      <4>1. CASE r.ans = "ok" /\ Live(cur)
        <5>1. r.ver <= rows[cur].ver /\ ver <= r.ver
          BY <1>1, <2>1, <4>1 DEF ReadOK
        <5>2. r.ver \in Nat /\ ver \in Nat /\ rows[cur].ver \in Nat
          BY <1>1, <4>1 DEF TypeInv, TypeOK, Requests, Rows, Live
        <5>3. r.ver = ver \/ ver < rows[cur].ver
          BY <5>1, <5>2
        <5>4. /\ form'.fixed /\ form'.base = r.ver
              /\ form'.typed => form'.home = cur
          BY <1>10, <3>1, <4>1 DEF AnswerEdit
        <5> QED BY <1>2, <2>1, <3>2, <5>3, <5>4 DEF Settled
      <4>2. CASE ~Live(cur)
        BY <1>2, <2>1, <4>2 DEF Settled, Live
      <4>3. r.ans = "ok" \/ ~Live(cur)
        BY <1>1, <1>2, <2>1, <2>3 DEF ReadOK
      <4> QED BY <4>1, <4>2, <4>3
    <3>6. WireOK'
      BY <1>2, <1>3, <2>1, CalmOK
    <3> QED BY <3>3, <3>4, <3>5, <3>6 DEF PageInv
  <2> QED BY <2>2, <2>3
<1>11. CASE AnswerSave(r)
  <2>1. /\ Slow(r) /\ r.kind \in {"put", "post"} /\ ~modal.open
        /\ UNCHANGED <<screen, cache, ver, views, panel, form, modal>>
    BY <1>3, <1>11 DEF AnswerSave, Slow, Background, login
  <2>2. CASE r.ans = "ok"
    <3>1. r.id \in Ids /\ Seen(r.id)
      BY <1>1, <2>1, <2>2 DEF RequestKnown, OfCurrent, WriteOK, Requests, IdsOrNone
    <3>2. /\ cur' = r.id
          /\ wire' \in {(wire \ {r}) \cup {About("detail", r.id)},
                        ((wire \ {r}) \cup {Ask("list")}) \cup {About("detail", r.id)}}
      BY <1>11, <2>2 DEF AnswerSave, Show, Refreshed
    <3> QED BY <1>D, <2>1, <3>1, <3>2
  <2>3. CASE r.ans # "ok"
    BY <1>S, <1>11, <2>1, <2>3 DEF AnswerSave, Done
  <2> QED BY <2>2, <2>3
<1>12. CASE AnswerDelete(r)
  <2>1. /\ Slow(r) /\ r.kind = "delete" /\ ~modal.open
        /\ UNCHANGED <<screen, cache, ver, panel, form, modal>>
    BY <1>3, <1>12 DEF AnswerDelete, Slow, Background, login
  <2>2. CASE r.ans = "ok"
    <3>1. /\ cur' = None
          /\ \A x \in wire' : x \in wire \ {r} \/ x = Ask("list")
      BY <1>12, <2>2 DEF AnswerDelete, Refreshed
    <3>2. views' = {"empty"}
      BY <1>1, <1>12, <2>1, <2>2 DEF AnswerDelete, WriteOK, ViewsOK, OnePanel
    <3>3. PageKnown' /\ TiesKnown' /\ HomeCards' /\ TiesHome'
      BY <1>1, <1>2, <2>1, <3>1 DEF PageKnown, TiesKnown, Seen, HomeCards, TiesHome, Live
    <3>4. ViewsOK' /\ DialogOK' /\ NewFormOK' /\ Settled'
      BY <1>1, <2>1, <3>1, <3>2 DEF ViewsOK, OnePanel, DialogOK, NewFormOK, Settled, Live
    <3>5. Aside(Ask("list"))
      BY <1>4 DEF Background
    <3>6. \A x \in wire' : ~Slow(x) /\ (x \in wire \/ Aside(x))
      BY <1>3, <2>1, <3>1, <3>5 DEF Aside
    <3>7. WireOK'
      BY <1>2, <3>6, CalmOK
    <3> QED BY <3>3, <3>4, <3>7 DEF PageInv
  <2>3. CASE r.ans # "ok"
    BY <1>S, <1>12, <2>1, <2>3 DEF AnswerDelete, Done
  <2> QED BY <2>2, <2>3
<1>13. CASE AnswerInline(r)
  <2>1. /\ Slow(r) /\ r.kind \in {"inget", "input"} /\ ~modal.open
        /\ UNCHANGED <<screen, ver, views, dock, panel, form, modal>>
    BY <1>3, <1>13 DEF AnswerInline, Slow, Background, login
  <2>2. CASE r.ans = "ok" /\ r.kind = "inget"
    <3> DEFINE q == [r EXCEPT !.kind = "input", !.ans = "none"]
    <3>1. /\ q.kind = "input" /\ q.id = r.id /\ q.to = r.to /\ q.ids = r.ids /\ q.home = r.home
          /\ q.ans = "none"
      BY <1>1 DEF Requests
    <3>2. wire' = (wire \ {r}) \cup {q} /\ UNCHANGED page
      BY <1>13, <2>1, <2>2 DEF AnswerInline, Served, page
    <3> HIDE DEF q
    <3>3. (RequestKnown(q) /\ OfCurrent(q) /\ ReadOK(q) /\ WriteOK(q))'
      BY <1>1, <1>2, <2>2, <3>1, <3>2
         DEF page, RequestKnown, Seen, OfCurrent, ReadOK, WriteOK, Live
    <3>4. \A x \in wire' : x \in wire \/ (RequestKnown(x) /\ OfCurrent(x) /\ ReadOK(x) /\ WriteOK(x))'
      BY <3>2, <3>3
    <3>5. \A x, y \in wire' : Slow(x) /\ Slow(y) => x = y
      BY <1>3, <2>1, <3>2
    <3>6. DialogOK' /\ HomeCards'
      BY <1>1, <1>2, <2>1 DEF DialogOK, HomeCards, Live
    <3>7. (\E x \in wire : x.kind = "detail") => \E x \in wire' : x.kind = "detail"
      BY <2>2, <3>2
    <3>8. \A id \in Ids : rows[id].st # "none" =>
               /\ rows'[id].st # "none"
               /\ rows'[id].st = "live" => rows[id].st = "live" /\ rows[id].ver <= rows'[id].ver
      BY <1>1, <1>2 DEF TypeInv, TypeOK, Rows
    <3> QED BY <1>2, <3>2, <3>4, <3>5, <3>6, <3>7, <3>8, GrowOK
  <2>3. CASE r.ans = "ok" /\ r.kind = "input"
    <3>1. r.id \in Ids /\ Seen(r.id)
      BY <1>1, <2>1, <2>3 DEF RequestKnown, OfCurrent, Requests, IdsOrNone
    <3>2. /\ cur' = r.id /\ cache' = {}
          /\ wire' \in {(wire \ {r}) \cup {About("detail", r.id)},
                        ((wire \ {r}) \cup {Ask("list")}) \cup {About("detail", r.id)}}
      BY <1>13, <2>3 DEF AnswerInline, Show, Refreshed
    <3>3. cache' \subseteq cache
      BY <3>2
    <3> QED BY <1>D, <2>1, <3>1, <3>2, <3>3
  <2>4. CASE r.ans # "ok"
    BY <1>S, <1>13, <2>1, <2>4 DEF AnswerInline, Done
  <2> QED BY <2>1, <2>2, <2>3, <2>4
<1>14. CASE AnswerTie(r)
  <2>1. /\ Slow(r) /\ r.kind \in {"tie", "untie"}
        /\ UNCHANGED <<screen, cache, ver, views, panel, form>>
        /\ modal'.found = modal.found /\ modal'.target = modal.target
        /\ modal'.open => modal.open /\ r.ans # "ok"
    BY <1>1, <1>3, <1>14 DEF AnswerTie, Slow, Background, login, TypeInv, TypeOK
  <2>2. CASE r.ans = "ok"
    <3>1. PICK id : id = IF r.kind = "tie" THEN cur ELSE r.home
      OBVIOUS
    <3>2. id \in Ids /\ Seen(id)
      BY <1>1, <2>1, <3>1
         DEF RequestKnown, OfCurrent, WriteOK, Requests, IdsOrNone, PageKnown, TypeInv, TypeOK
    <3>3. cur' = id /\ wire' = (wire \ {r}) \cup {About("detail", id)}
      BY <1>14, <2>2, <3>1 DEF AnswerTie, Show
    <3> QED BY <1>D, <2>1, <2>2, <3>2, <3>3
  <2>3. CASE r.ans # "ok"
    BY <1>S, <1>14, <2>1, <2>3 DEF AnswerTie, Done
  <2> QED BY <2>2, <2>3
<1> QED
  BY <1>5, <1>6, <1>7, <1>8, <1>9, <1>10, <1>11, <1>12, <1>13, <1>14 DEF Answer

(***************************************************************************)
(* The theorems.                                                           *)
(***************************************************************************)
LEMMA InitPage == ASSUME PageAssumption, Init PROVE PageInv
<1>1. None \notin Ids
  BY DEF PageAssumption
<1>2. /\ \A id \in Ids : rows[id].st = "none" \/ (rows[id].st = "live" /\ rows[id].home \in {id, None})
      /\ \A id \in Ids : rows[id].st = "live" => rows[id].home = id
  <2>1. ASSUME NEW id \in Ids
        PROVE  /\ rows[id].st = "none" \/ rows[id].home \in Ids
               /\ rows[id].st = "live" => rows[id].home = id
    BY <1>1, <2>1 DEF Init, Row
  <2> QED BY <2>1 DEF Init, Row
<1>3. TiesKnown /\ TiesHome
  <2>1. \A t \in ties : t.from # t.to /\ t.home = t.from /\ rows[t.from].st # "none" /\ rows[t.to].st # "none"
    BY DEF Init
  <2> QED BY <2>1 DEF TiesKnown, TiesHome, Seen
<1>4. PageKnown /\ ViewsOK /\ DialogOK /\ NewFormOK /\ Settled /\ HomeCards
  BY <1>1, <1>2 DEF Init, PageKnown, Seen, ViewsOK, OnePanel, DialogOK, NewFormOK, Settled, Live, HomeCards
<1>5. WireOK
  <2> DEFINE q == Ask("me")
  <2>1. q.kind = "me" /\ q.to = None /\ q.ids = {} /\ q.id = None
    BY DEF Ask
  <2>2. wire = {q}
    BY DEF Init
  <2> HIDE DEF q
  <2>3. RequestKnown(q) /\ OfCurrent(q) /\ ReadOK(q) /\ WriteOK(q)
    BY <1>1, <2>1 DEF RequestKnown, Seen, OfCurrent, ReadOK, WriteOK
  <2> QED BY <2>2, <2>3 DEF WireOK
<1> QED BY <1>3, <1>4, <1>5 DEF PageInv

LEMMA NextPage ==
    ASSUME PageAssumption, Patient, "detail" \notin Fallible, CardInv, [Next]_vars
    PROVE  CardInv'
<1>1. TypeInv'
  BY NextTypes DEF CardInv
<1>2. CASE Next
  BY <1>1, <1>2, UserOK, OthersOK, ServeOK, AnswerOK DEF Next, CardInv
<1>3. CASE UNCHANGED vars
  <2>1. UNCHANGED <<rows, ties, cur, ver, views, panel, form, cache, modal, screen, wire>>
    BY <1>3 DEF vars, server, login, page
  <2>2. PageKnown' /\ DialogOK'
    BY <2>1 DEF CardInv, PageInv, PageKnown, Seen, DialogOK
  <2> QED BY <1>1, <2>1, <2>2, StayOK DEF CardInv
<1> QED BY <1>2, <1>3

LEMMA CardInvariant ==
    ASSUME Patient, "detail" \notin Fallible
    PROVE  Spec => []CardInv
<1>1. Init => CardInv
  BY InitTypes, InitPage, PageAssumption DEF CardInv
<1>2. CardInv /\ [Next]_vars => CardInv'
  BY NextPage, PageAssumption
<1> QED BY <1>1, <1>2, PTL DEF Spec

\* One view is up at a time, however the answers to the clicks come in: the edit click and
\* the deletion switch the panels by hand (app.js), showMain switches the rest.
THEOREM OneView ==
    ASSUME Patient, "detail" \notin Fallible
    PROVE  Spec => []OnePanel
<1>1. CardInv => OnePanel
  BY DEF CardInv, PageInv, ViewsOK
<1> QED BY <1>1, CardInvariant, PTL

\* The save handlers of app.js send what was typed for a card as that card, for any
\* number of cards and whatever the other users do to them meanwhile.
THEOREM CardsAtHome ==
    ASSUME Patient, "detail" \notin Fallible
    PROVE  Spec => []HomeCards
<1>1. CardInv => HomeCards
  BY DEF CardInv, PageInv
<1> QED BY <1>1, CardInvariant, PTL

\* A relation joins two cards and starts from the card it was drawn on, although the dialog
\* of app.js reads currentEntityId only when it is saved.
THEOREM TiesAtHome ==
    ASSUME Patient, "detail" \notin Fallible
    PROVE  Spec => []TiesHome
<1>1. CardInv => TiesHome
  BY DEF CardInv, PageInv
<1> QED BY <1>1, CardInvariant, PTL

\* No save or deletion replaces a version of the card its author has not seen: that the
\* server would accept it means that form, panel and version came from one state of it.
THEOREM SeenFirst ==
    ASSUME Patient, "detail" \notin Fallible
    PROVE  Spec => []NothingUnseen
<1>1. CardInv => NothingUnseen
  <2>1. ASSUME CardInv, NEW r \in wire, r.kind \in {"put", "delete"}, Current(r)
        PROVE  r.base = r.ver /\ r.home = r.id
    <3>1. WriteOK(r) /\ Live(r.id) /\ r.ver = rows[r.id].ver /\ rows[r.id].ver \in Nat
      BY <2>1 DEF CardInv, PageInv, WireOK, TypeInv, TypeOK, Current, Live, Rows
    <3> QED BY <2>1, <3>1 DEF WriteOK
  <2> QED BY <2>1 DEF NothingUnseen
<1> QED BY <1>1, CardInvariant, PTL
=============================================================================

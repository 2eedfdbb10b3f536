------------------------------ MODULE CardPage ------------------------------
(***************************************************************************)
(* One user at the page of the asset editor (editor/backend/server/static/ *)
(* app.js): the login, the list, the card on the screen, the form, inline  *)
(* edits, deletion, the relation dialog and the graph dock, against a      *)
(* server whose cards other users change meanwhile.                        *)
(*                                                                         *)
(* An action is a handler up to its next await.  A request is sent, served *)
(* at some later moment, and answered at a later one still; the handler    *)
(* then goes on with what it captured and with the page as it is by then.  *)
(* A request that is sent again while the same one is under way counts     *)
(* once: the server refuses the second write, and equal answers have equal *)
(* effects.  What a card or a form holds is abstracted to the card it was  *)
(* typed for, its "home".  Locks are not modelled: this page never takes   *)
(* one, and being refused for another's lock looks to it like any failure. *)
(***************************************************************************)
EXTENDS Integers

CONSTANTS
    Ids,       \* card ids
    None,      \* no card: currentEntityId = null, an empty ID field
    Fallible,  \* the kinds of requests that may fail on the way
    Patient,   \* does the user wait for the answer to a click on a card or a button, and
               \* leave the dock alone while the dialog or the PIN overlay is open?
    MaxActs,   \* bounds of the explored instance: acts of the user,
    MaxNews    \* and of the other users

Kinds == {"me", "login", "register", "pin", "logout", "schema", "reltypes", "list",
          "search", "detail", "edit", "put", "post", "delete", "inget", "input", "tie", "untie"}
Background == {"schema", "reltypes", "list", "search"}

ASSUME PageAssumption ==
    /\ None \notin Ids
    /\ Fallible \subseteq Kinds /\ Patient \in BOOLEAN
    /\ MaxActs \in Nat /\ MaxNews \in Nat

VARIABLES
    rows,     \* server: id -> [st, ver, home]; st is "none", "live" or "gone"
    ties,     \* server: relations, [from, to, home]: both directions in one
    live,     \* server: does it know the session of this page?
    screen,   \* "login", "register", "app", or "pin": the PIN overlay over the page
    schema,   \* has the page the schema?
    cache,    \* allEntitiesCache: {} for null, {S} for a list of the ids S
    cur,      \* currentEntityId
    ver,      \* currentEntityVersion
    views,    \* the main views that are displayed
    dock,     \* isGraphDockOpen
    panel,    \* the card in detailView and the one the dock draws: [id, ver, full, graph]
    form,     \* the form: [id, home, base, typed, fixed]
    modal,    \* the relation dialog: [open, found, target]
    wire,     \* the requests under way
    acts, news

server == <<rows, ties, live>>
login  == <<screen, schema>>
page   == <<cache, cur, ver, views, dock, panel, form, modal>>
vars   == <<server, login, page, wire, acts, news>>

IdsOrNone == Ids \cup {None}
Views     == {"empty", "detail", "form", "help", "story", "atom"}
Rows      == [st : {"none", "live", "gone"}, ver : Nat, home : IdsOrNone]
Ties      == [from : Ids, to : Ids, home : IdsOrNone]
Requests  == [kind : Kinds, id : IdsOrNone, to : IdsOrNone, home : IdsOrNone,
              ver : Nat, base : Nat, ids : SUBSET Ids, ans : {"none", "ok", "no", "lost"}]

Live(id) == id \in Ids /\ rows[id].st = "live"
LiveIds  == {id \in Ids : Live(id)}
Row(v, home) == [st |-> "live", ver |-> v, home |-> home]

Ask(kind) == [kind |-> kind, id |-> None, to |-> None, home |-> None,
              ver |-> 0, base |-> 0, ids |-> {}, ans |-> "none"]
About(kind, id) == [Ask(kind) EXCEPT !.id = id]

Init ==
    /\ rows \in [Ids -> {[Row(0, None) EXCEPT !.st = "none"]} \cup {Row(1, id) : id \in Ids}]
    /\ \A id \in Ids : rows[id].home \in {id, None}
    /\ ties \in {{}} \cup {{t} : t \in {u \in Ties : u.from # u.to /\ u.home = u.from
                                /\ rows[u.from].st # "none" /\ rows[u.to].st # "none"}}
    /\ live \in BOOLEAN
    /\ screen = "login"
    /\ schema = FALSE
    /\ cache = {}
    /\ cur = None
    /\ ver = 1
    /\ views = {"empty"}
    /\ dock = FALSE
    /\ panel = [id |-> None, ver |-> 0, full |-> FALSE, graph |-> None]
    /\ form = [id |-> None, home |-> None, base |-> 0, typed |-> FALSE, fixed |-> FALSE]
    /\ modal = [open |-> FALSE, found |-> {}, target |-> None]
    /\ wire = {Ask("me")}
    /\ acts = 0
    /\ news = 0

(***************************************************************************)
(* Handlers in pieces: showEntity up to its fetch, refreshList (a request  *)
(* when nothing is cached), showMain.                                      *)
(***************************************************************************)
Show(id, w) == cur' = id /\ wire' = w \cup {About("detail", id)}

Refreshed(w, c) == IF c = {} THEN w \cup {Ask("list")} ELSE w

\* Seeded fault: the other views are not hidden.
ShowMainToo(v) ==
    /\ views' = views \cup {v}
    /\ dock' = (dock /\ v = "detail")

ShowMain(v) ==
    /\ views' = {v}
    /\ dock' = (dock /\ v = "detail")

Act ==
    /\ acts < MaxActs
    /\ Patient => \A r \in wire : r.kind \in Background
    /\ acts' = acts + 1
    /\ UNCHANGED <<server, schema, news>>

\* The overlays and the dialog cover the whole page, but for the dock, which floats above
\* them all (#graph-panel in app.css) and is hidden only with the page itself.
ActOnPage == Act /\ screen = "app" /\ ~modal.open /\ UNCHANGED screen

ActOnDock ==
    /\ Act /\ dock
    /\ screen \in {"app", "pin"} /\ (Patient => screen = "app" /\ ~modal.open)
    /\ UNCHANGED screen

(***************************************************************************)
(* What the user does.                                                     *)
(***************************************************************************)
ToggleRegister ==
    /\ Act
    /\ screen \in {"login", "register"}
    /\ screen' = IF screen = "login" THEN "register" ELSE "login"
    /\ UNCHANGED <<page, wire>>

SubmitLogin ==
    /\ Act
    /\ screen \in {"login", "register"}
    /\ wire' = wire \cup {Ask(screen)}
    /\ UNCHANGED <<screen, page>>

SubmitPin ==
    /\ Act
    /\ screen = "pin"
    /\ wire' = wire \cup {Ask("pin")}
    /\ UNCHANGED <<screen, page>>

Logout ==
    /\ ActOnPage
    /\ wire' = wire \cup {Ask("logout")}
    /\ UNCHANGED page

\* Typing in the search box or a filter.
Filter ==
    /\ ActOnPage
    /\ cache = {}
    /\ wire' = Refreshed(wire, cache)
    /\ UNCHANGED page

Joined(id, other) == \E t \in ties : {id, other} = {t.from, t.to}

\* A row of the list.
ClickRow(id) ==
    /\ ActOnPage
    /\ \E S \in cache : id \in S
    /\ Show(id, wire)
    /\ UNCHANGED <<cache, ver, views, dock, panel, form, modal>>

\* The other card of a relation in the panel.
ClickChip(id) ==
    /\ ActOnPage
    /\ "detail" \in views /\ Joined(id, panel.id)
    /\ Show(id, wire)
    /\ UNCHANGED <<cache, ver, views, dock, panel, form, modal>>

\* A node of the graph in the dock, which is that of the last card shown with the dock
\* open; the node in the middle does nothing.
ClickNode(id) ==
    /\ ActOnDock
    /\ id # panel.graph /\ Joined(id, panel.graph)
    /\ Show(id, wire)
    /\ UNCHANGED <<cache, ver, views, dock, panel, form, modal>>

\* A card of the 3D view.
ClickAtom(id) ==
    /\ ActOnPage
    /\ "atom" \in views
    /\ rows[id].st # "none"
    /\ views' = views \ {"atom"}
    /\ Show(id, wire)
    /\ UNCHANGED <<cache, ver, dock, panel, form, modal>>

New ==
    /\ ActOnPage
    /\ cur' = None
    /\ ShowMain("form")
    /\ form' = [id |-> None, home |-> None, base |-> 0, typed |-> FALSE, fixed |-> FALSE]
    /\ UNCHANGED <<cache, ver, panel, modal, wire>>

\* Choosing a type (which renders the fields anew) and filling the form in for a new id.
Fill(id) ==
    /\ ActOnPage
    /\ "form" \in views /\ ~form.fixed
    /\ schema
    /\ rows[id].st = "none"
    /\ form' = [form EXCEPT !.id = id, !.home = id, !.typed = TRUE]
    /\ UNCHANGED <<cache, cur, ver, views, dock, panel, modal, wire>>

Edit ==
    /\ ActOnPage
    /\ "detail" \in views /\ cur # None
    /\ wire' = wire \cup {About("edit", cur)}
    /\ UNCHANGED page

Cancel ==
    /\ ActOnPage
    /\ "form" \in views
    /\ \/ /\ cur # None
          /\ Show(cur, wire)
          /\ UNCHANGED views
       \/ /\ cur = None
          /\ views' = (views \ {"form"}) \cup {"empty"}
          /\ UNCHANGED <<cur, wire>>
    /\ UNCHANGED <<cache, ver, dock, panel, form, modal>>

SaveId == IF cur # None THEN cur ELSE form.id

\* Seeded fault: the form is saved before its fields are there.
SaveUntyped ==
    /\ ActOnPage
    /\ "form" \in views
    /\ SaveId # None
    /\ wire' = wire \cup {[About(IF cur # None THEN "put" ELSE "post", SaveId)
                              EXCEPT !.home = form.home, !.base = form.base, !.ver = ver]}
    /\ UNCHANGED page

Save ==
    /\ ActOnPage
    /\ "form" \in views
    /\ SaveId # None /\ form.typed
    /\ wire' = wire \cup {[About(IF cur # None THEN "put" ELSE "post", SaveId)
                              EXCEPT !.home = form.home, !.base = form.base, !.ver = ver]}
    /\ UNCHANGED page

Delete ==
    /\ ActOnPage
    /\ "detail" \in views /\ cur # None
    /\ wire' = wire \cup {[About("delete", cur) EXCEPT !.home = panel.id,
                                                       !.base = panel.ver, !.ver = ver]}
    /\ UNCHANGED page

\* Saving one field of the panel: saveInlineData up to its first await.
SaveInline ==
    /\ ActOnPage
    /\ "detail" \in views /\ panel.full
    /\ wire' = wire \cup {[About("inget", cur) EXCEPT !.home = panel.id]}
    /\ UNCHANGED page

ToggleDock ==
    /\ ActOnPage
    /\ "detail" \in views
    /\ dock' = ~dock
    /\ IF dock' /\ cur # None THEN Show(cur, wire) ELSE UNCHANGED <<cur, wire>>
    /\ UNCHANGED <<cache, ver, views, panel, form, modal>>

CloseDock ==
    /\ ActOnDock
    /\ dock' = FALSE
    /\ UNCHANGED <<cache, cur, ver, views, panel, form, modal, wire>>

OpenOther(v) ==
    /\ ActOnPage
    /\ ShowMain(v)
    /\ UNCHANGED <<cache, cur, ver, panel, form, modal, wire>>

CloseOther ==
    /\ ActOnPage
    /\ views \cap {"help", "story", "atom"} # {}
    /\ ShowMain("empty")
    /\ UNCHANGED <<cache, cur, ver, panel, form, modal, wire>>

OpenModal ==
    /\ ActOnPage
    /\ "detail" \in views /\ cur # None
    /\ modal' = [open |-> TRUE, found |-> {}, target |-> None]
    /\ UNCHANGED <<cache, cur, ver, views, dock, panel, form, wire>>

ActInModal == Act /\ screen = "app" /\ modal.open /\ UNCHANGED screen

Search ==
    /\ ActInModal
    /\ wire' = wire \cup {Ask("search")}
    /\ UNCHANGED page

PickTarget(id) ==
    /\ ActInModal
    /\ id \in modal.found
    /\ modal' = [modal EXCEPT !.target = id]
    /\ UNCHANGED <<cache, cur, ver, views, dock, panel, form, wire>>

CloseModal ==
    /\ ActInModal
    /\ modal' = [modal EXCEPT !.open = FALSE]
    /\ UNCHANGED <<cache, cur, ver, views, dock, panel, form, wire>>

\* Seeded fault: the relation is sent without a target.
SaveTieAtOnce ==
    /\ ActInModal
    /\ wire' = wire \cup {[About("tie", cur) EXCEPT !.to = modal.target, !.home = panel.id]}
    /\ UNCHANGED page

SaveTie ==
    /\ ActInModal
    /\ cur # None /\ modal.target # None
    /\ wire' = wire \cup {[About("tie", cur) EXCEPT !.to = modal.target, !.home = panel.id]}
    /\ UNCHANGED page

DeleteTie(t) ==
    /\ ActOnPage
    /\ "detail" \in views
    /\ panel.id \in {t.from, t.to}
    /\ wire' = wire \cup {[Ask("untie") EXCEPT !.id = t.from, !.to = t.to, !.home = panel.id]}
    /\ UNCHANGED page

(***************************************************************************)
(* The server, the network and the other users.                            *)
(***************************************************************************)
Served(r, ans) == wire' = (wire \ {r}) \cup {ans}

ServeAuth(r) ==
    /\ \/ r.kind = "logout" /\ Served(r, [r EXCEPT !.ans = "ok"]) /\ live' = FALSE
       \/ r.kind = "me"     /\ Served(r, [r EXCEPT !.ans = IF live THEN "ok" ELSE "no"])
                            /\ UNCHANGED live
       \/ r.kind \in {"login", "register", "pin"} /\ \E right \in BOOLEAN :
            /\ right => r.kind # "pin" \/ live
            /\ Served(r, [r EXCEPT !.ans = IF right THEN "ok" ELSE "no"])
            /\ live' = (live \/ (right /\ r.kind = "login"))
    /\ UNCHANGED <<rows, ties>>

ServeRead(r) ==
    /\ \/ /\ r.kind \in {"schema", "reltypes", "list", "search"}
          /\ Served(r, [r EXCEPT !.ans = "ok",
                                 !.ids = IF r.kind \in {"list", "search"} THEN LiveIds ELSE {}])
       \/ /\ r.kind \in {"detail", "edit", "inget"}
          /\ Served(r, IF Live(r.id) THEN [r EXCEPT !.ans = "ok", !.ver = rows[r.id].ver]
                                     ELSE [r EXCEPT !.ans = "no"])
    /\ UNCHANGED server

\* The version check of entity.Update and entity.Delete.
Current(r) == live /\ Live(r.id) /\ r.ver = rows[r.id].ver

Accepts(r) ==
    CASE r.kind \in {"put", "input", "delete"} -> Current(r)
      [] r.kind = "post"  -> live /\ ~Live(r.id)
      [] r.kind = "tie"   -> live
      [] r.kind = "untie" -> live /\ \E t \in ties : t.from = r.id /\ t.to = r.to

RowAfter(r) ==
    CASE r.kind = "post"   -> Row(1, r.home)
      [] r.kind = "delete" -> [st |-> "gone", ver |-> 0, home |-> None]
      [] OTHER             -> Row(r.ver + 1, r.home)

ServeCard(r) ==
    /\ r.kind \in {"put", "input", "delete", "post"}
    /\ IF Accepts(r) THEN rows' = [rows EXCEPT ![r.id] = RowAfter(r)] ELSE UNCHANGED rows
    /\ Served(r, [r EXCEPT !.ans = IF Accepts(r) THEN "ok" ELSE "no"])
    /\ UNCHANGED <<ties, live>>

ServeTie(r) ==
    /\ r.kind \in {"tie", "untie"}
    /\ ties' = IF ~Accepts(r) THEN ties
               ELSE IF r.kind = "tie" THEN ties \cup {[from |-> r.id, to |-> r.to, home |-> r.home]}
               ELSE {t \in ties : t.from # r.id \/ t.to # r.to}
    /\ Served(r, [r EXCEPT !.ans = IF Accepts(r) THEN "ok" ELSE "no"])
    /\ UNCHANGED <<rows, live>>

Serve(r) ==
    /\ r.ans = "none"
    /\ ServeAuth(r) \/ ServeRead(r) \/ ServeCard(r) \/ ServeTie(r)
    /\ UNCHANGED <<login, page, acts, news>>

\* The request, or its answer, is lost; the page learns only that it failed.
Fail(r) ==
    /\ r.kind \in Fallible /\ r.ans # "lost"
    /\ wire' = (wire \ {r}) \cup {[r EXCEPT !.ans = "lost"]}
    /\ UNCHANGED <<server, login, page, acts, news>>

\* The server restarts: sessions are kept in memory only.
Restart ==
    /\ live
    /\ live' = FALSE
    /\ UNCHANGED <<rows, ties, login, page, wire, acts, news>>

\* Others register, change and delete cards; an id is never registered a second time.
Others ==
    /\ news < MaxNews
    /\ news' = news + 1
    /\ \E id \in Ids :
         \/ rows[id].st = "none" /\ rows' = [rows EXCEPT ![id] = Row(1, id)]
         \/ Live(id) /\ rows' = [rows EXCEPT ![id].ver = @ + 1]
         \/ Live(id) /\ rows' = [rows EXCEPT ![id] = [st |-> "gone", ver |-> 0, home |-> None]]
    /\ UNCHANGED <<ties, live, login, page, wire, acts>>

(***************************************************************************)
(* The answers.                                                            *)
(***************************************************************************)
Done(r) == wire' = wire \ {r}

AnswerLogin(r) ==
    /\ r.kind \in {"me", "login"}
    /\ IF r.ans = "ok"
       THEN screen' \in {"app", "pin"} /\ Served(r, Ask("schema"))
       ELSE screen' = (IF r.kind = "me" THEN "login" ELSE screen) /\ Done(r)
    /\ UNCHANGED <<schema, page>>

AnswerRegister(r) ==
    /\ r.kind = "register"
    /\ screen' = IF r.ans = "ok" /\ screen = "register" THEN "login" ELSE screen
    /\ Done(r)
    /\ UNCHANGED <<schema, page>>

AnswerPin(r) ==
    /\ r.kind = "pin"
    /\ screen' = IF r.ans = "ok" /\ screen = "pin" THEN "app" ELSE screen
    /\ Done(r)
    /\ UNCHANGED <<schema, page>>

AnswerLogout(r) ==
    /\ r.kind = "logout"
    /\ screen' = "login"
    /\ Done(r)
    /\ UNCHANGED <<schema, page>>

\* loadSchema fills the type menu anew, which unsets the type chosen in the form.
AnswerSchema(r) ==
    /\ r.kind = "schema"
    /\ schema' = (schema \/ r.ans = "ok")
    /\ form' = [form EXCEPT !.typed = @ /\ r.ans # "ok"]
    /\ Served(r, Ask("reltypes"))
    /\ UNCHANGED <<screen, cache, cur, ver, views, dock, panel, modal>>

AnswerRelTypes(r) ==
    /\ r.kind = "reltypes"
    /\ wire' = Refreshed(wire \ {r}, cache)
    /\ UNCHANGED <<login, page>>

AnswerList(r) ==
    /\ r.kind = "list"
    /\ cache' = IF r.ans = "ok" THEN {r.ids} ELSE cache
    /\ Done(r)
    /\ UNCHANGED <<login, cur, ver, views, dock, panel, form, modal>>

\* Seeded fault: the card itself is among the targets.
AnswerSearchAll(r) ==
    /\ r.kind = "search"
    /\ modal' = IF r.ans = "ok" THEN [modal EXCEPT !.found = r.ids] ELSE modal
    /\ Done(r)
    /\ UNCHANGED <<login, cache, cur, ver, views, dock, panel, form>>

AnswerSearch(r) ==
    /\ r.kind = "search"
    /\ modal' = IF r.ans = "ok" THEN [modal EXCEPT !.found = r.ids \ {cur}] ELSE modal
    /\ Done(r)
    /\ UNCHANGED <<login, cache, cur, ver, views, dock, panel, form>>

\* The rest of showEntity; without an entity in the answer the page stays as it is.
\* Without the schema the panel has no fields, but its relations are there.
AnswerDetail(r) ==
    /\ r.kind = "detail"
    /\ IF r.ans = "ok"
       THEN /\ ver' = r.ver
            /\ ShowMain("detail")
            /\ panel' = [id |-> r.id, ver |-> r.ver, full |-> schema,
                         graph |-> IF dock THEN r.id ELSE panel.graph]
       ELSE UNCHANGED <<ver, views, dock, panel>>
    /\ Done(r)
    /\ UNCHANGED <<login, cache, cur, form, modal>>

\* Seeded fault: the panel stays up next to the form.
AnswerEditBeside(r) ==
    /\ r.kind = "edit"
    /\ views' = IF r.ans = "lost" THEN views ELSE views \cup {"form"}
    /\ form' = IF r.ans # "ok" THEN form
               ELSE [id |-> r.id, home |-> IF schema THEN r.id ELSE None, base |-> r.ver,
                     typed |-> schema, fixed |-> TRUE]
    /\ Done(r)
    /\ UNCHANGED <<login, cache, cur, ver, dock, panel, modal>>

\* The rest of the edit click: the panels are switched by hand, and before a missing
\* entity makes it throw.  Without the schema the form has no type and no fields.
AnswerEdit(r) ==
    /\ r.kind = "edit"
    /\ views' = IF r.ans = "lost" THEN views ELSE (views \ {"empty", "detail"}) \cup {"form"}
    /\ form' = IF r.ans # "ok" THEN form
               ELSE [id |-> r.id, home |-> IF schema THEN r.id ELSE None, base |-> r.ver,
                     typed |-> schema, fixed |-> TRUE]
    /\ Done(r)
    /\ UNCHANGED <<login, cache, cur, ver, dock, panel, modal>>

AnswerSave(r) ==
    /\ r.kind \in {"put", "post"}
    /\ IF r.ans = "ok" THEN Show(r.id, Refreshed(wire \ {r}, cache)) ELSE Done(r) /\ UNCHANGED cur
    /\ UNCHANGED <<login, cache, ver, views, dock, panel, form, modal>>

AnswerDelete(r) ==
    /\ r.kind = "delete"
    /\ IF r.ans = "ok"
       THEN /\ cur' = None
            /\ wire' = Refreshed(wire \ {r}, cache)
            /\ views' = (views \ {"detail"}) \cup {"empty"}
       ELSE Done(r) /\ UNCHANGED <<cur, views>>
    /\ UNCHANGED <<login, cache, ver, dock, panel, form, modal>>

\* An inline edit: the fresh card comes and is sent back with the one field changed; then
\* the list is fetched anew and the card is shown.
AnswerInline(r) ==
    /\ \/ /\ r.kind = "inget"
          /\ IF r.ans = "ok"
             THEN Served(r, [r EXCEPT !.kind = "input", !.ans = "none"])
             ELSE Done(r)
          /\ UNCHANGED <<cache, cur>>
       \/ /\ r.kind = "input"
          /\ IF r.ans = "ok"
             THEN cache' = {} /\ Show(r.id, Refreshed(wire \ {r}, {}))
             ELSE Done(r) /\ UNCHANGED <<cache, cur>>
    /\ UNCHANGED <<login, ver, views, dock, panel, form, modal>>

AnswerTie(r) ==
    /\ \/ r.kind = "tie" /\ modal' = [modal EXCEPT !.open = @ /\ r.ans # "ok"]
       \/ r.kind = "untie" /\ UNCHANGED modal
    /\ IF r.ans = "ok"
       THEN Show(IF r.kind = "tie" THEN cur ELSE r.home, wire \ {r})
       ELSE Done(r) /\ UNCHANGED cur
    /\ UNCHANGED <<login, cache, ver, views, dock, panel, form>>

Answer(r) ==
    /\ r.ans # "none"
    /\ \/ AnswerLogin(r) \/ AnswerRegister(r) \/ AnswerPin(r) \/ AnswerLogout(r)
       \/ AnswerSchema(r) \/ AnswerRelTypes(r) \/ AnswerList(r) \/ AnswerSearch(r)
       \/ AnswerDetail(r) \/ AnswerEdit(r) \/ AnswerSave(r) \/ AnswerDelete(r)
       \/ AnswerInline(r) \/ AnswerTie(r)
    /\ UNCHANGED <<server, acts, news>>

User ==
    \/ ToggleRegister \/ SubmitLogin \/ SubmitPin \/ Logout \/ Filter
    \/ New \/ Edit \/ Cancel \/ Save \/ Delete \/ SaveInline
    \/ ToggleDock \/ CloseDock \/ CloseOther
    \/ OpenModal \/ Search \/ CloseModal \/ SaveTie
    \/ \E id \in Ids : \/ ClickRow(id) \/ ClickChip(id) \/ ClickNode(id) \/ ClickAtom(id)
                      \/ Fill(id) \/ PickTarget(id)
    \/ \E v \in {"help", "story", "atom"} : OpenOther(v)
    \/ \E t \in ties : DeleteTie(t)

Next ==
    \/ User
    \/ Others
    \/ Restart
    \/ \E r \in wire : Serve(r) \/ Fail(r) \/ Answer(r)

Spec == Init /\ [][Next]_vars

(***************************************************************************)
(* Properties.                                                             *)
(***************************************************************************)
\* The types of the variables.
TypeOK ==
    /\ rows \in [Ids -> Rows] /\ ties \subseteq Ties /\ live \in BOOLEAN
    /\ screen \in {"login", "register", "pin", "app"} /\ schema \in BOOLEAN
    /\ cache \subseteq SUBSET Ids
    /\ cur \in IdsOrNone /\ ver \in Nat
    /\ views \subseteq Views /\ dock \in BOOLEAN
    /\ panel \in [id : IdsOrNone, ver : Nat, full : BOOLEAN, graph : IdsOrNone]
    /\ form \in [id : IdsOrNone, home : IdsOrNone, base : Nat, typed : BOOLEAN, fixed : BOOLEAN]
    /\ modal \in [open : BOOLEAN, found : SUBSET Ids, target : IdsOrNone]
    /\ wire \subseteq Requests
    /\ acts \in Nat /\ news \in Nat

\* What was typed for one card is never stored as another, and no card is stored from a form
\* that was never filled: the save handlers take the id from currentEntityId, the fields
\* from the form or the panel, and a missing schema leaves the form without fields.
HomeCards == \A id \in Ids : Live(id) => rows[id].home = id

\* A relation joins two cards and was drawn on the card it starts from, unless that card
\* had been deleted: the dialog takes its source from currentEntityId at the time of the
\* save, and filters the targets by what it was when the search came back.
TiesHome == \A t \in ties : t.from # t.to /\ (t.from = t.home \/ ~Live(t.from))

\* A form or a deletion the server is about to accept replaces the version the user has
\* seen: the form's fields and the version sent with them come from different requests.
NothingUnseen ==
    \A r \in wire : r.ans = "none" /\ r.kind \in {"put", "delete"} /\ Current(r)
                       => r.base = r.ver /\ r.home = r.id

\* "ID field is immutable during edit" (app.js:652): what is saved from a form that was opened
\* on a card goes to that card.  The save takes currentEntityId, which a click on another
\* card has already moved when the load of that card fails and the form stays.
IdImmutable ==
    \A r \in wire : r.kind = "put" /\ r.base # 0 /\ Current(r) => r.id = r.home

\* "only ONE panel visible at a time" (app.js:821), although the edit click
\* and the deletion switch panels without it.
OnePanel == \A v, w \in views : v = w
=============================================================================

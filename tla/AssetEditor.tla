---------------------------- MODULE AssetEditor -----------------------------
(***************************************************************************)
(* The cards of the asset editor: the entities table and its edit log, the *)
(* sessions and edit locks the server keeps in memory, and the handlers    *)
(* of editor/backend/server/api.go over entity/repo.go.                    *)
(*                                                                         *)
(* The HTTP server runs each request on a goroutine of its own.  Sessions  *)
(* and locks are read and written under one mutex; the table is read       *)
(* outside the transaction that later writes it.  One action below is one  *)
(* critical section, one query or one transaction, so that a handler is a  *)
(* chain of actions other requests come between.  A client loads a card,   *)
(* keeps it on screen as long as it likes, and sends back the version it   *)
(* loaded.                                                                 *)
(***************************************************************************)
EXTENDS Integers, Sequences

CONSTANTS
    Clients,    \* browser windows, each with at most one request in flight
    Tokens,     \* session tokens, in the end used up
    Ids,        \* ids of cards, chosen by the people who create them
    Fields,     \* the columns and data keys of a card
    Keys,       \* the data keys among them, which a patch may name
    Tracked,    \* the fields diffEntities compares: name and the data keys
    Announced,  \* the fields the log has of a new card: those and the type
    Required,   \* the fields the schema requires
    Values,     \* what a field may hold
    Missing,    \* the empty value
    Forms,      \* what people send from a form: contents of a card
    ReuseIds,   \* may an id be given to a new card after its card was deleted?
    MaxLog      \* bound of the explored instance: log entries in all

ASSUME EditorAssumption ==
    /\ Keys \subseteq Tracked /\ Tracked \subseteq Announced /\ Announced \subseteq Fields
    /\ Required \subseteq Fields
    /\ Missing \in Values /\ Forms \subseteq [Fields -> Values]
    /\ ReuseIds \in BOOLEAN
    /\ MaxLog \in Nat

Ops  == {"create", "update", "inline", "delete", "lock", "unlock"}
Data == [Fields -> Values]

VARIABLES
    rows,      \* live id -> [version, data]
    log,       \* sys_edit_log, in the order of the transactions
    session,   \* token -> "new", "live" or "out"
    locks,     \* locked id -> the token that holds it
    req        \* client -> the card on its screen and its request

vars == <<rows, log, session, locks, req>>

NoCard == [version |-> 0, data |-> [f \in Fields |-> Missing]]

\* A client with nothing on screen; then one with a card loaded.
Idle == [pc |-> "idle", op |-> "none", id |-> "none", token |-> "none",
         shown |-> NoCard, seen |-> NoCard, sent |-> NoCard.data, new |-> NoCard.data]

Form(id, card) == [Idle EXCEPT !.pc = "form", !.id = id, !.shown = card]

At(p, pc)     == req[p].pc = pc
Becomes(p, r) == req' = [req EXCEPT ![p] = r]
Goto(p, pc)   == Becomes(p, [req[p] EXCEPT !.pc = pc])
Finish(p)     == Becomes(p, Idle)

\* An answer that is an error leaves the card on screen, as it was loaded.
Unanswered(p) ==
    IF req[p].shown = NoCard THEN Idle ELSE Form(req[p].id, req[p].shown)
Refuse(p) == Becomes(p, Unanswered(p))

Deleted == {log[i].id : i \in {j \in DOMAIN log : log[j].action = "delete"}}

RequiredMissing(data) == {f \in Required : data[f] = Missing}

Init ==
    /\ rows = [id \in {} |-> NoCard]
    /\ log = << >>
    /\ session = [t \in Tokens |-> "new"]
    /\ locks = [id \in {} |-> id]
    /\ req = [p \in Clients |-> Idle]

-----------------------------------------------------------------------------
\* POST /api/login gives the browser a token nobody has had; POST /api/logout
\* forgets the token, and leaves its locks and its requests in flight.
Login(t) ==
    /\ session[t] = "new"
    /\ session' = [session EXCEPT ![t] = "live"]
    /\ UNCHANGED <<rows, log, locks, req>>

Logout(t) ==
    /\ session[t] = "live"
    /\ session' = [session EXCEPT ![t] = "out"]
    /\ UNCHANGED <<rows, log, locks, req>>

\* GET /api/entity/{id}: the card comes on screen, with its version.
Open(p) ==
    /\ At(p, "idle")
    /\ \E id \in DOMAIN rows :
         Becomes(p, Form(id, rows[id]))
    /\ UNCHANGED <<rows, log, session, locks>>

Close(p) ==
    /\ At(p, "form")
    /\ Finish(p)
    /\ UNCHANGED <<rows, log, session, locks>>

-----------------------------------------------------------------------------
\* A request sets out with the cookie the browser holds.
Submit(p, op, id, token, sent) ==
    /\ session[token] # "new" /\ Len(log) < MaxLog
    /\ Becomes(p, [req[p] EXCEPT !.pc = "who", !.op = op, !.id = id,
                                 !.token = token, !.sent = sent, !.new = sent])
    /\ UNCHANGED <<rows, log, session, locks>>

\* POST /api/entity, POST and DELETE /api/lock/{id} need no card on screen.
SubmitCreate(p) ==
    /\ At(p, "idle")
    /\ \E id \in Ids, token \in Tokens, data \in Forms : Submit(p, "create", id, token, data)

SubmitLock(p) ==
    /\ At(p, "idle")
    /\ \E op \in {"lock", "unlock"}, id \in Ids, token \in Tokens :
         Submit(p, op, id, token, NoCard.data)

\* PUT and DELETE /api/entity/{id} and PATCH .../inline carry the version of the
\* card on screen; a patch names some of the data keys.
SubmitEdit(p) ==
    /\ At(p, "form")
    /\ \E token \in Tokens :
         \/ \E data \in Forms : Submit(p, "update", req[p].id, token, data)
         \/ \E some \in SUBSET Keys : \E patch \in [some -> Values] :
              Submit(p, "inline", req[p].id, token, patch)
         \/ Submit(p, "delete", req[p].id, token, NoCard.data)

\* getWho: a session that is not live is a guest, and a guest changes nothing.
Who(p) ==
    /\ At(p, "who")
    /\ \/ /\ session[req[p].token] = "live"
          /\ Goto(p, CASE req[p].op = "create" -> "tx"
                       [] req[p].op \in {"lock", "unlock"} -> "mutex"
                       [] OTHER -> "canEdit")
       \/ /\ session[req[p].token] # "live"
          /\ Refuse(p)
    /\ UNCHANGED <<rows, log, session, locks>>

\* canEdit: a card somebody else has locked is left alone.
CanEdit(p) ==
    /\ At(p, "canEdit")
    /\ LET mine == req[p].id \in DOMAIN locks => locks[req[p].id] = req[p].token
       IN  \/ /\ mine
              /\ Goto(p, CASE req[p].op = "update" -> "old"
                           [] req[p].op = "inline" -> "patch"
                           [] OTHER -> "tx")
           \/ /\ ~mine
              /\ Refuse(p)
    /\ UNCHANGED <<rows, log, session, locks>>

\* The body of lockEntity or of unlockEntity, under the mutex.
LockOrUnlock(p) ==
    /\ At(p, "mutex")
    /\ LET id   == req[p].id
           held == id \in DOMAIN locks
           mine == held /\ locks[id] = req[p].token
       IN  locks' = IF req[p].op = "lock" /\ ~held
                    THEN [i \in DOMAIN locks \cup {id} |->
                            IF i = id THEN req[p].token ELSE locks[i]]
                    ELSE IF req[p].op = "unlock" /\ mine
                    THEN [i \in DOMAIN locks \ {id} |-> locks[i]]
                    ELSE locks
    /\ Finish(p)
    /\ UNCHANGED <<rows, log, session>>

-----------------------------------------------------------------------------
\* Seeded fault: the patch replaces the data column.
MergeOnlyPatch(data, patch) ==
    [f \in Fields |-> IF f \in DOMAIN patch THEN patch[f]
                      ELSE IF f \in Keys THEN Missing ELSE data[f]]

Merge(data, patch) == [f \in Fields |-> IF f \in DOMAIN patch THEN patch[f] ELSE data[f]]

\* updateInline: the patch is laid over the row as it is now.
ReadPatched(p) ==
    /\ At(p, "patch")
    /\ \/ /\ req[p].id \in DOMAIN rows
          /\ Becomes(p, [req[p] EXCEPT !.new = Merge(rows[req[p].id].data, req[p].sent),
                                       !.pc = "old"])
       \/ /\ req[p].id \notin DOMAIN rows
          /\ Refuse(p)
    /\ UNCHANGED <<rows, log, session, locks>>

\* entity.Update: what the form requires is there, and the row is read for the
\* log, before the transaction begins.
ReadOld(p) ==
    /\ At(p, "old")
    /\ LET found == RequiredMissing(req[p].new) = {} /\ req[p].id \in DOMAIN rows
       IN  \/ /\ found
              /\ Becomes(p, [req[p] EXCEPT !.seen = rows[req[p].id], !.pc = "tx"])
           \/ /\ ~found
              /\ Refuse(p)
    /\ UNCHANGED <<rows, log, session, locks>>

\* Seeded fault: a field that is gone from the new data is not reported.
DiffWithoutCleared(old, new) ==
    [f \in {g \in Tracked : old[g] # new[g] /\ new[g] # Missing} |-> <<old[f], new[f]>>]

\* diffEntities: old and new value of each field that differs, of those it looks
\* at; a change of the type, the tags or the provenance it does not report.
DiffEntities(old, new) ==
    [f \in {g \in Tracked : old[g] # new[g]} |-> <<old[f], new[f]>>]

\* What the log says of a new card, and of a deleted one: only that it is.
AllNew(data) == [f \in Announced |-> <<Missing, data[f]>>]
NoChanges    == [f \in {} |-> f]

Entry(action, id, version, changes) ==
    [action |-> action, id |-> id, version |-> version, changes |-> changes]

\* Seeded fault: the WHERE clause of UPDATE and DELETE names only the id.
CurrentWhateverVersion(p) == req[p].id \in DOMAIN rows

\* The row must still have the version the client loaded.
Current(p) == req[p].id \in DOMAIN rows /\ rows[req[p].id].version = req[p].shown.version

\* Seeded fault: the version of a new card is left to the column's default.
CreateUnversioned(p) ==
    /\ At(p, "tx") /\ req[p].op = "create"
    /\ RequiredMissing(req[p].new) = {} /\ req[p].id \notin DOMAIN rows
    /\ rows' = [i \in DOMAIN rows \cup {req[p].id} |->
                  IF i = req[p].id THEN [version |-> 0, data |-> req[p].new] ELSE rows[i]]
    /\ log' = Append(log, Entry("create", req[p].id, 1, AllNew(req[p].new)))
    /\ Finish(p)
    /\ UNCHANGED <<session, locks>>

\* entity.Create: the primary key refuses an id that is in use.  Unless ReuseIds,
\* people never choose the id of a card that was deleted.
CreateTx(p) ==
    /\ At(p, "tx") /\ req[p].op = "create"
    /\ LET id == req[p].id
           ok == RequiredMissing(req[p].new) = {} /\ id \notin DOMAIN rows
       IN  \/ /\ ok /\ (ReuseIds \/ id \notin Deleted)
              /\ rows' = [i \in DOMAIN rows \cup {id} |->
                            IF i = id THEN [version |-> 1, data |-> req[p].new] ELSE rows[i]]
              /\ log' = Append(log, Entry("create", id, 1, AllNew(req[p].new)))
              /\ Finish(p)
           \/ /\ ~ok
              /\ Refuse(p)
              /\ UNCHANGED <<rows, log>>
    /\ UNCHANGED <<session, locks>>

\* Seeded fault: the UPDATE does not count the version up.
UpdateSameVersion(p) ==
    /\ At(p, "tx") /\ req[p].op \in {"update", "inline"} /\ Current(p)
    /\ rows' = [rows EXCEPT ![req[p].id].data = req[p].new]
    /\ log' = Append(log, Entry("update", req[p].id, req[p].shown.version,
                                DiffEntities(req[p].seen.data, req[p].new)))
    /\ Finish(p)
    /\ UNCHANGED <<session, locks>>

\* entity.Update's transaction: UPDATE ... WHERE id=? AND version=? and the log.
UpdateTx(p) ==
    /\ At(p, "tx") /\ req[p].op \in {"update", "inline"}
    /\ LET id  == req[p].id
           nxt == req[p].shown.version + 1
       IN  \/ /\ Current(p)
              /\ rows' = [rows EXCEPT ![id] = [version |-> nxt, data |-> req[p].new]]
              /\ log' = Append(log, Entry("update", id, nxt,
                                          DiffEntities(req[p].seen.data, req[p].new)))
              /\ Finish(p)
           \/ /\ ~Current(p)
              /\ Refuse(p)
              /\ UNCHANGED <<rows, log>>
    /\ UNCHANGED <<session, locks>>

\* entity.Delete: DELETE ... WHERE id=? AND version=? and the log.
DeleteTx(p) ==
    /\ At(p, "tx") /\ req[p].op = "delete"
    /\ LET id == req[p].id
       IN  \/ /\ Current(p)
              /\ rows' = [i \in DOMAIN rows \ {id} |-> rows[i]]
              /\ log' = Append(log, Entry("delete", id, req[p].shown.version, NoChanges))
              /\ Finish(p)
           \/ /\ ~Current(p)
              /\ Refuse(p)
              /\ UNCHANGED <<rows, log>>
    /\ UNCHANGED <<session, locks>>

-----------------------------------------------------------------------------
\* A query fails or a transaction finds the database busy: it rolls back.
Fail(p) ==
    /\ req[p].pc \notin {"idle", "form"}
    /\ Refuse(p)
    /\ UNCHANGED <<rows, log, session, locks>>

\* The server stops and starts: sessions, locks and requests were in memory, what
\* the browsers have on screen was not.
Restart ==
    /\ session' = [t \in Tokens |-> IF session[t] = "live" THEN "out" ELSE session[t]]
    /\ locks' = [id \in {} |-> id]
    /\ req' = [p \in Clients |-> Unanswered(p)]
    /\ UNCHANGED <<rows, log>>

Handle(p) ==
    \/ Who(p) \/ CanEdit(p) \/ LockOrUnlock(p)
    \/ ReadPatched(p) \/ ReadOld(p)
    \/ CreateTx(p) \/ UpdateTx(p) \/ DeleteTx(p)

Next ==
    \/ \E t \in Tokens : Login(t) \/ Logout(t)
    \/ \E p \in Clients :
         \/ Open(p) \/ Close(p)
         \/ SubmitCreate(p) \/ SubmitLock(p) \/ SubmitEdit(p)
         \/ Handle(p) \/ Fail(p)
    \/ Restart

Spec == Init /\ [][Next]_vars

-----------------------------------------------------------------------------
Row      == [version : Nat, data : Data]
Patch    == UNION {[some -> Values] : some \in SUBSET Fields}
Changes  == UNION {[some -> Values \X Values] : some \in SUBSET Announced}
LogEntry == [action : {"create", "update", "delete"}, id : Ids, version : Nat \ {0},
             changes : Changes]
Request  == [pc : {"idle", "form", "who", "canEdit", "mutex", "patch", "old", "tx"},
             op : Ops \cup {"none"}, id : Ids \cup {"none"}, token : Tokens \cup {"none"},
             shown : Row, seen : Row, sent : Patch, new : Patch]

\* A request between its handler's start and its answer, by operation; what is
\* about to be stored is a whole card.
FitsHandler(r) ==
    /\ r.pc \notin {"idle", "form"} => r.id \in Ids /\ r.token \in Tokens /\ r.op \in Ops
    /\ r.pc = "idle" => r.op = "none"
    /\ r.pc = "form" => r.id \in Ids
    /\ r.pc = "mutex" => r.op \in {"lock", "unlock"}
    /\ r.pc = "canEdit" => r.op \in {"update", "inline", "delete"}
    /\ r.pc = "patch" => r.op = "inline"
    /\ r.pc = "old" => r.op \in {"update", "inline"}
    /\ r.pc = "tx" => r.op \in {"create", "update", "inline", "delete"}
    /\ r.op \in {"create", "update", "delete"} \/ r.pc \in {"old", "tx"} => r.new \in Data
    /\ r.op \in {"update", "inline", "delete"} \/ r.pc = "form" <=> r.shown # NoCard

\* Types; every stored card has a version clients can send back (0 is what a
\* request without one sends).
TypeOK ==
    /\ rows \in [DOMAIN rows -> [version : Nat \ {0}, data : Data]] /\ DOMAIN rows \subseteq Ids
    /\ log \in Seq(LogEntry)
    /\ session \in [Tokens -> {"new", "live", "out"}]
    /\ locks \in [DOMAIN locks -> Tokens] /\ DOMAIN locks \subseteq Ids
    /\ req \in [Clients -> Request] /\ \A p \in Clients : FitsHandler(req[p])

\* entity/repo.go reads the row before the transaction that rewrites it.  While
\* the row still has the version a client loaded, everything the request knows
\* is up to date: the card on screen, the row read for the log, and the
\* row an inline patch was laid over.  A version never comes back.
ScreensAge ==
    \A p \in Clients :
        LET r == req[p]
        IN  r.shown # NoCard =>
              /\ r.id \notin DOMAIN rows => r.id \in Deleted
              /\ r.id \in DOMAIN rows =>
                    /\ r.shown.version <= rows[r.id].version
                    /\ Current(p) =>
                         /\ r.shown = rows[r.id]
                         /\ r.pc = "tx" /\ r.op \in {"update", "inline"} => r.seen = rows[r.id]
                         /\ r.pc \in {"old", "tx"} /\ r.op = "inline" =>
                               r.new = Merge(rows[r.id].data, r.sent)

\* The log and the table tell the same story (README.md: who did what, before and
\* after): a card changes only together with one log entry of its id and new
\* version; the entry of a creation gives the new values, and that of an update,
\* which was put together from a row read before the transaction, names
\* exactly the tracked fields that change in the transaction, from what to
\* what.  This is what the code does and less than README.md says: the log
\* has no values of a deleted card and no change of an untracked field.
Told(e) ==
    LET id == e.id
    IN  /\ e.action = "create" <=> id \notin DOMAIN rows
        /\ e.action = "delete" <=> id \notin DOMAIN rows'
        /\ \A i \in Ids \ {id} :
              /\ i \in DOMAIN rows <=> i \in DOMAIN rows'
              /\ i \in DOMAIN rows => rows'[i] = rows[i]
        /\ e.action # "delete" => e.version = rows'[id].version
        /\ e.action = "create" => e.changes = AllNew(rows'[id].data)
        /\ e.action = "update" =>
              /\ e.version = rows[id].version + 1
              /\ \A f \in Tracked :
                    /\ f \in DOMAIN e.changes <=> rows'[id].data[f] # rows[id].data[f]
                    /\ f \in DOMAIN e.changes =>
                          e.changes[f] = <<rows[id].data[f], rows'[id].data[f]>>
LogTellsTheChange ==
    [][\/ log' = log /\ rows' = rows
       \/ \E e \in {log'[Len(log')]} : log' = Append(log, e) /\ Told(e)]_<<log, rows>>

\* The log can be replayed: the last thing it says of a tracked field of a card is
\* what the table holds.  So what a deletion or the next update takes away is
\* in the log, though a deletion's entry has no values; a difference
\* computed from a row that is not the one overwritten would break it.
Says(i, id, f) == log[i].id = id /\ f \in DOMAIN log[i].changes
LogReplays ==
    \A id \in DOMAIN rows, f \in Tracked :
        \E i \in DOMAIN log :
            /\ Says(i, id, f) /\ log[i].changes[f][2] = rows[id].data[f]
            /\ \A j \in DOMAIN log : j > i => ~Says(j, id, f)

\* An inline patch leaves the fields it does not name as they are in the table at
\* that moment, although updateInline read them two queries earlier.
PatchKeepsRest ==
    [][\A p \in Clients :
          req[p].op = "inline" /\ req'[p] # req[p] /\ rows' # rows =>
              \A f \in Fields \ DOMAIN req[p].sent :
                  rows'[req[p].id].data[f] = rows[req[p].id].data[f]]_<<rows, req>>

\* A lock stays with its token until an unlock under that token or a restart:
\* neither other sessions nor a logout take it away.
LockIsKept ==
    [][\A id \in DOMAIN locks :
          \/ id \in DOMAIN locks' /\ locks'[id] = locks[id]
          \/ \E p \in Clients : req[p].op = "unlock" /\ req[p].id = id
                                /\ req[p].token = locks[id] /\ req'[p] = Idle
          \/ locks' = [i \in {} |-> i]]_<<locks, req>>

\* README.md: an update never overwrites what somebody else changed after the
\* client loaded the card.
NoBlindOverwrite ==
    [][\A p \in Clients :
          At(p, "tx") /\ req[p].op \in {"update", "inline"} /\ req'[p] # req[p] /\ rows' # rows =>
              req[p].shown = rows[req[p].id]]_<<rows, req>>

\* The editor implements the table its users were promised: nobody overwrites
\* what they have not seen.
Cards == INSTANCE CardTable
           WITH Cards <- Data,
                table <- [id \in DOMAIN rows |-> rows[id].data],
                screen <- [p \in Clients |->
                             IF req[p].shown = NoCard THEN {}
                             ELSE {<<req[p].id, req[p].shown.data>>}]
ImplementsCards == Cards!Spec
=============================================================================

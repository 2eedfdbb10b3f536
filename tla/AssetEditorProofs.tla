------------------------- MODULE AssetEditorProofs --------------------------
(***************************************************************************)
(* Proofs about AssetEditor: types first, then ScreensAge, the inductive   *)
(* fact that a version a client loaded never comes back for other          *)
(* contents, and from it what users were promised.  All but the types and  *)
(* the locks need ~ReuseIds: a card re-created under a deleted id starts   *)
(* again at version 1.                                                     *)
(***************************************************************************)
EXTENDS AssetEditor, TLAPS

LEMMA NoCardTypes ==
    /\ NoCard \in Row /\ NoCard.version = 0 /\ NoCard.data \in Data
    /\ Data \subseteq Patch
BY EditorAssumption DEF NoCard, Row, Data, Patch

LEMMA IdleTypes ==
    /\ Idle \in Request /\ FitsHandler(Idle) /\ Idle.pc = "idle" /\ Idle.shown = NoCard
BY NoCardTypes DEF Idle, Request, FitsHandler

LEMMA FormTypes ==
    ASSUME NEW id \in Ids, NEW card \in Row, card # NoCard
    PROVE  /\ Form(id, card) \in Request /\ FitsHandler(Form(id, card))
           /\ Form(id, card).pc = "form" /\ Form(id, card).id = id
           /\ Form(id, card).shown = card
BY NoCardTypes DEF Form, Idle, Request, FitsHandler

\* A request leaves the others as they are.
Others(p) == \A q \in Clients : q # p => req'[q] = req[q]

LEMMA OneRequest ==
    ASSUME TypeOK, NEW p \in Clients, NEW r, Becomes(p, r)
    PROVE  /\ req'[p] = r /\ Others(p)
           /\ r \in Request /\ FitsHandler(r) =>
                req' \in [Clients -> Request] /\ \A q \in Clients : FitsHandler(req'[q])
BY DEF TypeOK, Becomes, Others

LEMMA UnansweredTypes ==
    ASSUME TypeOK, NEW p \in Clients
    PROVE  /\ Unanswered(p) \in Request /\ FitsHandler(Unanswered(p))
           /\ Unanswered(p).shown = req[p].shown
           /\ req[p].shown # NoCard => Unanswered(p).id = req[p].id
           /\ Unanswered(p).pc \in {"idle", "form"}
<1>1. req[p] \in Request /\ FitsHandler(req[p])
  BY DEF TypeOK
<1>2. CASE req[p].shown = NoCard
  BY <1>2, IdleTypes DEF Unanswered
<1>3. CASE req[p].shown # NoCard
  <2>1. req[p].id \in Ids /\ req[p].shown \in Row
    BY <1>1, <1>3, IdleTypes DEF FitsHandler, Request
  <2> QED
    BY <1>3, <2>1, FormTypes DEF Unanswered
<1> QED
  BY <1>2, <1>3

-----------------------------------------------------------------------------
\* Types, the tables first: most steps touch none of them.
Tables == <<rows, log, session, locks>>

TablesOK ==
    /\ rows \in [DOMAIN rows -> [version : Nat \ {0}, data : Data]] /\ DOMAIN rows \subseteq Ids
    /\ log \in Seq(LogEntry)
    /\ session \in [Tokens -> {"new", "live", "out"}]
    /\ locks \in [DOMAIN locks -> Tokens] /\ DOMAIN locks \subseteq Ids

LEMMA SplitTypes ==
    TypeOK <=> TablesOK /\ req \in [Clients -> Request] /\ \A p \in Clients : FitsHandler(req[p])
BY DEF TypeOK, TablesOK

LEMMA SameTables == ASSUME TablesOK, UNCHANGED Tables PROVE TablesOK'
BY DEF TablesOK, Tables

LEMMA InitTypes == Init => TypeOK
<1> SUFFICES ASSUME Init PROVE TypeOK
  OBVIOUS
<1>1. TablesOK
  BY DEF Init, TablesOK
<1>2. req = [p \in Clients |-> Idle]
  BY DEF Init
<1> QED
  BY <1>1, <1>2, IdleTypes, SplitTypes

LEMMA RowTypes == TypeOK => \A id \in DOMAIN rows : /\ id \in Ids /\ rows[id] \in Row
                                                    /\ rows[id] # NoCard
                                                    /\ rows[id].data \in Data
                                                    /\ rows[id].version \in Nat \ {0}
                                                    /\ rows[id] = [version |-> rows[id].version,
                                                                   data |-> rows[id].data]
BY NoCardTypes DEF TypeOK, Row

LEMMA DiffTypes ==
    ASSUME NEW old \in Data, NEW new \in Data
    PROVE  DiffEntities(old, new) \in Changes /\ AllNew(new) \in Changes /\ NoChanges \in Changes
<1>1. \A f \in Announced : old[f] \in Values /\ new[f] \in Values
  BY EditorAssumption DEF Data
<1>2. {g \in Tracked : old[g] # new[g]} \subseteq Announced
  BY EditorAssumption
<1>3. DiffEntities(old, new) \in [{g \in Tracked : old[g] # new[g]} -> Values \X Values]
  BY <1>1, <1>2 DEF DiffEntities
<1>4. AllNew(new) \in [Announced -> Values \X Values]
  BY <1>1, EditorAssumption DEF AllNew
<1>5. NoChanges \in [{} -> Values \X Values]
  BY DEF NoChanges
<1> QED
  BY <1>2, <1>3, <1>4, <1>5 DEF Changes

LEMMA FormsFit == Forms \subseteq Data
BY EditorAssumption DEF Data

LEMMA PatchesFit ==
    ASSUME NEW some \in SUBSET Keys, NEW patch \in [some -> Values] PROVE patch \in Patch
<1>1. some \in SUBSET Fields
  BY EditorAssumption
<1> QED
  BY <1>1 DEF Patch

LEMMA MergeTypes ==
    ASSUME NEW data \in Data, NEW patch \in Patch PROVE Merge(data, patch) \in Data
BY DEF Merge, Data, Patch

-----------------------------------------------------------------------------
\* What a client or a handler does without touching a table or a lock.
Quiet(p) ==
    \/ Open(p) \/ Close(p) \/ SubmitCreate(p) \/ SubmitLock(p) \/ SubmitEdit(p)
    \/ Who(p) \/ CanEdit(p) \/ ReadPatched(p) \/ ReadOld(p) \/ Fail(p)

LEMMA QuietTables == ASSUME NEW p, Quiet(p) PROVE UNCHANGED Tables
BY DEF Quiet, Tables, Open, Close, SubmitCreate, SubmitLock, SubmitEdit, Submit, Who, CanEdit,
       ReadPatched, ReadOld, Fail

LEMMA SubmitTypes ==
    ASSUME TypeOK, NEW p \in Clients, NEW op \in Ops, NEW id \in Ids, NEW token \in Tokens,
           NEW sent \in Patch, Submit(p, op, id, token, sent),
           op \in {"create", "update", "delete"} => sent \in Data,
           op \in {"update", "inline", "delete"} <=> req[p].shown # NoCard
    PROVE  /\ Becomes(p, req'[p]) /\ req'[p] \in Request /\ FitsHandler(req'[p])
           /\ req'[p].shown = req[p].shown /\ req'[p].id = id /\ req'[p].pc = "who"
<1> DEFINE r == [req[p] EXCEPT !.pc = "who", !.op = op, !.id = id,
                               !.token = token, !.sent = sent, !.new = sent]
<1>1. req[p] \in Request
  BY DEF TypeOK
<1>2. r \in Request /\ r.pc = "who" /\ r.op = op /\ r.id = id /\ r.token = token
      /\ r.new = sent /\ r.shown = req[p].shown
  BY <1>1 DEF Request
<1>3. FitsHandler(r)
  BY <1>2 DEF FitsHandler
<1>4. Becomes(p, r) /\ req'[p] = r
  BY OneRequest DEF Submit
<1> QED
  BY <1>2, <1>3, <1>4

\* A step of the handler that keeps the card on screen and moves on.
LEMMA GotoTypes ==
    ASSUME TypeOK, NEW p \in Clients, NEW pc \in {"mutex", "canEdit", "patch", "old", "tx"},
           Goto(p, pc), req[p].pc \notin {"idle", "form"},
           FitsHandler([req[p] EXCEPT !.pc = pc])
    PROVE  /\ Becomes(p, req'[p]) /\ req'[p] \in Request /\ FitsHandler(req'[p])
           /\ req'[p] = [req[p] EXCEPT !.pc = pc]
<1>1. req[p] \in Request /\ [req[p] EXCEPT !.pc = pc] \in Request
  BY DEF TypeOK, Request
<1>2. req'[p] = [req[p] EXCEPT !.pc = pc]
  BY OneRequest DEF Goto
<1> QED
  BY <1>1, <1>2 DEF Goto

LEMMA RequestNow == ASSUME TypeOK, NEW p \in Clients PROVE req[p] \in Request /\ FitsHandler(req[p])
BY DEF TypeOK

LEMMA QuietRequests ==
    ASSUME TypeOK, NEW p \in Clients, Quiet(p)
    PROVE  req' \in [Clients -> Request] /\ \A q \in Clients : FitsHandler(req'[q])
<1> DEFINE Ok == Becomes(p, req'[p]) /\ req'[p] \in Request /\ FitsHandler(req'[p])
<1>0. req[p] \in Request /\ FitsHandler(req[p])
  BY RequestNow
<1>1. CASE Open(p)
  <2>1. PICK id \in DOMAIN rows : Becomes(p, Form(id, rows[id]))
    BY <1>1 DEF Open
  <2> QED
    BY <2>1, FormTypes, RowTypes, OneRequest
<1>2. CASE Close(p)
  BY <1>2, IdleTypes, OneRequest DEF Close, Finish
<1>3. CASE SubmitCreate(p)
  <2>1. PICK id \in Ids, token \in Tokens, data \in Forms : Submit(p, "create", id, token, data)
    BY <1>3 DEF SubmitCreate
  <2>2. req[p].shown = NoCard
    BY <1>0, <1>3 DEF SubmitCreate, At, FitsHandler
  <2>3. "create" \in Ops /\ data \in Data /\ data \in Patch
    BY NoCardTypes, FormsFit DEF Ops
  <2>4. Ok
    BY <2>1, <2>2, <2>3, SubmitTypes
  <2> QED
    BY <2>4, OneRequest
<1>4. CASE SubmitLock(p)
  <2>1. PICK op \in {"lock", "unlock"}, id \in Ids, token \in Tokens :
          Submit(p, op, id, token, NoCard.data)
    BY <1>4 DEF SubmitLock
  <2>2. req[p].shown = NoCard
    BY <1>0, <1>4 DEF SubmitLock, At, FitsHandler
  <2>3. op \in Ops /\ NoCard.data \in Patch
    BY NoCardTypes DEF Ops
  <2>4. Ok
    BY <2>1, <2>2, <2>3, SubmitTypes
  <2> QED
    BY <2>4, OneRequest
<1>5. CASE SubmitEdit(p)
  <2>1. PICK token \in Tokens :
          \/ \E data \in Forms : Submit(p, "update", req[p].id, token, data)
          \/ \E some \in SUBSET Keys : \E patch \in [some -> Values] :
               Submit(p, "inline", req[p].id, token, patch)
          \/ Submit(p, "delete", req[p].id, token, NoCard.data)
    BY <1>5 DEF SubmitEdit
  <2>2. req[p].shown # NoCard /\ req[p].id \in Ids
    BY <1>0, <1>5 DEF SubmitEdit, At, FitsHandler
  <2>3. CASE \E data \in Forms : Submit(p, "update", req[p].id, token, data)
    <3>1. PICK data \in Forms : Submit(p, "update", req[p].id, token, data)
      BY <2>3
    <3>2. "update" \in Ops /\ data \in Data /\ data \in Patch
      BY NoCardTypes, FormsFit DEF Ops
    <3>3. Ok
      BY <3>1, <3>2, <2>2, SubmitTypes
    <3> QED
      BY <3>3, OneRequest
  <2>4. CASE \E some \in SUBSET Keys : \E patch \in [some -> Values] :
               Submit(p, "inline", req[p].id, token, patch)
    <3>1. PICK patch \in Patch : Submit(p, "inline", req[p].id, token, patch)
      BY <2>4, PatchesFit
    <3>2. "inline" \in Ops
      BY DEF Ops
    <3>3. Ok
      BY <3>1, <3>2, <2>2, SubmitTypes
    <3> QED
      BY <3>3, OneRequest
  <2>5. CASE Submit(p, "delete", req[p].id, token, NoCard.data)
    <3>1. "delete" \in Ops /\ NoCard.data \in Patch /\ NoCard.data \in Data
      BY NoCardTypes DEF Ops
    <3>2. Ok
      BY <2>5, <3>1, <2>2, SubmitTypes
    <3> QED
      BY <3>2, OneRequest
  <2> QED
    BY <2>1, <2>3, <2>4, <2>5
<1>6. CASE Who(p)
  <2>1. CASE Refuse(p)
    BY <2>1, UnansweredTypes, OneRequest DEF Refuse
  <2>2. CASE ~Refuse(p)
    <3> DEFINE pc == CASE req[p].op = "create" -> "tx"
                       [] req[p].op \in {"lock", "unlock"} -> "mutex"
                       [] OTHER -> "canEdit"
               r == [req[p] EXCEPT !.pc = pc]
    <3>1. Goto(p, pc) /\ req[p].pc = "who"
      BY <1>6, <2>2 DEF Who, At
    <3>2. /\ pc = "tx" => req[p].op = "create"
          /\ pc = "mutex" => req[p].op \in {"lock", "unlock"}
          /\ pc = "canEdit" => req[p].op \in {"update", "inline", "delete"}
          /\ pc \in {"tx", "mutex", "canEdit"}
      BY <1>0, <3>1 DEF FitsHandler, Ops
    <3> HIDE DEF pc
    <3>3. r \in Request /\ FitsHandler(r)
      BY <1>0, <3>1, <3>2 DEF Request, FitsHandler
    <3> QED
      BY <3>1, <3>3, OneRequest DEF Goto
  <2> QED
    BY <2>1, <2>2
<1>7. CASE CanEdit(p)
  <2>1. CASE Refuse(p)
    BY <2>1, UnansweredTypes, OneRequest DEF Refuse
  <2>2. CASE ~Refuse(p)
    <3> DEFINE pc == CASE req[p].op = "update" -> "old"
                       [] req[p].op = "inline" -> "patch"
                       [] OTHER -> "tx"
               r == [req[p] EXCEPT !.pc = pc]
    <3>1. Goto(p, pc) /\ req[p].pc = "canEdit"
      BY <1>7, <2>2 DEF CanEdit, At
    <3>2. /\ pc = "old" => req[p].op = "update"
          /\ pc = "patch" => req[p].op = "inline"
          /\ pc = "tx" => req[p].op = "delete"
          /\ pc \in {"old", "patch", "tx"}
      BY <1>0, <3>1 DEF FitsHandler
    <3> HIDE DEF pc
    <3>3. r \in Request /\ FitsHandler(r)
      BY <1>0, <3>1, <3>2 DEF Request, FitsHandler
    <3> QED
      BY <3>1, <3>3, OneRequest DEF Goto
  <2> QED
    BY <2>1, <2>2
<1>8. CASE ReadPatched(p)
  <2>1. CASE Refuse(p)
    BY <2>1, UnansweredTypes, OneRequest DEF Refuse
  <2>2. CASE ~Refuse(p)
    <3> DEFINE new == Merge(rows[req[p].id].data, req[p].sent)
               r   == [req[p] EXCEPT !.new = new, !.pc = "old"]
    <3>1. Becomes(p, r) /\ req[p].id \in DOMAIN rows /\ req[p].pc = "patch"
      BY <1>8, <2>2 DEF ReadPatched, At
    <3>2. new \in Data /\ new \in Patch
      BY <1>0, <3>1, RowTypes, MergeTypes, NoCardTypes DEF Request
    <3> HIDE DEF new
    <3>3. r \in Request /\ FitsHandler(r)
      BY <1>0, <3>1, <3>2 DEF Request, FitsHandler
    <3> QED
      BY <3>1, <3>3, OneRequest
  <2> QED
    BY <2>1, <2>2
<1>9. CASE ReadOld(p)
  <2>1. CASE Refuse(p)
    BY <2>1, UnansweredTypes, OneRequest DEF Refuse
  <2>2. CASE ~Refuse(p)
    <3> DEFINE r == [req[p] EXCEPT !.seen = rows[req[p].id], !.pc = "tx"]
    <3>1. Becomes(p, r) /\ req[p].id \in DOMAIN rows /\ req[p].pc = "old"
      BY <1>9, <2>2 DEF ReadOld, At
    <3>2. rows[req[p].id] \in Row
      BY <3>1, RowTypes
    <3>3. r \in Request /\ FitsHandler(r)
      BY <1>0, <3>1, <3>2 DEF Request, FitsHandler
    <3> QED
      BY <3>1, <3>3, OneRequest
  <2> QED
    BY <2>1, <2>2
<1>10. CASE Fail(p)
  BY <1>10, UnansweredTypes, OneRequest DEF Fail, Refuse
<1> QED
  BY <1>1, <1>2, <1>3, <1>4, <1>5, <1>6, <1>7, <1>8, <1>9, <1>10 DEF Quiet

LEMMA NextRequestTypes ==
    ASSUME TablesOK', req' \in [Clients -> Request], \A q \in Clients : FitsHandler(req'[q])
    PROVE  TypeOK'
BY DEF TypeOK, TablesOK, FitsHandler

LEMMA QuietTypes == ASSUME TypeOK, NEW p \in Clients, Quiet(p) PROVE TypeOK'
BY QuietRequests, QuietTables, SameTables, SplitTypes, NextRequestTypes

-----------------------------------------------------------------------------
\* The steps that write.
LEMMA LoginTypes == ASSUME TypeOK, NEW t \in Tokens, Login(t) \/ Logout(t) PROVE TypeOK'
<1>1. PICK s \in {"live", "out"} : session' = [session EXCEPT ![t] = s]
  BY DEF Login, Logout
<1>2. UNCHANGED <<rows, log, locks, req>>
  BY DEF Login, Logout
<1>3. TablesOK'
  BY <1>1, <1>2, SplitTypes DEF TablesOK
<1> QED
  BY <1>2, <1>3, SplitTypes, NextRequestTypes

LEMMA LockTypes == ASSUME TypeOK, NEW p \in Clients, LockOrUnlock(p) PROVE TypeOK'
<1>1. req' \in [Clients -> Request] /\ \A q \in Clients : FitsHandler(req'[q])
  BY IdleTypes, OneRequest DEF LockOrUnlock, Finish
<1>2. req[p].token \in Tokens /\ req[p].id \in Ids
  BY RequestNow DEF LockOrUnlock, At, FitsHandler
<1>3. TablesOK'
  BY <1>2, SplitTypes DEF TablesOK, LockOrUnlock
<1> QED
  BY <1>1, <1>3, NextRequestTypes

\* A transaction that commits frees the client; one that does not changes nothing.
TxCommits(p) == Finish(p) /\ (CreateTx(p) \/ UpdateTx(p) \/ DeleteTx(p))

LEMMA TxRequests ==
    ASSUME TypeOK, NEW p \in Clients, CreateTx(p) \/ UpdateTx(p) \/ DeleteTx(p)
    PROVE  /\ req' \in [Clients -> Request] /\ \A q \in Clients : FitsHandler(req'[q])
           /\ Others(p) /\ req'[p] \in {Idle, Unanswered(p)}
<1>1. Finish(p) \/ Refuse(p)
  BY DEF CreateTx, UpdateTx, DeleteTx
<1>2. CASE Finish(p)
  BY <1>2, IdleTypes, OneRequest DEF Finish
<1>3. CASE Refuse(p)
  BY <1>3, UnansweredTypes, OneRequest DEF Refuse
<1> QED
  BY <1>1, <1>2, <1>3

\* What each transaction does to the tables, in the words of the log.
LEMMA CreateStory ==
    ASSUME TypeOK, NEW p \in Clients, CreateTx(p), UNCHANGED <<rows, log>> => FALSE
    PROVE  LET id == req[p].id
               e  == Entry("create", id, 1, AllNew(req[p].new))
           IN  /\ id \in Ids /\ id \notin DOMAIN rows /\ (ReuseIds \/ id \notin Deleted)
               /\ req[p].new \in Data
               /\ rows' = [i \in DOMAIN rows \cup {id} |->
                             IF i = id THEN [version |-> 1, data |-> req[p].new] ELSE rows[i]]
               /\ log' = Append(log, e) /\ e \in LogEntry
               /\ UNCHANGED <<session, locks>> /\ req'[p] = Idle
<1>1. req[p].id \in Ids /\ req[p].new \in Data
  BY RequestNow DEF CreateTx, At, FitsHandler
<1>2. Entry("create", req[p].id, 1, AllNew(req[p].new)) \in LogEntry
  BY <1>1, DiffTypes DEF Entry, LogEntry
<1>3. Finish(p) => req'[p] = Idle
  BY OneRequest DEF Finish
<1> QED
  BY <1>1, <1>2, <1>3 DEF CreateTx

LEMMA UpdateStory ==
    ASSUME TypeOK, NEW p \in Clients, UpdateTx(p), UNCHANGED <<rows, log>> => FALSE
    PROVE  LET id  == req[p].id
               nxt == req[p].shown.version + 1
               e   == Entry("update", id, nxt, DiffEntities(req[p].seen.data, req[p].new))
           IN  /\ id \in Ids /\ Current(p) /\ id \in DOMAIN rows
               /\ req[p].new \in Data /\ nxt \in Nat \ {0} /\ req[p].shown # NoCard
               /\ req[p].pc = "tx" /\ req[p].op \in {"update", "inline"}
               /\ rows' = [rows EXCEPT ![id] = [version |-> nxt, data |-> req[p].new]]
               /\ log' = Append(log, e) /\ e \in LogEntry
               /\ UNCHANGED <<session, locks>> /\ req'[p] = Idle
<1>1. /\ req[p].id \in Ids /\ req[p].new \in Data /\ req[p].shown # NoCard
      /\ req[p].shown \in Row /\ req[p].seen \in Row
  BY RequestNow DEF UpdateTx, At, FitsHandler, Request
<1>2. req[p].shown.version + 1 \in Nat \ {0} /\ req[p].seen.data \in Data
  BY <1>1 DEF Row
<1>3. Entry("update", req[p].id, req[p].shown.version + 1,
            DiffEntities(req[p].seen.data, req[p].new)) \in LogEntry
  BY <1>1, <1>2, DiffTypes DEF Entry, LogEntry
<1>4. Finish(p) => req'[p] = Idle
  BY OneRequest DEF Finish
<1> QED
  BY <1>1, <1>2, <1>3, <1>4 DEF UpdateTx, Current, At

LEMMA DeleteStory ==
    ASSUME TypeOK, NEW p \in Clients, DeleteTx(p), UNCHANGED <<rows, log>> => FALSE
    PROVE  LET id == req[p].id
               e  == Entry("delete", id, req[p].shown.version, NoChanges)
           IN  /\ id \in Ids /\ Current(p) /\ id \in DOMAIN rows /\ req[p].shown # NoCard
               /\ rows' = [i \in DOMAIN rows \ {id} |-> rows[i]]
               /\ log' = Append(log, e) /\ e \in LogEntry
               /\ UNCHANGED <<session, locks>> /\ req'[p] = Idle
<1>1. req[p].id \in Ids /\ req[p].shown # NoCard
  BY RequestNow DEF DeleteTx, At, FitsHandler
<1>2. CASE Current(p)
  <2>1. req[p].id \in DOMAIN rows /\ req[p].shown.version \in Nat \ {0}
    BY <1>2, RowTypes DEF Current
  <2>2. Entry("delete", req[p].id, req[p].shown.version, NoChanges) \in LogEntry
    BY <1>1, <2>1, NoCardTypes, DiffTypes DEF Entry, LogEntry
  <2>3. Finish(p) => req'[p] = Idle
    BY OneRequest DEF Finish
  <2> QED
    BY <1>1, <1>2, <2>1, <2>2, <2>3 DEF DeleteTx
<1> QED
  BY <1>2 DEF DeleteTx

LEMMA AppendTypes == ASSUME NEW S, NEW s \in Seq(S), NEW e \in S PROVE Append(s, e) \in Seq(S)
OBVIOUS

StoredRow == [version : Nat \ {0}, data : Data]

LEMMA TxTypes ==
    ASSUME TypeOK, NEW p \in Clients, CreateTx(p) \/ UpdateTx(p) \/ DeleteTx(p) PROVE TypeOK'
<1>0. TablesOK
  BY SplitTypes
<1>1. UNCHANGED <<session, locks>>
  BY DEF CreateTx, UpdateTx, DeleteTx
<1>2. ASSUME UNCHANGED <<rows, log>> PROVE TablesOK'
  BY <1>0, <1>1, <1>2 DEF TablesOK
<1>3. ASSUME CreateTx(p), UNCHANGED <<rows, log>> => FALSE PROVE TablesOK'
  <2>1. log' \in Seq(LogEntry)
    <3>1. PICK e \in LogEntry : log' = Append(log, e)
      BY <1>3, CreateStory
    <3> QED
      BY <1>0, <3>1, AppendTypes DEF TablesOK
  <2>2. /\ rows' \in [DOMAIN rows' -> [version : Nat \ {0}, data : Data]]
        /\ DOMAIN rows' \subseteq Ids
    <3> DEFINE id == req[p].id
               d  == req[p].new
    <3>1. /\ id \in Ids /\ d \in Data
          /\ rows' = [i \in DOMAIN rows \cup {id} |->
                        IF i = id THEN [version |-> 1, data |-> d] ELSE rows[i]]
      BY <1>3, CreateStory
    <3> HIDE DEF id, d
    <3>2. [version |-> 1, data |-> d] \in StoredRow
      BY <3>1 DEF StoredRow
    <3> QED
      BY <1>0, <3>1, <3>2 DEF TablesOK, StoredRow
  <2> QED
    BY <1>0, <1>1, <2>1, <2>2 DEF TablesOK
<1>4. ASSUME UpdateTx(p), UNCHANGED <<rows, log>> => FALSE PROVE TablesOK'
  <2>1. log' \in Seq(LogEntry)
    <3>1. PICK e \in LogEntry : log' = Append(log, e)
      BY <1>4, UpdateStory
    <3> QED
      BY <1>0, <3>1, AppendTypes DEF TablesOK
  <2>2. /\ rows' \in [DOMAIN rows' -> [version : Nat \ {0}, data : Data]]
        /\ DOMAIN rows' \subseteq Ids
    <3> DEFINE id  == req[p].id
               nxt == req[p].shown.version + 1
               d   == req[p].new
    <3>1. /\ id \in DOMAIN rows /\ d \in Data /\ nxt \in Nat \ {0}
          /\ rows' = [rows EXCEPT ![id] = [version |-> nxt, data |-> d]]
      BY <1>4, UpdateStory
    <3> HIDE DEF id, nxt, d
    <3>2. [version |-> nxt, data |-> d] \in StoredRow
      BY <3>1 DEF StoredRow
    <3> QED
      BY <1>0, <3>1, <3>2 DEF TablesOK, StoredRow
  <2> QED
    BY <1>0, <1>1, <2>1, <2>2 DEF TablesOK
<1>5. ASSUME DeleteTx(p), UNCHANGED <<rows, log>> => FALSE PROVE TablesOK'
  <2>1. log' \in Seq(LogEntry)
    <3>1. PICK e \in LogEntry : log' = Append(log, e)
      BY <1>5, DeleteStory
    <3> QED
      BY <1>0, <3>1, AppendTypes DEF TablesOK
  <2>2. /\ rows' \in [DOMAIN rows' -> [version : Nat \ {0}, data : Data]]
        /\ DOMAIN rows' \subseteq Ids
    BY <1>0, <1>5, DeleteStory DEF TablesOK
  <2> QED
    BY <1>0, <1>1, <2>1, <2>2 DEF TablesOK
<1> QED
  BY <1>2, <1>3, <1>4, <1>5, TxRequests, NextRequestTypes

LEMMA RestartTypes == ASSUME TypeOK, Restart PROVE TypeOK'
<1>1. req' \in [Clients -> Request] /\ \A q \in Clients : FitsHandler(req'[q])
  BY UnansweredTypes DEF Restart
<1>2. TablesOK'
  BY SplitTypes DEF TablesOK, Restart
<1> QED
  BY <1>1, <1>2, NextRequestTypes

LEMMA StepCases ==
    Next => \/ \E t \in Tokens : Login(t) \/ Logout(t)
            \/ \E p \in Clients : \/ Quiet(p) \/ LockOrUnlock(p)
                                  \/ CreateTx(p) \/ UpdateTx(p) \/ DeleteTx(p)
            \/ Restart
BY DEF Next, Handle, Quiet

LEMMA NextTypes == TypeOK /\ [Next]_vars => TypeOK'
<1> SUFFICES ASSUME TypeOK, [Next]_vars PROVE TypeOK'
  OBVIOUS
<1>1. CASE UNCHANGED vars
  <2>1. TablesOK' /\ req' = req
    BY <1>1, SplitTypes, SameTables DEF vars, Tables
  <2> QED
    BY <2>1, SplitTypes, NextRequestTypes
<1>2. CASE Next
  BY <1>2, StepCases, LoginTypes, QuietTypes, LockTypes, TxTypes, RestartTypes
<1> QED
  BY <1>1, <1>2

\* Whatever clients do, the tables keep their shape and every handler has at each
\* step what that step needs.
THEOREM EditorTypes == Spec => []TypeOK
BY InitTypes, NextTypes, PTL DEF Spec

-----------------------------------------------------------------------------
\* What a client holds of its card, as a predicate of its request; the row may be
\* gone, and then its id stays unused.
Aged(r) ==
    r.shown # NoCard =>
      /\ r.id \notin DOMAIN rows => r.id \in Deleted
      /\ r.id \in DOMAIN rows =>
            /\ r.shown.version <= rows[r.id].version
            /\ rows[r.id].version = r.shown.version =>
                 /\ r.shown = rows[r.id]
                 /\ r.pc = "tx" /\ r.op \in {"update", "inline"} => r.seen = rows[r.id]
                 /\ r.pc \in {"old", "tx"} /\ r.op = "inline" =>
                       r.new = Merge(rows[r.id].data, r.sent)

LEMMA ScreensAged == ScreensAge <=> \A p \in Clients : Aged(req[p])
BY DEF ScreensAge, Aged, Current

\* A request that only goes on, or is given up, knows no less than before.
LEMMA StillAged ==
    ASSUME TypeOK, NEW p \in Clients, Aged(req[p]), NEW r, r.shown = req[p].shown,
           r.shown # NoCard => r.id = req[p].id,
           \/ r.pc \notin {"old", "tx"}
           \/ r.op \notin {"update", "inline"}
           \/ (r.pc = "old" /\ r.op = "update")
    PROVE  Aged(r)
BY DEF Aged

LEMMA SameAge ==
    ASSUME rows' = rows, log' = log, \A q \in Clients : Aged(req'[q]) PROVE ScreensAge'
<1>1. Deleted' = Deleted
  BY DEF Deleted
<1> QED
  BY <1>1 DEF ScreensAge, Aged, Current

LEMMA QuietAge ==
    ASSUME TypeOK, ScreensAge, NEW p \in Clients, Quiet(p) PROVE ScreensAge'
<1>0. /\ req[p] \in Request /\ FitsHandler(req[p]) /\ Aged(req[p])
      /\ \A q \in Clients : Aged(req[q])
  BY RequestNow, ScreensAged
<1>1. SUFFICES Aged(req'[p])
  <2>1. Others(p)
    BY OneRequest DEF Quiet, Open, Close, SubmitCreate, SubmitLock, SubmitEdit, Submit, Who, CanEdit,
                      ReadPatched, ReadOld, Fail, Goto, Finish, Refuse
  <2>2. rows' = rows /\ log' = log
    BY QuietTables DEF Tables
  <2> QED
    BY <1>0, <2>1, <2>2, SameAge DEF Others
<1>2. ASSUME Refuse(p) PROVE Aged(req'[p])
  <2>1. req'[p] = Unanswered(p)
    BY <1>2, OneRequest DEF Refuse
  <2> QED
    BY <1>0, <2>1, UnansweredTypes, StillAged
<1>3. ASSUME Finish(p) PROVE Aged(req'[p])
  <2>1. req'[p] = Idle
    BY <1>3, OneRequest DEF Finish
  <2> QED
    BY <2>1, IdleTypes DEF Aged
<1>4. CASE Open(p)
  <2>1. PICK id \in DOMAIN rows : Becomes(p, Form(id, rows[id]))
    BY <1>4 DEF Open
  <2>2. req'[p] = Form(id, rows[id])
    BY <2>1, OneRequest
  <2>3. rows[id].version \in Nat
    BY RowTypes
  <2> QED
    BY <2>2, <2>3, RowTypes, FormTypes DEF Aged
<1>5. CASE SubmitCreate(p) \/ SubmitLock(p) \/ SubmitEdit(p)
  <2>1. PICK op, id, token, sent : Submit(p, op, id, token, sent) /\ (req[p].shown # NoCard => id = req[p].id)
    BY <1>0, <1>5 DEF SubmitCreate, SubmitLock, SubmitEdit, At, FitsHandler
  <2>2. req'[p] = [req[p] EXCEPT !.pc = "who", !.op = op, !.id = id,
                                 !.token = token, !.sent = sent, !.new = sent]
    BY <2>1, OneRequest DEF Submit
  <2>3. req'[p].pc = "who" /\ req'[p].id = id /\ req'[p].shown = req[p].shown
    BY <1>0, <2>2 DEF Request
  <2> QED
    BY <1>0, <2>1, <2>3, StillAged
<1>6. CASE Who(p)
  <2>1. PICK pc : /\ (Refuse(p) \/ Goto(p, pc)) /\ req[p].pc = "who"
                  /\ pc = "tx" => req[p].op = "create"
                  /\ pc # "old"
    BY <1>6 DEF Who, At
  <2>2. Goto(p, pc) => req'[p] = [req[p] EXCEPT !.pc = pc]
    BY OneRequest DEF Goto
  <2> QED
    BY <1>0, <1>2, <2>1, <2>2, StillAged DEF Request
<1>7. CASE CanEdit(p)
  <2>1. PICK pc : /\ Refuse(p) \/ Goto(p, pc)
                  /\ pc = "old" => req[p].op = "update"
                  /\ pc = "tx" => req[p].op \notin {"update", "inline"}
    BY <1>7 DEF CanEdit
  <2>2. Goto(p, pc) => req'[p] = [req[p] EXCEPT !.pc = pc]
    BY OneRequest DEF Goto
  <2> QED
    BY <1>0, <1>2, <2>1, <2>2, StillAged DEF Request
<1>8. CASE ReadPatched(p) /\ ~Refuse(p)
  <2> DEFINE new == Merge(rows[req[p].id].data, req[p].sent)
  <2>1. /\ req'[p] = [req[p] EXCEPT !.new = new, !.pc = "old"]
        /\ req[p].id \in DOMAIN rows /\ req[p].op = "inline"
    BY <1>0, <1>8, OneRequest DEF ReadPatched, At, FitsHandler
  <2>2. /\ req'[p].new = new /\ req'[p].pc = "old" /\ req'[p].op = "inline"
        /\ req'[p].id = req[p].id /\ req'[p].shown = req[p].shown /\ req'[p].sent = req[p].sent
    BY <1>0, <2>1 DEF Request
  <2> QED
    BY <1>0, <2>1, <2>2 DEF Aged
<1>9. CASE ReadOld(p) /\ ~Refuse(p)
  <2>1. /\ req'[p] = [req[p] EXCEPT !.seen = rows[req[p].id], !.pc = "tx"]
        /\ req[p].id \in DOMAIN rows /\ req[p].pc = "old"
    BY <1>0, <1>9, OneRequest DEF ReadOld, At
  <2>2. /\ req'[p].seen = rows[req[p].id] /\ req'[p].pc = "tx" /\ req'[p].op = req[p].op
        /\ req'[p].new = req[p].new
        /\ req'[p].id = req[p].id /\ req'[p].shown = req[p].shown /\ req'[p].sent = req[p].sent
    BY <1>0, <2>1 DEF Request
  <2> QED
    BY <1>0, <2>1, <2>2 DEF Aged
<1> QED
  BY <1>2, <1>3, <1>4, <1>5, <1>6, <1>7, <1>8, <1>9 DEF Quiet, Close, Fail, ReadPatched, ReadOld

\* A deleted id stays deleted: the log only grows.
LEMMA DeletedGrows ==
    ASSUME log \in Seq(LogEntry), NEW e \in LogEntry, log' = Append(log, e)
    PROVE  Deleted \subseteq Deleted' /\ (e.action = "delete" => e.id \in Deleted')
<1>1. /\ Len(log') = Len(log) + 1 /\ log'[Len(log) + 1] = e
      /\ Len(log) \in Nat /\ DOMAIN log = 1 .. Len(log) /\ DOMAIN log' = 1 .. Len(log')
      /\ \A i \in 1 .. Len(log) : log'[i] = log[i]
  OBVIOUS
<1>2. Deleted' = {log'[i].id : i \in {j \in DOMAIN log' : log'[j].action = "delete"}}
  BY DEF Deleted
<1>3. ASSUME NEW i \in DOMAIN log, log[i].action = "delete" PROVE log[i].id \in Deleted'
  <2>1. i \in DOMAIN log' /\ log'[i] = log[i]
    BY <1>1
  <2> QED
    BY <1>2, <1>3, <2>1
<1>4. ASSUME e.action = "delete" PROVE e.id \in Deleted'
  <2>1. Len(log) + 1 \in DOMAIN log'
    BY <1>1
  <2> QED
    BY <1>1, <1>2, <1>4, <2>1
<1> QED
  BY <1>3, <1>4 DEF Deleted

\* Another client's transaction leaves what a client knows of its card either as
\* true as it was or out of date.
LEMMA OverwrittenAge ==
    ASSUME NEW q, Aged(req[q]), req[q].shown.version \in Nat, Deleted \subseteq Deleted',
           NEW id, id = req[q].id, req'[q] = req[q],
           \/ /\ id \in DOMAIN rows => id \in DOMAIN rows' /\ rows'[id] = rows[id]
              /\ id \notin DOMAIN rows => id \notin DOMAIN rows'
           \/ id \notin DOMAIN rows' /\ id \in Deleted'
           \/ /\ id \in DOMAIN rows /\ id \in DOMAIN rows'
              /\ rows[id].version \in Nat /\ rows'[id].version = rows[id].version + 1
    PROVE  Aged(req[q])'
<1>1. CASE /\ id \in DOMAIN rows => id \in DOMAIN rows' /\ rows'[id] = rows[id]
           /\ id \notin DOMAIN rows => id \notin DOMAIN rows'
  BY <1>1 DEF Aged
<1>2. CASE id \notin DOMAIN rows' /\ id \in Deleted'
  BY <1>2 DEF Aged
<1>3. CASE /\ id \in DOMAIN rows /\ id \in DOMAIN rows'
           /\ rows[id].version \in Nat /\ rows'[id].version = rows[id].version + 1
  BY <1>3 DEF Aged
<1> QED
  BY <1>1, <1>2, <1>3

LEMMA TxAge ==
    ASSUME TypeOK, ScreensAge, ~ReuseIds, NEW p \in Clients,
           CreateTx(p) \/ UpdateTx(p) \/ DeleteTx(p)
    PROVE  ScreensAge'
<1>0. /\ \A q \in Clients : Aged(req[q]) /\ req[q] \in Request
      /\ log \in Seq(LogEntry)
  BY RequestNow, ScreensAged DEF TypeOK
<1>1. ASSUME UNCHANGED <<rows, log>> PROVE ScreensAge'
  <2>1. \A q \in Clients : q # p => Aged(req'[q])
    BY <1>0, TxRequests DEF Others
  <2>2. Aged(req'[p])
    <3>1. CASE req'[p] = Idle
      BY <3>1, IdleTypes DEF Aged
    <3>2. CASE req'[p] = Unanswered(p)
      BY <1>0, <3>2, UnansweredTypes, StillAged
    <3> QED
      BY <3>1, <3>2, TxRequests
  <2> QED
    BY <1>1, <2>1, <2>2, SameAge
<1>2. ASSUME UNCHANGED <<rows, log>> => FALSE PROVE ScreensAge'
  <2>1. ASSUME NEW q \in Clients, q # p PROVE Aged(req[q])'
    <3>1. req'[q] = req[q] /\ req[q].shown.version \in Nat /\ Aged(req[q])
      BY <1>0, <2>1, TxRequests DEF Others, Request, Row
    <3>2. CASE CreateTx(p)
      <4>1. Deleted \subseteq Deleted'
        BY <1>0, <1>2, <3>2, CreateStory, DeletedGrows
      <4>2. /\ req[p].id \notin DOMAIN rows /\ req[p].id \notin Deleted
            /\ DOMAIN rows' = DOMAIN rows \cup {req[p].id}
            /\ \A i \in DOMAIN rows : rows'[i] = rows[i]
        BY <1>2, <3>2, CreateStory
      <4>3. CASE req[q].shown = NoCard
        BY <3>1, <4>3 DEF Aged
      <4>4. CASE req[q].shown # NoCard
        <5>1. req[q].id # req[p].id
          BY <3>1, <4>2, <4>4 DEF Aged
        <5> QED
          BY <3>1, <4>1, <4>2, <5>1, OverwrittenAge
      <4> QED
        BY <4>3, <4>4
    <3>3. CASE UpdateTx(p)
      <4>1. Deleted \subseteq Deleted'
        BY <1>0, <1>2, <3>3, UpdateStory, DeletedGrows
      <4>2. /\ req[p].id \in DOMAIN rows /\ DOMAIN rows' = DOMAIN rows
            /\ rows[req[p].id].version = req[p].shown.version
            /\ rows'[req[p].id].version = req[p].shown.version + 1
            /\ \A i \in DOMAIN rows \ {req[p].id} : rows'[i] = rows[i]
        <5>1. /\ req[p].id \in DOMAIN rows /\ Current(p)
              /\ rows' = [rows EXCEPT ![req[p].id] = [version |-> req[p].shown.version + 1,
                                                     data |-> req[p].new]]
          BY <1>2, <3>3, UpdateStory
        <5>2. rows[req[p].id].version = req[p].shown.version
          BY <5>1 DEF Current
        <5> QED
          BY <5>1, <5>2
      <4>3. rows[req[p].id].version \in Nat
        BY <4>2, RowTypes
      <4> QED
        BY <3>1, <4>1, <4>2, <4>3, OverwrittenAge
    <3>4. CASE DeleteTx(p)
      <4>1. Deleted \subseteq Deleted' /\ req[p].id \in Deleted'
        BY <1>0, <1>2, <3>4, DeleteStory, DeletedGrows DEF Entry
      <4>2. /\ DOMAIN rows' = DOMAIN rows \ {req[p].id}
            /\ \A i \in DOMAIN rows' : rows'[i] = rows[i]
        BY <1>2, <3>4, DeleteStory
      <4> QED
        BY <3>1, <4>1, <4>2, OverwrittenAge
    <3> QED
      BY <3>2, <3>3, <3>4
  <2>2. Aged(req[p])'
    <3>1. req'[p] = Idle
      BY <1>2, CreateStory, UpdateStory, DeleteStory
    <3> QED
      BY <3>1, IdleTypes DEF Aged
  <2>3. \A q \in Clients : Aged(req[q])'
    BY <2>1, <2>2
  <2> QED
    BY <2>3 DEF ScreensAge, Aged, Current
<1> QED
  BY <1>1, <1>2

LEMMA NextAge == ~ReuseIds /\ TypeOK /\ ScreensAge /\ [Next]_vars => ScreensAge'
<1> SUFFICES ASSUME ~ReuseIds, TypeOK, ScreensAge, [Next]_vars PROVE ScreensAge'
  OBVIOUS
<1>0. \A q \in Clients : Aged(req[q])
  BY ScreensAged
<1>1. CASE UNCHANGED vars
  BY <1>0, <1>1, SameAge DEF vars
<1>2. ASSUME NEW t \in Tokens, Login(t) \/ Logout(t) PROVE ScreensAge'
  BY <1>0, <1>2, SameAge DEF Login, Logout
<1>3. ASSUME NEW p \in Clients, LockOrUnlock(p) PROVE ScreensAge'
  <2>1. req'[p] = Idle /\ Others(p)
    BY <1>3, OneRequest DEF LockOrUnlock, Finish
  <2>2. Aged(Idle)
    BY IdleTypes DEF Aged
  <2> QED
    BY <1>0, <1>3, <2>1, <2>2, SameAge DEF Others, LockOrUnlock
<1>4. CASE Restart
  <2>1. ASSUME NEW q \in Clients PROVE Aged(req'[q])
    BY <1>0, <1>4, <2>1, UnansweredTypes, StillAged DEF Restart
  <2> QED
    BY <1>4, <2>1, SameAge DEF Restart
<1> QED
  BY <1>1, <1>2, <1>3, <1>4, StepCases, QuietAge, TxAge

LEMMA InitAge == Init => ScreensAge
BY IdleTypes DEF Init, ScreensAge

\* As long as ids are not reused, a card whose version is the one a client loaded
\* is the card the client loaded, and so is all its request has read since.
THEOREM ScreensStayHonest == ASSUME ~ReuseIds PROVE Spec => []ScreensAge
BY InitTypes, NextTypes, InitAge, NextAge, PTL DEF Spec

-----------------------------------------------------------------------------
\* The steps that touch neither the table nor the log.
LEMMA TableSteps ==
    ASSUME [Next]_vars, UNCHANGED <<rows, log>> => FALSE
    PROVE  \E p \in Clients : CreateTx(p) \/ UpdateTx(p) \/ DeleteTx(p)
<1>1. ASSUME NEW p \in Clients, Quiet(p) PROVE FALSE
  BY <1>1, QuietTables DEF Tables
<1>2. ASSUME NEW t \in Tokens, Login(t) \/ Logout(t) PROVE FALSE
  BY <1>2 DEF Login, Logout
<1>3. ASSUME NEW p \in Clients, LockOrUnlock(p) PROVE FALSE
  BY <1>3 DEF LockOrUnlock
<1>4. CASE Restart
  BY <1>4 DEF Restart
<1>5. CASE UNCHANGED vars
  BY <1>5 DEF vars
<1> QED
  BY <1>1, <1>2, <1>3, <1>4, <1>5, StepCases

\* When the version matches, the row read for the log is the row overwritten.
LEMMA SeenIsCurrent ==
    ASSUME TypeOK, ScreensAge, NEW p \in Clients, Current(p), req[p].shown # NoCard,
           req[p].pc = "tx", req[p].op \in {"update", "inline"}
    PROVE  /\ req[p].shown = rows[req[p].id] /\ req[p].seen = rows[req[p].id]
           /\ req[p].op = "inline" => req[p].new = Merge(rows[req[p].id].data, req[p].sent)
BY DEF ScreensAge, Current

LEMMA CreateTold ==
    ASSUME TypeOK, NEW p \in Clients, CreateTx(p), UNCHANGED <<rows, log>> => FALSE
    PROVE  \E e \in LogEntry : log' = Append(log, e) /\ Told(e)
<1> DEFINE id == req[p].id
           e  == Entry("create", id, 1, AllNew(req[p].new))
<1>1. /\ id \notin DOMAIN rows /\ log' = Append(log, e) /\ e \in LogEntry
      /\ rows' = [i \in DOMAIN rows \cup {id} |->
                    IF i = id THEN [version |-> 1, data |-> req[p].new] ELSE rows[i]]
  BY CreateStory
<1>2. e.action = "create" /\ e.id = id /\ e.version = 1 /\ e.changes = AllNew(req[p].new)
  BY DEF Entry
<1>3. /\ DOMAIN rows' = DOMAIN rows \cup {id}
      /\ rows'[id].version = 1 /\ rows'[id].data = req[p].new
      /\ \A i \in DOMAIN rows : rows'[i] = rows[i]
  BY <1>1
<1>4. Told(e)
  <2> HIDE DEF e
  <2> QED
    BY <1>1, <1>2, <1>3 DEF Told
<1> QED
  BY <1>1, <1>4

LEMMA DiffTells ==
    ASSUME NEW old, NEW new, NEW f \in Tracked
    PROVE  /\ f \in DOMAIN DiffEntities(old, new) <=> new[f] # old[f]
           /\ f \in DOMAIN DiffEntities(old, new) =>
                 DiffEntities(old, new)[f] = <<old[f], new[f]>>
BY DEF DiffEntities

LEMMA UpdateTold ==
    ASSUME TypeOK, ScreensAge, NEW p \in Clients, UpdateTx(p), UNCHANGED <<rows, log>> => FALSE
    PROVE  \E e \in LogEntry : log' = Append(log, e) /\ Told(e)
<1> DEFINE id  == req[p].id
           nxt == req[p].shown.version + 1
           e   == Entry("update", id, nxt, DiffEntities(req[p].seen.data, req[p].new))
<1>1. /\ id \in DOMAIN rows /\ Current(p) /\ req[p].shown # NoCard
      /\ req[p].pc = "tx" /\ req[p].op \in {"update", "inline"}
      /\ log' = Append(log, e) /\ e \in LogEntry
      /\ rows' = [rows EXCEPT ![id] = [version |-> nxt, data |-> req[p].new]]
  BY UpdateStory
<1>2. /\ e.action = "update" /\ e.id = id /\ e.version = nxt
      /\ e.changes = DiffEntities(rows[id].data, rows'[id].data)
  BY <1>1, SeenIsCurrent DEF Entry
<1>3. /\ DOMAIN rows' = DOMAIN rows /\ rows'[id].version = nxt
      /\ nxt = rows[id].version + 1
      /\ \A i \in Ids \ {id} : i \in DOMAIN rows => rows'[i] = rows[i]
  BY <1>1 DEF Current
<1>4. \A f \in Tracked :
         /\ f \in DOMAIN e.changes <=> rows'[id].data[f] # rows[id].data[f]
         /\ f \in DOMAIN e.changes => e.changes[f] = <<rows[id].data[f], rows'[id].data[f]>>
  <2> HIDE DEF e
  <2>1. \A old, new : \A f \in Tracked :
           /\ f \in DOMAIN DiffEntities(old, new) <=> new[f] # old[f]
           /\ f \in DOMAIN DiffEntities(old, new) =>
                 DiffEntities(old, new)[f] = <<old[f], new[f]>>
    BY DiffTells
  <2> QED
    BY <1>2, <2>1
<1>5. Told(e)
  <2> HIDE DEF e
  <2> QED
    BY <1>1, <1>2, <1>3, <1>4 DEF Told
<1> QED
  BY <1>1, <1>5

LEMMA DeleteTold ==
    ASSUME TypeOK, NEW p \in Clients, DeleteTx(p), UNCHANGED <<rows, log>> => FALSE
    PROVE  \E e \in LogEntry : log' = Append(log, e) /\ Told(e)
<1> DEFINE id == req[p].id
           e  == Entry("delete", id, req[p].shown.version, NoChanges)
<1>1. /\ id \in DOMAIN rows /\ log' = Append(log, e) /\ e \in LogEntry
      /\ rows' = [i \in DOMAIN rows \ {id} |-> rows[i]]
  BY DeleteStory
<1>2. e.action = "delete" /\ e.id = id
  BY DEF Entry
<1>3. Told(e)
  BY <1>1, <1>2 DEF Told
<1> QED
  BY <1>1, <1>3

LEMMA LastEntry ==
    ASSUME log \in Seq(LogEntry), NEW e \in LogEntry, log' = Append(log, e)
    PROVE  log'[Len(log')] = e
OBVIOUS

\* The log tells every change of the table, with the values before and after,
\* although an update reads the values before outside its transaction.
THEOREM LogIsTrue == ASSUME ~ReuseIds PROVE Spec => LogTellsTheChange
<1>1. ASSUME TypeOK, ScreensAge, [Next]_vars, UNCHANGED <<rows, log>> => FALSE
      PROVE  \E e \in {log'[Len(log')]} : log' = Append(log, e) /\ Told(e)
  <2>1. \E e \in LogEntry : log' = Append(log, e) /\ Told(e)
    BY <1>1, TableSteps, CreateTold, UpdateTold, DeleteTold
  <2> QED
    BY <1>1, <2>1, LastEntry DEF TypeOK
<1>2. TypeOK /\ ScreensAge /\ [Next]_vars =>
        [\/ log' = log /\ rows' = rows
         \/ \E e \in {log'[Len(log')]} : log' = Append(log, e) /\ Told(e)]_<<log, rows>>
  BY <1>1
<1> QED
  BY <1>2, EditorTypes, ScreensStayHonest, PTL DEF Spec, LogTellsTheChange

-----------------------------------------------------------------------------
\* The log replayed: the i-th entry of a log is the last to name a field of a card.
Last(l, i, id, f, value) ==
    /\ i \in DOMAIN l /\ l[i].id = id /\ f \in DOMAIN l[i].changes /\ l[i].changes[f][2] = value
    /\ \A j \in DOMAIN l : j > i => ~(l[j].id = id /\ f \in DOMAIN l[j].changes)

LEMMA ReplayIsLast ==
    LogReplays <=> \A id \in DOMAIN rows, f \in Tracked :
                      \E i : Last(log, i, id, f, rows[id].data[f])
BY DEF LogReplays, Last, Says

LEMMA Appended ==
    ASSUME NEW l \in Seq(LogEntry), NEW e \in LogEntry
    PROVE  /\ Len(l) \in Nat /\ DOMAIN l = 1 .. Len(l)
           /\ DOMAIN Append(l, e) = 1 .. Len(l) + 1 /\ Append(l, e)[Len(l) + 1] = e
           /\ \A i \in DOMAIN l : Append(l, e)[i] = l[i]
OBVIOUS

LEMMA NewestSays ==
    ASSUME NEW l \in Seq(LogEntry), NEW e \in LogEntry, NEW f \in DOMAIN e.changes
    PROVE  \E i : Last(Append(l, e), i, e.id, f, e.changes[f][2])
<1> DEFINE n == Len(l) + 1
           m == Append(l, e)
<1>1. n \in DOMAIN m /\ m[n] = e /\ \A j \in DOMAIN m : ~(j > n)
  BY Appended
<1> HIDE DEF n, m
<1>2. Last(m, n, e.id, f, e.changes[f][2])
  BY <1>1 DEF Last
<1> QED
  BY <1>2 DEF m

LEMMA OlderSays ==
    ASSUME NEW l \in Seq(LogEntry), NEW e \in LogEntry,
           NEW i, NEW id, NEW f, NEW value, Last(l, i, id, f, value),
           e.id = id => f \notin DOMAIN e.changes
    PROVE  Last(Append(l, e), i, id, f, value)
<1> DEFINE m == Append(l, e)
<1>1. /\ \A j \in DOMAIN l : j \in DOMAIN m /\ m[j] = l[j]
      /\ \A j \in DOMAIN m : j \in DOMAIN l \/ m[j] = e
  BY Appended
<1> HIDE DEF m
<1>2. Last(m, i, id, f, value)
  BY <1>1 DEF Last
<1> QED
  BY <1>2 DEF m

LEMMA ToldElsewhere ==
    ASSUME NEW e, Told(e)
    PROVE  \A i \in Ids \ {e.id} :
              /\ i \in DOMAIN rows <=> i \in DOMAIN rows'
              /\ i \in DOMAIN rows => rows'[i] = rows[i]
BY DEF Told

LEMMA ReplayStep ==
    ASSUME TypeOK, LogReplays, NEW e \in LogEntry, log' = Append(log, e), Told(e),
           DOMAIN rows' \subseteq Ids
    PROVE  LogReplays'
<1>0. log \in Seq(LogEntry) /\ DOMAIN rows \subseteq Ids
  BY DEF TypeOK
<1>1. ASSUME NEW id \in DOMAIN rows', NEW f \in Tracked, e.id = id, f \in DOMAIN e.changes
      PROVE  \E i : Last(log', i, id, f, rows'[id].data[f])
  <2>1. e.action \in {"create", "update"}
    BY <1>1 DEF Told, LogEntry
  <2>2. CASE e.action = "create"
    <3>1. e.changes[f] = <<Missing, rows'[id].data[f]>>
      BY <1>1, <2>2, EditorAssumption DEF Told, AllNew
    <3> QED
      BY <1>0, <1>1, <3>1, NewestSays
  <2>3. CASE e.action = "update"
    <3>1. e.changes[f] = <<rows[id].data[f], rows'[id].data[f]>>
      BY <1>1, <2>3 DEF Told
    <3> QED
      BY <1>0, <1>1, <3>1, NewestSays
  <2> QED
    BY <2>1, <2>2, <2>3
<1>2. ASSUME NEW id \in DOMAIN rows', NEW f \in Tracked, ~(e.id = id /\ f \in DOMAIN e.changes)
      PROVE  \E i : Last(log', i, id, f, rows'[id].data[f])
  <2>1. id \in DOMAIN rows /\ rows'[id].data[f] = rows[id].data[f]
    <3>1. CASE e.id # id
      <4>1. id \in Ids \ {e.id}
        BY <1>2, <3>1
      <4> QED
        BY <1>2, <4>1, ToldElsewhere
    <3>2. CASE e.id = id
      <4>1. e.action # "create"
        BY <1>2, <3>2, EditorAssumption DEF Told, AllNew
      <4>2. e.action = "update"
        BY <1>2, <3>2, <4>1 DEF Told, LogEntry
      <4> QED
        BY <1>2, <3>2, <4>2 DEF Told
    <3> QED
      BY <3>1, <3>2
  <2>2. PICK i : Last(log, i, id, f, rows'[id].data[f])
    BY <2>1, ReplayIsLast
  <2> QED
    BY <1>0, <1>2, <2>2, OlderSays
<1>3. \A id \in DOMAIN rows', f \in Tracked : \E i : Last(log', i, id, f, rows'[id].data[f])
  BY <1>1, <1>2
<1> QED
  BY <1>3 DEF LogReplays, Last, Says

\* Of every live card the log holds the present value of every tracked field, as the
\* last it says of it: no update was logged against a row it did not overwrite.
THEOREM LogHoldsTheTable == ASSUME ~ReuseIds PROVE Spec => []LogReplays
<1>1. Init => LogReplays
  BY DEF Init, LogReplays
<1>2. TypeOK /\ ScreensAge /\ TypeOK' /\ LogReplays /\ [Next]_vars => LogReplays'
  <2> SUFFICES ASSUME TypeOK, ScreensAge, TypeOK', LogReplays, [Next]_vars PROVE LogReplays'
    OBVIOUS
  <2>1. CASE UNCHANGED <<rows, log>>
    BY <2>1 DEF LogReplays, Says
  <2>2. CASE ~(UNCHANGED <<rows, log>>)
    <3>1. PICK e \in LogEntry : log' = Append(log, e) /\ Told(e)
      BY <2>2, TableSteps, CreateTold, UpdateTold, DeleteTold
    <3> QED
      BY <3>1, ReplayStep DEF TypeOK
  <2> QED
    BY <2>1, <2>2
<1> QED
  BY <1>1, <1>2, EditorTypes, ScreensStayHonest, PTL DEF Spec

\* A patch changes no field it does not name.
THEOREM PatchesKeepTheRest == ASSUME ~ReuseIds PROVE Spec => PatchKeepsRest
<1>1. ASSUME TypeOK, ScreensAge, [Next]_vars, NEW p \in Clients, req[p].op = "inline",
             req'[p] # req[p], rows' # rows, NEW f \in Fields \ DOMAIN req[p].sent
      PROVE  rows'[req[p].id].data[f] = rows[req[p].id].data[f]
  <2>1. PICK q \in Clients : CreateTx(q) \/ UpdateTx(q) \/ DeleteTx(q)
    BY <1>1, TableSteps
  <2>2. q = p
    BY <1>1, <2>1, TxRequests DEF Others
  <2>3. UpdateTx(p) \/ DeleteTx(p)
    BY <1>1, <2>1, <2>2 DEF CreateTx
  <2>4. UpdateTx(p)
    BY <1>1, <2>3 DEF DeleteTx
  <2>5. /\ req[p].id \in DOMAIN rows /\ Current(p) /\ req[p].shown # NoCard
        /\ req[p].pc = "tx"
        /\ rows' = [rows EXCEPT ![req[p].id] = [version |-> req[p].shown.version + 1,
                                               data |-> req[p].new]]
    BY <1>1, <2>4, UpdateStory
  <2>6. req[p].new = Merge(rows[req[p].id].data, req[p].sent)
    BY <1>1, <2>5, SeenIsCurrent
  <2> QED
    BY <2>5, <2>6 DEF Merge
<1>2. TypeOK /\ ScreensAge /\ [Next]_vars =>
        [\A p \in Clients :
           req[p].op = "inline" /\ req'[p] # req[p] /\ rows' # rows =>
              \A f \in Fields \ DOMAIN req[p].sent :
                 rows'[req[p].id].data[f] = rows[req[p].id].data[f]]_<<rows, req>>
  BY <1>1
<1> QED
  BY <1>2, EditorTypes, ScreensStayHonest, PTL DEF Spec, PatchKeepsRest

\* What an update overwrites is what its client had on screen.
THEOREM NobodyOverwritesBlindly == ASSUME ~ReuseIds PROVE Spec => NoBlindOverwrite
<1>1. ASSUME TypeOK, ScreensAge, [Next]_vars, NEW p \in Clients, At(p, "tx"),
             req[p].op \in {"update", "inline"}, req'[p] # req[p], rows' # rows
      PROVE  req[p].shown = rows[req[p].id]
  <2>1. PICK q \in Clients : CreateTx(q) \/ UpdateTx(q) \/ DeleteTx(q)
    BY <1>1, TableSteps
  <2>2. q = p
    BY <1>1, <2>1, TxRequests DEF Others
  <2>3. UpdateTx(p)
    BY <1>1, <2>1, <2>2 DEF CreateTx, DeleteTx
  <2>4. Current(p) /\ req[p].shown # NoCard
    BY <1>1, <2>3, UpdateStory
  <2> QED
    BY <1>1, <2>4, SeenIsCurrent DEF At
<1>2. TypeOK /\ ScreensAge /\ [Next]_vars =>
        [\A p \in Clients :
           At(p, "tx") /\ req[p].op \in {"update", "inline"} /\ req'[p] # req[p] /\ rows' # rows =>
              req[p].shown = rows[req[p].id]]_<<rows, req>>
  BY <1>1
<1> QED
  BY <1>2, EditorTypes, ScreensStayHonest, PTL DEF Spec, NoBlindOverwrite

-----------------------------------------------------------------------------
\* Only lockEntity, unlockEntity and a restart write the locks.
LEMMA LockSteps ==
    ASSUME TypeOK, [Next]_vars, locks' # locks
    PROVE  (\E p \in Clients : LockOrUnlock(p)) \/ Restart
<1>1. ASSUME NEW p \in Clients, Quiet(p) PROVE FALSE
  BY <1>1, QuietTables DEF Tables
<1>2. ASSUME NEW t \in Tokens, Login(t) \/ Logout(t) PROVE FALSE
  BY <1>2 DEF Login, Logout
<1>3. ASSUME NEW p \in Clients, CreateTx(p) \/ UpdateTx(p) \/ DeleteTx(p) PROVE FALSE
  BY <1>3 DEF CreateTx, UpdateTx, DeleteTx
<1>4. CASE UNCHANGED vars
  BY <1>4 DEF vars
<1> QED
  BY <1>1, <1>2, <1>3, <1>4, StepCases

\* A lock outlives everything but its own token's unlock and a restart.
THEOREM LocksAreKept == Spec => LockIsKept
<1>1. ASSUME TypeOK, [Next]_vars, NEW id \in DOMAIN locks
      PROVE  \/ id \in DOMAIN locks' /\ locks'[id] = locks[id]
             \/ \E p \in Clients : req[p].op = "unlock" /\ req[p].id = id
                                   /\ req[p].token = locks[id] /\ req'[p] = Idle
             \/ locks' = [i \in {} |-> i]
  <2>1. ASSUME NEW p \in Clients, LockOrUnlock(p)
        PROVE  \/ id \in DOMAIN locks' /\ locks'[id] = locks[id]
               \/ req[p].op = "unlock" /\ req[p].id = id /\ req[p].token = locks[id]
    BY <2>1 DEF LockOrUnlock
  <2>2. ASSUME NEW p \in Clients, LockOrUnlock(p) PROVE req'[p] = Idle
    BY <1>1, <2>2, OneRequest DEF LockOrUnlock, Finish
  <2>3. CASE Restart
    BY <2>3 DEF Restart
  <2> QED
    BY <1>1, <2>1, <2>2, <2>3, LockSteps
<1>2. TypeOK /\ [Next]_vars =>
        [\A id \in DOMAIN locks :
          \/ id \in DOMAIN locks' /\ locks'[id] = locks[id]
          \/ \E p \in Clients : req[p].op = "unlock" /\ req[p].id = id
                                /\ req[p].token = locks[id] /\ req'[p] = Idle
          \/ locks' = [i \in {} |-> i]]_<<locks, req>>
  BY <1>1
<1> QED
  BY <1>2, EditorTypes, PTL DEF Spec, LockIsKept

-----------------------------------------------------------------------------
\* The refinement, one request at a time.
Screen(r) == IF r.shown = NoCard THEN {} ELSE {<<r.id, r.shown.data>>}
Table     == [id \in DOMAIN rows |-> rows[id].data]
Screens   == [p \in Clients |-> Screen(req[p])]

\* The request still shows the card it showed.
KeepsScreen(p) ==
    req'[p].shown = req[p].shown /\ (req[p].shown # NoCard => req'[p].id = req[p].id)

LEMMA SameScreen == ASSUME NEW p, KeepsScreen(p) PROVE Screen(req'[p]) = Screen(req[p])
BY DEF KeepsScreen, Screen

LEMMA OtherScreens ==
    ASSUME NEW p \in Clients, Others(p)
    PROVE  Screens' = [Screens EXCEPT ![p] = Screen(req'[p])]
<1>1. Screens' = [q \in Clients |-> Screen(req'[q])]
  BY DEF Screens, Screen
<1>2. \A q \in Clients : q # p => Screen(req'[q]) = Screen(req[q])
  BY DEF Others
<1> QED
  BY <1>1, <1>2 DEF Screens

LEMMA QuietScreen ==
    ASSUME TypeOK, NEW p \in Clients, Quiet(p)
    PROVE  /\ Others(p)
           /\ \/ KeepsScreen(p)
              \/ req'[p].shown = NoCard
              \/ \E id \in DOMAIN rows : req'[p] = Form(id, rows[id])
<1>0. req[p] \in Request /\ FitsHandler(req[p])
  BY RequestNow
<1>1. Others(p)
  BY OneRequest DEF Quiet, Open, Close, SubmitCreate, SubmitLock, SubmitEdit, Submit, Who, CanEdit,
                    ReadPatched, ReadOld, Fail, Goto, Finish, Refuse
<1>2. ASSUME Refuse(p) PROVE KeepsScreen(p)
  BY <1>2, OneRequest, UnansweredTypes DEF Refuse, KeepsScreen
<1>3. ASSUME Finish(p) PROVE req'[p].shown = NoCard
  BY <1>3, OneRequest, IdleTypes DEF Finish
<1>4. ASSUME NEW pc, Goto(p, pc) PROVE KeepsScreen(p)
  <2>1. req'[p] = [req[p] EXCEPT !.pc = pc]
    BY <1>4, OneRequest DEF Goto
  <2> QED
    BY <1>0, <2>1 DEF Request, KeepsScreen
<1>5. CASE SubmitCreate(p) \/ SubmitLock(p) \/ SubmitEdit(p)
  <2>1. PICK op, id, token, sent : Submit(p, op, id, token, sent) /\ (req[p].shown # NoCard => id = req[p].id)
    BY <1>0, <1>5 DEF SubmitCreate, SubmitLock, SubmitEdit, At, FitsHandler
  <2>2. req'[p] = [req[p] EXCEPT !.pc = "who", !.op = op, !.id = id,
                                 !.token = token, !.sent = sent, !.new = sent]
    BY <2>1, OneRequest DEF Submit
  <2> QED
    BY <1>0, <1>1, <2>1, <2>2 DEF Request, KeepsScreen
<1>6. CASE ReadPatched(p) /\ ~Refuse(p)
  <2>1. req'[p] = [req[p] EXCEPT !.new = Merge(rows[req[p].id].data, req[p].sent), !.pc = "old"]
    BY <1>6, OneRequest DEF ReadPatched
  <2> QED
    BY <1>0, <1>1, <2>1 DEF Request, KeepsScreen
<1>7. CASE ReadOld(p) /\ ~Refuse(p)
  <2>1. req'[p] = [req[p] EXCEPT !.seen = rows[req[p].id], !.pc = "tx"]
    BY <1>7, OneRequest DEF ReadOld
  <2> QED
    BY <1>0, <1>1, <2>1 DEF Request, KeepsScreen
<1>8. CASE Open(p)
  BY <1>1, <1>8, OneRequest DEF Open
<1> QED
  BY <1>1, <1>2, <1>3, <1>4, <1>5, <1>6, <1>7, <1>8
     DEF Quiet, Close, Fail, ReadPatched, ReadOld, Who, CanEdit

\* The abstract state, and its steps, in the terms above.
LEMMA CardsMapped ==
    /\ Cards!vars = <<Table, Screens>>
    /\ Cards!Live = DOMAIN rows
    /\ \A p \in Clients, id \in DOMAIN rows :
          Cards!Show(p, id) <=> /\ Screens' = [Screens EXCEPT ![p] = {<<id, rows[id].data>>}]
                                /\ Table' = Table
    /\ \A p \in Clients : Cards!Clear(p) <=> Screens' = [Screens EXCEPT ![p] = {}] /\ Table' = Table
BY DEF Cards!vars, Cards!Live, Cards!Show, Cards!Clear, Cards!Leave, Table, Screens, Screen

LEMMA AddIsNext ==
    ASSUME NEW id \in Ids, NEW card \in Data, Cards!Add(id, card) PROVE Cards!Next
BY DEF Cards!Next

LEMMA ChangeIsNext ==
    ASSUME NEW p \in Clients, NEW id \in DOMAIN rows, NEW card \in Data, Cards!Change(p, id, card)
    PROVE  Cards!Next
BY CardsMapped DEF Cards!Next

LEMMA RemoveIsNext ==
    ASSUME NEW p \in Clients, NEW id \in DOMAIN rows, Cards!Remove(p, id) PROVE Cards!Next
BY CardsMapped DEF Cards!Next

LEMMA SameCards ==
    ASSUME rows' = rows, \A p \in Clients : KeepsScreen(p) PROVE UNCHANGED Cards!vars
<1>1. \A p \in Clients : Screen(req'[p]) = Screen(req[p])
  BY SameScreen
<1>2. Screens' = Screens
  BY <1>1 DEF Screens, Screen
<1>3. Table' = Table
  BY DEF Table
<1> QED
  BY <1>2, <1>3, CardsMapped DEF Cards!vars, Table, Screens, Screen

LEMMA QuietRefines ==
    ASSUME TypeOK, NEW p \in Clients, Quiet(p) PROVE Cards!Next \/ UNCHANGED Cards!vars
<1>1. rows' = rows /\ Others(p) /\ Table' = Table
  BY QuietTables, QuietScreen DEF Tables, Table
<1>2. CASE KeepsScreen(p)
  BY <1>1, <1>2, SameCards DEF Others, KeepsScreen
<1>3. CASE req'[p].shown = NoCard
  BY <1>1, <1>3, OtherScreens, CardsMapped DEF Screen, Cards!Next
<1>4. ASSUME NEW id \in DOMAIN rows, req'[p] = Form(id, rows[id]) PROVE Cards!Next
  <2>1. Screen(req'[p]) = {<<id, rows[id].data>>}
    BY <1>4, RowTypes, FormTypes DEF Screen
  <2> QED
    BY <1>1, <1>4, <2>1, OtherScreens, CardsMapped DEF Cards!Next
<1> QED
  BY <1>2, <1>3, <1>4, QuietScreen

LEMMA TxRefines ==
    ASSUME TypeOK, ScreensAge, NEW p \in Clients, CreateTx(p) \/ UpdateTx(p) \/ DeleteTx(p)
    PROVE  Cards!Next \/ UNCHANGED Cards!vars
<1>0. Others(p) /\ req'[p] \in {Idle, Unanswered(p)}
  BY TxRequests
<1>1. CASE rows' = rows /\ KeepsScreen(p)
  BY <1>0, <1>1, SameCards DEF Others, KeepsScreen
<1>2. CASE UNCHANGED <<rows, log>>
  <2>1. CASE req'[p] = Unanswered(p)
    BY <1>1, <1>2, <2>1, UnansweredTypes DEF KeepsScreen
  <2>2. CASE req'[p] = Idle
    <3>1. Screens' = [Screens EXCEPT ![p] = {}]
      BY <1>0, <2>2, OtherScreens, IdleTypes DEF Screen
    <3> QED
      BY <1>2, <3>1, CardsMapped DEF Cards!Next, Table
  <2> QED
    BY <1>0, <2>1, <2>2
<1>3. ASSUME UNCHANGED <<rows, log>> => FALSE, CreateTx(p) PROVE Cards!Next \/ UNCHANGED Cards!vars
  <2>0. PICK id, card : id = req[p].id /\ card = req[p].new
    OBVIOUS
  <2>1. /\ id \in Ids /\ id \notin DOMAIN rows /\ card \in Data
        /\ rows' = [i \in DOMAIN rows \cup {id} |->
                      IF i = id THEN [version |-> 1, data |-> card] ELSE rows[i]]
        /\ req'[p] = Idle
    BY <1>3, <2>0, CreateStory
  <2>2. req[p].shown = NoCard
    BY <1>3, RequestNow DEF FitsHandler, CreateTx, At
  <2>3. KeepsScreen(p)
    BY <2>1, <2>2, IdleTypes DEF KeepsScreen
  <2>4. Screens' = Screens
    BY <1>0, <2>3, OtherScreens, SameScreen DEF Screens
  <2>5. Table' = [i \in DOMAIN rows \cup {id} |-> IF i = id THEN card ELSE Table[i]]
    BY <2>1 DEF Table
  <2>6. Cards!Add(id, card)
    BY <2>1, <2>4, <2>5 DEF Cards!Add, Cards!Live, Table, Screens, Screen
  <2> QED
    BY <2>1, <2>6, AddIsNext
<1>4. ASSUME UNCHANGED <<rows, log>> => FALSE, UpdateTx(p) PROVE Cards!Next
  <2>0. PICK id, card : id = req[p].id /\ card = req[p].new
    OBVIOUS
  <2>1. /\ id \in DOMAIN rows /\ card \in Data /\ req[p].shown = rows[id]
        /\ req[p].shown # NoCard
        /\ rows' = [rows EXCEPT ![id] = [version |-> req[p].shown.version + 1,
                                        data |-> card]]
        /\ req'[p] = Idle
    BY <1>4, <2>0, UpdateStory, SeenIsCurrent
  <2>2. Screens' = [Screens EXCEPT ![p] = {}] /\ Screens[p] = {<<id, Table[id]>>}
    BY <1>0, <2>0, <2>1, OtherScreens, IdleTypes DEF Screen, Screens, Table
  <2>3. Table' = [Table EXCEPT ![id] = card]
    BY <2>1 DEF Table
  <2>4. Cards!Change(p, id, card)
    BY <2>1, <2>2, <2>3 DEF Cards!Change, Cards!Sees, Cards!Leave, Table, Screens, Screen
  <2> QED
    BY <2>1, <2>4, ChangeIsNext
<1>5. ASSUME UNCHANGED <<rows, log>> => FALSE, DeleteTx(p) PROVE Cards!Next
  <2>0. PICK id, card : id = req[p].id /\ card = req[p].new
    OBVIOUS
  <2>1. /\ id \in DOMAIN rows /\ req[p].shown = rows[id] /\ req[p].shown # NoCard
        /\ rows' = [i \in DOMAIN rows \ {id} |-> rows[i]]
        /\ req'[p] = Idle
    BY <1>5, <2>0, DeleteStory DEF ScreensAge
  <2>2. Screens' = [Screens EXCEPT ![p] = {}] /\ Screens[p] = {<<id, Table[id]>>}
    BY <1>0, <2>0, <2>1, OtherScreens, IdleTypes DEF Screen, Screens, Table
  <2>3. Table' = [i \in DOMAIN rows \ {id} |-> Table[i]]
    BY <2>1 DEF Table
  <2>4. Cards!Remove(p, id)
    BY <2>1, <2>2, <2>3 DEF Cards!Remove, Cards!Sees, Cards!Leave, Cards!Live, Table, Screens, Screen
  <2> QED
    BY <2>1, <2>4, RemoveIsNext
<1> QED
  BY <1>2, <1>3, <1>4, <1>5

LEMMA EditorRefines ==
    TypeOK /\ ScreensAge /\ [Next]_vars => [Cards!Next]_(Cards!vars)
<1> SUFFICES ASSUME TypeOK, ScreensAge, [Next]_vars PROVE Cards!Next \/ UNCHANGED Cards!vars
  OBVIOUS
<1>1. CASE UNCHANGED vars
  BY <1>1, SameCards DEF vars, KeepsScreen
<1>2. ASSUME NEW t \in Tokens, Login(t) \/ Logout(t) PROVE UNCHANGED Cards!vars
  BY <1>2, SameCards DEF Login, Logout, KeepsScreen
<1>3. ASSUME NEW p \in Clients, LockOrUnlock(p) PROVE UNCHANGED Cards!vars
  <2>1. req[p].shown = NoCard
    BY <1>3, RequestNow DEF LockOrUnlock, At, FitsHandler
  <2>2. req'[p] = Idle /\ Others(p) /\ rows' = rows
    BY <1>3, OneRequest DEF LockOrUnlock, Finish
  <2> QED
    BY <2>1, <2>2, IdleTypes, SameCards DEF Others, KeepsScreen
<1>4. CASE Restart
  <2>1. \A p \in Clients : KeepsScreen(p)
    BY <1>4, UnansweredTypes DEF Restart, KeepsScreen
  <2> QED
    BY <1>4, <2>1, SameCards DEF Restart
<1> QED
  BY <1>1, <1>2, <1>3, <1>4, QuietRefines, TxRefines, StepCases

\* The editor, with its split handlers, its locks and its restarts, implements
\* the table in which a card is changed only by who has it on screen as it is.
THEOREM EditorImplementsCards == ASSUME ~ReuseIds PROVE Spec => ImplementsCards
<1>1. Init => Cards!Init
  BY IdleTypes DEF Init, Cards!Init
<1> QED
  BY <1>1, EditorRefines, EditorTypes, ScreensStayHonest, PTL DEF Spec, ImplementsCards, Cards!Spec
=============================================================================

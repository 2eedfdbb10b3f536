----------------------------- MODULE CanonGraph -----------------------------
(***************************************************************************)
(* The story graph of the builder: entities, events, relations and the     *)
(* snapshots of the automatic timeline (store/entity.py, store/graph.py),  *)
(* written by the entity editor, by the staging of an analysis and by the  *)
(* promotion of a chapter (canon/diff.py).                                 *)
(*                                                                         *)
(* A request runs on a thread of its own.  It handles its items one after  *)
(* the other; for each it reads outside any transaction, then writes in    *)
(* one.  One action is one read or one write transaction; an exception may *)
(* end a request between two.  An entity is known by its id, the slug of   *)
(* its name.  Status and source of a row are one tier: "confirmed" is      *)
(* stored with the sources canon and authored, "pending" with the others.  *)
(***************************************************************************)
EXTENDS Integers, FiniteSets

CONSTANTS
    Workers,      \* threads of the server
    Ids,          \* entity ids
    Events,       \* event ids
    Rels,         \* names of relations
    Inverse,      \* relation -> its inverse in _relations.json, or None
    None,         \* no inverse; no item
    Chapters,     \* chapters that may be promoted
    MaxWork       \* bound of the explored instance: items of all requests

Keys == [from : Ids, rel : Rels, to : Ids]

ASSUME GraphAssumption ==
    /\ Inverse \in [Rels -> Rels \cup {None}] /\ None \notin Rels
    /\ \A r \in Rels : Inverse[r] # None => Inverse[Inverse[r]] \in {None, r}
    /\ Ids \cap Events = {} /\ Keys \cap (Ids \cup Events) = {}
    /\ None \notin Ids \cup Events \cup Keys
    /\ MaxWork \in Nat

VARIABLES
    rows,         \* id of an entity or event -> [tier, version]
    relations,    \* key -> its tier, "none" when there is no such row
    snapshots,    \* <<entity, chapter>> -> number of automatic timeline rows
    req,          \* worker -> its request
    overlapped,   \* history: has a request begun while another was in flight?
    spent         \* history: items of the requests so far

vars == <<rows, relations, snapshots, req, overlapped, spent>>

Row    == [tier : {"none", "fan", "draft", "canon", "authored"}, version : Nat]
Absent == [tier |-> "none", version |-> 0]

Confirmed(row) == row.tier \in {"canon", "authored"}

\* Items: the entities, events and relations a request still has to handle are
\* those it names less those it has done.  expected = 0: no version was sent.
Idle == [op |-> "none", pc |-> "idle", ents |-> {}, evs |-> {}, rels |-> {},
         done |-> {}, chapter |-> None, expected |-> 0, item |-> None, saw |-> Absent]

At(p, pc)     == req[p].pc = pc
Becomes(p, r) == req' = [req EXCEPT ![p] = r]
Finish(p)     == Becomes(p, Idle)
Handled(r, x) == [r EXCEPT !.pc = "next", !.done = @ \cup {x}, !.item = None, !.saw = Absent]

\* set_relation: the row of the other direction, when the registry has one, and
\* the rows one call writes.
Reverse(k) == [from |-> k.to, rel |-> Inverse[k.rel], to |-> k.from]

\* Seeded fault: an inverse that is there already is left alone.
WrittenOnce(k) == {k} \cup (IF Inverse[k.rel] = None \/ relations[Reverse(k)] # "none"
                            THEN {} ELSE {Reverse(k)})

Written(k) == {k} \cup (IF Inverse[k.rel] = None THEN {} ELSE {Reverse(k)})

SetRelation(k, tier) ==
    relations' = [j \in Keys |-> IF j \in Written(k) THEN tier ELSE relations[j]]

Forget(gone) == relations' = [j \in Keys |-> IF j \in gone THEN "none" ELSE relations[j]]

Init ==
    /\ rows = [x \in Ids \cup Events |-> Absent]
    /\ relations = [k \in Keys |-> "none"]
    /\ snapshots = [s \in Ids \X Chapters |-> 0]
    /\ req = [p \in Workers |-> Idle]
    /\ overlapped = FALSE
    /\ spent = 0

-----------------------------------------------------------------------------
\* Requests.  save: POST /entity.  register: POST /graph/entity.  delete: DELETE
\* /entity/{id}.  stage: POST /analyze/{id}/commit.  promote: POST /canon/promote.
Count(n) ==
    /\ spent + n <= MaxWork
    /\ spent' = spent + n
    /\ overlapped' = (overlapped \/ \E q \in Workers : ~At(q, "idle"))

Submit(p, r) ==
    /\ Becomes(p, [r EXCEPT !.pc = "next"])
    /\ UNCHANGED <<rows, relations, snapshots>>

Begin(p) ==
    /\ At(p, "idle")
    /\ Count(1)
    /\ \/ \E id \in Ids, v \in 0 .. MaxWork :
            Submit(p, [Idle EXCEPT !.op = "save", !.ents = {id}, !.expected = v])
       \/ \E id \in Ids, op \in {"register", "delete"} :
            Submit(p, [Idle EXCEPT !.op = op, !.ents = {id}])

\* What the language model may find in a text, or the writer pick of it.
Size(x)     == Cardinality(x.ents) + Cardinality(x.evs) + Cardinality(x.rels)
Extractions == {x \in [ents : SUBSET Ids, evs : SUBSET Events, rels : SUBSET Keys] :
                  Size(x) \in 1 .. MaxWork}

BeginMany(p) ==
    /\ At(p, "idle") /\ spent < MaxWork
    /\ \E x \in Extractions :
         /\ Count(Size(x))
         /\ LET r == [Idle EXCEPT !.ents = x.ents, !.evs = x.evs, !.rels = x.rels]
            IN  \/ Submit(p, [r EXCEPT !.op = "stage"])
                \/ \E ch \in Chapters : Submit(p, [r EXCEPT !.op = "promote", !.chapter = ch])

\* POST /relation and DELETE /relation/{pair_id}: one write, which no read decides.
Relate ==
    /\ Count(1)
    /\ \E k \in Keys : SetRelation(k, "authored")
    /\ UNCHANGED <<rows, snapshots, req>>

\* Seeded fault: the relation is deleted and its inverse stays.
PairOfOne(k) == {k}

Pair(k) == {j \in Keys : {j.from, j.to} = {k.from, k.to}}

Unrelate ==
    /\ Count(1)
    /\ \E k \in Keys : Forget(Pair(k))
    /\ UNCHANGED <<rows, snapshots, req>>

-----------------------------------------------------------------------------
\* stage_draft handles entities, events, relations in this order, promote entities,
\* relations, events; within a list the order is the model's.
Left(r, S)  == S \ r.done
NextRows(r) == IF Left(r, r.ents) # {} THEN Left(r, r.ents)
               ELSE IF r.op = "promote" /\ Left(r, r.rels) # {} THEN {}
               ELSE Left(r, r.evs)
NextRels(r) == IF Left(r, r.ents) # {} \/ (r.op = "stage" /\ Left(r, r.evs) # {}) THEN {}
               ELSE Left(r, r.rels)

\* save_entity refuses another version than the expected one; delete_entity does
\* nothing when there is no row.
Refused(r, row) ==
    \/ r.op = "save" /\ row # Absent /\ r.expected \notin {0, row.version}
    \/ r.op = "delete" /\ row = Absent

\* Seeded fault: only what was promoted is protected, not what was authored.
ProtectedCanon(r, row) == r.op = "stage" /\ row.tier = "canon"

Protected(r, row) == r.op = "stage" /\ Confirmed(row)

ReadRow(p) ==
    /\ At(p, "next")
    /\ \E x \in NextRows(req[p]) :
         \/ /\ Refused(req[p], rows[x])
            /\ Finish(p)
         \/ /\ Protected(req[p], rows[x])
            /\ Becomes(p, Handled(req[p], x))
         \/ /\ ~Refused(req[p], rows[x]) /\ ~Protected(req[p], rows[x])
            /\ Becomes(p, [req[p] EXCEPT !.item = x, !.saw = rows[x],
                             !.pc = IF req[p].op = "delete" THEN "delete" ELSE "row"])
    /\ UNCHANGED <<rows, relations, snapshots, overlapped, spent>>

\* Seeded fault: promotion keeps the tier of a row that exists.
TierKept(r) == IF r.saw # Absent THEN r.saw.tier
               ELSE CASE r.op = "stage"    -> "draft"
                      [] r.op = "register" -> "fan"
                      [] r.op = "promote"  -> "canon"
                      [] r.op = "save"     -> "authored"

\* The tier a write gives: an update by save_entity puts back the tier it read.
Tier(r) == CASE r.op = "stage"    -> "draft"
             [] r.op = "register" -> "fan"
             [] r.op = "promote"  -> "canon"
             [] r.op = "save"     -> IF r.saw = Absent THEN "authored" ELSE r.saw.tier

\* UPDATE ... WHERE id: version + 1 of the row there is now, or of none.
\* INSERT: fails, and the request with it, when there is a row by now.
WriteRow(p) ==
    /\ At(p, "row")
    /\ LET r == req[p]
           x == r.item
       IN  \/ /\ r.saw = Absent /\ rows[x] # Absent
              /\ Finish(p)
              /\ UNCHANGED rows
           \/ /\ r.saw # Absent \/ rows[x] = Absent
              /\ rows' = IF r.saw # Absent /\ rows[x] = Absent THEN rows
                         ELSE [rows EXCEPT ![x] = [tier    |-> Tier(r),
                                                   version |-> rows[x].version + 1]]
              /\ \/ Becomes(p, Handled(r, x))
                 \/ /\ r.op = "promote" /\ x \in Ids      \* an entity with a state
                    /\ Becomes(p, [r EXCEPT !.pc = "snapshot"])
    /\ UNCHANGED <<relations, snapshots, overlapped, spent>>

\* delete_entity: the row and its relations in one transaction; the timeline stays.
Touching(id) == {k \in Keys : id \in {k.from, k.to}}

DeleteEntity(p) ==
    /\ At(p, "delete")
    /\ rows' = [rows EXCEPT ![req[p].item] = Absent]
    /\ Forget(Touching(req[p].item))
    /\ Finish(p)
    /\ UNCHANGED <<snapshots, overlapped, spent>>

-----------------------------------------------------------------------------
\* upsert_timeline: the snapshot of the chapter is looked for, then updated or added.
Place(r) == <<r.item, r.chapter>>

\* Seeded fault: a snapshot is added without looking for one.
AlwaysAnew(r) == TRUE

Anew(r) == snapshots[Place(r)] = 0

\* An update of the snapshot that is there changes its text only.
FindSnapshot(p) ==
    /\ At(p, "snapshot")
    /\ Becomes(p, IF Anew(req[p]) THEN [req[p] EXCEPT !.pc = "add"]
                                  ELSE Handled(req[p], req[p].item))
    /\ UNCHANGED <<rows, relations, snapshots, overlapped, spent>>

AddSnapshot(p) ==
    /\ At(p, "add")
    /\ snapshots' = [snapshots EXCEPT ![Place(req[p])] = @ + 1]
    /\ Becomes(p, Handled(req[p], req[p].item))
    /\ UNCHANGED <<rows, relations, overlapped, spent>>

-----------------------------------------------------------------------------
\* set_relation with protect reads the row of its own direction, then writes both.
ReadRelation(p) ==
    /\ At(p, "next") /\ req[p].op = "stage"
    /\ \E k \in NextRels(req[p]) :
         Becomes(p, IF relations[k] = "authored" THEN Handled(req[p], k)
                    ELSE [req[p] EXCEPT !.item = k, !.pc = "relation"])
    /\ UNCHANGED <<rows, relations, snapshots, overlapped, spent>>

StageRelation(p) ==
    /\ At(p, "relation")
    /\ SetRelation(req[p].item, "draft")
    /\ Becomes(p, Handled(req[p], req[p].item))
    /\ UNCHANGED <<rows, snapshots, overlapped, spent>>

\* Seeded fault: a promoted relation gets the source of a promoted entity.
PromoteRelationAsCanon(p) ==
    /\ At(p, "next") /\ req[p].op = "promote"
    /\ \E k \in NextRels(req[p]) :
         /\ SetRelation(k, "canon")
         /\ Becomes(p, Handled(req[p], k))
    /\ UNCHANGED <<rows, snapshots, overlapped, spent>>

\* promote calls add_relation with its defaults: authored, and no protection.
PromoteRelation(p) ==
    /\ At(p, "next") /\ req[p].op = "promote"
    /\ \E k \in NextRels(req[p]) :
         /\ SetRelation(k, "authored")
         /\ Becomes(p, Handled(req[p], k))
    /\ UNCHANGED <<rows, snapshots, overlapped, spent>>

\* The answer, or an exception that ends the request where it is.
Answer(p) ==
    /\ At(p, "next") /\ NextRows(req[p]) = {} /\ NextRels(req[p]) = {}
    /\ Finish(p)
    /\ UNCHANGED <<rows, relations, snapshots, overlapped, spent>>

Fail(p) ==
    /\ ~At(p, "idle")
    /\ Finish(p)
    /\ UNCHANGED <<rows, relations, snapshots, overlapped, spent>>

Step(p) ==
    \/ Begin(p) \/ BeginMany(p)
    \/ ReadRow(p) \/ WriteRow(p) \/ DeleteEntity(p)
    \/ FindSnapshot(p) \/ AddSnapshot(p)
    \/ ReadRelation(p) \/ StageRelation(p) \/ PromoteRelation(p)
    \/ Answer(p) \/ Fail(p)

Next == Relate \/ Unrelate \/ \E p \in Workers : Step(p)

Spec == Init /\ [][Next]_vars

-----------------------------------------------------------------------------
Request ==
    [op : {"none", "save", "register", "delete", "stage", "promote"},
     pc : {"idle", "next", "row", "delete", "snapshot", "add", "relation"},
     ents : SUBSET Ids, evs : SUBSET Events, rels : SUBSET Keys,
     done : SUBSET (Ids \cup Events \cup Keys), chapter : Chapters \cup {None},
     expected : Nat, item : Ids \cup Events \cup Keys \cup {None}, saw : Row]

\* What a step holds: an entity and a chapter to write a snapshot, a relation to
\* stage, and so on.
FitsStep(r) ==
    /\ r.pc = "row" => r.item \in Ids \cup Events /\ r.op \in {"save", "register", "stage", "promote"}
    /\ r.pc = "delete" => r.item \in Ids
    /\ r.pc \in {"snapshot", "add"} => r.item \in Ids /\ r.chapter \in Chapters
    /\ r.pc = "relation" => r.item \in Keys
    /\ r.op = "promote" => r.chapter \in Chapters
    /\ r.op \notin {"stage", "promote"} => r.evs = {} /\ r.rels = {}
    /\ r.pc = "idle" <=> r.op = "none"

\* Types: the tables hold what their columns may hold and a request what its step
\* needs.  Relations are never of tier canon (promote leaves the default).
TypeOK ==
    /\ rows \in [Ids \cup Events -> Row]
    /\ relations \in [Keys -> {"none", "draft", "authored"}]
    /\ snapshots \in [Ids \X Chapters -> Nat]
    /\ req \in [Workers -> Request]
    /\ \A p \in Workers : FitsStep(req[p])
    /\ overlapped \in BOOLEAN /\ spent \in Nat

\* A relation with a registered inverse is there in both directions, whatever
\* overlaps or fails (set_relation, delete_pair, delete_entity).
PairsClosed ==
    \A k \in Keys : relations[k] # "none" /\ Inverse[k.rel] # None => relations[Reverse(k)] # "none"

\* Where the inverse of the inverse is the relation itself, both directions are of
\* one tier: a pair is never half draft and half confirmed (set_relation).
Closed(k)  == Inverse[k.rel] # None /\ Inverse[Inverse[k.rel]] = k.rel
TiersAgree == \A k \in Keys : Closed(k) => relations[k] = relations[Reverse(k)]

\* A draft does not take the place of what is confirmed.
RowYields(x) == ~(Confirmed(rows[x]) /\ rows'[x].tier = "draft")
TieYields(k) == ~(relations[k] = "authored" /\ relations'[k] = "draft")

\* "정사(confirmed/canon)는 protect로 보호" (stage_draft), of relations: staging does
\* not replace a confirmed one, even when requests come one after the other.
ConfirmedTiesKept == [][~overlapped => \A k \in Keys : TieYields(k)]_vars

\* The same as far as the code keeps it: while requests have not overlapped, for
\* entities, events and relations whose inverse is registered back.  For entities it
\* also says that a save does not bring a draft back (upsert_entity, upsert_event,
\* set_relation, save_entity).
DraftsYield ==
    [][~overlapped => /\ \A x \in Ids \cup Events : RowYields(x)
                      /\ \A k \in Keys : Closed(k) => TieYields(k)]_vars

\* "(entity_id, chapter_id) 멱등" (upsert_timeline): a chapter promoted again, also
\* after a promotion that failed half way, leaves one snapshot per entity.
OneSnapshot == ~overlapped => \A s \in Ids \X Chapters : snapshots[s] <= 1

Promoted(r) ==
    /\ \A x \in r.done \cap (Ids \cup Events) : Confirmed(rows[x])
    /\ \A k \in r.done \cap Keys : relations[k] = "authored"

\* What a promotion has gone through is confirmed at any moment until it ends, whatever
\* was staged before and although it is many transactions (promote).
PromotionHolds ==
    ~overlapped => \A p \in Workers : req[p].op = "promote" => Promoted(req[p])
=============================================================================

-------------------------- MODULE CanonGraphProofs --------------------------
(***************************************************************************)
(* Proofs about CanonGraph for any number of workers, entities, events and *)
(* relations, and any registry that satisfies GraphAssumption.  What holds *)
(* of pairs holds whatever overlaps; what holds of drafts, snapshots and   *)
(* promotions rests on Settled: while requests have not overlapped, at     *)
(* most one is in flight and what it read is still so.                     *)
(***************************************************************************)
EXTENDS CanonGraph, TLAPS

Items == Ids \cup Events \cup Keys
Busy(p) == ~At(p, "idle")

RequestTypes ==
    /\ req \in [Workers -> Request]
    /\ \A p \in Workers : FitsStep(req[p])

TableTypes ==
    /\ rows \in [Ids \cup Events -> Row]
    /\ relations \in [Keys -> {"none", "draft", "authored"}]
    /\ snapshots \in [Ids \X Chapters -> Nat]
    /\ overlapped \in BOOLEAN /\ spent \in Nat

-----------------------------------------------------------------------------
\* Requests: a step replaces the record of one worker by one that fits its step.
LEMMA IdleFits == Idle \in Request /\ FitsStep(Idle)
BY DEF Idle, Request, FitsStep, Absent, Row

LEMMA HandledFits ==
    ASSUME NEW r \in Request, FitsStep(r), r.pc # "idle", NEW x \in Items
    PROVE  Handled(r, x) \in Request /\ FitsStep(Handled(r, x))
<1>1. Absent \in Row
  BY DEF Absent, Row
<1>2. r.done \cup {x} \in SUBSET (Ids \cup Events \cup Keys)
  BY DEF Request, Items
<1>3. Handled(r, x) \in Request
  BY <1>1, <1>2 DEF Handled, Request
<1>4. FitsStep(Handled(r, x))
  BY DEF FitsStep, Handled, Request
<1> QED  BY <1>3, <1>4

LEMMA OneRequest ==
    ASSUME RequestTypes, NEW p \in Workers, NEW r \in Request, FitsStep(r), Becomes(p, r)
    PROVE  RequestTypes'
<1>1. req' \in [Workers -> Request]
  BY DEF RequestTypes, Becomes
<1>2. ASSUME NEW q \in Workers PROVE FitsStep(req'[q])
  <2>1. CASE q = p  BY <2>1 DEF RequestTypes, Becomes
  <2>2. CASE q # p  BY <2>2 DEF RequestTypes, Becomes
  <2> QED  BY <2>1, <2>2
<1>3. \A q \in Workers : FitsStep(req'[q])
  BY <1>2
<1> QED  BY <1>1, <1>3 DEF RequestTypes, FitsStep

LEMMA Finishing ==
    ASSUME RequestTypes, NEW p \in Workers, Finish(p)
    PROVE  RequestTypes'
BY OneRequest, IdleFits DEF Finish

LEMMA Handling ==
    ASSUME RequestTypes, NEW p \in Workers, Busy(p), NEW x \in Items, Becomes(p, Handled(req[p], x))
    PROVE  RequestTypes'
<1>1. req[p] \in Request /\ FitsStep(req[p]) /\ req[p].pc # "idle"
  BY DEF RequestTypes, Busy, At
<1> QED  BY <1>1, HandledFits, OneRequest

\* What a request may take next is one of its items.
LEMMA NextItems ==
    ASSUME NEW r \in Request
    PROVE  NextRows(r) \subseteq (r.ents \cup r.evs) /\ NextRels(r) \subseteq r.rels
BY DEF NextRows, NextRels, Left

LEMMA Tables ==
    ASSUME TableTypes, UNCHANGED <<rows, relations, snapshots, overlapped, spent>>
    PROVE  TableTypes'
BY DEF TableTypes

-----------------------------------------------------------------------------
LEMMA ReverseInKeys ==
    ASSUME NEW k \in Keys, Inverse[k.rel] # None
    PROVE  Reverse(k) \in Keys
BY GraphAssumption DEF Reverse, Keys

LEMMA InitTypes == Init => TypeOK
<1> SUFFICES ASSUME Init PROVE TypeOK
  OBVIOUS
<1>1. \A p \in Workers : req[p] = Idle
  BY DEF Init
<1>2. req \in [Workers -> Request] /\ \A p \in Workers : FitsStep(req[p])
  BY <1>1, IdleFits DEF Init
<1> QED  BY <1>2 DEF Init, TypeOK, Absent, Row

LEMMA Counting ==
    ASSUME TypeOK, NEW n \in Nat, Count(n)
    PROVE  spent' \in Nat /\ overlapped' \in BOOLEAN
<1>1. spent' \in Nat
  BY DEF TypeOK, Count
<1>2. overlapped' = TRUE \/ overlapped' = FALSE
  BY Zenon DEF Count
<1> QED  BY <1>1, <1>2

LEMMA IdleFields ==
    /\ Idle.evs = {} /\ Idle.rels = {} /\ Idle.done = {}
    /\ Idle.chapter = None /\ Idle.pc = "idle"
BY DEF Idle

Opening(r) == r \in Request /\ FitsStep(r) /\ r.pc = "next" /\ r.done = {}

LEMMA BeginOpens ==
    ASSUME NEW p \in Workers, Begin(p)
    PROVE  \E r : Becomes(p, r) /\ Opening(r)
<1>1. CASE \E id \in Ids, v \in 0 .. MaxWork :
             Submit(p, [Idle EXCEPT !.op = "save", !.ents = {id}, !.expected = v])
  <2>1. PICK id \in Ids, v \in 0 .. MaxWork :
          Becomes(p, [Idle EXCEPT !.op = "save", !.ents = {id}, !.expected = v, !.pc = "next"])
    BY <1>1 DEF Submit
  <2>2. v \in Nat
    BY GraphAssumption
  <2> DEFINE r == [Idle EXCEPT !.op = "save", !.ents = {id}, !.expected = v, !.pc = "next"]
  <2>3. r \in Request
    BY <2>2, IdleFits DEF Request
  <2>4. FitsStep(r) /\ r.pc = "next" /\ r.done = {}
    BY IdleFits, IdleFields DEF FitsStep, Request
  <2> QED  BY <2>1, <2>3, <2>4 DEF Opening
<1>2. CASE \E id \in Ids, op \in {"register", "delete"} :
             Submit(p, [Idle EXCEPT !.op = op, !.ents = {id}])
  <2>1. PICK id \in Ids, op \in {"register", "delete"} :
          Becomes(p, [Idle EXCEPT !.op = op, !.ents = {id}, !.pc = "next"])
    BY <1>2 DEF Submit
  <2> DEFINE r == [Idle EXCEPT !.op = op, !.ents = {id}, !.pc = "next"]
  <2>2. r \in Request
    BY IdleFits DEF Request
  <2>3. FitsStep(r) /\ r.pc = "next" /\ r.done = {}
    BY IdleFits, IdleFields DEF FitsStep, Request
  <2> QED  BY <2>1, <2>2, <2>3 DEF Opening
<1> QED  BY <1>1, <1>2 DEF Begin

LEMMA BeginManyOpens ==
    ASSUME NEW p \in Workers, BeginMany(p)
    PROVE  \E r : Becomes(p, r) /\ Opening(r)
<1>1. PICK x \in Extractions :
        LET r == [Idle EXCEPT !.ents = x.ents, !.evs = x.evs, !.rels = x.rels]
        IN  \/ Submit(p, [r EXCEPT !.op = "stage"])
            \/ \E ch \in Chapters : Submit(p, [r EXCEPT !.op = "promote", !.chapter = ch])
  BY DEF BeginMany
<1>2. x \in [ents : SUBSET Ids, evs : SUBSET Events, rels : SUBSET Keys]
  BY DEF Extractions
<1> DEFINE s == [Idle EXCEPT !.ents = x.ents, !.evs = x.evs, !.rels = x.rels]
<1>3. CASE Submit(p, [s EXCEPT !.op = "stage"])
  <2>1. Becomes(p, [s EXCEPT !.op = "stage", !.pc = "next"])
    BY <1>3 DEF Submit
  <2> DEFINE r == [s EXCEPT !.op = "stage", !.pc = "next"]
  <2>2. r \in Request
    BY <1>2, IdleFits DEF Request
  <2>3. FitsStep(r) /\ r.pc = "next" /\ r.done = {}
    BY <1>2, IdleFits, IdleFields DEF FitsStep, Request
  <2> QED  BY <2>1, <2>2, <2>3 DEF Opening
<1>4. CASE \E ch \in Chapters : Submit(p, [s EXCEPT !.op = "promote", !.chapter = ch])
  <2>1. PICK ch \in Chapters : Becomes(p, [s EXCEPT !.op = "promote", !.chapter = ch, !.pc = "next"])
    BY <1>4 DEF Submit
  <2> DEFINE r == [s EXCEPT !.op = "promote", !.chapter = ch, !.pc = "next"]
  <2>2. r \in Request
    BY <1>2, IdleFits DEF Request
  <2>3. FitsStep(r) /\ r.pc = "next" /\ r.done = {}
    BY <1>2, IdleFits, IdleFields DEF FitsStep, Request
  <2> QED  BY <2>1, <2>2, <2>3 DEF Opening
<1> QED  BY <1>1, <1>3, <1>4

LEMMA BeginTypes ==
    ASSUME TypeOK, NEW p \in Workers, Begin(p) \/ BeginMany(p)
    PROVE  TypeOK'
<1>1. RequestTypes'
  BY BeginOpens, BeginManyOpens, OneRequest DEF Opening, TypeOK, RequestTypes
<1>2. \A x \in Extractions : Size(x) \in Nat
  BY GraphAssumption DEF Extractions
<1>3. spent' \in Nat /\ overlapped' \in BOOLEAN
  BY <1>2, Counting DEF Begin, BeginMany
<1>4. UNCHANGED <<rows, relations, snapshots>>
  BY DEF Begin, BeginMany, Submit
<1> QED  BY <1>1, <1>3, <1>4 DEF TypeOK, RequestTypes

LEMMA RelateTypes ==
    ASSUME TypeOK, Relate \/ Unrelate
    PROVE  TypeOK'
<1>1. spent' \in Nat /\ overlapped' \in BOOLEAN /\ UNCHANGED <<rows, snapshots, req>>
  BY Counting DEF Relate, Unrelate
<1>2. relations' \in [Keys -> {"none", "draft", "authored"}]
  BY DEF TypeOK, Relate, Unrelate, SetRelation, Forget
<1> QED  BY <1>1, <1>2 DEF TypeOK, FitsStep

LEMMA ReadRowTypes ==
    ASSUME TypeOK, NEW p \in Workers, ReadRow(p)
    PROVE  TypeOK'
<1>1. PICK x \in NextRows(req[p]) :
        \/ Finish(p)
        \/ Becomes(p, Handled(req[p], x))
        \/ Becomes(p, [req[p] EXCEPT !.item = x, !.saw = rows[x],
                         !.pc = IF req[p].op = "delete" THEN "delete" ELSE "row"])
  BY DEF ReadRow
<1>2. At(p, "next") /\ UNCHANGED <<rows, relations, snapshots, overlapped, spent>>
  BY DEF ReadRow
<1>3. RequestTypes /\ TableTypes /\ Busy(p)
  BY <1>2 DEF TypeOK, RequestTypes, TableTypes, Busy, At
<1>4. req[p] \in Request /\ FitsStep(req[p]) /\ req[p].pc = "next"
  BY <1>2 DEF TypeOK, At
<1>5. x \in Ids \cup Events /\ rows[x] \in Row
  BY <1>4, NextItems DEF TypeOK, Request
<1>6. ASSUME Becomes(p, [req[p] EXCEPT !.item = x, !.saw = rows[x],
                           !.pc = IF req[p].op = "delete" THEN "delete" ELSE "row"])
      PROVE  RequestTypes'
  <2> DEFINE r == [req[p] EXCEPT !.item = x, !.saw = rows[x],
                     !.pc = IF req[p].op = "delete" THEN "delete" ELSE "row"]
  <2>1. req[p].op = "delete" => x \in Ids
    <3>1. req[p].op = "delete" => req[p].evs = {}
      BY <1>4 DEF FitsStep
    <3> QED  BY <3>1, <1>4, NextItems DEF Request
  <2>2. r \in Request
    BY <1>4, <1>5 DEF Request
  <2>3. FitsStep(r)
    BY <1>4, <1>5, <2>1 DEF FitsStep, Request
  <2> QED  BY <1>3, <1>6, <2>2, <2>3, OneRequest
<1>7. RequestTypes'
  BY <1>1, <1>3, <1>5, <1>6, Finishing, Handling DEF Items
<1> QED  BY <1>2, <1>3, <1>7, Tables DEF TypeOK, RequestTypes, TableTypes

LEMMA WriteRowTypes ==
    ASSUME TypeOK, NEW p \in Workers, WriteRow(p)
    PROVE  TypeOK'
<1> DEFINE x == req[p].item
<1>1. req[p] \in Request /\ FitsStep(req[p]) /\ req[p].pc = "row"
  BY DEF TypeOK, WriteRow, At
<1>2. x \in Ids \cup Events /\ req[p].op \in {"save", "register", "stage", "promote"} /\ req[p].saw \in Row
  BY <1>1 DEF FitsStep, Request
<1>3. RequestTypes /\ Busy(p)
  BY <1>1 DEF TypeOK, RequestTypes, Busy, At
<1>4. \/ Finish(p) /\ UNCHANGED rows
      \/ /\ rows' = rows \/ rows' = [rows EXCEPT ![x] = [tier |-> Tier(req[p]), version |-> rows[x].version + 1]]
         /\ \/ Becomes(p, Handled(req[p], x))
            \/ /\ req[p].op = "promote" /\ x \in Ids
               /\ Becomes(p, [req[p] EXCEPT !.pc = "snapshot"])
  BY DEF WriteRow
<1>5. Tier(req[p]) \in {"none", "fan", "draft", "canon", "authored"}
  BY <1>2 DEF Tier, Row
<1>6. rows' \in [Ids \cup Events -> Row]
  <2>1. [tier |-> Tier(req[p]), version |-> rows[x].version + 1] \in Row
    BY <1>2, <1>5 DEF TypeOK, Row
  <2> QED  BY <1>4, <2>1 DEF TypeOK
<1>7. ASSUME req[p].op = "promote", x \in Ids, Becomes(p, [req[p] EXCEPT !.pc = "snapshot"])
      PROVE  RequestTypes'
  <2>1. [req[p] EXCEPT !.pc = "snapshot"] \in Request
    BY <1>1 DEF Request
  <2>2. FitsStep([req[p] EXCEPT !.pc = "snapshot"])
    BY <1>1, <1>7 DEF FitsStep, Request
  <2> QED  BY <1>3, <1>7, <2>1, <2>2, OneRequest
<1>8. RequestTypes'
  BY <1>2, <1>3, <1>4, <1>7, Finishing, Handling DEF Items
<1>9. UNCHANGED <<relations, snapshots, overlapped, spent>>
  BY DEF WriteRow
<1> QED  BY <1>6, <1>8, <1>9 DEF TypeOK, RequestTypes

LEMMA DeleteTypes ==
    ASSUME TypeOK, NEW p \in Workers, DeleteEntity(p)
    PROVE  TypeOK'
<1>1. RequestTypes'
  BY Finishing DEF DeleteEntity, TypeOK, RequestTypes
<1>2. rows' \in [Ids \cup Events -> Row]
  BY DEF DeleteEntity, TypeOK, Absent, Row
<1>3. relations' \in [Keys -> {"none", "draft", "authored"}]
  BY DEF DeleteEntity, TypeOK, Forget
<1>4. UNCHANGED <<snapshots, overlapped, spent>>
  BY DEF DeleteEntity
<1> QED  BY <1>1, <1>2, <1>3, <1>4 DEF TypeOK, RequestTypes

LEMMA SnapshotTypes ==
    ASSUME TypeOK, NEW p \in Workers, FindSnapshot(p) \/ AddSnapshot(p)
    PROVE  TypeOK'
<1>1. req[p] \in Request /\ FitsStep(req[p]) /\ req[p].pc \in {"snapshot", "add"}
  BY DEF TypeOK, FindSnapshot, AddSnapshot, At
<1>2. req[p].item \in Ids /\ req[p].chapter \in Chapters
  BY <1>1 DEF FitsStep
<1>3. RequestTypes /\ Busy(p)
  BY <1>1 DEF TypeOK, RequestTypes, Busy, At
<1>4. Becomes(p, Handled(req[p], req[p].item)) \/ Becomes(p, [req[p] EXCEPT !.pc = "add"])
  BY DEF FindSnapshot, AddSnapshot
<1>5. ASSUME Becomes(p, [req[p] EXCEPT !.pc = "add"]) PROVE RequestTypes'
  <2>1. [req[p] EXCEPT !.pc = "add"] \in Request
    BY <1>1 DEF Request
  <2>2. FitsStep([req[p] EXCEPT !.pc = "add"])
    BY <1>1, <1>2 DEF FitsStep, Request
  <2> QED  BY <1>3, <1>5, <2>1, <2>2, OneRequest
<1>6. RequestTypes'
  BY <1>2, <1>3, <1>4, <1>5, Handling DEF Items
<1>7. snapshots' \in [Ids \X Chapters -> Nat]
  <2>1. Place(req[p]) \in Ids \X Chapters
    BY <1>2 DEF Place
  <2> QED  BY <2>1 DEF TypeOK, FindSnapshot, AddSnapshot
<1>8. UNCHANGED <<rows, relations, overlapped, spent>>
  BY DEF FindSnapshot, AddSnapshot
<1> QED  BY <1>6, <1>7, <1>8 DEF TypeOK, RequestTypes

LEMMA RelationTypes ==
    ASSUME TypeOK, NEW p \in Workers, ReadRelation(p) \/ StageRelation(p) \/ PromoteRelation(p)
    PROVE  TypeOK'
<1>1. req[p] \in Request /\ FitsStep(req[p]) /\ req[p].pc \in {"next", "relation"}
  BY DEF TypeOK, ReadRelation, StageRelation, PromoteRelation, At
<1>2. RequestTypes /\ Busy(p)
  BY <1>1 DEF TypeOK, RequestTypes, Busy, At
<1>3. \A k \in NextRels(req[p]) : k \in Keys
  BY <1>1, NextItems DEF Request
<1>4. req[p].pc = "relation" => req[p].item \in Keys
  BY <1>1 DEF FitsStep
<1>5. RequestTypes'
  <2>1. CASE ReadRelation(p)
    <3>1. PICK k \in NextRels(req[p]) :
            \/ Becomes(p, Handled(req[p], k))
            \/ Becomes(p, [req[p] EXCEPT !.item = k, !.pc = "relation"])
      BY <2>1 DEF ReadRelation
    <3>2. k \in Keys
      BY <1>3
    <3>3. CASE Becomes(p, [req[p] EXCEPT !.item = k, !.pc = "relation"])
      <4>1. [req[p] EXCEPT !.item = k, !.pc = "relation"] \in Request
        BY <1>1, <3>2 DEF Request
      <4>2. req[p].pc = "next"
        BY <2>1 DEF ReadRelation, At
      <4>3. FitsStep([req[p] EXCEPT !.item = k, !.pc = "relation"])
        BY <1>1, <3>2, <4>2 DEF FitsStep, Request
      <4> QED  BY <1>2, <3>3, <4>1, <4>3, OneRequest
    <3> QED  BY <1>2, <3>1, <3>2, <3>3, Handling DEF Items
  <2>2. CASE StageRelation(p)
    BY <1>2, <1>4, <2>2, Handling DEF StageRelation, At, Items
  <2>3. CASE PromoteRelation(p)
    BY <1>2, <1>3, <2>3, Handling DEF PromoteRelation, Items
  <2> QED  BY <2>1, <2>2, <2>3
<1>6. relations' \in [Keys -> {"none", "draft", "authored"}]
  BY DEF TypeOK, ReadRelation, StageRelation, PromoteRelation, SetRelation
<1>7. UNCHANGED <<rows, snapshots, overlapped, spent>>
  BY DEF ReadRelation, StageRelation, PromoteRelation
<1> QED  BY <1>5, <1>6, <1>7 DEF TypeOK, RequestTypes

LEMMA EndTypes ==
    ASSUME TypeOK, NEW p \in Workers, Answer(p) \/ Fail(p)
    PROVE  TypeOK'
<1>1. RequestTypes'
  BY Finishing DEF Answer, Fail, TypeOK, RequestTypes
<1> QED  BY <1>1 DEF Answer, Fail, TypeOK, RequestTypes

LEMMA NextTypes == TypeOK /\ [Next]_vars => TypeOK'
<1> SUFFICES ASSUME TypeOK, [Next]_vars PROVE TypeOK'
  OBVIOUS
<1>1. CASE UNCHANGED vars
  BY <1>1 DEF TypeOK, vars, FitsStep
<1>2. CASE Relate \/ Unrelate
  BY <1>2, RelateTypes
<1>3. ASSUME NEW p \in Workers, Step(p) PROVE TypeOK'
  BY <1>3, BeginTypes, ReadRowTypes, WriteRowTypes, DeleteTypes,
     SnapshotTypes, RelationTypes, EndTypes DEF Step
<1> QED  BY <1>1, <1>2, <1>3 DEF Next

\* The tables and the requests in flight keep their types, for any number of threads and
\* any registry (store/entity.py, store/graph.py, canon/diff.py).
THEOREM GraphTypes == Spec => []TypeOK
BY InitTypes, NextTypes, PTL DEF Spec

-----------------------------------------------------------------------------
\* Pairs.  The rows one call writes, and the rows one call deletes, are closed under
\* the registered inverses.
LEMMA WrittenClosed ==
    ASSUME NEW k \in Keys, NEW j \in Written(k), Inverse[j.rel] # None
    PROVE  j \in Keys /\ Reverse(j) \in Written(k)
<1>1. CASE j = k
  BY <1>1 DEF Written
<1>2. CASE j # k
  <2>1. Inverse[k.rel] # None /\ j = Reverse(k)
    BY <1>2 DEF Written
  <2>2. k.rel \in Rels /\ j.rel = Inverse[k.rel]
    BY <2>1 DEF Keys, Reverse
  <2>3. Inverse[j.rel] = k.rel
    BY <2>1, <2>2, GraphAssumption
  <2>4. Reverse(j) = k
    BY <2>1, <2>3 DEF Reverse, Keys
  <2> QED  BY <2>1, <2>4, ReverseInKeys DEF Written
<1> QED  BY <1>1, <1>2

LEMMA WrittenBack ==
    ASSUME NEW k \in Keys, NEW j \in Keys, Closed(j), Reverse(j) \in Written(k)
    PROVE  j \in Written(k)
<1>1. j.rel \in Rels /\ Reverse(j).rel = Inverse[j.rel]
  BY DEF Keys, Reverse
<1>2. Inverse[Reverse(j).rel] = j.rel /\ j.rel # None
  BY <1>1, GraphAssumption DEF Closed
<1>3. Reverse(Reverse(j)) = j
  BY <1>2 DEF Reverse, Keys
<1> QED  BY <1>2, <1>3, WrittenClosed

LEMMA SettingKeepsPairs ==
    ASSUME TypeOK, PairsClosed, TiersAgree, NEW k \in Keys, NEW tier \in {"draft", "authored"},
           SetRelation(k, tier)
    PROVE  PairsClosed' /\ TiersAgree'
<1>1. \A j \in Keys : relations'[j] = IF j \in Written(k) THEN tier ELSE relations[j]
  BY DEF SetRelation
<1>2. ASSUME NEW j \in Keys, relations'[j] # "none", Inverse[j.rel] # None
      PROVE  relations'[Reverse(j)] # "none"
  <2>1. Reverse(j) \in Keys
    BY <1>2, ReverseInKeys
  <2>2. CASE j \in Written(k)
    BY <1>1, <1>2, <2>1, <2>2, WrittenClosed
  <2>3. CASE j \notin Written(k)
    BY <1>1, <1>2, <2>1, <2>3 DEF PairsClosed
  <2> QED  BY <2>2, <2>3
<1>3. ASSUME NEW j \in Keys, Closed(j)
      PROVE  relations'[j] = relations'[Reverse(j)]
  <2>1. Reverse(j) \in Keys /\ Inverse[j.rel] # None
    BY <1>3, ReverseInKeys DEF Closed
  <2>2. j \in Written(k) <=> Reverse(j) \in Written(k)
    BY <1>3, <2>1, WrittenClosed, WrittenBack
  <2> QED  BY <1>1, <1>3, <2>1, <2>2 DEF TiersAgree
<1>4. PairsClosed'
  BY <1>2 DEF PairsClosed, Reverse
<1>5. TiersAgree'
  BY <1>3 DEF TiersAgree, Closed, Reverse
<1> QED  BY <1>4, <1>5

LEMMA ForgettingKeepsPairs ==
    ASSUME PairsClosed, TiersAgree, NEW gone,
           \A j \in Keys : Inverse[j.rel] # None => (j \in gone <=> Reverse(j) \in gone),
           Forget(gone)
    PROVE  PairsClosed' /\ TiersAgree'
<1>1. \A j \in Keys : relations'[j] = IF j \in gone THEN "none" ELSE relations[j]
  BY DEF Forget
<1>2. ASSUME NEW j \in Keys, relations'[j] # "none", Inverse[j.rel] # None
      PROVE  relations'[Reverse(j)] # "none"
  BY <1>1, <1>2, ReverseInKeys DEF PairsClosed
<1>3. ASSUME NEW j \in Keys, Closed(j)
      PROVE  relations'[j] = relations'[Reverse(j)]
  BY <1>1, <1>3, ReverseInKeys DEF TiersAgree, Closed
<1>4. PairsClosed'
  BY <1>2 DEF PairsClosed, Reverse
<1>5. TiersAgree'
  BY <1>3 DEF TiersAgree, Closed, Reverse
<1> QED  BY <1>4, <1>5

LEMMA PairsStep == TypeOK /\ PairsClosed /\ TiersAgree /\ [Next]_vars => PairsClosed' /\ TiersAgree'
<1> SUFFICES ASSUME TypeOK, PairsClosed, TiersAgree, [Next]_vars PROVE PairsClosed' /\ TiersAgree'
  OBVIOUS
<1>1. ASSUME UNCHANGED relations PROVE PairsClosed' /\ TiersAgree'
  BY <1>1 DEF PairsClosed, TiersAgree, Closed, Reverse
<1>2. CASE Relate
  BY <1>2, SettingKeepsPairs DEF Relate
<1>3. CASE Unrelate
  <2>1. PICK k \in Keys : Forget(Pair(k))
    BY <1>3 DEF Unrelate
  <2>2. \A j \in Keys : Inverse[j.rel] # None => (j \in Pair(k) <=> Reverse(j) \in Pair(k))
    <3> SUFFICES ASSUME NEW j \in Keys, Inverse[j.rel] # None
                 PROVE  j \in Pair(k) <=> Reverse(j) \in Pair(k)
      OBVIOUS
    <3>1. Reverse(j) \in Keys /\ {Reverse(j).from, Reverse(j).to} = {j.from, j.to}
      BY ReverseInKeys DEF Reverse
    <3> QED  BY <3>1 DEF Pair
  <2> QED  BY <2>1, <2>2, ForgettingKeepsPairs
<1>4. ASSUME NEW p \in Workers, DeleteEntity(p) PROVE PairsClosed' /\ TiersAgree'
  <2> DEFINE id == req[p].item
  <2>1. Forget(Touching(id))
    BY <1>4 DEF DeleteEntity
  <2>2. \A j \in Keys : Inverse[j.rel] # None => (j \in Touching(id) <=> Reverse(j) \in Touching(id))
    <3> SUFFICES ASSUME NEW j \in Keys, Inverse[j.rel] # None
                 PROVE  j \in Touching(id) <=> Reverse(j) \in Touching(id)
      OBVIOUS
    <3>1. Reverse(j) \in Keys /\ {Reverse(j).from, Reverse(j).to} = {j.from, j.to}
      BY ReverseInKeys DEF Reverse
    <3> QED  BY <3>1 DEF Touching
  <2> QED  BY <2>1, <2>2, ForgettingKeepsPairs
<1>5. ASSUME NEW p \in Workers, StageRelation(p) PROVE PairsClosed' /\ TiersAgree'
  <2>1. req[p].item \in Keys
    BY <1>5 DEF StageRelation, At, TypeOK, FitsStep
  <2> QED  BY <1>5, <2>1, SettingKeepsPairs DEF StageRelation
<1>6. ASSUME NEW p \in Workers, PromoteRelation(p) PROVE PairsClosed' /\ TiersAgree'
  <2>1. PICK k \in NextRels(req[p]) : SetRelation(k, "authored")
    BY <1>6 DEF PromoteRelation
  <2>2. k \in Keys
    BY NextItems DEF TypeOK, Request
  <2> QED  BY <2>1, <2>2, SettingKeepsPairs
<1>7. ASSUME NEW p \in Workers,
             \/ Begin(p) \/ BeginMany(p) \/ ReadRow(p) \/ WriteRow(p) \/ FindSnapshot(p)
             \/ AddSnapshot(p) \/ ReadRelation(p) \/ Answer(p) \/ Fail(p)
      PROVE  UNCHANGED relations
  BY <1>7 DEF Begin, BeginMany, Submit, ReadRow, WriteRow, FindSnapshot, AddSnapshot,
             ReadRelation, Answer, Fail
<1> QED
  BY <1>1, <1>2, <1>3, <1>4, <1>5, <1>6, <1>7 DEF Next, Step, vars

\* Whatever overlaps and fails, a relation has its registered inverse (set_relation,
\* delete_pair, delete_entity), and two that are each other's inverse are of one tier.
PairInv == TypeOK /\ PairsClosed /\ TiersAgree

LEMMA PairsHold == Spec => []PairInv
<1>1. Init => PairInv
  <2> SUFFICES ASSUME Init PROVE PairInv
    OBVIOUS
  <2>1. \A k \in Keys : relations[k] = "none"
    BY DEF Init
  <2> QED  BY <2>1, InitTypes, ReverseInKeys DEF PairInv, PairsClosed, TiersAgree, Closed
<1>2. PairInv /\ [Next]_vars => PairInv'
  BY NextTypes, PairsStep DEF PairInv
<1> QED  BY <1>1, <1>2, PTL DEF Spec

\* A relation with a registered inverse is there in both directions (set_relation,
\* delete_pair, delete_entity).
THEOREM PairsStayClosed == Spec => []PairsClosed
<1>1. PairInv => PairsClosed
  BY DEF PairInv
<1> QED  BY <1>1, PairsHold, PTL

\* A pair is never half draft and half confirmed (set_relation).
THEOREM PairsAreOfOneTier == Spec => []TiersAgree
<1>1. PairInv => TiersAgree
  BY DEF PairInv
<1> QED  BY <1>1, PairsHold, PTL

-----------------------------------------------------------------------------
\* While requests have not overlapped: what the one in flight read is still so, and
\* what it has promoted is confirmed.
Fresh(r) ==
    /\ r.pc = "row" => r.saw = rows[r.item] /\ (r.op = "stage" => ~Confirmed(r.saw))
    /\ r.pc = "relation" => r.op = "stage" /\ relations[r.item] # "authored"
    /\ r.pc \in {"snapshot", "add"} => r.op = "promote" /\ Confirmed(rows[r.item])
    /\ r.pc = "add" => snapshots[Place(r)] = 0
    /\ r.op = "promote" => Promoted(r)

Settled ==
    /\ \A p, q \in Workers : Busy(p) /\ Busy(q) => p = q
    /\ \A p \in Workers : Fresh(req[p])
    /\ \A s \in Ids \X Chapters : snapshots[s] <= 1

SerialInv == PairInv /\ (~overlapped => Settled)

\* When the only request in flight takes a step, or the first one begins, it suffices
\* to look at its new record.
LEMMA OneInFlight ==
    ASSUME TypeOK, NEW p \in Workers, NEW r, Becomes(p, r),
           \A q \in Workers : Busy(q) => q = p, Fresh(r)'
    PROVE  /\ \A q, s \in Workers : Busy(q)' /\ Busy(s)' => q = s
           /\ \A q \in Workers : Fresh(req[q])'
<1>1. req' = [req EXCEPT ![p] = r] /\ req \in [Workers -> Request]
  BY DEF TypeOK, Becomes
<1>2. ASSUME NEW q \in Workers, q # p
      PROVE  req'[q] = req[q] /\ req[q].pc = "idle" /\ Fresh(req[q])'
  <2>1. req'[q] = req[q] /\ req[q] \in Request /\ FitsStep(req[q]) /\ req[q].pc = "idle"
    BY <1>1, <1>2 DEF TypeOK, Busy, At
  <2>2. req[q].op = "none"
    BY <2>1 DEF FitsStep
  <2>3. req'[q].pc = "idle" /\ req'[q].op = "none"
    BY <2>1, <2>2
  <2>4. Fresh(req[q])'
    BY <2>3 DEF Fresh
  <2> QED  BY <2>1, <2>4
<1>3. \A q \in Workers : q # p => ~Busy(q)'
  BY <1>2 DEF Busy, At
<1>4. req'[p] = r
  BY <1>1
<1>5. \A q \in Workers : Fresh(req[q])'
  BY <1>2, <1>4 DEF Fresh, Place, Promoted
<1> QED  BY <1>3, <1>5

\* The same with the tables' part: a step that adds no snapshot.
LEMMA OneStep ==
    ASSUME TypeOK, Settled, NEW p \in Workers, NEW r, Becomes(p, r), Busy(p) \/ \A q \in Workers : ~Busy(q),
           Fresh(r)', UNCHANGED snapshots
    PROVE  Settled'
<1>1. \A q \in Workers : Busy(q) => q = p
  BY DEF Settled
<1>2. \A s \in Ids \X Chapters : snapshots'[s] <= 1
  BY DEF Settled
<1>3. /\ \A q, s \in Workers : Busy(q)' /\ Busy(s)' => q = s
      /\ \A q \in Workers : Fresh(req[q])'
  BY <1>1, OneInFlight
<1> QED  BY <1>2, <1>3 DEF Settled

LEMMA IdleIsFresh == Fresh(Idle)'
BY DEF Fresh, Idle

LEMMA Carried ==
    ASSUME TypeOK, Settled, NEW p \in Workers, Busy(p), NEW x, Becomes(p, Handled(req[p], x)),
           UNCHANGED snapshots,
           req[p].op = "promote" =>
             /\ \A y \in (req[p].done \cup {x}) \cap (Ids \cup Events) : Confirmed(rows'[y])
             /\ \A k \in (req[p].done \cup {x}) \cap Keys : relations'[k] = "authored"
    PROVE  Settled'
<1>1. PICK r : r = Handled(req[p], x)
  OBVIOUS
<1>2. r.pc = "next" /\ r.op = req[p].op /\ r.done = req[p].done \cup {x}
  BY <1>1 DEF Handled, TypeOK, Request
<1>3. r.op = "promote" => Promoted(r)'
  BY <1>2 DEF Promoted
<1>4. Fresh(r)'
  BY <1>2, <1>3 DEF Fresh
<1> QED  BY <1>1, <1>4, OneStep

LEMMA CountAlone ==
    ASSUME NEW n, Count(n), ~overlapped'
    PROVE  ~overlapped /\ \A q \in Workers : ~Busy(q)
BY DEF Count, Busy

LEMMA BeginSettled ==
    ASSUME TypeOK, Settled, NEW p \in Workers, Begin(p) \/ BeginMany(p), ~overlapped'
    PROVE  Settled'
<1>1. \A q \in Workers : ~Busy(q)
  BY CountAlone DEF Begin, BeginMany
<1>2. UNCHANGED snapshots
  BY DEF Begin, BeginMany, Submit
<1>3. PICK r : Becomes(p, r) /\ Opening(r)
  BY BeginOpens, BeginManyOpens
<1>4. Fresh(r)'
  BY <1>3 DEF Opening, Fresh, Promoted
<1> QED  BY <1>1, <1>2, <1>3, <1>4, OneStep

LEMMA RelateSettled ==
    ASSUME TypeOK, Settled, Relate \/ Unrelate, ~overlapped'
    PROVE  Settled'
<1>1. \A q \in Workers : ~Busy(q)
  BY CountAlone DEF Relate, Unrelate
<1>2. UNCHANGED <<snapshots, req>>
  BY DEF Relate, Unrelate
<1>3. ASSUME NEW q \in Workers PROVE Fresh(req[q])'
  <2>1. req'[q].pc = "idle" /\ req'[q].op = "none"
    BY <1>1, <1>2 DEF Busy, At, TypeOK, FitsStep
  <2> QED  BY <2>1 DEF Fresh
<1> QED  BY <1>1, <1>2, <1>3 DEF Settled, Busy, At

LEMMA ReadRowSettled ==
    ASSUME TypeOK, Settled, NEW p \in Workers, ReadRow(p)
    PROVE  Settled'
<1>1. PICK x \in NextRows(req[p]) :
        \/ Finish(p)
        \/ Protected(req[p], rows[x]) /\ Becomes(p, Handled(req[p], x))
        \/ /\ ~Protected(req[p], rows[x])
           /\ Becomes(p, [req[p] EXCEPT !.item = x, !.saw = rows[x],
                            !.pc = IF req[p].op = "delete" THEN "delete" ELSE "row"])
  BY DEF ReadRow
<1>2. UNCHANGED <<rows, relations, snapshots>> /\ req[p].pc = "next" /\ Busy(p)
  BY DEF ReadRow, At, Busy
<1>3. req[p] \in Request /\ Fresh(req[p])
  BY DEF TypeOK, Settled
<1>4. CASE Finish(p)
  BY <1>2, <1>4, IdleIsFresh, OneStep DEF Finish
<1>5. CASE Protected(req[p], rows[x]) /\ Becomes(p, Handled(req[p], x))
  BY <1>2, <1>5, Carried DEF Protected
<1>6. CASE /\ ~Protected(req[p], rows[x])
           /\ Becomes(p, [req[p] EXCEPT !.item = x, !.saw = rows[x],
                            !.pc = IF req[p].op = "delete" THEN "delete" ELSE "row"])
  <2> DEFINE r == [req[p] EXCEPT !.item = x, !.saw = rows[x],
                     !.pc = IF req[p].op = "delete" THEN "delete" ELSE "row"]
  <2>1. /\ r.pc \in {"row", "delete"} /\ r.item = x /\ r.saw = rows[x]
        /\ r.op = req[p].op /\ r.done = req[p].done
    BY <1>3 DEF Request
  <2> HIDE DEF r
  <2>2. PICK s : s = r
    OBVIOUS
  <2>3. Fresh(s)'
    BY <1>2, <1>3, <1>6, <2>1, <2>2 DEF Fresh, Protected, Promoted
  <2> QED  BY <1>2, <1>6, <2>2, <2>3, OneStep DEF r
<1> QED  BY <1>1, <1>4, <1>5, <1>6

\* A write: what was read is still there, so a promoted row is confirmed, and a row
\* that was confirmed does not become a draft.
LEMMA WriteRowSettled ==
    ASSUME TypeOK, Settled, NEW p \in Workers, WriteRow(p)
    PROVE  Settled' /\ \A y \in Ids \cup Events : RowYields(y)
<1> DEFINE x == req[p].item
<1>1. /\ req[p] \in Request /\ FitsStep(req[p]) /\ Fresh(req[p]) /\ req[p].pc = "row" /\ Busy(p)
      /\ UNCHANGED <<relations, snapshots>>
  BY DEF WriteRow, TypeOK, Settled, At, Busy
<1>2. /\ x \in Ids \cup Events /\ req[p].saw = rows[x] /\ rows[x] \in Row
      /\ req[p].op \in {"save", "register", "stage", "promote"}
      /\ req[p].op = "stage" => ~Confirmed(rows[x])
  BY <1>1 DEF Fresh, FitsStep, TypeOK
<1>3. /\ rows' = [rows EXCEPT ![x] = [tier |-> Tier(req[p]), version |-> rows[x].version + 1]]
      /\ \/ Becomes(p, Handled(req[p], x))
         \/ /\ req[p].op = "promote" /\ x \in Ids
            /\ Becomes(p, [req[p] EXCEPT !.pc = "snapshot"])
  BY <1>2 DEF WriteRow
<1>4. /\ rows'[x].tier = Tier(req[p])
      /\ \A y \in Ids \cup Events : y # x => rows'[y] = rows[y]
  BY <1>2, <1>3 DEF TypeOK
<1>5. req[p].op = "promote" =>
        /\ \A y \in (req[p].done \cup {x}) \cap (Ids \cup Events) : Confirmed(rows'[y])
        /\ \A k \in (req[p].done \cup {x}) \cap Keys : relations'[k] = "authored"
  <2> SUFFICES ASSUME req[p].op = "promote"
               PROVE  /\ \A y \in (req[p].done \cup {x}) \cap (Ids \cup Events) : Confirmed(rows'[y])
                      /\ \A k \in (req[p].done \cup {x}) \cap Keys : relations'[k] = "authored"
    OBVIOUS
  <2>1. Confirmed(rows'[x])
    BY <1>4 DEF Tier, Confirmed
  <2>2. Promoted(req[p])
    BY <1>1 DEF Fresh
  <2>3. x \notin Keys
    BY <1>2, GraphAssumption
  <2> QED  BY <1>1, <1>4, <2>1, <2>2, <2>3 DEF Promoted, Confirmed
<1>6. Settled'
  <2>1. CASE Becomes(p, Handled(req[p], x))
    BY <1>1, <1>5, <2>1, Carried
  <2>2. CASE req[p].op = "promote" /\ x \in Ids /\ Becomes(p, [req[p] EXCEPT !.pc = "snapshot"])
    <3>1. PICK r : r = [req[p] EXCEPT !.pc = "snapshot"]
      OBVIOUS
    <3>2. r.pc = "snapshot" /\ r.op = "promote" /\ r.item = x /\ r.done = req[p].done
      BY <1>1, <2>2, <3>1 DEF Request
    <3>3. Confirmed(rows'[x]) /\ Promoted(r)'
      BY <1>2, <1>5, <2>2, <3>2 DEF Promoted
    <3>4. Fresh(r)'
      BY <3>2, <3>3 DEF Fresh
    <3> QED  BY <1>1, <2>2, <3>1, <3>4, OneStep
  <2> QED  BY <1>3, <2>1, <2>2
<1>7. \A y \in Ids \cup Events : RowYields(y)
  <2>1. RowYields(x)
    BY <1>2, <1>4 DEF RowYields, Tier, Confirmed, Absent
  <2> QED  BY <1>4, <2>1 DEF RowYields, Confirmed
<1> QED  BY <1>6, <1>7

LEMMA SnapshotSettled ==
    ASSUME TypeOK, Settled, NEW p \in Workers, FindSnapshot(p) \/ AddSnapshot(p)
    PROVE  Settled'
<1> DEFINE x == req[p].item
<1>1. /\ req[p] \in Request /\ FitsStep(req[p]) /\ Fresh(req[p]) /\ Busy(p)
      /\ req[p].pc \in {"snapshot", "add"} /\ UNCHANGED <<rows, relations>>
  BY DEF FindSnapshot, AddSnapshot, TypeOK, Settled, At, Busy
<1>2. /\ x \in Ids /\ req[p].chapter \in Chapters /\ req[p].op = "promote"
      /\ Confirmed(rows[x]) /\ Promoted(req[p]) /\ Place(req[p]) \in Ids \X Chapters
  BY <1>1 DEF FitsStep, Fresh, Place
<1>3. /\ \A y \in (req[p].done \cup {x}) \cap (Ids \cup Events) : Confirmed(rows'[y])
      /\ \A k \in (req[p].done \cup {x}) \cap Keys : relations'[k] = "authored"
  <2>1. x \notin Keys
    BY <1>2, GraphAssumption
  <2> QED  BY <1>1, <1>2, <2>1 DEF Promoted
<1>4. CASE FindSnapshot(p)
  <2>1. CASE Becomes(p, Handled(req[p], x))
    BY <1>1, <1>3, <1>4, <2>1, Carried DEF FindSnapshot
  <2>2. CASE snapshots[Place(req[p])] = 0 /\ Becomes(p, [req[p] EXCEPT !.pc = "add"])
    <3>1. PICK r : r = [req[p] EXCEPT !.pc = "add"]
      OBVIOUS
    <3>2. /\ r.pc = "add" /\ r.op = "promote" /\ r.item = x /\ r.done = req[p].done
          /\ Place(r) = Place(req[p])
      BY <1>1, <1>2, <3>1 DEF Request, Place
    <3>3. UNCHANGED snapshots
      BY <1>4 DEF FindSnapshot
    <3>4. Promoted(r)'
      BY <1>1, <1>2, <3>2 DEF Promoted
    <3>5. Fresh(r)'
      BY <1>1, <1>2, <2>2, <3>2, <3>3, <3>4 DEF Fresh, Place
    <3> QED  BY <1>1, <2>2, <3>1, <3>3, <3>5, OneStep
  <2> QED  BY <1>4, <2>1, <2>2 DEF FindSnapshot, Anew
<1>5. CASE AddSnapshot(p)
  <2>1. snapshots[Place(req[p])] = 0
    BY <1>1, <1>5 DEF AddSnapshot, At, Fresh
  <2>2. \A s \in Ids \X Chapters : snapshots'[s] <= 1
    BY <1>2, <1>5, <2>1 DEF AddSnapshot, Settled, TypeOK
  <2>3. PICK r : r = Handled(req[p], x)
    OBVIOUS
  <2>4. r.pc = "next" /\ r.done = req[p].done \cup {x}
    BY <1>1, <2>3 DEF Handled, Request
  <2>5. Fresh(r)'
    BY <1>3, <2>4 DEF Fresh, Promoted
  <2>6. \A q \in Workers : Busy(q) => q = p
    BY <1>1 DEF Settled
  <2>7. /\ \A q, s \in Workers : Busy(q)' /\ Busy(s)' => q = s
        /\ \A q \in Workers : Fresh(req[q])'
    BY <1>5, <2>3, <2>5, <2>6, OneInFlight DEF AddSnapshot
  <2> QED  BY <2>2, <2>7 DEF Settled
<1> QED  BY <1>4, <1>5

LEMMA EndSettled ==
    ASSUME TypeOK, Settled, NEW p \in Workers, DeleteEntity(p) \/ Answer(p) \/ Fail(p)
    PROVE  Settled'
<1>1. Busy(p) /\ Becomes(p, Idle) /\ UNCHANGED snapshots
  BY DEF DeleteEntity, Answer, Fail, Finish, Busy, At
<1> QED  BY <1>1, IdleIsFresh, OneStep

\* A relation that is staged was not confirmed when it was read, so neither was its
\* inverse, where the two are each other's.
LEMMA RelationSettled ==
    ASSUME PairInv, Settled, NEW p \in Workers,
           ReadRelation(p) \/ StageRelation(p) \/ PromoteRelation(p)
    PROVE  Settled' /\ \A k \in Keys : Closed(k) => TieYields(k)
<1>1. /\ TypeOK /\ TiersAgree
      /\ req[p] \in Request /\ FitsStep(req[p]) /\ Fresh(req[p]) /\ Busy(p)
      /\ UNCHANGED <<rows, snapshots>>
  BY DEF ReadRelation, StageRelation, PromoteRelation, PairInv, TypeOK, Settled, At, Busy
<1>2. CASE ReadRelation(p)
  <2>1. PICK k \in NextRels(req[p]) :
          \/ Becomes(p, Handled(req[p], k))
          \/ /\ relations[k] # "authored"
             /\ Becomes(p, [req[p] EXCEPT !.item = k, !.pc = "relation"])
    BY <1>2 DEF ReadRelation
  <2>2. req[p].op = "stage" /\ UNCHANGED relations
    BY <1>2 DEF ReadRelation
  <2>3. CASE Becomes(p, Handled(req[p], k))
    BY <1>1, <2>2, <2>3, Carried DEF TieYields
  <2>4. CASE /\ relations[k] # "authored"
             /\ Becomes(p, [req[p] EXCEPT !.item = k, !.pc = "relation"])
    <3>1. PICK r : r = [req[p] EXCEPT !.item = k, !.pc = "relation"]
      OBVIOUS
    <3>2. r.pc = "relation" /\ r.op = "stage" /\ r.item = k
      BY <1>1, <2>2, <3>1 DEF Request
    <3>3. Fresh(r)'
      BY <2>2, <2>4, <3>2 DEF Fresh
    <3>4. Settled'
      BY <1>1, <2>4, <3>1, <3>3, OneStep
    <3> QED  BY <2>2, <3>4 DEF TieYields
  <2>5. \A j \in Keys : TieYields(j)
    BY <2>2 DEF TieYields
  <2> QED  BY <2>1, <2>3, <2>4, <2>5
<1>3. CASE StageRelation(p)
  <2> DEFINE k == req[p].item
  <2>1. k \in Keys /\ req[p].op = "stage" /\ relations[k] # "authored"
    BY <1>1, <1>3 DEF StageRelation, At, FitsStep, Fresh
  <2>2. Settled'
    BY <1>1, <1>3, <2>1, Carried DEF StageRelation
  <2>3. ASSUME NEW j \in Keys, Closed(j), j \in Written(k) PROVE relations[j] # "authored"
    <3>1. CASE j = k
      BY <2>1, <3>1
    <3>2. CASE j # k
      <4>1. Inverse[k.rel] # None /\ j = Reverse(k)
        BY <2>3, <3>2 DEF Written
      <4>2. k.rel \in Rels /\ j.rel = Inverse[k.rel]
        BY <2>1, <4>1 DEF Keys, Reverse
      <4>3. Inverse[j.rel] = k.rel
        BY <2>3, <4>1, <4>2, GraphAssumption DEF Closed
      <4>4. Reverse(j) = k
        BY <2>1, <4>1, <4>3 DEF Reverse, Keys
      <4> QED  BY <1>1, <2>1, <2>3, <4>4 DEF TiersAgree
    <3> QED  BY <3>1, <3>2
  <2>4. \A j \in Keys : Closed(j) => TieYields(j)
    BY <1>3, <2>3 DEF StageRelation, SetRelation, TieYields
  <2> QED  BY <2>2, <2>4
<1>4. CASE PromoteRelation(p)
  <2>1. PICK k \in NextRels(req[p]) : SetRelation(k, "authored") /\ Becomes(p, Handled(req[p], k))
    BY <1>4 DEF PromoteRelation
  <2>2. k \in Keys /\ k \notin Ids \cup Events
    BY <1>1, <2>1, NextItems, GraphAssumption DEF Request
  <2>3. Promoted(req[p])
    BY <1>1, <1>4 DEF PromoteRelation, Fresh
  <2>4. \A j \in Keys : relations'[j] = "authored" \/ relations'[j] = relations[j]
    BY <2>1 DEF SetRelation
  <2>5. relations'[k] = "authored"
    BY <2>1, <2>2 DEF SetRelation, Written
  <2>6. /\ \A y \in (req[p].done \cup {k}) \cap (Ids \cup Events) : Confirmed(rows'[y])
        /\ \A j \in (req[p].done \cup {k}) \cap Keys : relations'[j] = "authored"
    BY <1>1, <2>2, <2>3, <2>4, <2>5 DEF Promoted
  <2>7. Settled'
    BY <1>1, <2>1, <2>6, Carried
  <2>8. \A j \in Keys : TieYields(j)
    BY <2>4 DEF TieYields
  <2> QED  BY <2>7, <2>8
<1> QED  BY <1>2, <1>3, <1>4

-----------------------------------------------------------------------------
Yields == /\ \A x \in Ids \cup Events : RowYields(x)
          /\ \A k \in Keys : Closed(k) => TieYields(k)

\* No step from a settled state puts a draft over what is confirmed, and as long as
\* requests do not overlap the state stays settled.
LEMMA SettledStep ==
    ASSUME PairInv, Settled, Next
    PROVE  Yields /\ (~overlapped' => Settled')
<1>1. TypeOK
  BY DEF PairInv
<1>2. ASSUME UNCHANGED <<rows, relations>> PROVE Yields
  BY <1>2 DEF Yields, RowYields, TieYields, Confirmed
<1>3. CASE Relate \/ Unrelate
  <2>1. \A k \in Keys : TieYields(k)
    BY <1>3 DEF Relate, Unrelate, SetRelation, Forget, TieYields
  <2>2. \A x \in Ids \cup Events : RowYields(x)
    BY <1>3 DEF Relate, Unrelate, RowYields, Confirmed
  <2> QED  BY <1>1, <1>3, <2>1, <2>2, RelateSettled DEF Yields
<1>4. ASSUME NEW p \in Workers, Begin(p) \/ BeginMany(p) PROVE Yields /\ (~overlapped' => Settled')
  <2>1. UNCHANGED <<rows, relations>>
    BY <1>4 DEF Begin, BeginMany, Submit
  <2> QED  BY <1>1, <1>2, <1>4, <2>1, BeginSettled
<1>5. ASSUME NEW p \in Workers, ReadRow(p) PROVE Yields /\ Settled'
  <2>1. UNCHANGED <<rows, relations>>
    BY <1>5 DEF ReadRow
  <2> QED  BY <1>1, <1>2, <1>5, <2>1, ReadRowSettled
<1>6. ASSUME NEW p \in Workers, WriteRow(p) PROVE Yields /\ Settled'
  <2>1. \A k \in Keys : TieYields(k)
    BY <1>6 DEF WriteRow, TieYields
  <2> QED  BY <1>1, <1>6, <2>1, WriteRowSettled DEF Yields
<1>7. ASSUME NEW p \in Workers, FindSnapshot(p) \/ AddSnapshot(p) PROVE Yields /\ Settled'
  <2>1. UNCHANGED <<rows, relations>>
    BY <1>7 DEF FindSnapshot, AddSnapshot
  <2> QED  BY <1>1, <1>2, <1>7, <2>1, SnapshotSettled
<1>8. ASSUME NEW p \in Workers, ReadRelation(p) \/ StageRelation(p) \/ PromoteRelation(p)
      PROVE  Yields /\ Settled'
  <2>1. \A x \in Ids \cup Events : RowYields(x)
    BY <1>8 DEF ReadRelation, StageRelation, PromoteRelation, RowYields, Confirmed
  <2> QED  BY <1>8, <2>1, RelationSettled DEF Yields
<1>9. ASSUME NEW p \in Workers, DeleteEntity(p) \/ Answer(p) \/ Fail(p) PROVE Yields /\ Settled'
  <2>1. \A k \in Keys : TieYields(k)
    BY <1>9 DEF DeleteEntity, Answer, Fail, Forget, TieYields
  <2>2. \A x \in Ids \cup Events : RowYields(x)
    BY <1>1, <1>9 DEF DeleteEntity, Answer, Fail, RowYields, Confirmed, Absent, TypeOK
  <2> QED  BY <1>1, <1>9, <2>1, <2>2, EndSettled DEF Yields
<1> QED  BY <1>3, <1>4, <1>5, <1>6, <1>7, <1>8, <1>9 DEF Next, Step

LEMMA OverlapLasts == ASSUME [Next]_vars, ~overlapped' PROVE ~overlapped
<1>1. CASE UNCHANGED vars
  BY <1>1 DEF vars
<1>2. CASE Next
  BY <1>2 DEF Next, Step, Relate, Unrelate, Count, Begin, BeginMany, ReadRow, WriteRow,
              DeleteEntity, FindSnapshot, AddSnapshot, ReadRelation, StageRelation,
              PromoteRelation, Answer, Fail
<1> QED  BY <1>1, <1>2

LEMMA SerialHolds == Spec => []SerialInv
<1>1. Init => SerialInv
  <2> SUFFICES ASSUME Init PROVE SerialInv
    OBVIOUS
  <2>1. PairInv
    <3>1. \A k \in Keys : relations[k] = "none"
      BY DEF Init
    <3> QED  BY <3>1, InitTypes, ReverseInKeys DEF PairInv, PairsClosed, TiersAgree, Closed
  <2>2. \A p \in Workers : req[p] = Idle
    BY DEF Init
  <2>3. \A p \in Workers : ~Busy(p) /\ Fresh(req[p])
    BY <2>2 DEF Busy, At, Fresh, Idle
  <2>4. \A s \in Ids \X Chapters : snapshots[s] <= 1
    BY DEF Init
  <2> QED  BY <2>1, <2>3, <2>4 DEF SerialInv, Settled
<1>2. SerialInv /\ [Next]_vars => SerialInv'
  <2> SUFFICES ASSUME SerialInv, [Next]_vars PROVE SerialInv'
    OBVIOUS
  <2>1. PairInv'
    BY NextTypes, PairsStep DEF SerialInv, PairInv
  <2>2. ASSUME ~overlapped' PROVE Settled'
    <3>1. Settled /\ PairInv
      BY <2>2, OverlapLasts DEF SerialInv
    <3>2. CASE UNCHANGED vars
      BY <3>1, <3>2 DEF vars, Settled, Fresh, Busy, At, Confirmed, Promoted, Place
    <3>3. CASE Next
      BY <2>2, <3>1, <3>3, SettledStep
    <3> QED  BY <3>2, <3>3
  <2> QED  BY <2>1, <2>2 DEF SerialInv
<1> QED  BY <1>1, <1>2, PTL DEF Spec

\* Promoting a chapter again, also after a promotion that failed half way, leaves one
\* snapshot per entity, while requests do not overlap (upsert_timeline).
THEOREM SnapshotsAreUnique == Spec => []OneSnapshot
<1>1. SerialInv => OneSnapshot
  BY DEF SerialInv, Settled, OneSnapshot
<1> QED  BY <1>1, SerialHolds, PTL

\* What a promotion has gone through is confirmed until it ends, while requests do not
\* overlap (promote).
THEOREM PromotionsHold == Spec => []PromotionHolds
<1>1. SerialInv => PromotionHolds
  BY DEF SerialInv, Settled, Fresh, PromotionHolds
<1> QED  BY <1>1, SerialHolds, PTL

\* Staging does not replace what is confirmed, while requests do not overlap and where
\* the inverse is registered back (upsert_entity, upsert_event, set_relation).
THEOREM DraftsYieldToCanon == Spec => DraftsYield
<1>1. SerialInv /\ [Next]_vars =>
        [~overlapped => /\ \A x \in Ids \cup Events : RowYields(x)
                        /\ \A k \in Keys : Closed(k) => TieYields(k)]_vars
  <2> SUFFICES ASSUME SerialInv, Next, ~overlapped
               PROVE  /\ \A x \in Ids \cup Events : RowYields(x)
                      /\ \A k \in Keys : Closed(k) => TieYields(k)
    OBVIOUS
  <2>1. PairInv /\ Settled
    BY DEF SerialInv
  <2> QED  BY <2>1, SettledStep DEF Yields
<1> QED  BY <1>1, SerialHolds, PTL DEF Spec, DraftsYield
=============================================================================

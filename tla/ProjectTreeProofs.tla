-------------------------- MODULE ProjectTreeProofs -------------------------
(***************************************************************************)
(* What is proved of ProjectTree: the types, that no row is orphaned, and  *)
(* that a chapter and its season agree on their work, unless the season    *)
(* moved while the chapter was about to enter it.                          *)
(***************************************************************************)
EXTENDS ProjectTree, TLAPS

(***************************************************************************)
(* The inductive invariant.  A request names rows of the kind its          *)
(* operation is about, and lists of the kind its answer is put into.       *)
(***************************************************************************)
AboutRows(r) ==
    /\ r.op \in {"seasons", "addSeason", "delProject"} => r.id \in Projects
    /\ r.op \in {"chapters", "addChapter", "delSeason", "moveSeason"} => r.id \in Seasons
    /\ r.op \in {"open", "delChapter", "moveChapter"} => r.id \in Chapters
    /\ r.op = "moveSeason" => r.to \in Projects
    /\ r.op = "moveChapter" => r.to \in Seasons

FromRows(r) ==
    r.by = "page" =>
        /\ r.op \in {"delSeason", "moveSeason"} => r.top \in Projects
        /\ r.op \in {"delChapter", "moveChapter"} => r.up \in Seasons
        /\ r.op = "rename" => \/ r.id \in Projects
                              \/ r.id \in Seasons /\ r.top \in Projects
                              \/ r.id \in Chapters /\ r.up \in Seasons

HasRead(r) ==
    /\ IF r.op = "projects" THEN r.ss \subseteq Projects ELSE r.ss \subseteq Seasons
    /\ r.new \in Chapters \cup {None}
    /\ r.st = "read" /\ r.op \in {"addChapter", "moveChapter"} => r.proj \in Projects

\* A chapter has both a season and a work, or no row.
RowsWhole ==
    \A c \in Chapters : chapterOf[c] = NoRow \/ chapterOf[c] \in [season : Seasons, proj : Projects]

ReqOK(r) == r \in Request /\ AboutRows(r) /\ FromRows(r) /\ HasRead(r)

TablesOK ==
    /\ projects \subseteq Projects
    /\ seasonOf \in [Seasons -> Projects \cup {None}]
    /\ chapterOf \in [Chapters -> [season : Seasons \cup {None}, proj : Projects \cup {None}]]
    /\ RowsWhole
    /\ issued \subseteq Projects \cup Seasons \cup Chapters

PageOK ==
    /\ shown \subseteq Projects /\ expProj \subseteq Projects /\ expSeason \subseteq Seasons
    /\ seasonsBy \in [Projects -> SUBSET Seasons]
    /\ chBySeason \in [Seasons -> SUBSET Ref]
    /\ active \in [id : Ids, season : Ids, proj : Ids]
    /\ moved \in BOOLEAN

TreeInv ==
    /\ TablesOK /\ PageOK
    /\ \A r \in reqs : ReqOK(r)
    /\ acts \in Nat /\ news \in Nat
    /\ NoOrphans

\* What a request has read of a season it is to put a chapter in is still so, unless the
\* season is gone or was passed.
ReadAgrees ==
    \A r \in reqs : Enters(r) =>
        Into(r) \in issued /\ (Into(r) \in passed \/ seasonOf[Into(r)] \in {r.proj, None})

AgreeInv == LiveSeasons \subseteq issued /\ AgreeUnlessPassed /\ ReadAgrees

(***************************************************************************)
(* Requests.                                                               *)
(***************************************************************************)
\* The types follow from the invariant.
LEMMA TreeInvTypes == TreeInv /\ passed \subseteq Seasons => TypeOK
BY DEF TreeInv, TypeOK, TablesOK, PageOK, ReqOK

\* A request as it is sent has read nothing.
LEMMA Asked ==
    ASSUME NEW by \in {"page", "other"}, NEW op \in Reads \cup Edits, NEW id \in Ids, NEW to \in Ids,
           PageOK
    PROVE  /\ Ask(by, op, id, to) \in Request
           /\ HasRead(Ask(by, op, id, to))
           /\ Ask(by, op, id, to).op = op /\ Ask(by, op, id, to).id = id
           /\ Ask(by, op, id, to).to = to /\ Ask(by, op, id, to).by = by
BY DEF Ask, Request, HasRead, PageOK, Ids, NoChapter

\* A request to load something is well formed when it is about rows of the right kind.
LEMMA Gotten ==
    ASSUME NEW op \in Reads, NEW id \in Ids, PageOK,
           op = "seasons" => id \in Projects,
           op = "chapters" => id \in Seasons,
           op = "open" => id \in Chapters
    PROVE  ReqOK(Get(op, id))
<1>1. op \in Reads \cup Edits /\ None \in Ids /\ "page" \in {"page", "other"}
  BY DEF Ids
<1>2. Get(op, id) \in Request /\ HasRead(Get(op, id)) /\ Get(op, id).op = op /\ Get(op, id).id = id
  BY <1>1, Asked DEF Get
<1>3. AboutRows(Get(op, id)) /\ FromRows(Get(op, id))
  BY <1>2 DEF AboutRows, FromRows, Reads
<1> QED BY <1>2, <1>3 DEF ReqOK

\* Answering with another request, or with none, keeps all of them well formed.
LEMMA BecomesOK ==
    ASSUME \A r \in reqs : ReqOK(r), NEW r, NEW q, ReqOK(q), Becomes(r, q)
    PROVE  \A x \in reqs' : ReqOK(x)
BY DEF Becomes

\* A status is all that an answer changes.
LEMMA AnswerOK ==
    ASSUME \A r \in reqs : ReqOK(r), NEW r \in reqs, NEW st \in {"ok", "no"}, Answer(r, st)
    PROVE  \A x \in reqs' : ReqOK(x)
<1>1. ReqOK(r)
  OBVIOUS
<1>2. [r EXCEPT !.st = st] \in Request
  BY <1>1 DEF ReqOK, Request
<1>3. /\ [r EXCEPT !.st = st].op = r.op /\ [r EXCEPT !.st = st].id = r.id
      /\ [r EXCEPT !.st = st].to = r.to /\ [r EXCEPT !.st = st].by = r.by
      /\ [r EXCEPT !.st = st].top = r.top /\ [r EXCEPT !.st = st].up = r.up
      /\ [r EXCEPT !.st = st].ss = r.ss /\ [r EXCEPT !.st = st].new = r.new
      /\ [r EXCEPT !.st = st].proj = r.proj /\ [r EXCEPT !.st = st].st = st
  BY <1>1 DEF ReqOK, Request
<1>4. ReqOK([r EXCEPT !.st = st])
  BY <1>1, <1>2, <1>3 DEF ReqOK, AboutRows, FromRows, HasRead
<1> QED BY <1>4, BecomesOK DEF Answer

(***************************************************************************)
(* The server's steps.                                                     *)
(***************************************************************************)
\* The parts of the invariant a step of the server can disturb.
ServerInv == TablesOK /\ NoOrphans /\ \A r \in reqs : ReqOK(r)

\* A transaction commits well-formed tables whose keys hold, or nothing.
LEMMA CommitOK ==
    ASSUME TreeInv, NEW r \in reqs,
           NEW P \in SUBSET Projects, NEW sOf \in [Seasons -> Projects \cup {None}],
           NEW cOf \in [Chapters -> [season : Seasons \cup {None}, proj : Projects \cup {None}]],
           \A c \in Chapters : cOf[c] = NoRow \/ cOf[c] \in [season : Seasons, proj : Projects],
           NEW new \in SUBSET (Ids), Commit(r, P, sOf, cOf, new)
    PROVE  ServerInv'
<1>1. CASE KeysHold(P, sOf, cOf)
  <2>1. /\ projects' = P /\ seasonOf' = sOf /\ chapterOf' = cOf
        /\ issued' = issued \cup (new \ {None}) /\ Answer(r, "ok")
    BY <1>1 DEF Commit
  <2>2. TablesOK' /\ NoOrphans'
    BY <1>1, <2>1 DEF TreeInv, TablesOK, RowsWhole, NoOrphans, Ids, NoRow
  <2> QED BY <2>1, <2>2, AnswerOK DEF ServerInv, TreeInv
<1>2. CASE ~KeysHold(P, sOf, cOf)
  <2>1. UNCHANGED tables /\ Answer(r, "no")
    BY <1>2 DEF Commit
  <2>2. TablesOK' /\ NoOrphans'
    BY <2>1 DEF TreeInv, TablesOK, RowsWhole, NoOrphans, tables, KeysHold, NoRow
  <2> QED BY <2>1, <2>2, AnswerOK DEF ServerInv, TreeInv
<1> QED BY <1>1, <1>2

\* The chapters of a season or a work are listed with their works.
LEMMA Listed ==
    ASSUME TablesOK, NEW C \in SUBSET Chapters,
           \A c \in C : chapterOf[c] # NoRow
    PROVE  Refs(C) \subseteq Ref
BY DEF Refs, Ref, TablesOK, RowsWhole

LEMMA InSeason ==
    ASSUME TreeAssumption, TablesOK, NEW s \in Seasons
    PROVE  Refs(ChaptersIn(s)) \subseteq Ref
<1>1. ChaptersIn(s) \subseteq Chapters /\ \A c \in ChaptersIn(s) : chapterOf[c] # NoRow
  BY DEF TreeAssumption, ChaptersIn, NoRow
<1> QED BY <1>1, Listed

\* A request with something read, or with its answer, is still one.
LEMMA Rewritten ==
    ASSUME NEW r \in Request, NEW st \in {"half", "read", "ok", "no"}, NEW x \in Ids,
           NEW ss \in SUBSET Ids, NEW cs \in SUBSET Ref
    PROVE  /\ [r EXCEPT !.st = st] \in Request
           /\ [r EXCEPT !.st = st, !.proj = x] \in Request
           /\ [r EXCEPT !.st = st, !.new = x] \in Request
           /\ [r EXCEPT !.st = st, !.ss = ss, !.cs = cs] \in Request
BY DEF Request

\* What a request selects first.
LEMMA SelectOK ==
    ASSUME TreeAssumption, TreeInv, NEW r \in reqs, ServeSelect(r) \/ ServeSelectMore(r)
    PROVE  ServerInv'
<1>1. ReqOK(r) /\ TablesOK
  BY DEF TreeInv
<1>2. TablesOK' /\ NoOrphans'
  BY DEF TreeInv, TablesOK, RowsWhole, NoOrphans, tables, KeysHold, NoRow, ServeSelect, ServeSelectMore
<1>3. ASSUME NEW q, ReqOK(q), Becomes(r, q)
      PROVE  ServerInv'
  BY <1>2, <1>3, BecomesOK DEF ServerInv, TreeInv
<1>4. CASE r.op \in {"addChapter", "moveChapter"}
  <2> DEFINE s == IF r.op = "addChapter" THEN r.id ELSE r.to
             q == IF s \in LiveSeasons THEN [r EXCEPT !.st = "read", !.proj = seasonOf[s]]
                  ELSE [r EXCEPT !.st = "no"]
  <2>1. Becomes(r, q)
    BY <1>4 DEF ServeSelect, ServeSelectMore
  <2>2. s \in LiveSeasons => seasonOf[s] \in Projects
    BY <1>1 DEF TablesOK, LiveSeasons
  <2>3. q \in Request
    <3>1. CASE s \in LiveSeasons
      <4>1. seasonOf[s] \in Ids /\ {} \in SUBSET Ids /\ {} \in SUBSET Ref
        BY <2>2, <3>1 DEF Ids
      <4>2. [r EXCEPT !.st = "read", !.proj = seasonOf[s]] \in Request
        BY <1>1, <4>1, Rewritten DEF ReqOK
      <4> QED BY <3>1, <4>2
    <3>2. CASE s \notin LiveSeasons
      <4>1. [r EXCEPT !.st = "no"] \in Request
        BY <1>1 DEF ReqOK, Request
      <4> QED BY <3>2, <4>1
    <3> QED BY <3>1, <3>2
  <2>4. /\ q.op = r.op /\ q.id = r.id /\ q.to = r.to /\ q.by = r.by /\ q.top = r.top
        /\ q.up = r.up /\ q.ss = r.ss /\ q.new = r.new /\ (q.st = "read" => q.proj \in Projects)
    BY <1>1, <2>2 DEF ReqOK, Request
  <2>5. ReqOK(q)
    BY <1>1, <2>3, <2>4 DEF ReqOK, AboutRows, FromRows, HasRead
  <2> QED BY <1>3, <2>1, <2>5
<1>5. CASE r.op = "delSeason"
  <2> DEFINE q == [r EXCEPT !.st = "read", !.ss = {r.id}, !.cs = Refs(ChaptersIn(r.id))]
  <2>1. Becomes(r, q)
    BY <1>5 DEF ServeSelect, ServeSelectMore
  <2>2. r.id \in Seasons
    BY <1>1, <1>5 DEF ReqOK, AboutRows
  <2>3. Refs(ChaptersIn(r.id)) \subseteq Ref
    BY <1>1, <2>2, InSeason
  <2>4. q \in Request
    <3>1. r.id \in Ids
      BY <2>2 DEF Ids
    <3> QED BY <1>1, <2>3, <3>1, Rewritten DEF ReqOK
  <2>5. /\ q.op = r.op /\ q.id = r.id /\ q.to = r.to /\ q.by = r.by /\ q.top = r.top
        /\ q.up = r.up /\ q.ss = {r.id} /\ q.new = r.new
    BY <1>1 DEF ReqOK, Request
  <2>6. ReqOK(q)
    BY <1>1, <1>5, <2>2, <2>4, <2>5 DEF ReqOK, AboutRows, FromRows, HasRead
  <2> QED BY <1>3, <2>1, <2>6
<1>6. CASE r.op = "delProject" /\ ServeSelect(r)
  <2> DEFINE q == [r EXCEPT !.st = "half", !.ss = SeasonsIn(r.id)]
  <2>1. Becomes(r, q)
    BY <1>6 DEF ServeSelect
  <2>2. SeasonsIn(r.id) \in SUBSET Seasons /\ SeasonsIn(r.id) \in SUBSET Ids
    BY DEF SeasonsIn, Ids
  <2>3. q \in Request
    BY <1>1, <2>2 DEF ReqOK, Request
  <2>4. /\ q.op = r.op /\ q.id = r.id /\ q.to = r.to /\ q.by = r.by /\ q.top = r.top
        /\ q.up = r.up /\ q.ss = SeasonsIn(r.id) /\ q.new = r.new
    BY <1>1 DEF ReqOK, Request
  <2>5. ReqOK(q)
    BY <1>1, <1>6, <2>2, <2>3, <2>4 DEF ReqOK, AboutRows, FromRows, HasRead
  <2> QED BY <1>3, <2>1, <2>5
<1>7. CASE ServeSelectMore(r)
  <2> DEFINE C == {c \in Chapters : chapterOf[c].proj = r.id}
             q == [r EXCEPT !.st = "read", !.cs = Refs(C)]
  <2>1. Becomes(r, q) /\ r.op = "delProject"
    BY <1>7 DEF ServeSelectMore
  <2>2. r.id \in Projects
    BY <1>1, <2>1 DEF ReqOK, AboutRows
  <2>3. Refs(C) \subseteq Ref
    <3>1. \A c \in C : chapterOf[c] # NoRow
      BY <2>2 DEF TreeAssumption, NoRow
    <3> QED BY <1>1, <3>1, Listed
  <2>4. q \in Request
    <3>1. Refs(C) \in SUBSET Ref
      BY <2>3
    <3> HIDE DEF C
    <3> QED BY <1>1, <3>1 DEF ReqOK, Request
  <2>5. /\ q.op = r.op /\ q.id = r.id /\ q.to = r.to /\ q.by = r.by /\ q.top = r.top
        /\ q.up = r.up /\ q.ss = r.ss /\ q.new = r.new
    BY <1>1 DEF ReqOK, Request
  <2>6. ReqOK(q)
    BY <1>1, <2>1, <2>4, <2>5 DEF ReqOK, AboutRows, FromRows, HasRead
  <2> QED BY <1>3, <2>1, <2>6
<1> QED BY <1>4, <1>5, <1>6, <1>7 DEF ServeSelect, ServeSelectMore

\* Rows that are added.
LEMMA AddOK ==
    ASSUME TreeInv, NEW r \in reqs, ServeAdd(r) \/ ServeAddChapter(r)
    PROVE  ServerInv'
<1>1. ReqOK(r) /\ TablesOK
  BY DEF TreeInv
<1>2. CASE ServeAdd(r)
  <2>1. PICK p \in IF r.op = "addProject" THEN Fresh(Projects) ELSE {r.id}, s \in Fresh(Seasons) :
           Commit(r, IF r.op = "addProject" THEN projects \cup {p} ELSE projects,
                  [seasonOf EXCEPT ![s] = p], chapterOf,
                  IF r.op = "addProject" THEN {p, s} ELSE {s})
    BY <1>2 DEF ServeAdd
  <2>2. p \in Projects /\ s \in Seasons
    BY <1>1, <1>2 DEF Fresh, ServeAdd, ReqOK, AboutRows
  <2>3. /\ (IF r.op = "addProject" THEN projects \cup {p} ELSE projects) \in SUBSET Projects
        /\ [seasonOf EXCEPT ![s] = p] \in [Seasons -> Projects \cup {None}]
        /\ (IF r.op = "addProject" THEN {p, s} ELSE {s}) \in SUBSET Ids
    BY <1>1, <2>2 DEF TablesOK, Ids
  <2> QED BY <1>1, <2>1, <2>3, CommitOK DEF TablesOK, RowsWhole
<1>3. CASE ServeAddChapter(r)
  <2>1. PICK c \in Fresh(Chapters) :
          LET cOf == [chapterOf EXCEPT ![c] = [season |-> r.id, proj |-> r.proj]]
          IN  IF KeysHold(projects, seasonOf, cOf)
              THEN /\ chapterOf' = cOf /\ issued' = issued \cup {c}
                   /\ Becomes(r, [r EXCEPT !.st = "ok", !.new = c])
                   /\ UNCHANGED <<projects, seasonOf>>
              ELSE Answer(r, "no") /\ UNCHANGED tables
    BY <1>3 DEF ServeAddChapter
  <2> DEFINE cOf == [chapterOf EXCEPT ![c] = [season |-> r.id, proj |-> r.proj]]
             q == [r EXCEPT !.st = "ok", !.new = c]
  <2>2. c \in Chapters /\ r.id \in Seasons /\ r.proj \in Projects
    BY <1>1, <1>3 DEF Fresh, ServeAddChapter, ReqOK, AboutRows, HasRead
  <2>3. CASE KeysHold(projects, seasonOf, cOf)
    <3>0. /\ chapterOf' = cOf /\ issued' = issued \cup {c}
          /\ projects' = projects /\ seasonOf' = seasonOf /\ Becomes(r, q)
      BY <2>1, <2>3
    <3>9. /\ cOf \in [Chapters -> [season : Seasons \cup {None}, proj : Projects \cup {None}]]
          /\ \A d \in Chapters : cOf[d] = NoRow \/ cOf[d] \in [season : Seasons, proj : Projects]
      BY <1>1, <2>2 DEF TablesOK, RowsWhole
    <3>1. TablesOK' /\ NoOrphans'
      <4> HIDE DEF cOf
      <4> QED BY <1>1, <2>2, <2>3, <3>0, <3>9 DEF TablesOK, RowsWhole, NoOrphans, NoRow
    <3>2. q \in Request
      BY <1>1, <2>2 DEF ReqOK, Request, Ids
    <3>3. /\ q.op = r.op /\ q.id = r.id /\ q.to = r.to /\ q.by = r.by /\ q.top = r.top
          /\ q.up = r.up /\ q.ss = r.ss /\ q.new = c /\ q.st = "ok"
      BY <1>1 DEF ReqOK, Request
    <3>4. ReqOK(q)
      BY <1>1, <2>2, <3>2, <3>3 DEF ReqOK, AboutRows, FromRows, HasRead
    <3> QED BY <3>0, <3>1, <3>4, BecomesOK DEF ServerInv, TreeInv
  <2>4. CASE ~KeysHold(projects, seasonOf, cOf)
    <3>1. UNCHANGED tables /\ Answer(r, "no")
      BY <2>1, <2>4
    <3>2. TablesOK' /\ NoOrphans'
      BY <3>1 DEF TreeInv, TablesOK, RowsWhole, NoOrphans, tables, KeysHold, NoRow
    <3> QED BY <3>1, <3>2, AnswerOK DEF ServerInv, TreeInv
  <2> QED BY <2>3, <2>4
<1> QED BY <1>2, <1>3

\* Rows that are taken away.
LEMMA DeleteOK ==
    ASSUME TreeInv, NEW r \in reqs, ServeDelete(r)
    PROVE  ServerInv'
<1>1. ReqOK(r) /\ TablesOK
  BY DEF TreeInv
<1>2. ASSUME NEW C PROVE
        /\ WithoutChapters(C) \in [Chapters -> [season : Seasons \cup {None}, proj : Projects \cup {None}]]
        /\ \A c \in Chapters : \/ WithoutChapters(C)[c] = NoRow
                               \/ WithoutChapters(C)[c] \in [season : Seasons, proj : Projects]
  BY <1>1 DEF WithoutChapters, TablesOK, RowsWhole, NoRow
<1>3. ASSUME NEW S PROVE WithoutSeasons(S) \in [Seasons -> Projects \cup {None}]
  BY <1>1 DEF WithoutSeasons, TablesOK
<1>4. {} \in SUBSET Ids
  OBVIOUS
<1>5. CASE r.op = "delChapter"
  <2>1. Commit(r, projects, seasonOf, WithoutChapters({r.id}), {})
    BY <1>5 DEF ServeDelete
  <2> QED BY <1>1, <1>2, <1>4, <2>1, CommitOK DEF TablesOK
<1>6. CASE r.op \in {"delSeason", "delProject"}
  <2>1. Commit(r, projects \ {r.id}, WithoutSeasons(r.ss), WithoutChapters(IdsOf(r.cs)), {})
    BY <1>6 DEF ServeDelete
  <2>2. projects \ {r.id} \in SUBSET Projects
    BY <1>1 DEF TablesOK
  <2> QED BY <1>2, <1>3, <1>4, <2>1, <2>2, CommitOK
<1> QED BY <1>5, <1>6 DEF ServeDelete

\* Rows that are moved.
LEMMA MoveOK ==
    ASSUME TreeAssumption, TreeInv, NEW r \in reqs, ServeMove(r)
    PROVE  ServerInv'
<1>1. ReqOK(r) /\ TablesOK
  BY DEF TreeInv
<1>2. {} \in SUBSET Ids /\ projects \in SUBSET Projects /\ seasonOf \in [Seasons -> Projects \cup {None}]
  BY <1>1 DEF TablesOK
<1>3. CASE r.op = "moveSeason"
  <2> DEFINE sOf == IF r.id \in LiveSeasons THEN [seasonOf EXCEPT ![r.id] = r.to] ELSE seasonOf
             cOf == [c \in Chapters |-> IF c \in ChaptersIn(r.id)
                                        THEN [chapterOf[c] EXCEPT !.proj = r.to] ELSE chapterOf[c]]
  <2>1. Commit(r, projects, sOf, cOf, {})
    BY <1>3 DEF ServeMove
  <2>2. r.id \in Seasons /\ r.to \in Projects
    BY <1>1, <1>3 DEF ReqOK, AboutRows
  <2>3. sOf \in [Seasons -> Projects \cup {None}]
    BY <1>1, <2>2 DEF TablesOK
  <2>4. \A c \in Chapters : cOf[c] = NoRow \/ cOf[c] \in [season : Seasons, proj : Projects]
    <3> SUFFICES ASSUME NEW c \in Chapters
                 PROVE  cOf[c] = NoRow \/ cOf[c] \in [season : Seasons, proj : Projects]
      OBVIOUS
    <3>1. CASE c \in ChaptersIn(r.id)
      <4>1. chapterOf[c] # NoRow
        BY <2>2, <3>1 DEF TreeAssumption, ChaptersIn, NoRow
      <4>2. chapterOf[c] \in [season : Seasons, proj : Projects]
        BY <1>1, <4>1 DEF TablesOK, RowsWhole
      <4> QED BY <2>2, <3>1, <4>2
    <3>2. CASE c \notin ChaptersIn(r.id)
      BY <1>1, <3>2 DEF TablesOK, RowsWhole
    <3> QED BY <3>1, <3>2
  <2>5. cOf \in [Chapters -> [season : Seasons \cup {None}, proj : Projects \cup {None}]]
    BY <2>4 DEF NoRow
  <2> QED BY <1>2, <2>1, <2>3, <2>4, <2>5, CommitOK
<1>4. CASE r.op = "moveChapter"
  <2> DEFINE cOf == IF r.id \in LiveChapters
                    THEN [chapterOf EXCEPT ![r.id] = [season |-> r.to, proj |-> r.proj]]
                    ELSE chapterOf
  <2>1. Commit(r, projects, seasonOf, cOf, {})
    BY <1>4 DEF ServeMove
  <2>2. r.id \in Chapters /\ r.to \in Seasons /\ r.proj \in Projects
    BY <1>1, <1>4 DEF ReqOK, AboutRows, HasRead, ServeMove
  <2>3. /\ cOf \in [Chapters -> [season : Seasons \cup {None}, proj : Projects \cup {None}]]
        /\ \A c \in Chapters : cOf[c] = NoRow \/ cOf[c] \in [season : Seasons, proj : Projects]
    BY <1>1, <2>2 DEF TablesOK, RowsWhole
  <2> QED BY <1>2, <2>1, <2>3, CommitOK
<1> QED BY <1>3, <1>4 DEF ServeMove

\* What is read.
LEMMA ReadOK ==
    ASSUME TreeAssumption, TreeInv, NEW r \in reqs, ServeRead(r)
    PROVE  ServerInv'
<1>1. ReqOK(r) /\ TablesOK
  BY DEF TreeInv
<1>2. TablesOK' /\ NoOrphans'
  BY DEF TreeInv, TablesOK, RowsWhole, NoOrphans, tables, KeysHold, NoRow, ServeRead
<1> DEFINE st == IF r.op = "open" /\ r.id \notin LiveChapters THEN "no" ELSE "ok"
           ss == CASE r.op = "projects" -> projects
                   [] r.op = "seasons"  -> SeasonsIn(r.id)
                   [] OTHER -> {}
           cs == IF r.op = "chapters" THEN Refs(ChaptersIn(r.id)) ELSE {}
           was == IF r.op = "open" /\ r.id \in LiveChapters
                  THEN [id |-> r.id, season |-> chapterOf[r.id].season,
                        proj |-> chapterOf[r.id].proj] ELSE r.was
           q == [r EXCEPT !.st = st, !.ss = ss, !.cs = cs, !.was = was]
<1>3. Becomes(r, q)
  BY DEF ServeRead
<1>4. cs \in SUBSET Ref
  BY <1>1, InSeason DEF ReqOK, AboutRows
<1>5. was \in [id : Ids, season : Ids, proj : Ids]
  <2>1. CASE r.op = "open" /\ r.id \in LiveChapters
    <3>1. r.id \in Chapters
      BY <2>1 DEF LiveChapters
    <3>2. chapterOf[r.id].season \in Seasons \cup {None} /\ chapterOf[r.id].proj \in Projects \cup {None}
      BY <1>1, <3>1 DEF TablesOK
    <3> QED BY <2>1, <3>1, <3>2 DEF Ids
  <2>2. CASE ~(r.op = "open" /\ r.id \in LiveChapters)
    BY <1>1, <2>2 DEF ReqOK, Request
  <2> QED BY <2>1, <2>2
<1>6. IF r.op = "projects" THEN ss \subseteq Projects ELSE ss \subseteq Seasons
  BY <1>1 DEF TablesOK, SeasonsIn
<1>7. st \in {"ok", "no"} /\ ss \in SUBSET Ids
  BY <1>6 DEF Ids
<1> HIDE DEF st, ss, cs, was
<1>8. q \in Request
  BY <1>1, <1>4, <1>5, <1>7 DEF ReqOK, Request
<1>9. /\ q.op = r.op /\ q.id = r.id /\ q.to = r.to /\ q.by = r.by /\ q.top = r.top
      /\ q.up = r.up /\ q.ss = ss /\ q.new = r.new /\ q.st \in {"ok", "no"}
  BY <1>1, <1>7 DEF ReqOK, Request
<1>10. ReqOK(q)
  BY <1>1, <1>6, <1>8, <1>9 DEF ReqOK, AboutRows, FromRows, HasRead
<1> QED BY <1>2, <1>3, <1>10, BecomesOK DEF ServerInv, TreeInv

\* Every step of the server.
LEMMA ServeOK ==
    ASSUME TreeAssumption, TreeInv, NEW r \in reqs, Serve(r)
    PROVE  TreeInv'
<1>1. ServerInv'
  BY SelectOK, AddOK, DeleteOK, MoveOK, ReadOK DEF Serve
<1>2. UNCHANGED <<page, acts, news>>
  BY DEF Serve, ServeSelect, ServeSelectMore
<1> QED BY <1>1, <1>2 DEF TreeInv, ServerInv, PageOK, page

(***************************************************************************)
(* The page's steps and those of the other client.                         *)
(***************************************************************************)
\* A request goes along with what the row is under.
LEMMA WithTop ==
    ASSUME NEW a \in Request, HasRead(a), NEW x \in Ids
    PROVE  LET q == [a EXCEPT !.top = x]
           IN  /\ q \in Request /\ HasRead(q) /\ q.op = a.op /\ q.id = a.id
               /\ q.to = a.to /\ q.by = a.by /\ q.up = a.up /\ q.top = x
<1> DEFINE q == [a EXCEPT !.top = x]
<1>1. q \in Request
  BY DEF Request
<1>2. /\ q.op = a.op /\ q.id = a.id /\ q.to = a.to /\ q.by = a.by /\ q.up = a.up /\ q.top = x
      /\ q.ss = a.ss /\ q.new = a.new /\ q.st = a.st /\ q.proj = a.proj
  BY DEF Request
<1>3. HasRead(q)
  <2> HIDE DEF q
  <2> QED BY <1>2 DEF HasRead
<1> QED BY <1>1, <1>2, <1>3

LEMMA WithUp ==
    ASSUME NEW a \in Request, HasRead(a), NEW x \in Ids
    PROVE  LET q == [a EXCEPT !.up = x]
           IN  /\ q \in Request /\ HasRead(q) /\ q.op = a.op /\ q.id = a.id
               /\ q.to = a.to /\ q.by = a.by /\ q.top = a.top /\ q.up = x
<1> DEFINE q == [a EXCEPT !.up = x]
<1>1. q \in Request
  BY DEF Request
<1>2. /\ q.op = a.op /\ q.id = a.id /\ q.to = a.to /\ q.by = a.by /\ q.top = a.top /\ q.up = x
      /\ q.ss = a.ss /\ q.new = a.new /\ q.st = a.st /\ q.proj = a.proj
  BY DEF Request
<1>3. HasRead(q)
  <2> HIDE DEF q
  <2> QED BY <1>2 DEF HasRead
<1> QED BY <1>1, <1>2, <1>3

\* Whatever is unfolded is a work.
LEMMA UnfoldOK ==
    ASSUME NEW open \in SUBSET Projects, NEW list \in SUBSET Projects, NEW u \in Unfold(open, list)
    PROVE  u \subseteq Projects
BY DEF Unfold

\* The first requests of a click are well formed, when the invariant holds of the rest.
LEMMA MoreReqs ==
    ASSUME TreeInv, NEW Q, \A q \in Q : ReqOK(q), reqs' = reqs \cup Q, PageOK', UNCHANGED tables,
           acts' \in Nat, news' \in Nat
    PROVE  TreeInv'
BY DEF TreeInv, TablesOK, RowsWhole, NoOrphans, tables, KeysHold, NoRow

\* The rows of the tree.
LEMMA RowsOK ==
    ASSUME PageOK
    PROVE  /\ SeasonRows \subseteq Seasons \X Projects
           /\ ChapterRows \subseteq Chapters \X Seasons \X Projects
BY DEF PageOK, SeasonRows, ChapterRows

LEMMA SendOK ==
    ASSUME TreeAssumption, TreeInv, NEW q, ReqOK(q), Send(q)
    PROVE  TreeInv'
<1>1. reqs' = reqs \cup {q} /\ UNCHANGED page /\ UNCHANGED tables /\ acts' \in Nat /\ news' \in Nat
  BY DEF Send, Act, TreeInv
<1>2. PageOK'
  BY <1>1 DEF TreeInv, PageOK, page
<1> QED BY <1>1, <1>2, MoreReqs

\* Clicks.
LEMMA ClickOK ==
    ASSUME TreeAssumption, TreeInv, Click
    PROVE  TreeInv'
<1>1. PageOK
  BY DEF TreeInv
<1>2. "page" \in {"page", "other"} /\ None \in Ids
  BY DEF Ids
<1>3. CASE OnProjects
  <2>1. CASE Send(Ask("page", "addProject", None, None))
    <3>1. "addProject" \in Reads \cup Edits
      BY DEF Edits
    <3>2. ReqOK(Ask("page", "addProject", None, None))
      BY <1>1, <1>2, <3>1, Asked DEF ReqOK, AboutRows, FromRows
    <3> QED BY <2>1, <3>2, SendOK
  <2>2. ASSUME NEW p \in shown, NEW op \in {"addSeason", "rename", "delProject"}, Send(Get(op, p))
        PROVE  TreeInv'
    <3>1. p \in Projects /\ p \in Ids /\ op \in Reads \cup Edits
      BY <1>1 DEF PageOK, Edits, Ids
    <3>2. ReqOK(Get(op, p))
      BY <1>1, <1>2, <3>1, Asked DEF ReqOK, AboutRows, FromRows, Get
    <3> QED BY <2>2, <3>2, SendOK
  <2> QED BY <1>3, <2>1, <2>2 DEF OnProjects
<1>4. ASSUME NEW p \in Projects, ToggleProject(p) PROVE TreeInv'
  <2>1. UNCHANGED tables /\ acts' \in Nat /\ news' \in Nat
    BY <1>4 DEF ToggleProject, Act, TreeInv
  <2>2. ASSUME NEW X \in SUBSET Projects
        PROVE  \A r \in {Get("seasons", y) : y \in X} : ReqOK(r)
    BY <1>1, <2>2, Gotten DEF Reads, Ids
  <2>3. CASE p \in expProj
    <3>1. PICK open \in Unfold(expProj \ {p}, shown) :
              /\ expProj' = open
              /\ reqs' = reqs \cup {Get("seasons", q) : q \in open \ (expProj \ {p})}
      BY <1>4, <2>3 DEF ToggleProject
    <3>2. expProj \ {p} \in SUBSET Projects /\ shown \in SUBSET Projects
      BY <1>1 DEF PageOK
    <3>3. open \subseteq Projects
      BY <3>1, <3>2, UnfoldOK
    <3>4. PageOK'
      BY <1>1, <1>4, <3>1, <3>3 DEF PageOK, ToggleProject
    <3>5. open \ (expProj \ {p}) \in SUBSET Projects
      BY <3>3
    <3>6. \A r \in {Get("seasons", q) : q \in open \ (expProj \ {p})} : ReqOK(r)
      BY <2>2, <3>5
    <3> QED BY <2>1, <3>1, <3>4, <3>6, MoreReqs
  <2>4. CASE p \notin expProj
    <3>1. reqs' = reqs \cup {Get("seasons", p)} /\ expProj' = expProj \cup {p}
      BY <1>4, <2>4 DEF ToggleProject
    <3>2. PageOK'
      BY <1>1, <1>4, <3>1 DEF PageOK, ToggleProject
    <3>3. ReqOK(Get("seasons", p))
      BY <1>1, Gotten DEF Reads, Ids
    <3> QED BY <2>1, <3>1, <3>2, <3>3, MoreReqs
  <2> QED BY <2>3, <2>4
<1>5. ASSUME NEW s \in Seasons, ToggleSeason(s) PROVE TreeInv'
  <2>1. UNCHANGED tables /\ acts' \in Nat /\ news' \in Nat
    BY <1>5 DEF ToggleSeason, Act, TreeInv
  <2>2. PageOK'
    BY <1>1, <1>5 DEF PageOK, ToggleSeason
  <2>3. ReqOK(Get("chapters", s))
    BY <1>1, Gotten DEF Reads, Ids
  <2>4. reqs' = reqs \cup {} \/ reqs' = reqs \cup {Get("chapters", s)}
    BY <1>5 DEF ToggleSeason
  <2>5. CASE reqs' = reqs \cup {}
    BY <2>1, <2>2, <2>5, MoreReqs
  <2>6. CASE reqs' = reqs \cup {Get("chapters", s)}
    <3>1. \A q \in {Get("chapters", s)} : ReqOK(q)
      BY <2>3
    <3> QED BY <2>1, <2>2, <2>6, <3>1, MoreReqs
  <2> QED BY <2>4, <2>5, <2>6
<1>6. ASSUME NEW s \in Seasons, NEW p \in Projects, OnSeason(s, p) PROVE TreeInv'
  <2>1. s \in Ids /\ p \in Ids
    BY DEF Ids
  <2>2. ASSUME NEW op \in {"addChapter", "rename", "delSeason"}, Send([Get(op, s) EXCEPT !.top = p])
        PROVE  TreeInv'
    <3> DEFINE a == Get(op, s)
               q == [a EXCEPT !.top = p]
    <3>1. op \in Reads \cup Edits
      BY DEF Edits, Reads
    <3>2. a \in Request /\ HasRead(a) /\ a.op = op /\ a.id = s /\ a.by = "page"
      BY <1>1, <1>2, <2>1, <3>1, Asked DEF Get
    <3> HIDE DEF a
    <3>3. q \in Request /\ HasRead(q) /\ q.op = op /\ q.id = s /\ q.by = "page" /\ q.top = p
      BY <2>1, <3>2, WithTop
    <3> HIDE DEF q
    <3>4. ReqOK(q)
      BY <3>3 DEF ReqOK, AboutRows, FromRows
    <3> QED BY <2>2, <3>4, SendOK DEF a, q
  <2>3. ASSUME NEW t \in shown, Send([Ask("page", "moveSeason", s, t) EXCEPT !.top = p])
        PROVE  TreeInv'
    <3> DEFINE a == Ask("page", "moveSeason", s, t)
               q == [a EXCEPT !.top = p]
    <3>1. "moveSeason" \in Reads \cup Edits /\ t \in Projects /\ t \in Ids
      BY <1>1 DEF Edits, Moves, PageOK, Ids
    <3>2. a \in Request /\ HasRead(a) /\ a.op = "moveSeason" /\ a.id = s /\ a.to = t /\ a.by = "page"
      BY <1>1, <1>2, <2>1, <3>1, Asked
    <3> HIDE DEF a
    <3>3. /\ q \in Request /\ HasRead(q) /\ q.op = "moveSeason" /\ q.id = s /\ q.to = t
          /\ q.by = "page" /\ q.top = p
      BY <2>1, <3>2, WithTop
    <3> HIDE DEF q
    <3>4. ReqOK(q)
      BY <3>1, <3>3 DEF ReqOK, AboutRows, FromRows
    <3> QED BY <2>3, <3>4, SendOK DEF a, q
  <2> QED BY <1>6, <2>2, <2>3 DEF OnSeason
<1>7. ASSUME NEW c \in Chapters, NEW s \in Seasons, NEW p \in Projects, OnChapter(c, s, p)
      PROVE  TreeInv'
  <2>1. c \in Ids /\ s \in Ids
    BY DEF Ids
  <2>2. ASSUME NEW op \in {"open", "rename", "delChapter"}, Send([Get(op, c) EXCEPT !.up = s])
        PROVE  TreeInv'
    <3> DEFINE a == Get(op, c)
               q == [a EXCEPT !.up = s]
    <3>1. op \in Reads \cup Edits
      BY DEF Edits, Reads
    <3>2. a \in Request /\ HasRead(a) /\ a.op = op /\ a.id = c /\ a.by = "page"
      BY <1>1, <1>2, <2>1, <3>1, Asked DEF Get
    <3> HIDE DEF a
    <3>3. q \in Request /\ HasRead(q) /\ q.op = op /\ q.id = c /\ q.by = "page" /\ q.up = s
      BY <2>1, <3>2, WithUp
    <3> HIDE DEF q
    <3>4. ReqOK(q)
      BY <3>3 DEF ReqOK, AboutRows, FromRows
    <3> QED BY <2>2, <3>4, SendOK DEF a, q
  <2>3. ASSUME NEW t \in seasonsBy[p], Send([Ask("page", "moveChapter", c, t) EXCEPT !.up = s])
        PROVE  TreeInv'
    <3> DEFINE a == Ask("page", "moveChapter", c, t)
               q == [a EXCEPT !.up = s]
    <3>1. "moveChapter" \in Reads \cup Edits /\ t \in Seasons /\ t \in Ids
      BY <1>1 DEF Edits, Moves, PageOK, Ids
    <3>2. a \in Request /\ HasRead(a) /\ a.op = "moveChapter" /\ a.id = c /\ a.to = t /\ a.by = "page"
      BY <1>1, <1>2, <2>1, <3>1, Asked
    <3> HIDE DEF a
    <3>3. /\ q \in Request /\ HasRead(q) /\ q.op = "moveChapter" /\ q.id = c /\ q.to = t
          /\ q.by = "page" /\ q.up = s
      BY <2>1, <3>2, WithUp
    <3> HIDE DEF q
    <3>4. ReqOK(q)
      BY <3>1, <3>3 DEF ReqOK, AboutRows, FromRows
    <3> QED BY <2>3, <3>4, SendOK DEF a, q
  <2> QED BY <1>7, <2>2, <2>3 DEF OnChapter
<1>8. \A x \in SeasonRows : x[1] \in Seasons /\ x[2] \in Projects
  BY <1>1, RowsOK
<1>9. \A x \in ChapterRows : x[1] \in Chapters /\ x[2] \in Seasons /\ x[3] \in Projects
  BY <1>1, RowsOK
<1> QED BY <1>3, <1>4, <1>5, <1>6, <1>7, <1>8, <1>9 DEF Click

\* Requests of the other client.
LEMMA OtherOK ==
    ASSUME TreeAssumption, TreeInv, OtherAsks
    PROVE  TreeInv'
<1>1. PageOK
  BY DEF TreeInv
<1>2. PICK op \in Edits \ {"rename"}, id \in Ids, to \in Ids :
         /\ id \in CASE op = "addProject" -> {None}
                     [] op \in {"addSeason", "delProject"} -> Projects \cap issued
                     [] op \in {"addChapter", "delSeason", "moveSeason"} -> Seasons \cap issued
                     [] OTHER -> Chapters \cap issued
         /\ to \in CASE op = "moveSeason" -> Projects \cap issued
                     [] op = "moveChapter" -> Seasons \cap issued
                     [] OTHER -> {None}
         /\ reqs' = reqs \cup {Ask("other", op, id, to)}
  BY DEF OtherAsks
<1>3. /\ op \in {"addSeason", "delProject"} => id \in Projects
      /\ op \in {"addChapter", "delSeason", "moveSeason"} => id \in Seasons
      /\ op \in {"delChapter", "moveChapter"} => id \in Chapters
      /\ op = "moveSeason" => to \in Projects
      /\ op = "moveChapter" => to \in Seasons
  BY <1>2
<1> DEFINE q == Ask("other", op, id, to)
<1>4. /\ q \in Request /\ HasRead(q) /\ q.op = op /\ q.id = id /\ q.to = to /\ q.by = "other"
  BY <1>1, Asked
<1>5. ReqOK(q)
  BY <1>3, <1>4 DEF ReqOK, AboutRows, FromRows, Edits, Moves
<1>6. PageOK' /\ UNCHANGED tables /\ acts' \in Nat /\ news' \in Nat
  BY <1>1 DEF OtherAsks, TreeInv, PageOK, page
<1>7. reqs' = reqs \cup {q}
  BY <1>2
<1> HIDE DEF q
<1>8. \A x \in {q} : ReqOK(x)
  BY <1>5
<1> QED BY <1>6, <1>7, <1>8, MoreReqs

\* Answers.
LEMMA AnsweredOK ==
    ASSUME TreeAssumption, TreeInv, NEW r \in reqs, Answered(r)
    PROVE  TreeInv'
<1>1. PageOK /\ ReqOK(r) /\ r.by = "page"
  BY DEF TreeInv, Answered
<1>2. UNCHANGED tables /\ acts' \in Nat /\ news' \in Nat
  BY DEF Answered, TreeInv
<1>3. ASSUME NEW G, \A q \in G : ReqOK(q), Then(r, G), PageOK'
      PROVE  TreeInv'
  <2>1. \A q \in reqs' : ReqOK(q)
    BY <1>3 DEF Then, TreeInv
  <2> QED BY <1>2, <1>3, <2>1 DEF TreeInv, TablesOK, RowsWhole, NoOrphans, tables, KeysHold, NoRow
<1>4. ASSUME NEW p \in Projects PROVE ReqOK(Get("seasons", p))
  BY <1>1, Gotten DEF Reads, Ids
<1>5. ASSUME NEW s \in Seasons PROVE ReqOK(Get("chapters", s))
  BY <1>1, Gotten DEF Reads, Ids
<1>6. ReqOK(Get("projects", None))
  BY <1>1, Gotten DEF Reads, Ids
<1>7. r.was \in [id : Ids, season : Ids, proj : Ids] /\ NoChapter \in [id : Ids, season : Ids, proj : Ids]
  BY <1>1 DEF ReqOK, Request, NoChapter, Ids
<1>8. CASE Refused(r)
  <2>1. PageOK'
    BY <1>1, <1>8 DEF Refused, PageOK, page
  <2> QED BY <1>3, <1>8, <2>1 DEF Refused
<1>9. CASE Added(r)
  <2>1. CASE r.op = "addProject"
    <3>1. PageOK'
      BY <1>1, <1>9, <2>1 DEF Added, PageOK
    <3> QED BY <1>3, <1>6, <1>9, <2>1, <3>1 DEF Added
  <2>2. CASE r.op = "addSeason"
    <3>1. r.id \in Projects
      BY <1>1, <2>2 DEF ReqOK, AboutRows
    <3>2. PageOK'
      BY <1>1, <1>9, <2>2, <3>1 DEF Added, PageOK
    <3>3. Then(r, {Get("seasons", r.id)})
      BY <1>9, <2>2 DEF Added
    <3> QED BY <1>3, <1>4, <3>1, <3>2, <3>3
  <2>3. CASE r.op = "addChapter"
    <3>1. r.id \in Seasons /\ r.new \in Chapters \cup {None}
      BY <1>1, <2>3 DEF ReqOK, AboutRows, HasRead
    <3>2. PageOK'
      BY <1>1, <1>9, <2>3, <3>1 DEF Added, PageOK
    <3> DEFINE g == Get("chapters", r.id)
               q == [g EXCEPT !.new = r.new]
    <3>3. Then(r, {q})
      BY <1>9, <2>3 DEF Added
    <3>4. ReqOK(g) /\ r.new \in Ids
      BY <1>5, <3>1 DEF Ids
    <3>5. g.op = "chapters" /\ g.by = "page"
      BY DEF Get, Ask
    <3> HIDE DEF g
    <3>6. q \in Request
      BY <3>4 DEF ReqOK, Request
    <3>7. /\ q.op = g.op /\ q.id = g.id /\ q.by = g.by /\ q.ss = g.ss /\ q.new = r.new
      BY <3>4 DEF ReqOK, Request
    <3>8. ReqOK(q)
      BY <3>1, <3>4, <3>5, <3>6, <3>7 DEF ReqOK, AboutRows, FromRows, HasRead
    <3> QED BY <1>3, <3>2, <3>3, <3>8
  <2> QED BY <1>9, <2>1, <2>2, <2>3 DEF Added
<1>10. CASE Renamed(r)
  <2>1. PageOK'
    BY <1>1, <1>7, <1>10 DEF Renamed, PageOK
  <2> DEFINE q == CASE r.id \in Projects -> Get("projects", None)
                    [] r.id \in Seasons  -> Get("seasons", r.top)
                    [] OTHER -> Get("chapters", r.up)
  <2>2. Then(r, {q})
    BY <1>10 DEF Renamed
  <2>3. \/ r.id \in Projects
        \/ r.id \in Seasons /\ r.top \in Projects
        \/ r.id \in Chapters /\ r.up \in Seasons
    BY <1>1, <1>10 DEF ReqOK, FromRows, Renamed
  <2>4. ReqOK(q)
    BY <1>4, <1>5, <1>6, <2>3 DEF TreeAssumption
  <2> QED BY <1>3, <2>1, <2>2, <2>4
<1>11. CASE Deleted(r)
  <2>1. active' \in [id : Ids, season : Ids, proj : Ids]
    BY <1>1, <1>7, <1>11 DEF Deleted, Close, PageOK
  <2>2. CASE r.op = "delProject"
    <3>1. PICK open \in Unfold(expProj \ {r.id}, shown) :
               /\ expProj' = open
               /\ Then(r, {Get("projects", None)}
                          \cup {Get("seasons", q) : q \in open \ (expProj \ {r.id})})
      BY <1>11, <2>2 DEF Deleted
    <3>2. expProj \ {r.id} \in SUBSET Projects /\ shown \in SUBSET Projects
      BY <1>1 DEF PageOK
    <3>3. open \subseteq Projects
      BY <3>1, <3>2, UnfoldOK
    <3>4. PageOK'
      BY <1>1, <1>11, <2>1, <3>1, <3>3 DEF Deleted, PageOK
    <3>5. \A q \in open \ (expProj \ {r.id}) : q \in Projects
      BY <3>3
    <3>6. \A q \in {Get("projects", None)} \cup {Get("seasons", q) : q \in open \ (expProj \ {r.id})} :
             ReqOK(q)
      BY <1>4, <1>6, <3>5
    <3> QED BY <1>3, <3>1, <3>4, <3>6
  <2>3. CASE r.op = "delSeason"
    <3>1. r.top \in Projects
      BY <1>1, <2>3 DEF ReqOK, FromRows
    <3>2. PageOK'
      BY <1>1, <1>11, <2>1, <2>3 DEF Deleted, PageOK
    <3>3. Then(r, {Get("seasons", r.top)})
      BY <1>11, <2>3 DEF Deleted
    <3> QED BY <1>3, <1>4, <3>1, <3>2, <3>3
  <2>4. CASE r.op = "delChapter"
    <3>1. r.up \in Seasons
      BY <1>1, <2>4 DEF ReqOK, FromRows
    <3>2. PageOK'
      BY <1>1, <1>11, <2>1, <2>4 DEF Deleted, PageOK
    <3>3. Then(r, {Get("chapters", r.up)})
      BY <1>11, <2>4 DEF Deleted
    <3> QED BY <1>3, <1>5, <3>1, <3>2, <3>3
  <2> QED BY <1>11, <2>2, <2>3, <2>4 DEF Deleted
<1>12. CASE Moved(r)
  <2>1. CASE r.op = "moveSeason"
    <3>1. r.top \in Projects /\ r.to \in Projects
      BY <1>1, <2>1 DEF ReqOK, FromRows, AboutRows
    <3>2. moved' \in BOOLEAN
      BY <1>1, <1>12, <2>1 DEF Moved, PageOK
    <3>3. PageOK'
      BY <1>1, <1>12, <2>1, <3>1, <3>2 DEF Moved, PageOK
    <3>4. Then(r, {Get("seasons", r.top), Get("seasons", r.to)})
      BY <1>12, <2>1 DEF Moved
    <3>5. \A q \in {Get("seasons", r.top), Get("seasons", r.to)} : ReqOK(q)
      BY <1>4, <3>1
    <3> QED BY <1>3, <3>3, <3>4, <3>5
  <2>2. CASE r.op = "moveChapter"
    <3>1. r.up \in Seasons /\ r.to \in Seasons
      BY <1>1, <2>2 DEF ReqOK, FromRows, AboutRows
    <3>2. active' \in [id : Ids, season : Ids, proj : Ids]
      BY <1>1, <1>7, <1>12, <2>2, <3>1 DEF Moved, PageOK, Ids
    <3>3. PageOK'
      BY <1>1, <1>12, <2>2, <3>1, <3>2 DEF Moved, PageOK
    <3>4. Then(r, {Get("chapters", r.up), Get("chapters", r.to)})
      BY <1>12, <2>2 DEF Moved
    <3>5. \A q \in {Get("chapters", r.up), Get("chapters", r.to)} : ReqOK(q)
      BY <1>5, <3>1
    <3> QED BY <1>3, <3>3, <3>4, <3>5
  <2> QED BY <1>12, <2>1, <2>2 DEF Moved
<1>13. CASE Loaded(r)
  <2>1. CASE r.op = "seasons"
    <3>1. PageOK'
      BY <1>1, <1>13, <2>1 DEF Loaded, PageOK, ReqOK, HasRead
    <3> QED BY <1>3, <1>13, <2>1, <3>1 DEF Loaded
  <2>2. CASE r.op = "chapters"
    <3>1. r.cs \in SUBSET Ref
      BY <1>1 DEF ReqOK, Request
    <3>2. PageOK'
      BY <1>1, <1>13, <2>2, <3>1 DEF Loaded, PageOK
    <3>3. Then(r, IF r.new = None THEN {} ELSE {Get("open", r.new)})
      BY <1>13, <2>2 DEF Loaded
    <3>4. r.new # None => ReqOK(Get("open", r.new))
      BY <1>1, Gotten DEF Reads, Ids, ReqOK, HasRead
    <3> QED BY <1>3, <3>2, <3>3, <3>4
  <2>3. CASE r.op = "open"
    <3>1. PageOK'
      BY <1>1, <1>7, <1>13, <2>3 DEF Loaded, PageOK
    <3> QED BY <1>3, <1>13, <2>3, <3>1 DEF Loaded
  <2>4. CASE r.op = "projects"
    <3>1. PICK open \in Unfold(expProj, r.ss) :
            expProj' = open /\ Then(r, {Get("seasons", q) : q \in open \ expProj})
      BY <1>13, <2>4 DEF Loaded
    <3>2. expProj \in SUBSET Projects /\ r.ss \in SUBSET Projects
      BY <1>1, <2>4 DEF PageOK, ReqOK, HasRead
    <3>3. open \subseteq Projects
      BY <3>1, <3>2, UnfoldOK
    <3>4. PageOK'
      BY <1>1, <1>13, <2>4, <3>1, <3>2, <3>3 DEF Loaded, PageOK
    <3>5. \A q \in {Get("seasons", p) : p \in open \ expProj} : ReqOK(q)
      BY <1>4, <3>3
    <3> QED BY <1>3, <3>1, <3>4, <3>5
  <2> QED BY <1>13, <2>1, <2>2, <2>3, <2>4 DEF Loaded
<1> QED BY <1>8, <1>9, <1>10, <1>11, <1>12, <1>13 DEF Answered

(***************************************************************************)
(* Types and foreign keys, for any number of works, seasons, chapters and  *)
(* requests.                                                               *)
(***************************************************************************)
\* The invariant holds at the start.
LEMMA InitTreeInv == ASSUME TreeAssumption, Init PROVE TreeInv
<1>1. PICK of \in [Chapters -> {s \in Seasons : seasonOf[s] # None} \cup {None}] :
         chapterOf = [c \in Chapters |->
             IF of[c] = None THEN NoRow ELSE [season |-> of[c], proj |-> seasonOf[of[c]]]]
  BY DEF Init
<1>2. projects \subseteq Projects /\ seasonOf \in [Seasons -> projects \cup {None}]
  BY DEF Init
<1>3. \A c \in Chapters : \/ chapterOf[c] = NoRow
                          \/ /\ chapterOf[c] \in [season : Seasons, proj : projects]
                             /\ seasonOf[chapterOf[c].season] # None
  BY <1>1, <1>2
<1>4. TablesOK
  <2>1. chapterOf \in [Chapters -> [season : Seasons \cup {None}, proj : Projects \cup {None}]]
    BY <1>1, <1>2, <1>3 DEF NoRow
  <2>2. RowsWhole
    BY <1>2, <1>3 DEF RowsWhole
  <2>3. issued \subseteq Projects \cup Seasons \cup Chapters
    BY <1>2 DEF Init, LiveSeasons, LiveChapters
  <2> QED BY <1>2, <2>1, <2>2, <2>3 DEF TablesOK
<1>5. NoOrphans
  BY <1>2, <1>3 DEF NoOrphans, KeysHold
<1>6. PageOK
  BY DEF Init, PageOK, NoChapter, Ids
<1>7. ReqOK(Get("projects", None))
  BY <1>6, Gotten DEF Reads, Ids
<1> QED BY <1>4, <1>5, <1>6, <1>7 DEF Init, TreeInv

\* Every step keeps it.
LEMMA NextTreeInv == ASSUME TreeAssumption, TreeInv, [Next]_vars PROVE TreeInv'
<1>1. CASE Click
  BY <1>1, ClickOK
<1>2. CASE OtherAsks
  BY <1>2, OtherOK
<1>3. CASE \E r \in reqs : Serve(r) \/ Answered(r)
  BY <1>3, ServeOK, AnsweredOK
<1>4. CASE UNCHANGED vars
  BY <1>4 DEF vars, tables, page, TreeInv, TablesOK, RowsWhole, PageOK, NoOrphans, KeysHold, NoRow
<1> QED BY <1>1, <1>2, <1>3, <1>4 DEF Next

LEMMA TreeInvHolds == Spec => []TreeInv
<1>1. Init => TreeInv
  BY InitTreeInv, TreeAssumption
<1>2. TreeInv /\ [Next]_vars => TreeInv'
  BY NextTreeInv, TreeAssumption
<1> QED BY <1>1, <1>2, PTL DEF Spec

\* Only the move of a season passes one.
LEMMA StepPassed ==
    ASSUME [Next]_vars
    PROVE  passed' = passed \/ \E r \in reqs : r.op = "moveSeason" /\ Pass(r)
<1>1. CASE Click
  BY <1>1 DEF Click, OnProjects, OnSeason, OnChapter, ToggleProject, ToggleSeason, Send, Act
<1>2. CASE \E r \in reqs : Serve(r)
  BY <1>2 DEF Serve, ServeSelect, ServeSelectMore, ServeMove
<1> QED BY <1>1, <1>2 DEF Next, OtherAsks, Answered, vars

\* The tables, the page and the requests keep their types (repo.py, useProjectTree.ts).
THEOREM TreeTypes == Spec => []TypeOK
<1>1. Init => passed \subseteq Seasons
  BY DEF Init
<1>2. TreeInv /\ passed \subseteq Seasons /\ [Next]_vars => (passed \subseteq Seasons)'
  BY StepPassed DEF Pass, TreeInv, ReqOK, AboutRows
<1> QED BY <1>1, <1>2, TreeInvHolds, TreeInvTypes, PTL DEF Spec

\* No deletion, move or creation leaves a season without its work or a chapter without its
\* season, whatever was read before the transaction (repo.py, the foreign keys of schema.sql).
THEOREM NothingOrphaned == Spec => []NoOrphans
<1>1. TreeInv => NoOrphans
  BY DEF TreeInv
<1> QED BY <1>1, TreeInvHolds, PTL

(***************************************************************************)
(* A chapter and its season agree on their work, unless the season was     *)
(* passed.                                                                 *)
(***************************************************************************)
\* A request that is not about to write on what it has read of a season.
Idle(q) == ~Enters(q)

\* Nothing is lost when the tables stay and no request starts to rely on what it has read.
LEMMA StillAgree ==
    ASSUME AgreeInv, NoOrphans, UNCHANGED tables, UNCHANGED passed, \A q \in reqs' : q \in reqs \/ Idle(q)
    PROVE  AgreeInv'
<1>1. LiveSeasons' \subseteq issued' /\ AgreeUnlessPassed'
  BY DEF AgreeInv, tables, LiveSeasons, AgreeUnlessPassed, LiveChapters
<1>2. ReadAgrees'
  BY DEF AgreeInv, tables, ReadAgrees, Idle, Into
<1> QED BY <1>1, <1>2 DEF AgreeInv

\* An answer relies on nothing.
LEMMA AnswerIdle ==
    ASSUME NEW r \in reqs, r \in Request, NEW st \in {"ok", "no"}, Answer(r, st)
    PROVE  \A q \in reqs' : q \in reqs \ {r} \/ Idle(q)
<1>1. [r EXCEPT !.st = st].st = st
  BY DEF Request
<1> QED BY <1>1 DEF Answer, Becomes, Idle, Enters

\* A transaction keeps the agreement when its tables have it, as soon as their keys hold,
\* and no season changes that another request has read.
LEMMA CommitAgrees ==
    ASSUME AgreeInv, NoOrphans, NEW r \in reqs, r \in Request,
           NEW P, NEW sOf, NEW cOf, NEW new, Commit(r, P, sOf, cOf, new),
           NEW by, passed' = by, ~KeysHold(P, sOf, cOf) => by = passed,
           \A s \in Seasons : sOf[s] # None => s \in issued \cup (new \ {None}),
           KeysHold(P, sOf, cOf) =>
               \A c \in Chapters : cOf[c] # NoRow =>
                   cOf[c].season \in by \/ cOf[c].proj = sOf[cOf[c].season],
           KeysHold(P, sOf, cOf) =>
               \A q \in reqs \ {r} : ~Idle(q) => Into(q) \in by \/ sOf[Into(q)] \in {q.proj, None}
    PROVE  AgreeInv'
<1>1. CASE KeysHold(P, sOf, cOf)
  <2>1. /\ seasonOf' = sOf /\ chapterOf' = cOf /\ issued' = issued \cup (new \ {None})
        /\ Answer(r, "ok")
    BY <1>1 DEF Commit
  <2>2. \A q \in reqs' : q \in reqs \ {r} \/ Idle(q)
    BY <2>1, AnswerIdle
  <2>3. LiveSeasons' \subseteq issued' /\ AgreeUnlessPassed'
    BY <1>1, <2>1 DEF LiveSeasons, AgreeUnlessPassed, LiveChapters, NoRow
  <2>4. ReadAgrees'
    BY <1>1, <2>1, <2>2 DEF AgreeInv, ReadAgrees, Idle, Into
  <2> QED BY <2>3, <2>4 DEF AgreeInv
<1>2. CASE ~KeysHold(P, sOf, cOf)
  <2>1. UNCHANGED tables /\ Answer(r, "no")
    BY <1>2 DEF Commit
  <2>2. \A q \in reqs' : q \in reqs \/ Idle(q)
    BY <2>1, AnswerIdle
  <2> QED BY <1>2, <2>1, <2>2, StillAgree
<1> QED BY <1>1, <1>2

\* A chapter's season is there and was given out.
LEMMA SeasonIssued ==
    ASSUME TreeAssumption, TreeInv, AgreeInv, NEW c \in Chapters, chapterOf[c] # NoRow
    PROVE  /\ chapterOf[c].season \in Seasons \cap issued
           /\ seasonOf[chapterOf[c].season] # None
           /\ chapterOf[c].season \in passed \/ chapterOf[c].proj = seasonOf[chapterOf[c].season]
<1>1. chapterOf[c].season \in Seasons
  BY DEF TreeInv, TablesOK, RowsWhole
<1>2. seasonOf[chapterOf[c].season] # None
  BY DEF TreeInv, NoOrphans, KeysHold
<1> QED BY <1>1, <1>2 DEF AgreeInv, LiveSeasons, AgreeUnlessPassed, LiveChapters

\* What a request reads of a season is so when it reads it.
LEMMA SelectAgrees ==
    ASSUME TreeAssumption, TreeInv, AgreeInv, NEW r \in reqs, ServeSelect(r) \/ ServeSelectMore(r)
    PROVE  AgreeInv'
<1>1. r \in Request /\ NoOrphans /\ UNCHANGED tables /\ UNCHANGED <<seasonOf, issued, passed>>
  BY DEF TreeInv, ReqOK, ServeSelect, ServeSelectMore, tables
<1>2. CASE r.op \in {"delSeason", "delProject"}
  <2>1. PICK q : Becomes(r, q) /\ q.op = r.op
    <3> DEFINE u == [r EXCEPT !.st = "read", !.ss = {r.id}, !.cs = Refs(ChaptersIn(r.id))]
               v == [r EXCEPT !.st = "half", !.ss = SeasonsIn(r.id)]
               w == [r EXCEPT !.st = "read", !.cs = Refs({c \in Chapters : chapterOf[c].proj = r.id})]
    <3>1. Becomes(r, u) \/ Becomes(r, v) \/ Becomes(r, w)
      BY <1>2 DEF ServeSelect, ServeSelectMore
    <3>2. u.op = r.op /\ v.op = r.op /\ w.op = r.op
      BY <1>1 DEF Request
    <3> HIDE DEF u, v, w
    <3> QED BY <3>1, <3>2
  <2>2. \A x \in reqs' : x \in reqs \/ Idle(x)
    BY <1>2, <2>1 DEF Becomes, Idle, Enters
  <2> QED BY <1>1, <2>2, StillAgree
<1>3. CASE r.op \in {"addChapter", "moveChapter"}
  <2> DEFINE s == Into(r)
             a == [r EXCEPT !.st = "read", !.proj = seasonOf[s]]
             b == [r EXCEPT !.st = "no"]
  <2>1. Becomes(r, IF s \in LiveSeasons THEN a ELSE b)
    BY <1>3 DEF ServeSelect, ServeSelectMore, Into
  <2>2. /\ a.op = r.op /\ a.id = r.id /\ a.to = r.to /\ a.proj = seasonOf[s] /\ b.st = "no"
    BY <1>1 DEF Request
  <2> HIDE DEF a, b
  <2>3. Into(a) = s
    BY <2>2 DEF Into
  <2> HIDE DEF s
  <2>4. CASE s \in LiveSeasons
    <3>1. \A q \in reqs' : q \in reqs \/ q = a
      BY <2>1, <2>4 DEF Becomes
    <3>2. s \in issued
      BY <2>4 DEF AgreeInv
    <3>3. ReadAgrees'
      BY <1>1, <2>2, <2>3, <3>1, <3>2 DEF AgreeInv, ReadAgrees, Into, Enters
    <3>4. LiveSeasons' \subseteq issued' /\ AgreeUnlessPassed'
      BY <1>1 DEF AgreeInv, tables, LiveSeasons, AgreeUnlessPassed, LiveChapters
    <3> QED BY <3>3, <3>4 DEF AgreeInv
  <2>5. CASE s \notin LiveSeasons
    <3>1. \A q \in reqs' : q \in reqs \/ Idle(q)
      BY <2>1, <2>2, <2>5 DEF Becomes, Idle, Enters
    <3> QED BY <1>1, <3>1, StillAgree
  <2> QED BY <2>4, <2>5
<1> QED BY <1>2, <1>3 DEF ServeSelect, ServeSelectMore

\* A new season is one nobody has read, and a new chapter takes the work of its season.
LEMMA AddAgrees ==
    ASSUME TreeAssumption, TreeInv, AgreeInv, NEW r \in reqs, ServeAdd(r) \/ ServeAddChapter(r), UNCHANGED passed
    PROVE  AgreeInv'
<1>1. ReqOK(r) /\ TablesOK /\ NoOrphans /\ r \in Request
  BY DEF TreeInv, ReqOK
<1>2. CASE ServeAdd(r)
  <2>1. PICK p \in IF r.op = "addProject" THEN Fresh(Projects) ELSE {r.id}, s \in Fresh(Seasons) :
           Commit(r, IF r.op = "addProject" THEN projects \cup {p} ELSE projects,
                  [seasonOf EXCEPT ![s] = p], chapterOf,
                  IF r.op = "addProject" THEN {p, s} ELSE {s})
    BY <1>2 DEF ServeAdd
  <2> DEFINE P == IF r.op = "addProject" THEN projects \cup {p} ELSE projects
             sOf == [seasonOf EXCEPT ![s] = p]
             new == IF r.op = "addProject" THEN {p, s} ELSE {s}
  <2>2. s \in Seasons \ issued /\ s # None /\ s \in new
    BY DEF Fresh, TreeAssumption
  <2>3. /\ \A t \in Seasons \ {s} : sOf[t] = seasonOf[t]
        /\ \A t : t \notin Seasons => t \notin DOMAIN sOf
    BY <1>1, <2>2 DEF TablesOK
  <2>4. Commit(r, P, sOf, chapterOf, new)
    BY <2>1
  <2> HIDE DEF P, sOf, new
  <2>5. \A t \in Seasons : sOf[t] # None => t \in issued \cup (new \ {None})
    BY <2>2, <2>3 DEF AgreeInv, LiveSeasons
  <2>6. \A c \in Chapters : chapterOf[c] # NoRow =>
            chapterOf[c].season \in passed \/ chapterOf[c].proj = sOf[chapterOf[c].season]
    BY <2>2, <2>3, SeasonIssued
  <2>7. \A q \in reqs \ {r} : ~Idle(q) => Into(q) \in passed \/ sOf[Into(q)] \in {q.proj, None}
    <3> SUFFICES ASSUME NEW q \in reqs \ {r}, ~Idle(q)
                 PROVE  Into(q) \in passed \/ sOf[Into(q)] \in {q.proj, None}
      OBVIOUS
    <3>1. Into(q) \in issued /\ (Into(q) \in passed \/ seasonOf[Into(q)] \in {q.proj, None})
      BY DEF AgreeInv, ReadAgrees, Idle
    <3>2. Into(q) \in Seasons
      BY DEF TreeInv, ReqOK, AboutRows, Into, Idle, Enters
    <3> QED BY <2>2, <2>3, <3>1, <3>2
  <2> QED BY <1>1, <2>4, <2>5, <2>6, <2>7, CommitAgrees
<1>3. CASE ServeAddChapter(r)
  <2>1. PICK c \in Fresh(Chapters) :
          LET cOf == [chapterOf EXCEPT ![c] = [season |-> r.id, proj |-> r.proj]]
          IN  IF KeysHold(projects, seasonOf, cOf)
              THEN /\ chapterOf' = cOf /\ issued' = issued \cup {c}
                   /\ Becomes(r, [r EXCEPT !.st = "ok", !.new = c])
                   /\ UNCHANGED <<projects, seasonOf>>
              ELSE Answer(r, "no") /\ UNCHANGED tables
    BY <1>3 DEF ServeAddChapter
  <2> DEFINE cOf == [chapterOf EXCEPT ![c] = [season |-> r.id, proj |-> r.proj]]
  <2>2. CASE KeysHold(projects, seasonOf, cOf)
    <3>1. /\ chapterOf' = cOf /\ issued' = issued \cup {c}
          /\ Becomes(r, [r EXCEPT !.st = "ok", !.new = c]) /\ seasonOf' = seasonOf
      BY <2>1, <2>2
    <3>2. c \in Chapters /\ r.proj \in Projects
      BY <1>1, <1>3 DEF Fresh, ServeAddChapter, ReqOK, HasRead
    <3>3. /\ cOf[c] = [season |-> r.id, proj |-> r.proj] /\ cOf[c] # NoRow
          /\ \A d \in Chapters \ {c} : cOf[d] = chapterOf[d]
      BY <1>1, <3>2 DEF TablesOK, NoRow, TreeAssumption
    <3> HIDE DEF cOf
    <3>4. seasonOf[r.id] # None
      BY <2>2, <3>2, <3>3 DEF KeysHold
    <3>5. r.id \in passed \/ seasonOf[r.id] = r.proj
      BY <1>3, <3>4 DEF AgreeInv, ReadAgrees, Into, ServeAddChapter, Enters
    <3>6. AgreeUnlessPassed'
      BY <3>1, <3>3, <3>5 DEF AgreeInv, AgreeUnlessPassed, LiveChapters, NoRow
    <3>7. [r EXCEPT !.st = "ok", !.new = c].st = "ok"
      BY <1>1 DEF Request
    <3>8. \A q \in reqs' : q \in reqs \/ Idle(q)
      BY <3>1, <3>7 DEF Becomes, Idle, Enters
    <3>9. ReadAgrees' /\ LiveSeasons' \subseteq issued'
      BY <3>1, <3>8 DEF AgreeInv, ReadAgrees, Idle, Into, LiveSeasons
    <3> QED BY <3>6, <3>9 DEF AgreeInv
  <2>3. CASE ~KeysHold(projects, seasonOf, cOf)
    <3>1. Answer(r, "no") /\ UNCHANGED tables
      BY <2>1, <2>3
    <3>2. \A q \in reqs' : q \in reqs \/ Idle(q)
      BY <1>1, <3>1, AnswerIdle
    <3> QED BY <1>1, <3>1, <3>2, StillAgree
  <2> QED BY <2>2, <2>3
<1> QED BY <1>2, <1>3

\* A deletion that goes through leaves no chapter whose season it takes away.
LEMMA DeleteAgrees ==
    ASSUME TreeAssumption, TreeInv, AgreeInv, NEW r \in reqs, ServeDelete(r), UNCHANGED passed
    PROVE  AgreeInv'
<1>1. r \in Request /\ TablesOK /\ NoOrphans
  BY DEF TreeInv, ReqOK
<1>2. PICK P, S, C : Commit(r, P, WithoutSeasons(S), WithoutChapters(C), {})
  <2>1. CASE r.op = "delChapter"
    <3>1. seasonOf = WithoutSeasons({})
      BY <1>1 DEF TablesOK, WithoutSeasons
    <3>2. Commit(r, projects, seasonOf, WithoutChapters({r.id}), {})
      BY <2>1 DEF ServeDelete
    <3>3. Commit(r, projects, WithoutSeasons({}), WithoutChapters({r.id}), {})
      BY ONLY <3>1, <3>2
    <3> QED BY <3>3
  <2>2. CASE r.op \in {"delSeason", "delProject"}
    BY <2>2 DEF ServeDelete
  <2> QED BY <2>1, <2>2 DEF ServeDelete
<1> DEFINE sOf == WithoutSeasons(S)
           cOf == WithoutChapters(C)
<1>3. /\ \A s \in Seasons : sOf[s] \in {seasonOf[s], None}
      /\ \A c \in Chapters : cOf[c] = NoRow \/ cOf[c] = chapterOf[c]
  BY DEF WithoutSeasons, WithoutChapters
<1> HIDE DEF sOf, cOf
<1>4. \A s \in Seasons : sOf[s] # None => s \in issued
  BY <1>3 DEF AgreeInv, LiveSeasons
<1>5. ASSUME KeysHold(P, sOf, cOf), NEW c \in Chapters, cOf[c] # NoRow
      PROVE  cOf[c].season \in passed \/ cOf[c].proj = sOf[cOf[c].season]
  <2>1. cOf[c] = chapterOf[c] /\ chapterOf[c] # NoRow
    BY <1>3, <1>5
  <2>2. sOf[chapterOf[c].season] # None
    BY <1>5, <2>1 DEF KeysHold
  <2> QED BY <1>3, <2>1, <2>2, SeasonIssued
<1>6. \A q \in reqs \ {r} : ~Idle(q) => Into(q) \in passed \/ sOf[Into(q)] \in {q.proj, None}
  <2> SUFFICES ASSUME NEW q \in reqs \ {r}, ~Idle(q)
               PROVE  Into(q) \in passed \/ sOf[Into(q)] \in {q.proj, None}
    OBVIOUS
  <2>1. Into(q) \in passed \/ seasonOf[Into(q)] \in {q.proj, None}
    BY DEF AgreeInv, ReadAgrees, Idle
  <2>2. Into(q) \in Seasons
    BY DEF TreeInv, ReqOK, AboutRows, Into, Idle, Enters
  <2> QED BY <1>3, <2>1, <2>2
<1>7. Commit(r, P, sOf, cOf, {})
  BY <1>2 DEF sOf, cOf
<1> QED BY <1>1, <1>4, <1>5, <1>6, <1>7, CommitAgrees

\* A season that moves takes its chapters along, and is passed if a chapter is about to enter
\* it; a chapter that moves takes the work that was read for its new season.
LEMMA MoveAgrees ==
    ASSUME TreeAssumption, TreeInv, AgreeInv, NEW r \in reqs, ServeMove(r)
    PROVE  AgreeInv'
<1>1. ReqOK(r) /\ r \in Request /\ TablesOK /\ NoOrphans
  BY DEF TreeInv, ReqOK
<1>2. CASE r.op = "moveSeason"
  <2> DEFINE sOf == IF r.id \in LiveSeasons THEN [seasonOf EXCEPT ![r.id] = r.to] ELSE seasonOf
             cOf == [c \in Chapters |-> IF c \in ChaptersIn(r.id)
                                        THEN [chapterOf[c] EXCEPT !.proj = r.to] ELSE chapterOf[c]]
  <2>1. Commit(r, projects, sOf, cOf, {}) /\ Pass(r)
    BY <1>2 DEF ServeMove
  <2>2. PICK by : by = passed'
    OBVIOUS
  <2>3. r.id \in Seasons /\ r.to \in Projects /\ r.id # None /\ r.to # None
    BY <1>1, <1>2 DEF ReqOK, AboutRows, TreeAssumption
  <2>4. /\ \A s \in Seasons \ {r.id} : sOf[s] = seasonOf[s]
        /\ sOf[r.id] # None => r.id \in LiveSeasons
        /\ r.id \in LiveSeasons => sOf[r.id] = r.to
    BY <1>1, <2>3 DEF TablesOK, LiveSeasons
  <2>5. /\ \A c \in ChaptersIn(r.id) : /\ cOf[c].season = r.id /\ cOf[c].proj = r.to
                                        /\ chapterOf[c] # NoRow /\ r.id \in LiveSeasons
        /\ \A c \in Chapters \ ChaptersIn(r.id) : cOf[c] = chapterOf[c] /\ chapterOf[c].season # r.id
    <3>1. ASSUME NEW c \in ChaptersIn(r.id)
          PROVE  /\ cOf[c].season = r.id /\ cOf[c].proj = r.to
                 /\ chapterOf[c] # NoRow /\ r.id \in LiveSeasons
      <4>1. c \in Chapters /\ chapterOf[c].season = r.id /\ chapterOf[c] # NoRow
        BY <2>3 DEF ChaptersIn, NoRow
      <4>2. r.id \in LiveSeasons
        BY <2>3, <4>1, SeasonIssued DEF LiveSeasons
      <4>3. chapterOf[c] \in [season : Seasons \cup {None}, proj : Projects \cup {None}]
        BY <1>1, <4>1 DEF TablesOK
      <4>4. cOf[c] = [chapterOf[c] EXCEPT !.proj = r.to]
        BY <4>1
      <4> QED BY <4>1, <4>2, <4>3, <4>4
    <3>2. \A c \in Chapters \ ChaptersIn(r.id) : cOf[c] = chapterOf[c] /\ chapterOf[c].season # r.id
      BY DEF ChaptersIn
    <3> QED BY <3>1, <3>2
  <2> HIDE DEF sOf, cOf
  <2>6. \A s \in Seasons : sOf[s] # None => s \in issued
    BY <2>4 DEF AgreeInv, LiveSeasons
  <2>7. r.to \in projects => KeysHold(projects, sOf, cOf)
    <3> SUFFICES ASSUME r.to \in projects PROVE KeysHold(projects, sOf, cOf)
      OBVIOUS
    <3>1. \A s \in Seasons : sOf[s] \in projects \cup {None}
      BY <1>1, <2>4 DEF NoOrphans, KeysHold
    <3>2. ASSUME NEW c \in Chapters, cOf[c] # NoRow
          PROVE  sOf[cOf[c].season] # None /\ cOf[c].proj \in projects
      <4>1. CASE c \in ChaptersIn(r.id)
        BY <2>3, <2>4, <2>5, <4>1
      <4>2. CASE c \notin ChaptersIn(r.id)
        BY <1>1, <2>4, <2>5, <3>2, <4>2, SeasonIssued DEF NoOrphans, KeysHold
      <4> QED BY <4>1, <4>2
    <3> QED BY <3>1, <3>2 DEF KeysHold
  <2>8. CASE r.to \notin projects
    <3>1. by = passed
      BY <2>1, <2>2, <2>8 DEF Pass
    <3>2. KeysHold(projects, sOf, cOf) => sOf = seasonOf /\ cOf = chapterOf
      <4> SUFFICES ASSUME KeysHold(projects, sOf, cOf) PROVE sOf = seasonOf /\ cOf = chapterOf
        OBVIOUS
      <4>1. r.id \notin LiveSeasons
        BY <2>3, <2>4, <2>8 DEF KeysHold
      <4>2. \A c \in Chapters : c \notin ChaptersIn(r.id)
        BY <2>5, <4>1
      <4> QED BY <1>1, <4>1, <4>2 DEF TablesOK, sOf, cOf
    <3>3. KeysHold(projects, sOf, cOf) =>
              \A c \in Chapters : cOf[c] # NoRow => cOf[c].season \in by \/ cOf[c].proj = sOf[cOf[c].season]
      BY <3>1, <3>2, SeasonIssued
    <3>4. KeysHold(projects, sOf, cOf) =>
              \A q \in reqs \ {r} : ~Idle(q) => Into(q) \in by \/ sOf[Into(q)] \in {q.proj, None}
      BY <3>1, <3>2 DEF AgreeInv, ReadAgrees, Idle
    <3> QED BY <1>1, <2>1, <2>2, <2>6, <3>1, <3>3, <3>4, CommitAgrees
  <2>9. CASE r.to \in projects
    <3>1. /\ \A s : s # r.id => (s \in by <=> s \in passed)
          /\ (\E q \in reqs : Enters(q) /\ Into(q) = r.id) => r.id \in by
      BY <2>1, <2>2, <2>9 DEF Pass
    <3>2. ASSUME NEW c \in Chapters, cOf[c] # NoRow
          PROVE  cOf[c].season \in by \/ cOf[c].proj = sOf[cOf[c].season]
      <4>1. CASE c \in ChaptersIn(r.id)
        BY <2>4, <2>5, <4>1
      <4>2. CASE c \notin ChaptersIn(r.id)
        BY <2>4, <2>5, <3>1, <3>2, <4>2, SeasonIssued
      <4> QED BY <4>1, <4>2
    <3>3. ASSUME NEW q \in reqs \ {r}, ~Idle(q)
          PROVE  Into(q) \in by \/ sOf[Into(q)] \in {q.proj, None}
      <4>1. Into(q) \in Seasons /\ Enters(q)
        BY <3>3 DEF TreeInv, ReqOK, AboutRows, Into, Idle, Enters
      <4>2. Into(q) \in passed \/ seasonOf[Into(q)] \in {q.proj, None}
        BY <4>1 DEF AgreeInv, ReadAgrees
      <4> QED BY <2>4, <3>1, <4>1, <4>2
    <3> QED BY <1>1, <2>1, <2>2, <2>6, <2>7, <2>9, <3>2, <3>3, CommitAgrees
  <2> QED BY <2>8, <2>9
<1>3. CASE r.op = "moveChapter"
  <2> DEFINE cOf == IF r.id \in LiveChapters
                    THEN [chapterOf EXCEPT ![r.id] = [season |-> r.to, proj |-> r.proj]]
                    ELSE chapterOf
  <2>1. Commit(r, projects, seasonOf, cOf, {}) /\ r.st = "read" /\ UNCHANGED passed
    BY <1>3 DEF ServeMove
  <2>2. (r.to \in passed \/ seasonOf[r.to] \in {r.proj, None}) /\ r.proj \in Projects
    BY <1>1, <1>3, <2>1 DEF AgreeInv, ReadAgrees, Into, ReqOK, HasRead, Enters
  <2>3. \A s \in Seasons : seasonOf[s] # None => s \in issued
    BY DEF AgreeInv, LiveSeasons
  <2>4. ASSUME KeysHold(projects, seasonOf, cOf), NEW c \in Chapters, cOf[c] # NoRow
        PROVE  cOf[c].season \in passed \/ cOf[c].proj = seasonOf[cOf[c].season]
    <3>1. CASE c = r.id /\ r.id \in LiveChapters
      <4>1. cOf[c] = [season |-> r.to, proj |-> r.proj]
        BY <1>1, <3>1 DEF TablesOK
      <4>2. seasonOf[cOf[c].season] # None
        BY <2>4 DEF KeysHold
      <4> QED BY <2>2, <4>1, <4>2
    <3>2. CASE ~(c = r.id /\ r.id \in LiveChapters)
      <4>1. cOf[c] = chapterOf[c]
        BY <1>1, <3>2 DEF TablesOK
      <4> QED BY <2>4, <4>1, SeasonIssued
    <3> QED BY <3>1, <3>2
  <2>5. \A q \in reqs \ {r} : ~Idle(q) => Into(q) \in passed \/ seasonOf[Into(q)] \in {q.proj, None}
    BY DEF AgreeInv, ReadAgrees, Idle
  <2> HIDE DEF cOf
  <2> QED BY <1>1, <2>1, <2>3, <2>4, <2>5, CommitAgrees
<1> QED BY <1>2, <1>3 DEF ServeMove

LEMMA ReadStays ==
    ASSUME TreeInv, AgreeInv, NEW r \in reqs, ServeRead(r), UNCHANGED passed
    PROVE  AgreeInv'
<1>1. r \in Request /\ NoOrphans /\ UNCHANGED tables
  BY DEF TreeInv, ReqOK, ServeRead
<1>2. PICK st : st = IF r.op = "open" /\ r.id \notin LiveChapters THEN "no" ELSE "ok"
  OBVIOUS
<1>3. PICK ss, cs, was : Becomes(r, [r EXCEPT !.st = st, !.ss = ss, !.cs = cs, !.was = was])
  BY <1>2, Zenon DEF ServeRead
<1>4. [r EXCEPT !.st = st, !.ss = ss, !.cs = cs, !.was = was].st \in {"ok", "no"}
  BY <1>1, <1>2 DEF Request
<1>5. \A q \in reqs' : q \in reqs \/ Idle(q)
  BY <1>3, <1>4 DEF Becomes, Idle, Enters
<1> QED BY <1>1, <1>5, StillAgree

\* Whatever the page and the other client send has read nothing yet.
LEMMA SentIdle ==
    ASSUME NEW by, NEW op, NEW id, NEW to, NEW x
    PROVE  /\ Idle(Ask(by, op, id, to)) /\ Idle(Get(op, id))
           /\ Idle([Ask(by, op, id, to) EXCEPT !.top = x])
           /\ Idle([Ask(by, op, id, to) EXCEPT !.up = x])
           /\ Idle([Get(op, id) EXCEPT !.top = x])
           /\ Idle([Get(op, id) EXCEPT !.up = x])
           /\ Idle([Get(op, id) EXCEPT !.new = x])
BY DEF Idle, Enters, Ask, Get

LEMMA ClickStays ==
    ASSUME TreeInv, AgreeInv, Click
    PROVE  AgreeInv'
<1>1. NoOrphans
  BY DEF TreeInv
<1>2. ASSUME NEW q, Idle(q), Send(q) PROVE AgreeInv'
  BY <1>1, <1>2, StillAgree DEF Send, Act
<1>3. CASE OnProjects
  BY <1>2, <1>3, SentIdle DEF OnProjects
<1>4. ASSUME NEW p \in Projects, ToggleProject(p) PROVE AgreeInv'
  <2>1. UNCHANGED tables /\ UNCHANGED passed
    BY <1>4 DEF ToggleProject, Act
  <2>2. PICK Q : reqs' = reqs \cup {Get("seasons", x) : x \in Q}
    <3>1. CASE p \in expProj
      BY <1>4, <3>1 DEF ToggleProject
    <3>2. CASE p \notin expProj
      <4>1. reqs' = reqs \cup {Get("seasons", x) : x \in {p}}
        BY <1>4, <3>2 DEF ToggleProject
      <4> QED BY <4>1
    <3> QED BY <3>1, <3>2
  <2>3. \A x \in Q : Idle(Get("seasons", x))
    BY SentIdle
  <2>4. \A q \in reqs' : q \in reqs \/ Idle(q)
    BY <2>2, <2>3
  <2> QED BY <1>1, <2>1, <2>4, StillAgree
<1>5. ASSUME NEW s \in Seasons, ToggleSeason(s) PROVE AgreeInv'
  <2>1. UNCHANGED tables /\ UNCHANGED passed
    BY <1>5 DEF ToggleSeason, Act
  <2>2. \A q \in reqs' : q \in reqs \/ Idle(q)
    <3>1. Idle(Get("chapters", s))
      BY SentIdle
    <3> QED BY <1>5, <3>1 DEF ToggleSeason
  <2> QED BY <1>1, <2>1, <2>2, StillAgree
<1>6. ASSUME NEW s, NEW p, OnSeason(s, p) PROVE AgreeInv'
  BY <1>2, <1>6, SentIdle DEF OnSeason
<1>7. ASSUME NEW c, NEW s, NEW p, OnChapter(c, s, p) PROVE AgreeInv'
  BY <1>2, <1>7, SentIdle DEF OnChapter
<1> QED BY <1>3, <1>4, <1>5, <1>6, <1>7 DEF Click

LEMMA AnsweredStays ==
    ASSUME TreeInv, AgreeInv, NEW r \in reqs, Answered(r)
    PROVE  AgreeInv'
<1>1. NoOrphans /\ UNCHANGED tables /\ UNCHANGED passed
  BY DEF TreeInv, Answered
<1>2. ASSUME NEW G, Then(r, G), \A q \in G : Idle(q) PROVE AgreeInv'
  BY <1>1, <1>2, StillAgree DEF Then
<1>3. CASE Refused(r)
  BY <1>2, <1>3 DEF Refused
<1>4. CASE Added(r)
  <2>1. /\ Idle(Get("projects", None)) /\ Idle(Get("seasons", r.id))
        /\ Idle([Get("chapters", r.id) EXCEPT !.new = r.new])
    BY SentIdle
  <2> QED BY <1>2, <1>4, <2>1 DEF Added
<1>5. CASE Renamed(r)
  <2>1. /\ Idle(Get("projects", None)) /\ Idle(Get("seasons", r.top)) /\ Idle(Get("chapters", r.up))
    BY SentIdle
  <2> QED BY <1>2, <1>5, <2>1 DEF Renamed
<1>6. CASE Deleted(r)
  <2>1. /\ Idle(Get("projects", None)) /\ Idle(Get("seasons", r.top))
        /\ Idle(Get("chapters", r.up)) /\ \A q : Idle(Get("seasons", q))
    BY SentIdle
  <2>2. CASE r.op = "delProject"
    <3>1. PICK Q : Then(r, {Get("projects", None)} \cup {Get("seasons", q) : q \in Q})
      BY <1>6, <2>2 DEF Deleted
    <3> QED BY <1>2, <2>1, <3>1
  <2>3. CASE r.op # "delProject"
    BY <1>2, <1>6, <2>1, <2>3 DEF Deleted
  <2> QED BY <2>2, <2>3
<1>7. CASE Moved(r)
  <2>1. /\ Idle(Get("seasons", r.top)) /\ Idle(Get("seasons", r.to))
        /\ Idle(Get("chapters", r.up)) /\ Idle(Get("chapters", r.to))
    BY SentIdle
  <2> QED BY <1>2, <1>7, <2>1 DEF Moved
<1>8. CASE Loaded(r)
  <2>1. Idle(Get("open", r.new)) /\ \A q : Idle(Get("seasons", q))
    BY SentIdle
  <2>2. CASE r.op = "projects"
    <3>1. PICK Q : Then(r, {Get("seasons", q) : q \in Q})
      BY <1>8, <2>2 DEF Loaded
    <3> QED BY <1>2, <2>1, <3>1
  <2>3. CASE r.op = "chapters"
    <3>1. Then(r, IF r.new = None THEN {} ELSE {Get("open", r.new)})
      BY <1>8, <2>3 DEF Loaded
    <3> QED BY <1>2, <2>1, <3>1
  <2>4. CASE r.op \in {"seasons", "open"}
    <3>1. Then(r, {})
      BY <1>8, <2>4 DEF Loaded
    <3> QED BY <1>2, <3>1
  <2> QED BY <1>8, <2>2, <2>3, <2>4 DEF Loaded
<1> QED BY <1>3, <1>4, <1>5, <1>6, <1>7, <1>8 DEF Answered

LEMMA NextAgrees ==
    ASSUME TreeAssumption, TreeInv, AgreeInv, [Next]_vars
    PROVE  AgreeInv'
<1>1. CASE Click
  BY <1>1, ClickStays
<1>2. CASE OtherAsks
  <2>1. PICK op, id, to : reqs' = reqs \cup {Ask("other", op, id, to)}
    BY <1>2 DEF OtherAsks
  <2>2. Idle(Ask("other", op, id, to))
    BY SentIdle
  <2>3. UNCHANGED tables /\ UNCHANGED passed /\ NoOrphans
    BY <1>2 DEF OtherAsks, TreeInv
  <2> QED BY <2>1, <2>2, <2>3, StillAgree
<1>3. ASSUME NEW r \in reqs, Serve(r) PROVE AgreeInv'
  BY <1>3, SelectAgrees, AddAgrees, DeleteAgrees, MoveAgrees, ReadStays DEF Serve
<1>4. CASE UNCHANGED vars
  BY <1>4, StillAgree DEF vars, TreeInv
<1> QED BY <1>1, <1>2, <1>3, <1>4, AnsweredStays DEF Next

LEMMA InitAgrees == ASSUME TreeAssumption, Init PROVE AgreeInv
<1>1. PICK of \in [Chapters -> {s \in Seasons : seasonOf[s] # None} \cup {None}] :
         chapterOf = [c \in Chapters |->
             IF of[c] = None THEN NoRow ELSE [season |-> of[c], proj |-> seasonOf[of[c]]]]
  BY DEF Init
<1>2. AgreeUnlessPassed
  BY <1>1 DEF AgreeUnlessPassed, LiveChapters
<1>3. ReadAgrees /\ LiveSeasons \subseteq issued
  BY DEF Init, ReadAgrees, Enters, Get, Ask
<1> QED BY <1>2, <1>3 DEF AgreeInv

\* A chapter belongs to the work of its season, however the requests of both clients are
\* interleaved (repo.py, move_season, move_chapter, create_chapter and the deletions), unless
\* the season moved between the SELECT and the write of a request that put a chapter in it.
THEOREM ChaptersFollow == Spec => []AgreeUnlessPassed
<1>1. Init => AgreeInv
  BY InitAgrees, TreeAssumption
<1>2. TreeInv /\ AgreeInv /\ [Next]_vars => AgreeInv'
  BY NextAgrees, TreeAssumption
<1>3. AgreeInv => AgreeUnlessPassed
  BY DEF AgreeInv
<1> QED BY <1>1, <1>2, <1>3, TreeInvHolds, PTL DEF Spec
=============================================================================

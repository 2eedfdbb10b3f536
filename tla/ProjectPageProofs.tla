-------------------------- MODULE ProjectPageProofs -------------------------
(***************************************************************************)
(* What is proved of the explorer of ProjectTree while nobody else works   *)
(* on the tables and the user waits for the page: the unfolded tree shows  *)
(* the tables, and the open chapter is closed exactly when it is deleted.  *)
(***************************************************************************)
EXTENDS ProjectTreeProofs

(***************************************************************************)
(* The invariant.  There is one edit under way and nothing else, or there  *)
(* are reads; so what a request has read is what the tables hold.          *)
(***************************************************************************)
Serial ==
    /\ \A r \in reqs : r.by = "page"
    /\ \A r \in reqs : r.op \in Edits => reqs = {r} /\ r.was = active

\* What a request has read, and what its answer says.
Told(r) ==
    /\ r.st \in {"half", "read"} => r.op \in Edits
    /\ r.st = "half" => r.op = "delProject" /\ r.ss = SeasonsIn(r.id)
    /\ r.st = "no" => r.op \in Edits \cup {"open"}
    /\ r.st = "ok" =>
         /\ r.op = "projects"    => r.ss = projects
         /\ r.op = "seasons"     => r.ss = SeasonsIn(r.id)
         /\ r.op = "chapters"    => r.cs = Refs(ChaptersIn(r.id))
         /\ r.op = "open"        => /\ r.id \in LiveChapters
                                    /\ r.was = [id |-> r.id, season |-> chapterOf[r.id].season,
                                                proj |-> chapterOf[r.id].proj]
         /\ r.op = "moveChapter" => (r.id \in LiveChapters => chapterOf[r.id].season = r.to)
    /\ r.st = "read" =>
         /\ r.op \in {"addChapter", "moveChapter"} =>
                Into(r) \in LiveSeasons /\ r.proj = seasonOf[Into(r)]
         /\ r.op = "delSeason" => r.ss = {r.id} /\ r.cs = Refs(ChaptersIn(r.id))
         /\ r.op = "delProject" =>
                r.ss = SeasonsIn(r.id) /\ r.cs = Refs({c \in Chapters : chapterOf[c].proj = r.id})

\* An edit was clicked on a row that showed where it is.
Clicked(r) ==
    r.st \in {"sent", "half", "read"} =>
        /\ r.op \in {"delSeason", "moveSeason"}   => r.id \in LiveSeasons /\ r.top = seasonOf[r.id]
        /\ r.op \in {"delChapter", "moveChapter"} => /\ r.id \in LiveChapters
                                                     /\ r.up = chapterOf[r.id].season
        /\ r.op = "moveChapter" /\ ~moved         => seasonOf[r.to] = chapterOf[r.id].proj

\* What is unfolded or will be is a row that was there once.
Wanted(r) ==
    /\ r.op \in {"addSeason", "addChapter"}   => r.id \in issued
    /\ r.op \in {"moveSeason", "moveChapter"} => r.to \in issued

Known ==
    /\ projects \cup LiveSeasons \cup LiveChapters \subseteq issued
    /\ shown \cup expProj \cup expSeason \subseteq issued
    /\ \A p \in Projects : seasonsBy[p] \subseteq issued

\* Will the list be loaded again?
ProjectsDue ==
    \E r \in reqs : r.op = "projects" \/ (r.st = "ok" /\ r.op \in {"addProject", "delProject"})
SeasonsDue(p) ==
    \E r \in reqs :
        \/ r.op = "seasons" /\ r.id = p
        \/ r.st = "ok" /\ r.op \in {"addSeason", "delProject"} /\ r.id = p
        \/ r.st = "ok" /\ r.op \in {"delSeason", "moveSeason"} /\ r.top = p
        \/ r.st = "ok" /\ r.op = "moveSeason" /\ r.to = p
ChaptersDue(s) ==
    \E r \in reqs :
        \/ r.op = "chapters" /\ r.id = s
        \/ r.st = "ok" /\ r.op = "addChapter" /\ r.id = s
        \/ r.st = "ok" /\ r.op \in {"delChapter", "moveChapter"} /\ r.up = s
        \/ r.st = "ok" /\ r.op = "moveChapter" /\ r.to = s

SeasonMoves(s) == \E r \in reqs : r.st = "ok" /\ r.op = "moveSeason" /\ r.id = s

ListsOK ==
    /\ shown = projects \/ ProjectsDue
    /\ \A p \in expProj : seasonsBy[p] = SeasonsIn(p) \/ SeasonsDue(p)
    /\ \A s \in expSeason \cap LiveSeasons :
         \/ ChaptersDue(s)
         \/ /\ IdsOf(chBySeason[s]) = ChaptersIn(s)
            /\ \/ moved \/ SeasonMoves(s)
               \/ \A x \in chBySeason[s] : x.proj = seasonOf[s]

\* Is the open chapter among those that the deletion has taken?
Takes(r) ==
    /\ r.st = "ok"
    /\ \/ r.op = "delProject" /\ active.proj = r.id
       \/ r.op = "delSeason"  /\ active.season = r.id
       \/ r.op = "delChapter" /\ active.id = r.id

OpenOK ==
    ~moved /\ active # NoChapter =>
        /\ active.id \in LiveChapters <=> \A r \in reqs : ~Takes(r)
        /\ active.id \in LiveChapters =>
             /\ \/ active.season = chapterOf[active.id].season
                \/ \E r \in reqs : r.st = "ok" /\ r.op = "moveChapter" /\ r.id = active.id
             /\ active.proj = chapterOf[active.id].proj \/ SeasonMoves(active.season)

AloneInv ==
    /\ Serial /\ Known
    /\ \A r \in reqs : Told(r) /\ Clicked(r) /\ Wanted(r)
    /\ ListsOK /\ OpenOK /\ ProjectAgrees

PageInv == news = 0 => AloneInv

-----------------------------------------------------------------------------
\* A request to load something, just sent.
Pure(q) == q.by = "page" /\ q.op \in Reads /\ q.st = "sent"

LEMMA GetsPure ==
    ASSUME NEW op \in Reads, NEW id
    PROVE  /\ Pure(Get(op, id)) /\ Get(op, id).op = op /\ Get(op, id).id = id
           /\ \A c : /\ Pure([Get(op, id) EXCEPT !.new = c])
                     /\ [Get(op, id) EXCEPT !.new = c].op = op
                     /\ [Get(op, id) EXCEPT !.new = c].id = id
BY DEF Get, Ask, Pure, Reads

LEMMA ReadsAndEdits == Reads \cap Edits = {}
BY DEF Reads, Edits, Moves

\* Reads at work do not disturb each other.
LEMMA OnlyReads ==
    ASSUME AloneInv, UNCHANGED tables, \A q \in reqs' : Pure(q) \/ (q \in reqs /\ q.op \in Reads)
    PROVE  /\ Serial' /\ ProjectAgrees'
           /\ \A q \in reqs' : Told(q)' /\ Clicked(q)' /\ Wanted(q)'
<1>1. ProjectAgrees'
  BY DEF AloneInv, ProjectAgrees, tables, LiveChapters
<1>2. \A q \in reqs' : q.op \in Reads /\ q.op \notin Edits /\ q.by = "page"
  BY ReadsAndEdits DEF AloneInv, Serial, Pure
<1>3. ASSUME NEW q \in reqs' PROVE Told(q)' /\ Clicked(q)' /\ Wanted(q)'
  <2>1. q.op \in {"projects", "seasons", "chapters", "open"}
    BY <1>2 DEF Reads
  <2>2. Clicked(q)' /\ Wanted(q)'
    BY <2>1 DEF Clicked, Wanted
  <2>3. CASE q.st = "sent"
    BY <2>2, <2>3 DEF Told
  <2>4. CASE q \in reqs
    <3>1. Told(q)
      BY <2>4 DEF AloneInv
    <3>2. Told(q)'
      BY <3>1 DEF Told, tables, SeasonsIn, ChaptersIn, Refs, LiveChapters, Into, LiveSeasons
    <3> QED BY <2>2, <3>2
  <2> QED BY <2>2, <2>3, <2>4 DEF Pure
<1> QED BY <1>1, <1>2, <1>3 DEF Serial

\* A request that reads, fails or has nothing to tell changes nothing but itself.
Same(r, q) ==
    /\ q.by = r.by /\ q.op = r.op /\ q.id = r.id /\ q.to = r.to /\ q.top = r.top /\ q.up = r.up
    /\ r.op \in Edits => q.was = r.was

LEMMA SameTables ==
    ASSUME AloneInv, NEW r \in reqs, NEW q, Same(r, q), r.st \in {"sent", "half", "read"},
           q.st = "ok" => r.op \in Reads \cup {"rename"},
           q.st \in {"half", "read", "ok", "no"}, Told(q), Clicked(q),
           UNCHANGED tables, UNCHANGED page, Becomes(r, q)
    PROVE  AloneInv'
<1>1. reqs' = (reqs \ {r}) \cup {q} /\ q.by = "page"
  BY DEF AloneInv, Serial, Becomes, Same
<1>2. Serial'
  BY <1>1 DEF AloneInv, Serial, Same, page
<1>3. Known' /\ ProjectAgrees'
  BY DEF AloneInv, Known, ProjectAgrees, tables, page, LiveSeasons, LiveChapters
<1>4. ASSUME NEW x \in reqs' PROVE Told(x)' /\ Clicked(x)' /\ Wanted(x)'
  <2>1. Told(x) /\ Clicked(x) /\ Wanted(x)
    BY <1>1 DEF AloneInv, Wanted, Same
  <2>2. Told(x)'
    BY <2>1 DEF Told, tables, SeasonsIn, ChaptersIn, Refs, LiveChapters, Into, LiveSeasons
  <2>3. Clicked(x)' /\ Wanted(x)'
    BY <2>1 DEF Clicked, Wanted, tables, page, LiveSeasons, LiveChapters
  <2> QED BY <2>2, <2>3
<1>5. /\ ProjectsDue => ProjectsDue'
      /\ \A p : SeasonsDue(p) => SeasonsDue(p)'
      /\ \A s : ChaptersDue(s) => ChaptersDue(s)'
      /\ \A s : SeasonMoves(s) => SeasonMoves(s)'
  BY <1>1 DEF ProjectsDue, SeasonsDue, ChaptersDue, SeasonMoves, Same
<1>6. ListsOK'
  BY <1>5 DEF AloneInv, ListsOK, tables, page, SeasonsIn, ChaptersIn, LiveSeasons
<1>7. /\ (\A x \in reqs : ~Takes(x)) <=> (\A x \in reqs' : ~Takes(x)')
      /\ \A c : (\E x \in reqs : x.st = "ok" /\ x.op = "moveChapter" /\ x.id = c)
                  => (\E x \in reqs' : x.st = "ok" /\ x.op = "moveChapter" /\ x.id = c)
  BY <1>1 DEF Takes, page, Same, Reads
<1>8. OpenOK'
  BY <1>5, <1>7 DEF AloneInv, OpenOK, tables, page, LiveChapters
<1> QED BY <1>2, <1>3, <1>4, <1>6, <1>8 DEF AloneInv

(***************************************************************************)
(* An edit at the server.                                                  *)
(***************************************************************************)
\* Nothing is due: the lists and the open chapter are those of the tables.
Clean ==
    /\ shown = projects
    /\ \A p \in expProj : seasonsBy[p] = SeasonsIn(p)
    /\ \A s \in expSeason \cap LiveSeasons :
         /\ IdsOf(chBySeason[s]) = ChaptersIn(s)
         /\ moved \/ \A x \in chBySeason[s] : x.proj = seasonOf[s]
    /\ ~moved /\ active # NoChapter =>
         /\ active.id \in LiveChapters
         /\ active.season = chapterOf[active.id].season /\ active.proj = chapterOf[active.id].proj

LEMMA AtRest ==
    ASSUME AloneInv, \A r \in reqs : r.op \in Edits /\ r.st \in {"sent", "half", "read"}
    PROVE  Clean
<1>1. \A r \in reqs : r.op \notin Reads /\ r.st # "ok"
  BY ReadsAndEdits
<1>2. /\ ~ProjectsDue /\ (\A p : ~SeasonsDue(p)) /\ (\A s : ~ChaptersDue(s) /\ ~SeasonMoves(s))
      /\ \A r \in reqs : ~Takes(r)
  BY <1>1 DEF ProjectsDue, SeasonsDue, ChaptersDue, SeasonMoves, Takes, Reads
<1>3. \A r \in reqs : ~(r.st = "ok" /\ r.op = "moveChapter")
  BY <1>1
<1> QED BY <1>2, <1>3 DEF AloneInv, ListsOK, OpenOK, Clean

LEMMA WithAnswer ==
    ASSUME NEW r \in Request, NEW st
    PROVE  /\ Same(r, [r EXCEPT !.st = st])
           /\ [r EXCEPT !.st = st].st = st
BY DEF Request, Same

\* An edit that fails.
LEMMA NotDone ==
    ASSUME TreeInv, AloneInv, NEW r \in reqs, r.op \in Edits, r.st \in {"sent", "half", "read"},
           Answer(r, "no"), UNCHANGED tables, UNCHANGED page
    PROVE  AloneInv'
<1> DEFINE q == [r EXCEPT !.st = "no"]
<1>1. r \in Request
  BY DEF TreeInv, ReqOK
<1>2. Same(r, q) /\ q.st = "no"
  BY <1>1, WithAnswer
<1>3. Becomes(r, q)
  BY DEF Answer
<1> HIDE DEF q
<1>4. Told(q) /\ Clicked(q)
  BY <1>2 DEF Told, Clicked, Same
<1> QED BY <1>2, <1>3, <1>4, SameTables

\* What holds of one that is done, whatever it was.
LEMMA Done ==
    ASSUME AloneInv, NEW r \in reqs, r.op \in Edits, NEW q, Same(r, q), q.st = "ok",
           Becomes(r, q), UNCHANGED page, issued \subseteq issued',
           r.op = "moveChapter" /\ r.id \in LiveChapters' => chapterOf'[r.id].season = r.to,
           (projects \cup LiveSeasons \cup LiveChapters)' \subseteq issued'
    PROVE  /\ reqs = {r} /\ reqs' = {q}
           /\ Serial' /\ Known'
           /\ \A x \in reqs' : Told(x)' /\ Clicked(x)' /\ Wanted(x)'
<1>1. reqs = {r} /\ r.by = "page" /\ r.was = active /\ Wanted(r)
  BY DEF AloneInv, Serial
<1>2. reqs' = {q} /\ q.by = "page"
  BY <1>1 DEF Becomes, Same
<1>3. Serial'
  BY <1>1, <1>2 DEF Serial, Same, page
<1>4. Known'
  BY DEF AloneInv, Known, page
<1>5. q.op \notin Reads
  BY ReadsAndEdits DEF Same
<1>6. Told(q)' /\ Clicked(q)' /\ Wanted(q)'
  BY <1>1, <1>5 DEF Told, Clicked, Wanted, Same, Reads
<1> QED BY <1>1, <1>2, <1>3, <1>4, <1>6

\* When a commit goes through.
LEMMA CommitCases ==
    ASSUME TreeInv, AloneInv, NEW r \in reqs, r.op \in Edits, r.st \in {"sent", "half", "read"},
           NEW P, NEW sOf, NEW cOf, NEW new, Commit(r, P, sOf, cOf, new), UNCHANGED page
    PROVE  \/ AloneInv'
           \/ /\ KeysHold(P, sOf, cOf)
              /\ projects' = P /\ seasonOf' = sOf /\ chapterOf' = cOf
              /\ issued' = issued \cup (new \ {None})
              /\ \E q : Same(r, q) /\ q.st = "ok" /\ Becomes(r, q)
<1>1. CASE KeysHold(P, sOf, cOf)
  <2>1. r \in Request
    BY DEF TreeInv, ReqOK
  <2>2. Same(r, [r EXCEPT !.st = "ok"]) /\ [r EXCEPT !.st = "ok"].st = "ok"
    BY <2>1, WithAnswer
  <2> QED BY <1>1, <2>2 DEF Commit, Answer
<1>2. CASE ~KeysHold(P, sOf, cOf)
  BY <1>2, NotDone DEF Commit
<1> QED BY <1>1, <1>2

LEMMA RefsIds == ASSUME NEW C PROVE IdsOf(Refs(C)) = C
<1> DEFINE row(c) == [id |-> c, proj |-> chapterOf[c].proj]
<1>1. \A c : row(c).id = c
  OBVIOUS
<1>2. Refs(C) = {row(c) : c \in C}
  BY DEF Refs
<1> HIDE DEF row
<1>3. \A x : x \in Refs(C) <=> \E c \in C : x = row(c)
  BY <1>2
<1>4. \A i : i \in IdsOf(Refs(C)) <=> \E x \in Refs(C) : i = x.id
  BY DEF IdsOf
<1> QED BY <1>1, <1>3, <1>4

\* A request of the page before it is done, and what goes with it.
Before(r) ==
    /\ r \in reqs /\ ReqOK(r) /\ r.by = "page" /\ r.op \in Edits /\ r.st \in {"sent", "half", "read"}
    /\ reqs = {r} /\ Told(r) /\ Clicked(r) /\ Wanted(r) /\ Clean
    /\ TablesOK /\ PageOK /\ NoOrphans /\ ProjectAgrees /\ Known

LEMMA BeforeEdit ==
    ASSUME TreeInv, AloneInv, NEW r \in reqs, r.op \in Edits, r.st \in {"sent", "half", "read"}
    PROVE  Before(r)
<1>1. reqs = {r} /\ r.by = "page"
  BY DEF AloneInv, Serial
<1>2. Clean
  BY <1>1, AtRest
<1> QED BY <1>1, <1>2 DEF Before, AloneInv, TreeInv

\* The open chapter and the lists when no deletion and no move is done.
LEMMA ServeAddAlone ==
    ASSUME TreeInv, TreeInv', AloneInv, NEW r \in reqs, ServeAdd(r), UNCHANGED page
    PROVE  AloneInv'
<1>1. Before(r)
  BY BeforeEdit DEF ServeAdd, Edits
<1>2. PICK p \in IF r.op = "addProject" THEN Fresh(Projects) ELSE {r.id}, s \in Fresh(Seasons) :
         Commit(r, IF r.op = "addProject" THEN projects \cup {p} ELSE projects,
                [seasonOf EXCEPT ![s] = p], chapterOf,
                IF r.op = "addProject" THEN {p, s} ELSE {s})
  BY DEF ServeAdd
<1>3. p \in Projects /\ s \in Seasons /\ s \notin issued /\ (r.op = "addProject" => p \notin issued)
  BY <1>1 DEF Fresh, ServeAdd, Before, ReqOK, AboutRows
<1>4. CASE KeysHold(IF r.op = "addProject" THEN projects \cup {p} ELSE projects,
                    [seasonOf EXCEPT ![s] = p], chapterOf)
           /\ projects' = (IF r.op = "addProject" THEN projects \cup {p} ELSE projects)
           /\ seasonOf' = [seasonOf EXCEPT ![s] = p] /\ chapterOf' = chapterOf
           /\ issued' = issued \cup ((IF r.op = "addProject" THEN {p, s} ELSE {s}) \ {None})
           /\ \E q : Same(r, q) /\ q.st = "ok" /\ Becomes(r, q)
  <2>1. PICK q : Same(r, q) /\ q.st = "ok" /\ Becomes(r, q)
    BY <1>4
  <2>2. seasonOf \in [Seasons -> Projects \cup {None}] /\ s \notin LiveSeasons
    BY <1>1, <1>3 DEF Before, TablesOK, Known
  <2>3. seasonOf[s] = None /\ p # None /\ s # None
    BY <1>3, <2>2, TreeAssumption DEF LiveSeasons, TreeAssumption
  <2>4. LiveSeasons' = LiveSeasons \cup {s} /\ LiveChapters' = LiveChapters
    BY <1>3, <1>4, <2>2, <2>3 DEF LiveSeasons, LiveChapters
  <2>5. /\ \A y \in Projects : y # p => SeasonsIn(y)' = SeasonsIn(y)
        /\ \A y : ChaptersIn(y)' = ChaptersIn(y)
        /\ \A y \in LiveSeasons : seasonOf'[y] = seasonOf[y]
    <3>1. \A y \in Projects : y # None
      BY TreeAssumption DEF TreeAssumption
    <3>2. \A y \in Projects : y # p => SeasonsIn(y)' = SeasonsIn(y)
      BY <1>3, <1>4, <2>2, <2>3, <3>1 DEF SeasonsIn
    <3>3. \A y : ChaptersIn(y)' = ChaptersIn(y)
      BY <1>4 DEF ChaptersIn
    <3>4. \A y \in LiveSeasons : seasonOf'[y] = seasonOf[y]
      BY <1>4, <2>2 DEF LiveSeasons
    <3> QED BY <3>2, <3>3, <3>4
  <2>6. (projects \cup LiveSeasons \cup LiveChapters)' \subseteq issued' /\ issued \subseteq issued'
    BY <1>1, <1>3, <1>4, <2>3, <2>4 DEF Before, Known, TreeAssumption
  <2>7. /\ reqs' = {q} /\ Serial' /\ Known'
        /\ \A x \in reqs' : Told(x)' /\ Clicked(x)' /\ Wanted(x)'
    BY <1>1, <2>1, <2>6, Done DEF ServeAdd, Before
  <2>8. ProjectAgrees'
    <3>1. \A c \in LiveChapters : chapterOf[c].season \in LiveSeasons
      BY <1>1 DEF Before, NoOrphans, KeysHold, TablesOK, RowsWhole, LiveChapters, LiveSeasons
    <3> QED BY <1>1, <1>4, <2>4, <2>5, <3>1 DEF ProjectAgrees, Before
  <2>9. ListsOK'
    <3>1. shown' = projects' \/ ProjectsDue'
      BY <1>1, <1>4, <2>1, <2>7 DEF ServeAdd, ProjectsDue, Same, Before, Clean, page
    <3>2. ASSUME NEW y \in expProj' PROVE seasonsBy'[y] = SeasonsIn(y)' \/ SeasonsDue(y)'
      <4>1. y \in expProj /\ y \in Projects /\ y \in issued
        BY <1>1 DEF Before, PageOK, Known, page
      <4>2. CASE y # p
        BY <1>1, <2>5, <4>1, <4>2 DEF Before, Clean, page
      <4>3. CASE y = p
        BY <1>3, <2>1, <2>7, <4>1, <4>3 DEF ServeAdd, SeasonsDue, Same
      <4> QED BY <4>2, <4>3
    <3>3. \A y \in (expSeason \cap LiveSeasons)' :
             /\ IdsOf(chBySeason[y])' = ChaptersIn(y)'
             /\ moved' \/ \A x \in chBySeason'[y] : x.proj = seasonOf'[y]
      BY <1>1, <1>3, <2>4, <2>5 DEF Before, Clean, Known, page, IdsOf
    <3> QED BY <3>1, <3>2, <3>3 DEF ListsOK
  <2>10. OpenOK'
    <3>1. \A x \in reqs' : ~Takes(x)'
      BY <1>1, <2>1, <2>7 DEF Takes, Same, ServeAdd
    <3> QED BY <1>1, <1>4, <2>4, <3>1 DEF OpenOK, Before, Clean, page
  <2> QED BY <2>7, <2>8, <2>9, <2>10 DEF AloneInv
<1> QED BY <1>1, <1>2, <1>4, CommitCases DEF Before

LEMMA ServeAddChapterAlone ==
    ASSUME TreeInv, TreeInv', AloneInv, NEW r \in reqs, ServeAddChapter(r), UNCHANGED page
    PROVE  AloneInv'
<1>1. Before(r)
  BY BeforeEdit DEF ServeAddChapter, Edits
<1>2. PICK c \in Fresh(Chapters) :
        LET cOf == [chapterOf EXCEPT ![c] = [season |-> r.id, proj |-> r.proj]]
        IN  IF KeysHold(projects, seasonOf, cOf)
            THEN /\ chapterOf' = cOf /\ issued' = issued \cup {c}
                 /\ Becomes(r, [r EXCEPT !.st = "ok", !.new = c])
                 /\ UNCHANGED <<projects, seasonOf>>
            ELSE Answer(r, "no") /\ UNCHANGED tables
  BY DEF ServeAddChapter
<1> DEFINE cOf == [chapterOf EXCEPT ![c] = [season |-> r.id, proj |-> r.proj]]
           q == [r EXCEPT !.st = "ok", !.new = c]
<1>3. c \in Chapters /\ c \notin issued /\ r.id \in LiveSeasons /\ r.proj = seasonOf[r.id]
      /\ r.op = "addChapter" /\ r.id # None
  BY <1>1, TreeAssumption
     DEF Fresh, ServeAddChapter, Before, Told, Into, TreeAssumption, LiveSeasons
<1>4. CASE KeysHold(projects, seasonOf, cOf)
  <2>1. /\ chapterOf' = cOf /\ issued' = issued \cup {c} /\ Becomes(r, q)
        /\ projects' = projects /\ seasonOf' = seasonOf
    BY <1>2, <1>4
  <2>2. Same(r, q) /\ q.st = "ok"
    BY <1>1 DEF Before, ReqOK, Request, Same
  <2> HIDE DEF q
  <2>3. c \notin LiveChapters /\ chapterOf[c] = NoRow
    BY <1>1, <1>3 DEF Before, Known, LiveChapters
  <2>4. /\ \A d \in Chapters : d # c => chapterOf'[d] = chapterOf[d]
        /\ chapterOf'[c] = [season |-> r.id, proj |-> seasonOf[r.id]]
    BY <1>1, <1>3, <2>1 DEF Before, TablesOK
  <2>5. chapterOf'[c] # NoRow
    BY <1>3, <2>4 DEF NoRow
  <2>6. LiveSeasons' = LiveSeasons /\ LiveChapters' = LiveChapters \cup {c}
    BY <1>3, <2>1, <2>4, <2>5 DEF LiveSeasons, LiveChapters
  <2>7. /\ \A y : SeasonsIn(y)' = SeasonsIn(y)
        /\ \A y \in LiveSeasons : y # r.id => ChaptersIn(y)' = ChaptersIn(y)
    <3>1. \A y \in LiveSeasons : y # r.id => chapterOf[c].season # y /\ chapterOf'[c].season # y
      BY <2>3, <2>4, TreeAssumption DEF NoRow, LiveSeasons, TreeAssumption
    <3> QED BY <2>1, <2>4, <3>1 DEF SeasonsIn, ChaptersIn
  <2>8. (projects \cup LiveSeasons \cup LiveChapters)' \subseteq issued' /\ issued \subseteq issued'
    BY <1>1, <1>3, <2>1, <2>6 DEF Before, Known
  <2>9. /\ reqs' = {q} /\ Serial' /\ Known'
        /\ \A x \in reqs' : Told(x)' /\ Clicked(x)' /\ Wanted(x)'
    BY <1>1, <1>3, <2>1, <2>2, <2>8, Done DEF Before
  <2>10. ProjectAgrees'
    BY <1>1, <1>3, <2>1, <2>4, <2>6 DEF Before, ProjectAgrees, LiveChapters
  <2>11. ListsOK'
    <3>1. \A y \in (expSeason \cap LiveSeasons)' :
             \/ ChaptersDue(y)'
             \/ /\ IdsOf(chBySeason[y])' = ChaptersIn(y)'
                /\ moved' \/ \A x \in chBySeason'[y] : x.proj = seasonOf'[y]
      <4> SUFFICES ASSUME NEW y \in (expSeason \cap LiveSeasons)'
                   PROVE  \/ ChaptersDue(y)'
                          \/ /\ IdsOf(chBySeason[y])' = ChaptersIn(y)'
                             /\ moved' \/ \A x \in chBySeason'[y] : x.proj = seasonOf'[y]
        OBVIOUS
      <4>1. CASE y = r.id
        BY <1>3, <2>2, <2>9, <4>1 DEF ChaptersDue, Same
      <4>2. CASE y # r.id
        BY <1>1, <2>1, <2>6, <2>7, <4>2 DEF Before, Clean, page, IdsOf
      <4> QED BY <4>1, <4>2
    <3> QED BY <1>1, <2>1, <2>7, <3>1 DEF Before, Clean, page, ListsOK
  <2>12. OpenOK'
    <3>1. \A x \in reqs' : ~Takes(x)'
      BY <1>3, <2>2, <2>9 DEF Takes, Same
    <3> QED BY <1>1, <2>3, <2>4, <2>6, <3>1 DEF OpenOK, Before, Clean, page, LiveChapters
  <2> QED BY <2>9, <2>10, <2>11, <2>12 DEF AloneInv
<1>5. CASE ~KeysHold(projects, seasonOf, cOf)
  BY <1>1, <1>2, <1>5, NotDone DEF Before
<1> QED BY <1>4, <1>5

\* A deletion takes the chapters C and the seasons S.
LEMMA Gone ==
    ASSUME TreeInv, AloneInv, NEW C, NEW S,
           seasonOf' = WithoutSeasons(S), chapterOf' = WithoutChapters(C)
    PROVE  /\ LiveChapters' = LiveChapters \ C /\ LiveSeasons' = LiveSeasons \ S
           /\ \A c \in LiveChapters \ C : chapterOf'[c] = chapterOf[c]
           /\ \A s \in LiveSeasons \ S : seasonOf'[s] = seasonOf[s]
           /\ \A s \in Seasons : ChaptersIn(s)' = ChaptersIn(s) \ C
           /\ \A p \in Projects : SeasonsIn(p)' = SeasonsIn(p) \ S
<1>1. \A c \in Chapters : chapterOf'[c] = IF c \in C THEN NoRow ELSE chapterOf[c]
  BY DEF WithoutChapters
<1>2. \A s \in Seasons : seasonOf'[s] = IF s \in S THEN None ELSE seasonOf[s]
  BY DEF WithoutSeasons
<1>3. None \notin Seasons /\ None \notin Projects
  BY TreeAssumption DEF TreeAssumption
<1>4. LiveChapters' = LiveChapters \ C /\ LiveSeasons' = LiveSeasons \ S
  BY <1>1, <1>2 DEF LiveChapters, LiveSeasons
<1>5. \A c \in LiveChapters \ C : chapterOf'[c] = chapterOf[c]
  BY <1>1 DEF LiveChapters
<1>6. \A s \in LiveSeasons \ S : seasonOf'[s] = seasonOf[s]
  BY <1>2 DEF LiveSeasons
<1>7. ASSUME NEW s \in Seasons PROVE ChaptersIn(s)' = ChaptersIn(s) \ C
  <2>1. NoRow.season # s
    BY <1>3 DEF NoRow
  <2> QED BY <1>1, <2>1 DEF ChaptersIn
<1>8. ASSUME NEW p \in Projects PROVE SeasonsIn(p)' = SeasonsIn(p) \ S
  BY <1>2, <1>3 DEF SeasonsIn
<1> QED BY <1>4, <1>5, <1>6, <1>7, <1>8

\* A deletion takes what the page expects of it and no more.
Apt(r, C, S) ==
    /\ S \subseteq Seasons
    /\ \A p \in expProj : \/ SeasonsIn(p) \cap S = {}
                          \/ (p = r.id /\ r.op = "delProject")
                          \/ (p = r.top /\ r.op = "delSeason")
    /\ \A s \in LiveSeasons \ S : \/ ChaptersIn(s) \cap C = {}
                                   \/ (s = r.up /\ r.op = "delChapter")
    /\ \A c \in LiveChapters : c \in C <=> \/ (r.op = "delProject" /\ chapterOf[c].proj = r.id)
                                           \/ (r.op = "delSeason" /\ chapterOf[c].season = r.id)
                                           \/ (r.op = "delChapter" /\ c = r.id)

\* What is left of a commit that takes rows away.
LEMMA DeletedAlone ==
    ASSUME TreeInv, AloneInv, NEW r, Before(r), NEW q, Same(r, q), q.st = "ok", Becomes(r, q),
           UNCHANGED page, issued' = issued, NEW C, NEW S, Apt(r, C, S), NoOrphans',
           seasonOf' = WithoutSeasons(S), chapterOf' = WithoutChapters(C),
           projects' \subseteq projects, r.op \in {"delProject", "delSeason", "delChapter"},
           r.op = "delProject" \/ projects' = projects
    PROVE  AloneInv'
<1>1. /\ LiveChapters' = LiveChapters \ C /\ LiveSeasons' = LiveSeasons \ S
      /\ \A c \in LiveChapters \ C : chapterOf'[c] = chapterOf[c]
      /\ \A s \in LiveSeasons \ S : seasonOf'[s] = seasonOf[s]
      /\ \A s \in Seasons : ChaptersIn(s)' = ChaptersIn(s) \ C
      /\ \A p \in Projects : SeasonsIn(p)' = SeasonsIn(p) \ S
  BY Gone
<1>2. (projects \cup LiveSeasons \cup LiveChapters)' \subseteq issued' /\ issued \subseteq issued'
  BY <1>1 DEF Before, Known
<1>3. /\ reqs' = {q} /\ Serial' /\ Known'
      /\ \A x \in reqs' : Told(x)' /\ Clicked(x)' /\ Wanted(x)'
  BY <1>2, Done DEF Before
<1>5. ProjectAgrees'
  <2>1. \A c \in LiveChapters' : chapterOf'[c].season \in LiveSeasons'
    <3> SUFFICES ASSUME NEW c \in LiveChapters' PROVE chapterOf'[c].season \in LiveSeasons'
      OBVIOUS
    <3>1. c \in LiveChapters /\ c \in Chapters /\ chapterOf'[c] = chapterOf[c] /\ chapterOf[c] # NoRow
      BY <1>1 DEF LiveChapters
    <3>2. chapterOf[c].season \in Seasons
      BY <3>1 DEF Before, TablesOK, RowsWhole
    <3>3. chapterOf'[c].season \in Seasons /\ seasonOf'[chapterOf'[c].season] # None
      BY <3>1, <3>2 DEF NoOrphans, KeysHold
    <3> QED BY <3>3 DEF LiveSeasons
  <2> QED BY <1>1, <2>1 DEF Before, ProjectAgrees
<1>6. ListsOK'
  <2>1. shown' = projects' \/ ProjectsDue'
    BY <1>3 DEF ProjectsDue, Same, Before, Clean, page
  <2>2. ASSUME NEW p \in expProj' PROVE seasonsBy'[p] = SeasonsIn(p)' \/ SeasonsDue(p)'
    <3>1. p \in expProj /\ p \in Projects
      BY DEF Before, PageOK, page
    <3>2. CASE SeasonsIn(p) \cap S = {}
      BY <1>1, <3>1, <3>2 DEF Before, Clean, page
    <3>3. CASE (p = r.id /\ r.op = "delProject") \/ (p = r.top /\ r.op = "delSeason")
      BY <1>3, <3>3 DEF SeasonsDue, Same
    <3> QED BY <3>1, <3>2, <3>3 DEF Apt
  <2>3. ASSUME NEW s \in (expSeason \cap LiveSeasons)'
        PROVE  \/ ChaptersDue(s)'
               \/ /\ IdsOf(chBySeason[s])' = ChaptersIn(s)'
                  /\ moved' \/ \A x \in chBySeason'[s] : x.proj = seasonOf'[s]
    <3>1. s \in expSeason /\ s \in LiveSeasons \ S /\ s \in Seasons
      BY <1>1 DEF page, LiveSeasons
    <3>2. CASE ChaptersIn(s) \cap C = {}
      BY <1>1, <3>1, <3>2 DEF Before, Clean, page, IdsOf
    <3>3. CASE s = r.up /\ r.op = "delChapter"
      BY <1>3, <3>3 DEF ChaptersDue, Same
    <3> QED BY <3>1, <3>2, <3>3 DEF Apt
  <2> QED BY <2>1, <2>2, <2>3 DEF ListsOK
<1>7. OpenOK'
  <2> SUFFICES ASSUME ~moved, active # NoChapter
               PROVE  /\ active.id \in LiveChapters' <=> ~Takes(q)'
                      /\ active.id \in LiveChapters' =>
                           /\ active.season = chapterOf'[active.id].season
                           /\ active.proj = chapterOf'[active.id].proj
    BY <1>3 DEF OpenOK, page, Takes
  <2>1. /\ active.id \in LiveChapters /\ active.season = chapterOf[active.id].season
        /\ active.proj = chapterOf[active.id].proj
    BY DEF Before, Clean
  <2>2. Takes(q)' <=> active.id \in C
    BY <2>1 DEF Takes, Same, page, Apt
  <2> QED BY <1>1, <2>1, <2>2
<1> QED BY <1>3, <1>5, <1>6, <1>7 DEF AloneInv

LEMMA ServeDeleteAlone ==
    ASSUME TreeInv, TreeInv', AloneInv, NEW r \in reqs, ServeDelete(r), UNCHANGED page
    PROVE  AloneInv'
<1>1. Before(r)
  BY BeforeEdit DEF ServeDelete, Edits
<1>2. NoOrphans' /\ TreeAssumption
  BY TreeAssumption DEF TreeInv
<1>3. CASE r.op = "delChapter"
  <2>1. Commit(r, projects, seasonOf, WithoutChapters({r.id}), {})
    BY <1>3 DEF ServeDelete
  <2>2. r.id \in LiveChapters /\ r.up = chapterOf[r.id].season
    BY <1>1, <1>3 DEF Before, Clicked
  <2>3. CASE /\ KeysHold(projects, seasonOf, WithoutChapters({r.id}))
             /\ projects' = projects /\ seasonOf' = seasonOf /\ chapterOf' = WithoutChapters({r.id})
             /\ issued' = issued \cup ({} \ {None})
             /\ \E q : Same(r, q) /\ q.st = "ok" /\ Becomes(r, q)
    <3>1. PICK q : Same(r, q) /\ q.st = "ok" /\ Becomes(r, q)
      BY <2>3
    <3>2. seasonOf' = WithoutSeasons({})
      BY <1>1, <2>3 DEF WithoutSeasons, Before, TablesOK
    <3>3. \A s \in LiveSeasons : ChaptersIn(s) \cap {r.id} = {} \/ s = r.up
      BY <2>2 DEF ChaptersIn
    <3>4. Apt(r, {r.id}, {})
      BY <1>3, <3>3 DEF Apt
    <3>5. projects' \subseteq projects /\ issued' = issued
      BY <2>3
    <3> QED BY <1>1, <1>2, <1>3, <2>3, <3>1, <3>2, <3>4, <3>5, DeletedAlone
  <2> QED BY <1>1, <2>1, <2>3, CommitCases DEF Before
<1>4. CASE r.op \in {"delSeason", "delProject"}
  <2> DEFINE C == IdsOf(r.cs)
  <2>1. Commit(r, projects \ {r.id}, WithoutSeasons(r.ss), WithoutChapters(C), {}) /\ r.st = "read"
    BY <1>4 DEF ServeDelete
  <2>2. CASE /\ KeysHold(projects \ {r.id}, WithoutSeasons(r.ss), WithoutChapters(C))
             /\ projects' = projects \ {r.id} /\ seasonOf' = WithoutSeasons(r.ss)
             /\ chapterOf' = WithoutChapters(C)
             /\ issued' = issued \cup ({} \ {None})
             /\ \E q : Same(r, q) /\ q.st = "ok" /\ Becomes(r, q)
    <3>1. PICK q : Same(r, q) /\ q.st = "ok" /\ Becomes(r, q)
      BY <2>2
    <3>2. CASE r.op = "delSeason"
      <4>1. r.id \in Seasons /\ r.top = seasonOf[r.id] /\ r.ss = {r.id} /\ C = ChaptersIn(r.id)
        BY <1>1, <2>1, <3>2, RefsIds DEF Before, Told, Clicked, LiveSeasons
      <4>2. projects' = projects
        BY <1>1, <1>2, <2>2, <4>1 DEF Before, TablesOK, TreeAssumption
      <4>3. \A p \in expProj : SeasonsIn(p) \cap {r.id} = {} \/ p = r.top
        BY <4>1 DEF SeasonsIn
      <4>4. \A s \in LiveSeasons \ {r.id} : ChaptersIn(s) \cap C = {}
        BY <4>1 DEF ChaptersIn
      <4>5. \A c \in LiveChapters : c \in C <=> chapterOf[c].season = r.id
        BY <4>1 DEF ChaptersIn, LiveChapters
      <4> HIDE DEF C
      <4>6. Apt(r, C, r.ss)
        BY <3>2, <4>1, <4>3, <4>4, <4>5 DEF Apt
      <4>7. projects' \subseteq projects /\ issued' = issued
        BY <2>2
      <4> QED BY <1>1, <1>2, <2>2, <3>1, <3>2, <4>2, <4>6, <4>7, DeletedAlone
    <3>3. CASE r.op = "delProject"
      <4>1. r.id \in Projects /\ r.ss = SeasonsIn(r.id)
            /\ C = {c \in Chapters : chapterOf[c].proj = r.id}
        BY <1>1, <2>1, <3>3, RefsIds DEF Before, Told, ReqOK, AboutRows
      <4>2. \A p \in expProj : SeasonsIn(p) \cap r.ss = {} \/ p = r.id
        BY <4>1 DEF SeasonsIn
      <4>3. ASSUME NEW s \in LiveSeasons \ r.ss PROVE ChaptersIn(s) \cap C = {}
        <5> SUFFICES ASSUME NEW c \in ChaptersIn(s), c \in C PROVE FALSE
          OBVIOUS
        <5>1. s \in Seasons /\ seasonOf[s] # r.id /\ c \in Chapters /\ chapterOf[c].season = s
              /\ chapterOf[c].proj = r.id
          BY <4>1 DEF LiveSeasons, SeasonsIn, ChaptersIn
        <5>2. c \in LiveChapters
          BY <1>2, <5>1 DEF LiveChapters, NoRow, TreeAssumption
        <5> QED BY <1>1, <5>1, <5>2 DEF Before, ProjectAgrees
      <4>4. \A c \in LiveChapters : c \in C <=> chapterOf[c].proj = r.id
        BY <4>1 DEF LiveChapters
      <4>5. r.ss \subseteq Seasons
        BY <4>1 DEF SeasonsIn
      <4> HIDE DEF C
      <4>6. Apt(r, C, r.ss)
        BY <3>3, <4>2, <4>3, <4>4, <4>5 DEF Apt
      <4>7. projects' \subseteq projects /\ issued' = issued
        BY <2>2
      <4> QED BY <1>1, <1>2, <2>2, <3>1, <3>3, <4>6, <4>7, DeletedAlone
    <3> QED BY <1>4, <3>2, <3>3
  <2> HIDE DEF C
  <2> QED BY <1>1, <2>1, <2>2, CommitCases DEF Before
<1> QED BY <1>3, <1>4 DEF ServeDelete

\* A season moves with its chapters.
LEMMA MoveSeasonAlone ==
    ASSUME TreeInv, TreeInv', AloneInv, NEW r \in reqs, ServeMove(r), r.op = "moveSeason",
           UNCHANGED page
    PROVE  AloneInv'
<1>1. Before(r) /\ r.id \in LiveSeasons /\ r.top = seasonOf[r.id] /\ r.to \in Projects
  <2>1. Before(r)
    BY BeforeEdit DEF ServeMove, Edits, Moves
  <2> QED BY <2>1 DEF Before, Clicked, ReqOK, AboutRows
<1> DEFINE sOf == [seasonOf EXCEPT ![r.id] = r.to]
           cOf == [c \in Chapters |-> IF c \in ChaptersIn(r.id)
                                      THEN [chapterOf[c] EXCEPT !.proj = r.to] ELSE chapterOf[c]]
<1>2. Commit(r, projects, sOf, cOf, {})
  BY <1>1 DEF ServeMove
<1>3. CASE /\ KeysHold(projects, sOf, cOf)
           /\ projects' = projects /\ seasonOf' = sOf /\ chapterOf' = cOf
           /\ issued' = issued \cup ({} \ {None})
           /\ \E q : Same(r, q) /\ q.st = "ok" /\ Becomes(r, q)
  <2>1. PICK q : Same(r, q) /\ q.st = "ok" /\ Becomes(r, q)
    BY <1>3
  <2>2. /\ \A s \in Seasons : seasonOf'[s] = IF s = r.id THEN r.to ELSE seasonOf[s]
        /\ r.id \in Seasons /\ r.to # None /\ None \notin Seasons
    BY <1>1, <1>3, TreeAssumption DEF Before, TablesOK, LiveSeasons, TreeAssumption
  <2>3. ASSUME NEW c \in Chapters
        PROVE  /\ chapterOf'[c].season = chapterOf[c].season
               /\ chapterOf'[c] = NoRow <=> chapterOf[c] = NoRow
               /\ chapterOf'[c].proj = IF chapterOf[c].season = r.id THEN r.to ELSE chapterOf[c].proj
    <3>1. chapterOf[c] \in [season : Seasons \cup {None}, proj : Projects \cup {None}]
      BY <1>1 DEF Before, TablesOK
    <3>2. c \in ChaptersIn(r.id) <=> chapterOf[c].season = r.id
      BY DEF ChaptersIn
    <3>3. CASE c \in ChaptersIn(r.id)
      BY <1>3, <2>2, <3>1, <3>2, <3>3 DEF NoRow
    <3>4. CASE c \notin ChaptersIn(r.id)
      BY <1>3, <3>2, <3>4
    <3> QED BY <3>3, <3>4
  <2>4. LiveSeasons' = LiveSeasons /\ LiveChapters' = LiveChapters
    BY <1>1, <2>2, <2>3 DEF LiveSeasons, LiveChapters
  <2>5. /\ \A s : ChaptersIn(s)' = ChaptersIn(s)
        /\ \A p : p # r.top /\ p # r.to => SeasonsIn(p)' = SeasonsIn(p)
    BY <1>1, <2>2, <2>3 DEF ChaptersIn, SeasonsIn
  <2>6. issued' = issued
    BY <1>3
  <2>7. /\ reqs' = {q} /\ Serial' /\ Known'
        /\ \A x \in reqs' : Told(x)' /\ Clicked(x)' /\ Wanted(x)'
    <3>1. (projects \cup LiveSeasons \cup LiveChapters)' \subseteq issued' /\ issued \subseteq issued'
      BY <1>1, <1>3, <2>4, <2>6 DEF Before, Known
    <3> HIDE DEF sOf, cOf
    <3> QED BY <1>1, <2>1, <3>1, Done DEF Before
  <2>8. ProjectAgrees'
    <3>1. \A c \in LiveChapters : c \in Chapters /\ chapterOf[c].season \in Seasons
      BY <1>1 DEF Before, TablesOK, RowsWhole, LiveChapters
    <3> QED BY <1>1, <2>2, <2>3, <2>4, <3>1 DEF Before, ProjectAgrees
  <2>9. ListsOK'
    <3>1. shown' = projects'
      BY <1>1, <1>3 DEF Before, Clean, page
    <3>2. \A p \in expProj' : seasonsBy'[p] = SeasonsIn(p)' \/ SeasonsDue(p)'
      BY <1>1, <2>1, <2>5, <2>7 DEF Before, Clean, page, SeasonsDue, Same
    <3>3. ASSUME NEW s \in (expSeason \cap LiveSeasons)'
          PROVE  /\ IdsOf(chBySeason[s])' = ChaptersIn(s)'
                 /\ \/ moved' \/ SeasonMoves(s)'
                    \/ \A x \in chBySeason'[s] : x.proj = seasonOf'[s]
      <4>1. s \in expSeason \cap LiveSeasons /\ s \in Seasons
        BY <2>4 DEF page, LiveSeasons
      <4>2. CASE s = r.id
        BY <1>1, <2>1, <2>5, <2>7, <4>1, <4>2 DEF Before, Clean, page, IdsOf, SeasonMoves, Same
      <4>3. CASE s # r.id
        BY <1>1, <2>2, <2>5, <4>1, <4>3 DEF Before, Clean, page, IdsOf
      <4> QED BY <4>2, <4>3
    <3> QED BY <3>1, <3>2, <3>3 DEF ListsOK
  <2>10. OpenOK'
    <3>1. \A x \in reqs' : ~Takes(x)'
      BY <2>1, <2>7 DEF Takes, Same
    <3>2. SeasonMoves(r.id)'
      BY <2>1, <2>7 DEF SeasonMoves, Same
    <3>3. \A c \in LiveChapters : c \in Chapters
      BY DEF LiveChapters
    <3> QED BY <1>1, <2>3, <2>4, <3>1, <3>2, <3>3 DEF OpenOK, Before, Clean, page
  <2> QED BY <2>7, <2>8, <2>9, <2>10 DEF AloneInv
<1> HIDE DEF sOf, cOf
<1> QED BY <1>1, <1>2, <1>3, CommitCases DEF Before

LEMMA MoveChapterAlone ==
    ASSUME TreeInv, TreeInv', AloneInv, NEW r \in reqs, ServeMove(r), r.op = "moveChapter",
           UNCHANGED page
    PROVE  AloneInv'
<1>1. Before(r) /\ r.st = "read"
  BY BeforeEdit DEF ServeMove, Edits, Moves
<1>2. /\ r.id \in LiveChapters /\ r.id \in Chapters /\ r.up = chapterOf[r.id].season
      /\ r.to \in LiveSeasons /\ r.to \in Seasons /\ r.proj = seasonOf[r.to]
      /\ ~moved => seasonOf[r.to] = chapterOf[r.id].proj
  BY <1>1 DEF Before, Clicked, Told, Into, LiveChapters, LiveSeasons
<1> DEFINE cOf == [chapterOf EXCEPT ![r.id] = [season |-> r.to, proj |-> r.proj]]
<1>3. Commit(r, projects, seasonOf, cOf, {})
  BY <1>2 DEF ServeMove
<1>4. CASE /\ KeysHold(projects, seasonOf, cOf)
           /\ projects' = projects /\ seasonOf' = seasonOf /\ chapterOf' = cOf
           /\ issued' = issued \cup ({} \ {None})
           /\ \E q : Same(r, q) /\ q.st = "ok" /\ Becomes(r, q)
  <2>1. PICK q : Same(r, q) /\ q.st = "ok" /\ Becomes(r, q)
    BY <1>4
  <2>2. /\ chapterOf'[r.id] = [season |-> r.to, proj |-> seasonOf[r.to]]
        /\ \A c \in Chapters : c # r.id => chapterOf'[c] = chapterOf[c]
    BY <1>1, <1>2, <1>4 DEF Before, TablesOK
  <2>3. chapterOf'[r.id] # NoRow
    BY <1>2, <2>2, TreeAssumption DEF NoRow, TreeAssumption
  <2>4. LiveSeasons' = LiveSeasons /\ LiveChapters' = LiveChapters
    BY <1>2, <1>4, <2>2, <2>3 DEF LiveSeasons, LiveChapters
  <2>5. /\ \A s : s # r.up /\ s # r.to => ChaptersIn(s)' = ChaptersIn(s)
        /\ \A p : SeasonsIn(p)' = SeasonsIn(p)
    BY <1>2, <1>4, <2>2 DEF ChaptersIn, SeasonsIn
  <2>6. /\ reqs' = {q} /\ Serial' /\ Known'
        /\ \A x \in reqs' : Told(x)' /\ Clicked(x)' /\ Wanted(x)'
    <3>1. (projects \cup LiveSeasons \cup LiveChapters)' \subseteq issued' /\ issued \subseteq issued'
      BY <1>1, <1>4, <2>4 DEF Before, Known
    <3>2. chapterOf'[r.id].season = r.to
      BY <2>2
    <3> HIDE DEF cOf
    <3> QED BY <1>1, <2>1, <3>1, <3>2, Done DEF Before
  <2>7. ProjectAgrees'
    <3>1. \A c \in LiveChapters : c \in Chapters
      BY DEF LiveChapters
    <3> QED BY <1>1, <1>4, <2>2, <2>4, <3>1 DEF Before, ProjectAgrees
  <2>8. ListsOK'
    <3>1. ASSUME NEW s \in (expSeason \cap LiveSeasons)'
          PROVE  \/ ChaptersDue(s)'
                 \/ /\ IdsOf(chBySeason[s])' = ChaptersIn(s)'
                    /\ moved' \/ \A x \in chBySeason'[s] : x.proj = seasonOf'[s]
      <4>1. CASE s = r.up \/ s = r.to
        BY <2>1, <2>6, <4>1 DEF ChaptersDue, Same
      <4>2. CASE s # r.up /\ s # r.to
        BY <1>1, <1>4, <2>4, <2>5, <4>2 DEF Before, Clean, page, IdsOf
      <4> QED BY <4>1, <4>2
    <3> QED BY <1>1, <1>4, <2>5, <3>1 DEF Before, Clean, page, ListsOK
  <2>9. OpenOK'
    <3>1. \A x \in reqs' : ~Takes(x)'
      BY <2>1, <2>6 DEF Takes, Same
    <3>2. \E x \in reqs' : x.st = "ok" /\ x.op = "moveChapter" /\ x.id = r.id
      BY <2>1, <2>6 DEF Same
    <3>3. \A c \in LiveChapters : c \in Chapters
      BY DEF LiveChapters
    <3> QED BY <1>1, <1>2, <2>2, <2>4, <3>1, <3>2, <3>3 DEF OpenOK, Before, Clean, page
  <2> QED BY <2>6, <2>7, <2>8, <2>9 DEF AloneInv
<1> HIDE DEF cOf
<1> QED BY <1>1, <1>3, <1>4, CommitCases DEF Before

\* The selects in front of a write, or the refusal of one that has nowhere to go.
LEMMA ServeSelectAlone ==
    ASSUME TreeInv, AloneInv, NEW r \in reqs, ServeSelect(r)
    PROVE  AloneInv'
<1>1. ReqOK(r) /\ r \in Request /\ Clicked(r)
  BY DEF TreeInv, ReqOK, AloneInv
<1>2. UNCHANGED tables /\ UNCHANGED page /\ r.st = "sent"
  BY DEF ServeSelect
<1>3. ASSUME NEW q, Same(r, q), q.st = "no", r.op \in Edits, Becomes(r, q) PROVE AloneInv'
  BY <1>1, <1>2, <1>3, SameTables DEF Told, Clicked, Same
<1>4. ASSUME NEW q, Same(r, q), q.st = "read", Told(q), Becomes(r, q) PROVE AloneInv'
  BY <1>1, <1>2, <1>4, SameTables DEF Clicked, Same
<1>5. ASSUME NEW s \in Seasons, r.op \in {"addChapter", "moveChapter"},
             s = IF r.op = "addChapter" THEN r.id ELSE r.to,
             Becomes(r, IF s \in LiveSeasons THEN [r EXCEPT !.st = "read", !.proj = seasonOf[s]]
                        ELSE [r EXCEPT !.st = "no"])
      PROVE  AloneInv'
  <2> DEFINE y == [r EXCEPT !.st = "read", !.proj = seasonOf[s]]
             n == [r EXCEPT !.st = "no"]
  <2>1. Same(r, y) /\ y.st = "read" /\ y.proj = seasonOf[s] /\ Same(r, n) /\ n.st = "no"
    BY <1>1 DEF Same, Request
  <2>2. r.op \in Edits /\ (IF r.op = "addChapter" THEN r.id ELSE r.to) = s
    BY <1>5 DEF Edits, Moves
  <2>3. Becomes(r, IF s \in LiveSeasons THEN y ELSE n)
    BY <1>5
  <2> HIDE DEF y, n
  <2>4. CASE s \in LiveSeasons
    <3>1. Told(y)
      BY <1>5, <2>1, <2>2, <2>4 DEF Told, Same, Into
    <3> QED BY <1>4, <2>1, <2>3, <2>4, <3>1
  <2>5. CASE s \notin LiveSeasons
    BY <1>3, <2>1, <2>2, <2>3, <2>5
  <2> QED BY <2>4, <2>5
<1>6. CASE r.op = "addChapter"
  BY <1>1, <1>5, <1>6 DEF ServeSelect, ReqOK, AboutRows
<1>7. CASE r.op = "moveChapter"
  BY <1>1, <1>5, <1>7 DEF ServeSelect, ReqOK, AboutRows
<1>8. CASE r.op = "delSeason"
  <2> DEFINE cs == Refs(ChaptersIn(r.id))
             q == [r EXCEPT !.st = "read", !.ss = {r.id}, !.cs = cs]
  <2>1. Becomes(r, q)
    BY <1>8 DEF ServeSelect
  <2>2. Same(r, q) /\ q.st = "read" /\ q.ss = {r.id} /\ q.cs = cs
    BY <1>1 DEF Same, Request
  <2> HIDE DEF q
  <2>3. Told(q)
    BY <1>8, <2>2 DEF Told, Same, Edits
  <2> QED BY <1>4, <2>1, <2>2, <2>3
<1>9. CASE r.op = "delProject"
  <2> DEFINE q == [r EXCEPT !.st = "half", !.ss = SeasonsIn(r.id)]
  <2>1. Becomes(r, q)
    BY <1>9 DEF ServeSelect
  <2>2. Same(r, q) /\ q.st = "half" /\ q.ss = SeasonsIn(r.id)
    BY <1>1 DEF Same, Request
  <2> HIDE DEF q
  <2>3. Told(q)
    BY <1>9, <2>2 DEF Told, Same, Edits
  <2> QED BY <1>1, <1>2, <2>1, <2>2, <2>3, SameTables DEF Clicked, Same
<1> QED BY <1>6, <1>7, <1>8, <1>9 DEF ServeSelect

LEMMA ServeSelectMoreAlone ==
    ASSUME TreeInv, AloneInv, NEW r \in reqs, ServeSelectMore(r)
    PROVE  AloneInv'
<1>1. /\ r \in Request /\ Told(r) /\ Clicked(r) /\ r.st = "half" /\ r.op = "delProject"
      /\ UNCHANGED tables /\ UNCHANGED page
  BY DEF TreeInv, ReqOK, AloneInv, ServeSelectMore
<1> DEFINE cs == Refs({c \in Chapters : chapterOf[c].proj = r.id})
           q == [r EXCEPT !.st = "read", !.cs = cs]
<1>2. Becomes(r, q)
  BY DEF ServeSelectMore
<1>3. Same(r, q) /\ q.st = "read" /\ q.ss = r.ss /\ q.cs = cs
  BY <1>1 DEF Same, Request
<1> HIDE DEF q
<1>4. Told(q) /\ Clicked(q)
  BY <1>1, <1>3 DEF Told, Clicked, Same, Edits
<1> QED BY <1>1, <1>2, <1>3, <1>4, SameTables

LEMMA ServeReadAlone ==
    ASSUME TreeInv, AloneInv, NEW r \in reqs, ServeRead(r), UNCHANGED page
    PROVE  AloneInv'
<1>1. ReqOK(r) /\ r \in Request /\ Clicked(r) /\ r.st = "sent" /\ UNCHANGED tables
      /\ r.op \in Reads \cup {"rename"}
  BY DEF TreeInv, ReqOK, AloneInv, ServeRead
<1> DEFINE st == IF r.op = "open" /\ r.id \notin LiveChapters THEN "no" ELSE "ok"
           ss == CASE r.op = "projects" -> projects
                   [] r.op = "seasons"  -> SeasonsIn(r.id)
                   [] OTHER -> {}
           cs == IF r.op = "chapters" THEN Refs(ChaptersIn(r.id)) ELSE {}
           was == IF r.op = "open" /\ r.id \in LiveChapters
                  THEN [id |-> r.id, season |-> chapterOf[r.id].season,
                        proj |-> chapterOf[r.id].proj] ELSE r.was
           q == [r EXCEPT !.st = st, !.ss = ss, !.cs = cs, !.was = was]
<1>2. Becomes(r, q)
  BY DEF ServeRead
<1>3. /\ q.by = r.by /\ q.op = r.op /\ q.id = r.id /\ q.to = r.to /\ q.top = r.top /\ q.up = r.up
      /\ q.st = st /\ q.ss = ss /\ q.cs = cs /\ q.was = was
  BY <1>1 DEF Request
<1> HIDE DEF q
<1>4. Same(r, q)
  BY <1>1, <1>3, ReadsAndEdits DEF Same, Reads
<1>5. q.st \in {"ok", "no"} /\ (q.st = "no" => q.op = "open") /\ r.op \in {"open", "rename",
          "projects", "seasons", "chapters"}
  BY <1>1, <1>3 DEF Reads
<1>6. Told(q)
  BY <1>3, <1>5 DEF Told
<1>7. Clicked(q)
  BY <1>5 DEF Clicked
<1> HIDE DEF st, ss, cs, was
<1> QED BY <1>1, <1>2, <1>4, <1>5, <1>6, <1>7, SameTables

LEMMA ServeAlone ==
    ASSUME TreeInv, TreeInv', AloneInv, NEW r \in reqs, Serve(r)
    PROVE  AloneInv'
<1>1. ServeMove(r) => r.op \in {"moveSeason", "moveChapter"}
  BY DEF ServeMove
<1> QED BY <1>1, ServeSelectAlone, ServeSelectMoreAlone, ServeAddAlone, ServeAddChapterAlone, ServeDeleteAlone,
           MoveSeasonAlone, MoveChapterAlone, ServeReadAlone DEF Serve

(***************************************************************************)
(* An answer at the page.                                                  *)
(***************************************************************************)
\* The open chapter is the one of the tables.
OpenClean ==
    ~moved /\ active # NoChapter =>
        /\ active.id \in LiveChapters
        /\ active.season = chapterOf[active.id].season /\ active.proj = chapterOf[active.id].proj

LEMMA Answering ==
    ASSUME TreeInv, AloneInv, NEW r \in reqs, UNCHANGED tables,
           NEW G, Then(r, G), \A q \in G : Pure(q)
    PROVE  /\ Serial' /\ ProjectAgrees'
           /\ \A q \in reqs' : Told(q)' /\ Clicked(q)' /\ Wanted(q)'
           /\ \A q \in reqs' : q.op \in Reads /\ q.op \notin Edits
           /\ r.op \in Edits => reqs = {r} /\ r.was = active /\ reqs' = G
           /\ r.op \in Reads => \A q \in reqs : q.op \in Reads /\ q.op \notin Edits
           /\ OpenClean' => OpenOK'
<1>1. reqs' = (reqs \ {r}) \cup G
  BY DEF Then
<1>2. \A q \in reqs \ {r} : q.op \in Reads
  <2>1. \A q \in reqs : q.op \in Reads \cup Edits
    BY DEF TreeInv, ReqOK, Request
  <2> QED BY <2>1 DEF AloneInv, Serial
<1>3. \A q \in reqs' : Pure(q) \/ (q \in reqs /\ q.op \in Reads)
  BY <1>1, <1>2
<1>4. \A q \in reqs' : q.op \in Reads /\ q.op \notin Edits
  BY <1>3, ReadsAndEdits DEF Pure
<1>5. Serial' /\ ProjectAgrees' /\ \A q \in reqs' : Told(q)' /\ Clicked(q)' /\ Wanted(q)'
  BY <1>3, OnlyReads
<1>6. r.op \in Edits => reqs = {r} /\ r.was = active /\ reqs' = G
  BY <1>1 DEF AloneInv, Serial
<1>7. r.op \in Reads => \A q \in reqs : q.op \in Reads /\ q.op \notin Edits
  BY <1>2, ReadsAndEdits
<1>8. \A q \in reqs' : ~Takes(q)'
  BY <1>4 DEF Takes, Edits
<1>9. OpenClean' => OpenOK'
  BY <1>8 DEF OpenClean, OpenOK
<1> QED BY <1>4, <1>5, <1>6, <1>7, <1>9

\* What the page knows of the tables stays known.
LEMMA StillKnown ==
    ASSUME AloneInv, UNCHANGED tables, (shown \cup expProj \cup expSeason)' \subseteq issued,
           \A p \in Projects : seasonsBy'[p] \subseteq issued
    PROVE  Known'
BY DEF AloneInv, Known, tables, LiveSeasons, LiveChapters

LEMMA RefusedAlone ==
    ASSUME TreeInv, AloneInv, NEW r \in reqs, UNCHANGED tables, Refused(r)
    PROVE  AloneInv'
<1>1. Then(r, {}) /\ UNCHANGED page /\ r.st = "no" /\ Told(r)
  BY DEF Refused, AloneInv
<1>2. /\ Serial' /\ ProjectAgrees' /\ \A q \in reqs' : Told(q)' /\ Clicked(q)' /\ Wanted(q)'
      /\ reqs' = reqs \ {r}
  <2> DEFINE G == {}
  <2>1. Then(r, G) /\ \A q \in G : Pure(q)
    BY <1>1
  <2>2. reqs' = reqs \ {r}
    BY <1>1 DEF Then
  <2> HIDE DEF G
  <2> QED BY <2>1, <2>2, Answering
<1>3. Known'
  BY <1>1, StillKnown DEF page, AloneInv, Known
<1>4. r.op \notin {"projects", "seasons", "chapters"}
  BY <1>1 DEF Told, Edits, Moves
<1>5. /\ ProjectsDue => ProjectsDue'
      /\ \A p : SeasonsDue(p) => SeasonsDue(p)'
      /\ \A s : ChaptersDue(s) => ChaptersDue(s)'
      /\ \A s : SeasonMoves(s) => SeasonMoves(s)'
  BY <1>1, <1>2, <1>4 DEF ProjectsDue, SeasonsDue, ChaptersDue, SeasonMoves
<1>6. ListsOK'
  BY <1>1, <1>5 DEF AloneInv, ListsOK, tables, page, SeasonsIn, ChaptersIn, LiveSeasons
<1>7. /\ (\A x \in reqs : ~Takes(x)) <=> (\A x \in reqs' : ~Takes(x)')
      /\ \A c : (\E x \in reqs : x.st = "ok" /\ x.op = "moveChapter" /\ x.id = c)
                  => (\E x \in reqs' : x.st = "ok" /\ x.op = "moveChapter" /\ x.id = c)
  BY <1>1, <1>2 DEF Takes, page
<1>8. OpenOK'
  BY <1>1, <1>5, <1>7 DEF AloneInv, OpenOK, tables, page, LiveChapters
<1> QED BY <1>2, <1>3, <1>6, <1>8 DEF AloneInv

\* An edit that is done: the one request there is, and what was clean before it.
LEMMA AfterEdit ==
    ASSUME TreeInv, AloneInv, NEW r \in reqs, r.op \in Edits
    PROVE  /\ reqs = {r} /\ ReqOK(r) /\ r.by = "page" /\ r.was = active /\ Wanted(r) /\ Told(r)
           /\ shown = projects \/ r.op \in {"addProject", "delProject"}
           /\ \A p \in expProj : SeasonsDue(p) =>
                 \/ r.op \in {"addSeason", "delProject"} /\ r.id = p
                 \/ r.op \in {"delSeason", "moveSeason"} /\ r.top = p
                 \/ r.op = "moveSeason" /\ r.to = p
           /\ \A s : ChaptersDue(s) =>
                 \/ r.op = "addChapter" /\ r.id = s
                 \/ r.op \in {"delChapter", "moveChapter"} /\ r.up = s
                 \/ r.op = "moveChapter" /\ r.to = s
           /\ \A s : SeasonMoves(s) => r.op = "moveSeason" /\ r.id = s
<1>1. reqs = {r} /\ r.by = "page" /\ r.was = active /\ Wanted(r) /\ Told(r) /\ ReqOK(r)
  BY DEF TreeInv, AloneInv, Serial
<1>2. r.op \notin Reads
  BY ReadsAndEdits
<1>3. ProjectsDue => r.op \in {"addProject", "delProject"}
  BY <1>1, <1>2 DEF ProjectsDue, Reads
<1>4. \A p \in expProj : SeasonsDue(p) =>
                 \/ r.op \in {"addSeason", "delProject"} /\ r.id = p
                 \/ r.op \in {"delSeason", "moveSeason"} /\ r.top = p
                 \/ r.op = "moveSeason" /\ r.to = p
  BY <1>1, <1>2 DEF SeasonsDue, Reads
<1>5. \A s : ChaptersDue(s) =>
                 \/ r.op = "addChapter" /\ r.id = s
                 \/ r.op \in {"delChapter", "moveChapter"} /\ r.up = s
                 \/ r.op = "moveChapter" /\ r.to = s
  BY <1>1, <1>2 DEF ChaptersDue, Reads
<1>6. \A s : SeasonMoves(s) => r.op = "moveSeason" /\ r.id = s
  BY <1>1 DEF SeasonMoves
<1>7. shown = projects \/ r.op \in {"addProject", "delProject"}
  BY <1>3 DEF AloneInv, ListsOK
<1> QED BY <1>1, <1>4, <1>5, <1>6, <1>7

\* Everything an answered edit leaves behind, given what it asks for.
LEMMA EditAnswered ==
    ASSUME TreeInv, AloneInv, NEW r \in reqs, r.op \in Edits, UNCHANGED tables,
           UNCHANGED <<shown, seasonsBy, chBySeason>>,
           NEW G, Then(r, G), \A q \in G : Pure(q),
           expProj' \cup expSeason' \subseteq issued,
           shown = projects \/ \E q \in G : q.op = "projects",
           \A p \in expProj' : \/ p \in expProj /\ ~SeasonsDue(p)
                               \/ \E q \in G : q.op = "seasons" /\ q.id = p,
           \A s \in expSeason' : \/ s \in expSeason /\ ~ChaptersDue(s)
                                 \/ \E q \in G : q.op = "chapters" /\ q.id = s,
           moved => moved', \A s : SeasonMoves(s) => moved' \/ chBySeason[s] = {},
           OpenClean'
    PROVE  AloneInv'
<1>1. /\ Serial' /\ ProjectAgrees' /\ \A q \in reqs' : Told(q)' /\ Clicked(q)' /\ Wanted(q)'
      /\ reqs' = G /\ OpenOK'
  BY Answering
<1>2. Known'
  BY StillKnown DEF AloneInv, Known
<1>3. ListsOK'
  <2>1. shown' = projects' \/ ProjectsDue'
    BY <1>1 DEF tables, ProjectsDue
  <2>2. \A p \in expProj' : seasonsBy'[p] = SeasonsIn(p)' \/ SeasonsDue(p)'
    BY <1>1 DEF AloneInv, ListsOK, tables, SeasonsDue, SeasonsIn
  <2>3. ASSUME NEW s \in (expSeason \cap LiveSeasons)'
        PROVE  \/ ChaptersDue(s)'
               \/ /\ IdsOf(chBySeason[s])' = ChaptersIn(s)'
                  /\ moved' \/ \A x \in chBySeason'[s] : x.proj = seasonOf'[s]
    <3>1. s \in LiveSeasons
      BY DEF tables, LiveSeasons
    <3>2. CASE s \in expSeason /\ ~ChaptersDue(s)
      BY <3>1, <3>2 DEF AloneInv, ListsOK, tables, ChaptersIn, IdsOf
    <3>3. CASE \E q \in G : q.op = "chapters" /\ q.id = s
      BY <1>1, <3>3 DEF ChaptersDue
    <3> QED BY <3>2, <3>3
  <2> QED BY <2>1, <2>2, <2>3 DEF ListsOK
<1> QED BY <1>1, <1>2, <1>3 DEF AloneInv

\* The open chapter when no request of those that are done takes or moves it.
LEMMA StaysClean ==
    ASSUME TreeInv, AloneInv, NEW r \in reqs, reqs = {r}, ~Takes(r), r.op # "moveChapter",
           UNCHANGED <<tables, active>>, moved => moved',
           r.op = "moveSeason" => moved' \/ active.season # r.id
    PROVE  OpenClean'
<1>1. \A x \in reqs : ~Takes(x) /\ ~(x.st = "ok" /\ x.op = "moveChapter")
  OBVIOUS
<1>2. ~moved' => ~SeasonMoves(active.season)
  BY DEF SeasonMoves
<1> QED BY <1>1, <1>2 DEF AloneInv, OpenOK, OpenClean, tables, LiveChapters

LEMMA AddedAlone ==
    ASSUME TreeInv, AloneInv, NEW r \in reqs, UNCHANGED tables, Added(r)
    PROVE  AloneInv'
<1>1. r.op \in {"addProject", "addSeason", "addChapter"} /\ r.op \in Edits
      /\ UNCHANGED <<shown, seasonsBy, chBySeason, active, moved>>
  BY DEF Added, Edits
<1>2. /\ reqs = {r} /\ ReqOK(r) /\ r.by = "page" /\ r.was = active /\ Wanted(r) /\ Told(r)
      /\ shown = projects \/ r.op \in {"addProject", "delProject"}
      /\ \A p \in expProj : SeasonsDue(p) =>
            \/ r.op \in {"addSeason", "delProject"} /\ r.id = p
            \/ r.op \in {"delSeason", "moveSeason"} /\ r.top = p
            \/ r.op = "moveSeason" /\ r.to = p
      /\ \A s : ChaptersDue(s) =>
            \/ r.op = "addChapter" /\ r.id = s
            \/ r.op \in {"delChapter", "moveChapter"} /\ r.up = s
            \/ r.op = "moveChapter" /\ r.to = s
      /\ \A s : SeasonMoves(s) => r.op = "moveSeason" /\ r.id = s
  BY <1>1, AfterEdit
<1>3. OpenClean'
  BY <1>1, <1>2, StaysClean DEF Takes
<1>4. expProj \cup expSeason \subseteq issued
  BY DEF AloneInv, Known
<1>5. CASE r.op = "addProject"
  <2> DEFINE G == {Get("projects", None)}
  <2>1. Then(r, G) /\ UNCHANGED <<expProj, expSeason>>
    BY <1>5 DEF Added
  <2>2. (\A q \in G : Pure(q)) /\ \E q \in G : q.op = "projects"
    BY GetsPure DEF Reads
  <2> HIDE DEF G
  <2> QED BY <1>1, <1>2, <1>3, <1>4, <1>5, <2>1, <2>2, EditAnswered
<1>6. CASE r.op = "addSeason"
  <2> DEFINE G == {Get("seasons", r.id)}
  <2>1. Then(r, G) /\ expProj' = expProj \cup {r.id} /\ UNCHANGED expSeason
    BY <1>6 DEF Added
  <2>2. (\A q \in G : Pure(q)) /\ \E q \in G : q.op = "seasons" /\ q.id = r.id
    BY GetsPure DEF Reads
  <2>3. r.id \in issued
    BY <1>2, <1>6 DEF Wanted
  <2> HIDE DEF G
  <2> QED BY <1>1, <1>2, <1>3, <1>4, <1>6, <2>1, <2>2, <2>3, EditAnswered
<1>7. CASE r.op = "addChapter"
  <2> DEFINE G == {[Get("chapters", r.id) EXCEPT !.new = r.new]}
  <2>1. Then(r, G) /\ expSeason' = expSeason \cup {r.id} /\ UNCHANGED expProj
    BY <1>7 DEF Added
  <2>2. (\A q \in G : Pure(q)) /\ \E q \in G : q.op = "chapters" /\ q.id = r.id
    BY GetsPure DEF Reads
  <2>3. r.id \in issued
    BY <1>2, <1>7 DEF Wanted
  <2> HIDE DEF G
  <2> QED BY <1>1, <1>2, <1>3, <1>4, <1>7, <2>1, <2>2, <2>3, EditAnswered
<1> QED BY <1>1, <1>5, <1>6, <1>7

LEMMA RenamedAlone ==
    ASSUME TreeInv, AloneInv, NEW r \in reqs, UNCHANGED tables, Renamed(r)
    PROVE  AloneInv'
<1>1. r.op = "rename" /\ r.op \in Edits
      /\ UNCHANGED <<shown, expProj, expSeason, seasonsBy, chBySeason, moved>>
  BY DEF Renamed, Edits
<1>2. /\ reqs = {r} /\ r.was = active /\ shown = projects
      /\ \A p \in expProj : ~SeasonsDue(p)
      /\ \A s : ~ChaptersDue(s)
      /\ \A s : ~SeasonMoves(s)
  BY <1>1, AfterEdit
<1>3. UNCHANGED active
  BY <1>2 DEF Renamed
<1>4. OpenClean'
  BY <1>1, <1>2, <1>3, StaysClean DEF Takes
<1>5. expProj \cup expSeason \subseteq issued
  BY DEF AloneInv, Known
<1> DEFINE q == CASE r.id \in Projects -> Get("projects", None)
                  [] r.id \in Seasons  -> Get("seasons", r.top)
                  [] OTHER -> Get("chapters", r.up)
           G == {q}
<1>6. Then(r, G)
  BY DEF Renamed
<1>7. Pure(q)
  <2>1. Pure(Get("projects", None)) /\ Pure(Get("seasons", r.top)) /\ Pure(Get("chapters", r.up))
    BY GetsPure DEF Reads
  <2> QED BY <2>1
<1>8. \A x \in G : Pure(x)
  BY <1>7
<1> HIDE DEF G
<1> QED BY <1>1, <1>2, <1>4, <1>5, <1>6, <1>8, EditAnswered

LEMMA DeletedDone ==
    ASSUME TreeInv, AloneInv, NEW r \in reqs, UNCHANGED tables, Deleted(r), r.st = "ok"
    PROVE  AloneInv'
<1>1. r.op \in {"delProject", "delSeason", "delChapter"} /\ r.op \in Edits
      /\ UNCHANGED <<shown, expSeason, seasonsBy, chBySeason, moved>>
  BY DEF Deleted, Edits
<1>2. /\ reqs = {r} /\ ReqOK(r) /\ r.by = "page" /\ r.was = active /\ Wanted(r) /\ Told(r)
      /\ shown = projects \/ r.op \in {"addProject", "delProject"}
      /\ \A p \in expProj : SeasonsDue(p) =>
            \/ r.op \in {"addSeason", "delProject"} /\ r.id = p
            \/ r.op \in {"delSeason", "moveSeason"} /\ r.top = p
            \/ r.op = "moveSeason" /\ r.to = p
      /\ \A s : ChaptersDue(s) =>
            \/ r.op = "addChapter" /\ r.id = s
            \/ r.op \in {"delChapter", "moveChapter"} /\ r.up = s
            \/ r.op = "moveChapter" /\ r.to = s
      /\ \A s : SeasonMoves(s) => r.op = "moveSeason" /\ r.id = s
  BY <1>1, AfterEdit
<1>3. active' = NoChapter \/ (UNCHANGED active /\ (active = NoChapter \/ ~Takes(r)))
  BY <1>1, <1>2 DEF Deleted, Close, Takes
<1>4. OpenClean'
  <2>1. CASE active' = NoChapter
    BY <2>1 DEF OpenClean
  <2>2. CASE UNCHANGED active /\ active = NoChapter
    BY <2>2 DEF OpenClean
  <2>3. CASE UNCHANGED active /\ ~Takes(r)
    BY <1>1, <1>2, <2>3, StaysClean
  <2> QED BY <1>3, <2>1, <2>2, <2>3
<1>5. shown \cup expProj \cup expSeason \subseteq issued
  BY DEF AloneInv, Known
<1>6. CASE r.op = "delProject"
  <2>1. PICK open \in Unfold(expProj \ {r.id}, shown) :
          /\ expProj' = open
          /\ Then(r, {Get("projects", None)}
                     \cup {Get("seasons", q) : q \in open \ (expProj \ {r.id})})
    BY <1>6 DEF Deleted
  <2>2. open \subseteq shown \cup expProj
    BY DEF Unfold
  <2> DEFINE G == {Get("projects", None)} \cup {Get("seasons", q) : q \in open \ (expProj \ {r.id})}
  <2>3. Then(r, G)
    BY <2>1
  <2>4. \A q \in G : Pure(q)
    <3>1. Pure(Get("projects", None)) /\ \A q : Pure(Get("seasons", q))
      BY GetsPure DEF Reads
    <3> QED BY <3>1
  <2>5. \E q \in G : q.op = "projects"
    <3>1. Get("projects", None).op = "projects"
      BY GetsPure DEF Reads
    <3> QED BY <3>1
  <2>6. \A p \in open \ (expProj \ {r.id}) : \E q \in G : q.op = "seasons" /\ q.id = p
    <3>1. \A p : Get("seasons", p).op = "seasons" /\ Get("seasons", p).id = p
      BY GetsPure DEF Reads
    <3> QED BY <3>1
  <2> HIDE DEF G
  <2>7. \A p \in expProj' : \/ p \in expProj /\ ~SeasonsDue(p)
                            \/ \E q \in G : q.op = "seasons" /\ q.id = p
    BY <1>2, <1>6, <2>1, <2>6
  <2>8. \A s \in expSeason' : s \in expSeason /\ ~ChaptersDue(s)
    BY <1>1, <1>2, <1>6
  <2> QED BY <1>1, <1>2, <1>4, <1>5, <1>6, <2>1, <2>2, <2>3, <2>4, <2>5, <2>7, <2>8, EditAnswered
<1>7. CASE r.op = "delSeason"
  <2> DEFINE G == {Get("seasons", r.top)}
  <2>1. Then(r, G) /\ UNCHANGED expProj
    BY <1>7 DEF Deleted
  <2>2. (\A q \in G : Pure(q)) /\ \E q \in G : q.op = "seasons" /\ q.id = r.top
    BY GetsPure DEF Reads
  <2> HIDE DEF G
  <2> QED BY <1>1, <1>2, <1>4, <1>5, <1>7, <2>1, <2>2, EditAnswered
<1>8. CASE r.op = "delChapter"
  <2> DEFINE G == {Get("chapters", r.up)}
  <2>1. Then(r, G) /\ UNCHANGED expProj
    BY <1>8 DEF Deleted
  <2>2. (\A q \in G : Pure(q)) /\ \E q \in G : q.op = "chapters" /\ q.id = r.up
    BY GetsPure DEF Reads
  <2> HIDE DEF G
  <2> QED BY <1>1, <1>2, <1>4, <1>5, <1>8, <2>1, <2>2, EditAnswered
<1> QED BY <1>1, <1>6, <1>7, <1>8

LEMMA MovedDone ==
    ASSUME TreeInv, AloneInv, NEW r \in reqs, UNCHANGED tables, Moved(r), r.st = "ok"
    PROVE  AloneInv'
<1>1. r.op \in {"moveSeason", "moveChapter"} /\ r.op \in Edits
      /\ UNCHANGED <<shown, seasonsBy, chBySeason>>
  BY DEF Moved, Edits, Moves
<1>2. /\ reqs = {r} /\ ReqOK(r) /\ r.by = "page" /\ r.was = active /\ Wanted(r) /\ Told(r)
      /\ shown = projects \/ r.op \in {"addProject", "delProject"}
      /\ \A p \in expProj : SeasonsDue(p) =>
            \/ r.op \in {"addSeason", "delProject"} /\ r.id = p
            \/ r.op \in {"delSeason", "moveSeason"} /\ r.top = p
            \/ r.op = "moveSeason" /\ r.to = p
      /\ \A s : ChaptersDue(s) =>
            \/ r.op = "addChapter" /\ r.id = s
            \/ r.op \in {"delChapter", "moveChapter"} /\ r.up = s
            \/ r.op = "moveChapter" /\ r.to = s
      /\ \A s : SeasonMoves(s) => r.op = "moveSeason" /\ r.id = s
  BY <1>1, AfterEdit
<1>3. expProj \cup expSeason \subseteq issued /\ r.to \in issued
  BY <1>1, <1>2 DEF AloneInv, Known, Wanted
<1>4. CASE r.op = "moveSeason"
  <2> DEFINE G == {Get("seasons", r.top), Get("seasons", r.to)}
  <2>1. /\ Then(r, G) /\ UNCHANGED <<expSeason, active>> /\ expProj' = expProj \cup {r.to}
        /\ moved' = (moved \/ active.season = r.id \/ chBySeason[r.id] # {})
    BY <1>4 DEF Moved
  <2>2. /\ \A q \in G : Pure(q)
        /\ \E q \in G : q.op = "seasons" /\ q.id = r.top
        /\ \E q \in G : q.op = "seasons" /\ q.id = r.to
    <3>1. \A p : Pure(Get("seasons", p)) /\ Get("seasons", p).op = "seasons" /\ Get("seasons", p).id = p
      BY GetsPure DEF Reads
    <3> QED BY <3>1
  <2> HIDE DEF G
  <2>3. OpenClean'
    BY <1>1, <1>2, <1>4, <2>1, StaysClean DEF Takes
  <2>4. moved => moved'
    BY <2>1
  <2>5. \A s : SeasonMoves(s) => moved' \/ chBySeason[s] = {}
    BY <1>2, <2>1
  <2>6. shown = projects
    BY <1>2, <1>4
  <2>7. \A p \in expProj' : \/ p \in expProj /\ ~SeasonsDue(p)
                            \/ \E q \in G : q.op = "seasons" /\ q.id = p
    BY <1>2, <1>4, <2>1, <2>2
  <2>8. \A s \in expSeason' : s \in expSeason /\ ~ChaptersDue(s)
    BY <1>2, <1>4, <2>1
  <2> QED BY <1>1, <1>3, <2>1, <2>2, <2>3, <2>4, <2>5, <2>6, <2>7, <2>8, EditAnswered
<1>5. CASE r.op = "moveChapter"
  <2> DEFINE G == {Get("chapters", r.up), Get("chapters", r.to)}
  <2>1. /\ Then(r, G) /\ UNCHANGED <<expProj, moved>> /\ expSeason' = expSeason \cup {r.to}
        /\ active' = IF active.id = r.id THEN [active EXCEPT !.season = r.to] ELSE active
    BY <1>2, <1>5 DEF Moved
  <2>2. /\ \A q \in G : Pure(q)
        /\ \E q \in G : q.op = "chapters" /\ q.id = r.up
        /\ \E q \in G : q.op = "chapters" /\ q.id = r.to
    <3>1. \A p : /\ Pure(Get("chapters", p))
                 /\ Get("chapters", p).op = "chapters" /\ Get("chapters", p).id = p
      BY GetsPure DEF Reads
    <3> QED BY <3>1
  <2> HIDE DEF G
  <2>3. OpenClean'
    <3>1. \A x \in reqs : ~Takes(x) /\ ~SeasonMoves(active.season)
      BY <1>2, <1>5 DEF Takes
    <3>2. CASE active.id # r.id
      BY <1>2, <2>1, <3>1, <3>2 DEF AloneInv, OpenOK, OpenClean, tables, LiveChapters
    <3>3. CASE active.id = r.id
      <4>1. active # NoChapter
        BY <1>2, <1>5, <3>3, TreeAssumption DEF ReqOK, AboutRows, NoChapter, TreeAssumption
      <4>2. active'.id = active.id /\ active'.season = r.to /\ active'.proj = active.proj
        BY <2>1, <3>3 DEF TreeInv, PageOK
      <4>3. active.id \in LiveChapters => chapterOf[active.id].season = r.to
        BY <1>2, <1>5, <3>3 DEF Told, Edits, Moves
      <4> QED BY <2>1, <3>1, <4>1, <4>2, <4>3 DEF AloneInv, OpenOK, OpenClean, tables, LiveChapters
    <3> QED BY <3>2, <3>3
  <2>4. shown = projects /\ (moved => moved')
    BY <1>2, <1>5, <2>1
  <2>5. \A s : ~SeasonMoves(s)
    BY <1>2, <1>5
  <2>6. \A p \in expProj' : p \in expProj /\ ~SeasonsDue(p)
    BY <1>2, <1>5, <2>1
  <2>7. \A s \in expSeason' : \/ s \in expSeason /\ ~ChaptersDue(s)
                              \/ \E q \in G : q.op = "chapters" /\ q.id = s
    BY <1>2, <1>5, <2>1, <2>2
  <2> QED BY <1>1, <1>3, <2>1, <2>2, <2>3, <2>4, <2>5, <2>6, <2>7, EditAnswered
<1> QED BY <1>1, <1>4, <1>5

\* A list that has come, with the reads that are left.
LEMMA LoadedAlone ==
    ASSUME TreeInv, AloneInv, NEW r \in reqs, UNCHANGED tables, Loaded(r), r.st = "ok"
    PROVE  AloneInv'
<1>1. r.op \in {"seasons", "chapters", "open", "projects"} /\ r.op \in Reads /\ ReqOK(r) /\ Told(r)
  BY DEF Loaded, Reads, TreeInv, AloneInv
<1>2. shown \cup expProj \cup expSeason \subseteq issued
      /\ (\A p \in Projects : seasonsBy[p] \subseteq issued)
      /\ projects \cup LiveSeasons \cup LiveChapters \subseteq issued
  BY DEF AloneInv, Known
<1>3. \A q \in reqs : q.op \in Reads /\ q.op \notin Edits
  <2>1. \A q \in reqs : q.op \in Reads \cup Edits
    BY DEF TreeInv, ReqOK, Request
  <2> QED BY <1>1, <2>1, ReadsAndEdits DEF AloneInv, Serial
<1>4. \A q \in reqs : ~Takes(q) /\ q.op # "moveChapter" /\ q.op # "moveSeason"
  BY <1>3 DEF Takes, Edits, Moves
<1>5. OpenClean
  BY <1>4 DEF AloneInv, OpenOK, OpenClean, SeasonMoves
<1>6. \A s : ~SeasonMoves(s)
  BY <1>4 DEF SeasonMoves
<1>7. ASSUME UNCHANGED <<active, moved>> PROVE OpenClean'
  BY <1>5, <1>7 DEF OpenClean, tables, LiveChapters
<1>8. CASE r.op = "seasons"
  <2> DEFINE G == {}
  <2>1. /\ Then(r, G) /\ \A q \in G : Pure(q)
        /\ seasonsBy' = [seasonsBy EXCEPT ![r.id] = r.ss]
        /\ UNCHANGED <<shown, expProj, expSeason, chBySeason, active, moved>>
    BY <1>8 DEF Loaded
  <2>2. reqs' = reqs \ {r}
    BY <2>1 DEF Then
  <2> HIDE DEF G
  <2>3. /\ Serial' /\ ProjectAgrees' /\ \A q \in reqs' : Told(q)' /\ Clicked(q)' /\ Wanted(q)'
        /\ OpenOK'
    BY <1>7, <2>1, Answering
  <2>4. r.ss = SeasonsIn(r.id) /\ r.id \in Projects /\ r.ss \subseteq LiveSeasons
    BY <1>1, <1>8, TreeAssumption
       DEF Told, ReqOK, AboutRows, SeasonsIn, LiveSeasons, TreeAssumption
  <2>5. \A p \in Projects : seasonsBy'[p] = IF p = r.id THEN SeasonsIn(r.id) ELSE seasonsBy[p]
    BY <2>1, <2>4 DEF TreeInv, PageOK
  <2>6. Known'
    BY <1>2, <2>1, <2>4, <2>5, StillKnown
  <2>7. /\ ProjectsDue => ProjectsDue'
        /\ \A p : p # r.id => (SeasonsDue(p) => SeasonsDue(p)')
        /\ \A s : ChaptersDue(s) => ChaptersDue(s)'
    BY <1>3, <1>8, <2>2 DEF ProjectsDue, SeasonsDue, ChaptersDue
  <2>8. ListsOK'
    <3>1. \A p \in expProj' : seasonsBy'[p] = SeasonsIn(p)' \/ SeasonsDue(p)'
      BY <2>1, <2>4, <2>5, <2>7 DEF AloneInv, ListsOK, tables, SeasonsIn, TreeInv, PageOK
    <3> QED BY <1>6, <2>1, <2>7, <3>1 DEF AloneInv, ListsOK, tables, ChaptersIn, IdsOf, LiveSeasons
  <2> QED BY <2>3, <2>6, <2>8 DEF AloneInv
<1>9. CASE r.op = "chapters"
  <2> DEFINE G == IF r.new = None THEN {} ELSE {Get("open", r.new)}
  <2>1. /\ Then(r, G)
        /\ chBySeason' = [chBySeason EXCEPT ![r.id] = r.cs]
        /\ UNCHANGED <<shown, expProj, expSeason, seasonsBy, active, moved>>
    BY <1>9 DEF Loaded
  <2>2. \A q \in G : Pure(q)
    <3>1. Pure(Get("open", r.new))
      BY GetsPure DEF Reads
    <3> QED BY <3>1
  <2> HIDE DEF G
  <2>3. reqs' = (reqs \ {r}) \cup G
    BY <2>1 DEF Then
  <2>4. /\ Serial' /\ ProjectAgrees' /\ \A q \in reqs' : Told(q)' /\ Clicked(q)' /\ Wanted(q)'
        /\ OpenOK'
    BY <1>7, <2>1, <2>2, Answering
  <2>5. r.cs = Refs(ChaptersIn(r.id)) /\ r.id \in Seasons
    BY <1>1, <1>9 DEF Told, ReqOK, AboutRows
  <2>6. \A s \in Seasons : chBySeason'[s] = IF s = r.id THEN Refs(ChaptersIn(r.id)) ELSE chBySeason[s]
    BY <2>1, <2>5 DEF TreeInv, PageOK
  <2>7. Known'
    BY <1>2, <2>1, StillKnown
  <2>8. /\ ProjectsDue => ProjectsDue'
        /\ \A p : SeasonsDue(p) => SeasonsDue(p)'
        /\ \A s : s # r.id => (ChaptersDue(s) => ChaptersDue(s)')
    BY <1>3, <1>9, <2>3 DEF ProjectsDue, SeasonsDue, ChaptersDue
  <2>9. r.id \in LiveSeasons => \A x \in Refs(ChaptersIn(r.id)) : x.proj = seasonOf[r.id]
    <3> SUFFICES ASSUME r.id \in LiveSeasons, NEW x \in Refs(ChaptersIn(r.id))
                 PROVE  x.proj = seasonOf[r.id]
      OBVIOUS
    <3>1. PICK c \in ChaptersIn(r.id) : x = [id |-> c, proj |-> chapterOf[c].proj]
      BY DEF Refs
    <3>2. c \in LiveChapters /\ chapterOf[c].season = r.id
      BY <2>5, TreeAssumption DEF ChaptersIn, LiveChapters, NoRow, TreeAssumption
    <3> QED BY <3>1, <3>2 DEF AloneInv, ProjectAgrees
  <2>10. ListsOK'
    <3>1. ASSUME NEW s \in (expSeason \cap LiveSeasons)'
          PROVE  \/ ChaptersDue(s)'
                 \/ /\ IdsOf(chBySeason[s])' = ChaptersIn(s)'
                    /\ moved' \/ \A x \in chBySeason'[s] : x.proj = seasonOf'[s]
      <4>1. s \in expSeason \cap LiveSeasons /\ s \in Seasons
        BY <2>1 DEF tables, LiveSeasons
      <4>2. CASE s = r.id
        <5>1. chBySeason'[s] = Refs(ChaptersIn(s))
          BY <2>6, <4>1, <4>2
        <5>2. IdsOf(chBySeason'[s]) = ChaptersIn(s)
          BY <5>1, RefsIds
        <5> QED BY <2>9, <4>1, <4>2, <5>1, <5>2 DEF tables, ChaptersIn, IdsOf
      <4>3. CASE s # r.id
        BY <1>6, <2>1, <2>6, <2>8, <4>1, <4>3 DEF AloneInv, ListsOK, tables, ChaptersIn, IdsOf
      <4> QED BY <4>2, <4>3
    <3> QED BY <2>1, <2>8, <3>1 DEF AloneInv, ListsOK, tables, SeasonsIn
  <2> QED BY <2>4, <2>7, <2>10 DEF AloneInv
<1>10. CASE r.op = "open"
  <2> DEFINE G == {}
  <2>1. /\ Then(r, G) /\ (\A q \in G : Pure(q)) /\ active' = r.was
        /\ UNCHANGED <<shown, expProj, expSeason, seasonsBy, chBySeason, moved>>
    BY <1>10 DEF Loaded
  <2>2. reqs' = reqs \ {r}
    BY <2>1 DEF Then
  <2> HIDE DEF G
  <2>3. OpenClean'
    BY <1>1, <1>10, <2>1 DEF OpenClean, Told, tables, LiveChapters
  <2>4. /\ Serial' /\ ProjectAgrees' /\ \A q \in reqs' : Told(q)' /\ Clicked(q)' /\ Wanted(q)'
        /\ OpenOK'
    BY <2>1, <2>3, Answering
  <2>5. Known'
    BY <1>2, <2>1, StillKnown
  <2>6. /\ ProjectsDue => ProjectsDue'
        /\ \A p : SeasonsDue(p) => SeasonsDue(p)'
        /\ \A s : ChaptersDue(s) => ChaptersDue(s)'
    BY <1>10, <2>2 DEF ProjectsDue, SeasonsDue, ChaptersDue
  <2>7. ListsOK'
    BY <1>6, <2>1, <2>6 DEF AloneInv, ListsOK, tables, SeasonsIn, ChaptersIn, IdsOf, LiveSeasons
  <2> QED BY <2>4, <2>5, <2>7 DEF AloneInv
<1>11. CASE r.op = "projects"
  <2>1. PICK open \in Unfold(expProj, r.ss) :
          expProj' = open /\ Then(r, {Get("seasons", q) : q \in open \ expProj})
    BY <1>11 DEF Loaded
  <2>2. shown' = r.ss /\ UNCHANGED <<expSeason, seasonsBy, chBySeason, active, moved>>
    BY <1>11 DEF Loaded
  <2> DEFINE G == {Get("seasons", q) : q \in open \ expProj}
  <2>3. \A q \in G : Pure(q)
    <3>1. \A q : Pure(Get("seasons", q))
      BY GetsPure DEF Reads
    <3> QED BY <3>1
  <2>4. \A p \in open \ expProj : \E q \in G : q.op = "seasons" /\ q.id = p
    <3>1. \A p : Get("seasons", p).op = "seasons" /\ Get("seasons", p).id = p
      BY GetsPure DEF Reads
    <3> QED BY <3>1
  <2>5. Then(r, G)
    BY <2>1
  <2> HIDE DEF G
  <2>6. reqs' = (reqs \ {r}) \cup G
    BY <2>5 DEF Then
  <2>7. /\ Serial' /\ ProjectAgrees' /\ \A q \in reqs' : Told(q)' /\ Clicked(q)' /\ Wanted(q)'
        /\ OpenOK'
    BY <1>7, <2>2, <2>3, <2>5, Answering
  <2>8. r.ss = projects /\ open \subseteq projects \cup expProj
    BY <1>1, <1>11 DEF Told, Unfold
  <2>9. Known'
    BY <1>2, <2>1, <2>2, <2>8, StillKnown
  <2>10. /\ \A p \in expProj : SeasonsDue(p) => SeasonsDue(p)'
         /\ \A s : ChaptersDue(s) => ChaptersDue(s)'
    BY <1>3, <1>11, <2>6 DEF SeasonsDue, ChaptersDue
  <2>11. ListsOK'
    <3>1. shown' = projects'
      BY <2>2, <2>8 DEF tables
    <3>2. ASSUME NEW p \in expProj' PROVE seasonsBy'[p] = SeasonsIn(p)' \/ SeasonsDue(p)'
      <4>1. CASE p \in expProj
        BY <2>2, <2>10, <4>1 DEF AloneInv, ListsOK, tables, SeasonsIn
      <4>2. CASE p \in open \ expProj
        BY <2>4, <2>6, <4>2 DEF SeasonsDue
      <4> QED BY <2>1, <4>1, <4>2
    <3>3. \A s \in (expSeason \cap LiveSeasons)' :
             \/ ChaptersDue(s)'
             \/ /\ IdsOf(chBySeason[s])' = ChaptersIn(s)'
                /\ moved' \/ \A x \in chBySeason'[s] : x.proj = seasonOf'[s]
      BY <1>6, <2>2, <2>10 DEF AloneInv, ListsOK, tables, ChaptersIn, IdsOf, LiveSeasons
    <3> QED BY <3>1, <3>2, <3>3 DEF ListsOK
  <2> QED BY <2>7, <2>9, <2>11 DEF AloneInv
<1> QED BY <1>1, <1>8, <1>9, <1>10, <1>11

LEMMA AnsweredAlone ==
    ASSUME TreeInv, AloneInv, NEW r \in reqs, Answered(r)
    PROVE  AloneInv'
BY RefusedAlone, AddedAlone, RenamedAlone, DeletedDone, MovedDone, LoadedAlone DEF Answered

(***************************************************************************)
(* Clicks.                                                                 *)
(***************************************************************************)
\* A click comes when nothing is under way, and is about what is displayed.
LEMMA ClickClean ==
    ASSUME Patient, TreeInv, AloneInv, Act
    PROVE  reqs = {} /\ Clean
<1>1. \A r \in reqs : r.by = "other"
  BY DEF Act
<1>2. reqs = {}
  BY <1>1 DEF AloneInv, Serial
<1> QED BY <1>2, AtRest

\* What is clean stays so while lists are loaded and rows are unfolded.
LEMMA ToggleAlone ==
    ASSUME TreeInv, AloneInv, reqs = {}, Clean,
           UNCHANGED <<tables, shown, seasonsBy, chBySeason, active, moved>>,
           \A q \in reqs' : Pure(q), expProj' \cup expSeason' \subseteq issued,
           \A p \in expProj' : p \in expProj \/ \E q \in reqs' : q.op = "seasons" /\ q.id = p,
           \A s \in expSeason' : s \in expSeason \/ \E q \in reqs' : q.op = "chapters" /\ q.id = s
    PROVE  AloneInv'
<1>1. Serial' /\ ProjectAgrees' /\ \A q \in reqs' : Told(q)' /\ Clicked(q)' /\ Wanted(q)'
  BY OnlyReads
<1>2. Known'
  BY StillKnown DEF AloneInv, Known
<1>3. ListsOK'
  <2>1. shown' = projects'
    BY DEF Clean, tables
  <2>2. \A p \in expProj' : seasonsBy'[p] = SeasonsIn(p)' \/ SeasonsDue(p)'
    BY DEF Clean, tables, SeasonsIn, SeasonsDue
  <2>3. ASSUME NEW s \in (expSeason \cap LiveSeasons)'
        PROVE  \/ ChaptersDue(s)'
               \/ /\ IdsOf(chBySeason[s])' = ChaptersIn(s)'
                  /\ moved' \/ \A x \in chBySeason'[s] : x.proj = seasonOf'[s]
    <3>1. s \in LiveSeasons
      BY DEF tables, LiveSeasons
    <3>2. CASE s \in expSeason
      BY <3>1, <3>2 DEF Clean, tables, ChaptersIn, IdsOf
    <3>3. CASE \E q \in reqs' : q.op = "chapters" /\ q.id = s
      BY <3>3 DEF ChaptersDue
    <3> QED BY <3>2, <3>3
  <2> QED BY <2>1, <2>2, <2>3 DEF ListsOK
<1>4. OpenOK'
  <2>1. \A q \in reqs' : ~Takes(q)'
    BY ReadsAndEdits DEF Pure, Takes
  <2> QED BY <2>1 DEF Clean, OpenOK, tables, LiveChapters
<1> QED BY <1>1, <1>2, <1>3, <1>4 DEF AloneInv

LEMMA SendAlone ==
    ASSUME TreeInv, AloneInv, reqs = {}, Clean, UNCHANGED <<tables, page>>, NEW r, reqs' = {r},
           r.by = "page", r.st = "sent", r.op \in Edits => r.was = active,
           Clicked(r), Wanted(r)
    PROVE  AloneInv'
<1>1. Serial' /\ ProjectAgrees'
  BY DEF Serial, page, AloneInv, ProjectAgrees, tables, LiveChapters
<1>2. Told(r)' /\ Clicked(r)' /\ Wanted(r)'
  BY DEF Told, Clicked, Wanted, tables, page, LiveSeasons, LiveChapters
<1>3. Known'
  BY StillKnown DEF AloneInv, Known, page
<1>4. ListsOK'
  BY DEF Clean, ListsOK, tables, page, SeasonsIn, ChaptersIn, LiveSeasons, IdsOf
<1>5. OpenOK'
  <2>1. \A q \in reqs' : ~Takes(q)'
    BY DEF Takes
  <2> QED BY <2>1 DEF Clean, OpenOK, tables, page, LiveChapters
<1> QED BY <1>1, <1>2, <1>3, <1>4, <1>5 DEF AloneInv

\* What the page asks for.
LEMMA AskFields ==
    ASSUME NEW op, NEW id, NEW to, NEW x
    PROVE  LET r0 == Ask("page", op, id, to)
               r1 == [Ask("page", op, id, to) EXCEPT !.top = x]
               r2 == [Ask("page", op, id, to) EXCEPT !.up = x]
           IN  /\ \A r \in {r0, r1, r2} :
                    /\ r.by = "page" /\ r.op = op /\ r.id = id /\ r.to = to /\ r.st = "sent"
                    /\ op \in Edits => r.was = active
               /\ r1.top = x /\ r2.up = x
BY DEF Ask

\* A row that is displayed when nothing is under way is a row of the tables.
LEMMA RowsAreLive ==
    ASSUME TreeInv, AloneInv, Clean
    PROVE  /\ \A x \in SeasonRows : x[1] \in LiveSeasons /\ seasonOf[x[1]] = x[2] /\ x[2] \in expProj
           /\ \A x \in ChapterRows :
                /\ x[1] \in LiveChapters /\ chapterOf[x[1]].season = x[2]
                /\ ~moved => \A t \in seasonsBy[x[3]] : seasonOf[t] = chapterOf[x[1]].proj
<1>1. ASSUME NEW x \in SeasonRows
      PROVE  x[1] \in LiveSeasons /\ seasonOf[x[1]] = x[2] /\ x[2] \in expProj
  <2>1. x[1] \in Seasons /\ x[2] \in shown /\ x[2] \in expProj /\ x[1] \in seasonsBy[x[2]]
    BY DEF SeasonRows
  <2>2. seasonOf[x[1]] = x[2] /\ x[2] \in Projects
    BY <2>1 DEF Clean, SeasonsIn, TreeInv, PageOK
  <2> QED BY <2>1, <2>2, TreeAssumption DEF LiveSeasons, TreeAssumption
<1>2. ASSUME NEW x \in ChapterRows
      PROVE  /\ x[1] \in LiveChapters /\ chapterOf[x[1]].season = x[2]
             /\ ~moved => \A t \in seasonsBy[x[3]] : seasonOf[t] = chapterOf[x[1]].proj
  <2>1. /\ x[1] \in Chapters /\ x[2] \in Seasons /\ x[3] \in Projects
        /\ [id |-> x[1], proj |-> x[3]] \in chBySeason[x[2]] /\ x[2] \in expSeason
    BY DEF ChapterRows
  <2>2. PICK y \in SeasonRows : y[1] = x[2]
    BY DEF ChapterRows
  <2>3. x[2] \in LiveSeasons /\ seasonOf[x[2]] \in expProj
    BY <1>1, <2>2
  <2>4. x[1] \in IdsOf(chBySeason[x[2]])
    <3>1. [id |-> x[1], proj |-> x[3]].id = x[1]
      OBVIOUS
    <3> QED BY <2>1, <3>1 DEF IdsOf
  <2>5. x[1] \in ChaptersIn(x[2])
    BY <2>1, <2>3, <2>4 DEF Clean
  <2>6. chapterOf[x[1]].season = x[2] /\ x[1] \in LiveChapters
    BY <2>1, <2>5, TreeAssumption DEF ChaptersIn, LiveChapters, NoRow, TreeAssumption
  <2>7. ASSUME ~moved, NEW t \in seasonsBy[x[3]] PROVE seasonOf[t] = chapterOf[x[1]].proj
    <3>1. x[3] = seasonOf[x[2]]
      <4>1. [id |-> x[1], proj |-> x[3]].proj = seasonOf[x[2]]
        BY <2>1, <2>3, <2>7 DEF Clean
      <4> QED BY <4>1
    <3>2. t \in SeasonsIn(x[3])
      BY <2>3, <3>1 DEF Clean
    <3>3. chapterOf[x[1]].proj = seasonOf[x[2]]
      BY <2>6 DEF AloneInv, ProjectAgrees
    <3> QED BY <3>1, <3>2, <3>3 DEF SeasonsIn
  <2> QED BY <2>6, <2>7
<1> QED BY <1>1, <1>2

LEMMA ClickAlone ==
    ASSUME Patient, TreeInv, AloneInv, Click
    PROVE  AloneInv'
<1>1. Act
  BY DEF Click, OnProjects, ToggleProject, ToggleSeason, OnSeason, OnChapter, Send
<1>2. reqs = {} /\ Clean /\ UNCHANGED tables
  BY <1>1, ClickClean DEF Act
<1>3. shown \cup expProj \cup expSeason \subseteq issued
      /\ (\A p \in Projects : seasonsBy[p] \subseteq issued) /\ shown \subseteq Projects
  BY DEF AloneInv, Known, TreeInv, PageOK
<1>4. ASSUME NEW r, Send(r), r.by = "page", r.st = "sent", r.op \in Edits => r.was = active,
             Clicked(r), Wanted(r)
      PROVE  AloneInv'
  <2>1. reqs' = {r} /\ UNCHANGED page
    BY <1>2, <1>4 DEF Send
  <2> QED BY <1>2, <1>4, <2>1, SendAlone
<1>5. ASSUME NEW p \in Projects, ToggleProject(p) PROVE AloneInv'
  <2>1. UNCHANGED <<shown, expSeason, seasonsBy, chBySeason, active, moved>> /\ p \in shown
    BY <1>5 DEF ToggleProject
  <2>2. \A q : Pure(Get("seasons", q)) /\ Get("seasons", q).op = "seasons" /\ Get("seasons", q).id = q
    BY GetsPure DEF Reads
  <2>3. CASE p \in expProj
    <3>1. PICK open \in Unfold(expProj \ {p}, shown) :
            /\ expProj' = open
            /\ reqs' = reqs \cup {Get("seasons", q) : q \in open \ (expProj \ {p})}
      BY <1>5, <2>3 DEF ToggleProject
    <3>2. open \subseteq shown \cup expProj
      BY DEF Unfold
    <3>3. \A q \in reqs' : Pure(q)
      BY <1>2, <2>2, <3>1
    <3>4. \A q \in open : q \in expProj \/ \E x \in reqs' : x.op = "seasons" /\ x.id = q
      BY <2>2, <3>1
    <3>5. expProj' \cup expSeason' \subseteq issued
      BY <1>3, <2>1, <3>1, <3>2
    <3> QED BY <1>2, <2>1, <3>1, <3>3, <3>4, <3>5, ToggleAlone
  <2>4. CASE p \notin expProj
    <3>1. expProj' = expProj \cup {p} /\ reqs' = {Get("seasons", p)}
      BY <1>2, <1>5, <2>4 DEF ToggleProject
    <3>2. (\A q \in reqs' : Pure(q)) /\ \E x \in reqs' : x.op = "seasons" /\ x.id = p
      BY <2>2, <3>1
    <3>3. expProj' \cup expSeason' \subseteq issued
      BY <1>3, <2>1, <3>1
    <3> QED BY <1>2, <2>1, <3>1, <3>2, <3>3, ToggleAlone
  <2> QED BY <2>3, <2>4
<1>6. ASSUME NEW s \in Seasons, ToggleSeason(s) PROVE AloneInv'
  <2>1. /\ UNCHANGED <<shown, expProj, seasonsBy, chBySeason, active, moved>>
        /\ \E x \in SeasonRows : x[1] = s
    BY <1>6 DEF ToggleSeason
  <2>2. s \in issued
    BY <1>2, <2>1, RowsAreLive DEF AloneInv, Known
  <2>3. CASE s \in expSeason
    <3>1. expSeason' = expSeason \ {s} /\ reqs' = {}
      BY <1>2, <1>6, <2>3 DEF ToggleSeason
    <3> QED BY <1>2, <1>3, <2>1, <3>1, ToggleAlone
  <2>4. CASE s \notin expSeason
    <3>1. expSeason' = expSeason \cup {s} /\ reqs' = {Get("chapters", s)}
      BY <1>2, <1>6, <2>4 DEF ToggleSeason
    <3>2. (\A q \in reqs' : Pure(q)) /\ \E x \in reqs' : x.op = "chapters" /\ x.id = s
      BY <3>1, GetsPure DEF Reads
    <3>3. expProj' \cup expSeason' \subseteq issued
      BY <1>3, <2>1, <2>2, <3>1
    <3> QED BY <1>2, <2>1, <3>1, <3>2, <3>3, ToggleAlone
  <2> QED BY <2>3, <2>4
<1>7. ASSUME OnProjects PROVE AloneInv'
  <2>1. CASE Send(Ask("page", "addProject", None, None))
    <3> DEFINE r == Ask("page", "addProject", None, None)
    <3>1. r.by = "page" /\ r.op = "addProject" /\ r.st = "sent" /\ (r.op \in Edits => r.was = active)
      BY AskFields
    <3>2. Clicked(r) /\ Wanted(r)
      BY <3>1 DEF Clicked, Wanted
    <3> HIDE DEF r
    <3>3. Send(r)
      BY <2>1 DEF r
    <3> QED BY <1>4, <3>1, <3>2, <3>3
  <2>2. ASSUME NEW p \in shown, NEW op \in {"addSeason", "rename", "delProject"}, Send(Get(op, p))
        PROVE  AloneInv'
    <3> DEFINE r == Get(op, p)
    <3>1. /\ r.by = "page" /\ r.op = op /\ r.id = p /\ r.st = "sent"
          /\ r.op \in Edits => r.was = active
      BY AskFields DEF Get
    <3> HIDE DEF r
    <3>2. Clicked(r) /\ Wanted(r)
      BY <1>3, <3>1 DEF Clicked, Wanted
    <3>3. Send(r)
      BY <2>2 DEF r
    <3> QED BY <1>4, <3>1, <3>2, <3>3
  <2> QED BY <1>7, <2>1, <2>2 DEF OnProjects
<1>8. ASSUME NEW x \in SeasonRows, OnSeason(x[1], x[2]) PROVE AloneInv'
  <2>1. x[1] \in LiveSeasons /\ seasonOf[x[1]] = x[2] /\ x[1] \in issued
    BY <1>2, RowsAreLive DEF AloneInv, Known
  <2>2. ASSUME NEW op \in {"addChapter", "rename", "delSeason"},
               Send([Get(op, x[1]) EXCEPT !.top = x[2]])
        PROVE  AloneInv'
    <3> DEFINE r == [Get(op, x[1]) EXCEPT !.top = x[2]]
    <3>1. /\ r.by = "page" /\ r.op = op /\ r.id = x[1] /\ r.st = "sent" /\ r.top = x[2]
          /\ r.op \in Edits => r.was = active
      BY AskFields DEF Get
    <3> HIDE DEF r
    <3>2. Clicked(r) /\ Wanted(r)
      BY <2>1, <3>1 DEF Clicked, Wanted
    <3>3. Send(r)
      BY <2>2 DEF r
    <3> QED BY <1>4, <3>1, <3>2, <3>3
  <2>3. ASSUME NEW q \in shown \ {x[2]},
               Send([Ask("page", "moveSeason", x[1], q) EXCEPT !.top = x[2]])
        PROVE  AloneInv'
    <3> DEFINE r == [Ask("page", "moveSeason", x[1], q) EXCEPT !.top = x[2]]
    <3>1. /\ r.by = "page" /\ r.op = "moveSeason" /\ r.id = x[1] /\ r.to = q /\ r.st = "sent"
          /\ r.top = x[2] /\ (r.op \in Edits => r.was = active)
      BY AskFields
    <3> HIDE DEF r
    <3>2. Clicked(r) /\ Wanted(r)
      BY <1>3, <2>1, <3>1 DEF Clicked, Wanted
    <3>3. Send(r)
      BY <2>3 DEF r
    <3> QED BY <1>4, <3>1, <3>2, <3>3
  <2> QED BY <1>8, <2>2, <2>3 DEF OnSeason
<1>9. ASSUME NEW x \in ChapterRows, OnChapter(x[1], x[2], x[3]) PROVE AloneInv'
  <2>1. /\ x[1] \in LiveChapters /\ chapterOf[x[1]].season = x[2]
        /\ ~moved => \A t \in seasonsBy[x[3]] : seasonOf[t] = chapterOf[x[1]].proj
    BY <1>2, RowsAreLive
  <2>2. \A t \in seasonsBy[x[3]] : t \in issued
    BY <1>3 DEF ChapterRows
  <2>3. ASSUME NEW op \in {"open", "rename", "delChapter"},
               Send([Get(op, x[1]) EXCEPT !.up = x[2]])
        PROVE  AloneInv'
    <3> DEFINE r == [Get(op, x[1]) EXCEPT !.up = x[2]]
    <3>1. /\ r.by = "page" /\ r.op = op /\ r.id = x[1] /\ r.st = "sent" /\ r.up = x[2]
          /\ r.op \in Edits => r.was = active
      BY AskFields DEF Get
    <3> HIDE DEF r
    <3>2. Clicked(r) /\ Wanted(r)
      BY <2>1, <3>1 DEF Clicked, Wanted
    <3>3. Send(r)
      BY <2>3 DEF r
    <3> QED BY <1>4, <3>1, <3>2, <3>3
  <2>4. ASSUME NEW t \in seasonsBy[x[3]] \ {x[2]},
               Send([Ask("page", "moveChapter", x[1], t) EXCEPT !.up = x[2]])
        PROVE  AloneInv'
    <3> DEFINE r == [Ask("page", "moveChapter", x[1], t) EXCEPT !.up = x[2]]
    <3>1. /\ r.by = "page" /\ r.op = "moveChapter" /\ r.id = x[1] /\ r.to = t /\ r.st = "sent"
          /\ r.up = x[2] /\ (r.op \in Edits => r.was = active)
      BY AskFields
    <3> HIDE DEF r
    <3>2. Clicked(r) /\ Wanted(r)
      BY <2>1, <2>2, <3>1 DEF Clicked, Wanted
    <3>3. Send(r)
      BY <2>4 DEF r
    <3> QED BY <1>4, <3>1, <3>2, <3>3
  <2> QED BY <1>9, <2>3, <2>4 DEF OnChapter
<1> QED BY <1>5, <1>6, <1>7, <1>8, <1>9 DEF Click

(***************************************************************************)
(* The steps together.                                                     *)
(***************************************************************************)
LEMMA InitAlone == ASSUME Init PROVE AloneInv
<1>1. reqs = {Get("projects", None)} /\ Pure(Get("projects", None))
      /\ Get("projects", None).op = "projects"
  BY GetsPure DEF Init, Reads
<1>2. Serial
  BY <1>1, ReadsAndEdits DEF Serial, Pure
<1>3. \A r \in reqs : Told(r) /\ Clicked(r) /\ Wanted(r)
  BY <1>1 DEF Pure, Told, Clicked, Wanted
<1>4. Known /\ OpenOK
  BY DEF Init, Known, OpenOK
<1>5. ListsOK
  BY <1>1 DEF Init, ListsOK, ProjectsDue
<1>6. ProjectAgrees
  <2>1. PICK of \in [Chapters -> {s \in Seasons : seasonOf[s] # None} \cup {None}] :
         chapterOf = [c \in Chapters |->
             IF of[c] = None THEN NoRow ELSE [season |-> of[c], proj |-> seasonOf[of[c]]]]
    BY DEF Init
  <2> QED BY <2>1 DEF ProjectAgrees, LiveChapters
<1> QED BY <1>2, <1>3, <1>4, <1>5, <1>6 DEF AloneInv

LEMMA NextAlone ==
    ASSUME Patient, TreeInv, TreeInv', PageInv, [Next]_vars
    PROVE  PageInv'
<1>1. CASE OtherAsks
  BY <1>1 DEF OtherAsks, TreeInv, PageInv
<1>2. CASE Click
  <2>1. UNCHANGED news
    BY <1>2 DEF Click, OnProjects, ToggleProject, ToggleSeason, OnSeason, OnChapter, Send, Act
  <2> QED BY <1>2, <2>1, ClickAlone DEF PageInv
<1>3. ASSUME NEW r \in reqs, Serve(r) PROVE PageInv'
  BY <1>3, ServeAlone DEF Serve, ServeSelect, ServeSelectMore, PageInv
<1>4. ASSUME NEW r \in reqs, Answered(r) PROVE PageInv'
  BY <1>4, AnsweredAlone DEF Answered, PageInv
<1>5. CASE UNCHANGED vars
  BY <1>5 DEF vars, tables, page, PageInv, AloneInv, Serial, Known, Told, Clicked, Wanted,
              ListsOK, OpenOK, ProjectAgrees, LiveSeasons, LiveChapters, SeasonsIn, ChaptersIn,
              Refs, IdsOf, ProjectsDue, SeasonsDue, ChaptersDue, SeasonMoves, Takes
<1> QED BY <1>1, <1>2, <1>3, <1>4, <1>5 DEF Next

LEMMA PageInvHolds == ASSUME Patient PROVE Spec => [](TreeInv /\ PageInv)
<1>1. Init => PageInv
  BY InitAlone DEF PageInv
<1>2. TreeInv /\ TreeInv' /\ PageInv /\ [Next]_vars => PageInv'
  BY NextAlone
<1> QED BY <1>1, <1>2, TreeInvHolds, PTL DEF Spec

\* At rest nothing is under way, and so everything is clean.
LEMMA AtRestClean == ASSUME PageInv, Quiet, news = 0 PROVE AloneInv /\ reqs = {} /\ Clean
<1>1. AloneInv /\ reqs = {}
  BY DEF PageInv, AloneInv, Serial, Quiet
<1> QED BY <1>1, AtRest

\* As long as the user waits for the page and nobody else works on the tables, the unfolded
\* tree shows them whenever the page is at rest: every handler of useProjectTree.ts loads
\* again every list that its edit has changed.
THEOREM ExplorerShowsTables == ASSUME Patient PROVE Spec => []ShowsTables
<1>1. TreeInv /\ PageInv => ShowsTables
  <2> SUFFICES ASSUME TreeInv, PageInv, Quiet, news = 0 PROVE ShowsTables
    BY DEF ShowsTables
  <2>1. Clean
    BY AtRestClean
  <2>2. \A p \in Projects : SeasonsIn(p) \subseteq LiveSeasons
    BY TreeAssumption DEF SeasonsIn, LiveSeasons, TreeAssumption
  <2>3. shown \subseteq Projects
    BY DEF TreeInv, PageOK
  <2> QED BY <2>1, <2>2, <2>3 DEF Clean, ShowsTables
<1> QED BY <1>1, PageInvHolds, PTL

\* Under the same condition the open chapter is, at rest, a chapter there is, in the season
\* the page has it in (useProjectTree.ts, the handlers of deletions and of moves).
THEOREM OpenIsLive == ASSUME Patient PROVE Spec => []ActiveIsLive
<1>1. TreeInv /\ PageInv => ActiveIsLive
  BY AtRestClean DEF Clean, ActiveIsLive
<1> QED BY <1>1, PageInvHolds, PTL

\* And no deletion closes a chapter that it has not taken along (useProjectTree.ts,
\* onDelProject, onDelSeason and onDelChapter).
THEOREM OpenStaysOpen == ASSUME Patient PROVE Spec => LiveStaysOpen
<1>1. ASSUME TreeInv, PageInv, [Next]_vars, active # NoChapter, active' = NoChapter, news = 0, ~moved
      PROVE  active.id \notin LiveChapters
  <2>1. AloneInv
    BY <1>1 DEF PageInv
  <2>2. PICK r \in reqs : Answered(r)
    BY <1>1 DEF Next, Click, OnProjects, ToggleProject, ToggleSeason, OnSeason, OnChapter, Send,
                OtherAsks, Serve, ServeSelect, ServeSelectMore, page, vars
  <2>3. ReqOK(r) /\ (r.op \in Edits => r.was = active) /\ Told(r) /\ NoChapter.id = None
    BY <1>1, <2>1 DEF TreeInv, AloneInv, Serial, NoChapter
  <2>4. CASE Deleted(r) /\ r.st = "ok"
    <3>1. Takes(r)
      BY <1>1, <2>3, <2>4 DEF Deleted, Close, Takes, Edits
    <3> QED BY <1>1, <2>1, <3>1 DEF AloneInv, OpenOK
  <2>5. CASE Renamed(r)
    BY <1>1, <2>3, <2>5 DEF Renamed, Edits
  <2>6. CASE Moved(r)
    <3>1. active' = active \/ (r.was.id = r.id /\ r.op = "moveChapter"
                               /\ active' = [r.was EXCEPT !.season = r.to])
      BY <2>6 DEF Moved
    <3>2. active' = active \/ (active'.id = r.id /\ r.id \in Chapters)
      BY <1>1, <2>3, <3>1 DEF ReqOK, AboutRows, Request
    <3> QED BY <1>1, <2>3, <3>2, TreeAssumption DEF TreeAssumption
  <2>7. CASE Loaded(r) /\ r.st = "ok"
    <3>1. active' = active \/ (active' = r.was /\ r.op = "open")
      BY <2>7 DEF Loaded
    <3>2. active' = active \/ (active'.id = r.id /\ r.id \in Chapters)
      BY <2>3, <2>7, <3>1 DEF Told, ReqOK, AboutRows
    <3> QED BY <1>1, <2>3, <3>2, TreeAssumption DEF TreeAssumption
  <2>8. CASE Refused(r) \/ Added(r)
    BY <1>1, <2>8 DEF Refused, Added, page
  <2> QED BY <2>2, <2>4, <2>5, <2>6, <2>7, <2>8 DEF Answered
<1>2. TreeInv /\ PageInv /\ [Next]_vars =>
        [active # NoChapter /\ active' = NoChapter /\ news = 0 /\ ~moved
           => active.id \notin LiveChapters]_vars
  BY <1>1
<1> QED BY <1>2, PageInvHolds, PTL DEF Spec, LiveStaysOpen
=============================================================================

---------------------------- MODULE ProjectTree -----------------------------
(***************************************************************************)
(* Works, seasons and chapters of the builder: the tables (store/repo.py)  *)
(* and the explorer of the page (app/explorer/useProjectTree.ts) with the  *)
(* chapter it keeps open, while another client works on the same tables.   *)
(*                                                                         *)
(* A request is handled on a thread of its own: what it selects it selects *)
(* before the transaction its first write opens (status "read"), and two   *)
(* SELECTs of it are two steps (status "half" in between).                 *)
(* Foreign keys are enforced: a transaction that would leave a row with a  *)
(* dangling season or project fails as a whole.  Titles, idx and the       *)
(* choice of the current work are left out; what a handler of the page     *)
(* captured goes along with its request.                                   *)
(***************************************************************************)
EXTENDS Integers

CONSTANTS
    Projects, Seasons, Chapters,   \* the ids there are; each is issued once
    None,
    Patient,     \* does the user wait for the page's requests before the next click?
    MaxActs,     \* bounds of the explored instance: clicks,
    MaxNews,     \* requests of the other client,
    MaxBeside    \* and clicks up to and after the first of those

ASSUME TreeAssumption ==
    /\ None \notin Projects \cup Seasons \cup Chapters
    /\ Projects \cap Seasons = {} /\ Projects \cap Chapters = {} /\ Seasons \cap Chapters = {}
    /\ Patient \in BOOLEAN
    /\ MaxActs \in Nat /\ MaxNews \in Nat /\ MaxBeside \in Nat

VARIABLES
    projects,    \* server: ids of the live works
    seasonOf,    \* server: season -> its project, None when there is no such row
    chapterOf,   \* server: chapter -> [season, proj], both None when there is no such row
    issued,      \* server: ids that were given out
    reqs,        \* requests under way
    shown,       \* page: api.projects
    expProj, expSeason,   \* page: what is unfolded
    seasonsBy,   \* page: project -> seasons listed under it
    chBySeason,  \* page: season -> [id, proj] of the chapters listed under it
    active,      \* page: the open chapter, [id, season, proj]
    passed,      \* history: seasons moved, last, while a chapter was about to enter them
    moved,       \* history: did the page move a season of which it lists or has open a chapter?
    acts, news

tables == <<projects, seasonOf, chapterOf, issued>>
page   == <<shown, expProj, expSeason, seasonsBy, chBySeason, active, moved>>
vars   == <<tables, passed, reqs, page, acts, news>>

NoChapter   == [id |-> None, season |-> None, proj |-> None]
NoRow       == [season |-> None, proj |-> None]
LiveSeasons  == {s \in Seasons : seasonOf[s] # None}
LiveChapters == {c \in Chapters : chapterOf[c] # NoRow}
SeasonsIn(p)  == {s \in Seasons : seasonOf[s] = p}
ChaptersIn(s) == {c \in Chapters : chapterOf[c].season = s}
\* Seeded fault: a chapter is listed under its season.
RefsBySeason(C) == {[id |-> c, proj |-> chapterOf[c].season] : c \in C}

Refs(C)      == {[id |-> c, proj |-> chapterOf[c].proj] : c \in C}
IdsOf(refs)  == {x.id : x \in refs}
Fresh(S)     == S \ issued

Reads  == {"projects", "seasons", "chapters", "open"}
Moves  == {"moveSeason", "moveChapter"}
Edits  == {"addProject", "addSeason", "addChapter", "rename",
           "delProject", "delSeason", "delChapter"} \cup Moves
Ids    == Projects \cup Seasons \cup Chapters \cup {None}

Ref == [id : Chapters, proj : Projects]   \* a listed chapter

\* A request: of the page or not, on id and to, with the rest of the clicked row (up: its
\* season; top: its project) and the open chapter captured; then what the server read.
\* The answer to "open" comes in was.
Request == [by : {"page", "other"}, op : Reads \cup Edits, id : Ids, to : Ids, up : Ids,
            top : Ids, was : [id : Ids, season : Ids, proj : Ids],
            st : {"sent", "half", "read", "ok", "no"}, new : Ids, proj : Ids, ss : SUBSET Ids,
            cs : SUBSET Ref]

Ask(by, op, id, to) ==
    [by |-> by, op |-> op, id |-> id, to |-> to, up |-> None, top |-> None,
     was |-> IF by = "page" /\ op \in Edits THEN active ELSE NoChapter, st |-> "sent", new |-> None,
     proj |-> None, ss |-> {}, cs |-> {}]
Get(op, id) == Ask("page", op, id, None)

\* With a tree of any shape over some of the ids, and the page just mounted.
Init ==
    /\ projects \in SUBSET Projects
    /\ seasonOf \in [Seasons -> projects \cup {None}]
    /\ \E of \in [Chapters -> {s \in Seasons : seasonOf[s] # None} \cup {None}] :
         chapterOf = [c \in Chapters |->
             IF of[c] = None THEN NoRow ELSE [season |-> of[c], proj |-> seasonOf[of[c]]]]
    /\ issued = projects \cup LiveSeasons \cup LiveChapters
    /\ shown = {} /\ expProj = {} /\ expSeason = {}
    /\ seasonsBy = [p \in Projects |-> {}]
    /\ chBySeason = [s \in Seasons |-> {}]
    /\ active = NoChapter
    /\ passed = {} /\ moved = FALSE
    /\ reqs = {Get("projects", None)}
    /\ acts = 0 /\ news = 0

(***************************************************************************)
(* The server.                                                             *)
(***************************************************************************)
\* The other client's requests end with their answer.
Becomes(r, q) ==
    reqs' = (reqs \ {r}) \cup (IF q.by = "other" /\ q.st \in {"ok", "no"} THEN {} ELSE {q})
Answer(r, st) == Becomes(r, [r EXCEPT !.st = st])

\* The SELECTs in front of the first write.
ServeSelect(r) ==
    /\ r.st = "sent"
    /\ \/ /\ r.op = "addChapter"
          /\ Becomes(r, IF r.id \in LiveSeasons
                        THEN [r EXCEPT !.st = "read", !.proj = seasonOf[r.id]]
                        ELSE [r EXCEPT !.st = "no"])
       \/ /\ r.op = "moveChapter"
          /\ Becomes(r, IF r.to \in LiveSeasons
                        THEN [r EXCEPT !.st = "read", !.proj = seasonOf[r.to]]
                        ELSE [r EXCEPT !.st = "no"])
       \/ /\ r.op = "delSeason"
          /\ Becomes(r, [r EXCEPT !.st = "read", !.ss = {r.id}, !.cs = Refs(ChaptersIn(r.id))])
       \/ /\ r.op = "delProject"
          /\ Becomes(r, [r EXCEPT !.st = "half", !.ss = SeasonsIn(r.id)])
    /\ UNCHANGED <<tables, passed, page, acts, news>>

\* delete_project selects the chapters after the seasons, and of the work.
ServeSelectMore(r) ==
    /\ r.st = "half" /\ r.op = "delProject"
    /\ Becomes(r, [r EXCEPT !.st = "read", !.cs = Refs({c \in Chapters : chapterOf[c].proj = r.id})])
    /\ UNCHANGED <<tables, passed, page, acts, news>>

\* Do the rows' foreign keys hold in these tables?
KeysHold(P, sOf, cOf) ==
    /\ \A s \in Seasons : sOf[s] \in P \cup {None}
    /\ \A c \in Chapters : cOf[c] # NoRow => sOf[cOf[c].season] # None /\ cOf[c].proj \in P

\* Seeded fault: the connection does not enforce foreign keys.
CommitUnchecked(r, P, sOf, cOf, new) ==
    /\ projects' = P /\ seasonOf' = sOf /\ chapterOf' = cOf
    /\ issued' = issued \cup (new \ {None})
    /\ Answer(r, "ok")

Commit(r, P, sOf, cOf, new) ==
    IF KeysHold(P, sOf, cOf)
    THEN /\ projects' = P /\ seasonOf' = sOf /\ chapterOf' = cOf
         /\ issued' = issued \cup (new \ {None})
         /\ Answer(r, "ok")
    ELSE Answer(r, "no") /\ UNCHANGED tables

WithoutSeasons(S)  == [s \in Seasons |-> IF s \in S THEN None ELSE seasonOf[s]]
WithoutChapters(C) == [c \in Chapters |-> IF c \in C THEN NoRow ELSE chapterOf[c]]

\* create_project (with its first season) and create_season.
ServeAdd(r) ==
    /\ r.st = "sent" /\ r.op \in {"addProject", "addSeason"}
    /\ \E p \in IF r.op = "addProject" THEN Fresh(Projects) ELSE {r.id}, s \in Fresh(Seasons) :
         Commit(r, IF r.op = "addProject" THEN projects \cup {p} ELSE projects,
                [seasonOf EXCEPT ![s] = p], chapterOf,
                IF r.op = "addProject" THEN {p, s} ELSE {s})

\* create_chapter: the insert (its first version comes in a transaction of its own).
ServeAddChapter(r) ==
    /\ r.st = "read" /\ r.op = "addChapter"
    /\ \E c \in Fresh(Chapters) :
         LET cOf == [chapterOf EXCEPT ![c] = [season |-> r.id, proj |-> r.proj]]
         IN IF KeysHold(projects, seasonOf, cOf)
            THEN /\ chapterOf' = cOf /\ issued' = issued \cup {c}
                 /\ Becomes(r, [r EXCEPT !.st = "ok", !.new = c])
                 /\ UNCHANGED <<projects, seasonOf>>
            ELSE Answer(r, "no") /\ UNCHANGED tables

ServeDelete(r) ==
    \/ /\ r.st = "sent" /\ r.op = "delChapter"
       /\ Commit(r, projects, seasonOf, WithoutChapters({r.id}), {})
    \/ /\ r.st = "read" /\ r.op \in {"delSeason", "delProject"}
       /\ Commit(r, projects \ {r.id}, WithoutSeasons(r.ss), WithoutChapters(IdsOf(r.cs)), {})

\* The season a chapter is about to be put in; is one about to be put in s, with the work that
\* was read for it?
Into(r)   == IF r.op = "addChapter" THEN r.id ELSE r.to
Enters(r) == r.st = "read" /\ r.op \in {"addChapter", "moveChapter"}
Pass(r) ==
    passed' = CASE r.to \notin projects -> passed
                [] r.to \in projects /\ (\E q \in reqs : Enters(q) /\ Into(q) = r.id) -> passed \cup {r.id}
                [] OTHER -> passed \ {r.id}

\* Seeded fault: the chapters keep their project when the season moves.
ServeMoveAlone(r) ==
    \/ /\ r.st = "sent" /\ r.op = "moveSeason" /\ Pass(r)
       /\ Commit(r, projects,
                 IF r.id \in LiveSeasons THEN [seasonOf EXCEPT ![r.id] = r.to] ELSE seasonOf,
                 chapterOf, {})
    \/ /\ r.st = "read" /\ r.op = "moveChapter" /\ UNCHANGED passed
       /\ Commit(r, projects, seasonOf,
                 IF r.id \in LiveChapters
                 THEN [chapterOf EXCEPT ![r.id] = [season |-> r.to, proj |-> r.proj]]
                 ELSE chapterOf, {})

\* move_season takes the chapters along; an UPDATE of a row that is gone does nothing.
ServeMove(r) ==
    \/ /\ r.st = "sent" /\ r.op = "moveSeason" /\ Pass(r)
       /\ Commit(r, projects,
                 IF r.id \in LiveSeasons THEN [seasonOf EXCEPT ![r.id] = r.to] ELSE seasonOf,
                 [c \in Chapters |-> IF c \in ChaptersIn(r.id)
                                     THEN [chapterOf[c] EXCEPT !.proj = r.to] ELSE chapterOf[c]],
                 {})
    \/ /\ r.st = "read" /\ r.op = "moveChapter" /\ UNCHANGED passed
       /\ Commit(r, projects, seasonOf,
                 IF r.id \in LiveChapters
                 THEN [chapterOf EXCEPT ![r.id] = [season |-> r.to, proj |-> r.proj]]
                 ELSE chapterOf, {})

ServeRead(r) ==
    /\ r.st = "sent" /\ r.op \in Reads \cup {"rename"}
    /\ Becomes(r, [r EXCEPT
         !.st = IF r.op = "open" /\ r.id \notin LiveChapters THEN "no" ELSE "ok",
         !.ss = CASE r.op = "projects" -> projects
                  [] r.op = "seasons"  -> SeasonsIn(r.id)
                  [] OTHER -> {},
         !.cs = IF r.op = "chapters" THEN Refs(ChaptersIn(r.id)) ELSE {},
         !.was = IF r.op = "open" /\ r.id \in LiveChapters
                 THEN [id |-> r.id, season |-> chapterOf[r.id].season,
                       proj |-> chapterOf[r.id].proj] ELSE @])
    /\ UNCHANGED tables

Serve(r) ==
    \/ ServeSelect(r) \/ ServeSelectMore(r)
    \/ /\ \/ ServeMove(r)
          \/ /\ ServeAdd(r) \/ ServeAddChapter(r) \/ ServeDelete(r) \/ ServeRead(r)
             /\ UNCHANGED passed
       /\ UNCHANGED <<page, acts, news>>

\* Another client's request, on rows it may have seen.
OtherAsks ==
    /\ news < MaxNews /\ acts <= MaxBeside
    /\ news' = news + 1
    /\ \E op \in Edits \ {"rename"}, id, to \in Ids :
         /\ id \in CASE op = "addProject" -> {None}
                     [] op \in {"addSeason", "delProject"} -> Projects \cap issued
                     [] op \in {"addChapter", "delSeason", "moveSeason"} -> Seasons \cap issued
                     [] OTHER -> Chapters \cap issued
         /\ to \in CASE op = "moveSeason" -> Projects \cap issued
                     [] op = "moveChapter" -> Seasons \cap issued
                     [] OTHER -> {None}
         /\ reqs' = reqs \cup {Ask("other", op, id, to)}
    /\ UNCHANGED <<tables, passed, page, acts>>

(***************************************************************************)
(* The page: clicks, on rows that are displayed.                           *)
(***************************************************************************)
SeasonRows  == {x \in Seasons \X shown : x[2] \in expProj /\ x[1] \in seasonsBy[x[2]]}
ChapterRows == {x \in Chapters \X Seasons \X Projects :
                  /\ \E y \in SeasonRows : y[1] = x[2]
                  /\ x[2] \in expSeason /\ [id |-> x[1], proj |-> x[3]] \in chBySeason[x[2]]}

\* The effect that unfolds the first work when none is unfolded.
Unfold(open, list) ==
    IF open # {} \/ list = {} THEN {open} ELSE {{p} : p \in list}

Act ==
    /\ acts < IF news = 0 THEN MaxActs ELSE MaxBeside
    /\ Patient => \A r \in reqs : r.by = "other"
    /\ acts' = acts + 1
    /\ UNCHANGED <<tables, passed, news>>

ToggleProject(p) ==
    /\ Act /\ p \in shown
    /\ IF p \in expProj
       THEN \E open \in Unfold(expProj \ {p}, shown) :
              /\ expProj' = open
              /\ reqs' = reqs \cup {Get("seasons", q) : q \in open \ (expProj \ {p})}
       ELSE /\ expProj' = expProj \cup {p}
            /\ reqs' = reqs \cup {Get("seasons", p)}
    /\ UNCHANGED <<shown, expSeason, seasonsBy, chBySeason, active, moved>>

ToggleSeason(s) ==
    /\ Act /\ \E x \in SeasonRows : x[1] = s
    /\ IF s \in expSeason
       THEN expSeason' = expSeason \ {s} /\ UNCHANGED reqs
       ELSE expSeason' = expSeason \cup {s} /\ reqs' = reqs \cup {Get("chapters", s)}
    /\ UNCHANGED <<shown, expProj, seasonsBy, chBySeason, active, moved>>

Send(r) == Act /\ reqs' = reqs \cup {r} /\ UNCHANGED page

OnProjects ==
    \/ Send(Ask("page", "addProject", None, None))
    \/ \E p \in shown, op \in {"addSeason", "rename", "delProject"} : Send(Get(op, p))

OnSeason(s, p) ==
    \/ \E op \in {"addChapter", "rename", "delSeason"} :
         Send([Get(op, s) EXCEPT !.top = p])
    \/ \E q \in shown \ {p} : Send([Ask("page", "moveSeason", s, q) EXCEPT !.top = p])

OnChapter(c, s, p) ==
    \/ \E op \in {"open", "rename", "delChapter"} : Send([Get(op, c) EXCEPT !.up = s])
    \/ \E t \in seasonsBy[p] \ {s} : Send([Ask("page", "moveChapter", c, t) EXCEPT !.up = s])

Click ==
    \/ OnProjects
    \/ \E p \in Projects : ToggleProject(p)
    \/ \E s \in Seasons : ToggleSeason(s)
    \/ \E x \in SeasonRows : OnSeason(x[1], x[2])
    \/ \E x \in ChapterRows : OnChapter(x[1], x[2], x[3])

(***************************************************************************)
(* The page: answers.  A request that is refused throws and ends its       *)
(* handler.                                                                *)
(***************************************************************************)
Then(r, gets) == reqs' = (reqs \ {r}) \cup gets

\* Seeded faults: a deletion never closes the open chapter, and it always does.
CloseNever(r, ofIt)  == UNCHANGED active
CloseAlways(r, ofIt) == active' = IF r.was # NoChapter THEN NoChapter ELSE active

Close(r, ofIt) == active' = IF r.was # NoChapter /\ ofIt THEN NoChapter ELSE active

Refused(r) ==
    /\ r.st = "no"
    /\ Then(r, {})
    /\ UNCHANGED page

Added(r) ==
    /\ \/ /\ r.op = "addProject" /\ Then(r, {Get("projects", None)})
          /\ UNCHANGED <<expProj, expSeason>>
       \/ /\ r.op = "addSeason" /\ Then(r, {Get("seasons", r.id)})
          /\ expProj' = expProj \cup {r.id} /\ UNCHANGED expSeason
       \/ /\ r.op = "addChapter" /\ Then(r, {[Get("chapters", r.id) EXCEPT !.new = r.new]})
          /\ expSeason' = expSeason \cup {r.id} /\ UNCHANGED expProj
    /\ UNCHANGED <<shown, seasonsBy, chBySeason, active, moved>>

\* Renaming the open chapter puts back, with its new title, the one that was open.
Renamed(r) ==
    /\ r.op = "rename"
    /\ Then(r, {CASE r.id \in Projects -> Get("projects", None)
                  [] r.id \in Seasons  -> Get("seasons", r.top)
                  [] OTHER -> Get("chapters", r.up)})
    /\ active' = IF r.was # NoChapter /\ r.was.id = r.id THEN r.was ELSE active
    /\ UNCHANGED <<shown, expProj, expSeason, seasonsBy, chBySeason, moved>>

Deleted(r) ==
    /\ \/ /\ r.op = "delProject" /\ Close(r, r.was.proj = r.id)
          /\ \E open \in Unfold(expProj \ {r.id}, shown) :
               /\ expProj' = open
               /\ Then(r, {Get("projects", None)}
                          \cup {Get("seasons", q) : q \in open \ (expProj \ {r.id})})
       \/ /\ r.op = "delSeason" /\ Then(r, {Get("seasons", r.top)})
          /\ Close(r, r.was.season = r.id) /\ UNCHANGED expProj
       \/ /\ r.op = "delChapter" /\ Then(r, {Get("chapters", r.up)})
          /\ Close(r, r.was.id = r.id) /\ UNCHANGED expProj
    /\ UNCHANGED <<shown, expSeason, seasonsBy, chBySeason, moved>>

\* Seeded fault: only the list a row has left is loaded again.
MovedAway(r) ==
    /\ \/ /\ r.op = "moveSeason" /\ Then(r, {Get("seasons", r.top)})
          /\ expProj' = expProj \cup {r.to}
          /\ moved' = (moved \/ active.season = r.id \/ chBySeason[r.id] # {})
          /\ UNCHANGED <<expSeason, active>>
       \/ /\ r.op = "moveChapter" /\ Then(r, {Get("chapters", r.up)})
          /\ expSeason' = expSeason \cup {r.to}
          /\ active' = IF r.was.id = r.id THEN [r.was EXCEPT !.season = r.to] ELSE active
          /\ UNCHANGED <<expProj, moved>>
    /\ UNCHANGED <<shown, seasonsBy, chBySeason>>

\* Only the move of a chapter brings the open one up to date.  That of a season leaves it
\* with its old work, and the chapters listed under the season as well: "to another season"
\* then offers those of the old work (ExplorerTree.tsx:78).
Moved(r) ==
    /\ \/ /\ r.op = "moveSeason" /\ Then(r, {Get("seasons", r.top), Get("seasons", r.to)})
          /\ expProj' = expProj \cup {r.to}
          /\ moved' = (moved \/ active.season = r.id \/ chBySeason[r.id] # {})
          /\ UNCHANGED <<expSeason, active>>
       \/ /\ r.op = "moveChapter" /\ Then(r, {Get("chapters", r.up), Get("chapters", r.to)})
          /\ expSeason' = expSeason \cup {r.to}
          /\ active' = IF r.was.id = r.id THEN [r.was EXCEPT !.season = r.to] ELSE active
          /\ UNCHANGED <<expProj, moved>>
    /\ UNCHANGED <<shown, seasonsBy, chBySeason>>

Loaded(r) ==
    \/ /\ r.op = "seasons" /\ Then(r, {})
       /\ seasonsBy' = [seasonsBy EXCEPT ![r.id] = r.ss]
       /\ UNCHANGED <<shown, expProj, expSeason, chBySeason, active, moved>>
    \/ /\ r.op = "chapters" /\ Then(r, IF r.new = None THEN {} ELSE {Get("open", r.new)})
       /\ chBySeason' = [chBySeason EXCEPT ![r.id] = r.cs]
       /\ UNCHANGED <<shown, expProj, expSeason, seasonsBy, active, moved>>
    \/ /\ r.op = "open" /\ Then(r, {})
       /\ active' = r.was
       /\ UNCHANGED <<shown, expProj, expSeason, seasonsBy, chBySeason, moved>>
    \/ /\ r.op = "projects" /\ shown' = r.ss
       /\ \E open \in Unfold(expProj, r.ss) :
            /\ expProj' = open
            /\ Then(r, {Get("seasons", q) : q \in open \ expProj})
       /\ UNCHANGED <<expSeason, seasonsBy, chBySeason, active, moved>>

Answered(r) ==
    /\ r.by = "page"
    /\ \/ Refused(r)
       \/ r.st = "ok" /\ (Added(r) \/ Renamed(r) \/ Deleted(r) \/ Moved(r) \/ Loaded(r))
    /\ UNCHANGED <<tables, passed, acts, news>>

Next ==
    \/ Click
    \/ OtherAsks
    \/ \E r \in reqs : Serve(r) \/ Answered(r)

Spec == Init /\ [][Next]_vars

(***************************************************************************)
(* Properties.                                                             *)
(***************************************************************************)
\* The types of the variables.
TypeOK ==
    /\ projects \subseteq Projects
    /\ seasonOf \in [Seasons -> Projects \cup {None}]
    /\ chapterOf \in [Chapters -> [season : Seasons \cup {None}, proj : Projects \cup {None}]]
    /\ issued \subseteq Projects \cup Seasons \cup Chapters
    /\ passed \subseteq Seasons /\ reqs \subseteq Request
    /\ shown \subseteq Projects /\ expProj \subseteq Projects /\ expSeason \subseteq Seasons
    /\ seasonsBy \in [Projects -> SUBSET Seasons]
    /\ chBySeason \in [Seasons -> SUBSET Ref]
    /\ active \in [id : Ids, season : Ids, proj : Ids]
    /\ moved \in BOOLEAN /\ acts \in Nat /\ news \in Nat

\* No season is left without its work and no chapter without its season and work, although
\* deletions collect the rows before their transaction and others add and move rows.
NoOrphans == KeysHold(projects, seasonOf, chapterOf)

\* What the docstrings of move_season and move_chapter say (repo.py:83 and :136), chapters
\* storing the work next to the season: that a chapter belongs to the work of its season.
ProjectAgrees == \A c \in LiveChapters : chapterOf[c].proj = seasonOf[chapterOf[c].season]

\* What move_season, move_chapter and create_chapter keep of that (repo.py:82-88, 92-98 and
\* 135-144), however they overlap with each other and with deletions: a chapter belongs to the
\* work of its season unless the season, when it last moved, was one that a chapter was just
\* entering with the work that had been read for it.  Moving the season again repairs it.
AgreeUnlessPassed ==
    \A c \in LiveChapters :
        chapterOf[c].season \in passed \/ chapterOf[c].proj = seasonOf[chapterOf[c].season]

Quiet == \A r \in reqs : r.by = "other"

\* When the page is at rest and nobody else works on the tables, the unfolded tree shows
\* them: every handler reloads every list it has changed.
ShowsTables ==
    Quiet /\ news = 0 =>
        /\ shown = projects
        /\ \A p \in shown \cap expProj :
             /\ seasonsBy[p] = SeasonsIn(p)
             /\ \A s \in SeasonsIn(p) \cap expSeason : IdsOf(chBySeason[s]) = ChaptersIn(s)

\* When nobody else deletes, a deletion closes the open chapter exactly when it takes it
\* along (useProjectTree.ts, onDelProject, onDelSeason, onDelChapter compare the copy the page
\* has of the chapter), unless the page's copies name another work since a season was moved.
ActiveIsLive ==
    Quiet /\ news = 0 /\ ~moved /\ active # NoChapter =>
        active.id \in LiveChapters /\ active.season = chapterOf[active.id].season
LiveStaysOpen ==
    [][active # NoChapter /\ active' = NoChapter /\ news = 0 /\ ~moved
         => active.id \notin LiveChapters]_vars
=============================================================================
